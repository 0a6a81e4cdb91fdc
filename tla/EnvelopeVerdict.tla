--------------------------- MODULE EnvelopeVerdict --------------------------
(***************************************************************************)
(* What a result of converge says about the surface: module Converge with  *)
(* the envelopes of module EnvelopeAssert.  A fact's number becomes the    *)
(* value it is observed to have, or no fact at all; the pre state is the   *)
(* surface as it was when nothing had been written yet.                    *)
(***************************************************************************)
EXTENDS Converge, EnvelopeAssert

CONSTANTS Clauses,      \* the envelopes, by name
          Observed,     \* value of each fact at each version, or Missing
          Declared      \* the category each fact is declared with

Missing == <<"missing">>

\* What an observation reports; facts as the dotted keys they are.
Shown(observation) ==
    [f \in {g \in DOMAIN observation : Observed[g][observation[g]] # Missing} |->
        Observed[f][observation[f]]]

Pre == Shown([f \in Facts |-> 0])

\* The executor hands on the categories of the facts it found before: one that
\* appears with the change has none, whatever it was declared with.
Categories == [f \in DOMAIN Pre |-> Declared[f]]

Verdict(e, post) == AssertEnvelope(Clauses[e], Pre, post, Categories)

AssessOf == [e \in Envelopes |-> [s \in Surfaces |-> Verdict(e, Shown(s))]]

\* A referenced key that no collector reports is absent from every poll.
NormalizedOf == [e \in Envelopes |-> NormalizedKeys(Clauses[e]) \cap Facts]

ASSUME VerdictAssumption ==
    /\ Facts \subseteq DottedKeys
    /\ Assess = AssessOf /\ Normalized = NormalizedOf
    /\ \A e \in Envelopes : Parses(Clauses[e])
    /\ \A f \in Facts : \A v, w \in Versions : v # w => Observed[f][v] # Observed[f][w]

---------------------------------------------------------------------------
\* `reading` is still the observation that was asserted.
JustAsserted ==
    pc \in {"sleeping", "done"} /\ frozen # Nothing /\ reproduced = 0 /\ Complete

\* A satisfied result says more than that the observations agreed: there was a
\* moment, as the last reproduction began, at which every clause held of the
\* surface itself, though no observation was taken at one moment and the
\* assertion saw facts that polling does not compare.
SatisfiedAtOneMoment ==
    settles /\ result = "satisfied" =>
        Outcomes(Clauses[envelope], Pre, Shown(began)) \subseteq {"satisfied"}

\* An outcome is grounded in what was observed (envelope.py 62-75): had the
\* observation carried the facts it lacks, whatever their values, each require
\* and derive clause that was satisfied or violated would still be.
OutcomesStand ==
    JustAsserted =>
        LET post    == Shown(reading)
            absent  == Facts \ DOMAIN post
            options == [f \in absent |-> {Observed[f][v] : v \in Versions} \ {Missing}]
            clauses == {c.predicate : c \in Clauses[envelope].require}
                         \cup Clauses[envelope].derive
        IN  \A more \in {m \in [absent -> UNION {options[f] : f \in absent}] :
                            \A f \in absent : m[f] \in options[f]} :
               \A p \in clauses :
                  LET outcome == Holds(p, Bindings(Pre, post))
                  IN  outcome = "unresolved"
                        \/ Holds(p, Bindings(Pre, [f \in Facts |-> IF f \in absent THEN more[f]
                                                            ELSE post[f]])) = outcome

\* An observer that loses a fact nobody predicted to change does not pass: no
\* observation that is satisfied stays so without it (envelope.py 18-22).
ErasureIsCaught ==
    JustAsserted =>
        LET post == Shown(reading)
        IN  \A f \in DOMAIN Pre \cap DOMAIN post :
               ~IsPredicted(f, Clauses[envelope])
                 /\ Category(Categories, f) \notin Clauses[envelope].allow
               => Verdict(envelope, [g \in DOMAIN post \ {f} |-> post[g]]) # "satisfied"

\* "Any observed change not covered by require, allow, or derive is a
\* violation" (docs/contract.md 94): a satisfied result has seen none.
ObservedChangesAreCovered ==
    result = "satisfied" =>
        Unclassified(Clauses[envelope], Pre, Shown(reading), Categories) = {}

=============================================================================
