------------------------------ MODULE Converge ------------------------------
(***************************************************************************)
(* converge of src/src/wcd/envelope.py: poll the surface until two         *)
(* observations in a row agree, freeze what they saw, assert the envelope  *)
(* on it once, and reproduce it.                                           *)
(*                                                                         *)
(* An observation is not atomic: the collectors read one fact after the    *)
(* other while the surface goes on changing (directory and SYSVOL          *)
(* propagation), so a single observation may mix facts of different        *)
(* moments.  A fact's value is the number of the write it shows.  Modules   *)
(* GpoSnapshot and Observation are about the single observation.           *)
(***************************************************************************)
EXTENDS Naturals, ConvergeOutcomes

CONSTANTS Facts,          \* fact keys the collectors read
          Envelopes,      \* envelopes the loop may be given
          Normalized,     \* per envelope, the facts its clauses refer to
                          \* (_normalized_keys)
          MaxVersion,     \* values of a fact: 0..MaxVersion
          Assess,         \* assert_envelope, as envelope, observation -> status
          Window, Poll,   \* window_seconds and poll_seconds
          Reproduce,      \* reproductions asked for
          MaxPolls,       \* MAX_CONVERGE_POLLS
          MaxNow          \* bound on the clock

Versions == 0..MaxVersion
Surfaces == [Facts -> Versions]
Statuses == {"satisfied", "disproven", "indeterminate"}

ASSUME ConvergeAssumption ==
    /\ Normalized \in [Envelopes -> (SUBSET Facts) \ {{}}]
                                                       \* parse_envelope
    /\ MaxVersion \in Nat
    /\ Assess \in [Envelopes -> [Surfaces -> Statuses]]
    /\ Window \in Nat /\ Poll \in Nat /\ MaxNow \in Nat
    /\ Reproduce \in Nat \ {0}                         \* _parse_convergence
    /\ MaxPolls \in Nat \ {0}

VARIABLES
    surface,      \* the facts as they are now
    settles,      \* a changed fact never shows an earlier value again (fixed)
    envelope,     \* the envelope to be asserted (fixed)
    ticks,        \* the clock advances (fixed; an injected one may not)
    pc,           \* "polling", "sleeping", "reproducing" or "done"
    reading,      \* the observation being collected
    previous,     \* the last poll's normalized facts, or Nothing
    frozen,       \* the frozen normalized facts, or Nothing
    polls, reproduced, now,
    result,       \* the status returned, or "none", or "raised"
    assertion,    \* the assertion's status, or "none"
    began         \* ghost: the surface when this observation began

sourceVars   == <<surface, settles, envelope, ticks>>
convergeVars == <<sourceVars, pc, reading, previous, frozen, polls,
                  reproduced, now, result, assertion, began>>

Nothing == <<>>

Watched == Normalized[envelope]

Seen(observation) == [f \in Watched |-> observation[f]]

Complete == DOMAIN reading = Facts

Assessed == Assess[envelope][reading]

ConvergeInit ==
    /\ surface \in {[f \in Facts |-> 0]}
    /\ settles \in BOOLEAN /\ ticks \in BOOLEAN /\ envelope \in Envelopes
    /\ pc = "polling"
    /\ reading = Nothing /\ previous = Nothing /\ frozen = Nothing
    /\ polls = 0 /\ reproduced = 0 /\ now = 0
    /\ result = "none" /\ assertion = "none"
    /\ began = surface

---------------------------------------------------------------------------
\* The surface and the clock.

SurfaceChanges ==
    /\ \E f \in Facts :
          \/ surface[f] < MaxVersion
             /\ surface' = [surface EXCEPT ![f] = @ + 1]
          \/ surface[f] = MaxVersion /\ ~settles
             /\ surface' = [surface EXCEPT ![f] = 0]
    /\ UNCHANGED <<settles, envelope, ticks, pc, reading, previous, frozen, polls,
                   reproduced, now, result, assertion, began>>

\* Collecting an observation takes time.
TimePasses ==
    /\ pc \in {"polling", "reproducing"} /\ ticks /\ now < MaxNow
    /\ now' = now + 1
    /\ UNCHANGED <<sourceVars, pc, reading, previous, frozen, polls,
                   reproduced, result, assertion, began>>

---------------------------------------------------------------------------
\* observe: the facts one by one, in whatever order the fact plan has them.

ReadFact(f) ==
    /\ pc \in {"polling", "reproducing"}
    /\ f \notin DOMAIN reading
    /\ reading' = [g \in DOMAIN reading \cup {f} |->
                      IF g = f THEN surface[f] ELSE reading[g]]
    /\ UNCHANGED <<sourceVars, pc, previous, frozen, polls, reproduced, now,
                   result, assertion, began>>

\* An observer's exception propagates to the caller.
ObserverRaises ==
    /\ pc \in {"polling", "reproducing"} /\ ~Complete
    /\ pc' = "done" /\ result' = "raised"
    /\ UNCHANGED <<sourceVars, reading, previous, frozen, polls, reproduced,
                   now, assertion, began>>

\* Mutant: the first observation is frozen as it is.
FreezesFirst ==
    /\ pc = "polling" /\ Complete
    /\ frozen' = Seen(reading) /\ assertion' = Assessed
    /\ \/ Assessed = "satisfied" /\ pc' = "sleeping" /\ UNCHANGED result
       \/ Assessed # "satisfied" /\ pc' = "done" /\ result' = Assessed
    /\ polls' = polls + 1
    /\ UNCHANGED <<sourceVars, reading, previous, reproduced, now, began>>

\* Mutant: clauses left unresolved do not stop the reproduction.
FreezesUnresolved ==
    /\ pc = "polling" /\ Complete /\ previous = Seen(reading)
    /\ frozen' = Seen(reading) /\ assertion' = Assessed
    /\ \/ Assessed # "disproven" /\ pc' = "sleeping" /\ UNCHANGED result
       \/ Assessed = "disproven" /\ pc' = "done" /\ result' = "disproven"
    /\ polls' = polls + 1
    /\ UNCHANGED <<sourceVars, reading, previous, reproduced, now, began>>

\* Two observations in a row agree on the normalized facts: freeze them and
\* assert the whole observation.  Anything but satisfied ends here.
Freeze ==
    /\ pc = "polling" /\ Complete /\ previous = Seen(reading)
    /\ frozen' = Seen(reading)
    /\ assertion' = Assessed
    /\ \/ Assessed = "satisfied" /\ pc' = "sleeping" /\ UNCHANGED result
       \/ Assessed # "satisfied" /\ pc' = "done" /\ result' = Assessed
    /\ polls' = polls + 1
    /\ UNCHANGED <<sourceVars, reading, previous, reproduced, now, began>>

\* Mutant: the window is checked as of now, not as of the next poll's start.
PollAgainUntilNow ==
    /\ pc = "polling" /\ Complete /\ previous # Seen(reading)
    /\ polls + 1 < MaxPolls /\ now <= Window
    /\ previous' = Seen(reading)
    /\ polls' = polls + 1
    /\ pc' = "sleeping"
    /\ UNCHANGED <<sourceVars, reading, frozen, reproduced, now, result,
                   assertion, began>>

PollAgain ==
    /\ pc = "polling" /\ Complete /\ previous # Seen(reading)
    /\ polls + 1 < MaxPolls /\ now + Poll <= Window
    /\ previous' = Seen(reading)
    /\ polls' = polls + 1
    /\ pc' = "sleeping"
    /\ UNCHANGED <<sourceVars, reading, frozen, reproduced, now, result,
                   assertion, began>>

\* The poll bound or the window is used up: no frozen state to assert.
GiveUp ==
    /\ pc = "polling" /\ Complete /\ previous # Seen(reading)
    /\ polls + 1 >= MaxPolls \/ now + Poll > Window
    /\ previous' = Seen(reading)
    /\ polls' = polls + 1
    /\ pc' = "done" /\ result' = "indeterminate" /\ assertion' = "indeterminate"
    /\ UNCHANGED <<sourceVars, reading, frozen, reproduced, now, began>>

\* sleep(poll_seconds), then a fresh observation begins.
Sleep ==
    /\ pc = "sleeping"
    /\ now' = IF ticks /\ now + Poll <= MaxNow THEN now + Poll ELSE now
    /\ pc' = IF frozen = Nothing THEN "polling" ELSE "reproducing"
    /\ reading' = Nothing
    /\ began' = surface
    /\ UNCHANGED <<sourceVars, previous, frozen, polls, reproduced, result,
                   assertion>>

\* Mutant: a reproduction that differs is taken again.
ReproductionRetries ==
    /\ pc = "reproducing" /\ Complete
    /\ \/ /\ Seen(reading) = frozen /\ reproduced + 1 = Reproduce
          /\ reproduced' = reproduced + 1
          /\ pc' = "done" /\ result' = "satisfied"
       \/ /\ Seen(reading) = frozen /\ reproduced + 1 < Reproduce
          /\ reproduced' = reproduced + 1
          /\ pc' = "sleeping" /\ UNCHANGED result
       \/ /\ Seen(reading) # frozen
          /\ pc' = "sleeping" /\ UNCHANGED <<result, reproduced>>
    /\ UNCHANGED <<sourceVars, reading, previous, frozen, polls, now,
                   assertion, began>>

\* One reproduction: the same normalized facts, or the run is indeterminate
\* although its assertion held.
Reproduction ==
    /\ pc = "reproducing" /\ Complete
    /\ reproduced' = reproduced + 1
    /\ \/ /\ Seen(reading) = frozen /\ reproduced + 1 = Reproduce
          /\ pc' = "done" /\ result' = "satisfied"
       \/ /\ Seen(reading) = frozen /\ reproduced + 1 < Reproduce
          /\ pc' = "sleeping" /\ UNCHANGED result
       \/ /\ Seen(reading) # frozen
          /\ pc' = "done" /\ result' = "indeterminate"
    /\ UNCHANGED <<sourceVars, reading, previous, frozen, polls, now,
                   assertion, began>>

ConvergeStep ==
    \/ \E f \in Facts : ReadFact(f)
    \/ ObserverRaises
    \/ Freeze \/ PollAgain \/ GiveUp \/ Sleep \/ Reproduction

ConvergeNext == ConvergeStep \/ SurfaceChanges \/ TimePasses

ConvergeSpec == ConvergeInit /\ [][ConvergeNext]_convergeVars

\* Each collector call carries a timeout: the loop itself never stands still.
FairConvergeSpec == ConvergeSpec /\ WF_convergeVars(ConvergeStep)

---------------------------------------------------------------------------
\* Type invariant.
ConvergeTypeOK ==
    /\ surface \in Surfaces /\ began \in Surfaces
    /\ settles \in BOOLEAN /\ ticks \in BOOLEAN /\ envelope \in Envelopes
    /\ pc \in {"polling", "sleeping", "reproducing", "done"}
    /\ DOMAIN reading \subseteq Facts
    /\ reading \in [DOMAIN reading -> Versions]
    /\ previous = Nothing \/ previous \in [Watched -> Versions]
    /\ frozen = Nothing \/ frozen \in [Watched -> Versions]
    /\ polls \in 0..MaxPolls /\ reproduced \in 0..Reproduce
    /\ now \in 0..MaxNow
    /\ result \in Statuses \cup {"none", "raised"}
    /\ assertion \in Statuses \cup {"none"}

\* The frozen state is one the surface really was in, all its facts at the
\* same moment (when the second of the two agreeing observations began), even
\* though each observation may mix moments; and the reproductions extend that:
\* at the start of each of them that agreed the surface was still in it.
\* It takes facts that do not return to a value they left (see README).
FrozenIsSnapshot ==
    settles /\ frozen # Nothing /\ pc \in {"sleeping", "done"}
            /\ (result \in {"none", "satisfied"} \/ reproduced = 0)
            /\ result # "raised"
        => frozen = Seen(began)

\* A satisfied result rests on a satisfied assertion over a frozen state and on
\* every reproduction asked for; a timeout, unresolved clauses or a state that
\* does not reproduce is indeterminate, and only an assertion disproves.  These
\* are the pairs module ExecTransaction resolves the transaction from
\* (exec_transaction.py 1116-1150).
OutcomeIsGrounded ==
    pc = "done" /\ result # "raised" =>
        /\ <<result, assertion>> \in Convergences
        /\ result = "satisfied" => frozen # Nothing /\ reproduced = Reproduce
        /\ result = "disproven" => frozen # Nothing

\* A poll starting exactly at the deadline is allowed, a later one is not
\* (envelope.py 93-94), however long the observations take.
PollsStartInWindow ==
    [][(pc = "sleeping" /\ pc' = "polling") => now' <= Window]_convergeVars

\* The assertion is made once, on the frozen state: neither it nor the frozen
\* state is revised by what the reproductions see.
FrozenForGood ==
    [][(frozen # Nothing) => UNCHANGED <<frozen, assertion>>]_convergeVars

\* All that the loop takes for granted of an observation is what module
\* Observation promises, and module GpoSnapshot shows capture_snapshot to keep
\* (a fact is a source of its own here).
Promise == INSTANCE Observation WITH Cells <- Facts, Source <- [f \in Facts |-> f]

ReliesOnPromise == Promise!ObservationSpec

\* converge returns, though the surface may flap forever and the clock it was
\* given may stand still.
ConvergeEnds == <>(pc = "done")

=============================================================================
