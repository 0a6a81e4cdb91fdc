--------------------------- MODULE ConvergeProofs ---------------------------
(***************************************************************************)
(* The safety properties of modules Converge and EnvelopeVerdict for any   *)
(* facts, envelopes, window and bounds.                                    *)
(*                                                                         *)
(* The loop.  The core is Monotone: on a surface whose facts only move     *)
(* forward, an observation lies between the surface at its beginning and   *)
(* the surface now, and what the poll before it saw lies below its         *)
(* beginning.  If the two agree, everything between them is squeezed into  *)
(* one state.                                                              *)
(*                                                                         *)
(* The envelope language.  Eval follows its equation at every node of a    *)
(* predicate (EvalUnfolds); by induction over the tree, an evaluation      *)
(* depends on the referenced facts only (EvalDependsOnPaths) and is not    *)
(* revised by facts that are added (EvalStands).                           *)
(*                                                                         *)
(* The verdict.  The facts polling compares decide every clause, so what   *)
(* was asserted of an observation holds of the one state it froze.         *)
(***************************************************************************)
EXTENDS EnvelopeVerdict, WellFoundedInduction, SequenceTheorems, TLAPS

\* What is settled at each place of the loop.
Loop ==
    /\ pc = "reproducing" => frozen # Nothing
    /\ pc = "polling" => frozen = Nothing
    /\ pc # "done" => result = "none"
    /\ pc # "done" /\ frozen = Nothing
          => polls < MaxPolls /\ reproduced = 0 /\ assertion = "none"
    /\ pc # "done" /\ frozen # Nothing
          => reproduced < Reproduce /\ assertion = "satisfied"
    /\ pc = "sleeping" /\ frozen = Nothing => now + Poll <= Window

\* a is nowhere ahead of b on the facts in F.
Behind(F, a, b) == \A f \in F : a[f] <= b[f]

Monotone ==
    settles =>
        /\ Behind(Facts, began, surface)
        /\ Behind(DOMAIN reading, began, reading)
        /\ Behind(DOMAIN reading, reading, surface)
        /\ previous # Nothing => Behind(Watched, previous, surface)
        /\ frozen # Nothing => Behind(Watched, frozen, surface)
        /\ pc = "polling" /\ previous # Nothing
              => Behind(Watched, previous, began)
        /\ pc = "reproducing" => Behind(Watched, frozen, began)

ConvergeInv == ConvergeTypeOK /\ Loop /\ OutcomeIsGrounded
                 /\ Monotone /\ FrozenIsSnapshot

\* parse_envelope lets no envelope through that watches no fact.
LEMMA SomethingIsWatched ==
    ASSUME envelope \in Envelopes
    PROVE  Watched \subseteq Facts /\ Watched # {}
  BY ConvergeAssumption DEF ConvergeAssumption, Watched

\* The envelope stays, and with it what is watched.
LEMMA WatchStays ==
    ASSUME ConvergeTypeOK, ConvergeNext
    PROVE  /\ envelope \in Envelopes /\ envelope' = envelope
           /\ Watched' = Watched /\ Watched \subseteq Facts
<1>1. envelope' = envelope
  BY DEF ConvergeNext, ConvergeStep, ReadFact, ObserverRaises, Freeze,
         PollAgain, GiveUp, Sleep, Reproduction, SurfaceChanges, TimePasses,
         sourceVars
<1>2. QED
  BY <1>1, SomethingIsWatched DEF ConvergeTypeOK, Watched

\* An observation begins with no fact read.
LEMMA NothingType ==
    DOMAIN Nothing = {} /\ Nothing \in [DOMAIN Nothing -> Versions]
  BY DEF Nothing

\* The empty observation is nobody's view of the clause facts (there are
\* some, envelope.py parses no envelope without clauses).
LEMMA SeenIsSomething ==
    ASSUME NEW o, envelope \in Envelopes PROVE Seen(o) # Nothing
<1>1. DOMAIN Seen(o) = Watched
  BY DEF Seen
<1>2. DOMAIN Nothing = {}
  BY DEF Nothing
<1>3. QED
  BY <1>1, <1>2, SomethingIsWatched

\* A complete observation's view of the clause facts.
LEMMA SeenType ==
    ASSUME ConvergeTypeOK, Complete
    PROVE  /\ Seen(reading) \in [Watched -> Versions]
           /\ \A f \in Watched : Seen(reading)[f] = reading[f]
  BY SomethingIsWatched DEF ConvergeTypeOK, Complete, Seen

\* converge begins before its first poll, with nothing seen.
LEMMA ConvergeInitInv == ConvergeInit => ConvergeInv
<1> SUFFICES ASSUME ConvergeInit PROVE ConvergeInv
  OBVIOUS
<1>1. surface \in Surfaces /\ began = surface
  <2>1. surface = [f \in Facts |-> 0]
    BY DEF ConvergeInit
  <2>2. QED
    BY <2>1, ConvergeAssumption
       DEF ConvergeInit, ConvergeAssumption, Surfaces, Versions
<1>2. DOMAIN reading = {} /\ reading \in [DOMAIN reading -> Versions]
  BY NothingType DEF ConvergeInit
<1>3. ConvergeTypeOK
  BY <1>1, <1>2, ConvergeAssumption
     DEF ConvergeInit, ConvergeTypeOK, ConvergeAssumption, Statuses
<1>4. Loop
  BY ConvergeAssumption DEF ConvergeInit, Loop, ConvergeAssumption
<1>5. Monotone
  BY <1>1, <1>2 DEF ConvergeInit, Monotone, Behind, Surfaces, Versions
<1>6. OutcomeIsGrounded /\ FrozenIsSnapshot
  BY DEF ConvergeInit, OutcomeIsGrounded, FrozenIsSnapshot
<1>7. QED
  BY <1>3, <1>4, <1>5, <1>6 DEF ConvergeInv

\* Each step of the loop and of its surroundings keeps the types, the poll
\* bound and the number of reproductions included.
LEMMA ConvergeKeepsType ==
    ASSUME ConvergeTypeOK, Loop, ConvergeNext
    PROVE  ConvergeTypeOK'
<1>w. /\ envelope \in Envelopes /\ envelope' = envelope
      /\ Watched' = Watched /\ Watched \subseteq Facts
  BY WatchStays
<1> USE <1>w
<1> USE ConvergeAssumption DEF ConvergeTypeOK, ConvergeAssumption, Loop,
        sourceVars, Surfaces, Statuses
<1>1. ASSUME NEW f \in Facts, ReadFact(f) PROVE ConvergeTypeOK'
  BY <1>1 DEF ReadFact
<1>2. CASE ObserverRaises
  BY <1>2 DEF ObserverRaises
<1>3. CASE Freeze
  <2>1. Seen(reading) \in [Watched -> Versions]
    BY <1>3, SeenType DEF Freeze
  <2>2. Assessed \in Statuses
    BY <1>3 DEF Freeze, Complete, Assessed
  <2>3. QED
    BY <1>3, <2>1, <2>2 DEF Freeze
<1>4. CASE PollAgain
  BY <1>4, SeenType DEF PollAgain
<1>5. CASE GiveUp
  BY <1>5, SeenType DEF GiveUp
<1>6. CASE Sleep
  <2>1. DOMAIN reading' = {} /\ reading' \in [DOMAIN reading' -> Versions]
    BY <1>6, NothingType DEF Sleep
  <2>2. QED
    BY <1>6, <2>1 DEF Sleep
<1>7. CASE Reproduction
  BY <1>7 DEF Reproduction
<1>8. CASE SurfaceChanges
  BY <1>8 DEF SurfaceChanges, Versions
<1>9. CASE TimePasses
  BY <1>9 DEF TimePasses
<1>10. QED
  BY <1>1, <1>2, <1>3, <1>4, <1>5, <1>6, <1>7, <1>8, <1>9
     DEF ConvergeNext, ConvergeStep

\* Each step leaves the loop's place, counters and results in agreement.
LEMMA ConvergeKeepsLoop ==
    ASSUME ConvergeTypeOK, Loop, ConvergeNext
    PROVE  Loop'
<1>w. /\ envelope \in Envelopes /\ envelope' = envelope
      /\ Watched' = Watched /\ Watched \subseteq Facts
  BY WatchStays
<1> USE <1>w
<1> USE ConvergeAssumption DEF ConvergeAssumption, Loop, sourceVars
<1>1. ASSUME NEW f \in Facts, ReadFact(f) PROVE Loop'
  BY <1>1 DEF ReadFact
<1>2. CASE ObserverRaises
  BY <1>2 DEF ObserverRaises
<1>3. CASE Freeze
  BY <1>3, SeenIsSomething DEF Freeze
<1>4. CASE PollAgain
  BY <1>4 DEF PollAgain, ConvergeTypeOK
<1>5. CASE GiveUp
  BY <1>5 DEF GiveUp
<1>6. CASE Sleep
  BY <1>6 DEF Sleep
<1>7. CASE Reproduction
  BY <1>7 DEF Reproduction, ConvergeTypeOK
<1>8. CASE SurfaceChanges
  BY <1>8 DEF SurfaceChanges
<1>9. CASE TimePasses
  BY <1>9 DEF TimePasses
<1>10. QED
  BY <1>1, <1>2, <1>3, <1>4, <1>5, <1>6, <1>7, <1>8, <1>9
     DEF ConvergeNext, ConvergeStep

\* Each way converge returns gives one of the pairs the executor knows.
LEMMA ConvergeKeepsGrounded ==
    ASSUME ConvergeTypeOK, Loop, OutcomeIsGrounded, ConvergeNext
    PROVE  OutcomeIsGrounded'
<1>w. /\ envelope \in Envelopes /\ envelope' = envelope
      /\ Watched' = Watched /\ Watched \subseteq Facts
  BY WatchStays
<1> USE <1>w
<1> USE ConvergeAssumption
        DEF ConvergeAssumption, OutcomeIsGrounded, Loop, sourceVars, Statuses,
            Convergences
<1>1. ASSUME NEW f \in Facts, ReadFact(f) PROVE OutcomeIsGrounded'
  BY <1>1 DEF ReadFact
<1>2. CASE ObserverRaises
  BY <1>2 DEF ObserverRaises
<1>3. CASE Freeze
  <2>1. Assessed \in Statuses
    BY <1>3 DEF Freeze, Complete, Assessed, ConvergeTypeOK, Surfaces
  <2>2. QED
    BY <1>3, <2>1, SeenIsSomething DEF Freeze
<1>4. CASE PollAgain
  BY <1>4 DEF PollAgain
<1>5. CASE GiveUp
  BY <1>5 DEF GiveUp
<1>6. CASE Sleep
  BY <1>6 DEF Sleep
<1>7. CASE Reproduction
  BY <1>7 DEF Reproduction, ConvergeTypeOK
<1>8. CASE SurfaceChanges
  BY <1>8 DEF SurfaceChanges
<1>9. CASE TimePasses
  BY <1>9 DEF TimePasses
<1>10. QED
  BY <1>1, <1>2, <1>3, <1>4, <1>5, <1>6, <1>7, <1>8, <1>9
     DEF ConvergeNext, ConvergeStep

\* Reading a fact, or the surface moving on, keeps every observation between
\* its beginning and now; a new observation begins now.
LEMMA ConvergeKeepsMonotone ==
    ASSUME ConvergeTypeOK, Loop, Monotone, ConvergeNext
    PROVE  Monotone'
<1>w. /\ envelope \in Envelopes /\ envelope' = envelope
      /\ Watched' = Watched /\ Watched \subseteq Facts
  BY WatchStays
<1> USE <1>w
<1> SUFFICES ASSUME settles PROVE Monotone'
  BY DEF Monotone, ConvergeNext, ConvergeStep, ReadFact, ObserverRaises, Freeze,
         PollAgain, GiveUp, Sleep, Reproduction, SurfaceChanges, TimePasses,
         sourceVars
<1> USE ConvergeAssumption DEF ConvergeAssumption, sourceVars
<1>0. /\ surface \in [Facts -> Nat] /\ began \in [Facts -> Nat]
      /\ Watched \subseteq Facts /\ DOMAIN reading \subseteq Facts
      /\ \A f \in DOMAIN reading : reading[f] \in Nat
  BY DEF ConvergeTypeOK, Surfaces, Versions
<1>1. ASSUME NEW f \in Facts, ReadFact(f) PROVE Monotone'
  <2>1. /\ DOMAIN reading' = DOMAIN reading \cup {f}
        /\ \A g \in DOMAIN reading' :
              reading'[g] = IF g = f THEN surface[f] ELSE reading[g]
    BY <1>1 DEF ReadFact
  <2>2. Behind(DOMAIN reading', began, reading') /\ Behind(DOMAIN reading', reading', surface)
    BY <1>0, <2>1 DEF Monotone, Behind
  <2>3. QED
    BY <1>1, <2>2 DEF ReadFact, Monotone, Behind
<1>2. CASE ObserverRaises
  BY <1>2 DEF ObserverRaises, Monotone, Behind
<1>3. CASE Freeze
  <2>1. Behind(Watched, Seen(reading), surface)
    BY <1>3, SeenType DEF Freeze, Complete, Monotone, Behind
  <2>2. QED
    BY <1>3, <2>1 DEF Freeze, Monotone, Behind
<1>4. CASE PollAgain
  <2>1. Behind(Watched, Seen(reading), surface)
    BY <1>4, SeenType DEF PollAgain, Complete, Monotone, Behind
  <2>2. QED
    BY <1>4, <2>1 DEF PollAgain, Monotone, Behind
<1>5. CASE GiveUp
  <2>1. Behind(Watched, Seen(reading), surface)
    BY <1>5, SeenType DEF GiveUp, Complete, Monotone, Behind
  <2>2. QED
    BY <1>5, <2>1 DEF GiveUp, Monotone, Behind
<1>6. CASE Sleep
  <2>1. DOMAIN reading' = {}
    BY <1>6, NothingType DEF Sleep
  <2>2. Behind(Facts, began', surface')
    BY <1>0, <1>6 DEF Sleep, Behind
  <2>3. QED
    BY <1>6, <2>1, <2>2 DEF Sleep, Monotone, Behind
<1>7. CASE Reproduction
  BY <1>7 DEF Reproduction, Monotone, Behind
<1>8. CASE SurfaceChanges
  <2>1. surface' \in [Facts -> Nat] /\ Behind(Facts, surface, surface')
    BY <1>0, <1>8 DEF SurfaceChanges, Behind
  <2>2. \A F \in SUBSET Facts : \A a : Behind(F, a, surface)
           /\ (\A f \in F : a[f] \in Nat) => Behind(F, a, surface')
    BY <1>0, <2>1 DEF Behind
  <2>3. /\ previous # Nothing => \A f \in Watched : previous[f] \in Nat
        /\ frozen # Nothing => \A f \in Watched : frozen[f] \in Nat
    BY DEF ConvergeTypeOK, Versions
  <2>4. QED
    BY <1>0, <1>8, <2>2, <2>3 DEF SurfaceChanges, Monotone, Behind
<1>9. CASE TimePasses
  BY <1>9 DEF TimePasses, Monotone, Behind
<1>10. QED
  BY <1>1, <1>2, <1>3, <1>4, <1>5, <1>6, <1>7, <1>8, <1>9
     DEF ConvergeNext, ConvergeStep

\* Facts seen both before an observation began and by it were there when it
\* began, all at once.
LEMMA Squeeze ==
    ASSUME ConvergeTypeOK, Monotone, settles, Complete,
           Behind(Watched, Seen(reading), began)
    PROVE  Seen(reading) = Seen(began)
<1>1. \A f \in Watched : reading[f] <= began[f] /\ began[f] <= reading[f]
  BY SeenType, SomethingIsWatched
     DEF ConvergeTypeOK, Monotone, Behind, Complete
<1>2. \A f \in Watched : reading[f] \in Nat /\ began[f] \in Nat
  BY SomethingIsWatched, ConvergeAssumption
     DEF ConvergeAssumption, ConvergeTypeOK, Complete, Surfaces, Versions
<1>3. \A f \in Watched : reading[f] = began[f]
  BY <1>1, <1>2
<1>4. QED
  BY <1>3 DEF Seen

\* What Freeze freezes, and what a Reproduction confirms, is a snapshot.
LEMMA ConvergeKeepsSnapshot ==
    ASSUME ConvergeInv, ConvergeNext
    PROVE  FrozenIsSnapshot'
<1>w. /\ envelope \in Envelopes /\ envelope' = envelope
      /\ Watched' = Watched /\ Watched \subseteq Facts
  BY WatchStays DEF ConvergeInv
<1> USE <1>w
<1> USE DEF ConvergeInv, FrozenIsSnapshot, Loop, sourceVars
<1>1. ASSUME NEW f \in Facts, ReadFact(f) PROVE FrozenIsSnapshot'
  BY <1>1 DEF ReadFact
<1>2. CASE ObserverRaises
  BY <1>2 DEF ObserverRaises
<1>3. CASE Freeze
  <2>1. Complete /\ frozen' = Seen(reading) /\ began' = began /\ settles' = settles
    BY <1>3 DEF Freeze
  <2>2. settles => Behind(Watched, Seen(reading), began)
    BY <1>3, SeenIsSomething DEF Freeze, Monotone
  <2>3. settles => frozen' = Seen(began)
    BY <2>1, <2>2, Squeeze
  <2>4. QED
    BY <2>1, <2>3 DEF Seen
<1>4. CASE PollAgain
  BY <1>4 DEF PollAgain
<1>5. CASE GiveUp
  BY <1>5 DEF GiveUp
<1>6. CASE Sleep
  BY <1>6 DEF Sleep
<1>7. CASE Reproduction
  <2>1. /\ Complete /\ frozen' = frozen /\ began' = began /\ settles' = settles
        /\ reproduced' = reproduced + 1 /\ reproduced' # 0
    BY <1>7 DEF Reproduction, ConvergeTypeOK
  <2>2. CASE Seen(reading) = frozen
    <3>1. settles => Behind(Watched, Seen(reading), began)
      BY <1>7, <2>2 DEF Reproduction, Monotone
    <3>2. settles => frozen = Seen(began)
      BY <2>1, <2>2, <3>1, Squeeze
    <3>3. QED
      BY <2>1, <3>2 DEF Seen
  <2>3. CASE Seen(reading) # frozen
    BY <1>7, <2>1, <2>3 DEF Reproduction
  <2>4. QED
    BY <2>2, <2>3
<1>8. CASE SurfaceChanges
  BY <1>8 DEF SurfaceChanges, Seen
<1>9. CASE TimePasses
  BY <1>9 DEF TimePasses, Seen
<1>10. QED
  BY <1>1, <1>2, <1>3, <1>4, <1>5, <1>6, <1>7, <1>8, <1>9
     DEF ConvergeNext, ConvergeStep

\* The invariant of the poll loop, whatever the surface and the clock do.
THEOREM ConvergeInvariance == ConvergeSpec => []ConvergeInv
<1>1. ConvergeInv /\ [ConvergeNext]_convergeVars => ConvergeInv'
  <2> SUFFICES ASSUME ConvergeInv, [ConvergeNext]_convergeVars
               PROVE  ConvergeInv'
    OBVIOUS
  <2>1. CASE ConvergeNext
    BY <2>1, ConvergeKeepsType, ConvergeKeepsLoop, ConvergeKeepsGrounded,
       ConvergeKeepsMonotone, ConvergeKeepsSnapshot DEF ConvergeInv
  <2>2. CASE UNCHANGED convergeVars
    BY <2>2 DEF convergeVars, sourceVars, ConvergeInv, ConvergeTypeOK, Loop,
                OutcomeIsGrounded, Monotone, Behind, FrozenIsSnapshot, Seen,
                Watched
  <2>3. QED
    BY <2>1, <2>2
<1>2. QED
  BY ConvergeInitInv, <1>1, PTL DEF ConvergeSpec

\* The variables of converge keep their types; never more than MaxPolls polls.
THEOREM ConvergeTypeCorrect == ConvergeSpec => []ConvergeTypeOK
  BY ConvergeInvariance, PTL DEF ConvergeInv

\* The state that is asserted is one the surface was in, all facts at once,
\* though its facts were read at different moments.
THEOREM FrozenStateWasReal == ConvergeSpec => []FrozenIsSnapshot
  BY ConvergeInvariance, PTL DEF ConvergeInv

\* converge returns one of four pairs, satisfied only with every reproduction.
THEOREM OutcomesAreGrounded == ConvergeSpec => []OutcomeIsGrounded
  BY ConvergeInvariance, PTL DEF ConvergeInv

\* Neither the frozen state nor the assertion is revised once it is there.
THEOREM FrozenStateStays == ConvergeSpec => FrozenForGood
<1>1. ConvergeInv /\ [ConvergeNext]_convergeVars
        => [(frozen # Nothing) => UNCHANGED <<frozen, assertion>>]_convergeVars
  BY DEF ConvergeInv, Loop, ConvergeNext, ConvergeStep, ReadFact,
         ObserverRaises, Freeze, PollAgain, GiveUp, Sleep, Reproduction,
         SurfaceChanges, TimePasses, sourceVars, convergeVars
<1>2. QED
  BY <1>1, ConvergeInvariance, PTL DEF ConvergeSpec, FrozenForGood

\* No poll starts after the window, however long an observation takes: the
\* loop only sleeps when the whole sleep still fits.
THEOREM NoPollAfterWindow == ConvergeSpec => PollsStartInWindow
<1>1. ConvergeInv /\ [ConvergeNext]_convergeVars
        => [(pc = "sleeping" /\ pc' = "polling") => now' <= Window]_convergeVars
  <2> SUFFICES ASSUME ConvergeInv, ConvergeNext,
                      pc = "sleeping", pc' = "polling"
               PROVE  now' <= Window
    BY DEF convergeVars
  <2>1. Sleep
    BY DEF ConvergeNext, ConvergeStep, ReadFact, ObserverRaises, Freeze,
           PollAgain, GiveUp, Reproduction, SurfaceChanges, TimePasses,
           sourceVars
  <2>2. now + Poll <= Window /\ now \in Nat /\ Poll \in Nat /\ Window \in Nat
    BY <2>1, ConvergeAssumption
       DEF Sleep, ConvergeInv, Loop, ConvergeTypeOK, ConvergeAssumption
  <2>3. now' = now \/ now' = now + Poll
    BY <2>1 DEF Sleep
  <2>4. QED
    BY <2>2, <2>3
<1>2. QED
  BY <1>1, ConvergeInvariance, PTL DEF ConvergeSpec, PollsStartInWindow

\* The loop takes no more for granted of an observation than that each fact is
\* read once, as it was at some moment (_collect_facts).
THEOREM LoopReliesOnPromise == ConvergeSpec => ReliesOnPromise
<1>1. ConvergeInit => Promise!ObservationInit
  BY ConvergeAssumption
  DEF ConvergeInit, Promise!ObservationInit, Nothing, Promise!Nothing, ConvergeAssumption
<1>2. ConvergeTypeOK /\ [ConvergeNext]_convergeVars
        => [Promise!Change \/ Promise!Read \/ Promise!Begin]_(Promise!observationVars)
  <2> SUFFICES ASSUME ConvergeTypeOK, [ConvergeNext]_convergeVars
               PROVE  [Promise!Change \/ Promise!Read \/ Promise!Begin]_(Promise!observationVars)
    OBVIOUS
  <2>1. CASE SurfaceChanges
    BY <2>1 DEF SurfaceChanges, Promise!Change
  <2>2. ASSUME NEW f \in Facts, ReadFact(f) PROVE Promise!Read
    <3>1. DOMAIN reading' = DOMAIN reading \cup {f} /\ DOMAIN reading \subseteq Facts
      BY <2>2 DEF ReadFact, ConvergeTypeOK
    <3>2. reading' = [g \in DOMAIN reading' |->
                        IF g \in DOMAIN reading THEN reading[g]
                                                ELSE surface[[h \in Facts |-> h][g]]]
      BY <2>2, <3>1 DEF ReadFact
    <3>3. QED
      BY <2>2, <3>1, <3>2 DEF ReadFact, sourceVars, Promise!Read
  <2>3. CASE Sleep
    BY <2>3 DEF Sleep, sourceVars, Nothing, Promise!Begin, Promise!Nothing
  <2>4. CASE TimePasses \/ ObserverRaises \/ Freeze \/ PollAgain \/ GiveUp \/ Reproduction
    BY <2>4 DEF TimePasses, ObserverRaises, Freeze, PollAgain, GiveUp, Reproduction,
                sourceVars, Promise!observationVars
  <2>5. CASE UNCHANGED convergeVars
    BY <2>5 DEF convergeVars, sourceVars, Promise!observationVars
  <2>6. QED
    BY <2>1, <2>2, <2>3, <2>4, <2>5 DEF ConvergeNext, ConvergeStep
<1>3. QED
  BY <1>1, <1>2, ConvergeTypeCorrect, PTL
  DEF ConvergeSpec, ReliesOnPromise, Promise!ObservationSpec

---------------------------------------------------------------------------
\* The envelope language.  Eval and Paths are computed along the tree of a
\* predicate: both are the one function that fits every node (EvalUnfolds,
\* PathsUnfold), and from that equation follows by induction over the tree
\* what an evaluation depends on.

\* What is computed of a node from what was computed of its parts: its value,
\* or the paths it refers to.
AtNode(what, b, p, vals) ==
    IF what = "value" THEN ValueOf(p, vals, b)
    ELSE IF p.op = "ref" THEN {p.path}
    ELSE UNION {vals[i] : i \in DOMAIN Parts(p)}

\* The values g has for the parts of p.
PartValues(g, p) == [i \in DOMAIN Parts(p) |-> g[Parts(p)[i]]]

\* g computes that of the predicates of its domain, from the leaves up.
Evaluates(what, b, g) ==
    /\ DOMAIN g \subseteq Predicates
    /\ \A p \in DOMAIN g : /\ ToSet(Parts(p)) \subseteq DOMAIN g
                           /\ g[p] = AtNode(what, b, p, PartValues(g, p))

\* Two evaluations agree wherever both are defined.
LEMMA EvaluationsAgree ==
    ASSUME NEW what, NEW b, NEW g, NEW h, Evaluates(what, b, g), Evaluates(what, b, h)
    PROVE  \A p \in DOMAIN g \cap DOMAIN h : g[p] = h[p]
<1> DEFINE T == {p \in DOMAIN g \cap DOMAIN h : g[p] # h[p]}
<1> SUFFICES ASSUME T # {} PROVE FALSE
  OBVIOUS
<1>1. T \in SUBSET Predicates
  BY DEF Evaluates
<1>2. PICK p \in T : ToSet(Parts(p)) \cap T = {}
  BY <1>1, TreesAssumption
<1>3. \A i \in DOMAIN Parts(p) : g[Parts(p)[i]] = h[Parts(p)[i]]
  BY <1>2 DEF Evaluates, ToSet
<1>4. PartValues(g, p) = PartValues(h, p)
  BY <1>3 DEF PartValues
<1>5. /\ g[p] = AtNode(what, b, p, PartValues(g, p))
      /\ h[p] = AtNode(what, b, p, PartValues(h, p))
  BY <1>2 DEF Evaluates
<1>6. QED
  BY <1>2, <1>4, <1>5

\* g computes that of every predicate.
EvaluatesAll(what, b, g) ==
    g = [p \in Predicates |-> AtNode(what, b, p, PartValues(g, p))]

\* There is an evaluation of all predicates.
LEMMA EvaluationExists ==
    ASSUME NEW what, NEW b
    PROVE  \E g : EvaluatesAll(what, b, g)
<1> DEFINE D == {p \in Predicates : \E g : Evaluates(what, b, g) /\ p \in DOMAIN g}
           Of(p) == CHOOSE g : Evaluates(what, b, g) /\ p \in DOMAIN g
           F == [p \in D |-> Of(p)[p]]
<1>1. ASSUME NEW g, Evaluates(what, b, g)
      PROVE  DOMAIN g \subseteq D /\ \A p \in DOMAIN g : F[p] = g[p]
  <2>1. DOMAIN g \subseteq D
    BY <1>1 DEF Evaluates
  <2>2. ASSUME NEW p \in DOMAIN g PROVE F[p] = g[p]
    <3>1. Evaluates(what, b, Of(p)) /\ p \in DOMAIN Of(p)
      BY <1>1
    <3>2. Of(p)[p] = g[p]
      <4> HIDE DEF Of
      <4> QED BY <1>1, <3>1, EvaluationsAgree
    <3>3. p \in D
      BY <2>1
    <3>4. QED
      BY <3>2, <3>3
  <2>3. QED
    BY <2>1, <2>2
<1>2. ASSUME NEW p \in D
      PROVE  /\ ToSet(Parts(p)) \subseteq D
             /\ F[p] = AtNode(what, b, p, PartValues(F, p))
  <2>1. PICK g : Evaluates(what, b, g) /\ p \in DOMAIN g
    BY <1>2
  <2>2. DOMAIN g \subseteq D /\ \A q \in DOMAIN g : F[q] = g[q]
    BY <1>1, <2>1
  <2> HIDE DEF F, D
  <2>3. ToSet(Parts(p)) \subseteq DOMAIN g
    BY <2>1 DEF Evaluates
  <2>4. \A i \in DOMAIN Parts(p) : F[Parts(p)[i]] = g[Parts(p)[i]]
    BY <2>2, <2>3 DEF ToSet
  <2>5. PartValues(F, p) = PartValues(g, p)
    BY <2>4 DEF PartValues
  <2>6. g[p] = AtNode(what, b, p, PartValues(g, p))
    BY <2>1 DEF Evaluates
  <2>7. QED
    BY <2>1, <2>2, <2>3, <2>5, <2>6
<1>3. DOMAIN F = D /\ D \subseteq Predicates
  OBVIOUS
<1>4. D = Predicates
  <2> SUFFICES ASSUME Predicates \ D # {} PROVE FALSE
    BY <1>3
  <2>1. PICK p \in Predicates \ D : ToSet(Parts(p)) \cap (Predicates \ D) = {}
    BY TreesAssumption
  <2>2. ToSet(Parts(p)) \subseteq D
    <3>1. Parts(p) \in Seq(Predicates)
      BY <2>1, PredicatesAssumption
    <3>2. ToSet(Parts(p)) \subseteq Predicates
      BY <3>1 DEF ToSet
    <3>3. QED
      BY <2>1, <3>2
  <2> DEFINE G == [q \in D \cup {p} |-> IF q = p THEN AtNode(what, b, p, PartValues(F, p))
                                                 ELSE F[q]]
  <2>3. ASSUME NEW q \in D \cup {p}
        PROVE  /\ ToSet(Parts(q)) \subseteq D \cup {p}
               /\ G[q] = AtNode(what, b, q, PartValues(G, q))
    <3>1. ToSet(Parts(q)) \subseteq D
      BY <1>2, <2>2
    <3>2. \A r \in D : G[r] = F[r]
      BY <2>1
    <3>3. G[q] = AtNode(what, b, q, PartValues(F, q))
      <4>1. CASE q = p
        BY <4>1
      <4>2. CASE q # p
        BY <1>2, <4>2
      <4>3. QED
        BY <4>1, <4>2
    <3> HIDE DEF F, D, G
    <3>4. \A i \in DOMAIN Parts(q) : G[Parts(q)[i]] = F[Parts(q)[i]]
      BY <3>1, <3>2 DEF ToSet
    <3>5. PartValues(G, q) = PartValues(F, q)
      BY <3>4 DEF PartValues
    <3>6. QED
      BY <3>1, <3>3, <3>5
  <2>4. DOMAIN G = D \cup {p}
    OBVIOUS
  <2>5. Evaluates(what, b, G)
    <3> HIDE DEF D, G
    <3> QED BY <1>3, <2>1, <2>3, <2>4 DEF Evaluates
  <2>6. p \in D
    <3> HIDE DEF G
    <3> QED BY <2>1, <2>4, <2>5
  <2>7. QED
    BY <2>1, <2>6
<1>5. F = [p \in Predicates |-> AtNode(what, b, p, PartValues(F, p))]
  <2> HIDE DEF Of
  <2>1. \A p \in Predicates : F[p] = AtNode(what, b, p, PartValues(F, p))
    BY <1>2, <1>4
  <2>2. F = [p \in Predicates |-> F[p]]
    BY <1>4
  <2> HIDE DEF F, D
  <2>3. QED
    BY <2>1, <2>2
<1>6. QED
  BY <1>5 DEF EvaluatesAll

\* _eval follows its own equation.
LEMMA EvalUnfolds ==
    ASSUME NEW p \in Predicates, NEW b
    PROVE  Eval(p, b) =
             ValueOf(p, [i \in DOMAIN Parts(p) |-> Eval(Parts(p)[i], b)], b)
<1> DEFINE V == CHOOSE value : value =
                  [q \in Predicates |->
                     ValueOf(q, [i \in DOMAIN Parts(q) |-> value[Parts(q)[i]]], b)]
<1>1. \E value : value =
                  [q \in Predicates |->
                     ValueOf(q, [i \in DOMAIN Parts(q) |-> value[Parts(q)[i]]], b)]
  <2> PICK g : EvaluatesAll("value", b, g)
    BY EvaluationExists
  <2>1. g = [q \in Predicates |-> AtNode("value", b, q, PartValues(g, q))]
    BY Zenon DEF EvaluatesAll
  <2>2. \A q : AtNode("value", b, q, PartValues(g, q))
              = ValueOf(q, [i \in DOMAIN Parts(q) |-> g[Parts(q)[i]]], b)
    <3>1. \A q, vals : AtNode("value", b, q, vals) = ValueOf(q, vals, b)
      BY DEF AtNode
    <3>2. \A q : PartValues(g, q) = [i \in DOMAIN Parts(q) |-> g[Parts(q)[i]]]
      BY DEF PartValues
    <3>3. QED
      BY <3>1, <3>2, Zenon
  <2>3. [q \in Predicates |-> AtNode("value", b, q, PartValues(g, q))]
          = [q \in Predicates |->
               ValueOf(q, [i \in DOMAIN Parts(q) |-> g[Parts(q)[i]]], b)]
    BY <2>2, Zenon
  <2>4. QED
    BY <2>1, <2>3, Zenon
<1>2. V = [q \in Predicates |->
                     ValueOf(q, [i \in DOMAIN Parts(q) |-> V[Parts(q)[i]]], b)]
  BY <1>1, Zenon
<1>3. \A q : Eval(q, b) = V[q]
  BY Zenon DEF Eval
<1> HIDE DEF V
<1>4. [i \in DOMAIN Parts(p) |-> Eval(Parts(p)[i], b)]
        = [i \in DOMAIN Parts(p) |-> V[Parts(p)[i]]]
  BY <1>3, Zenon
<1>5. V[p] = ValueOf(p, [i \in DOMAIN Parts(p) |-> V[Parts(p)[i]]], b)
  BY <1>2, Zenon
<1>6. QED
  BY <1>3, <1>4, <1>5, Zenon

\* _referenced_paths follows its own equation.
LEMMA PathsUnfold ==
    ASSUME NEW p \in Predicates
    PROVE  Paths[p] = IF p.op = "ref" THEN {p.path}
                      ELSE UNION {Paths[q] : q \in ToSet(Parts(p))}
<1>1. \E f : f = [r \in Predicates |->
                   IF r.op = "ref" THEN {r.path}
                   ELSE UNION {f[q] : q \in ToSet(Parts(r))}]
  <2> PICK g : EvaluatesAll("paths", {}, g)
    BY EvaluationExists
  <2>1. g = [r \in Predicates |-> AtNode("paths", {}, r, PartValues(g, r))]
    BY Zenon DEF EvaluatesAll
  <2>2. ASSUME NEW r
        PROVE  AtNode("paths", {}, r, PartValues(g, r))
                 = IF r.op = "ref" THEN {r.path}
                   ELSE UNION {g[q] : q \in ToSet(Parts(r))}
    <3>1. {PartValues(g, r)[i] : i \in DOMAIN Parts(r)}
            = {g[q] : q \in ToSet(Parts(r))}
      BY DEF PartValues, ToSet
    <3>2. \A vals : AtNode("paths", {}, r, vals)
                      = IF r.op = "ref" THEN {r.path}
                        ELSE UNION {vals[i] : i \in DOMAIN Parts(r)}
      BY DEF AtNode
    <3>3. QED
      BY <3>1, <3>2, Zenon
  <2>3. [r \in Predicates |-> AtNode("paths", {}, r, PartValues(g, r))]
          = [r \in Predicates |->
               IF r.op = "ref" THEN {r.path}
               ELSE UNION {g[q] : q \in ToSet(Parts(r))}]
    BY <2>2, Zenon
  <2>4. QED
    BY <2>1, <2>3, Zenon
<1>2. Paths = [r \in Predicates |->
                   IF r.op = "ref" THEN {r.path}
                   ELSE UNION {Paths[q] : q \in ToSet(Parts(r))}]
  BY <1>1, Zenon DEF Paths
<1>3. QED
  BY <1>2, Zenon

\* a and b say the same of a reference.
SameAt(path, a, b) ==
    /\ path \in DOMAIN a <=> path \in DOMAIN b
    /\ path \in DOMAIN a => a[path] = b[path]

\* An evaluation depends on nothing but the references of the predicate, which
\* are what _referenced_paths reports of it.
THEOREM EvalDependsOnPaths ==
    ASSUME NEW a, NEW b, NEW predicate \in Predicates,
           \A path \in Paths[predicate] : SameAt(path, a, b)
    PROVE  Eval(predicate, a) = Eval(predicate, b)
<1> DEFINE T == {p \in Predicates : /\ \A path \in Paths[p] : SameAt(path, a, b)
                                   /\ Eval(p, a) # Eval(p, b)}
<1> SUFFICES ASSUME T # {} PROVE FALSE
  OBVIOUS
<1>1. PICK p \in T : ToSet(Parts(p)) \cap T = {}
  BY TreesAssumption
<1>2. /\ p \in Predicates /\ Eval(p, a) # Eval(p, b)
      /\ \A path \in Paths[p] : SameAt(path, a, b)
  OBVIOUS
<1>3. /\ Eval(p, a) = ValueOf(p, [i \in DOMAIN Parts(p) |-> Eval(Parts(p)[i], a)], a)
      /\ Eval(p, b) = ValueOf(p, [i \in DOMAIN Parts(p) |-> Eval(Parts(p)[i], b)], b)
  BY <1>2, EvalUnfolds
<1>4. CASE p.op = "ref"
  <2>1. SameAt(p.path, a, b)
    BY <1>2, <1>4, PathsUnfold
  <2>2. \A v, w : ValueOf(p, v, a) = ValueOf(p, w, b)
    BY <1>4, <2>1 DEF ValueOf, SameAt
  <2>3. QED
    BY <1>2, <1>3, <2>2
<1>5. CASE p.op # "ref"
  <2>1. ASSUME NEW i \in DOMAIN Parts(p)
        PROVE  Eval(Parts(p)[i], a) = Eval(Parts(p)[i], b)
    <3>1. Parts(p)[i] \in ToSet(Parts(p))
      BY DEF ToSet
    <3>2. Parts(p)[i] \in Predicates
      BY <1>2, PredicatesAssumption
    <3>3. Paths[Parts(p)[i]] \subseteq Paths[p]
      <4>1. Paths[p] = UNION {Paths[q] : q \in ToSet(Parts(p))}
        BY <1>2, <1>5, PathsUnfold, Zenon
      <4>2. QED
        BY <3>1, <4>1
    <3>4. QED
      BY <1>1, <1>2, <3>1, <3>2, <3>3
  <2>2. [i \in DOMAIN Parts(p) |-> Eval(Parts(p)[i], a)]
          = [i \in DOMAIN Parts(p) |-> Eval(Parts(p)[i], b)]
    BY <2>1
  <2>3. \A v : ValueOf(p, v, a) = ValueOf(p, v, b)
    BY <1>5 DEF ValueOf
  <2>4. QED
    BY <1>2, <1>3, <2>2, <2>3, Zenon
<1>6. QED
  BY <1>4, <1>5

\* What was evaluated stays as it was.
Stands(v, w) == v = Unresolved \/ v = w

\* A negation of what was evaluated stays as it was.
LEMMA NegatedStands ==
    ASSUME NEW v, NEW w, Stands(v, w)
    PROVE  Stands(Negated(v), Negated(w))
  BY DEF Stands, Negated

\* An operand that cannot be evaluated leaves nothing to compute.
LEMMA ComputedStands ==
    ASSUME NEW op, NEW v1, NEW v2, NEW w1, NEW w2, Stands(v1, w1), Stands(v2, w2)
    PROVE  Stands(Computed(op, v1, v2), Computed(op, w1, w2))
<1>1. ~IsNum(Unresolved)
  BY DEF IsNum, Unresolved
<1>2. CASE Unresolved \in {v1, v2}
  BY <1>1, <1>2 DEF Computed, Stands
<1>3. CASE Unresolved \notin {v1, v2}
  BY <1>3 DEF Stands
<1>4. QED
  BY <1>2, <1>3

\* ... and nothing to compare.
LEMMA ComparedStands ==
    ASSUME NEW rel, NEW v1, NEW v2, NEW w1, NEW w2, Stands(v1, w1), Stands(v2, w2)
    PROVE  Stands(Compared(rel, v1, v2), Compared(rel, w1, w2))
<1>1. CASE Unresolved \in {v1, v2}
  BY <1>1 DEF Compared, Stands
<1>2. CASE Unresolved \notin {v1, v2}
  BY <1>2 DEF Stands
<1>3. QED
  BY <1>1, <1>2

\* A non-empty set of naturals has a least member.
LEMMA LeastMember ==
    ASSUME NEW I \in SUBSET Nat, I # {}
    PROVE  Min(I) \in I /\ \A j \in I : Min(I) <= j
<1>1. PICK i \in I : \A j \in I : <<j, i>> \notin OpToRel(<, Nat)
  BY WFMin, NatLessThanWellFounded
<1>2. ASSUME NEW j \in I PROVE ~(j < i)
  <2>1. <<j, i>> \in Nat \X Nat
    OBVIOUS
  <2>2. <<j, i>> \notin OpToRel(<, Nat)
    BY <1>1
  <2>3. QED
    BY <2>1, <2>2, Zenon DEF OpToRel
<1>3. \A j \in I : i <= j
  BY <1>2
<1>4. QED
  BY <1>3 DEF Min

\* Where a chain may end: at a value that cannot be evaluated or decides it.
Ends(vals, stop) == {i \in DOMAIN vals : vals[i] = Unresolved \/ Truthy(vals[i]) = stop}

\* A chain is worth what the first of its ends says.
LEMMA ChainedAtFirstEnd ==
    ASSUME NEW n \in Nat, NEW vals, DOMAIN vals = 1..n, NEW stop \in BOOLEAN
    PROVE  /\ Ends(vals, stop) = {} => Chained(vals, stop) = Bool(~stop)
           /\ \A i \in Ends(vals, stop) :
                 (\A j \in Ends(vals, stop) : i <= j)
                   => Chained(vals, stop) = IF vals[i] = Unresolved THEN Unresolved
                                            ELSE Bool(stop)
<1> DEFINE I == {i \in 1..Len(vals) : vals[i] = Unresolved \/ Truthy(vals[i]) = stop}
<1>1. Len(vals) = n
  OBVIOUS
<1>2. I = Ends(vals, stop)
  BY <1>1 DEF Ends
<1>3. SelectInSeq(vals, LAMBDA v : v = Unresolved \/ Truthy(v) = stop)
        = IF I # {} THEN Min(I) ELSE 0
  BY DEF SelectInSeq
<1>4. CASE I = {}
  BY <1>2, <1>3, <1>4 DEF Chained
<1>5. CASE I # {}
  <2> SUFFICES ASSUME NEW i \in I, \A j \in I : i <= j
               PROVE  Chained(vals, stop) = IF vals[i] = Unresolved THEN Unresolved
                                            ELSE Bool(stop)
    BY <1>2, <1>5
  <2>1. Min(I) \in I /\ \A j \in I : Min(I) <= j
    <3>1. I \in SUBSET Nat
      BY <1>1
    <3> HIDE DEF I
    <3>2. QED
      BY <1>5, <3>1, LeastMember
  <2>2. Min(I) = i /\ i # 0
    <3>1. i <= Min(I) /\ Min(I) <= i /\ i \in Nat /\ Min(I) \in Nat /\ i >= 1
      BY <1>1, <2>1
    <3>2. QED
      BY <3>1
  <2> HIDE DEF I
  <2>3. QED
    BY <1>3, <1>5, <2>2 DEF Chained
<1>6. QED
  BY <1>4, <1>5

\* A chain that could be evaluated stays as it was when more of it can be.
LEMMA ChainedStands ==
    ASSUME NEW n \in Nat, NEW v, NEW w, DOMAIN v = 1..n, DOMAIN w = 1..n,
           \A i \in 1..n : Stands(v[i], w[i]), NEW stop \in BOOLEAN
    PROVE  Stands(Chained(v, stop), Chained(w, stop))
<1>1. \A i \in 1..n : i \in Ends(w, stop) => i \in Ends(v, stop)
  BY DEF Ends, Stands
<1>2. CASE Ends(v, stop) = {}
  <2>1. Ends(w, stop) = {}
    BY <1>1, <1>2 DEF Ends
  <2>2. QED
    BY <1>2, <2>1, ChainedAtFirstEnd DEF Stands
<1>3. CASE Ends(v, stop) # {}
  <2>1. PICK i \in Ends(v, stop) : \A j \in Ends(v, stop) : i <= j
    <3>1. Ends(v, stop) \in SUBSET Nat
      BY DEF Ends
    <3>2. QED
      BY <1>3, <3>1, LeastMember
  <2>2. i \in 1..n
    BY DEF Ends
  <2>3. Chained(v, stop) = IF v[i] = Unresolved THEN Unresolved ELSE Bool(stop)
    BY <2>1, ChainedAtFirstEnd
  <2>4. CASE v[i] = Unresolved
    BY <2>3, <2>4 DEF Stands
  <2>5. CASE v[i] # Unresolved
    <3>1. w[i] = v[i]
      BY <2>2, <2>5 DEF Stands
    <3>2. i \in Ends(w, stop)
      BY <2>1, <2>2, <3>1 DEF Ends
    <3>3. \A j \in Ends(w, stop) : i <= j
      <4>1. \A j \in Ends(w, stop) : j \in 1..n
        BY DEF Ends
      <4>2. QED
        BY <1>1, <2>1, <4>1
    <3>4. Chained(w, stop) = Bool(stop)
      BY <2>5, <3>1, <3>2, <3>3, ChainedAtFirstEnd
    <3>5. QED
      BY <2>3, <2>5, <3>4 DEF Stands
  <2>6. QED
    BY <2>4, <2>5
<1>4. QED
  BY <1>2, <1>3

\* A node that could be evaluated stays as it was when more of its parts, and
\* more of the references, can be.
LEMMA NodeStands ==
    ASSUME NEW p \in Predicates, NEW a, NEW b, NEW v, NEW w,
           DOMAIN v = DOMAIN Parts(p), DOMAIN w = DOMAIN Parts(p),
           \A i \in DOMAIN Parts(p) : Stands(v[i], w[i]),
           DOMAIN a \subseteq DOMAIN b,
           \A path \in DOMAIN a : a[path] = b[path]
    PROVE  Stands(ValueOf(p, v, a), ValueOf(p, w, b))
<1>0. Shaped(p) /\ Parts(p) \in Seq(Predicates)
  BY PredicatesAssumption
<1> PICK n \in Nat : n = Len(Parts(p)) /\ DOMAIN Parts(p) = 1..n
  BY <1>0
<1>1. CASE p.op = "const"
  BY <1>1 DEF ValueOf, Stands
<1>2. CASE p.op = "ref"
  BY <1>2 DEF ValueOf, Stands
<1>3. CASE p.op = "not"
  <2>1. 1 \in DOMAIN Parts(p)
    BY <1>3 DEF Parts
  <2>2. ValueOf(p, v, a) = Negated(v[1]) /\ ValueOf(p, w, b) = Negated(w[1])
    BY <1>3 DEF ValueOf, Arithmetic
  <2>3. QED
    BY <2>1, <2>2, NegatedStands
<1>4. CASE p.op = "and"
  <2>1. /\ ValueOf(p, v, a) = Chained(v, FALSE)
        /\ ValueOf(p, w, b) = Chained(w, FALSE)
    BY <1>4 DEF ValueOf, Arithmetic
  <2>2. QED
    BY <2>1, ChainedStands
<1>5. CASE p.op = "or"
  <2>1. /\ ValueOf(p, v, a) = Chained(v, TRUE)
        /\ ValueOf(p, w, b) = Chained(w, TRUE)
    BY <1>5 DEF ValueOf, Arithmetic
  <2>2. QED
    BY <2>1, ChainedStands
<1>6. CASE p.op \in Arithmetic
  <2>1. Parts(p) = p.args /\ Len(p.args) = 2
    BY <1>0, <1>6 DEF Arithmetic, Parts, Shaped
  <2>2. 1 \in DOMAIN Parts(p) /\ 2 \in DOMAIN Parts(p)
    BY <1>0, <2>1
  <2>3. /\ ValueOf(p, v, a) = Computed(p.op, v[1], v[2])
        /\ ValueOf(p, w, b) = Computed(p.op, w[1], w[2])
    BY <1>6 DEF ValueOf, Arithmetic
  <2>4. QED
    BY <2>2, <2>3, ComputedStands
<1>7. CASE p.op = "compare"
  <2> DEFINE V == [i \in DOMAIN p.rels |-> Compared(p.rels[i], v[i], v[i + 1])]
             W == [i \in DOMAIN p.rels |-> Compared(p.rels[i], w[i], w[i + 1])]
  <2>1. /\ Parts(p) = p.args /\ Len(p.args) = Len(p.rels) + 1
        /\ p.rels \in Seq({"==", "!=", "<", "<=", ">", ">=", "in", "not in"})
    BY <1>0, <1>7 DEF Parts, Shaped
  <2>2. Len(p.rels) \in Nat /\ DOMAIN p.rels = 1..Len(p.rels)
    <3> DEFINE R == {"==", "!=", "<", "<=", ">", ">=", "in", "not in"}
    <3>1. p.rels \in Seq(R)
      BY <2>1
    <3> HIDE DEF R
    <3>2. QED
      BY <3>1
  <2> PICK m \in Nat : m = Len(p.rels) /\ DOMAIN p.rels = 1..m
    BY <2>2
  <2>3. n = m + 1
    BY <2>1
  <2>4. ASSUME NEW i \in 1..m PROVE Stands(V[i], W[i])
    <3>1. i \in 1..n /\ i + 1 \in 1..n
      BY <2>3
    <3>2. QED
      BY <2>2, <3>1, ComparedStands
  <2>5. DOMAIN V = 1..m /\ DOMAIN W = 1..m
    BY <2>2
  <2>6. ValueOf(p, v, a) = Chained(V, FALSE) /\ ValueOf(p, w, b) = Chained(W, FALSE)
    BY <1>7 DEF ValueOf, Arithmetic
  <2> HIDE DEF V, W
  <2>7. QED
    BY <2>4, <2>5, <2>6, ChainedStands
<1>8. QED
  BY <1>0, <1>1, <1>2, <1>3, <1>4, <1>5, <1>6, <1>7 DEF Shaped

\* What evaluates to a value goes on doing so when references are added.
THEOREM EvalStands ==
    ASSUME NEW a, NEW b, DOMAIN a \subseteq DOMAIN b,
           \A path \in DOMAIN a : a[path] = b[path],
           NEW predicate \in Predicates
    PROVE  Stands(Eval(predicate, a), Eval(predicate, b))
<1> DEFINE T == {p \in Predicates : ~Stands(Eval(p, a), Eval(p, b))}
<1> SUFFICES ASSUME T # {} PROVE FALSE
  OBVIOUS
<1>1. PICK p \in T : ToSet(Parts(p)) \cap T = {}
  BY TreesAssumption
<1> DEFINE v == [i \in DOMAIN Parts(p) |-> Eval(Parts(p)[i], a)]
           w == [i \in DOMAIN Parts(p) |-> Eval(Parts(p)[i], b)]
<1>2. ASSUME NEW i \in DOMAIN Parts(p) PROVE Stands(v[i], w[i])
  <2>1. Parts(p)[i] \in ToSet(Parts(p))
    BY DEF ToSet
  <2>2. Parts(p)[i] \in Predicates
    BY PredicatesAssumption
  <2>3. QED
    BY <1>1, <2>1, <2>2
<1>3. Eval(p, a) = ValueOf(p, v, a) /\ Eval(p, b) = ValueOf(p, w, b)
  BY EvalUnfolds
<1>4. DOMAIN v = DOMAIN Parts(p) /\ DOMAIN w = DOMAIN Parts(p)
  OBVIOUS
<1> HIDE DEF v, w
<1>5. Stands(ValueOf(p, v, a), ValueOf(p, w, b))
  BY <1>2, <1>4, NodeStands
<1>6. QED
  BY <1>3, <1>5

\* Every reference is a dotted key.
LEMMA PathsAreDotted ==
    \A p \in Predicates : Paths[p] \subseteq DottedKeys
<1> DEFINE T == {p \in Predicates : ~(Paths[p] \subseteq DottedKeys)}
<1> SUFFICES ASSUME T # {} PROVE FALSE
  OBVIOUS
<1>1. PICK p \in T : ToSet(Parts(p)) \cap T = {}
  BY TreesAssumption
<1>2. CASE p.op = "ref"
  <2>1. Paths[p] = {p.path}
    BY <1>2, PathsUnfold, Zenon
  <2>2. p.path \in DottedKeys
    BY <1>2, PredicatesAssumption DEF Shaped
  <2>3. QED
    BY <2>1, <2>2
<1>3. CASE p.op # "ref"
  <2>1. Paths[p] = UNION {Paths[q] : q \in ToSet(Parts(p))}
    BY <1>3, PathsUnfold, Zenon
  <2>2. ToSet(Parts(p)) \subseteq Predicates
    <3>1. Parts(p) \in Seq(Predicates)
      BY PredicatesAssumption
    <3>2. QED
      BY <3>1 DEF ToSet
  <2>3. \A q \in ToSet(Parts(p)) : Paths[q] \subseteq DottedKeys
    BY <1>1, <2>2
  <2>4. QED
    BY <2>1, <2>3
<1>4. QED
  BY <1>2, <1>3

\* What one element in front of a sequence makes of it.
LEMMA OneInFront ==
    ASSUME NEW S, NEW h \in S, NEW t \in Seq(S)
    PROVE  /\ <<h>> \o t \in Seq(S) /\ Len(<<h>> \o t) = 1 + Len(t)
           /\ \A i \in 1..1 + Len(t) :
                 (<<h>> \o t)[i] = IF i <= 1 THEN h ELSE t[i - 1]
<1>0. <<h>> \in Seq(S)
  OBVIOUS
<1> PICK s \in Seq(S) : s = <<h>>
  BY <1>0, Zenon
<1>1. Len(s) = 1 /\ s[1] = h
  OBVIOUS
<1>2. /\ s \o t \in Seq(S) /\ Len(s \o t) = Len(s) + Len(t)
      /\ \A i \in 1..Len(s) + Len(t) :
            (s \o t)[i] = IF i <= Len(s) THEN s[i] ELSE t[i - Len(s)]
  BY ConcatProperties
<1>3. \A i \in 1..1 + Len(t) : (s \o t)[i] = IF i <= 1 THEN h ELSE t[i - 1]
  <2>1. Len(t) \in Nat
    BY LenProperties
  <2>2. TAKE i \in 1..1 + Len(t)
  <2>3. (s \o t)[i] = IF i <= 1 THEN s[i] ELSE t[i - 1]
    BY <1>1, <1>2
  <2>4. i <= 1 => i = 1
    BY <2>1
  <2>5. QED
    BY <1>1, <2>3, <2>4
<1>4. QED
  BY <1>1, <1>2, <1>3

\* A side and a key, put together and taken apart.
LEMMA HeadAndTailOfPair ==
    ASSUME NEW S, NEW side \in S, NEW k \in Seq(S)
    PROVE  /\ <<side>> \o k \in Seq(S) \ {<<>>}
           /\ Head(<<side>> \o k) = side /\ Tail(<<side>> \o k) = k
<1>2. /\ <<side>> \o k \in Seq(S) /\ Len(<<side>> \o k) = 1 + Len(k)
      /\ \A i \in 1..1 + Len(k) :
            (<<side>> \o k)[i] = IF i <= 1 THEN side ELSE k[i - 1]
  BY OneInFront
<1>3. Len(k) \in Nat
  BY LenProperties
<1>4. <<side>> \o k # <<>>
  BY <1>2, <1>3, EmptySeq
<1>5. Head(<<side>> \o k) = side
  BY <1>2, <1>3
<1> PICK q \in Seq(S) : q = <<side>> \o k
  BY <1>2
<1>6. /\ Tail(q) \in Seq(S) /\ Len(Tail(q)) = Len(q) - 1
      /\ \A i \in 1..Len(Tail(q)) : Tail(q)[i] = q[i + 1]
  BY <1>4, HeadTailProperties
<1>7. Len(Tail(q)) = Len(k)
  BY <1>2, <1>3, <1>6
<1>8. \A i \in 1..Len(k) : q[i + 1] = k[i]
  BY <1>2, <1>3
<1>9. Tail(q) = k
  BY <1>6, <1>7, <1>8, SeqEqual
<1>10. QED
  BY <1>2, <1>4, <1>5, <1>9

\* A path is its side and its key.
LEMMA PairOfHeadAndTail ==
    ASSUME NEW S, NEW path \in Seq(S) \ {<<>>}
    PROVE  /\ Head(path) \in S /\ Tail(path) \in Seq(S)
           /\ path = <<Head(path)>> \o Tail(path)
           /\ Tail(path) # <<>> <=> Len(path) > 1
<1>1. /\ Head(path) \in S /\ Tail(path) \in Seq(S) /\ Len(Tail(path)) = Len(path) - 1
      /\ \A i \in 1..Len(Tail(path)) : Tail(path)[i] = path[i + 1]
  BY HeadTailProperties
<1>2. Len(path) \in Nat \ {0}
  BY EmptySeq
<1> PICK h \in S, t \in Seq(S) : h = Head(path) /\ t = Tail(path)
  BY <1>1
<1>4. /\ <<h>> \o t \in Seq(S) /\ Len(<<h>> \o t) = 1 + Len(t)
      /\ \A i \in 1..1 + Len(t) :
            (<<h>> \o t)[i] = IF i <= 1 THEN h ELSE t[i - 1]
  BY OneInFront
<1>5. Len(<<h>> \o t) = Len(path)
  BY <1>1, <1>2, <1>4
<1>6. h = path[1]
  OBVIOUS
<1>7. ASSUME NEW i \in 1..Len(path) PROVE (<<h>> \o t)[i] = path[i]
  <2>1. i \in 1..1 + Len(t)
    BY <1>1, <1>2
  <2>2. CASE i = 1
    BY <1>4, <1>6, <2>1, <2>2
  <2>3. CASE i # 1
    <3>1. i - 1 \in 1..Len(Tail(path)) /\ ~(i <= 1) /\ (i - 1) + 1 = i
      BY <1>1, <1>2, <2>3
    <3>2. t[i - 1] = path[i]
      BY <1>1, <3>1
    <3>3. QED
      BY <1>4, <2>1, <3>1, <3>2
  <2>4. QED
    BY <2>2, <2>3
<1>8. <<h>> \o t = path
  BY <1>4, <1>5, <1>7, SeqEqual
<1>9. Tail(path) # <<>> <=> Len(path) > 1
  <2>1. Len(<<>>) = 0 /\ (Tail(path) # <<>> => Len(Tail(path)) \in Nat \ {0})
    BY <1>1, EmptySeq, Zenon
  <2>2. Len(Tail(path)) = Len(path) - 1
    BY <1>1
  <2>3. Tail(path) = <<>> => Len(path) - 1 = 0
    BY <2>1, <2>2
  <2>4. QED
    BY <1>2, <2>1, <2>2, <2>3
<1>10. QED
  BY <1>1, <1>8, <1>9

\* STRING, with the sides named: no prover knows a literal to be one.
Words == STRING \cup {"pre", "post", "facts", "scope"}

WordSeqs == Seq(Words) \ {<<>>}

\* A dotted key is one over these words too.
LEMMA DottedKeysAreWordSeqs == DottedKeys \subseteq WordSeqs
<1>1. ASSUME NEW k \in Seq(STRING) PROVE k \in Seq(Words)
  BY SeqMonotonic, Zenon DEF Words
<1>2. QED
  BY <1>1 DEF DottedKeys, WordSeqs

\* The references that are bound, as they are put together.
Bound(path, pre, post) ==
    \/ \E k \in DOMAIN pre : path = <<"pre">> \o k
    \/ \E side \in {"post", "facts"} : \E k \in DOMAIN post : path = <<side>> \o k

\* ... are the domain of the bindings.
LEMMA BindingsPaths ==
    ASSUME NEW pre, NEW post, NEW path
    PROVE  path \in DOMAIN Bindings(pre, post) <=> Bound(path, pre, post)
  BY DEF Bindings, Bound

\* The references an observation answers: those of a side it has, to a key it has.
LEMMA BindingsDomain ==
    ASSUME NEW pre, NEW post, DOMAIN pre \subseteq WordSeqs,
           DOMAIN post \subseteq WordSeqs, NEW path \in WordSeqs
    PROVE  path \in DOMAIN Bindings(pre, post) <=>
             \/ Head(path) = "pre" /\ Tail(path) \in DOMAIN pre
             \/ Head(path) \in {"post", "facts"} /\ Tail(path) \in DOMAIN post
<1>1. path \in DOMAIN Bindings(pre, post) <=> Bound(path, pre, post)
  BY BindingsPaths
<1>2. \A k \in DOMAIN pre \cup DOMAIN post : k \in Seq(Words)
  BY DEF WordSeqs
<1>3. \A side \in {"pre", "post", "facts"} : side \in Words
  BY DEF Words
<1>4. \A side \in {"pre", "post", "facts"}, k \in DOMAIN pre \cup DOMAIN post :
         path = <<side>> \o k => Head(path) = side /\ Tail(path) = k
  BY <1>2, <1>3, HeadAndTailOfPair, Zenon
<1>5. path = <<Head(path)>> \o Tail(path)
  BY PairOfHeadAndTail, Zenon DEF WordSeqs
<1>6. ASSUME path \in DOMAIN Bindings(pre, post)
      PROVE  \/ Head(path) = "pre" /\ Tail(path) \in DOMAIN pre
             \/ Head(path) \in {"post", "facts"} /\ Tail(path) \in DOMAIN post
  BY <1>1, <1>4, <1>6 DEF Bound
<1>7. ASSUME \/ Head(path) = "pre" /\ Tail(path) \in DOMAIN pre
             \/ Head(path) \in {"post", "facts"} /\ Tail(path) \in DOMAIN post
      PROVE  path \in DOMAIN Bindings(pre, post)
  BY <1>1, <1>5, <1>7, Zenon DEF Bound
<1>8. QED
  BY <1>6, <1>7

\* A reference's value is the fact's, on its side.
LEMMA BindingsValue ==
    ASSUME NEW pre, NEW post, NEW path \in DOMAIN Bindings(pre, post)
    PROVE  Bindings(pre, post)[path] = IF Head(path) = "pre" THEN pre[Tail(path)]
                                       ELSE post[Tail(path)]
<1> DEFINE D == {<<"pre">> \o k : k \in DOMAIN pre}
                  \cup {<<side>> \o k : side \in {"post", "facts"}, k \in DOMAIN post}
<1>1. Bindings(pre, post) = [q \in D |-> IF Head(q) = "pre" THEN pre[Tail(q)]
                                         ELSE post[Tail(q)]]
  BY DEF Bindings
<1> HIDE DEF D
<1>2. QED
  BY <1>1

\* Two observations that say the same of the facts a predicate refers to bind
\* the same to every reference in it.
LEMMA SameFactsSameBindings ==
    ASSUME NEW pre, NEW post, NEW other,
           DOMAIN pre \subseteq WordSeqs, DOMAIN post \subseteq WordSeqs,
           DOMAIN other \subseteq WordSeqs, NEW path \in WordSeqs,
           Head(path) \in {"post", "facts"} /\ Len(path) > 1
             => SameAt(Tail(path), post, other)
    PROVE  SameAt(path, Bindings(pre, post), Bindings(pre, other))
<1>1. /\ path \in DOMAIN Bindings(pre, post) <=>
           \/ Head(path) = "pre" /\ Tail(path) \in DOMAIN pre
           \/ Head(path) \in {"post", "facts"} /\ Tail(path) \in DOMAIN post
      /\ path \in DOMAIN Bindings(pre, other) <=>
           \/ Head(path) = "pre" /\ Tail(path) \in DOMAIN pre
           \/ Head(path) \in {"post", "facts"} /\ Tail(path) \in DOMAIN other
  BY BindingsDomain
<1>2. Tail(path) \in DOMAIN post \cup DOMAIN other => Len(path) > 1
  BY PairOfHeadAndTail DEF WordSeqs
<1>3. CASE Head(path) \in {"post", "facts"}
  <2>1. Head(path) # "pre"
    BY <1>3
  <2>2. path \in DOMAIN Bindings(pre, post) <=> Tail(path) \in DOMAIN post
    BY <1>1, <1>3, <2>1
  <2>3. path \in DOMAIN Bindings(pre, other) <=> Tail(path) \in DOMAIN other
    BY <1>1, <1>3, <2>1
  <2>4. Tail(path) \in DOMAIN post \cup DOMAIN other => SameAt(Tail(path), post, other)
    BY <1>2, <1>3
  <2>5. path \in DOMAIN Bindings(pre, post)
          => Bindings(pre, post)[path] = post[Tail(path)]
    BY <2>1, BindingsValue
  <2>6. path \in DOMAIN Bindings(pre, other)
          => Bindings(pre, other)[path] = other[Tail(path)]
    BY <2>1, BindingsValue
  <2>7. QED
    BY <2>2, <2>3, <2>4, <2>5, <2>6 DEF SameAt
<1>4. CASE Head(path) \notin {"post", "facts"}
  <2>1. path \in DOMAIN Bindings(pre, post) <=> path \in DOMAIN Bindings(pre, other)
    BY <1>1, <1>4
  <2>2. ASSUME path \in DOMAIN Bindings(pre, post)
        PROVE  Bindings(pre, post)[path] = Bindings(pre, other)[path]
    <3>1. Head(path) = "pre"
      BY <1>1, <1>4, <2>2
    <3>2. QED
      BY <2>1, <2>2, <3>1, BindingsValue
  <2>3. QED
    BY <2>1, <2>2 DEF SameAt
<1>5. QED
  BY <1>3, <1>4

\* What is observed afterwards only adds to the bindings what it adds to the facts.
LEMMA MoreFactsMoreBindings ==
    ASSUME NEW pre, NEW post, NEW more,
           DOMAIN post \subseteq DOMAIN more, \A k \in DOMAIN post : more[k] = post[k],
           DOMAIN pre \subseteq WordSeqs, DOMAIN more \subseteq WordSeqs
    PROVE  /\ DOMAIN Bindings(pre, post) \subseteq DOMAIN Bindings(pre, more)
           /\ \A path \in DOMAIN Bindings(pre, post) :
                 Bindings(pre, more)[path] = Bindings(pre, post)[path]
<1>1. DOMAIN Bindings(pre, post) \subseteq DOMAIN Bindings(pre, more)
  <2>1. ASSUME NEW path \in DOMAIN Bindings(pre, post)
        PROVE  path \in DOMAIN Bindings(pre, more)
    <3>1. Bound(path, pre, post)
      BY BindingsPaths
    <3>2. Bound(path, pre, more)
      BY <3>1 DEF Bound
    <3>3. QED
      BY <3>2, BindingsPaths
  <2>2. QED
    BY <2>1
<1>2. DOMAIN Bindings(pre, post) \subseteq WordSeqs
  <2>1. \A k \in DOMAIN pre \cup DOMAIN post : k \in Seq(Words)
    BY DEF WordSeqs
  <2>2. \A side \in {"pre", "post", "facts"} : side \in Words
    BY DEF Words
  <2>3. \A side \in {"pre", "post", "facts"}, k \in DOMAIN pre \cup DOMAIN post :
           <<side>> \o k \in WordSeqs
    BY <2>1, <2>2, HeadAndTailOfPair, Zenon DEF WordSeqs
  <2>4. ASSUME NEW path \in DOMAIN Bindings(pre, post) PROVE path \in WordSeqs
    <3>1. Bound(path, pre, post)
      BY BindingsPaths
    <3>2. QED
      BY <2>3, <3>1 DEF Bound
  <2>5. QED
    BY <2>4
<1>3. ASSUME NEW path \in DOMAIN Bindings(pre, post)
      PROVE  Bindings(pre, more)[path] = Bindings(pre, post)[path]
  <2>1. path \in WordSeqs
    BY <1>2
  <2>2. \/ Head(path) = "pre"
        \/ Head(path) # "pre" /\ Tail(path) \in DOMAIN post
    BY <2>1, BindingsDomain
  <2>3. QED
    BY <1>1, <2>2, BindingsValue
<1>4. QED
  BY <1>1, <1>3

\* An outcome depends on the same references.
LEMMA HoldsDependsOnPaths ==
    ASSUME NEW a, NEW b, NEW p \in Predicates,
           \A path \in Paths[p] : SameAt(path, a, b)
    PROVE  Holds(p, a) = Holds(p, b)
  BY EvalDependsOnPaths DEF Holds

\* The facts a predicate refers to.
LEMMA PostKeysOfPaths ==
    ASSUME NEW p \in Predicates, NEW path \in Paths[p],
           Head(path) \in {"post", "facts"}, Len(path) > 1
    PROVE  Tail(path) \in PostKeys(p)
  BY DEF PostKeys

\* The outcomes of the clauses depend on the normalized facts, and on nothing
\* else that polling does not compare.
THEOREM OutcomesDependOnNormalized ==
    ASSUME NEW env, Parses(env), NEW pre, NEW post, NEW other,
           DOMAIN pre \subseteq DottedKeys, DOMAIN post \subseteq DottedKeys,
           DOMAIN other \subseteq DottedKeys,
           \A k \in NormalizedKeys(env) : SameAt(k, post, other)
    PROVE  Outcomes(env, pre, post) = Outcomes(env, pre, other)
<1> DEFINE A == Bindings(pre, post)
           B == Bindings(pre, other)
<1>1. /\ DOMAIN pre \subseteq WordSeqs /\ DOMAIN post \subseteq WordSeqs
      /\ DOMAIN other \subseteq WordSeqs
  BY DottedKeysAreWordSeqs
<1>2. ASSUME NEW p \in Predicates, PostKeys(p) \subseteq NormalizedKeys(env)
      PROVE  \A path \in Paths[p] : SameAt(path, A, B)
  <2> SUFFICES ASSUME NEW path \in Paths[p] PROVE SameAt(path, A, B)
    OBVIOUS
  <2>1. path \in WordSeqs
    BY PathsAreDotted, DottedKeysAreWordSeqs
  <2>2. Head(path) \in {"post", "facts"} /\ Len(path) > 1
          => SameAt(Tail(path), post, other)
    BY <1>2, PostKeysOfPaths
  <2>3. QED
    BY <1>1, <2>1, <2>2, SameFactsSameBindings
<1> HIDE DEF A, B
<1>3. ASSUME NEW c \in env.require
      PROVE  Holds(c.predicate, A) = Holds(c.predicate, B)
  <2>1. c.predicate \in Predicates
    BY DEF Parses
  <2>2. PostKeys(c.predicate) \subseteq NormalizedKeys(env)
    BY DEF NormalizedKeys, PredictedKeys
  <2>3. QED
    BY <1>2, <2>1, <2>2, HoldsDependsOnPaths
<1>4. ASSUME NEW d \in env.derive
      PROVE  Holds(d, A) = Holds(d, B)
  <2>1. d \in Predicates
    BY DEF Parses
  <2>2. PostKeys(d) \subseteq NormalizedKeys(env)
    BY DEF NormalizedKeys, PredictedKeys
  <2>3. QED
    BY <1>2, <2>1, <2>2, HoldsDependsOnPaths
<1>5. ASSUME NEW c \in env.forbid
      PROVE  ForbidOutcome(c, A) = ForbidOutcome(c, B)
  <2>1. c.predicate \in Predicates /\ c.scope \in DottedKeys
    BY DEF Parses
  <2>2. /\ PostKeys(c.predicate) \subseteq NormalizedKeys(env)
        /\ c.scope \in NormalizedKeys(env)
    BY DEF NormalizedKeys
  <2> PICK scope : scope = <<"post">> \o c.scope
    OBVIOUS
  <2>3. SameAt(scope, A, B)
    <3>1. /\ "post" \in Words /\ c.scope \in Seq(Words)
      BY <2>1, DottedKeysAreWordSeqs DEF Words, WordSeqs
    <3>2. scope \in WordSeqs /\ Tail(scope) = c.scope
      BY <3>1, HeadAndTailOfPair DEF WordSeqs
    <3>3. SameAt(Tail(scope), post, other)
      BY <2>2, <3>2
    <3>4. QED
      BY <1>1, <3>2, <3>3, SameFactsSameBindings DEF A, B
  <2> DEFINE AS == WithScope(A, A[scope])
             BS == WithScope(B, B[scope])
  <2>4. CASE scope \notin DOMAIN A
    <3>1. scope \notin DOMAIN B
      BY <2>3, <2>4 DEF SameAt
    <3>2. QED
      BY <2>4, <3>1 DEF ForbidOutcome
  <2>5. CASE scope \in DOMAIN A
    <3>1. scope \in DOMAIN B /\ A[scope] = B[scope]
      BY <2>3, <2>5 DEF SameAt
    <3>2. \A path \in Paths[c.predicate] : SameAt(path, A, B)
      BY <1>2, <2>1, <2>2
    <3>3. \A path \in Paths[c.predicate] : SameAt(path, AS, BS)
      BY <3>1, <3>2 DEF SameAt, WithScope
    <3> HIDE DEF AS, BS
    <3>4. Holds(c.predicate, AS) = Holds(c.predicate, BS)
      BY <2>1, <3>3, HoldsDependsOnPaths
    <3>5. /\ ForbidOutcome(c, A) = Holds(c.predicate, AS)
          /\ ForbidOutcome(c, B) = Holds(c.predicate, BS)
      BY <2>5, <3>1 DEF ForbidOutcome, AS, BS
    <3>6. QED
      BY <3>4, <3>5
  <2>6. QED
    BY <2>4, <2>5
<1>6. QED
  BY <1>3, <1>4, <1>5 DEF Outcomes, A, B

---------------------------------------------------------------------------
\* The verdict: the loop and the language together.

\* What an observation shows is facts the collectors have.
LEMMA ShownFacts ==
    ASSUME NEW o, DOMAIN o = Facts
    PROVE  /\ DOMAIN Shown(o) \subseteq Facts
           /\ DOMAIN Shown(o) \subseteq DottedKeys
           /\ DOMAIN Pre \subseteq Facts /\ DOMAIN Pre \subseteq DottedKeys
  BY VerdictAssumption DEF VerdictAssumption, Shown, Pre

\* A surface shows of a fact what any other does that has the same of it.
LEMMA ShownAt ==
    ASSUME NEW s, NEW t, DOMAIN s = Facts, DOMAIN t = Facts, NEW k,
           k \in Facts => s[k] = t[k]
    PROVE  SameAt(k, Shown(s), Shown(t))
  BY DEF SameAt, Shown

\* assert_envelope is satisfied only with every clause.
LEMMA SatisfiedMeansEveryClause ==
    ASSUME NEW env, NEW pre, NEW post, NEW categories,
           AssertEnvelope(env, pre, post, categories) = "satisfied"
    PROVE  /\ Outcomes(env, pre, post) \subseteq {"satisfied"}
           /\ Unclassified(env, pre, post, categories) = {}
<1>1. Outcomes(env, pre, post) \subseteq {"satisfied", "violated", "unresolved"}
  BY DEF Outcomes, ForbidOutcome, Holds
<1>2. /\ "unresolved" \notin Outcomes(env, pre, post)
      /\ "violated" \notin Outcomes(env, pre, post)
      /\ Unclassified(env, pre, post, categories) = {}
  BY DEF AssertEnvelope
<1>3. QED
  BY <1>1, <1>2

\* A fact that was there before and is not there now is in the delta.
LEMMA LostFactIsInDelta ==
    ASSUME NEW pre, NEW post, NEW f \in DOMAIN pre, f \notin DOMAIN post
    PROVE  f \in Delta(pre, post)
  BY DEF Delta

\* Whatever an observer loses, the verdict is not satisfied with it, unless the
\* fact was predicted or its category allowed.
THEOREM LostFactIsCaught == ConvergeSpec => []ErasureIsCaught
<1>1. ErasureIsCaught
  <2> SUFFICES ASSUME NEW f \in DOMAIN Pre \cap DOMAIN Shown(reading),
                      ~IsPredicted(f, Clauses[envelope]),
                      Category(Categories, f) \notin Clauses[envelope].allow
               PROVE  Verdict(envelope, [g \in DOMAIN Shown(reading) \ {f} |->
                                           Shown(reading)[g]]) # "satisfied"
    BY DEF ErasureIsCaught
  <2> DEFINE post == [g \in DOMAIN Shown(reading) \ {f} |-> Shown(reading)[g]]
  <2>1. f \in Delta(Pre, post)
    BY LostFactIsInDelta
  <2> HIDE DEF post
  <2>2. f \in Unclassified(Clauses[envelope], Pre, post, Categories)
    BY <2>1 DEF Unclassified
  <2>3. Verdict(envelope, post) # "satisfied"
    BY <2>2, SatisfiedMeansEveryClause DEF Verdict
  <2>4. QED
    BY <2>3 DEF post
<1>2. QED
  BY <1>1, PTL

\* What is frozen is a view of an observation that had every fact, and the
\* assertion that stands is the one made of that observation.
AssertedOnFrozen ==
    frozen # Nothing =>
        \E s \in Surfaces : frozen = Seen(s) /\ assertion = Assess[envelope][s]

\* The assertion is made with the freezing, and neither is touched again.
LEMMA AssertionOfFrozen == ConvergeSpec => []AssertedOnFrozen
<1>1. ConvergeInit => AssertedOnFrozen
  BY DEF ConvergeInit, AssertedOnFrozen
<1>2. ASSUME ConvergeInv, AssertedOnFrozen, [ConvergeNext]_convergeVars
      PROVE  AssertedOnFrozen'
  <2>1. envelope' = envelope /\ Watched' = Watched
    BY <1>2, WatchStays DEF ConvergeInv, convergeVars, sourceVars, Watched
  <2>2. \A s : Seen(s)' = Seen(s)
    BY <2>1 DEF Seen
  <2>3. ASSUME Freeze PROVE AssertedOnFrozen'
    <3>1. reading \in Surfaces
      BY <1>2, <2>3 DEF Freeze, Complete, ConvergeInv, ConvergeTypeOK, Surfaces
    <3>2. frozen' = Seen(reading) /\ assertion' = Assess[envelope][reading]
      BY <2>3 DEF Freeze, Assessed
    <3>3. QED
      BY <2>1, <2>2, <3>1, <3>2 DEF AssertedOnFrozen
  <2>4. ASSUME UNCHANGED <<frozen, assertion>> PROVE AssertedOnFrozen'
    BY <1>2, <2>1, <2>2, <2>4 DEF AssertedOnFrozen
  <2>5. ASSUME GiveUp PROVE AssertedOnFrozen'
    BY <1>2, <2>5 DEF GiveUp, ConvergeInv, Loop, AssertedOnFrozen
  <2>6. QED
    BY <1>2, <2>3, <2>4, <2>5
       DEF ConvergeNext, ConvergeStep, ReadFact, ObserverRaises, PollAgain,
           Sleep, Reproduction, SurfaceChanges, TimePasses, convergeVars
<1>3. QED
  BY <1>1, <1>2, ConvergeInvariance, PTL DEF ConvergeSpec

\* Observations that are seen the same have the same of every fact compared.
LEMMA SeenDecidesWatched ==
    ASSUME NEW s, NEW t, Seen(s) = Seen(t)
    PROVE  \A f \in Normalized[envelope] : s[f] = t[f]
<1>1. \A o : \A f \in Watched : Seen(o)[f] = o[f]
  BY DEF Seen
<1>2. QED
  BY <1>1, Zenon DEF Watched

\* Two surfaces that agree on what the loop compares have the same outcomes.
LEMMA WatchedDecidesOutcomes ==
    ASSUME NEW e \in Envelopes, NEW s \in Surfaces, NEW t \in Surfaces,
           \A f \in Normalized[e] : s[f] = t[f]
    PROVE  Outcomes(Clauses[e], Pre, Shown(s)) = Outcomes(Clauses[e], Pre, Shown(t))
<1>1. DOMAIN s = Facts /\ DOMAIN t = Facts
  BY DEF Surfaces
<1>2. Parses(Clauses[e]) /\ Normalized[e] = NormalizedKeys(Clauses[e]) \cap Facts
  BY VerdictAssumption DEF VerdictAssumption, NormalizedOf
<1>3. \A k \in NormalizedKeys(Clauses[e]) : SameAt(k, Shown(s), Shown(t))
  BY <1>1, <1>2, ShownAt
<1>4. /\ DOMAIN Pre \subseteq DottedKeys /\ DOMAIN Shown(s) \subseteq DottedKeys
      /\ DOMAIN Shown(t) \subseteq DottedKeys
  BY <1>1, ShownFacts
<1>5. QED
  BY <1>2, <1>3, <1>4, OutcomesDependOnNormalized

\* For any facts, envelopes, clauses and bounds: when converge is satisfied of a
\* surface that settles, every clause held of the surface at one moment.
THEOREM SatisfiedOfTheSurface == ConvergeSpec => []SatisfiedAtOneMoment
<1>1. ConvergeInv /\ AssertedOnFrozen => SatisfiedAtOneMoment
  <2> SUFFICES ASSUME ConvergeInv, AssertedOnFrozen, settles, result = "satisfied"
               PROVE  Outcomes(Clauses[envelope], Pre, Shown(began)) \subseteq {"satisfied"}
    BY DEF SatisfiedAtOneMoment
  <2>1. pc = "done"
    BY DEF ConvergeInv, Loop
  <2>2. frozen # Nothing /\ assertion = "satisfied"
    BY <2>1 DEF ConvergeInv, OutcomeIsGrounded, Convergences
  <2>3. frozen = Seen(began)
    BY <2>1, <2>2 DEF ConvergeInv, FrozenIsSnapshot
  <2>4. PICK s \in Surfaces : frozen = Seen(s) /\ assertion = Assess[envelope][s]
    BY <2>2 DEF AssertedOnFrozen
  <2>5. envelope \in Envelopes /\ began \in Surfaces
    BY DEF ConvergeInv, ConvergeTypeOK
  <2>6. Verdict(envelope, Shown(s)) = "satisfied"
    BY <2>2, <2>4, <2>5, VerdictAssumption DEF VerdictAssumption, AssessOf
  <2>7. Outcomes(Clauses[envelope], Pre, Shown(s)) \subseteq {"satisfied"}
    BY <2>6, SatisfiedMeansEveryClause DEF Verdict
  <2>8. \A f \in Normalized[envelope] : s[f] = began[f]
    BY <2>3, <2>4, SeenDecidesWatched
  <2>9. Outcomes(Clauses[envelope], Pre, Shown(s))
          = Outcomes(Clauses[envelope], Pre, Shown(began))
    BY <2>4, <2>5, <2>8, WatchedDecidesOutcomes
  <2>10. QED
    BY <2>7, <2>9
<1>2. QED
  BY <1>1, ConvergeInvariance, AssertionOfFrozen, PTL

\* For any envelope and any observation, an outcome other than unresolved is not
\* revised by facts that the observation lacks.
THEOREM OutcomesAreForGood == ConvergeSpec => []OutcomesStand
<1>1. ConvergeInv => OutcomesStand
  <2> SUFFICES ASSUME ConvergeInv, JustAsserted PROVE OutcomesStand
    BY DEF OutcomesStand
  <2> DEFINE post    == Shown(reading)
             absent  == Facts \ DOMAIN post
             options == [f \in absent |-> {Observed[f][v] : v \in Versions} \ {Missing}]
             clauses == {c.predicate : c \in Clauses[envelope].require}
                          \cup Clauses[envelope].derive
             Full(m) == [f \in Facts |-> IF f \in absent THEN m[f] ELSE post[f]]
  <2>1. clauses \subseteq Predicates
    <3>1. Parses(Clauses[envelope])
      BY VerdictAssumption DEF VerdictAssumption, ConvergeInv, ConvergeTypeOK
    <3>2. QED
      BY <3>1 DEF Parses
  <2>2. DOMAIN post \subseteq Facts
    BY ShownFacts DEF JustAsserted, Complete
  <2>3. DOMAIN Pre \subseteq WordSeqs /\ Facts \subseteq WordSeqs
    BY ShownFacts, DottedKeysAreWordSeqs, VerdictAssumption
       DEF VerdictAssumption, JustAsserted, Complete
  <2> HIDE DEF post, clauses
  <2>4. ASSUME NEW m, NEW p \in clauses
        PROVE  \/ Holds(p, Bindings(Pre, post)) = "unresolved"
               \/ Holds(p, Bindings(Pre, Full(m))) = Holds(p, Bindings(Pre, post))
    <3>1. /\ DOMAIN post \subseteq DOMAIN Full(m) /\ DOMAIN Full(m) \subseteq WordSeqs
          /\ \A k \in DOMAIN post : Full(m)[k] = post[k]
      BY <2>2, <2>3
    <3> HIDE DEF Full
    <3>2. /\ DOMAIN Bindings(Pre, post) \subseteq DOMAIN Bindings(Pre, Full(m))
          /\ \A path \in DOMAIN Bindings(Pre, post) :
                Bindings(Pre, Full(m))[path] = Bindings(Pre, post)[path]
      BY <2>3, <3>1, MoreFactsMoreBindings
    <3>3. Stands(Eval(p, Bindings(Pre, post)), Eval(p, Bindings(Pre, Full(m))))
      BY <2>1, <3>2, EvalStands
    <3>4. QED
      BY <3>3 DEF Stands, Holds
  <2>5. QED
    BY <2>4, Zenon DEF OutcomesStand, post, clauses
<1>2. QED
  BY <1>1, ConvergeInvariance, PTL

\* A frozen state that passed had, in the observation it was taken from, every
\* clause satisfied and no change that is not covered.  It says so of that one
\* observation: a reproduction compares the normalized facts alone, and what
\* else it sees is not asserted again (see ObservedChangesAreCovered).
CoveredWhenFrozen ==
    assertion = "satisfied" =>
        \E s \in Surfaces :
           /\ frozen = Seen(s)
           /\ Outcomes(Clauses[envelope], Pre, Shown(s)) \subseteq {"satisfied"}
           /\ Unclassified(Clauses[envelope], Pre, Shown(s), Categories) = {}

\* "Any observed change not covered" (docs/contract.md 94) holds of the
\* observation that was asserted, for any envelope and declaration.
THEOREM AssertedChangesAreCovered == ConvergeSpec => []CoveredWhenFrozen
<1> DEFINE Frozen == assertion = "satisfied" => frozen # Nothing
<1>1. ConvergeSpec => []Frozen
  <2>1. ConvergeInit => Frozen
    BY DEF ConvergeInit
  <2>2. ConvergeInv /\ Frozen /\ [ConvergeNext]_convergeVars => Frozen'
    <3> SUFFICES ASSUME ConvergeInv, Frozen, [ConvergeNext]_convergeVars
                 PROVE  Frozen'
      OBVIOUS
    <3>1. CASE Freeze
      <4>1. frozen' = Seen(reading)
        BY <3>1 DEF Freeze
      <4>2. Seen(reading) # Nothing
        BY SeenIsSomething DEF ConvergeInv, ConvergeTypeOK
      <4>3. Nothing' = Nothing
        BY DEF Nothing
      <4>4. QED
        BY <4>1, <4>2, <4>3
    <3>2. CASE GiveUp
      BY <3>2 DEF GiveUp
    <3>3. CASE UNCHANGED <<frozen, assertion>>
      BY <3>3 DEF Nothing
    <3>4. QED
      BY <3>1, <3>2, <3>3
         DEF ConvergeNext, ConvergeStep, ReadFact, ObserverRaises, PollAgain,
             Sleep, Reproduction, SurfaceChanges, TimePasses, convergeVars
  <2>3. QED
    BY <2>1, <2>2, ConvergeInvariance, PTL DEF ConvergeSpec
<1>2. ConvergeInv /\ AssertedOnFrozen /\ Frozen => CoveredWhenFrozen
  <2> SUFFICES ASSUME ConvergeInv, AssertedOnFrozen, Frozen, assertion = "satisfied"
               PROVE  CoveredWhenFrozen
    BY DEF CoveredWhenFrozen
  <2>1. PICK s \in Surfaces : frozen = Seen(s) /\ assertion = Assess[envelope][s]
    BY DEF AssertedOnFrozen
  <2>2. Verdict(envelope, Shown(s)) = "satisfied"
    BY <2>1, VerdictAssumption
       DEF VerdictAssumption, AssessOf, ConvergeInv, ConvergeTypeOK
  <2>3. QED
    BY <2>1, <2>2, SatisfiedMeansEveryClause DEF Verdict, CoveredWhenFrozen
<1>3. QED
  BY <1>1, <1>2, ConvergeInvariance, AssertionOfFrozen, PTL

\* A disproof is of the surface too: on one that settles, no clause was left
\* unresolved at that moment, and one was violated at it unless the observation
\* saw a change that is not covered.
DisprovenAtOneMoment ==
    settles /\ result = "disproven" =>
        LET outcomes == Outcomes(Clauses[envelope], Pre, Shown(began))
        IN  /\ "unresolved" \notin outcomes
            /\ \/ "violated" \in outcomes
               \/ \E s \in Surfaces :
                     /\ Seen(s) = Seen(began)
                     /\ Unclassified(Clauses[envelope], Pre, Shown(s), Categories) # {}

\* Observations that mix moments never disprove what held at every moment.
THEOREM DisprovenOfTheSurface == ConvergeSpec => []DisprovenAtOneMoment
<1> DEFINE Unreproduced == result = "disproven" => reproduced = 0
<1>1. ConvergeSpec => []Unreproduced
  <2>1. ConvergeInit => Unreproduced
    BY DEF ConvergeInit
  <2>2. ConvergeInv /\ Unreproduced /\ [ConvergeNext]_convergeVars => Unreproduced'
    <3> SUFFICES ASSUME ConvergeInv, Unreproduced, [ConvergeNext]_convergeVars
                 PROVE  Unreproduced'
      OBVIOUS
    <3>1. CASE Freeze
      BY <3>1 DEF Freeze, ConvergeInv, Loop
    <3>2. CASE Reproduction
      BY <3>2 DEF Reproduction, ConvergeInv, Loop
    <3>3. CASE GiveUp \/ ObserverRaises
      BY <3>3 DEF GiveUp, ObserverRaises
    <3>4. CASE UNCHANGED <<result, reproduced>>
      BY <3>4
    <3>5. QED
      BY <3>1, <3>2, <3>3, <3>4
         DEF ConvergeNext, ConvergeStep, ReadFact, PollAgain, Sleep,
             SurfaceChanges, TimePasses, convergeVars
  <2>3. QED
    BY <2>1, <2>2, ConvergeInvariance, PTL DEF ConvergeSpec
<1>2. ConvergeInv /\ AssertedOnFrozen /\ Unreproduced => DisprovenAtOneMoment
  <2> SUFFICES ASSUME ConvergeInv, AssertedOnFrozen, Unreproduced,
                      settles, result = "disproven"
               PROVE  DisprovenAtOneMoment
    BY DEF DisprovenAtOneMoment
  <2>1. pc = "done"
    BY DEF ConvergeInv, Loop
  <2>2. frozen # Nothing /\ assertion = "disproven"
    BY <2>1 DEF ConvergeInv, OutcomeIsGrounded, Convergences
  <2>3. frozen = Seen(began)
    BY <2>1, <2>2 DEF ConvergeInv, FrozenIsSnapshot
  <2>4. PICK s \in Surfaces : frozen = Seen(s) /\ assertion = Assess[envelope][s]
    BY <2>2 DEF AssertedOnFrozen
  <2>5. envelope \in Envelopes /\ began \in Surfaces
    BY DEF ConvergeInv, ConvergeTypeOK
  <2>6. Verdict(envelope, Shown(s)) = "disproven"
    BY <2>2, <2>4, <2>5, VerdictAssumption DEF VerdictAssumption, AssessOf
  <2>7. \A f \in Normalized[envelope] : s[f] = began[f]
    BY <2>3, <2>4, SeenDecidesWatched
  <2>8. Outcomes(Clauses[envelope], Pre, Shown(s))
          = Outcomes(Clauses[envelope], Pre, Shown(began))
    BY <2>4, <2>5, <2>7, WatchedDecidesOutcomes
  <2>9. /\ "unresolved" \notin Outcomes(Clauses[envelope], Pre, Shown(s))
        /\ \/ "violated" \in Outcomes(Clauses[envelope], Pre, Shown(s))
           \/ Unclassified(Clauses[envelope], Pre, Shown(s), Categories) # {}
    BY <2>6 DEF Verdict, AssertEnvelope
  <2>10. QED
    BY <2>3, <2>4, <2>8, <2>9 DEF DisprovenAtOneMoment
<1>3. QED
  BY <1>1, <1>2, ConvergeInvariance, AssertionOfFrozen, PTL

=============================================================================
