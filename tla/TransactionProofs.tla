------------------------- MODULE TransactionProofs -------------------------
(***************************************************************************)
(* The properties of module Transaction for every bound on the refusals.   *)
(*                                                                         *)
(* Every step of the state machine either refuses a call or moves along    *)
(* one edge of its diagram (StepShape).  The inductive invariant TxnInv    *)
(* adds to the checked properties that every RECORDED event is such an     *)
(* edge: with the audit trail unbroken, that is what rules out a replay,   *)
(* because no edge leaves a terminal state and the only edges out of       *)
(* commit_attempted are the verdicts.                                      *)
(***************************************************************************)
EXTENDS Transaction, TLAPS

\* The diagram of the contract's section 2.
Edge(from, to) ==
    \/ from = "fresh" /\ to = "prepared"
    \/ from = "prepared" /\ to = "armed"
    \/ from = "armed" /\ to = "commit_attempted"
    \/ from = "commit_attempted" /\ to \in {"verified", "disproven"}
    \/ from \in LiveStates /\ to = "indeterminate"

EveryEventIsAnEdge ==
    \A i \in 1..Len(events) : Edge(events[i].from_state, events[i].to_state)

TxnInv ==
    /\ TxnTypeOK
    /\ AuditTrail
    /\ EveryEventIsAnEdge
    /\ HardStopHolds
    /\ ExplainedOutcome

\* What an accepted call does: one edge, and the explanation of its outcome.
Accept(to) ==
    /\ Edge(state, to)
    /\ Transition(to)
    /\ \/ to \notin {"indeterminate", "disproven"}
          /\ UNCHANGED <<stopReason, characterized>>
       \/ to = "indeterminate" /\ stopReason' = TRUE /\ UNCHANGED characterized
       \/ to = "disproven" /\ characterized' = TRUE /\ UNCHANGED stopReason
    /\ \/ UNCHANGED refusals
       \/ to = "indeterminate"
          /\ refusals' = Append(refusals, "undeclared_mutation")

\* What a refused call does.  The hard stop is not one: it is accepted.
Reject(guard) ==
    /\ guard \in Guards \ {"undeclared_mutation"}
    /\ Refuse(guard)

\* Every step is an accepted call or a refused one.
LEMMA StepShape ==
    ASSUME TxnNext
    PROVE  (\E to \in States : Accept(to)) \/ (\E guard \in Guards : Reject(guard))
<1> USE DEF Accept, Reject, Edge, States, LiveStates, TerminalStates, Guards
<1>1. ASSUME NEW flags \in SUBSET Preconditions, Prepare(flags)
      PROVE  Accept("prepared") \/ Reject("state") \/ Reject("prepare")
  BY <1>1 DEF Prepare
<1>2. ASSUME Arm
      PROVE  Accept("armed") \/ Reject("state") \/ Reject("replay_forbidden")
  BY <1>2 DEF Arm
<1>3. ASSUME CommitDeclared
      PROVE  Accept("commit_attempted") \/ Reject("state")
                \/ Reject("replay_forbidden")
  BY <1>3 DEF CommitDeclared
<1>4. ASSUME CommitUndeclared
      PROVE  Accept("indeterminate") \/ Reject("state") \/ Reject("terminal")
  BY <1>4 DEF CommitUndeclared
<1>5. ASSUME NEW envelopeOk \in BOOLEAN, NEW reproduceOk \in BOOLEAN,
             Resolve(envelopeOk, reproduceOk)
      PROVE  Accept("verified") \/ Accept("disproven")
                \/ Accept("indeterminate") \/ Reject("state")
  BY <1>5 DEF Resolve
<1>6. ASSUME MarkIndeterminate
      PROVE  Accept("indeterminate") \/ Reject("state") \/ Reject("terminal")
  BY <1>6 DEF MarkIndeterminate
<1>7. QED
  BY <1>1, <1>2, <1>3, <1>4, <1>5, <1>6 DEF TxnNext

---------------------------------------------------------------------------
\* The invariant holds at first.
LEMMA InitInv == TxnInit => TxnInv
<1> SUFFICES ASSUME TxnInit PROVE TxnInv
  OBVIOUS
<1> USE DEF TxnInit
<1>1. TxnTypeOK
  <2>1. state \in States
    BY DEF States
  <2>2. events \in Seq(TransitionEvent) /\ refusals \in Seq(Guards)
    OBVIOUS
  <2>3. QED
    BY <2>1, <2>2 DEF TxnTypeOK
<1>2. Len(events) = 0 /\ Len(refusals) = 0
  OBVIOUS
<1>3. AuditTrail /\ EveryEventIsAnEdge /\ HardStopHolds
  BY <1>2 DEF AuditTrail, EveryEventIsAnEdge, HardStopHolds
<1>4. ExplainedOutcome
  BY DEF ExplainedOutcome
<1>5. QED
  BY <1>1, <1>3, <1>4 DEF TxnInv

\* An accepted call keeps it.
LEMMA AcceptKeepsInv ==
    ASSUME TxnInv, NEW to \in States, Accept(to)
    PROVE  TxnInv'
<1> DEFINE e == [sequence |-> Len(events) + 1, from_state |-> state,
                 to_state |-> to]
<1> USE DEF TxnInv
<1>1. /\ events' = Append(events, e)
      /\ state' = to
      /\ e \in TransitionEvent
      /\ state \in States
      /\ events \in Seq(TransitionEvent)
      /\ refusals \in Seq(Guards)
  BY DEF Accept, Transition, TxnTypeOK, TransitionEvent
<1>2. /\ Len(events') = Len(events) + 1
      /\ events'[Len(events) + 1] = e
      /\ \A i \in 1..Len(events) : events'[i] = events[i]
      /\ events' \in Seq(TransitionEvent)
      /\ events' # <<>>
      /\ Len(events) \in Nat
  BY <1>1
<1>3. TxnTypeOK'
  <2>1. refusals' \in Seq(Guards)
    BY <1>1 DEF Accept, Guards
  <2>2. stopReason' \in BOOLEAN /\ characterized' \in BOOLEAN
    BY DEF Accept, TxnTypeOK
  <2>3. QED
    BY <1>1, <1>2, <2>1, <2>2 DEF TxnTypeOK
<1>4. AuditTrail'
  <2>1. state' = events'[Len(events')].to_state
    BY <1>1, <1>2
  <2>2. ASSUME NEW i \in 1..Len(events'), i <= Len(events)
        PROVE  /\ events'[i].sequence = i
               /\ i = 1 => events'[i].from_state = "fresh"
               /\ i > 1 => events'[i].from_state = events'[i - 1].to_state
    BY <1>2, <2>2 DEF AuditTrail
  <2>3. /\ e.sequence = Len(events) + 1
        /\ Len(events) = 0 => e.from_state = "fresh"
        /\ Len(events) > 0 => e.from_state = events[Len(events)].to_state
    BY <1>1 DEF AuditTrail
  <2>4. ASSUME NEW i \in 1..Len(events'), ~(i <= Len(events))
        PROVE  /\ events'[i].sequence = i
               /\ i = 1 => events'[i].from_state = "fresh"
               /\ i > 1 => events'[i].from_state = events'[i - 1].to_state
    <3>1. i = Len(events) + 1
      BY <1>2, <2>4
    <3>2. CASE Len(events) = 0
      BY <1>2, <2>3, <3>1, <3>2
    <3>3. CASE Len(events) > 0
      <4>1. i - 1 \in 1..Len(events)
        BY <1>2, <3>1, <3>3
      <4>2. QED
        BY <1>2, <2>3, <3>1, <3>3, <4>1
    <3>4. QED
      BY <1>2, <3>2, <3>3
  <2>5. QED
    BY <1>2, <2>1, <2>2, <2>4 DEF AuditTrail
<1>5. EveryEventIsAnEdge'
  <2>1. ASSUME NEW i \in 1..Len(events')
        PROVE  Edge(events'[i].from_state, events'[i].to_state)
    <3>1. CASE i \in 1..Len(events)
      BY <1>2, <3>1 DEF EveryEventIsAnEdge
    <3>2. CASE i = Len(events) + 1
      <4>1. e.from_state = state /\ e.to_state = to
        OBVIOUS
      <4>2. Edge(state, to)
        BY DEF Accept
      <4>3. QED
        BY <1>2, <3>2, <4>1, <4>2
    <3>3. QED
      BY <1>2, <3>1, <3>2
  <2>2. QED
    BY <2>1 DEF EveryEventIsAnEdge
<1>6. HardStopHolds'
  <2>1. CASE to = "indeterminate"
    BY <1>1, <2>1 DEF HardStopHolds
  <2>2. CASE to # "indeterminate"
    BY <1>1, <2>2 DEF HardStopHolds, Accept, Edge, LiveStates
  <2>3. QED
    BY <2>1, <2>2
<1>7. ExplainedOutcome'
  BY <1>1 DEF ExplainedOutcome, Accept, Edge, LiveStates
<1>8. QED
  BY <1>3, <1>4, <1>5, <1>6, <1>7

\* A refused call keeps it.
LEMMA RejectKeepsInv ==
    ASSUME TxnInv, NEW guard \in Guards, Reject(guard)
    PROVE  TxnInv'
<1> USE DEF TxnInv, Reject, Refuse
<1>1. TxnTypeOK'
  BY DEF TxnTypeOK
<1>2. AuditTrail'
  BY DEF AuditTrail
<1>3. EveryEventIsAnEdge'
  BY DEF EveryEventIsAnEdge
<1>4. HardStopHolds'
  <2>1. refusals \in Seq(Guards) /\ refusals' = Append(refusals, guard)
    BY DEF TxnTypeOK
  <2>2. \A i \in 1..Len(refusals') : 
            refusals'[i] = "undeclared_mutation" => i \in 1..Len(refusals)
    BY <2>1
  <2>3. \A i \in 1..Len(refusals) : refusals'[i] = refusals[i]
    BY <2>1
  <2>4. QED
    BY <2>2, <2>3 DEF HardStopHolds
<1>5. ExplainedOutcome'
  BY DEF ExplainedOutcome
<1>6. QED
  BY <1>1, <1>2, <1>3, <1>4, <1>5

\* So does every step.
LEMMA NextInv == TxnInv /\ [TxnNext]_txnVars => TxnInv'
<1>1. ASSUME TxnInv, TxnNext PROVE TxnInv'
  BY <1>1, StepShape, AcceptKeepsInv, RejectKeepsInv
<1>2. ASSUME TxnInv, UNCHANGED txnVars PROVE TxnInv'
  BY <1>2 DEF txnVars, TxnInv, TxnTypeOK, AuditTrail, EveryEventIsAnEdge,
              HardStopHolds, ExplainedOutcome
<1>3. QED
  BY <1>1, <1>2

\* The inductive invariant of the state machine of transaction.py.
THEOREM Invariance == TxnSpec => []TxnInv
  BY InitInv, NextInv, PTL DEF TxnSpec

\* The five attributes keep their types, however the object is called.
THEOREM TypeCorrect == TxnSpec => []TxnTypeOK
  BY Invariance, PTL DEF TxnInv

\* The events are an unbroken account of how the current state was reached
\* (TransactionEvent and _transition, transaction.py 68-80 and 329-338).
THEOREM EventsAreAnAuditTrail == TxnSpec => []AuditTrail
  BY Invariance, PTL DEF TxnInv

\* The hard stop of an undeclared mutation holds (transaction.py 230-252).
THEOREM UndeclaredStaysIndeterminate == TxnSpec => []HardStopHolds
  BY Invariance, PTL DEF TxnInv

\* The recorded reason and delta are those of the outcome.
THEOREM OutcomeIsExplained == TxnSpec => []ExplainedOutcome
  BY Invariance, PTL DEF TxnInv

---------------------------------------------------------------------------
\* No replay.  An event after commit_attempted starts there, so it is a
\* verdict; an event after a verdict would start in a terminal state, and no
\* edge does.
LEMMA InvGivesNoReplay == TxnInv => NoReplay
<1> SUFFICES ASSUME TxnInv,
                    NEW i \in 1..Len(events), NEW j \in 1..Len(events),
                    i < j, events[i].to_state = "commit_attempted"
             PROVE  events[j].to_state \in TerminalStates /\ j = i + 1
  BY DEF NoReplay
<1>1. events \in Seq(TransitionEvent) /\ Len(events) \in Nat
  BY DEF TxnInv, TxnTypeOK
<1>2. i + 1 \in 1..Len(events) /\ (i + 1) - 1 = i /\ i + 1 > 1
  BY <1>1
<1>3. events[i + 1].from_state = "commit_attempted"
  BY <1>2 DEF TxnInv, AuditTrail
<1>4. Edge("commit_attempted", events[i + 1].to_state)
  BY <1>2, <1>3 DEF TxnInv, EveryEventIsAnEdge
<1>5. events[i + 1].to_state \in TerminalStates
  BY <1>4 DEF Edge, TerminalStates
<1>6. j = i + 1
  <2> SUFFICES ASSUME j # i + 1 PROVE FALSE
    OBVIOUS
  <2>1. i + 2 \in 1..Len(events) /\ (i + 2) - 1 = i + 1 /\ i + 2 > 1
    BY <1>1
  <2>2. events[i + 2].from_state = events[i + 1].to_state
    BY <2>1 DEF TxnInv, AuditTrail
  <2>3. Edge(events[i + 1].to_state, events[i + 2].to_state)
    BY <2>1, <2>2 DEF TxnInv, EveryEventIsAnEdge
  <2>4. QED
    BY <1>5, <2>3 DEF Edge, TerminalStates, LiveStates
<1>7. QED
  BY <1>5, <1>6

\* One attempt per transaction: no sequence of calls arms or commits again
\* after commit_attempted (ReplayForbidden, transaction.py 111-121).
THEOREM AttemptIsNeverReplayed == TxnSpec => []NoReplay
  BY Invariance, InvGivesNoReplay, PTL

\* A verdict, its explanation and the audit trail are never revised.
THEOREM VerdictIsFinal == TxnSpec => TerminalIsFinal
<1>1. ASSUME TxnNext, state \in TerminalStates
      PROVE  UNCHANGED <<state, events, stopReason, characterized>>
  <2>1. ASSUME NEW to \in States, Accept(to) PROVE FALSE
    BY <1>1, <2>1 DEF Accept, Edge, TerminalStates, LiveStates
  <2>2. ASSUME NEW guard \in Guards, Reject(guard)
        PROVE  UNCHANGED <<state, events, stopReason, characterized>>
    BY <2>2 DEF Reject, Refuse
  <2>3. QED
    BY <1>1, <2>1, <2>2, StepShape
<1>2. [TxnNext]_txnVars =>
         [(state \in TerminalStates)
            => UNCHANGED <<state, events, stopReason, characterized>>]_txnVars
  BY <1>1
<1>3. QED
  BY <1>2, PTL DEF TxnSpec, TerminalIsFinal

---------------------------------------------------------------------------
\* The refinement of OneAttempt.

\* What it takes is that a crossing is in the events while the state is the
\* crossing's, and only while it is that or a later one.
LEMMA AttemptedByState ==
    ASSUME TxnInv
    PROVE  /\ state = "commit_attempted" => CommitAttempted
           /\ CommitAttempted => state \in {"commit_attempted"} \cup TerminalStates
<1>1. events \in Seq(TransitionEvent) /\ Len(events) \in Nat
  BY DEF TxnInv, TxnTypeOK
<1>2. ASSUME state = "commit_attempted" PROVE CommitAttempted
  <2>1. events # <<>> /\ events[Len(events)].to_state = "commit_attempted"
    BY <1>2 DEF TxnInv, AuditTrail
  <2>2. Len(events) \in 1..Len(events)
    BY <1>1, <2>1
  <2>3. QED
    BY <2>1, <2>2 DEF CommitAttempted
<1>3. ASSUME CommitAttempted
      PROVE  state \in {"commit_attempted"} \cup TerminalStates
  <2>1. PICK i \in 1..Len(events) : events[i].to_state = "commit_attempted"
    BY <1>3 DEF CommitAttempted
  <2>2. state = events[Len(events)].to_state /\ Len(events) \in 1..Len(events)
    BY <1>1, <2>1 DEF TxnInv, AuditTrail
  <2>3. i = Len(events) \/ i < Len(events)
    BY <1>1
  <2>4. NoReplay
    BY InvGivesNoReplay
  <2>5. QED
    BY <2>1, <2>2, <2>3, <2>4 DEF NoReplay
<1>4. QED
  BY <1>2, <1>3

\* Whether a commit was attempted has a truth value, before and after a step.
LEMMA AttemptedIsBoolean ==
    CommitAttempted \in BOOLEAN /\ CommitAttempted' \in BOOLEAN
  BY DEF CommitAttempted

\* Transition (transaction.py) appends one event and keeps the others, so only
\* the one that enters commit_attempted changes whether a commit was attempted.
LEMMA AttemptGrows ==
    ASSUME TxnInv, NEW to \in States, Accept(to)
    PROVE  CommitAttempted' <=> (CommitAttempted \/ to = "commit_attempted")
<1>1. /\ events \in Seq(TransitionEvent)
      /\ Len(events') = Len(events) + 1
      /\ events'[Len(events) + 1].to_state = to
      /\ \A i \in 1..Len(events) : events'[i] = events[i]
  BY DEF TxnInv, TxnTypeOK, Accept, Transition
<1>2. QED
  BY <1>1 DEF CommitAttempted

\* The state machine implements the one-attempt promise.
THEOREM ImplementsOneAttempt == TxnSpec => KeepsPromise
<1>1. TxnInit => Promise!AttemptInit
  <2> SUFFICES ASSUME TxnInit PROVE Promise!AttemptInit
    OBVIOUS
  <2>1. Len(events) = 0 /\ state \notin TerminalStates
    BY DEF TxnInit, TerminalStates
  <2>2. ~CommitAttempted
    BY <2>1 DEF CommitAttempted
  <2>3. QED
    BY <2>1, <2>2 DEF Promise!AttemptInit
<1>2. TxnInv /\ [TxnNext]_txnVars => [Promise!AttemptNext]_(Promise!attemptVars)
  <2> SUFFICES ASSUME TxnInv, [TxnNext]_txnVars
               PROVE  [Promise!AttemptNext]_(Promise!attemptVars)
    OBVIOUS
  <2>1. ASSUME NEW to \in States, Accept(to)
        PROVE  [Promise!AttemptNext]_(Promise!attemptVars)
    <3>1. /\ Edge(state, to) /\ state' = to
          /\ CommitAttempted' <=> (CommitAttempted \/ to = "commit_attempted")
      BY <2>1, AttemptGrows DEF Accept, Transition
    <3> DEFINE verdict == IF state \in TerminalStates THEN state ELSE "none"
    <3>2. CASE to \in {"prepared", "armed"}
      <4>1. verdict' = verdict
        BY <3>1, <3>2 DEF Edge, TerminalStates, LiveStates
      <4>2. CommitAttempted' = CommitAttempted
        BY <3>1, <3>2, AttemptedIsBoolean
      <4>3. QED
        BY <4>1, <4>2 DEF Promise!attemptVars
    <3>3. CASE to = "commit_attempted"
      <4>1. ~CommitAttempted
        BY <3>1, <3>3, AttemptedByState DEF Edge, TerminalStates
      <4>2. Promise!Attempt
        BY <3>1, <3>3, <4>1 DEF Edge, TerminalStates, Promise!Attempt
      <4>3. QED
        BY <4>2 DEF Promise!AttemptNext
    <3>4. CASE to \in TerminalStates
      <4>1. state \notin TerminalStates /\ to # "commit_attempted"
        BY <3>1, <3>4 DEF Edge, TerminalStates, LiveStates
      <4>2. to # "indeterminate" => CommitAttempted
        BY <3>1, <3>4, AttemptedByState DEF Edge, TerminalStates
      <4>3. verdict = "none" /\ verdict' = to
        BY <3>1, <3>4, <4>1
      <4>4. CommitAttempted' = CommitAttempted
        BY <3>1, <4>1, AttemptedIsBoolean
      <4>5. Promise!Conclude(to)
        BY <4>2, <4>3, <4>4 DEF Promise!Conclude
      <4>6. to \in Promise!Verdicts
        BY <3>4 DEF TerminalStates, Promise!Verdicts
      <4>7. QED
        BY <4>5, <4>6 DEF Promise!AttemptNext
    <3>5. QED
      BY <3>1, <3>2, <3>3, <3>4 DEF Edge, TerminalStates
  <2>2. ASSUME NEW guard \in Guards, Reject(guard)
        PROVE  [Promise!AttemptNext]_(Promise!attemptVars)
    BY <2>2 DEF Reject, Refuse, CommitAttempted, Promise!attemptVars
  <2>3. ASSUME UNCHANGED txnVars
        PROVE  [Promise!AttemptNext]_(Promise!attemptVars)
    BY <2>3 DEF txnVars, CommitAttempted, Promise!attemptVars
  <2>4. QED
    BY <2>1, <2>2, <2>3, StepShape
<1>3. QED
  BY <1>1, <1>2, Invariance, PTL
     DEF TxnSpec, KeepsPromise, Promise!AttemptSpec

=============================================================================
