---------------------------- MODULE Transaction ----------------------------
(***************************************************************************)
(* The verified-transaction state machine of src/src/wcd/transaction.py:   *)
(* one capability invocation, from the recorded preconditions to exactly   *)
(* one terminal verdict.  A refused call raises in the code; here it is a  *)
(* step of its own that only records the guard that refused, because the   *)
(* caller may catch the exception and go on using the same object.         *)
(*                                                                         *)
(* Reason texts are left out; that a reason or a characterized delta was   *)
(* recorded is kept, because the emitted verdict is chosen from them.      *)
(***************************************************************************)
EXTENDS Naturals, Sequences

CONSTANT MaxRefusals    \* bound on the refusals kept (the code keeps all)

ASSUME MaxRefusalsAssumption == MaxRefusals \in Nat

VARIABLES state,             \* _state ("fresh" is None)
          events,            \* _events: the accepted transitions, in order
          refusals,          \* _refusals: the guard of each refused call
          stopReason,        \* _indeterminate_reason is set
          characterized      \* _characterization is set

txnVars == <<state, events, refusals, stopReason, characterized>>

TerminalStates == {"verified", "disproven", "indeterminate"}
LiveStates     == {"prepared", "armed", "commit_attempted"}
States         == {"fresh"} \cup LiveStates \cup TerminalStates

\* The keyword flags of prepare; a call presents the ones that hold.
Preconditions == {"pre_oracle_done", "lease_held", "context_asserted",
                  "recovery_declared"}

Guards == {"state", "prepare", "terminal", "replay_forbidden",
           "undeclared_mutation"}

TransitionEvent == [sequence : Nat, from_state : States, to_state : States]

TxnInit ==
    /\ state = "fresh"
    /\ events = <<>>
    /\ refusals = <<>>
    /\ stopReason = FALSE
    /\ characterized = FALSE

---------------------------------------------------------------------------

\* Mutant: numbers an event by the length before the append.
TransitionNumbersFromZero(to) ==
    /\ events' = Append(events, [sequence   |-> Len(events),
                                 from_state |-> state,
                                 to_state   |-> to])
    /\ state' = to

\* _transition: append the numbered event, then move.
Transition(to) ==
    /\ events' = Append(events, [sequence   |-> Len(events) + 1,
                                 from_state |-> state,
                                 to_state   |-> to])
    /\ state' = to

\* _refuse and _refuse_replay: the guard is recorded and nothing else moves.
Refuse(guard) ==
    /\ Len(refusals) < MaxRefusals
    /\ refusals' = Append(refusals, guard)
    /\ UNCHANGED <<state, events, stopReason, characterized>>

\* prepare: a fresh transaction, and every precondition presented.
Prepare(flags) ==
    \/ /\ state = "fresh"
       /\ flags = Preconditions
       /\ Transition("prepared")
       /\ UNCHANGED <<refusals, stopReason, characterized>>
    \/ state # "fresh" /\ Refuse("state")
    \/ state = "fresh" /\ flags # Preconditions /\ Refuse("prepare")

\* Mutant: a commit-attempted transaction may be armed again.
ArmReplays ==
    \/ /\ state \in {"prepared", "commit_attempted"}
       /\ Transition("armed")
       /\ UNCHANGED <<refusals, stopReason, characterized>>
    \/ state \in {"fresh", "armed"} /\ Refuse("state")
    \/ state \in TerminalStates /\ Refuse("replay_forbidden")

\* arm: from prepared only; after commit-attempted it is a replay.
Arm ==
    \/ /\ state = "prepared"
       /\ Transition("armed")
       /\ UNCHANGED <<refusals, stopReason, characterized>>
    \/ state \in {"fresh", "armed"} /\ Refuse("state")
    \/ state \in {"commit_attempted"} \cup TerminalStates
       /\ Refuse("replay_forbidden")

\* commit(declared = TRUE): the crossing the profile declares.
CommitDeclared ==
    \/ /\ state = "armed"
       /\ Transition("commit_attempted")
       /\ UNCHANGED <<refusals, stopReason, characterized>>
    \/ state \in {"fresh", "prepared", "commit_attempted"} /\ Refuse("state")
    \/ state \in TerminalStates /\ Refuse("replay_forbidden")

\* Mutant: the undeclared crossing raises but leaves the machine where it was.
CommitUndeclaredOnlyRaises ==
    \/ state \in LiveStates /\ Refuse("undeclared_mutation")
    \/ state = "fresh" /\ Refuse("state")
    \/ state \in TerminalStates /\ Refuse("terminal")

\* Mutant: the hard stop forgets to record its reason.
CommitUndeclaredUnexplained ==
    \/ /\ state \in LiveStates
       /\ Len(refusals) < MaxRefusals
       /\ refusals' = Append(refusals, "undeclared_mutation")
       /\ Transition("indeterminate")
       /\ UNCHANGED <<stopReason, characterized>>
    \/ state = "fresh" /\ Refuse("state")
    \/ state \in TerminalStates /\ Refuse("terminal")

\* commit(declared = FALSE): the hard stop.  The refusal is recorded AND the
\* machine is forced into its terminal state before the call raises.
CommitUndeclared ==
    \/ /\ state \in LiveStates
       /\ Len(refusals) < MaxRefusals
       /\ refusals' = Append(refusals, "undeclared_mutation")
       /\ Transition("indeterminate")
       /\ stopReason' = TRUE
       /\ UNCHANGED characterized
    \/ state = "fresh" /\ Refuse("state")
    \/ state \in TerminalStates /\ Refuse("terminal")

\* Mutant: any live transaction may be resolved, crossed or not.
ResolveAnyLive(envelopeOk, reproduceOk) ==
    \/ /\ state \in LiveStates
       /\ envelopeOk /\ reproduceOk
       /\ Transition("verified")
       /\ UNCHANGED <<refusals, stopReason, characterized>>
    \/ /\ state \in LiveStates
       /\ ~envelopeOk
       /\ Transition("disproven")
       /\ characterized' = TRUE
       /\ UNCHANGED <<refusals, stopReason>>
    \/ state \notin LiveStates /\ Refuse("state")

\* resolve(envelope_satisfied, reproduce_satisfied).
Resolve(envelopeOk, reproduceOk) ==
    \/ /\ state = "commit_attempted"
       /\ envelopeOk /\ reproduceOk
       /\ Transition("verified")
       /\ UNCHANGED <<refusals, stopReason, characterized>>
    \/ /\ state = "commit_attempted"
       /\ ~envelopeOk
       /\ Transition("disproven")
       /\ characterized' = TRUE
       /\ UNCHANGED <<refusals, stopReason>>
    \/ /\ state = "commit_attempted"
       /\ envelopeOk /\ ~reproduceOk
       /\ Transition("indeterminate")
       /\ stopReason' = TRUE
       /\ UNCHANGED <<refusals, characterized>>
    \/ state # "commit_attempted" /\ Refuse("state")

\* mark_indeterminate: from any live state.
MarkIndeterminate ==
    \/ /\ state \in LiveStates
       /\ Transition("indeterminate")
       /\ stopReason' = TRUE
       /\ UNCHANGED <<refusals, characterized>>
    \/ state = "fresh" /\ Refuse("state")
    \/ state \in TerminalStates /\ Refuse("terminal")

\* Any caller, in any order: the object guards itself.
TxnNext ==
    \/ \E flags \in SUBSET Preconditions : Prepare(flags)
    \/ Arm
    \/ CommitDeclared
    \/ CommitUndeclared
    \/ \E envelopeOk, reproduceOk \in BOOLEAN : Resolve(envelopeOk, reproduceOk)
    \/ MarkIndeterminate

TxnSpec == TxnInit /\ [][TxnNext]_txnVars

---------------------------------------------------------------------------
\* Type invariant of the state machine's five attributes.
TxnTypeOK ==
    /\ state \in States
    /\ events \in Seq(TransitionEvent)
    /\ refusals \in Seq(Guards)
    /\ stopReason \in BOOLEAN
    /\ characterized \in BOOLEAN

\* The recorded events are an unbroken account of how the machine got where
\* it is: numbered 1, 2, ... without a gap, each one leaving the state the
\* one before it entered, the last one entering the current state (the
\* record's events are read as exactly this, transaction.py 155-159).
AuditTrail ==
    /\ \A i \in 1..Len(events) :
          /\ events[i].sequence = i
          /\ i = 1 => events[i].from_state = "fresh"
          /\ i > 1 => events[i].from_state = events[i - 1].to_state
    /\ state = IF events = <<>> THEN "fresh" ELSE events[Len(events)].to_state

\* Once commit-attempted, the capability is never armed or committed again:
\* whatever sequence of calls is made, only one verdict can follow
\* (ReplayForbidden, transaction.py 111-121; contract section 2).
NoReplay ==
    \A i, j \in 1..Len(events) :
        (i < j /\ events[i].to_state = "commit_attempted")
            => /\ events[j].to_state \in TerminalStates
               /\ j = i + 1

\* Crossing an undeclared boundary is a hard stop: a transaction that ever
\* did it is indeterminate, and no later call gets any other verdict out of it
\* (UndeclaredMutation, transaction.py 124-135).
HardStopHolds ==
    (\E i \in 1..Len(refusals) : refusals[i] = "undeclared_mutation")
        => state = "indeterminate"

\* The verdict text is chosen from the stop reason, then the characterized
\* delta (exec_transaction.py 1468): each is there exactly for the outcome it
\* explains, so no record can carry the explanation of another outcome.
ExplainedOutcome ==
    /\ stopReason    <=> state = "indeterminate"
    /\ characterized <=> state = "disproven"

\* A terminal verdict is final: calls made after it are refused and leave the
\* verdict, its explanation and the audit trail untouched.
TerminalIsFinal ==
    [][(state \in TerminalStates)
          => UNCHANGED <<state, events, stopReason, characterized>>]_txnVars

\* A commit point was crossed in this transaction.
CommitAttempted ==
    \E i \in 1..Len(events) : events[i].to_state = "commit_attempted"

Promise == INSTANCE OneAttempt WITH
             attempted <- CommitAttempted,
             verdict   <- IF state \in TerminalStates THEN state ELSE "none"

\* The state machine keeps the one-attempt promise of module OneAttempt.
KeepsPromise == Promise!AttemptSpec

=============================================================================
