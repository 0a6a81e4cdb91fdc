------------------------ MODULE ExecTransactionProofs ------------------------
(***************************************************************************)
(* The properties of module ExecTransaction for every capability, profile, *)
(* context and bound.                                                      *)
(*                                                                         *)
(* Every step of the executor is a step of the state machine or leaves it  *)
(* alone (ExecStepIsTxnStep), so what TransactionProofs shows holds here.  *)
(* The inductive invariant ExecInv adds what the executor knows where it   *)
(* is: how far the transaction got (StateAt), what the record lacks        *)
(* (Accounted), whether the outcome is explained (Explained), whose the    *)
(* lease is (LeaseInv), which contexts were crossed in (CrossInv), what is *)
(* left to clean up (JournalInv), and that a step of a mutating class is   *)
(* performed only after its crossing (CrossedFirst).  There is one lemma   *)
(* per part, with a case per operation.                                    *)
(***************************************************************************)
EXTENDS ExecTransaction, TransactionProofs

\* Where the executor is.
BeforeLease == {"load", "bind", "acquire"}
BeforeSetup == BeforeLease \cup {"console", "recovery", "gates", "domain"}
Preparing   == BeforeSetup \cup {"setup", "pre_oracle", "context", "prepare"}
Attempting  == {"gesture", "cross_action", "cross_boundary", "perform",
                "envelope", "converge"}
Closing     == {"cleanup", "finish"}
Over        == {"ended", "exited"}

RunKeys == {"sheet", "bound", "guid", "prepared", "events", "manifest", "note",
            "assertion", "cleanup", "remaining", "began", "crossedIn",
            "undeclared"}

---------------------------------------------------------------------------
\* The executor drives the state machine.

LEMMA AbortIsTxnStep == AbortIndeterminate => TxnNext \/ UNCHANGED txnVars
  BY DEF AbortIndeterminate, TxnNext

LEMMA ExecStepIsTxnStep == [ExecNext]_execVars => [TxnNext]_txnVars
<1> SUFFICES ASSUME [ExecNext]_execVars PROVE TxnNext \/ UNCHANGED txnVars
  OBVIOUS
<1> USE AbortIsTxnStep DEF AbortAndCleanUp, AbortAndFinish
<1>1. CASE Executor
  <2>1. CASE LoadSheet \/ BindInvocation \/ AcquireLease \/ EnsureConsole
               \/ CheckRecovery \/ PassGates \/ ReadDomain
    BY <2>1 DEF LoadSheet, BindInvocation, AcquireLease, EnsureConsole,
                CheckRecovery, PassGates, ReadDomain, Refusal, Escape
  <2>2. CASE SetupStep \/ SetupDone \/ PreOracle \/ PrepareContext
    BY <2>2 DEF SetupStep, SetupDone, PreOracle, PrepareContext, Escape
  <2>3. CASE PrepareTxn \/ ArmTxn
    BY <2>3 DEF PrepareTxn, ArmTxn, TxnNext
  <2>4. CASE Classify \/ Perform \/ GesturesDone \/ BindEnvelope
    BY <2>4 DEF Classify, Perform, GesturesDone, BindEnvelope, Escape
  <2>5. CASE Cross
    BY <2>5 DEF Cross, Escape, TxnNext
  <2>6. CASE Converge
    BY <2>6 DEF Converge, TxnNext
  <2>7. CASE CleanupStep \/ Requery \/ Finish
    BY <2>7 DEF CleanupStep, Requery, Finish
  <2>8. QED
    BY <1>1, <2>1, <2>2, <2>3, <2>4, <2>5, <2>6, <2>7 DEF Executor
<1>2. CASE Surroundings \/ ProcessEnds \/ UNCHANGED execVars
  BY <1>2 DEF Surroundings, ProcessEnds, execVars
<1>3. QED
  BY <1>1, <1>2 DEF ExecNext

\* What the executor does to its transaction is a behaviour of module Transaction,
\* so whatever holds of that one holds here.
THEOREM ExecutorDrivesTheMachine == ExecSpec => TxnSpec
  BY ExecStepIsTxnStep, PTL DEF ExecSpec, TxnSpec, ExecInit

---------------------------------------------------------------------------
\* Types.

World == [own : BOOLEAN, foreign : BOOLEAN,
          touched : SUBSET {"declared", "undeclared"}]

Estate == /\ world \in World /\ queue \in Seq(Effects)
          /\ late \subseteq {"declared", "undeclared"}

\* A call of this effect, however it ends.
Call(effect) ==
    \/ Answered(effect) \/ Failed(effect)
    \/ HelperFailed(effect) /\ effect \in {"none", "declared", "undeclared"}

LEMMA EffectType ==
    ASSUME NEW step \in Steps
    PROVE  /\ Effect(step) \in Effects
           /\ step.does # "operate" => step.does \in Effects
  BY DEF Effect, Effects, Steps, Deeds

LEMMA DoneType ==
    ASSUME NEW w \in World, NEW effect PROVE Done(w, effect) \in World
<1>1. CASE effect = "create" /\ ~w.foreign
  BY <1>1 DEF Done, World
<1>2. CASE effect = "remove_by_name" \/ effect = "remove_owned"
  BY <1>2 DEF Done, World
<1>3. CASE effect \in {"declared", "undeclared"}
  BY <1>3 DEF Done, World
<1>4. CASE ~(\/ effect = "create" /\ ~w.foreign
             \/ effect = "remove_by_name" \/ effect = "remove_owned"
             \/ effect \in {"declared", "undeclared"})
  BY <1>4 DEF Done
<1>5. QED
  BY <1>1, <1>2, <1>3, <1>4

\* A gesture does not create the GPO.
LEMMA DoneKeepsOwn ==
    ASSUME NEW w \in World, NEW effect \in {"declared", "undeclared"}
    PROVE  Done(w, effect).own = w.own
  BY DEF Done, World

\* A call keeps the estate in its type, whether it answers or fails.
LEMMA CallKeepsEstate ==
    ASSUME Estate, NEW effect \in Effects, Call(effect)
    PROVE  Estate'
<1>1. world' \in World
  BY DoneType DEF Call, Answered, Failed, HelperFailed, Estate, estateVars
<1>2. queue' \in Seq(Effects)
  BY DEF Call, Answered, Failed, HelperFailed, Estate, estateVars
<1>3. late' \subseteq {"declared", "undeclared"}
  <2>1. \/ late' = late
        \/ late' = late \cup {effect} /\ effect \in {"declared", "undeclared"}
    BY DEF Call, Answered, Failed, HelperFailed, estateVars
  <2>2. QED
    BY <2>1 DEF Estate
<1>4. QED
  BY <1>1, <1>2, <1>3 DEF Estate

\* What is left of a phase: scripts of setup and cleanup do not operate the
\* surface, the helper does nothing else, and a gesture step stays at the head
\* until it is done.
TodoOK ==
    /\ pc \in {"gesture", "cross_action", "perform", "cross_boundary"} =>
          \A i \in 1..Len(todo) :
             todo[i].kind = "helper" => todo[i].does \in {"none", "operate"}
    /\ pc \in {"setup", "cleanup"} =>
          \A i \in 1..Len(todo) : todo[i].does # "operate"
    /\ pc \in {"cross_action", "perform", "cross_boundary"} => todo # <<>>

LEMMA CapabilitySteps ==
    ASSUME capability \in Capabilities
    PROVE  /\ capability.setup \in Seq(Steps) /\ capability.gesture \in Seq(Steps)
           /\ capability.cleanup \in Seq(Steps)
           /\ \A i \in 1..Len(capability.setup) : capability.setup[i].does # "operate"
           /\ \A i \in 1..Len(capability.cleanup) :
                 capability.cleanup[i].does # "operate"
           /\ \A i \in 1..Len(capability.gesture) :
                 capability.gesture[i].kind = "helper"
                    => capability.gesture[i].does \in {"none", "operate"}
  BY CapabilityShape

LEMMA FirstStep ==
    ASSUME todo \in Seq(Steps), todo # <<>>
    PROVE  /\ Step \in Steps /\ Step = todo[1] /\ 1 \in 1..Len(todo)
           /\ Tail(todo) \in Seq(Steps) /\ Len(Tail(todo)) = Len(todo) - 1
           /\ \A i \in 1..Len(Tail(todo)) :
                 i + 1 \in 1..Len(todo) /\ Tail(todo)[i] = todo[i + 1]
  BY DEF Step

LEMMA TodoOKStep ==
    ASSUME ExecTypeOK, TodoOK, Executor PROVE TodoOK'
<1> USE DEF TodoOK, Goto, Enter, Escape, AbortAndCleanUp, AbortAndFinish
<1>0. /\ \A i \in 1..Len(capability.setup) : capability.setup[i].does # "operate"
      /\ \A i \in 1..Len(capability.cleanup) :
            capability.cleanup[i].does # "operate"
      /\ \A i \in 1..Len(capability.gesture) :
            capability.gesture[i].kind = "helper"
               => capability.gesture[i].does \in {"none", "operate"}
      /\ todo \in Seq(Steps)
  BY CapabilitySteps DEF ExecTypeOK
<1>1. CASE LoadSheet \/ BindInvocation \/ AcquireLease \/ EnsureConsole
             \/ CheckRecovery \/ PassGates
  BY <1>1 DEF LoadSheet, BindInvocation, AcquireLease, EnsureConsole,
              CheckRecovery, PassGates, Refusal
<1>2. CASE ReadDomain \/ SetupDone \/ PreOracle \/ PrepareContext
  BY <1>0, <1>2 DEF ReadDomain, SetupDone, PreOracle, PrepareContext
<1>3. CASE SetupStep \/ CleanupStep
  <2>1. /\ pc \in {"setup", "cleanup"} /\ todo # <<>>
        /\ pc' \in {"setup", "cleanup"}
        /\ todo' = Tail(todo) \/ todo' = capability.cleanup
        /\ UNCHANGED capability
    BY <1>3 DEF SetupStep, CleanupStep, Executor
  <2>2. \A i \in 1..Len(Tail(todo)) : Tail(todo)[i].does # "operate"
    BY <1>0, <2>1, FirstStep
  <2>3. QED
    BY <1>0, <2>1, <2>2
<1>4. CASE PrepareTxn \/ ArmTxn \/ GesturesDone \/ BindEnvelope \/ Requery \/ Finish
  BY <1>0, <1>4 DEF PrepareTxn, ArmTxn, GesturesDone, BindEnvelope, Requery, Finish
<1>5. CASE Classify \/ Perform \/ Cross
  <2>1. /\ pc \in {"gesture", "cross_action", "perform", "cross_boundary"} /\ todo # <<>>
        /\ \/ todo' = todo /\ pc' \in {"cross_action", "perform", "cross_boundary", "ended"}
           \/ todo' = Tail(todo) /\ pc' = "gesture"
           \/ todo' = capability.cleanup /\ pc' = "cleanup"
    BY <1>5 DEF Classify, Perform, Cross, Crossed, NextStep
  <2>2. \A i \in 1..Len(Tail(todo)) :
           Tail(todo)[i].kind = "helper" => Tail(todo)[i].does \in {"none", "operate"}
    BY <1>0, <2>1, FirstStep
  <2>3. QED
    BY <1>0, <2>1, <2>2
<1>7. CASE Converge
  BY <1>0, <1>7 DEF Converge
<1>8. QED
  BY <1>1, <1>2, <1>3, <1>4, <1>5, <1>7 DEF Executor

\* Every step of the executor makes at most one call, and only of an effect.
LEMMA OneCall ==
    ASSUME ExecTypeOK, TodoOK, Executor
    PROVE  \/ UNCHANGED estateVars
           \/ \E effect \in Effects :
                 /\ Call(effect)
                 /\ effect = "declared" =>
                       pc = "perform" /\ Class(Step.action) \in Mutating
                 /\ effect = "remove_by_name" =>
                       todo # <<>> /\ Step.does = "remove_by_name"
<1>0. todo \in Seq(Steps) /\ "none" \in Effects /\ "create" \in Effects
  BY DEF ExecTypeOK, Effects
<1>1. CASE LoadSheet \/ BindInvocation \/ AcquireLease \/ EnsureConsole
             \/ CheckRecovery \/ PassGates \/ ReadDomain \/ SetupDone
             \/ PrepareTxn \/ ArmTxn \/ Classify \/ GesturesDone \/ BindEnvelope
             \/ Finish
  BY <1>1 DEF LoadSheet, BindInvocation, AcquireLease, EnsureConsole,
       CheckRecovery, PassGates, ReadDomain, SetupDone, PrepareTxn, ArmTxn,
       Classify, GesturesDone, BindEnvelope, Finish, estateVars
<1>2. CASE PreOracle \/ PrepareContext \/ Cross \/ Converge
  BY <1>0, <1>2 DEF PreOracle, PrepareContext, Cross, Converge, Call
<1>3. CASE SetupStep
  <2>1. /\ Effect(Head(todo)) \in Effects \ {"declared"} /\ todo # <<>>
        /\ Effect(Head(todo)) = "remove_by_name" => Step.does = "remove_by_name"
    BY <1>0, <1>3, FirstStep, EffectType
    DEF SetupStep, Step, TodoOK, Effect, Steps, Deeds
  <2>2. Call(Effect(Head(todo))) \/ Call("create")
    BY <1>3 DEF SetupStep, Call
  <2>3. QED
    BY <1>0, <2>1, <2>2
<1>4. CASE Perform
  <2>1. /\ pc = "perform" /\ Effect(Step) \in Effects
        /\ Effect(Step) = "declared" => Class(Step.action) \in Mutating
        /\ todo # <<>>
        /\ Effect(Step) = "remove_by_name" => Step.does = "remove_by_name"
        /\ Step.kind = "helper" => Step.does \in {"none", "operate"}
    BY <1>0, <1>4, FirstStep, EffectType DEF Perform, TodoOK, Effect, Steps, Deeds
  <2>2. \/ UNCHANGED estateVars \/ Answered(Effect(Step)) \/ Failed(Effect(Step))
        \/ Step.kind = "helper" /\ HelperFailed(Effect(Step))
    BY <1>4 DEF Perform, estateVars
  <2>3. Step.kind = "helper" => Effect(Step) \in {"none", "declared", "undeclared"}
    BY <2>1 DEF Effect
  <2>4. UNCHANGED estateVars \/ Call(Effect(Step))
    BY <2>2, <2>3 DEF Call
  <2>5. QED
    BY <2>1, <2>4
<1>5. CASE CleanupStep
  <2>1. Step.does \in Effects \ {"declared"} /\ todo # <<>>
    BY <1>0, <1>5, FirstStep, EffectType DEF CleanupStep, TodoOK, Steps, Deeds
  <2>2. QED
    BY <1>5, <2>1 DEF CleanupStep, Call
<1>6. CASE Requery
  BY <1>0, <1>6 DEF Requery, estateVars, Call
<1>7. QED
  BY <1>1, <1>2, <1>3, <1>4, <1>5, <1>6 DEF Executor

LEMMA ExecutorKeepsEstate ==
    ASSUME ExecTypeOK, TodoOK, Executor PROVE Estate'
<1>1. Estate
  BY DEF Estate, ExecTypeOK, World
<1>2. CASE UNCHANGED estateVars
  BY <1>1, <1>2 DEF Estate, estateVars
<1>3. CASE \E effect \in Effects : Call(effect)
  BY <1>1, <1>3, CallKeepsEstate
<1>4. QED
  BY <1>2, <1>3, OneCall

\* The labels and the steps left.
LEMMA ExecutorKeepsControl ==
    ASSUME ExecTypeOK, TodoOK, Executor
    PROVE  /\ pc' \in {"load", "bind", "acquire", "console", "recovery", "gates",
                       "domain", "setup", "pre_oracle", "context", "prepare",
                       "arm", "gesture", "cross_action", "cross_boundary",
                       "perform", "envelope", "converge", "cleanup", "finish",
                       "ended"}
           /\ todo' \in Seq(Steps)
           /\ ended' \in {"no", "returned", "refused", "escaped", "killed"}
           /\ lease' \in {"free", "mine", "other"}
<1> USE DEF Goto, Enter, Escape, AbortAndCleanUp, AbortAndFinish
<1>0. /\ capability.setup \in Seq(Steps) /\ capability.gesture \in Seq(Steps)
      /\ capability.cleanup \in Seq(Steps)
      /\ todo \in Seq(Steps)
      /\ ended \in {"no", "returned", "refused", "escaped", "killed"}
      /\ lease \in {"free", "mine", "other"}
      /\ todo # <<>> => Tail(todo) \in Seq(Steps)
  BY CapabilitySteps, FirstStep DEF ExecTypeOK
<1>1. CASE LoadSheet \/ BindInvocation \/ AcquireLease \/ EnsureConsole
             \/ CheckRecovery \/ PassGates
  BY <1>0, <1>1 DEF LoadSheet, BindInvocation, AcquireLease, EnsureConsole,
              CheckRecovery, PassGates, Refusal
<1>2. CASE ReadDomain \/ SetupDone \/ PreOracle \/ PrepareContext
  BY <1>0, <1>2 DEF ReadDomain, SetupDone, PreOracle, PrepareContext
<1>3. CASE SetupStep \/ CleanupStep
  BY <1>0, <1>3 DEF SetupStep, CleanupStep
<1>4. CASE PrepareTxn \/ ArmTxn \/ GesturesDone \/ BindEnvelope \/ Requery \/ Finish
  BY <1>0, <1>4 DEF PrepareTxn, ArmTxn, GesturesDone, BindEnvelope, Requery, Finish
<1>5. CASE Classify \/ Perform
  BY <1>0, <1>5 DEF Classify, Perform, NextStep, TodoOK
<1>6. CASE Cross
  BY <1>0, <1>6 DEF Cross, Crossed, NextStep, TodoOK
<1>7. CASE Converge
  BY <1>0, <1>7 DEF Converge
<1>8. QED
  BY <1>1, <1>2, <1>3, <1>4, <1>5, <1>6, <1>7 DEF Executor

\* How far the transaction is.
StateAt ==
    /\ pc \in Preparing  => state = "fresh"
    /\ pc = "arm"        => state = "prepared"
    /\ pc \in Attempting => state \in {"armed", "commit_attempted"}

LEMMA ExecutorKeepsState ==
    ASSUME StateAt, Executor PROVE StateAt'
<1> USE DEF Goto, Enter, Escape, AbortAndCleanUp, AbortAndFinish, StateAt,
            Preparing, BeforeSetup, BeforeLease, Attempting, txnVars
<1>1. CASE LoadSheet \/ BindInvocation \/ AcquireLease \/ EnsureConsole
             \/ CheckRecovery \/ PassGates
  BY <1>1 DEF LoadSheet, BindInvocation, AcquireLease, EnsureConsole,
              CheckRecovery, PassGates, Refusal
<1>2. CASE ReadDomain \/ SetupStep \/ SetupDone \/ PreOracle \/ PrepareContext
  BY <1>2 DEF ReadDomain, SetupStep, SetupDone, PreOracle, PrepareContext
<1>3. CASE PrepareTxn \/ ArmTxn
  BY <1>3 DEF PrepareTxn, ArmTxn, Prepare, Arm, Transition, TerminalStates
<1>4. CASE Classify \/ Perform \/ GesturesDone \/ BindEnvelope
  BY <1>4 DEF Classify, Perform, NextStep, GesturesDone, BindEnvelope
<1>5. CASE Cross
  BY <1>5 DEF Cross, Crossed, NextStep, CommitDeclared, Transition, TerminalStates
<1>6. CASE Converge \/ CleanupStep \/ Requery \/ Finish
  BY <1>6 DEF Converge, CleanupStep, Requery, Finish
<1>7. QED
  BY <1>1, <1>2, <1>3, <1>4, <1>5, <1>6 DEF Executor

\* The convergence loop returns while the transaction is live, so what it
\* returns moves it, to the outcome the assertion's status explains.
LEMMA ConvergenceMoves ==
    ASSUME StateAt, pc = "converge", NEW c \in Convergences,
           \/ /\ state = "commit_attempted" /\ c[1] # "indeterminate"
              /\ Resolve(c[1] = "satisfied", TRUE)
           \/ /\ state # "commit_attempted" \/ c[1] = "indeterminate"
              /\ MarkIndeterminate
    PROVE  /\ \E to \in TerminalStates : Transition(to)
           /\ state' = "verified"  => c[2] = "satisfied"
           /\ state' = "disproven" => c[2] = "disproven"
<1>1. state \in {"armed", "commit_attempted"}
  BY DEF StateAt, Attempting
<1>2. \/ c[1] = "satisfied" /\ c[2] = "satisfied"
      \/ c[1] = "disproven" /\ c[2] = "disproven"
      \/ c[1] = "indeterminate"
  BY DEF Convergences
<1>3. MarkIndeterminate => Transition("indeterminate")
  BY <1>1 DEF MarkIndeterminate, LiveStates, TerminalStates
<1>4. state = "commit_attempted" =>
          /\ Resolve(TRUE, TRUE)  => Transition("verified")
          /\ Resolve(FALSE, TRUE) => Transition("disproven")
  BY DEF Resolve
<1>5. \A to : Transition(to) => state' = to
  BY DEF Transition
<1>6. CASE c[1] = "satisfied" /\ state = "commit_attempted" /\ Resolve(TRUE, TRUE)
  BY <1>2, <1>4, <1>5, <1>6 DEF TerminalStates
<1>7. CASE c[1] = "disproven" /\ state = "commit_attempted" /\ Resolve(FALSE, TRUE)
  BY <1>2, <1>4, <1>5, <1>7 DEF TerminalStates
<1>8. CASE MarkIndeterminate
  BY <1>3, <1>5, <1>8 DEF TerminalStates
<1>9. QED
  BY <1>2, <1>6, <1>7, <1>8

\* The locals.
RunOK ==
    /\ DOMAIN run = RunKeys
    /\ run.guid \in BOOLEAN /\ run.note \in BOOLEAN
    /\ run.events \in Seq(TransitionEvent) /\ run.cleanup \in Seq(BOOLEAN)
    /\ run.manifest \in Seq(Steps)

LEMMA RecordedRun ==
    ASSUME RunOK, TxnTypeOK', NEW to, Transition(to), TxnTypeOK
    PROVE  /\ Last(events') \in TransitionEvent
           /\ Recorded(run).events \in Seq(TransitionEvent)
           /\ Recorded(run).events = Append(run.events, Last(events'))
           /\ DOMAIN Recorded(run) = RunKeys
           /\ \A k \in RunKeys \ {"events"} : Recorded(run)[k] = run[k]
<1>1. events' \in Seq(TransitionEvent) /\ events' # <<>>
  BY DEF TxnTypeOK, Transition
<1>2. Last(events') \in TransitionEvent
  BY <1>1 DEF Last
<1>3. QED
  BY <1>2 DEF Recorded, RunOK, RunKeys

LEMMA ExecutorKeepsRun ==
    ASSUME ExecTypeOK, TodoOK, StateAt, RunOK, TxnTypeOK', Executor
    PROVE  RunOK'
<1> USE DEF Goto, Enter, Escape, AbortAndCleanUp, AbortAndFinish, AbortIndeterminate
<1>0. todo \in Seq(Steps) /\ (todo # <<>> => Head(todo) \in Steps) /\ TxnTypeOK
  BY FirstStep DEF ExecTypeOK, Step
<1>1. CASE UNCHANGED run
  BY <1>1 DEF RunOK
<1>2. CASE LoadSheet \/ BindInvocation \/ AcquireLease \/ EnsureConsole
             \/ CheckRecovery \/ PassGates
  BY <1>2 DEF LoadSheet, BindInvocation, AcquireLease, EnsureConsole,
              CheckRecovery, PassGates, Refusal, RunOK, RunKeys
<1>3. CASE ReadDomain \/ SetupDone \/ PreOracle \/ PrepareContext
  BY <1>3 DEF ReadDomain, SetupDone, PreOracle, PrepareContext, RunOK, RunKeys
<1>4. CASE SetupStep
  <2>1. ASSUME NEW captured \in BOOLEAN,
               run' = [run EXCEPT !.manifest = Append(@, Head(todo)),
                                  !.guid = @ \/ captured]
        PROVE  RunOK'
    <3>1. (run.guid \/ captured) \in BOOLEAN
      OBVIOUS
    <3>2. Append(run.manifest, Head(todo)) \in Seq(Steps)
      BY <1>0, <1>4 DEF SetupStep, RunOK
    <3> HIDE DEF RunOK
    <3>3. QED
      BY <2>1, <3>1, <3>2 DEF RunOK, RunKeys
  <2>2. CASE run' = [run EXCEPT !.manifest = Append(@, Head(todo)), !.note = TRUE]
    BY <1>0, <1>4, <2>2 DEF SetupStep, RunOK, RunKeys
  <2>3. CASE run' = [run EXCEPT !.note = TRUE]
    BY <2>3 DEF RunOK, RunKeys
  <2>4. \/ \E captured \in BOOLEAN :
              run' = [run EXCEPT !.manifest = Append(@, Head(todo)),
                                 !.guid = @ \/ captured]
        \/ run' = [run EXCEPT !.manifest = Append(@, Head(todo)), !.note = TRUE]
        \/ run' = [run EXCEPT !.note = TRUE]
        \/ UNCHANGED run
    <3>1. \A effect : {FALSE, effect = "create"} \subseteq BOOLEAN
      OBVIOUS
    <3>2. QED
      BY <1>4, <3>1, Zenon DEF SetupStep
  <2>5. QED
    BY <1>1, <2>1, <2>2, <2>3, <2>4
<1>5. CASE CleanupStep
  <2>1. \E ok \in BOOLEAN : run' = [run EXCEPT !.cleanup = Append(@, ok)]
    BY <1>5 DEF CleanupStep
  <2>2. QED
    BY <2>1 DEF RunOK, RunKeys
<1>11. CASE Requery
  BY <1>1, <1>11 DEF Requery, RunOK, RunKeys
<1>6. CASE PrepareTxn \/ ArmTxn
  <2>1. Transition("prepared") \/ Transition("armed")
    BY <1>6 DEF PrepareTxn, ArmTxn, Prepare, Arm, TerminalStates
  <2>2. QED
    BY <1>0, <1>6, <2>1, RecordedRun DEF PrepareTxn, ArmTxn, RunOK, RunKeys
<1>7. CASE Classify \/ Perform
  BY <1>7 DEF Classify, Perform, RunOK, RunKeys
<1>8. CASE Cross
  <2>1. ASSUME state = "armed", CommitDeclared \/ CommitUndeclared
        PROVE  \E to : Transition(to)
    BY <2>1 DEF CommitDeclared, CommitUndeclared, LiveStates, TerminalStates
  <2>2. QED
    BY <1>0, <1>8, <2>1, RecordedRun DEF Cross, RunOK, RunKeys
<1>9. CASE Converge
  <2>1. CASE run' = [run EXCEPT !.note = TRUE]
    BY <2>1 DEF RunOK, RunKeys
  <2>2. ASSUME NEW c \in Convergences,
               run' = [Recorded(run) EXCEPT !.assertion = c[2]],
               \E to : Transition(to)
        PROVE  RunOK'
    BY <1>0, <2>2, RecordedRun DEF RunOK, RunKeys
  <2>3. QED
    BY <1>1, <1>9, <2>1, <2>2, ConvergenceMoves DEF Converge
<1>10. QED
  BY <1>1, <1>2, <1>3, <1>4, <1>5, <1>6, <1>7, <1>8, <1>9, <1>11
  DEF Executor, GesturesDone, BindEnvelope, Finish

---------------------------------------------------------------------------
\* What the record will say is what happened.

Explained ==
    /\ pc \notin Closing \cup Over => ~run.note
    /\ run.note => state = "fresh"
    /\ pc \in Closing => state \in TerminalStates \/ (state = "fresh" /\ run.note)
    /\ state = "verified"  => run.assertion = "satisfied"
    /\ state = "disproven" => run.assertion = "disproven"

\* The one transition the record may lack is the last, that of an abort.
Accounted ==
    \/ run.events = events
    \/ /\ state = "indeterminate" /\ pc \in Closing \cup Over
       /\ events = Append(run.events, Last(events))

\* The four things a step of the executor does with the transaction and its
\* account: nothing, a recorded transition, a note, an unrecorded abort.
Leaves ==
    /\ UNCHANGED txnVars
    /\ run'.events = run.events /\ run'.note = run.note
    /\ run'.assertion = run.assertion
    /\ pc \in Closing => pc' \in Closing \cup Over
    /\ pc' \in Closing => pc \in Closing

Records ==
    /\ \E to \in States : Transition(to)
    /\ run'.events = Append(run.events, Last(events'))
    /\ run'.note = run.note
    /\ pc' \in Closing => state' \in TerminalStates
    /\ state' = "verified"  => run'.assertion = "satisfied"
    /\ state' = "disproven" => run'.assertion = "disproven"
    /\ pc \notin Closing

Notes ==
    /\ UNCHANGED txnVars
    /\ state = "fresh"
    /\ run'.events = run.events /\ run'.note = TRUE
    /\ run'.assertion = run.assertion
    /\ pc' \in Closing

Aborts ==
    /\ Transition("indeterminate")
    /\ UNCHANGED run
    /\ pc \notin Closing /\ pc' \in Closing

LEMMA AbortShape ==
    ASSUME RunOK, AbortIndeterminate, state \in {"fresh"} \cup LiveStates,
           pc \notin Closing, pc' \in Closing
    PROVE  Notes \/ Aborts
  BY DEF AbortIndeterminate, MarkIndeterminate, Notes, Aborts, RunOK, RunKeys,
         LiveStates, TerminalStates

LEMMA ExecutorAccounts ==
    ASSUME ExecTypeOK, TodoOK, StateAt, RunOK, TxnTypeOK', Executor
    PROVE  (Leaves \/ Records \/ Notes \/ Aborts) /\ pc \notin Over
<1> USE DEF Goto, Enter, Escape, AbortAndCleanUp, AbortAndFinish, Closing, Over
<1>0. TxnTypeOK
  BY DEF ExecTypeOK
<1>1. pc \in Preparing \cup {"arm"} \cup Attempting
         => state \in {"fresh"} \cup LiveStates
  BY DEF StateAt, LiveStates
<1> USE <1>1 DEF Preparing, BeforeSetup, BeforeLease, Attempting
<1>2. CASE LoadSheet \/ BindInvocation \/ AcquireLease \/ EnsureConsole
             \/ CheckRecovery \/ PassGates
  BY <1>2, AbortShape DEF LoadSheet, BindInvocation, AcquireLease, EnsureConsole,
              CheckRecovery, PassGates, Refusal, Leaves, RunOK, RunKeys
<1>3. CASE ReadDomain \/ SetupDone \/ PreOracle \/ PrepareContext
  BY <1>3, AbortShape DEF ReadDomain, SetupDone, PreOracle, PrepareContext,
              Leaves, RunOK, RunKeys
<1>4. CASE SetupStep
  BY <1>4, AbortShape DEF SetupStep, Leaves, Notes, RunOK, RunKeys, StateAt
<1>5. CASE CleanupStep \/ Requery \/ Finish
  BY <1>5 DEF CleanupStep, Requery, Finish, Leaves, RunOK, RunKeys
<1>6. CASE PrepareTxn \/ ArmTxn
  BY <1>0, <1>6, RecordedRun DEF PrepareTxn, ArmTxn, Prepare, Arm, Transition,
     Records, RunKeys, States, LiveStates, TerminalStates
<1>7. CASE Classify \/ Perform \/ GesturesDone \/ BindEnvelope
  BY <1>7, AbortShape DEF Classify, Perform, NextStep, GesturesDone, BindEnvelope, Leaves
<1>8. CASE Cross
  <2>1. pc \in {"cross_action", "cross_boundary"}
    BY <1>8 DEF Cross
  <2>2. CASE AbortAndCleanUp
    BY <2>1, <2>2, AbortShape
  <2>3. CASE Escape
    BY <2>1, <2>3 DEF Leaves
  <2>4. CASE /\ run' = [run EXCEPT !.crossedIn = @ \cup {SessionOf(context)},
                                   !.undeclared = @ \/ Class(Boundary) \notin Mutating]
             /\ Crossed /\ UNCHANGED txnVars
    BY <2>1, <2>4 DEF Crossed, NextStep, Leaves, RunOK, RunKeys
  <2>5. CASE /\ state = "armed" /\ CommitDeclared /\ Crossed
             /\ run' = [Recorded(run) EXCEPT !.crossedIn = @ \cup {SessionOf(context)}]
    <3>1. Transition("commit_attempted")
      BY <2>5 DEF CommitDeclared, TerminalStates
    <3>2. QED
      BY <1>0, <2>1, <2>5, <3>1, RecordedRun
      DEF Crossed, NextStep, Records, Transition, RunKeys, States, LiveStates
  <2>6. CASE /\ state = "armed" /\ CommitUndeclared
             /\ run' = [Recorded(run) EXCEPT !.undeclared = TRUE]
             /\ Enter("cleanup", capability.cleanup)
    <3>1. Transition("indeterminate")
      BY <2>6 DEF CommitUndeclared, TerminalStates
    <3>2. QED
      BY <1>0, <2>1, <2>6, <3>1, RecordedRun
      DEF Records, Transition, RunKeys, States, TerminalStates
  <2>7. QED
    BY <1>8, <2>2, <2>3, <2>4, <2>5, <2>6 DEF Cross
<1>9. CASE Converge
  <2>1. pc = "converge"
    BY <1>9 DEF Converge
  <2>2. CASE AbortAndCleanUp
    BY <2>1, <2>2, AbortShape
  <2>3. ASSUME NEW c \in Convergences,
               run' = [Recorded(run) EXCEPT !.assertion = c[2]],
               Enter("cleanup", capability.cleanup),
               NEW to \in TerminalStates, Transition(to),
               state' = "verified"  => c[2] = "satisfied",
               state' = "disproven" => c[2] = "disproven"
        PROVE  Records
    BY <1>0, <2>1, <2>3, RecordedRun DEF Records, Transition, RunKeys, States
  <2>4. QED
    BY <1>9, <2>1, <2>2, <2>3, ConvergenceMoves DEF Converge
<1>10. QED
  BY <1>2, <1>3, <1>4, <1>5, <1>6, <1>7, <1>8, <1>9 DEF Executor

LEMMA AccountStep ==
    ASSUME Explained, Accounted, RunOK, TxnTypeOK, TxnTypeOK', RunOK',
           Leaves \/ Records \/ Notes \/ Aborts, pc \notin Over
    PROVE  Explained' /\ Accounted'
<1> USE DEF Explained, Accounted
<1>1. CASE Leaves
  BY <1>1 DEF Leaves, txnVars, Closing, Over
<1>0. \A to : Transition(to) => /\ events' = Append(events, Last(events'))
                                /\ state' = to
  BY DEF Transition, TxnTypeOK, Last
<1>2. CASE Records
  BY <1>0, <1>2 DEF Records, Closing, Over
<1>3. CASE Notes
  BY <1>3 DEF Notes, txnVars, Closing, Over
<1>4. CASE Aborts
  BY <1>0, <1>4 DEF Aborts, Closing, Over, TerminalStates
<1>5. QED
  BY <1>1, <1>2, <1>3, <1>4

---------------------------------------------------------------------------
\* The console lease.

LeaseInv ==
    /\ pc \in BeforeLease => lease # "mine"
    /\ pc \in BeforeSetup => ~run.began
    /\ LeaseCoversWork

LEMMA ExecutorKeepsLease ==
    ASSUME RunOK, LeaseInv, Executor PROVE LeaseInv'
<1> USE DEF LeaseInv, LeaseCoversWork, BeforeSetup, BeforeLease, Goto, Enter,
            Escape, AbortAndCleanUp, AbortAndFinish, AbortIndeterminate
<1>0. UNCHANGED capability
  BY DEF Executor
<1>1. CASE LoadSheet \/ BindInvocation \/ AcquireLease
  BY <1>0, <1>1 DEF LoadSheet, BindInvocation, AcquireLease, RunOK, RunKeys
<1>2. CASE EnsureConsole \/ CheckRecovery \/ PassGates \/ ReadDomain
  BY <1>0, <1>2 DEF EnsureConsole, CheckRecovery, PassGates, ReadDomain, Refusal,
     RunOK, RunKeys
<1>3. CASE SetupStep \/ SetupDone \/ PreOracle \/ PrepareContext
  BY <1>0, <1>3 DEF SetupStep, SetupDone, PreOracle, PrepareContext, RunOK, RunKeys
<1>4. CASE PrepareTxn \/ ArmTxn \/ Classify \/ Perform \/ GesturesDone \/ BindEnvelope
  BY <1>0, <1>4 DEF PrepareTxn, ArmTxn, Classify, Perform, NextStep, GesturesDone,
     BindEnvelope
<1>5. CASE Cross \/ Converge
  BY <1>0, <1>5 DEF Cross, Crossed, NextStep, Converge
<1>6. CASE CleanupStep \/ Requery \/ Finish
  BY <1>0, <1>6 DEF CleanupStep, Requery, Finish, RunOK, RunKeys
<1>7. QED
  BY <1>1, <1>2, <1>3, <1>4, <1>5, <1>6 DEF Executor

---------------------------------------------------------------------------
\* The contexts of the crossings.

ContextKeys == {"session_id", "user", "desktop", "foreground", "ui_language"}

CrossInv ==
    /\ pc \in Preparing \cup {"arm"} => run.crossedIn = {}
    /\ pc \in {"prepare", "arm"} \cup Attempting => DOMAIN run.prepared = ContextKeys
    /\ CrossedInPreparedContext

\* A fresh context that matches is the prepared one as a session.
LEMMA SameSession ==
    ASSUME context \in Contexts, DOMAIN run.prepared = ContextKeys,
           SamePreparedSession
    PROVE  SessionOf(context) = SessionOf(run.prepared)
<1>1. DOMAIN context = ContextKeys
  BY ContextShape DEF ContextKeys
<1>2. PICK fresh \in HelperContexts :
        ContextMismatches(SessionOf(run.prepared), SessionOf(fresh)) = {}
  BY DEF SamePreparedSession
<1>3. /\ DOMAIN fresh = ContextKeys
      /\ \A k \in ContextKeys \ {"foreground"} : fresh[k] = context[k]
  BY <1>1 DEF HelperContexts, ContextKeys
<1>4. \A f \in {"session_id", "user", "desktop", "foreground"} :
          SessionOf(run.prepared)[f] = SessionOf(fresh)[f]
  BY <1>2 DEF ContextMismatches
<1>5. \A k \in {"session_id", "user", "desktop"} : run.prepared[k] = context[k]
  BY <1>3, <1>4 DEF SessionOf, ContextKeys
<1>6. QED
  BY <1>1, <1>5 DEF SessionOf, ContextKeys

LEMMA ExecutorKeepsContexts ==
    ASSUME ExecTypeOK, RunOK, TodoOK, StateAt, TxnTypeOK', CrossInv, Executor
    PROVE  CrossInv'
<1> USE DEF CrossInv, CrossedInPreparedContext, Preparing, Attempting, BeforeSetup,
            BeforeLease, Goto, Enter, Escape, AbortAndCleanUp, AbortAndFinish,
            AbortIndeterminate
<1>0. /\ context \in Contexts /\ TxnTypeOK /\ DOMAIN run = RunKeys
      /\ UNCHANGED <<capability, context>>
  BY DEF ExecTypeOK, RunOK, Executor, envVars
<1>1. CASE LoadSheet \/ BindInvocation \/ AcquireLease \/ EnsureConsole
             \/ CheckRecovery \/ PassGates
  BY <1>0, <1>1 DEF LoadSheet, BindInvocation, AcquireLease, EnsureConsole,
              CheckRecovery, PassGates, Refusal, RunKeys
<1>2. CASE ReadDomain \/ SetupStep \/ SetupDone \/ PreOracle
  BY <1>0, <1>2 DEF ReadDomain, SetupStep, SetupDone, PreOracle, RunKeys
<1>3. CASE PrepareContext
  <2>1. \A fresh \in HelperContexts : DOMAIN fresh = ContextKeys
    BY <1>0, ContextShape DEF HelperContexts, ContextKeys
  <2>2. QED
    BY <1>0, <1>3, <2>1 DEF PrepareContext, RunKeys
<1>4. CASE PrepareTxn \/ ArmTxn
  <2>1. Transition("prepared") \/ Transition("armed")
    BY <1>4 DEF PrepareTxn, ArmTxn, Prepare, Arm, TerminalStates
  <2>2. QED
    BY <1>0, <1>4, <2>1, RecordedRun DEF PrepareTxn, ArmTxn, RunKeys
<1>5. CASE Classify \/ Perform \/ GesturesDone \/ BindEnvelope
  BY <1>0, <1>5 DEF Classify, Perform, NextStep, GesturesDone, BindEnvelope, RunKeys
<1>6. CASE Cross
  <2>1. pc \in {"cross_action", "cross_boundary"}
    BY <1>6 DEF Cross
  <2>2. CASE AbortAndCleanUp \/ Escape
    BY <1>0, <2>1, <2>2 DEF RunKeys
  <2>3. CASE /\ SamePreparedSession
             /\ run' = [run EXCEPT !.crossedIn = @ \cup {SessionOf(context)},
                                   !.undeclared = @ \/ Class(Boundary) \notin Mutating]
             /\ Crossed
    BY <1>0, <2>1, <2>3, SameSession DEF Crossed, NextStep, RunKeys
  <2>4. CASE /\ SamePreparedSession /\ state = "armed" /\ CommitDeclared /\ Crossed
             /\ run' = [Recorded(run) EXCEPT !.crossedIn = @ \cup {SessionOf(context)}]
    <3>1. Transition("commit_attempted")
      BY <2>4 DEF CommitDeclared, TerminalStates
    <3>2. /\ run'.crossedIn = run.crossedIn \cup {SessionOf(context)}
          /\ run'.prepared = run.prepared
      BY <1>0, <2>4, <3>1, RecordedRun DEF RunKeys
    <3>3. QED
      BY <1>0, <2>1, <2>4, <3>2, SameSession DEF Crossed, NextStep
  <2>5. CASE /\ state = "armed" /\ CommitUndeclared
             /\ run' = [Recorded(run) EXCEPT !.undeclared = TRUE]
             /\ Enter("cleanup", capability.cleanup)
    <3>1. Transition("indeterminate")
      BY <2>5 DEF CommitUndeclared, TerminalStates
    <3>2. QED
      BY <1>0, <2>1, <2>5, <3>1, RecordedRun DEF RunKeys
  <2>6. QED
    BY <1>6, <2>2, <2>3, <2>4, <2>5 DEF Cross
<1>7. CASE Converge
  <2>1. /\ pc = "converge" /\ pc' = "cleanup"
        /\ run'.crossedIn = run.crossedIn /\ run'.prepared = run.prepared
    BY <1>0, <1>7, RecordedRun, ConvergenceMoves DEF Converge, RunKeys
  <2>2. QED
    BY <2>1
<1>8. CASE CleanupStep \/ Requery \/ Finish
  BY <1>0, <1>8 DEF CleanupStep, Requery, Finish, RunKeys
<1>9. QED
  BY <1>1, <1>2, <1>3, <1>4, <1>5, <1>6, <1>7, <1>8 DEF Executor

---------------------------------------------------------------------------
\* The cleanup journal, and the record that carries it.

JournalInv ==
    /\ pc \notin Closing \cup Over => run.cleanup = <<>>
    /\ pc = "cleanup" => Len(run.cleanup) + Len(todo) = Len(capability.cleanup)
    /\ pc = "finish" /\ run.began => Len(run.cleanup) = Len(capability.cleanup)
    /\ pc \notin Over => ended = "no" /\ record = NoRecord
    /\ CleanupComplete

\* What the emitted record has to say about the run.
LEMMA EmittedRecord ==
    ASSUME NEW recordState
    PROVE  /\ Emitted(recordState).state = recordState
           /\ Emitted(recordState).verdict = Explanation
           /\ Emitted(recordState).envelope_result = EnvelopeResult
           /\ Emitted(recordState).provenance.cleanup.journal = run.cleanup
<1>1. Provenance.cleanup = [journal |-> run.cleanup, remaining |-> run.remaining]
  BY DEF Provenance, Joined
<1>2. QED
  BY <1>1 DEF Emitted

LEMMA ExecutorKeepsJournal ==
    ASSUME ExecTypeOK, TodoOK, RunOK, StateAt, TxnTypeOK', LeaseInv, JournalInv,
           Executor
    PROVE  JournalInv'
<1> USE DEF JournalInv, CleanupComplete, Closing, Over, Goto, Enter, Escape,
            AbortAndCleanUp, AbortAndFinish, AbortIndeterminate
<1>0. /\ DOMAIN run = RunKeys /\ TxnTypeOK /\ UNCHANGED capability
      /\ capability.cleanup \in Seq(Steps) /\ todo \in Seq(Steps)
      /\ run.cleanup \in Seq(BOOLEAN)
      /\ pc \in BeforeSetup => ~run.began
  BY CapabilitySteps DEF ExecTypeOK, RunOK, Executor, LeaseInv
<1>1. CASE LoadSheet \/ BindInvocation \/ AcquireLease \/ EnsureConsole
             \/ CheckRecovery \/ PassGates
  BY <1>0, <1>1 DEF LoadSheet, BindInvocation, AcquireLease, EnsureConsole,
     CheckRecovery, PassGates, Refusal, RunKeys, BeforeSetup, BeforeLease
<1>2. CASE ReadDomain \/ SetupStep \/ SetupDone \/ PreOracle \/ PrepareContext
  <2>1. /\ pc \notin Closing \cup Over /\ UNCHANGED record
        /\ \/ pc' \notin Closing \cup Over /\ ended' = ended
           \/ pc' = "cleanup" /\ todo' = capability.cleanup /\ ended' = ended
           \/ pc' = "ended" /\ ended' \in {"escaped", "refused"}
    BY <1>2 DEF ReadDomain, SetupStep, SetupDone, PreOracle, PrepareContext
  <2>2. run'.cleanup = run.cleanup
    BY <1>0, <1>2 DEF ReadDomain, SetupStep, SetupDone, PreOracle, PrepareContext,
       RunKeys
  <2>3. QED
    BY <1>0, <2>1, <2>2
<1>3. CASE PrepareTxn \/ ArmTxn
  <2>1. Transition("prepared") \/ Transition("armed")
    BY <1>3 DEF PrepareTxn, ArmTxn, Prepare, Arm, TerminalStates
  <2>2. QED
    BY <1>0, <1>3, <2>1, RecordedRun DEF PrepareTxn, ArmTxn, RunKeys
<1>4. CASE Classify \/ Perform \/ GesturesDone \/ BindEnvelope
  BY <1>0, <1>4 DEF Classify, Perform, NextStep, GesturesDone, BindEnvelope, RunKeys
<1>5. CASE Cross
  <2>1. run'.cleanup = run.cleanup
    <3>1. ASSUME state = "armed", CommitDeclared \/ CommitUndeclared
          PROVE  \E to : Transition(to)
      BY <3>1 DEF CommitDeclared, CommitUndeclared, TerminalStates
    <3>2. QED
      BY <1>0, <1>5, <3>1, RecordedRun DEF Cross, RunKeys
  <2>2. /\ pc \in {"cross_action", "cross_boundary"} /\ UNCHANGED record
        /\ \/ pc' \in {"gesture", "perform"} /\ ended' = ended
           \/ pc' = "cleanup" /\ todo' = capability.cleanup /\ ended' = ended
           \/ pc' = "ended" /\ ended' = "escaped"
    BY <1>5 DEF Cross, Crossed, NextStep
  <2>3. QED
    BY <1>0, <2>1, <2>2
<1>6. CASE Converge
  <2>1. /\ pc = "converge" /\ pc' = "cleanup" /\ todo' = capability.cleanup
        /\ run'.cleanup = run.cleanup /\ UNCHANGED <<ended, record>>
    BY <1>0, <1>6, RecordedRun, ConvergenceMoves DEF Converge, RunKeys
  <2>2. run.cleanup = <<>> /\ ended' = "no" /\ record' = NoRecord
    BY <2>1
  <2>3. Len(run'.cleanup) + Len(todo') = Len(capability'.cleanup)
    BY <1>0, <2>1, <2>2
  <2>4. QED
    BY <2>1, <2>2, <2>3
<1>7. CASE CleanupStep
  <2>1. \E ok \in BOOLEAN : run'.cleanup = Append(run.cleanup, ok)
    BY <1>0, <1>7 DEF CleanupStep, RunKeys
  <2>2. Len(run'.cleanup) = Len(run.cleanup) + 1
    BY <1>0, <2>1
  <2>3. /\ pc = "cleanup" /\ pc' = "cleanup" /\ todo' = Tail(todo) /\ todo # <<>>
        /\ UNCHANGED <<ended, record>>
    BY <1>7 DEF CleanupStep
  <2>4. Len(run'.cleanup) + Len(todo') = Len(capability'.cleanup)
    <3>1. Len(todo') = Len(todo) - 1 /\ Len(todo) \in Nat
      BY <1>0, <2>3, FirstStep
    <3>2. Len(run.cleanup) + Len(todo) = Len(capability.cleanup)
      BY <2>3
    <3>3. Len(run.cleanup) \in Nat /\ Len(capability'.cleanup) = Len(capability.cleanup)
      BY <1>0
    <3> HIDE DEF JournalInv, CleanupComplete
    <3>4. QED
      BY <2>2, <3>1, <3>2, <3>3
  <2>5. QED
    BY <2>3, <2>4
<1>8. CASE Requery
  BY <1>0, <1>8 DEF Requery, RunKeys
<1>9. CASE Finish
  BY <1>0, <1>9, EmittedRecord DEF Finish
<1>10. QED
  BY <1>1, <1>2, <1>3, <1>4, <1>5, <1>6, <1>7, <1>8, <1>9 DEF Executor

LEMMA ExecutorTellsTruth ==
    ASSUME TxnInv, RunOK, Explained, RecordTellsTruth, Executor
    PROVE  RecordTellsTruth' /\ (record' # record =>
               /\ pc = "finish" /\ pc' = "ended"
               /\ record' = Emitted(IF state \in TerminalStates THEN state
                                                                ELSE "indeterminate")
               /\ UNCHANGED txnVars)
<1>1. CASE Finish
  <2> DEFINE v == IF state \in TerminalStates THEN state ELSE "indeterminate"
  <2>1. record' = Emitted(v) /\ pc = "finish" /\ pc' = "ended" /\ UNCHANGED txnVars
    BY <1>1 DEF Finish
  <2>2. v \in TerminalStates
    BY DEF TerminalStates
  <2>3. CASE v = "verified"
    BY <2>1, <2>3, EmittedRecord
    DEF Explanation, EnvelopeResult, TxnInv, ExplainedOutcome, Explained,
        RecordTellsTruth, TerminalStates
  <2>4. CASE v = "disproven"
    BY <2>1, <2>4, EmittedRecord
    DEF Explanation, EnvelopeResult, TxnInv, ExplainedOutcome, Explained,
        RecordTellsTruth, TerminalStates
  <2>5. CASE v = "indeterminate"
    BY <2>1, <2>5, EmittedRecord
    DEF Explanation, TxnInv, ExplainedOutcome, Explained, Closing,
        RecordTellsTruth, TerminalStates
  <2>6. QED
    BY <2>1, <2>2, <2>3, <2>4, <2>5 DEF TerminalStates
<1>2. CASE UNCHANGED record
  BY <1>2 DEF RecordTellsTruth
<1>3. Finish \/ UNCHANGED record
  <2> USE DEF Goto, Enter, Escape, AbortAndCleanUp, AbortAndFinish
  <2>1. CASE LoadSheet \/ BindInvocation \/ AcquireLease \/ EnsureConsole
               \/ CheckRecovery \/ PassGates \/ ReadDomain
    BY <2>1 DEF LoadSheet, BindInvocation, AcquireLease, EnsureConsole,
                CheckRecovery, PassGates, ReadDomain, Refusal
  <2>2. CASE SetupStep \/ SetupDone \/ PreOracle \/ PrepareContext \/ PrepareTxn
               \/ ArmTxn
    BY <2>2 DEF SetupStep, SetupDone, PreOracle, PrepareContext, PrepareTxn, ArmTxn
  <2>3. CASE Classify \/ Perform \/ Cross \/ GesturesDone \/ BindEnvelope
    BY <2>3 DEF Classify, Perform, Cross, Crossed, NextStep, GesturesDone, BindEnvelope
  <2>4. CASE Converge \/ CleanupStep \/ Requery \/ Finish
    BY <2>4 DEF Converge, CleanupStep, Requery
  <2>5. QED
    BY <2>1, <2>2, <2>3, <2>4 DEF Executor
<1>4. QED
  BY <1>1, <1>2, <1>3 DEF Finish

---------------------------------------------------------------------------
\* Reported absence, and the declared effects.

AbsenceInv ==
    run.remaining = "absent" =>
        pc \in {"finish"} \cup Over /\ queue = <<>> /\ ~world.own

LEMMA ExecutorKeepsAbsence ==
    ASSUME ExecTypeOK, StateAt, RunOK, TxnTypeOK', AbsenceInv, Executor
    PROVE  AbsenceInv'
<1>0. TxnTypeOK /\ DOMAIN run = RunKeys
  BY DEF ExecTypeOK, RunOK
<1>1. CASE Requery
  BY <1>0, <1>1 DEF Requery, AbsenceInv, Over, Goto, Failed, estateVars, RunKeys
<1>2. CASE Finish
  BY <1>2 DEF Finish, AbsenceInv, Over, estateVars
<1>3. ASSUME run'.remaining = run.remaining, pc \notin {"finish"} \cup Over
      PROVE  AbsenceInv'
  BY <1>3 DEF AbsenceInv
<1> USE DEF Goto, Enter, Escape, AbortAndCleanUp, AbortAndFinish, AbortIndeterminate,
            Over
<1>4. CASE LoadSheet \/ BindInvocation \/ AcquireLease \/ EnsureConsole
             \/ CheckRecovery \/ PassGates
  BY <1>0, <1>3, <1>4 DEF LoadSheet, BindInvocation, AcquireLease, EnsureConsole,
              CheckRecovery, PassGates, Refusal, RunKeys
<1>5. CASE ReadDomain \/ SetupStep \/ SetupDone \/ PreOracle \/ PrepareContext
  BY <1>0, <1>3, <1>5 DEF ReadDomain, SetupStep, SetupDone, PreOracle,
     PrepareContext, RunKeys
<1>6. CASE PrepareTxn \/ ArmTxn
  <2>1. Transition("prepared") \/ Transition("armed")
    BY <1>6 DEF PrepareTxn, ArmTxn, Prepare, Arm, TerminalStates
  <2>2. QED
    BY <1>0, <1>3, <1>6, <2>1, RecordedRun DEF PrepareTxn, ArmTxn, RunKeys
<1>7. CASE Classify \/ Perform \/ GesturesDone \/ BindEnvelope \/ CleanupStep
  BY <1>0, <1>3, <1>7 DEF Classify, Perform, NextStep, GesturesDone, BindEnvelope,
     CleanupStep, RunKeys
<1>8. CASE Cross
  <2>1. ASSUME state = "armed", CommitDeclared \/ CommitUndeclared
        PROVE  \E to : Transition(to)
    BY <2>1 DEF CommitDeclared, CommitUndeclared, TerminalStates
  <2>2. run'.remaining = run.remaining /\ pc \in {"cross_action", "cross_boundary"}
    BY <1>0, <1>8, <2>1, RecordedRun DEF Cross, RunKeys
  <2>3. QED
    BY <1>3, <2>2
<1>9. CASE Converge
  BY <1>0, <1>3, <1>9, RecordedRun, ConvergenceMoves DEF Converge, RunKeys
<1>10. QED
  BY <1>1, <1>2, <1>4, <1>5, <1>6, <1>7, <1>8, <1>9 DEF Executor

\* A step of a mutating class is only performed after its crossing.
CrossedFirst ==
    pc = "perform" /\ Class(Step.action) \in Mutating => state = "commit_attempted"

LEMMA ExecutorCrossesFirst ==
    ASSUME StateAt, CrossedFirst, Executor PROVE CrossedFirst'
<1> USE DEF CrossedFirst, Goto, Enter, Escape, AbortAndCleanUp, AbortAndFinish
<1>1. ASSUME pc' # "perform" PROVE CrossedFirst'
  BY <1>1
<1>2. CASE Classify
  <2>1. Step.action = NoName => Class(Step.action) \notin Mutating
    BY ClassificationShape DEF Class, Mutating
  <2>2. pc' = "perform" => Class(Step.action) \notin Mutating /\ todo' = todo
    BY <1>2, <2>1 DEF Classify, Mutating
  <2>3. QED
    BY <2>2 DEF Step
<1>3. CASE Cross
  <2>1. pc' = "perform" =>
          /\ todo' = todo
          /\ \/ state' = "commit_attempted"
             \/ UNCHANGED txnVars /\ state = "commit_attempted"
    <3>1. Crossed /\ pc' = "perform" => todo' = todo
      BY DEF Crossed, NextStep
    <3>2. state = "armed" /\ CommitDeclared => state' = "commit_attempted"
      BY DEF CommitDeclared, Transition, TerminalStates
    <3>3. pc' = "perform" =>
            \/ Crossed /\ state = "commit_attempted" /\ UNCHANGED txnVars
            \/ Crossed /\ state = "armed" /\ CommitDeclared
      BY <1>3 DEF Cross
    <3>4. QED
      BY <3>1, <3>2, <3>3
  <2>2. QED
    BY <2>1 DEF txnVars, Step
<1>4. CASE Perform \/ GesturesDone \/ BindEnvelope \/ Converge
  BY <1>1, <1>4 DEF Perform, NextStep, GesturesDone, BindEnvelope, Converge
<1>5. CASE LoadSheet \/ BindInvocation \/ AcquireLease \/ EnsureConsole
             \/ CheckRecovery \/ PassGates \/ ReadDomain
  BY <1>1, <1>5 DEF LoadSheet, BindInvocation, AcquireLease, EnsureConsole,
              CheckRecovery, PassGates, ReadDomain, Refusal
<1>6. CASE SetupStep \/ SetupDone \/ PreOracle \/ PrepareContext \/ PrepareTxn
             \/ ArmTxn
  BY <1>1, <1>6 DEF SetupStep, SetupDone, PreOracle, PrepareContext, PrepareTxn, ArmTxn
<1>7. CASE CleanupStep \/ Requery \/ Finish
  BY <1>1, <1>7 DEF CleanupStep, Requery, Finish
<1>8. QED
  BY <1>2, <1>3, <1>4, <1>5, <1>6, <1>7 DEF Executor

\* Whether something declared ran, or is still to run.
Declared ==
    \/ "declared" \in world.touched \cup late
    \/ \E i \in 1..Len(queue) : queue[i] = "declared"

LEMMA DoneDeclares ==
    ASSUME NEW w \in World, NEW effect,
           "declared" \in Done(w, effect).touched, effect # "declared"
    PROVE  "declared" \in w.touched
<1>1. Done(w, effect).touched = w.touched \/ effect = "undeclared"
  BY DEF Done, World
<1>2. CASE effect = "undeclared"
  BY <1>2 DEF Done, World
<1>3. QED
  BY <1>1, <1>2

LEMMA CallDeclares ==
    ASSUME Estate, NEW effect \in Effects, effect # "declared",
           Call(effect), Declared'
    PROVE  Declared
<1>1. CASE "declared" \in world'.touched
  <2>1. world' \in {world, Done(world, effect)}
    BY DEF Call, Answered, Failed, HelperFailed, estateVars
  <2>2. QED
    BY <1>1, <2>1, DoneDeclares DEF Declared, Estate
<1>2. CASE \E i \in 1..Len(queue') : queue'[i] = "declared"
  <2>1. queue' \in {queue, Append(queue, effect)}
    BY DEF Call, Answered, Failed, HelperFailed, estateVars
  <2>2. queue \in Seq(Effects) /\ effect # "declared"
    BY DEF Estate
  <2>3. CASE queue' = queue
    BY <1>2, <2>3 DEF Declared
  <2>4. CASE queue' = Append(queue, effect)
    BY <1>2, <2>2, <2>4 DEF Declared
  <2>5. QED
    BY <2>1, <2>3, <2>4
<1>3. CASE "declared" \in late'
  BY <1>3 DEF Call, Answered, Failed, HelperFailed, Declared, estateVars
<1>4. QED
  BY <1>1, <1>2, <1>3 DEF Declared

LEMMA AttemptStays ==
    ASSUME TxnInv, [TxnNext]_txnVars, CommitAttempted PROVE CommitAttempted'
<1>1. ASSUME NEW to \in States, Accept(to) PROVE CommitAttempted'
  BY <1>1, AttemptGrows
<1>2. ASSUME UNCHANGED events PROVE CommitAttempted'
  BY <1>2 DEF CommitAttempted
<1>3. QED
  BY <1>1, <1>2, StepShape DEF Reject, Refuse, txnVars

LEMMA ExecutorWritesAhead ==
    ASSUME TxnInv, [TxnNext]_txnVars, ExecTypeOK, TodoOK, CrossedFirst, WriteAhead,
           Executor
    PROVE  WriteAhead'
<1>1. Estate
  BY DEF Estate, ExecTypeOK, World
<1>2. SUFFICES ASSUME Declared' PROVE CommitAttempted'
  BY DEF WriteAhead, Declared
<1>3. Declared => CommitAttempted'
  BY AttemptStays DEF WriteAhead, Declared
<1>4. CASE UNCHANGED estateVars
  BY <1>2, <1>3, <1>4 DEF Declared, estateVars
<1>5. ASSUME NEW effect \in Effects, Call(effect),
             effect = "declared" =>
                 pc = "perform" /\ Class(Step.action) \in Mutating
      PROVE  CommitAttempted'
  <2>1. CASE effect = "declared"
    BY <1>5, <2>1, AttemptedByState, AttemptStays DEF CrossedFirst
  <2>2. CASE effect # "declared"
    BY <1>1, <1>2, <1>3, <1>5, <2>2, CallDeclares
  <2>3. QED
    BY <2>1, <2>2
<1>6. QED
  BY <1>4, <1>5, OneCall

---------------------------------------------------------------------------
\* The inductive invariant.

ExecInv ==
    /\ TxnInv /\ ExecTypeOK
    /\ RunOK /\ TodoOK /\ StateAt
    /\ Explained /\ Accounted
    /\ LeaseInv /\ CrossInv /\ JournalInv /\ AbsenceInv
    /\ CrossedFirst /\ WriteAhead /\ RecordTellsTruth

LEMMA ExecInitInv == ExecInit => ExecInv
<1> SUFFICES ASSUME ExecInit PROVE ExecInv
  OBVIOUS
<1>1. TxnInv
  BY InitInv DEF ExecInit
<1>2. ExecTypeOK
  <2>1. TxnTypeOK
    BY <1>1 DEF TxnInv
  <2>2. /\ todo \in Seq(Steps) /\ queue \in Seq(Effects)
        /\ late \subseteq {"declared", "undeclared"}
    BY DEF ExecInit
  <2>3. world \in World
    <3>1. world \in [own : {FALSE}, foreign : BOOLEAN, touched : {{}}]
      BY DEF ExecInit
    <3>2. {FALSE} \subseteq BOOLEAN /\ {{}} \subseteq SUBSET {"declared", "undeclared"}
      OBVIOUS
    <3>3. QED
      BY <3>1, <3>2 DEF World
  <2>4. /\ run.guid \in BOOLEAN /\ run.note \in BOOLEAN
        /\ run.events \in Seq(TransitionEvent) /\ run.cleanup \in Seq(BOOLEAN)
        /\ run.manifest \in Seq(Steps)
    BY DEF ExecInit, RunInit
  <2>5. QED
    BY <2>1, <2>2, <2>3, <2>4, BoundsAssumption DEF ExecInit, ExecTypeOK, World
<1>3. RunOK /\ TodoOK /\ StateAt
  BY DEF ExecInit, RunInit, RunOK, RunKeys, TodoOK, StateAt, TxnInit, Attempting
<1>4. Explained /\ Accounted
  BY DEF ExecInit, RunInit, TxnInit, Explained, Accounted, Closing, TerminalStates
<1>5. LeaseInv /\ AbsenceInv /\ CrossedFirst
  BY DEF ExecInit, RunInit, LeaseInv, LeaseCoversWork, AbsenceInv, CrossedFirst
<1>6. CrossInv /\ JournalInv
  BY DEF ExecInit, RunInit, CrossInv, CrossedInPreparedContext, JournalInv,
         CleanupComplete, Attempting
<1>7. WriteAhead /\ RecordTellsTruth
  BY DEF ExecInit, WriteAhead, RecordTellsTruth
<1>8. QED
  BY <1>1, <1>2, <1>3, <1>4, <1>5, <1>6, <1>7 DEF ExecInv

LEMMA ExecutorKeepsInv == ASSUME ExecInv, Executor PROVE ExecInv'
<1> USE DEF ExecInv
<1>1. [TxnNext]_txnVars /\ TxnInv'
  BY ExecStepIsTxnStep, NextInv DEF ExecNext
<1>2. TxnTypeOK /\ TxnTypeOK'
  BY <1>1 DEF TxnInv
<1>3. RunOK' /\ TodoOK' /\ StateAt' /\ Estate'
  BY <1>2, ExecutorKeepsRun, TodoOKStep, ExecutorKeepsState, ExecutorKeepsEstate
<1>4. Explained' /\ Accounted'
  BY <1>2, <1>3, ExecutorAccounts, AccountStep
<1>5. LeaseInv' /\ CrossInv' /\ JournalInv' /\ AbsenceInv' /\ CrossedFirst' /\ WriteAhead'
  BY <1>1, <1>2, ExecutorKeepsLease, ExecutorKeepsContexts, ExecutorKeepsJournal,
     ExecutorKeepsAbsence, ExecutorCrossesFirst, ExecutorWritesAhead
<1>6. RecordTellsTruth'
  BY ExecutorTellsTruth
<1>7. ExecTypeOK'
  <2>1. record' = NoRecord \/ record'.state \in RecordStates
    <3>1. CASE record' = record
      BY <3>1 DEF ExecTypeOK
    <3>2. CASE record' # record
      BY <3>2, ExecutorTellsTruth, EmittedRecord DEF TerminalStates, RecordStates
    <3>3. QED
      BY <3>1, <3>2
  <2>2. UNCHANGED <<capability, caller, context, switches, sheetFile>>
    BY DEF Executor, envVars
  <2>3. QED
    BY <1>2, <1>3, <2>1, <2>2, ExecutorKeepsControl
    DEF ExecTypeOK, RunOK, Estate, World
<1>8. QED
  BY <1>1, <1>3, <1>4, <1>5, <1>6, <1>7

\* What runs around the executor leaves the machine, the locals and the record
\* alone.
LEMMA SurroundingsKeepInv == ASSUME ExecInv, Surroundings PROVE ExecInv'
<1> USE DEF ExecInv
<1>1. UNCHANGED <<capability, caller, pc, todo, ended, record, run>>
      /\ UNCHANGED <<state, events, refusals, stopReason, characterized>>
  BY DEF Surroundings, ctlVars, txnVars
<1>2. TxnInv'
  BY <1>1, NextInv DEF txnVars
<1>3. RunOK' /\ TodoOK' /\ StateAt' /\ Explained' /\ Accounted' /\ RecordTellsTruth'
  BY <1>1 DEF RunOK, TodoOK, StateAt, Explained, Accounted, RecordTellsTruth
<1>4. CrossInv' /\ JournalInv' /\ CrossedFirst'
  BY <1>1 DEF CrossInv, CrossedInPreparedContext, JournalInv, CleanupComplete,
              CrossedFirst, Step
<1>5. LeaseInv'
  BY <1>1 DEF Surroundings, SwitchSession, EditSheet, OtherProcess, ReplFinishes,
              HelperActs, LeaseInv, LeaseCoversWork, BeforeLease
<1>6. /\ Estate' /\ AbsenceInv' /\ (Declared' => Declared)
  <2>1. Estate
    BY DEF Estate, ExecTypeOK, World
  <2>2. CASE UNCHANGED estateVars
    BY <1>1, <2>1, <2>2 DEF Estate, AbsenceInv, Declared, estateVars
  <2>3. CASE ReplFinishes
    <3>1. /\ queue # <<>> /\ queue' = Tail(queue) /\ queue \in Seq(Effects)
          /\ world' \in {world, Done(world, queue[1])} /\ 1 \in 1..Len(queue)
          /\ late' = late
      BY <2>1, <2>3 DEF ReplFinishes, Estate
    <3>2. Estate'
      BY <2>1, <3>1, DoneType DEF Estate
    <3>3. AbsenceInv'
      BY <1>1, <3>1 DEF AbsenceInv
    <3>4. Declared' => Declared
      BY <2>1, <3>1, DoneDeclares DEF Declared, Estate
    <3>5. QED
      BY <3>2, <3>3, <3>4
  <2>4. CASE HelperActs
    <3>1. PICK effect \in late : /\ world' \in {world, Done(world, effect)}
                                 /\ late' = late \ {effect}
      BY <2>4 DEF HelperActs
    <3>2. queue' = queue /\ effect \in {"declared", "undeclared"}
      BY <2>1, <2>4 DEF HelperActs, Estate
    <3>3. Estate'
      BY <2>1, <3>1, <3>2, DoneType DEF Estate
    <3>4. AbsenceInv'
      BY <1>1, <2>1, <3>1, <3>2, DoneKeepsOwn DEF AbsenceInv, Estate
    <3>5. Declared' => Declared
      BY <2>1, <3>1, <3>2, DoneDeclares DEF Declared, Estate
    <3>6. QED
      BY <3>3, <3>4, <3>5
  <2>5. QED
    BY <2>2, <2>3, <2>4 DEF Surroundings, SwitchSession, EditSheet, OtherProcess
<1>7. WriteAhead'
  BY <1>1, <1>6 DEF WriteAhead, Declared, CommitAttempted
<1>8. ExecTypeOK'
  <2>1. /\ context' \in Contexts /\ switches' \in 0..MaxSwitches
        /\ sheetFile' \in 0..MaxEdits
        /\ lease' \in {"free", "mine", "other"}
    BY BoundsAssumption
    DEF Surroundings, SwitchSession, EditSheet, OtherProcess, ReplFinishes,
        HelperActs, ExecTypeOK, envVars
  <2>2. QED
    BY <1>1, <1>2, <1>6, <2>1 DEF ExecTypeOK, TxnInv, Estate, World
<1>9. QED
  BY <1>2, <1>3, <1>4, <1>5, <1>6, <1>7, <1>8

LEMMA EndKeepsInv == ASSUME ExecInv, ProcessEnds PROVE ExecInv'
<1> USE DEF ExecInv
<1>1. /\ pc' = "exited" /\ lease' # "mine"
      /\ ended' = IF pc = "ended" THEN ended ELSE "killed"
      /\ lease' \in {lease, "free"}
      /\ UNCHANGED <<capability, caller, todo, record, run, world, queue, late, context,
                     switches, sheetFile>>
      /\ UNCHANGED <<state, events, refusals, stopReason, characterized>>
      /\ pc # "exited"
  BY DEF ProcessEnds, envVars, estateVars, txnVars
<1>2. TxnInv'
  BY <1>1, NextInv DEF txnVars
<1>3. ExecTypeOK'
  BY <1>1, <1>2 DEF ExecTypeOK, TxnInv
<1>4. RunOK' /\ TodoOK' /\ StateAt' /\ Explained' /\ Accounted' /\ RecordTellsTruth'
  BY <1>1 DEF RunOK, TodoOK, StateAt, Explained, Accounted, RecordTellsTruth,
     Preparing, BeforeSetup, BeforeLease, Attempting, Closing, Over
<1>5. LeaseInv' /\ CrossInv' /\ JournalInv' /\ AbsenceInv' /\ CrossedFirst'
  BY <1>1 DEF LeaseInv, LeaseCoversWork, CrossInv, CrossedInPreparedContext,
     JournalInv, CleanupComplete, AbsenceInv, CrossedFirst, Preparing, BeforeSetup,
     BeforeLease, Attempting, Closing, Over
<1>6. WriteAhead'
  BY <1>1 DEF WriteAhead, CommitAttempted
<1>7. QED
  BY <1>2, <1>3, <1>4, <1>5, <1>6

\* The invariant holds throughout, whatever fails and whoever interferes.
THEOREM ExecInvariance == ExecSpec => []ExecInv
<1>1. ASSUME ExecInv, UNCHANGED execVars PROVE ExecInv'
  <2>2. UNCHANGED <<capability, caller, pc, todo, ended, record, run, lease, world,
                    queue, late, context, switches, sheetFile>>
        /\ UNCHANGED <<state, events, refusals, stopReason, characterized>>
    BY <1>1 DEF execVars, ctlVars, estateVars, envVars, txnVars
  <2>3. TxnInv' /\ ExecTypeOK'
    BY <1>1, <2>2, NextInv DEF txnVars, ExecInv, ExecTypeOK, TxnInv
  <2>4. RunOK' /\ TodoOK' /\ StateAt' /\ Explained' /\ Accounted' /\ RecordTellsTruth'
    BY <1>1, <2>2 DEF ExecInv, RunOK, TodoOK, StateAt, Explained, Accounted,
       RecordTellsTruth
  <2>5. LeaseInv' /\ CrossInv' /\ JournalInv' /\ AbsenceInv' /\ CrossedFirst'
    BY <1>1, <2>2 DEF ExecInv, LeaseInv, LeaseCoversWork, CrossInv,
       CrossedInPreparedContext, JournalInv, CleanupComplete, AbsenceInv,
       CrossedFirst, Step
  <2>6. WriteAhead'
    BY <1>1, <2>2 DEF ExecInv, WriteAhead, CommitAttempted
  <2>7. QED
    BY <2>3, <2>4, <2>5, <2>6 DEF ExecInv
<1>2. ExecInv /\ [ExecNext]_execVars => ExecInv'
  BY <1>1, ExecutorKeepsInv, SurroundingsKeepInv, EndKeepsInv DEF ExecNext
<1>3. QED
  BY <1>2, ExecInitInv, PTL DEF ExecSpec

\* Whatever fails and whatever is invoked, a record's state is terminal.
THEOREM ExecTypeCorrect == ExecSpec => []ExecTypeOK
  BY ExecInvariance, PTL DEF ExecInv

\* No declared effect without a crossing recorded before it.
THEOREM CrossingsAreWrittenAhead == ExecSpec => []WriteAhead
  BY ExecInvariance, PTL DEF ExecInv

\* Every crossing is made in the session prepared for it.
THEOREM CrossingsKeepTheirSession == ExecSpec => []CrossedInPreparedContext
<1>1. ExecInv => CrossedInPreparedContext
  BY DEF ExecInv, CrossInv
<1>2. QED
  BY <1>1, ExecInvariance, PTL

\* The record says what the machine did, and why.
THEOREM RecordsAreTruthful == ExecSpec => []RecordTellsTruth
  BY ExecInvariance, PTL DEF ExecInv

\* The record's events are the machine's, but for the transition of an abort.
THEOREM RecordedEventsAreTrue == ExecSpec => []RecordedEventsArePrefix
<1>1. ASSUME ExecInv PROVE RecordedEventsArePrefix
  <2>1. run.events \in Seq(TransitionEvent) /\ events \in Seq(TransitionEvent)
    BY <1>1 DEF ExecInv, RunOK, TxnInv, TxnTypeOK
  <2>2. CASE run.events = events
    BY <2>1, <2>2 DEF RecordedEventsArePrefix, IsPrefix
  <2>3. CASE /\ state = "indeterminate"
             /\ events = Append(run.events, Last(events))
    <3>1. Len(events) = Len(run.events) + 1
      BY <2>1, <2>3
    <3>2. SubSeq(run.events, 1, Len(run.events)) = SubSeq(events, 1, Len(run.events))
      BY <2>1, <2>3
    <3>3. QED
      BY <2>1, <2>3, <3>1, <3>2 DEF RecordedEventsArePrefix, IsPrefix
  <2>4. QED
    BY <1>1, <2>2, <2>3 DEF ExecInv, Accounted
<1>2. QED
  BY <1>1, ExecInvariance, PTL

\* Every step of the cleanup has its line in the journal.
THEOREM CleanupIsComplete == ExecSpec => []CleanupComplete
<1>1. ExecInv => CleanupComplete
  BY DEF ExecInv, JournalInv
<1>2. QED
  BY <1>1, ExecInvariance, PTL

\* Reported absence is absence.
THEOREM AbsenceIsReal == ExecSpec => []NoFalseAbsence
<1>1. ExecInv => NoFalseAbsence
  BY DEF ExecInv, AbsenceInv, NoFalseAbsence
<1>2. QED
  BY <1>1, ExecInvariance, PTL

\* The lease is held from the first desktop action to the record.
THEOREM LeaseIsHeld == ExecSpec => []LeaseCoversWork
<1>1. ExecInv => LeaseCoversWork
  BY DEF ExecInv, LeaseInv
<1>2. QED
  BY <1>1, ExecInvariance, PTL

\* The lease the executor works under is the abstract one, which module FileLease
\* shows the lock file to be: this process is one of its users.
Lease == INSTANCE ExclusiveLease WITH
           Processes <- {"mine", "other"}, Nobody <- "free", holder <- lease

\* It passes on only through nobody, and this process never gives away what
\* another one holds: the gates release it without asking whose it is.
LeaseMove == /\ Lease!LeaseNext
             /\ ~Surroundings => Lease!Take("mine") \/ Lease!GiveUp("mine")

UsesExclusiveLease == [][LeaseMove]_lease

LEMMA ExecutorMovesOwnLease ==
    ASSUME LeaseInv, Executor
    PROVE  Lease!Take("mine") \/ Lease!GiveUp("mine") \/ UNCHANGED lease
<1> USE DEF Lease!Take, Lease!GiveUp, Escape
<1>1. CASE LoadSheet \/ BindInvocation \/ AcquireLease
  BY <1>1 DEF LoadSheet, BindInvocation, AcquireLease
<1>2. CASE EnsureConsole \/ CheckRecovery \/ ReadDomain
  BY <1>2 DEF EnsureConsole, CheckRecovery, ReadDomain
<1>3. CASE PassGates
  <2>1. lease = "mine"
    BY <1>3 DEF PassGates, LeaseInv, LeaseCoversWork
  <2>2. QED
    BY <1>3, <2>1 DEF PassGates, Refusal
<1>4. CASE SetupStep \/ SetupDone \/ PreOracle \/ PrepareContext
  BY <1>4 DEF SetupStep, SetupDone, PreOracle, PrepareContext
<1>5. CASE PrepareTxn \/ ArmTxn \/ Classify \/ Perform \/ GesturesDone \/ BindEnvelope
  BY <1>5 DEF PrepareTxn, ArmTxn, Classify, Perform, GesturesDone, BindEnvelope
<1>6. CASE Cross \/ Converge
  BY <1>6 DEF Cross, Converge
<1>7. CASE CleanupStep \/ Requery \/ Finish
  BY <1>7 DEF CleanupStep, Requery, Finish
<1>8. QED
  BY <1>1, <1>2, <1>3, <1>4, <1>5, <1>6, <1>7 DEF Executor

\* Whatever fails, every move of the lease is one the abstract lease allows, and
\* those of the executor, or of its end, are about its own.
THEOREM ExecutorUsesTheLease == ExecSpec => UsesExclusiveLease
<1>1. ExecInv /\ [ExecNext]_execVars => [LeaseMove]_lease
  <2> SUFFICES ASSUME ExecInv, [ExecNext]_execVars, lease' # lease PROVE LeaseMove
    OBVIOUS
  <2> USE DEF LeaseMove
  <2>1. CASE Executor
    BY <2>1, ExecutorMovesOwnLease DEF ExecInv, Lease!LeaseNext
  <2>2. CASE ProcessEnds
    BY <2>2 DEF ProcessEnds, Lease!LeaseNext, Lease!Take, Lease!GiveUp
  <2>3. CASE Surroundings
    <3>1. OtherProcess
      BY <2>3 DEF Surroundings, SwitchSession, EditSheet, ReplFinishes, HelperActs
    <3>2. QED
      BY <2>3, <3>1 DEF OtherProcess, Lease!LeaseNext, Lease!Take, Lease!GiveUp
  <2>4. QED
    BY <2>1, <2>2, <2>3 DEF ExecNext, execVars
<1>2. QED
  BY <1>1, ExecInvariance, PTL DEF ExecSpec, UsesExclusiveLease

---------------------------------------------------------------------------
\* A sheet that removes only what it created spares what it found.

\* No removal by name is left to do or still on its way.
NoneByName ==
    ~RemovesByName(capability) =>
        /\ \A i \in 1..Len(todo)  : todo[i].does # "remove_by_name"
        /\ \A i \in 1..Len(queue) : queue[i] # "remove_by_name"

LEMMA StepsToDo ==
    ASSUME Executor
    PROVE  \/ todo' = todo
           \/ todo' \in {capability.setup, capability.gesture, capability.cleanup}
           \/ /\ todo # <<>> \/ pc \in {"cross_action", "perform", "cross_boundary"}
              /\ todo' = Tail(todo)
<1> USE DEF Goto, Enter, Escape, AbortAndCleanUp, AbortAndFinish
<1>1. CASE LoadSheet \/ BindInvocation \/ AcquireLease \/ EnsureConsole
             \/ CheckRecovery \/ PassGates
  BY <1>1 DEF LoadSheet, BindInvocation, AcquireLease, EnsureConsole,
              CheckRecovery, PassGates, Refusal
<1>2. CASE ReadDomain \/ SetupDone \/ PreOracle \/ PrepareContext
  BY <1>2 DEF ReadDomain, SetupDone, PreOracle, PrepareContext
<1>3. CASE SetupStep \/ CleanupStep
  BY <1>3 DEF SetupStep, CleanupStep
<1>4. CASE PrepareTxn \/ ArmTxn \/ GesturesDone \/ BindEnvelope \/ Requery \/ Finish
  BY <1>4 DEF PrepareTxn, ArmTxn, GesturesDone, BindEnvelope, Requery, Finish
<1>5. CASE Classify \/ Perform
  BY <1>5 DEF Classify, Perform, NextStep
<1>6. CASE Cross
  BY <1>6 DEF Cross, Crossed, NextStep
<1>7. CASE Converge
  BY <1>7 DEF Converge
<1>8. QED
  BY <1>1, <1>2, <1>3, <1>4, <1>5, <1>6, <1>7 DEF Executor

LEMMA DoneSpares ==
    ASSUME NEW w \in World, NEW effect, effect # "remove_by_name", w.foreign
    PROVE  Done(w, effect).foreign
  BY DEF Done, World

\* A call of another effect removes no GPO that was found, now or later.
LEMMA CallSpares ==
    ASSUME Estate, NEW effect \in Effects, effect # "remove_by_name",
           Call(effect),
           \A i \in 1..Len(queue) : queue[i] # "remove_by_name"
    PROVE  /\ world.foreign => world'.foreign
           /\ \A i \in 1..Len(queue') : queue'[i] # "remove_by_name"
<1>1. world' \in {world, Done(world, effect)}
  BY DEF Call, Answered, Failed, HelperFailed, estateVars
<1>2. \A i \in 1..Len(queue') : queue'[i] # "remove_by_name"
  BY DEF Call, Answered, Failed, HelperFailed, Estate, estateVars
<1>3. QED
  BY <1>1, <1>2, DoneSpares DEF Estate

LEMMA ExecutorSpares ==
    ASSUME ExecTypeOK, TodoOK, NoneByName, ~RemovesByName(capability), Executor
    PROVE  NoneByName' /\ (world.foreign => world'.foreign)
<1>0. Estate /\ todo \in Seq(Steps) /\ UNCHANGED capability
  BY DEF Estate, ExecTypeOK, World, Executor
<1>1. \A i \in 1..Len(todo') : todo'[i].does # "remove_by_name"
  <2>1. CASE todo' \in {capability.setup, capability.gesture, capability.cleanup}
    BY <2>1 DEF RemovesByName
  <2>2. CASE todo' = Tail(todo) /\ todo # <<>>
    BY <1>0, <2>2, FirstStep DEF NoneByName
  <2>3. CASE todo' = todo
    BY <2>3 DEF NoneByName
  <2>4. QED
    BY <2>1, <2>2, <2>3, StepsToDo DEF TodoOK
<1>2. /\ \A i \in 1..Len(queue') : queue'[i] # "remove_by_name"
      /\ world.foreign => world'.foreign
  <2>1. CASE UNCHANGED estateVars
    BY <2>1 DEF NoneByName, estateVars
  <2>2. ASSUME NEW effect \in Effects, Call(effect),
               effect = "remove_by_name" =>
                   todo # <<>> /\ Step.does = "remove_by_name"
        PROVE  <1>2
    <3>1. effect # "remove_by_name"
      BY <1>0, <2>2, FirstStep DEF NoneByName
    <3>2. QED
      BY <1>0, <2>2, <3>1, CallSpares DEF NoneByName
  <2>3. QED
    BY <2>1, <2>2, OneCall
<1>3. QED
  BY <1>0, <1>1, <1>2 DEF NoneByName

LEMMA OthersSpare ==
    ASSUME ExecTypeOK, NoneByName, ~RemovesByName(capability),
           Surroundings \/ ProcessEnds \/ UNCHANGED execVars
    PROVE  NoneByName' /\ (world.foreign => world'.foreign)
<1>1. Estate /\ UNCHANGED <<capability, todo>>
  BY DEF Estate, ExecTypeOK, World, Surroundings, ProcessEnds, execVars, ctlVars
<1>2. CASE UNCHANGED estateVars
  BY <1>1, <1>2 DEF NoneByName, estateVars
<1>3. CASE ReplFinishes
  <2>1. /\ queue # <<>> /\ queue' = Tail(queue) /\ queue \in Seq(Effects)
        /\ world' \in {world, Done(world, queue[1])} /\ 1 \in 1..Len(queue)
    BY <1>1, <1>3 DEF ReplFinishes, Estate
  <2>2. \A i \in 1..Len(queue') : queue'[i] # "remove_by_name"
    BY <2>1 DEF NoneByName
  <2>3. world.foreign => world'.foreign
    BY <1>1, <2>1, DoneSpares DEF NoneByName, Estate
  <2>4. QED
    BY <1>1, <2>2, <2>3 DEF NoneByName
<1>4. CASE HelperActs
  <2>1. PICK effect \in late : world' \in {world, Done(world, effect)}
    BY <1>4 DEF HelperActs
  <2>2. queue' = queue /\ effect # "remove_by_name"
    BY <1>1, <1>4 DEF HelperActs, Estate
  <2>3. QED
    BY <1>1, <2>1, <2>2, DoneSpares DEF NoneByName, Estate
<1>5. QED
  BY <1>2, <1>3, <1>4
  DEF Surroundings, SwitchSession, EditSheet, OtherProcess, ProcessEnds, execVars

\* A found GPO survives every sheet that does not remove by name, also what the
\* transport carries out after the executor has given up on it.
THEOREM FoundGpoIsSpared == ExecSpec => OwnedRemovalSparesFound
<1>1. ExecInit => NoneByName
  BY DEF ExecInit, NoneByName
<1>2. ASSUME ExecInv, NoneByName, [ExecNext]_execVars
      PROVE  /\ NoneByName'
             /\ ~RemovesByName(capability) => (world.foreign => world'.foreign)
  <2>1. UNCHANGED capability
    BY <1>2 DEF ExecNext, Executor, Surroundings, ProcessEnds, execVars
  <2>2. CASE RemovesByName(capability)
    BY <2>1, <2>2 DEF NoneByName
  <2>3. CASE ~RemovesByName(capability)
    BY <1>2, <2>3, ExecutorSpares, OthersSpare DEF ExecNext, ExecInv
  <2>4. QED
    BY <2>2, <2>3
<1>3. QED
  BY <1>1, <1>2, ExecInvariance, PTL DEF ExecSpec, OwnedRemovalSparesFound

---------------------------------------------------------------------------
\* The reader of the record is promised one attempt and one verdict.

\* A determinate state was entered from commit_attempted.
LEMMA DeterminateIsAttempted ==
    ASSUME TxnInv, state \in {"verified", "disproven"} PROVE CommitAttempted
<1>1. events \in Seq(TransitionEvent) /\ Len(events) \in Nat
  BY DEF TxnInv, TxnTypeOK
<1>2. events # <<>> /\ state = events[Len(events)].to_state
  BY DEF TxnInv, AuditTrail
<1>3. Len(events) \in 1..Len(events)
  BY <1>1, <1>2
<1>4. events[Len(events)].from_state = "commit_attempted"
  BY <1>2, <1>3 DEF TxnInv, EveryEventIsAnEdge, Edge
<1>5. Len(events) > 1 /\ Len(events) - 1 \in 1..Len(events)
  BY <1>1, <1>3, <1>4 DEF TxnInv, AuditTrail
<1>6. events[Len(events) - 1].to_state = "commit_attempted"
  BY <1>3, <1>4, <1>5 DEF TxnInv, AuditTrail
<1>7. QED
  BY <1>5, <1>6 DEF CommitAttempted

\* The executor, through the record it returns, keeps the one-attempt promise.
THEOREM ExecutorImplementsOneAttempt == ExecSpec => ExecKeepsPromise
<1>1. ExecInit => ExecPromise!AttemptInit
  BY DEF ExecInit, NoRecord, TxnInit, CommitAttempted, ExecPromise!AttemptInit
<1>2. ASSUME ExecInv, [ExecNext]_execVars
      PROVE  [ExecPromise!AttemptNext]_(ExecPromise!attemptVars)
  <2> USE DEF ExecPromise!attemptVars
  <2>1. [TxnNext]_txnVars /\ TxnInv /\ TxnInv'
    BY <1>2, ExecStepIsTxnStep, NextInv DEF ExecInv
  <2>2. CASE record' # record
    <3>1. Executor
      BY <1>2, <2>2
      DEF ExecNext, Surroundings, ProcessEnds, execVars, ctlVars
    <3> DEFINE v == IF state \in TerminalStates THEN state ELSE "indeterminate"
    <3>2. pc = "finish" /\ record' = Emitted(v) /\ UNCHANGED txnVars
      BY <1>2, <2>2, <3>1, ExecutorTellsTruth DEF ExecInv
    <3>3. record.state = "none" /\ record'.state = v
      BY <1>2, <3>2, EmittedRecord DEF ExecInv, JournalInv, Over, NoRecord
    <3>4. CommitAttempted' = CommitAttempted
      BY <3>2 DEF txnVars, CommitAttempted
    <3>5. v \in ExecPromise!Verdicts /\ (v # "indeterminate" => CommitAttempted)
      BY <2>1, DeterminateIsAttempted DEF TerminalStates, ExecPromise!Verdicts
    <3>6. ExecPromise!Conclude(v)
      BY <3>3, <3>4, <3>5 DEF ExecPromise!Conclude
    <3>7. QED
      BY <3>5, <3>6 DEF ExecPromise!AttemptNext
  <2>3. CASE record' = record /\ ~UNCHANGED txnVars
    <3>1. Executor
      BY <1>2, <2>3 DEF ExecNext, Surroundings, ProcessEnds, execVars
    <3>2. pc \notin Over
      BY <1>2, <2>1, <3>1, ExecutorAccounts DEF ExecInv, TxnInv
    <3>3. record.state = "none"
      BY <1>2, <3>2 DEF ExecInv, JournalInv, NoRecord
    <3>4. CASE CommitAttempted' = CommitAttempted
      BY <2>3, <3>4
    <3>5. CASE CommitAttempted' # CommitAttempted
      <4>1. ~CommitAttempted /\ CommitAttempted'
        BY <2>1, <3>5, AttemptStays, AttemptedIsBoolean
      <4>2. ExecPromise!Attempt
        BY <2>3, <3>3, <4>1, AttemptedIsBoolean DEF ExecPromise!Attempt
      <4>3. QED
        BY <4>2 DEF ExecPromise!AttemptNext
    <3>6. QED
      BY <3>4, <3>5
  <2>4. CASE record' = record /\ UNCHANGED txnVars
    BY <2>4 DEF txnVars, CommitAttempted
  <2>5. QED
    BY <2>2, <2>3, <2>4
<1>3. QED
  BY <1>1, <1>2, ExecInvariance, PTL
  DEF ExecSpec, ExecKeepsPromise, ExecPromise!AttemptSpec
=============================================================================
