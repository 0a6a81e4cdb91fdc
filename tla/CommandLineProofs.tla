-------------------------- MODULE CommandLineProofs --------------------------
(***************************************************************************)
(* The command line drives the executor as any caller may: its behaviours  *)
(* are behaviours of module ExecTransaction, a plan it does not carry out  *)
(* being a document the executor would have refused.  What is proved of    *)
(* the executor is therefore proved of the verb.                           *)
(*                                                                         *)
(* The record passes its own validation (RecordsAreAccepted): the manifest *)
(* follows the setup scripts (ManifestInv) and the record is what _emit    *)
(* made of the locals at the end (EmittedInv); each part of the check is   *)
(* then a lemma about those locals.  From that, and from what is left      *)
(* untouched before setup (UntouchedInv), exit code 2 is a refusal         *)
(* (ExitTwoIsARefusal).                                                    *)
(***************************************************************************)
EXTENDS CommandLine, ExecTransactionProofs, FiniteSetTheorems

\* A plan that is not carried out is a refused or a failing first step.
LEMMA EarlyEndIsLoad ==
    ASSUME pc = "load", NEW code,
           EndsEarly("refused", code) \/ EndsEarly("escaped", code)
    PROVE  Executor
<1>1. LoadSheet /\ UNCHANGED <<capability, caller, envVars>>
  BY DEF EndsEarly, LoadSheet, Escape
<1>2. QED
  BY <1>1 DEF Executor

\* Every behaviour of the command line is one of the executor.
THEOREM CommandLineDrivesExecutor == CliSpec => ExecSpec
<1>1. CliInit => ExecInit
  BY DEF CliInit
<1>2. ASSUME [CliNext]_allVars PROVE [ExecNext]_execVars
  <2>1. CASE ReadPlan \/ Report
    BY <2>1 DEF ReadPlan, Report
  <2>2. CASE RefusePlan \/ TransportWillNotStart
    BY <2>2, EarlyEndIsLoad DEF RefusePlan, TransportWillNotStart, Reading, ExecNext
  <2>3. CASE Invoke \/ ProcessReturns \/ ProcessDies \/ Surroundings
    BY <2>3 DEF Invoke, ProcessReturns, ProcessDies, ExecNext
  <2>4. CASE UNCHANGED allVars
    BY <2>4 DEF allVars
  <2>5. QED
    BY <1>2, <2>1, <2>2, <2>3, <2>4 DEF CliNext
<1>3. QED
  BY <1>1, <1>2, PTL DEF CliSpec, ExecSpec

\* So the verb keeps the executor's promise as well, with its fairness.
THEOREM VerbKeepsPromise == FairCliSpec => ExecKeepsPromise
<1>1. FairCliSpec => CliSpec
  BY PTL DEF FairCliSpec
<1>2. QED
  BY <1>1, CommandLineDrivesExecutor, ExecutorImplementsOneAttempt, PTL

---------------------------------------------------------------------------
\* The record is one its own schema accepts.

Asserted == {"none", "satisfied", "disproven", "indeterminate"}

\* Setup gone through to its end.
SetUp == {"pre_oracle", "context", "prepare", "arm"} \cup Attempting

\* The manifest lists the scripts of setup that answered, in order; all of them
\* when setup is over.
ManifestInv ==
    /\ Len(run.manifest) <= Len(capability.setup)
    /\ \A i \in 1..Len(run.manifest) : run.manifest[i] = capability.setup[i]
    /\ pc \in BeforeSetup => run.manifest = <<>>
    /\ pc = "setup" =>
          /\ Len(run.manifest) + Len(todo) = Len(capability.setup)
          /\ \A i \in 1..Len(todo) : todo[i] = capability.setup[Len(run.manifest) + i]
    /\ pc \in SetUp => Len(run.manifest) = Len(capability.setup)
    /\ state \in {"verified", "disproven"} =>
          Len(run.manifest) = Len(capability.setup)

\* A record is what _emit made of the locals, which nothing changes after it.
EmittedInv ==
    /\ pc \notin {"load"} \cup Over => ChannelsPermit(capability)
    /\ run.assertion \in Asserted
    /\ record # NoRecord =>
          /\ pc \in Over /\ ChannelsPermit(capability)
          /\ record = Emitted(IF state \in TerminalStates THEN state
                                                          ELSE "indeterminate")

LEMMA ExecutorKeepsManifest ==
    ASSUME ExecInv, ManifestInv, run.assertion \in Asserted, TxnTypeOK', StateAt',
           Executor
    PROVE  ManifestInv' /\ run'.assertion \in Asserted
<1> USE DEF Goto, Enter, Escape, AbortAndCleanUp, AbortAndFinish, AbortIndeterminate,
            Closing, Over, BeforeSetup, BeforeLease, SetUp, Attempting
<1>0. /\ DOMAIN run = RunKeys /\ TxnTypeOK /\ UNCHANGED capability
      /\ capability.setup \in Seq(Steps) /\ todo \in Seq(Steps)
      /\ run.manifest \in Seq(Steps) /\ RunOK /\ StateAt /\ ExecTypeOK
  BY CapabilitySteps DEF ExecInv, ExecTypeOK, RunOK, Executor
<1>1. ASSUME run'.manifest = run.manifest, run'.assertion = run.assertion,
             UNCHANGED state \/ state' \notin {"verified", "disproven"},
             pc' \in BeforeSetup => pc \in BeforeSetup,
             pc' \in SetUp => pc \in SetUp, pc' # "setup"
      PROVE  ManifestInv' /\ run'.assertion \in Asserted
  BY <1>0, <1>1 DEF ManifestInv
<1>12. ASSUME AbortIndeterminate
       PROVE  /\ run'.manifest = run.manifest /\ run'.assertion = run.assertion
              /\ UNCHANGED state \/ state' = "indeterminate"
  BY <1>0, <1>12 DEF MarkIndeterminate, Transition, LiveStates, TerminalStates,
     RunKeys, txnVars
<1> HIDE DEF AbortIndeterminate
<1>2. CASE LoadSheet \/ BindInvocation \/ AcquireLease \/ EnsureConsole
             \/ CheckRecovery \/ PassGates
  <2>1. /\ run'.manifest = run.manifest /\ run'.assertion = run.assertion
        /\ UNCHANGED state \/ state' = "indeterminate"
    BY <1>0, <1>2, <1>12 DEF LoadSheet, BindInvocation, AcquireLease, EnsureConsole,
       CheckRecovery, PassGates, Refusal, RunKeys, txnVars
  <2>2. pc \in BeforeSetup /\ pc' \notin SetUp \cup {"setup"}
    BY <1>2 DEF LoadSheet, BindInvocation, AcquireLease, EnsureConsole,
       CheckRecovery, PassGates, Refusal
  <2>3. QED
    BY <1>1, <2>1, <2>2
<1>3. CASE ReadDomain
  BY <1>0, <1>3 DEF ReadDomain, RunKeys, ManifestInv, txnVars
<1>4. CASE SetupStep
  <2>5. /\ pc = "setup" /\ todo # <<>>
        /\ \/ /\ \E guid : run' = [run EXCEPT !.manifest = Append(@, Head(todo)),
                                          !.guid = guid]
              /\ pc' = "setup" /\ todo' = Tail(todo) /\ UNCHANGED txnVars
           \/ /\ run' = [run EXCEPT !.manifest = Append(@, Head(todo)), !.note = TRUE]
              /\ pc' = "cleanup" /\ UNCHANGED txnVars
           \/ AbortIndeterminate /\ pc' = "cleanup"
    BY <1>4 DEF SetupStep
  <2>6. Head(todo) = todo[1]
    BY <1>0, <2>5, FirstStep DEF Step
  <2>1. /\ pc = "setup" /\ todo # <<>> /\ Head(todo) = todo[1]
        /\ run'.assertion = run.assertion
        /\ UNCHANGED state \/ state' = "indeterminate"
        /\ \/ run'.manifest = run.manifest /\ pc' = "cleanup"
           \/ /\ run'.manifest = Append(run.manifest, Head(todo))
              /\ \/ pc' = "cleanup"
                 \/ pc' = "setup" /\ todo' = Tail(todo)
    BY <1>0, <1>12, <2>5, <2>6 DEF RunKeys, txnVars
  <2>2. CASE run'.manifest = run.manifest /\ pc' = "cleanup"
    BY <1>1, <2>1, <2>2
  <2>3. CASE run'.manifest = Append(run.manifest, Head(todo)) /\
             (pc' = "cleanup" \/ (pc' = "setup" /\ todo' = Tail(todo)))
    <3>1. /\ Len(run.manifest) + Len(todo) = Len(capability.setup)
          /\ \A i \in 1..Len(run.manifest) : run.manifest[i] = capability.setup[i]
          /\ \A i \in 1..Len(todo) : todo[i] = capability.setup[Len(run.manifest) + i]
      BY <2>1 DEF ManifestInv
    <3>2. /\ Len(run'.manifest) <= Len(capability.setup)
          /\ Len(run'.manifest) + Len(Tail(todo)) = Len(capability.setup)
          /\ \A i \in 1..Len(run'.manifest) : run'.manifest[i] = capability.setup[i]
          /\ \A i \in 1..Len(Tail(todo)) :
                Tail(todo)[i] = capability.setup[Len(run'.manifest) + i]
      <4>1. run'.manifest = Append(run.manifest, todo[1])
        BY <2>1, <2>3
      <4>2. PICK s \in Seq(Steps), done \in Seq(Steps), left \in Seq(Steps) :
              s = capability.setup /\ done = run.manifest /\ left = todo
        BY <1>0
      <4>3. /\ left # <<>> /\ Len(done) + Len(left) = Len(s)
            /\ \A i \in 1..Len(done) : done[i] = s[i]
            /\ \A i \in 1..Len(left) : left[i] = s[Len(done) + i]
        BY <2>1, <3>1, <4>2
      <4>4. PICK more : more = Append(done, left[1])
        OBVIOUS
      <4>5. /\ Len(more) <= Len(s)
            /\ Len(more) + Len(Tail(left)) = Len(s)
            /\ \A i \in 1..Len(more) : more[i] = s[i]
            /\ \A i \in 1..Len(Tail(left)) : Tail(left)[i] = s[Len(more) + i]
        <5>1. PICK m \in Nat, t \in Nat, n \in Nat :
                 m = Len(done) /\ t = Len(left) /\ n = Len(s) /\ t > 0 /\ m + t = n
          BY <4>3
        <5>2. /\ Len(more) = m + 1 /\ more[m + 1] = left[1]
              /\ \A i \in 1..m : more[i] = done[i]
          BY <4>3, <4>4, <5>1
        <5>3. /\ Len(Tail(left)) = t - 1
              /\ \A i \in 1..(t - 1) : Tail(left)[i] = left[i + 1]
          BY <4>3, <4>4, <5>1
        <5>4. left[1] = s[m + 1]
          BY <4>3, <4>4, <5>1
        <5>5. ASSUME NEW i \in 1..(t - 1) PROVE Tail(left)[i] = s[m + 1 + i]
          <6>1. i + 1 \in 1..t /\ m + (i + 1) = m + 1 + i
            BY <5>1, <5>5
          <6>2. left[i + 1] = s[m + (i + 1)]
            BY <4>3, <5>1, <6>1
          <6>3. QED
            BY <5>3, <6>1, <6>2
        <5>6. ASSUME NEW i \in 1..(m + 1) PROVE more[i] = s[i]
          <6>1. \/ i \in 1..m /\ i \in 1..Len(done)
                \/ i = m + 1
            BY <5>1, <5>6
          <6>2. QED
            BY <4>3, <5>2, <5>4, <6>1
        <5>7. QED
          BY <4>3, <5>1, <5>2, <5>3, <5>5, <5>6
      <4>6. run'.manifest = more
        BY <4>1, <4>2, <4>4
      <4>7. QED
        BY <4>2, <4>5, <4>6
    <3>3. capability'.setup = capability.setup /\ pc' \notin BeforeSetup \cup SetUp
      BY <1>0, <2>3
    <3>4. state' \notin {"verified", "disproven"}
      BY <1>0, <2>1 DEF StateAt, Preparing
    <3>5. QED
      BY <2>1, <2>3, <3>2, <3>3, <3>4 DEF ManifestInv
  <2>4. QED
    BY <2>1, <2>2, <2>3
<1>5. CASE SetupDone \/ PreOracle \/ PrepareContext
  <2>1. /\ run'.manifest = run.manifest /\ run'.assertion = run.assertion
        /\ UNCHANGED state \/ state' = "indeterminate"
    BY <1>0, <1>5, <1>12 DEF SetupDone, PreOracle, PrepareContext, RunKeys, txnVars
  <2>2. /\ pc' \notin BeforeSetup \cup {"setup"}
        /\ pc' \in SetUp => \/ pc \in SetUp
                            \/ (pc = "setup" /\ todo = <<>>)
    BY <1>5 DEF SetupDone, PreOracle, PrepareContext
  <2>3. pc = "setup" /\ todo = <<>> => Len(run.manifest) = Len(capability.setup)
    BY <1>0 DEF ManifestInv
  <2>4. QED
    BY <1>0, <1>1, <2>1, <2>2, <2>3 DEF ManifestInv
<1>6. CASE PrepareTxn \/ ArmTxn
  <2>1. /\ pc \in SetUp /\ pc' \in SetUp
        /\ state' \notin {"verified", "disproven"}
        /\ run' = Recorded(run)
    BY <1>6 DEF PrepareTxn, ArmTxn, Prepare, Arm, Transition, TerminalStates
  <2>2. run'.manifest = run.manifest /\ run'.assertion = run.assertion
    BY <1>0, <2>1 DEF Recorded, RunKeys
  <2>3. QED
    BY <1>1, <2>1, <2>2
<1>7. CASE Classify \/ Perform \/ GesturesDone \/ BindEnvelope
  <2>1. /\ run'.manifest = run.manifest /\ run'.assertion = run.assertion
        /\ UNCHANGED state \/ state' = "indeterminate"
    BY <1>0, <1>7, <1>12
    DEF Classify, Perform, NextStep, GesturesDone, BindEnvelope, txnVars
  <2>2. pc \in SetUp /\ pc' \notin BeforeSetup \cup {"setup"}
    BY <1>7 DEF Classify, Perform, NextStep, GesturesDone, BindEnvelope
  <2>3. QED
    BY <1>1, <2>1, <2>2
<1>8. CASE Cross
  <2>1. /\ pc \in SetUp /\ pc' \notin BeforeSetup \cup {"setup"}
    BY <1>8 DEF Cross, Crossed, NextStep
  <2>2. /\ run'.manifest = run.manifest /\ run'.assertion = run.assertion
        /\ UNCHANGED state \/ state' \notin {"verified", "disproven"}
    BY <1>0, <1>8, <1>12
    DEF Cross, Recorded, RunKeys, CommitDeclared, CommitUndeclared, Transition,
        TerminalStates, txnVars
  <2>3. QED
    BY <1>1, <2>1, <2>2
<1>9. CASE Converge
  <2>1. pc = "converge" /\ pc' = "cleanup"
    BY <1>9 DEF Converge
  <2>2. run'.manifest = run.manifest /\ run'.assertion \in Asserted
    <3>1. \/ AbortIndeterminate
          \/ \E c \in Convergences : run' = [Recorded(run) EXCEPT !.assertion = c[2]]
      BY <1>9 DEF Converge
    <3>2. ASSUME NEW c \in Convergences,
                 run' = [Recorded(run) EXCEPT !.assertion = c[2]]
          PROVE  run'.manifest = run.manifest /\ run'.assertion \in Asserted
      <4>1. c[2] \in Asserted
        BY DEF Convergences, Asserted
      <4>2. QED
        BY <1>0, <3>2, <4>1 DEF Recorded, RunKeys
    <3>3. QED
      BY <1>12, <3>1, <3>2
  <2>3. QED
    BY <1>0, <2>1, <2>2 DEF ManifestInv
<1>10. CASE CleanupStep \/ Requery \/ Finish
  <2>1. /\ run'.manifest = run.manifest /\ run'.assertion = run.assertion
        /\ UNCHANGED state
    BY <1>0, <1>10 DEF CleanupStep, Requery, Finish, RunKeys, txnVars
  <2>2. pc' \notin BeforeSetup \cup SetUp \cup {"setup"}
    BY <1>10 DEF CleanupStep, Requery, Finish
  <2>3. QED
    BY <1>1, <2>1, <2>2
<1>11. QED
  BY <1>2, <1>3, <1>4, <1>5, <1>6, <1>7, <1>8, <1>9, <1>10 DEF Executor


LEMMA EmittedStays ==
    ASSUME NEW v, UNCHANGED <<capability, caller, run, stopReason, characterized>>
    PROVE  Emitted(v)' = Emitted(v)
  BY DEF Emitted, Explanation, EnvelopeResult, RecordedEvents, Provenance, Invocation,
         CapabilityText, SheetDocument

LEMMA ExecutorKeepsEmitted ==
    ASSUME ExecInv, EmittedInv, run'.assertion \in Asserted, Executor
    PROVE  EmittedInv'
<1>0. /\ UNCHANGED <<capability, caller>> /\ pc \notin Over
      /\ TxnInv /\ TxnTypeOK' /\ RunOK /\ TodoOK /\ StateAt /\ ExecTypeOK
      /\ JournalInv /\ Explained /\ RecordTellsTruth
  <2>1. TxnTypeOK'
    BY ExecStepIsTxnStep, NextInv DEF ExecNext, ExecInv, TxnInv
  <2>2. QED
    BY <2>1, ExecutorAccounts DEF ExecInv, Executor
<1>1. record = NoRecord
  BY <1>0 DEF JournalInv
<1>2. pc' \notin {"load"} \cup Over => ChannelsPermit(capability')
  <2>1. CASE pc = "load"
    <3>1. LoadSheet
      BY <2>1 DEF Executor, LoadSheet, BindInvocation, AcquireLease, EnsureConsole,
         CheckRecovery, PassGates, ReadDomain, SetupStep, SetupDone, PreOracle,
         PrepareContext, PrepareTxn, ArmTxn, Classify, Cross, Perform, GesturesDone,
         BindEnvelope, Converge, CleanupStep, Requery, Finish
    <3>2. QED
      BY <1>0, <3>1 DEF LoadSheet, Escape, Over
  <2>2. CASE pc # "load"
    BY <1>0, <2>2 DEF EmittedInv
  <2>3. QED
    BY <2>1, <2>2
<1>3. CASE record' = record
  BY <1>1, <1>2, <1>3 DEF EmittedInv
<1>4. CASE record' # record
  <2>1. pc = "finish" /\ pc' = "ended" /\ UNCHANGED txnVars
        /\ record' = Emitted(IF state \in TerminalStates THEN state
                                                         ELSE "indeterminate")
    BY <1>0, <1>4, ExecutorTellsTruth
  <2>2. UNCHANGED run
    BY <2>1 DEF Executor, LoadSheet, BindInvocation, AcquireLease, EnsureConsole,
       CheckRecovery, PassGates, ReadDomain, SetupStep, SetupDone, PreOracle,
       PrepareContext, PrepareTxn, ArmTxn, Classify, Cross, Perform, GesturesDone,
       BindEnvelope, Converge, CleanupStep, Requery, Finish
  <2>3. ChannelsPermit(capability')
    BY <1>0, <2>1 DEF EmittedInv, Over
  <2>4. Emitted(IF state \in TerminalStates THEN state ELSE "indeterminate")'
          = Emitted(IF state \in TerminalStates THEN state ELSE "indeterminate")
    <3>1. PICK v : v = IF state \in TerminalStates THEN state ELSE "indeterminate"
      OBVIOUS
    <3>2. Emitted(v)' = Emitted(v)
      BY <1>0, <2>1, <2>2, EmittedStays DEF txnVars
    <3>3. (IF state \in TerminalStates THEN state ELSE "indeterminate")' = v
      BY <2>1, <3>1 DEF txnVars
    <3>4. QED
      BY <3>1, <3>2, <3>3
  <2>5. QED
    BY <1>2, <2>1, <2>3, <2>4 DEF EmittedInv, Over
<1>5. QED
  BY <1>3, <1>4

\* Nothing else touches the locals or the record.
LEMMA OthersKeepRecord ==
    ASSUME ExecInv, ManifestInv, EmittedInv,
           Surroundings \/ ProcessEnds \/ UNCHANGED execVars
    PROVE  ManifestInv' /\ EmittedInv'
<1>1. /\ UNCHANGED <<capability, caller, todo, run, record>>
      /\ UNCHANGED <<state, stopReason, characterized>>
      /\ pc' = pc \/ pc' = "exited"
  BY DEF Surroundings, ProcessEnds, execVars, ctlVars, txnVars
<1>2. ManifestInv'
  BY <1>1 DEF ManifestInv, BeforeSetup, BeforeLease, SetUp, Attempting
<1>3. PICK v : v = IF state \in TerminalStates THEN state ELSE "indeterminate"
  OBVIOUS
<1>4. Emitted(v)' = Emitted(v)
  BY <1>1, EmittedStays
<1>5. (IF state \in TerminalStates THEN state ELSE "indeterminate")' = v
  BY <1>1, <1>3
<1>6. Emitted(IF state \in TerminalStates THEN state ELSE "indeterminate")'
        = Emitted(IF state \in TerminalStates THEN state ELSE "indeterminate")
  BY <1>3, <1>4, <1>5
<1>7. QED
  BY <1>1, <1>2, <1>6 DEF EmittedInv, ChannelsPermit, Over

---------------------------------------------------------------------------
\* A record of those locals is accepted, part by part.

\* The indices up to i are counted by i.
LEMMA Counting ==
    ASSUME NEW n \in Nat, NEW i \in 1..n
    PROVE  /\ Cardinality({j \in 1..n : j <= i}) = i
           /\ Cardinality(1..n) = n
<1>1. {j \in 1..n : j <= i} = 1..i
  OBVIOUS
<1>2. \A m \in Nat : Cardinality(1..m) = m
  <2>1. ASSUME NEW m \in Nat PROVE Cardinality(1..m) = m
    <3>1. Cardinality(1..m) = IF 1 > m THEN 0 ELSE m - 1 + 1
      BY FS_Interval
    <3>2. QED
      BY <3>1
  <2>2. QED
    BY <2>1
<1>3. i \in Nat
  OBVIOUS
<1>4. Cardinality(1..i) = i /\ Cardinality(1..n) = n
  BY <1>2, <1>3
<1>5. QED
  BY <1>1, <1>4, Zenon

\* A phase of scripts only is its own scripts.
LEMMA ScriptsOnly ==
    ASSUME NEW steps \in Seq(Steps),
           \A i \in 1..Len(steps) : steps[i].kind = "guest"
    PROVE  ScriptsOf(steps) = steps
<1>1. PICK n \in Nat : n = Len(steps)
  OBVIOUS
<1>2. {i \in 1..Len(steps) : steps[i].kind = "guest"} = 1..n
  BY <1>1
<1>3. ASSUME NEW k \in 1..n
      PROVE  (CHOOSE i \in 1..n : Cardinality({j \in 1..n : j <= i}) = k) = k
  <2>1. \A i \in 1..n : Cardinality({j \in 1..n : j <= i}) = i
    BY Counting
  <2>2. QED
    BY <2>1
<1>4. 1..Cardinality(1..n) = 1..n
  <2>1. CASE n = 0
    BY <2>1, FS_EmptySet
  <2>2. CASE n # 0
    BY <2>2, Counting
  <2>3. QED
    BY <2>1, <2>2
<1>5. ScriptsOf(steps) =
        [k \in 1..n |->
           steps[CHOOSE i \in 1..n : Cardinality({j \in 1..n : j <= i}) = k]]
  <2>1. ScriptsOf(steps) = At(steps, 1..n)
    BY <1>2 DEF ScriptsOf
  <2>2. QED
    BY <1>4, <2>1, Zenon DEF At
<1>6. ScriptsOf(steps) = [k \in 1..n |-> steps[k]]
  BY <1>3, <1>5
<1>7. steps = [k \in 1..n |-> steps[k]]
  BY <1>1
<1>8. QED
  BY <1>6, <1>7

LEMMA EnvelopeIsValid ==
    ASSUME run.assertion \in Asserted, NEW v, NEW version \in {1, 3},
           run.assertion = "none" => v = "indeterminate"
    PROVE  ValidEnvelope(EnvelopeResult, version, v)
<1>1. CASE run.assertion = "none"
  BY <1>1 DEF EnvelopeResult, ValidEnvelope
<1>2. CASE run.assertion # "none"
  <2>1. /\ DOMAIN EnvelopeResult =
              {"status", "characterization", "satisfied", "violated", "unresolved",
               "unclassified", "delta"}
        /\ EnvelopeResult.status = run.assertion
        /\ \/ EnvelopeResult.delta = <<>>
           \/ EnvelopeResult.delta = <<[key |-> "fact", kind |-> "changed",
                                        before |-> None, after |-> None]>>
    BY <1>2 DEF EnvelopeResult
  <2>2. ValidDelta(EnvelopeResult.delta)
    BY <2>1 DEF ValidDelta, Keys, DeltaKinds
  <2>3. EnvelopeResult.status \in EnvelopeStatuses
    BY <1>2, <2>1 DEF Asserted, EnvelopeStatuses
  <2>4. Keys(EnvelopeResult, {"status", "satisfied", "violated", "unclassified",
                 "characterization"} \cup {"unresolved", "delta"},
                {"status", "satisfied", "violated", "unclassified",
                 "characterization"} \cup {"unresolved", "delta"})
    BY <2>1 DEF Keys
  <2>5. version # 0
    OBVIOUS
  <2>6. QED
    BY <2>2, <2>3, <2>4, <2>5 DEF ValidEnvelope
<1>3. QED
  BY <1>1, <1>2

\* The events recorded are transitions of the machine, numbered from 1.
LEMMA EventsAreValid ==
    ASSUME TxnInv, run.events \in Seq(TransitionEvent), Accounted
    PROVE  ValidEvents(RecordedEvents)
<1>1. PICK n \in Nat : n = Len(run.events)
  OBVIOUS
<1>2. ASSUME NEW i \in 1..n
      PROVE  /\ run.events[i].sequence >= 1
             /\ run.events[i].from_state \in EventStates \cup {"fresh"}
             /\ run.events[i].to_state \in EventStates
  <2>1. events \in Seq(TransitionEvent) /\ AuditTrail /\ EveryEventIsAnEdge
    BY DEF TxnInv, TxnTypeOK
  <2>2. i \in 1..Len(events) /\ run.events[i] = events[i]
    <3>1. CASE run.events = events
      BY <1>1, <3>1
    <3>2. CASE events = Append(run.events, Last(events))
      <4>1. PICK last : events = Append(run.events, last)
        BY <3>2
      <4>2. Len(events) = n + 1 /\ events[i] = run.events[i]
        BY <1>1, <2>1, <4>1
      <4>3. QED
        BY <4>2
    <3>3. QED
      BY <3>1, <3>2 DEF Accounted
  <2>3. events[i].sequence = i /\ Edge(events[i].from_state, events[i].to_state)
    BY <2>1, <2>2 DEF AuditTrail, EveryEventIsAnEdge
  <2>4. QED
    BY <2>2, <2>3 DEF Edge, EventStates, RecordStates, LiveStates
<1>3. Len(RecordedEvents) = n
  BY <1>1 DEF RecordedEvents
<1>4. ASSUME NEW i \in 1..n
      PROVE  /\ DOMAIN RecordedEvents[i]
                  = {"sequence", "from_state", "to_state", "reason"}
             /\ RecordedEvents[i].sequence >= 1
             /\ RecordedEvents[i].from_state \in EventStates \cup {None}
             /\ RecordedEvents[i].to_state \in EventStates
  BY <1>1, <1>2 DEF RecordedEvents
<1>5. QED
  BY <1>3, <1>4 DEF ValidEvents, Keys

LEMMA InvocationIsValid ==
    ASSUME run.manifest \in Seq(Steps)
    PROVE  /\ ValidInvocation(Invocation)
           /\ [i \in 1..Len(Invocation.setup_manifest) |->
                  Invocation.setup_manifest[i].script] = run.manifest
           /\ Invocation.run_sheet_sha256 = Digest(SheetDocument(run.bound))
<1>1. PICK n \in Nat : n = Len(run.manifest)
  OBVIOUS
<1>2. /\ DOMAIN Invocation = {"arguments", "arguments_sha256", "run_sheet_sha256",
                              "setup_manifest"}
      /\ Invocation.arguments_sha256 = Digest(Invocation.arguments)
      /\ Invocation.run_sheet_sha256 = Digest(SheetDocument(run.bound))
      /\ Invocation.setup_manifest =
            [i \in 1..n |-> [script        |-> run.manifest[i],
                             stdout_lines  |-> "stdout",
                             stdout_sha256 |-> Digest("stdout")]]
  BY <1>1 DEF Invocation
<1>3. Len(Invocation.setup_manifest) = n
  BY <1>2
<1>4. ASSUME NEW i \in 1..n
      PROVE  /\ DOMAIN Invocation.setup_manifest[i]
                  = {"script", "stdout_lines", "stdout_sha256"}
             /\ Invocation.setup_manifest[i].script = run.manifest[i]
             /\ Invocation.setup_manifest[i].stdout_sha256
                  = Digest(Invocation.setup_manifest[i].stdout_lines)
  BY <1>2
<1>5. ValidInvocation(Invocation)
  BY <1>2, <1>3, <1>4 DEF ValidInvocation, Keys
<1>6. [i \in 1..Len(Invocation.setup_manifest) |-> Invocation.setup_manifest[i].script]
        = [i \in 1..n |-> run.manifest[i]]
  BY <1>3, <1>4
<1>7. run.manifest = [i \in 1..n |-> run.manifest[i]]
  BY <1>1
<1>8. QED
  BY <1>2, <1>5, <1>6, <1>7

LEMMA ProvenanceIsValid ==
    ASSUME run.manifest \in Seq(Steps), capability \in Capabilities,
           caller \in {"cli", "library"}
    PROVE  \E version \in StampedAs(Provenance, FALSE) :
              /\ version = IF caller = "cli" THEN 3 ELSE 1
              /\ ValidProvenance(Provenance, version)
<1>1. CASE caller = "library"
  <2>1. /\ DOMAIN Provenance = BaseKeys \cup StampKeys
        /\ Provenance.schema = <<"transaction-record-schema", 1>>
        /\ Provenance.schema_version = 1
    BY <1>1 DEF Provenance, BaseKeys, StampKeys
  <2>2. 1 \in StampedAs(Provenance, FALSE)
    BY <2>1 DEF StampedAs
  <2>3. ValidProvenance(Provenance, 1)
    BY <2>1 DEF ValidProvenance, Keys
  <2>4. QED
    BY <1>1, <2>2, <2>3
<1>2. CASE caller = "cli"
  <2>1. /\ DOMAIN Provenance =
              BaseKeys \cup StampKeys \cup BindingKeys \cup {"invocation"}
        /\ Provenance.schema = <<"transaction-record-schema", 3>>
        /\ Provenance.schema_version = 3
        /\ Provenance.capability_revision = capability.revision
        /\ Provenance.invocation = Invocation
    BY <1>2 DEF Provenance, Joined, BaseKeys, StampKeys, BindingKeys
  <2>2. 3 \in StampedAs(Provenance, FALSE)
    BY <2>1 DEF StampedAs, StampKeys
  <2>3. Provenance.capability_revision >= 1
    BY <2>1, CapabilityShape
  <2>4. ValidProvenance(Provenance, 3)
    BY <2>1, <2>3, InvocationIsValid DEF ValidProvenance, Keys
  <2>5. QED
    BY <1>2, <2>2, <2>4
<1>3. QED
  BY <1>1, <1>2

LEMMA ProvenanceBinds ==
    ASSUME run.manifest \in Seq(Steps), capability \in Capabilities, caller = "cli",
           ChannelsPermit(capability), ManifestInv, NEW v,
           v \in {"verified", "disproven"} => v = state
    PROVE  /\ BindsCapability(Provenance, CapabilityText)
           /\ sheetFile = run.bound =>
                 BindsRunSheet(Provenance, SheetDocument(sheetFile), v)
<1>1. /\ Provenance.capability_sha256 = Digest(CapabilityText)
      /\ Provenance.capability_revision = capability.revision
      /\ Provenance.run_sheet = "sheet"
      /\ Provenance.invocation = Invocation
  BY DEF Provenance, Joined
<1>2. BindsCapability(Provenance, CapabilityText)
  BY <1>1 DEF BindsCapability, CapabilityText
<1>3. ASSUME sheetFile = run.bound
      PROVE  BindsRunSheet(Provenance, SheetDocument(sheetFile), v)
  <2>1. PICK n \in Nat, m \in Nat : n = Len(capability.setup) /\ m = Len(run.manifest)
    BY CapabilitySteps
  <2>2. /\ run.manifest \in Seq(Steps) /\ capability.setup \in Seq(Steps)
        /\ m <= n /\ \A i \in 1..m : run.manifest[i] = capability.setup[i]
        /\ v \in {"verified", "disproven"} => m = n
    BY <2>1, CapabilitySteps DEF ManifestInv
  <2>3. v \in {"verified", "disproven"} => run.manifest = capability.setup
    BY <2>1, <2>2
  <2>4. IsPrefix(run.manifest, capability.setup)
    <3>1. SubSeq(run.manifest, 1, m) = SubSeq(capability.setup, 1, m)
      BY <2>1, <2>2
    <3>2. QED
      BY <2>1, <2>2, <3>1 DEF IsPrefix
  <2>5. ScriptsOf(SheetDocument(sheetFile).setup) = capability.setup
    BY ScriptsOnly, CapabilitySteps DEF SheetDocument, ChannelsPermit
  <2>6. SheetDocument(sheetFile).name = "sheet"
    BY DEF SheetDocument
  <2>7. QED
    BY <1>1, <1>3, <2>3, <2>4, <2>5, <2>6, InvocationIsValid DEF BindsRunSheet
<1>4. QED
  BY <1>2, <1>3

\* Every record is accepted, in whatever state it is read afterwards.
LEMMA RecordIsAccepted ==
    ASSUME ExecInv, ManifestInv, EmittedInv PROVE RecordAccepted
<1> SUFFICES ASSUME record # NoRecord
             PROVE  Accepts(record, FALSE,
                            IF caller = "cli" THEN CapabilityText ELSE None,
                            IF caller = "cli" /\ sheetFile = run.bound
                              THEN SheetDocument(sheetFile) ELSE None)
  BY DEF RecordAccepted, ExecInv, ExecTypeOK
<1>1. PICK v : v = IF state \in TerminalStates THEN state ELSE "indeterminate"
  OBVIOUS
<1>2. /\ record = Emitted(v) /\ ChannelsPermit(capability)
      /\ run.assertion \in Asserted
      /\ run.manifest \in Seq(Steps) /\ capability \in Capabilities
      /\ caller \in {"cli", "library"}
      /\ TxnInv /\ run.events \in Seq(TransitionEvent) /\ Accounted /\ Explained
  BY <1>1 DEF EmittedInv, ExecInv, ExecTypeOK, RunOK
<1>3. /\ record.state = v /\ record.envelope_result = EnvelopeResult
      /\ record.events = RecordedEvents /\ record.provenance = Provenance
      /\ Keys(record, TopLevelKeys, TopLevelKeys)
  BY <1>2 DEF Emitted, Keys, TopLevelKeys
<1>4. /\ v \in RecordStates
      /\ v \in {"verified", "disproven"} => v = state
      /\ run.assertion = "none" => v = "indeterminate"
  BY <1>1, <1>2 DEF TerminalStates, RecordStates, Explained
<1>5. PICK version \in StampedAs(Provenance, FALSE) :
         /\ version = IF caller = "cli" THEN 3 ELSE 1
         /\ ValidProvenance(Provenance, version)
  BY <1>2, ProvenanceIsValid
<1>6. ValidEnvelope(EnvelopeResult, version, v)
  BY <1>2, <1>4, <1>5, EnvelopeIsValid
<1>7. ValidEvents(RecordedEvents)
  BY <1>2, EventsAreValid
<1>8. CASE caller = "cli"
  <2>1. /\ BindsCapability(Provenance, CapabilityText)
        /\ sheetFile = run.bound =>
              BindsRunSheet(Provenance, SheetDocument(sheetFile), v)
    BY <1>2, <1>4, <1>8, ProvenanceBinds
  <2>2. QED
    BY <1>3, <1>4, <1>5, <1>6, <1>7, <1>8, <2>1 DEF Accepts
<1>9. CASE caller # "cli"
  BY <1>3, <1>4, <1>5, <1>6, <1>7, <1>9 DEF Accepts
<1>10. QED
  BY <1>8, <1>9

LEMMA RecordInvariance == ExecSpec => [](ExecInv /\ ManifestInv /\ EmittedInv)
<1>1. ExecInit => ManifestInv /\ EmittedInv
  BY CapabilitySteps
  DEF ExecInit, RunInit, ManifestInv, EmittedInv, Asserted, BeforeSetup, BeforeLease,
      SetUp, Attempting, TxnInit
<1>2. ASSUME ExecInv, ExecInv', ManifestInv, EmittedInv, [ExecNext]_execVars
      PROVE  ManifestInv' /\ EmittedInv'
  <2>1. CASE Executor
    <3>1. TxnTypeOK' /\ StateAt' /\ run.assertion \in Asserted
      BY <1>2 DEF ExecInv, TxnInv, EmittedInv
    <3>2. ManifestInv' /\ run'.assertion \in Asserted
      BY <1>2, <2>1, <3>1, ExecutorKeepsManifest
    <3>3. QED
      BY <1>2, <2>1, <3>2, ExecutorKeepsEmitted
  <2>2. CASE Surroundings \/ ProcessEnds \/ UNCHANGED execVars
    BY <1>2, <2>2, OthersKeepRecord
  <2>3. QED
    BY <1>2, <2>1, <2>2 DEF ExecNext
<1>3. QED
  BY <1>1, <1>2, ExecInvariance, PTL DEF ExecSpec

\* validate_record accepts what the executor returns, whatever failed, whoever
\* called, and against the text and the sheet it claims to bind.
THEOREM RecordsAreAccepted == ExecSpec => []RecordAccepted
  BY RecordInvariance, RecordIsAccepted, PTL

---------------------------------------------------------------------------
\* Exit code 2 is given only while nothing was touched.

Untouched ==
    /\ world.touched = {} /\ ~world.own /\ queue = <<>> /\ late = {}
    /\ state = "fresh"

\* Nothing is touched before setup, and a refusal is not given after it.
UntouchedInv ==
    /\ pc \in BeforeSetup => Untouched
    /\ ended = "refused" => pc \in Over /\ (capability.binds => Untouched)

\* The command line's invocation digests an edition the file really had.
BoundInv ==
    /\ caller = "cli" /\ pc \notin {"load", "bind"} \cup Over =>
          run.bound \in 0..sheetFile
    /\ caller = "cli" /\ record # NoRecord => run.bound \in 0..sheetFile
    /\ ended = "returned" => record # NoRecord

LEMMA ExecutorKeepsUntouched ==
    ASSUME ExecInv, UntouchedInv, Executor PROVE UntouchedInv'
<1> USE DEF Goto, Enter, Escape, AbortAndCleanUp, AbortAndFinish, UntouchedInv,
            Untouched, BeforeSetup, BeforeLease, Over, estateVars, txnVars
<1>0. ended = "no" /\ UNCHANGED capability
  <2>1. pc \notin Over
    BY ExecStepIsTxnStep, NextInv, ExecutorAccounts
    DEF ExecNext, ExecInv, TxnInv
  <2>2. QED
    BY <2>1 DEF ExecInv, JournalInv, Executor
<1>1. CASE LoadSheet \/ BindInvocation \/ AcquireLease \/ EnsureConsole
             \/ CheckRecovery \/ PassGates
  BY <1>0, <1>1 DEF LoadSheet, BindInvocation, AcquireLease, EnsureConsole,
     CheckRecovery, PassGates, Refusal
<1>2. CASE ReadDomain \/ SetupStep \/ SetupDone \/ PreOracle \/ PrepareContext
  BY <1>0, <1>2 DEF ReadDomain, SetupStep, SetupDone, PreOracle, PrepareContext
<1>3. CASE PrepareTxn \/ ArmTxn \/ Classify \/ Perform \/ GesturesDone \/ Cross
  BY <1>0, <1>3 DEF PrepareTxn, ArmTxn, Classify, Perform, NextStep, GesturesDone,
     Cross, Crossed
<1>4. CASE BindEnvelope
  BY <1>0, <1>4 DEF BindEnvelope
<1>5. CASE Converge \/ CleanupStep \/ Requery \/ Finish
  BY <1>0, <1>5 DEF Converge, CleanupStep, Requery, Finish
<1>6. QED
  BY <1>1, <1>2, <1>3, <1>4, <1>5 DEF Executor

LEMMA ExecutorKeepsBound ==
    ASSUME ExecInv, BoundInv, Executor PROVE BoundInv'
<1> USE DEF Goto, Enter, Escape, AbortAndCleanUp, AbortAndFinish, BoundInv, Over
<1>0. /\ ended = "no" /\ record = NoRecord /\ UNCHANGED <<caller, sheetFile>>
      /\ pc \notin Over /\ DOMAIN run = RunKeys /\ sheetFile \in Nat
      /\ NoRecord.state = "none" /\ \A v : Emitted(v).state = v
  <2>1. pc \notin Over
    BY ExecStepIsTxnStep, NextInv, ExecutorAccounts
    DEF ExecNext, ExecInv, TxnInv
  <2>2. QED
    BY <2>1, EmittedRecord, BoundsAssumption
    DEF ExecInv, JournalInv, Executor, ExecTypeOK, RunOK, envVars, NoRecord
<1>1. CASE LoadSheet \/ BindInvocation
  BY <1>0, <1>1 DEF LoadSheet, BindInvocation, RunKeys
<1>2. CASE Finish
  <2>1. PICK v \in TerminalStates : record' = Emitted(v)
    BY <1>2 DEF Finish, TerminalStates
  <2>2. record' # NoRecord
    BY <1>0, <2>1 DEF TerminalStates
  <2>3. UNCHANGED run /\ pc = "finish" /\ pc' = "ended"
    BY <1>2 DEF Finish
  <2>4. QED
    BY <1>0, <2>2, <2>3
<1>3. ASSUME run'.bound = run.bound, pc \notin {"load", "bind"}, record' = record,
             ended' # "returned"
      PROVE  BoundInv'
  BY <1>0, <1>3
<1>4. CASE AcquireLease \/ EnsureConsole \/ CheckRecovery \/ PassGates \/ ReadDomain
  <2>1. run'.bound = run.bound
    BY <1>0, <1>4 DEF AcquireLease, EnsureConsole, CheckRecovery, PassGates, Refusal,
       ReadDomain, AbortIndeterminate, RunKeys
  <2>2. QED
    BY <1>0, <1>3, <1>4, <2>1 DEF AcquireLease, EnsureConsole, CheckRecovery,
       PassGates, Refusal, ReadDomain
<1>5. CASE SetupStep \/ SetupDone \/ PreOracle \/ PrepareContext
  <2>1. run'.bound = run.bound
    BY <1>0, <1>5 DEF SetupStep, SetupDone, PreOracle, PrepareContext,
       AbortIndeterminate, RunKeys
  <2>2. QED
    BY <1>0, <1>3, <1>5, <2>1 DEF SetupStep, SetupDone, PreOracle, PrepareContext
<1>6. CASE PrepareTxn \/ ArmTxn \/ Classify \/ Perform \/ GesturesDone \/ BindEnvelope
  <2>1. run'.bound = run.bound
    BY <1>0, <1>6 DEF PrepareTxn, ArmTxn, Recorded, Classify, Perform, NextStep,
       GesturesDone, BindEnvelope, AbortIndeterminate, RunKeys
  <2>2. QED
    BY <1>0, <1>3, <1>6, <2>1 DEF PrepareTxn, ArmTxn, Classify, Perform, NextStep,
       GesturesDone, BindEnvelope
<1>7. CASE Cross \/ Converge
  <2>1. run'.bound = run.bound
    BY <1>0, <1>7 DEF Cross, Converge, Recorded, AbortIndeterminate, RunKeys
  <2>2. QED
    BY <1>0, <1>3, <1>7, <2>1 DEF Cross, Crossed, NextStep, Converge
<1>8. CASE CleanupStep \/ Requery
  <2>1. run'.bound = run.bound
    BY <1>0, <1>8 DEF CleanupStep, Requery, RunKeys
  <2>2. QED
    BY <1>0, <1>3, <1>8, <2>1 DEF CleanupStep, Requery
<1>9. QED
  BY <1>1, <1>2, <1>4, <1>5, <1>6, <1>7, <1>8 DEF Executor

\* What runs around the executor finds nothing pending, so it touches nothing.
LEMMA OthersKeepUntouched ==
    ASSUME ExecInv, UntouchedInv, BoundInv,
           Surroundings \/ ProcessEnds \/ UNCHANGED execVars
    PROVE  /\ UntouchedInv' /\ BoundInv' /\ (Untouched => Untouched')
           /\ sheetFile' = 0 => sheetFile = 0
<1>1. /\ UNCHANGED <<capability, caller, run, record, state>>
      /\ \/ pc' = pc /\ ended' = ended
         \/ pc' = "exited" /\ (ended' = ended \/ ended' = "killed")
  BY DEF Surroundings, ProcessEnds, execVars, ctlVars, txnVars
<1>2. UNCHANGED <<world, queue, late>> \/ queue # <<>> \/ late # {}
  BY DEF Surroundings, ProcessEnds, execVars, estateVars, SwitchSession, EditSheet,
     OtherProcess, ReplFinishes, HelperActs
<1>3. sheetFile \in Nat /\ sheetFile' \in {sheetFile, sheetFile + 1}
  BY BoundsAssumption
  DEF Surroundings, ProcessEnds, execVars, envVars, SwitchSession, EditSheet,
      OtherProcess, ReplFinishes, HelperActs, ExecInv, ExecTypeOK
<1>4. Untouched => Untouched'
  BY <1>1, <1>2 DEF Untouched
<1>5. 0..sheetFile \subseteq 0..sheetFile'
  BY <1>3
<1>6. BoundInv'
  BY <1>1, <1>5 DEF BoundInv, Over
<1>7. UntouchedInv'
  BY <1>1, <1>4 DEF UntouchedInv, Over, BeforeSetup, BeforeLease
<1>8. QED
  BY <1>3, <1>4, <1>6, <1>7

LEMMA ReturnInvariance == ExecSpec => [](UntouchedInv /\ BoundInv)
<1>1. ExecInit => UntouchedInv /\ BoundInv
  BY DEF ExecInit, TxnInit, UntouchedInv, Untouched, BoundInv, BeforeSetup,
     BeforeLease, Over
<1>2. ASSUME ExecInv, UntouchedInv, BoundInv, [ExecNext]_execVars
      PROVE  UntouchedInv' /\ BoundInv'
  BY <1>2, ExecutorKeepsUntouched, ExecutorKeepsBound, OthersKeepUntouched
  DEF ExecNext
<1>3. QED
  BY <1>1, <1>2, ExecInvariance, PTL DEF ExecSpec

\* The exit code is given once, at the end.
ExitInv ==
    exit = 2 => /\ cli = "done" /\ pc \in Over
                /\ capability.binds /\ sheetFile = 0 => Untouched

LEMMA ReportKeepsExit ==
    ASSUME ExecInv, RecordAccepted, UntouchedInv, BoundInv, Report
    PROVE  ExitInv'
<1> SUFFICES ASSUME exit' = 2, capability.binds, sheetFile = 0 PROVE Untouched
  BY DEF Report, ExitInv, Over, execVars, ctlVars, estateVars, envVars, txnVars,
     Untouched
<1>1. caller = "cli" /\ pc = "ended" /\ ExitCode(2)
  BY DEF Report
<1>2. CASE ended = "refused"
  BY <1>2 DEF UntouchedInv
<1>3. CASE ended # "refused"
  <2>1. /\ ended = "returned"
        /\ ~Accepts(record, FALSE, CapabilityText, SheetDocument(sheetFile))
    <3>1. 2 # 0 /\ 2 # 1
      OBVIOUS
    <3>2. /\ ended = "returned"
          /\ 2 = IF Accepts(record, FALSE, CapabilityText, SheetDocument(sheetFile))
                  THEN 0 ELSE 2
      BY <1>1, <1>3, <3>1, Zenon DEF ExitCode
    <3>3. QED
      BY <3>1, <3>2, Zenon
  <2>2. record # NoRecord /\ sheetFile = run.bound
    BY <1>1, <2>1 DEF BoundInv
  <2>3. QED
    BY <1>1, <2>1, <2>2 DEF RecordAccepted
<1>4. QED
  BY <1>2, <1>3

\* Whoever reads exit code 2 finds the estate as it was and nothing pending.
THEOREM ExitTwoIsARefusal == FairCliSpec => []ExitTwoMeansUntouched
<1>1. CliInit => ExitInv
  BY NoneIsNoCode DEF CliInit, ExitInv
<1>2. ASSUME ExecInv, RecordAccepted, UntouchedInv, BoundInv, ExitInv,
             [CliNext]_allVars
      PROVE  ExitInv'
  <2>1. CASE ReadPlan \/ TransportWillNotStart \/ Invoke
    BY <2>1, <1>2 DEF ReadPlan, TransportWillNotStart, EndsEarly, Invoke, Reading,
       cliVars, ExitInv
  <2>2. CASE RefusePlan
    <3>1. pc = "load" /\ Untouched /\ Untouched' /\ pc' = "ended" /\ cli' = "done"
      BY <2>2, <1>2 DEF RefusePlan, EndsEarly, Reading, UntouchedInv, BeforeSetup,
         BeforeLease, Untouched, estateVars, txnVars
    <3>2. QED
      BY <3>1 DEF ExitInv, Over
  <2>3. CASE Report
    BY <1>2, <2>3, ReportKeepsExit
  <2>4. CASE \/ (Surroundings \/ ProcessEnds) /\ UNCHANGED cliVars
             \/ UNCHANGED allVars
    <3>1. /\ UNCHANGED <<exit, cli, capability>> /\ (pc \in Over => pc' \in Over)
      BY <2>4 DEF allVars, cliVars, execVars, ctlVars, Surroundings, ProcessEnds, Over
    <3>2. (Untouched => Untouched') /\ (sheetFile' = 0 => sheetFile = 0)
      BY <1>2, <2>4, OthersKeepUntouched DEF allVars
    <3>3. QED
      BY <1>2, <3>1, <3>2 DEF ExitInv
  <2>5. QED
    BY <1>2, <2>1, <2>2, <2>3, <2>4 DEF CliNext, ProcessReturns, ProcessDies
<1>3. ExitInv => ExitTwoMeansUntouched
  BY DEF ExitInv, ExitTwoMeansUntouched, Untouched
<1>4. FairCliSpec => CliSpec
  BY PTL DEF FairCliSpec
<1>5. QED
  BY <1>1, <1>2, <1>3, <1>4, CommandLineDrivesExecutor, ExecInvariance,
     RecordsAreAccepted, ReturnInvariance, PTL DEF CliSpec
=============================================================================
