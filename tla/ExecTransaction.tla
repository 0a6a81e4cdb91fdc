--------------------------- MODULE ExecTransaction ---------------------------
(***************************************************************************)
(* execute_transaction of src/src/wcd/exec_transaction.py: one capability  *)
(* invocation end to end, from the console lease to the emitted record, on *)
(* top of the state machine of module Transaction.  Every call that can    *)
(* fail fails here in each way the code tells apart: a script that throws, *)
(* a call that times out while the serial transport goes on running it, an *)
(* error envelope from the helper, and a TransportError, which escapes     *)
(* wherever the code does not catch it.                                    *)
(*                                                                         *)
(* Around the executor run: the interactive context, which may change; the *)
(* run sheet's file, which may be edited; a competing process, which takes *)
(* the lease whenever it is free; the transport, which finishes abandoned  *)
(* scripts later; and the end of the process, at any time.                 *)
(***************************************************************************)
EXTENDS Transaction, RecordSchema, ConvergeOutcomes

CONSTANTS
    Capabilities,      \* what may be invoked: records, see CapabilityShape
    Classification,    \* the profile: declared action name -> class
    NoName,            \* a step without a profile_action or a boundary
    Contexts,          \* interactive contexts the console may be in
    Foregrounds,       \* windows the helper may find in the foreground
    MaxSwitches,       \* bound on the changes of context in one run
    MaxEdits           \* bound on the edits of the run sheet's file

Classes == {"orientation_only", "reversible_pre_commit",
            "potentially_mutating", "commit_point"}

\* What a step's call does to the estate when it runs: nothing to it, create
\* the evidence GPO, remove it by name or by the GUID setup captured, or
\* operate the surface under test.
Deeds == {"none", "create", "remove_by_name", "remove_owned", "operate"}

Steps == [kind     : {"guest", "helper", "commit"},
          does     : Deeds,
          action   : DOMAIN Classification \cup {NoName, "unlisted"},
          boundary : DOMAIN Classification \cup {NoName, "unlisted"}]

\* The surface under test is operated in the gesture phase only: the scripts of
\* setup and cleanup prepare for it and tidy up.  The helper injects input and
\* reads windows; what creates and removes the evidence GPO are scripts.
ASSUME CapabilityShape ==
    \A c \in Capabilities :
        /\ c.setup \in Seq(Steps) /\ c.gesture \in Seq(Steps)
        /\ c.cleanup \in Seq(Steps)
        /\ \A i \in 1..Len(c.setup)   : c.setup[i].does # "operate"
        /\ \A i \in 1..Len(c.cleanup) : c.cleanup[i].does # "operate"
        /\ \A i \in 1..Len(c.gesture) :
              c.gesture[i].kind = "helper" => c.gesture[i].does \in {"none", "operate"}
        /\ c.gpo \in BOOLEAN           \* gpo_transaction
        /\ c.gated \in BOOLEAN         \* the profile banks a baseline
        /\ c.binds \in BOOLEAN         \* every args[...] of its envelope is given
        /\ c.revision \in Nat \ {0}

ASSUME BoundsAssumption == MaxSwitches \in Nat /\ MaxEdits \in Nat

ASSUME ContextShape ==
    \A c \in Contexts :
        DOMAIN c = {"session_id", "user", "desktop", "foreground", "ui_language"}

ASSUME ClassificationShape ==
    /\ NoName \notin DOMAIN Classification
    /\ \A a \in DOMAIN Classification : Classification[a] \in Classes

VARIABLES
    capability,   \* the invocation's capability document (fixed)
    caller,       \* "cli", which hands over the capability's text, or "library"
    pc, todo,     \* where the executor is, and the steps its phase still has
    run,          \* its local variables, see RunInit
    record,       \* the record returned, or NoRecord
    ended,        \* how execute_transaction ended
    lease,        \* the console lease: "free", "mine" or "other"
    world,        \* the estate: the GPOs and the surface
    queue,        \* deeds the transport still runs for calls that timed out
    late,         \* deeds the helper may still do for calls that got an error
    context,      \* the interactive context the helper would report
    switches,
    sheetFile     \* the run sheet's file: how often it was edited

envVars    == <<context, switches, sheetFile>>
estateVars == <<world, queue, late>>
ctlVars    == <<pc, todo, ended, record>>
execVars   == <<capability, caller, ctlVars, run, lease, estateVars, envVars, txnVars>>

NoRecord == [state |-> "none"]

Mutating == {"potentially_mutating", "commit_point"}

Class(name) == IF name \in DOMAIN Classification THEN Classification[name]
                                                 ELSE "undeclared"

RunInit == [sheet      |-> None,        \* the edition load_run_sheet parsed
            bound      |-> None,        \* the edition the invocation digests
            guid       |-> FALSE,       \* setup captured the GPO's GUID
            prepared   |-> None,        \* prepared_context
            events     |-> <<>>,        \* events_out
            manifest   |-> <<>>,        \* setup scripts that answered
            note       |-> FALSE,       \* a "pre-prepare abort" note
            assertion  |-> "none",      \* envelope_result's status
            cleanup    |-> <<>>,        \* the cleanup journal's ok flags
            remaining  |-> "unasked",   \* evidence_gpo_remaining
            began      |-> FALSE,       \* ghost: setup began
            crossedIn  |-> {},          \* ghost: contexts crossings ran in
            undeclared |-> FALSE]       \* ghost: crossed an unlisted boundary

ExecInit ==
    /\ TxnInit
    /\ capability \in Capabilities /\ caller \in {"cli", "library"}
    /\ pc = "load" /\ todo = <<>> /\ ended = "no" /\ record = NoRecord
    /\ run = RunInit
    /\ lease \in {"free", "other"}
    /\ world \in [own : {FALSE}, foreign : BOOLEAN, touched : {{}}]
    /\ queue = <<>> /\ late = {}
    /\ context \in Contexts /\ switches = 0 /\ sheetFile = 0

---------------------------------------------------------------------------
\* Calls through the transport.

\* The effect a step has: operating the surface counts as declared when the
\* step names a profile action of a mutating class.
Effect(step) ==
    IF step.does # "operate" THEN step.does
    ELSE IF Class(step.action) \in Mutating THEN "declared" ELSE "undeclared"

\* gpo_create refuses an existing name, gpo_remove takes whatever GPO has the
\* name, gpo_remove_owned only the GPO this run created.
Done(w, effect) ==
    CASE effect = "create" /\ ~w.foreign -> [w EXCEPT !.own = TRUE]
      [] effect = "remove_by_name" -> [w EXCEPT !.own = FALSE, !.foreign = FALSE]
      [] effect = "remove_owned"   -> [w EXCEPT !.own = FALSE]
      [] effect \in {"declared", "undeclared"} ->
             [w EXCEPT !.touched = @ \cup {effect}]
      [] OTHER -> w

\* The REPL is serial: it answers only when no abandoned script is running.
\* Only creation reports faithfully; a removal reports its own failure as
\* output, and injected input may miss.
Answered(effect) ==
    /\ queue = <<>>
    /\ effect = "create" => ~world.foreign
    /\ world' \in {Done(world, effect)}
                     \cup (IF effect = "create" THEN {} ELSE {world})
    /\ UNCHANGED <<queue, late>>

\* A call that fails: it threw, before or after its effect; or the request was
\* never sent; or it timed out and the transport runs it later.
Failed(effect) ==
    \/ queue = <<>> /\ world' = Done(world, effect) /\ UNCHANGED <<queue, late>>
    \/ UNCHANGED estateVars
    \/ /\ effect # "none"
       /\ queue' = Append(queue, effect)
       /\ UNCHANGED <<world, late>>

\* A gesture answered with an error: it was injected, or not, or the helper, of
\* which an earlier instance's answer was read, still injects it.  The REPL is
\* through with it and answers the next script meanwhile (module HelperSession).
HelperFailed(effect) ==
    \/ queue = <<>> /\ world' = Done(world, effect) /\ UNCHANGED <<queue, late>>
    \/ UNCHANGED estateVars
    \/ /\ queue = <<>> /\ effect # "none"
       /\ late' = late \cup {effect}
       /\ UNCHANGED <<world, queue>>

---------------------------------------------------------------------------
\* The ways out of a phase.

Goto(label) == pc' = label /\ UNCHANGED <<todo, ended, record>>

Enter(label, steps) == pc' = label /\ todo' = steps /\ UNCHANGED <<ended, record>>

\* abort_indeterminate: a live transaction becomes indeterminate, and the
\* reason is noted when there is none yet.  The transition is NOT appended
\* to events_out.
AbortIndeterminate ==
    \/ state \in LiveStates /\ MarkIndeterminate /\ UNCHANGED run
    \/ /\ state \notin LiveStates
       /\ run' = [run EXCEPT !.note = TRUE]
       /\ UNCHANGED txnVars

AbortAndCleanUp == AbortIndeterminate /\ Enter("cleanup", capability.cleanup)

AbortAndFinish == AbortIndeterminate /\ Goto("finish")

\* An exception nobody catches: no record, no cleanup, the lease as it is.
Escape ==
    /\ pc' = "ended" /\ ended' = "escaped"
    /\ UNCHANGED <<todo, record, run, lease, txnVars>>

\* Mutant: the gates raise without releasing the lease first.
RefusalKeepsLease ==
    /\ pc' = "ended" /\ ended' = "refused"
    /\ UNCHANGED <<todo, record, run, lease, txnVars>>

\* A determinate refusal: the lease is released, then ExecTransactionError.
Refusal ==
    /\ pc' = "ended" /\ ended' = "refused"
    /\ lease' = "free"
    /\ UNCHANGED <<todo, record, run, txnVars>>

\* Mutant: every event of the machine is copied each time.
RecordedAll(r) == [r EXCEPT !.events = @ \o events']

\* record_event: the transition just made goes into the record.
Recorded(r) == [r EXCEPT !.events = Append(@, Last(events'))]

---------------------------------------------------------------------------
\* 1. The run sheet; the lease, the console, the recovery checkpoint, the gates.

\* What the file holds after so many edits.  They leave the steps alone here:
\* what else they may do, the digests tell apart.
SheetDocument(edition) ==
    [name |-> "sheet", edition |-> edition, setup |-> capability.setup]

\* validate_channel_contract: setup and cleanup are scripts only.  What else
\* the contract has to list, it may always lack.
ChannelsPermit(c) ==
    /\ \A i \in 1..Len(c.setup) : c.setup[i].kind = "guest"
    /\ \A i \in 1..Len(c.cleanup) : c.cleanup[i].kind = "guest"

\* load_run_sheet, load_profile and the channel contract: before anything
\* moves, a bad document refuses or raises.
LoadSheet ==
    /\ pc = "load"
    /\ \/ /\ ChannelsPermit(capability)
          /\ run' = [run EXCEPT !.sheet = sheetFile]
          /\ Goto("bind") /\ UNCHANGED <<lease, txnVars>>
       \/ /\ pc' = "ended" /\ ended' = "refused"
          /\ UNCHANGED <<todo, record, run, lease, txnVars>>
       \/ Escape
    /\ UNCHANGED estateVars

\* The invocation is bound to the bytes of the file, read once more.
BindInvocation ==
    /\ pc = "bind"
    /\ \/ /\ run' = [run EXCEPT !.bound = IF caller = "cli" THEN sheetFile ELSE @]
          /\ Goto("acquire") /\ UNCHANGED <<lease, txnVars>>
       \/ caller = "cli" /\ Escape
    /\ UNCHANGED estateVars

\* A lease that is held aborts; a lock file that cannot be made or opened raises.
AcquireLease ==
    /\ pc = "acquire"
    /\ \/ /\ lease = "free" /\ lease' = "mine"
          /\ Goto("console")
          /\ UNCHANGED <<run, txnVars>>
       \/ lease = "other" /\ AbortAndFinish /\ UNCHANGED lease
       \/ Escape
    /\ UNCHANGED estateVars

\* wait_console_unlocked: bounded polling; its guest calls are not caught.
EnsureConsole ==
    /\ pc = "console"
    /\ \/ Goto("recovery") /\ UNCHANGED <<run, lease, txnVars>>
       \/ AbortAndFinish /\ UNCHANGED lease
       \/ Escape
    /\ UNCHANGED estateVars

CheckRecovery ==
    /\ pc = "recovery"
    /\ \/ Goto("gates") /\ UNCHANGED <<run, txnVars>>
       \/ AbortAndFinish
    /\ UNCHANGED <<estateVars, lease>>

\* The fingerprint, language and binary-version gates of a profile that banks
\* a baseline: a mismatch and an unreadable baseline both refuse.
PassGates ==
    /\ pc = "gates"
    /\ \/ Goto("domain") /\ UNCHANGED <<run, lease, txnVars>>
       \/ capability.gated /\ (Refusal \/ Escape)
    /\ UNCHANGED estateVars

ReadDomain ==
    /\ pc = "domain"
    /\ \/ /\ Enter("setup", capability.setup)
          /\ run' = [run EXCEPT !.began = TRUE]
          /\ UNCHANGED <<lease, txnVars>>
       \/ Escape
    /\ UNCHANGED estateVars

---------------------------------------------------------------------------
\* 2. Setup, pre-oracle, prepare and arm.

\* Mutant: a failed setup script is skipped and setup goes on.
SetupSkipsFailure ==
    /\ pc = "setup" /\ todo # <<>>
    /\ LET effect == Effect(Head(todo)) IN
       \/ /\ Answered(effect)
          /\ \E captured \in {FALSE, effect = "create"} :
                run' = [run EXCEPT !.manifest = Append(@, Head(todo)),
                                   !.guid = @ \/ captured]
          /\ Enter("setup", Tail(todo))
          /\ UNCHANGED txnVars
       \/ Failed(effect) /\ Enter("setup", Tail(todo)) /\ UNCHANGED <<run, txnVars>>
    /\ UNCHANGED lease

\* One setup script.  Only an answer gives the GUID, if it has the line and the
\* step captures it, and a malformed one fails the step; whatever a failed or
\* timed-out creation made, the executor does not know its GUID.
SetupStep ==
    /\ pc = "setup" /\ todo # <<>>
    /\ LET effect == Effect(Head(todo)) IN
       \/ /\ Answered(effect)
          /\ \E captured \in {FALSE, effect = "create"} :
                run' = [run EXCEPT !.manifest = Append(@, Head(todo)),
                                   !.guid = @ \/ captured]
          /\ Enter("setup", Tail(todo))
          /\ UNCHANGED txnVars
       \/ /\ effect = "create" /\ Answered(effect)
          /\ run' = [run EXCEPT !.manifest = Append(@, Head(todo)), !.note = TRUE]
          /\ Enter("cleanup", capability.cleanup)
          /\ UNCHANGED txnVars
       \/ Failed(effect) /\ AbortAndCleanUp
    /\ UNCHANGED lease

SetupDone ==
    /\ pc = "setup" /\ todo = <<>>
    /\ \/ capability.gpo /\ ~run.guid /\ AbortAndCleanUp
       \/ /\ capability.gpo => run.guid
          /\ Goto("pre_oracle")
          /\ UNCHANGED <<run, txnVars>>
    /\ UNCHANGED <<estateVars, lease>>

PreOracle ==
    /\ pc = "pre_oracle"
    /\ \/ Answered("none") /\ Goto("context") /\ UNCHANGED <<run, txnVars>>
       \/ Failed("none") /\ AbortAndCleanUp
    /\ UNCHANGED lease

\* What _helper_context may return: the helper's own console may be the
\* foreground window while it runs.
HelperContexts == {[context EXCEPT !.foreground = w] : w \in Foregrounds}

\* Mutant: an unreadable context refuses like a gate does.
PrepareContextRefuses ==
    /\ pc = "context"
    /\ \/ /\ Answered("none")
          /\ \E fresh \in HelperContexts :
                run' = [run EXCEPT !.prepared = fresh]
          /\ Goto("prepare")
          /\ UNCHANGED <<lease, txnVars>>
       \/ Failed("none") /\ Refusal

\* The baseline every crossing is compared with.
PrepareContext ==
    /\ pc = "context"
    /\ \/ /\ Answered("none")
          /\ \E fresh \in HelperContexts :
                run' = [run EXCEPT !.prepared = fresh]
          /\ Goto("prepare")
          /\ UNCHANGED <<lease, txnVars>>
       \/ Failed("none") /\ AbortAndCleanUp /\ UNCHANGED lease
       \/ Failed("none") /\ Escape

\* txn.prepare and txn.arm, each recorded.  All four flags hold here: the
\* guard they would meet otherwise cannot refuse (lease, context, checkpoint
\* and pre-oracle were each required above).
PrepareTxn ==
    /\ pc = "prepare" /\ Prepare(Preconditions) /\ state = "fresh"
    /\ run' = Recorded(run)
    /\ Goto("arm")
    /\ UNCHANGED <<lease, estateVars>>

ArmTxn ==
    /\ pc = "arm" /\ Arm /\ state = "prepared"
    /\ run' = Recorded(run)
    /\ Enter("gesture", capability.gesture)
    /\ UNCHANGED <<lease, estateVars>>

---------------------------------------------------------------------------
\* 3. The gesture phase: classify the step, cross, perform, next step.

Step == Head(todo)

NextStep == Enter("gesture", Tail(todo))

\* Mutant: a step of a mutating class is performed and crossed afterwards.
ClassifyAfterwards ==
    /\ pc = "gesture" /\ todo # <<>>
    /\ \/ /\ Step.action # NoName /\ Class(Step.action) = "undeclared"
          /\ AbortAndCleanUp
       \/ /\ Step.action = NoName \/ Class(Step.action) # "undeclared"
          /\ Goto("perform") /\ UNCHANGED <<run, txnVars>>
    /\ UNCHANGED <<lease, estateVars>>

\* GestureExecutor.execute on one step: a step naming an unlisted action is
\* refused, one of a mutating class crosses before it is performed.
Classify ==
    /\ pc = "gesture" /\ todo # <<>>
    /\ \/ /\ Step.action # NoName /\ Class(Step.action) = "undeclared"
          /\ AbortAndCleanUp
       \/ /\ Class(Step.action) \in Mutating
          /\ Goto("cross_action") /\ UNCHANGED <<run, txnVars>>
       \/ /\ Step.action = NoName
             \/ Class(Step.action) \in {"orientation_only", "reversible_pre_commit"}
          /\ Goto("perform") /\ UNCHANGED <<run, txnVars>>
    /\ UNCHANGED <<lease, estateVars>>

\* The boundary the pending crossing names: the step's own profile action,
\* or the one its commit step spells out.
Boundary == IF pc = "cross_action" THEN Step.action ELSE Step.boundary

\* The crossing happened: the callback returned and the step goes on.
Crossed ==
    IF pc = "cross_action" THEN Goto("perform") ELSE NextStep

\* What on_commit compares: the context without its foreground window, which
\* the step's own focus guard is for (module GestureTarget), and without the
\* language, which is compared by the gates only.
SessionOf(c) == [c EXCEPT !.foreground = None, !.ui_language = None]

\* context_mismatches: the fields that differ, the language never.
ContextMismatches(expected, observed) ==
    {f \in {"session_id", "user", "desktop", "foreground"} :
        expected[f] # observed[f]}

SamePreparedSession ==
    \E fresh \in HelperContexts :
        ContextMismatches(SessionOf(run.prepared), SessionOf(fresh)) = {}

\* Mutant: a later crossing returns before its context assertion.
CrossTrustingLater ==
    /\ pc \in {"cross_action", "cross_boundary"}
    /\ \/ Failed("none") /\ AbortAndCleanUp /\ UNCHANGED lease
       \/ Failed("none") /\ Escape
       \/ /\ Answered("none") /\ ~SamePreparedSession /\ state = "armed"
          /\ AbortAndCleanUp /\ UNCHANGED lease
       \/ /\ Answered("none") /\ state = "commit_attempted"
          /\ run' = [run EXCEPT !.crossedIn = @ \cup {SessionOf(context)}]
          /\ Crossed /\ UNCHANGED <<lease, txnVars>>
       \/ /\ Answered("none") /\ SamePreparedSession /\ state = "armed"
          /\ CommitDeclared
          /\ run' = [Recorded(run) EXCEPT !.crossedIn = @ \cup {SessionOf(context)}]
          /\ Crossed /\ UNCHANGED lease

\* Mutant: a context mismatch waits for the prepared session to come back.
CrossWaitsForSession ==
    /\ pc \in {"cross_action", "cross_boundary"}
    /\ Answered("none") /\ SamePreparedSession
    /\ \/ state = "commit_attempted" /\ UNCHANGED <<run, txnVars>>
       \/ state = "armed" /\ CommitDeclared /\ run' = Recorded(run)
    /\ Crossed /\ UNCHANGED lease

\* on_commit: a fresh context, equal to the prepared one, before EVERY
\* crossing; then the first crossing commits the transaction, declared or
\* as the hard stop, and a later one only goes on.
Cross ==
    /\ pc \in {"cross_action", "cross_boundary"}
    /\ \/ Failed("none") /\ AbortAndCleanUp /\ UNCHANGED lease
       \/ Failed("none") /\ Escape
       \/ /\ Answered("none") /\ ~SamePreparedSession
          /\ AbortAndCleanUp /\ UNCHANGED lease
       \/ /\ Answered("none") /\ SamePreparedSession
          /\ state = "commit_attempted"
          /\ run' = [run EXCEPT !.crossedIn = @ \cup {SessionOf(context)},
                                !.undeclared = @ \/ Class(Boundary) \notin Mutating]
          /\ Crossed /\ UNCHANGED <<lease, txnVars>>
       \/ /\ Answered("none") /\ SamePreparedSession
          /\ state = "armed" /\ Class(Boundary) \in Mutating
          /\ CommitDeclared
          /\ run' = [Recorded(run) EXCEPT !.crossedIn = @ \cup {SessionOf(context)}]
          /\ Crossed /\ UNCHANGED lease
       \/ /\ Answered("none") /\ SamePreparedSession
          /\ state = "armed" /\ Class(Boundary) \notin Mutating
          /\ CommitUndeclared
          /\ run' = [Recorded(run) EXCEPT !.undeclared = TRUE]
          /\ Enter("cleanup", capability.cleanup) /\ UNCHANGED lease

\* The step itself.  A commit step only crosses the boundary it has to name.  A
\* script's failure is the step's failure, and so is an error the helper
\* answers; a transport failure of a helper call escapes.
Perform ==
    /\ pc = "perform"
    /\ \/ /\ Step.kind = "commit" /\ Step.boundary # NoName
          /\ Goto("cross_boundary")
          /\ UNCHANGED <<run, lease, estateVars, txnVars>>
       \/ /\ Step.kind \in {"guest", "helper"}
          /\ Answered(Effect(Step))
          /\ NextStep /\ UNCHANGED <<run, lease, txnVars>>
       \/ /\ Step.kind = "commit" /\ Step.boundary = NoName
          /\ AbortAndCleanUp /\ UNCHANGED <<lease, estateVars>>
       \/ /\ Step.kind = "guest"
          /\ Failed(Effect(Step))
          /\ AbortAndCleanUp /\ UNCHANGED lease
       \/ /\ Step.kind = "helper"
          /\ HelperFailed(Effect(Step))
          /\ AbortAndCleanUp /\ UNCHANGED lease
       \/ /\ Step.kind = "helper"
          /\ Failed(Effect(Step))
          /\ Escape

GesturesDone ==
    /\ pc = "gesture" /\ todo = <<>>
    /\ Goto("envelope")
    /\ UNCHANGED <<run, lease, estateVars, txnVars>>

---------------------------------------------------------------------------
\* 4. The verdict.

\* parse_envelope over _envelope_dict, outside any try: an args[...] reference
\* the invocation left out raises ExecTransactionError, and a clause that is
\* none, as the capability wrote it or as its arguments made it, EnvelopeError.
BindEnvelope ==
    /\ pc = "envelope"
    /\ \/ /\ capability.binds
          /\ Goto("converge")
          /\ UNCHANGED <<run, lease, txnVars>>
       \/ /\ ~capability.binds
          /\ pc' = "ended" /\ ended' = "refused"
          /\ UNCHANGED <<todo, record, run, lease, txnVars>>
       \/ capability.binds /\ Escape
    /\ UNCHANGED estateVars

\* Mutant: a run that crossed nothing is resolved all the same, by moving the
\* machine past its own guard.
ConvergeResolvesAll ==
    /\ pc = "converge"
    /\ \/ Failed("none") /\ AbortAndCleanUp
       \/ \E c \in Convergences :
             /\ Answered("none")
             /\ Transition(c[1])
             /\ characterized' = (c[1] = "disproven")
             /\ stopReason' = (c[1] = "indeterminate")
             /\ UNCHANGED refusals
             /\ run' = [Recorded(run) EXCEPT !.assertion = c[2]]
             /\ Enter("cleanup", capability.cleanup)
    /\ UNCHANGED lease

\* Mutant: an assertion that held is published though it did not reproduce.
ConvergeTrustsAssertion ==
    /\ pc = "converge"
    /\ \/ Failed("none") /\ AbortAndCleanUp
       \/ \E c \in Convergences :
             /\ Answered("none")
             /\ IF state # "commit_attempted" THEN MarkIndeterminate
                ELSE IF c[2] # "disproven" THEN Resolve(TRUE, TRUE)
                ELSE Resolve(FALSE, TRUE)
             /\ run' = [Recorded(run) EXCEPT !.assertion = c[2]]
             /\ Enter("cleanup", capability.cleanup)
    /\ UNCHANGED lease

\* converge, then the resolution; recorded in every case but an exception.
Converge ==
    /\ pc = "converge"
    /\ \/ Failed("none") /\ AbortAndCleanUp
       \/ \E c \in Convergences :
             /\ Answered("none")
             /\ \/ /\ state = "commit_attempted" /\ c[1] # "indeterminate"
                   /\ Resolve(c[1] = "satisfied", TRUE)
                \/ /\ state # "commit_attempted" \/ c[1] = "indeterminate"
                   /\ MarkIndeterminate
             /\ run' = [Recorded(run) EXCEPT !.assertion = c[2]]
             /\ Enter("cleanup", capability.cleanup)
    /\ UNCHANGED lease

---------------------------------------------------------------------------
\* 5. Cleanup, the re-query, the record.

\* Mutant: the first cleanup step that fails ends the phase.
CleanupStopsAtFailure ==
    /\ pc = "cleanup" /\ todo # <<>>
    /\ \/ /\ Answered(Step.does)
          /\ run' = [run EXCEPT !.cleanup = Append(@, TRUE)]
          /\ Enter("cleanup", Tail(todo))
       \/ /\ Failed(Step.does)
          /\ run' = [run EXCEPT !.cleanup = Append(@, FALSE)]
          /\ Enter("cleanup", <<>>)
    /\ UNCHANGED <<lease, txnVars>>

\* Mutant: without a captured GUID the owned removal goes by the name.
CleanupFallsBackToName ==
    /\ pc = "cleanup" /\ todo # <<>>
    /\ LET effect == IF Step.does = "remove_owned" /\ ~run.guid
                       THEN "remove_by_name" ELSE Step.does IN
       \/ /\ Answered(effect)
          /\ run' = [run EXCEPT !.cleanup = Append(@, TRUE)]
       \/ /\ Failed(effect)
          /\ run' = [run EXCEPT !.cleanup = Append(@, FALSE)]
    /\ Enter("cleanup", Tail(todo))
    /\ UNCHANGED <<lease, txnVars>>

\* _cleanup: every step is tried once, on its own, whatever the others did; a
\* reference to a GUID setup never captured fails before anything is sent.
CleanupStep ==
    /\ pc = "cleanup" /\ todo # <<>>
    /\ LET needsGuid == Step.does = "remove_owned" IN
       \/ /\ needsGuid => run.guid
          /\ Answered(Step.does)
          /\ run' = [run EXCEPT !.cleanup = Append(@, TRUE)]
       \/ /\ needsGuid => run.guid
          /\ Failed(Step.does)
          /\ run' = [run EXCEPT !.cleanup = Append(@, FALSE)]
       \/ /\ needsGuid /\ ~run.guid
          /\ run' = [run EXCEPT !.cleanup = Append(@, FALSE)]
          /\ UNCHANGED estateVars
    /\ Enter("cleanup", Tail(todo))
    /\ UNCHANGED <<lease, txnVars>>

\* Mutant: a re-query nobody answered counts as absence.
RequeryDefaultsToAbsent ==
    /\ pc = "cleanup" /\ todo = <<>> /\ run.guid
    /\ Failed("none")
    /\ run' = [run EXCEPT !.remaining = "absent"]
    /\ Goto("finish")
    /\ UNCHANGED <<lease, txnVars>>

\* The strict-absence re-query, by GUID; unreadable output is not absence.
Requery ==
    /\ pc = "cleanup" /\ todo = <<>>
    /\ \/ /\ run.guid /\ queue = <<>>
          /\ run' = [run EXCEPT !.remaining =
                         IF world.own THEN "present" ELSE "absent"]
          /\ UNCHANGED estateVars
       \/ /\ run.guid
          /\ Failed("none")
          /\ run' = [run EXCEPT !.remaining = "unknown"]
       \/ ~run.guid /\ UNCHANGED <<run, estateVars>>
    /\ Goto("finish")
    /\ UNCHANGED <<lease, txnVars>>

\* What the verdict text is taken from.
Explanation ==
    CASE stopReason    -> "stop_reason"
      [] ~stopReason /\ characterized -> "characterization"
      [] ~stopReason /\ ~characterized /\ run.note -> "pre_prepare_note"
      [] OTHER -> "state"

\* The text of the document, which only the command line hands over.
CapabilityText == [revision |-> capability.revision, document |-> capability]

\* The transitions in the record: a fresh transaction's state is null there.
RecordedEvents ==
    [i \in 1..Len(run.events) |->
        [sequence   |-> run.events[i].sequence,
         from_state |-> IF run.events[i].from_state = "fresh"
                          THEN None ELSE run.events[i].from_state,
         to_state   |-> run.events[i].to_state,
         reason     |-> "reason"]]

\* The assertion's result, if there is one, with what it found changed.
EnvelopeResult ==
    IF run.assertion = "none" THEN <<>>
    ELSE [status |-> run.assertion, characterization |-> "text",
          satisfied |-> <<>>, violated |-> <<>>, unresolved |-> <<>>,
          unclassified |-> <<>>,
          delta |-> IF run.assertion # "disproven" THEN <<>>
                    ELSE <<[key |-> "fact", kind |-> "changed",
                            before |-> None, after |-> None]>>]

\* What the capability was invoked with, and what its setup scripts said.
Invocation ==
    [arguments        |-> "arguments",
     arguments_sha256 |-> Digest("arguments"),
     run_sheet_sha256 |-> Digest(SheetDocument(run.bound)),
     setup_manifest   |-> [i \in 1..Len(run.manifest) |->
                              [script        |-> run.manifest[i],
                               stdout_lines  |-> "stdout",
                               stdout_sha256 |-> Digest("stdout")]]]

\* The keys of both.  (TLC's @@, spelled out: the provers do not know it.)
Joined(f, g) == [k \in DOMAIN f \cup DOMAIN g |->
                    IF k \in DOMAIN f THEN f[k] ELSE g[k]]

\* Version 3 binds text, arguments, run sheet and setup; without a text there
\* is nothing to bind, and the record is of version 1.
Provenance ==
    LET version == IF caller = "cli" THEN 3 ELSE 1
        base    == [schema         |-> <<"transaction-record-schema", version>>,
                    schema_version |-> version,
                    capability     |-> "id",
                    run_sheet      |-> "sheet",
                    transaction_id |-> "uuid",
                    console        |-> "unlocked",
                    steps          |-> <<>>,
                    cleanup        |-> [journal   |-> run.cleanup,
                                        remaining |-> run.remaining],
                    notes          |-> <<>>]
        binding == [capability_revision |-> capability.revision,
                    capability_sha256   |-> Digest(CapabilityText),
                    invocation          |-> Invocation]
    IN  IF caller = "library" THEN base ELSE Joined(base, binding)

Emitted(recordState) ==
    [state           |-> recordState,
     verdict         |-> Explanation,
     envelope_result |-> EnvelopeResult,
     events          |-> RecordedEvents,
     provenance      |-> Provenance]

\* Mutant: the machine's own state is published, terminal or not.
FinishRawState ==
    /\ pc = "finish"
    /\ lease' = IF lease = "mine" THEN "free" ELSE lease
    /\ record' = Emitted(state)
    /\ pc' = "ended" /\ ended' = "returned"
    /\ UNCHANGED <<todo, run, estateVars, txnVars>>

\* finish and _emit: release the lease if it is held, then the record.
Finish ==
    /\ pc = "finish"
    /\ lease' = IF lease = "mine" THEN "free" ELSE lease
    /\ record' = Emitted(IF state \in TerminalStates THEN state
                                                     ELSE "indeterminate")
    /\ pc' = "ended" /\ ended' = "returned"
    /\ UNCHANGED <<todo, run, estateVars, txnVars>>

\* The process ends, by itself or killed: the operating system drops its
\* lock.  What the transport was running may still finish.
ProcessEnds ==
    /\ pc # "exited"
    /\ pc' = "exited"
    /\ ended' = IF pc = "ended" THEN ended ELSE "killed"
    /\ lease' = IF lease = "mine" THEN "free" ELSE lease
    /\ UNCHANGED <<capability, caller, todo, record, run,
                   estateVars, envVars, txnVars>>

---------------------------------------------------------------------------
\* The surroundings.

\* Another session, user or desktop owns the console, or its language changed.
SwitchSession ==
    /\ switches < MaxSwitches
    /\ pc \notin {"ended", "exited"}    \* no one looks any more
    /\ \E c \in Contexts \ {context} : context' = c
    /\ switches' = switches + 1
    /\ UNCHANGED <<sheetFile, lease, estateVars>>

\* The file may change at any time; it shows at the next of the three reads,
\* so it is enough to let it change right before one.
EditSheet ==
    /\ sheetFile < MaxEdits /\ pc \in {"load", "bind", "ended"}
    /\ sheetFile' = sheetFile + 1
    /\ UNCHANGED <<context, switches, lease, estateVars>>

\* A competing process takes a free lease and gives it back, before this one
\* tries it; what others do with it later shows to no one here.
OtherProcess ==
    /\ pc \in {"load", "bind", "acquire"}
    /\ \/ lease = "free" /\ lease' = "other"
       \/ lease = "other" /\ lease' = "free"
    /\ UNCHANGED <<envVars, estateVars>>

ReplFinishes ==
    /\ queue # <<>>
    /\ world' \in {world, Done(world, Head(queue))}
    /\ queue' = Tail(queue)
    /\ UNCHANGED <<envVars, lease, late>>

HelperActs ==
    /\ \E effect \in late : /\ world' \in {world, Done(world, effect)}
                            /\ late' = late \ {effect}
    /\ UNCHANGED <<envVars, lease, queue>>

Surroundings ==
    /\ \/ SwitchSession \/ EditSheet \/ OtherProcess
       \/ ReplFinishes \/ HelperActs
    /\ UNCHANGED <<capability, caller, ctlVars, run, txnVars>>

Executor ==
    /\ \/ LoadSheet \/ BindInvocation
       \/ AcquireLease \/ EnsureConsole \/ CheckRecovery \/ PassGates
       \/ ReadDomain \/ SetupStep \/ SetupDone \/ PreOracle
       \/ PrepareContext \/ PrepareTxn \/ ArmTxn
       \/ Classify \/ Cross \/ Perform \/ GesturesDone
       \/ BindEnvelope \/ Converge \/ CleanupStep \/ Requery \/ Finish
    /\ UNCHANGED <<capability, caller, envVars>>

ExecNext == Executor \/ Surroundings \/ ProcessEnds

ExecSpec == ExecInit /\ [][ExecNext]_execVars

---------------------------------------------------------------------------
Effects == {"none", "create", "remove_by_name", "remove_owned",
            "declared", "undeclared"}

\* Type invariant: in particular a record's state is always one of the three
\* terminal ones, whatever state the transaction stopped in.
ExecTypeOK ==
    /\ TxnTypeOK
    /\ capability \in Capabilities /\ caller \in {"cli", "library"}
    /\ pc \in {"load", "bind", "acquire", "console", "recovery", "gates",
               "domain", "setup", "pre_oracle", "context", "prepare", "arm",
               "gesture", "cross_action", "cross_boundary", "perform",
               "envelope", "converge", "cleanup", "finish", "ended", "exited"}
    /\ todo \in Seq(Steps)
    /\ ended \in {"no", "returned", "refused", "escaped", "killed"}
    /\ record = NoRecord \/ record.state \in RecordStates
    /\ run.guid \in BOOLEAN /\ run.note \in BOOLEAN
    /\ run.events \in Seq(TransitionEvent) /\ run.cleanup \in Seq(BOOLEAN)
    /\ run.manifest \in Seq(Steps)
    /\ lease \in {"free", "mine", "other"}
    /\ world \in [own : BOOLEAN, foreign : BOOLEAN,
                  touched : SUBSET {"declared", "undeclared"}]
    /\ queue \in Seq(Effects) /\ late \subseteq {"declared", "undeclared"}
    /\ context \in Contexts /\ switches \in 0..MaxSwitches
    /\ sheetFile \in 0..MaxEdits

\* Nothing a step declares as mutating reaches the surface, now or later through
\* an abandoned call or a helper that acts after its error was answered, unless
\* commit_attempted was recorded first: a reader who finds no crossing in the
\* record knows no declared step ran.
WriteAhead ==
    ("declared" \in world.touched \cup late
       \/ \E i \in 1..Len(queue) : queue[i] = "declared")
        => CommitAttempted

\* Every crossing, the later ones of the same attempt included, went ahead
\* only with the session, user and desktop that were prepared (contract
\* section 7).
CrossedInPreparedContext ==
    \A c \in run.crossedIn : c = SessionOf(run.prepared)

\* Whatever way the invocation went, validate_record accepts what the executor
\* returns: by itself, against the capability's text, and against the bytes
\* of the run sheet unless its file was edited meanwhile (cli.py 336-353).
RecordAccepted ==
    record # NoRecord =>
        IF caller = "cli"
          THEN Accepts(record, FALSE, CapabilityText,
                       IF sheetFile = run.bound THEN SheetDocument(sheetFile)
                                                ELSE None)
          ELSE Accepts(record, FALSE, None, None)

\* The verdict, the envelope result and the events of a record agree: verified
\* means satisfied, disproven means disproven and characterized, and an
\* indeterminate record says why.
RecordTellsTruth ==
    record # NoRecord =>
        /\ record.state = "verified" =>
              /\ record.envelope_result.status = "satisfied"
              /\ record.verdict = "state"
        /\ record.state = "disproven" =>
              /\ record.envelope_result.status = "disproven"
              /\ record.verdict = "characterization"
        /\ record.state = "indeterminate" =>
              record.verdict \in {"stop_reason", "pre_prepare_note"}

\* events_out is a true account as far as it goes: a prefix of the machine's
\* events that lacks at most the transition of an abort, and nothing at all
\* of a determinate verdict.
RecordedEventsArePrefix ==
    /\ IsPrefix(run.events, events)
    /\ Len(run.events) >= Len(events) - 1
    /\ state \in {"verified", "disproven"} => run.events = events

\* An invocation that returns after setup began has tried every step of its
\* cleanup, whatever failed before or during it (exec_transaction.py 1320-1326).
CleanupComplete ==
    (ended = "returned" /\ run.began)
        => Len(record.provenance.cleanup.journal) = Len(capability.cleanup)

\* A record that reports zero remaining evidence GPOs is right, and stays
\* right: nothing abandoned in the transport can still create or leave one.
NoFalseAbsence ==
    (record # NoRecord /\ run.remaining = "absent")
        => /\ ~world.own
           /\ \A i \in 1..Len(queue) : queue[i] # "create"

\* From the first desktop action to the record the lease is this process's
\* own, and it is not left behind by a return or a gate's refusal.
LeaseCoversWork ==
    /\ pc \notin {"load", "bind", "acquire", "finish", "ended", "exited"} =>
          lease = "mine"
    /\ pc = "finish" /\ run.began => lease = "mine"
    /\ pc = "ended" /\ ended = "returned" => lease # "mine"
    /\ pc = "ended" /\ ended = "refused" /\ capability.binds => lease # "mine"

RemovesByName(c) ==
    \E steps \in {c.setup, c.gesture, c.cleanup} :
        \E i \in 1..Len(steps) : steps[i].does = "remove_by_name"

\* A sheet that removes only by the captured GUID never removes the GPO it
\* found under its own name, even when its creation was lost on the way.
OwnedRemovalSparesFound ==
    [][~RemovesByName(capability) => (world.foreign => world'.foreign)]_execVars

\* What the record's reader is promised: one attempt, one verdict, and a
\* determinate one only about an attempt that was made.
ExecPromise == INSTANCE OneAttempt WITH
                 attempted <- CommitAttempted,
                 verdict   <- record.state

ExecKeepsPromise == ExecPromise!AttemptSpec

---------------------------------------------------------------------------
\* What the documents say and the code does not do (see the findings).

\* "EVERY TERMINAL PATH EMITS A RECORD" (exec_transaction.py 27-29): once
\* setup has begun, the invocation ends with a record.
EveryPathEmitsRecord ==
    (pc = "ended" /\ run.began) => record # NoRecord

\* Crossing an undeclared boundary is a hard stop and the transaction is
\* indeterminate (contract section 6 rule 2): no record of such a run may
\* carry any other verdict.
UndeclaredIsHardStop ==
    (record # NoRecord /\ run.undeclared) => record.state = "indeterminate"

\* Cleanup never removes a GPO the setup found rather than created
\* (tests/test_exec_transaction.py 1058-1060).
CleanupSparesFound == [][world.foreign => world'.foreign]_execVars

=============================================================================
