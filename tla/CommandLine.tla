----------------------------- MODULE CommandLine -----------------------------
(***************************************************************************)
(* The verb exec-transaction of src/src/wcd/cli.py around the executor of  *)
(* module ExecTransaction: the plan is agreed with the estate before       *)
(* anything moves, the record is validated after, and the process answers  *)
(* its caller with an exit code.  A library caller of the executor does    *)
(* without all of this.                                                    *)
(***************************************************************************)
EXTENDS ExecTransaction

CONSTANTS
    Plans,      \* who may ask for what: records, see PlanShape
    Machine,    \* the estate's vm_name
    Role        \* the estate's identity_role, or None

ASSUME PlanShape == \A p \in Plans : DOMAIN p = {"mode", "machine", "identity"}

ASSUME NoneIsNoCode == None \notin 0..2

VARIABLES
    plan,     \* the plan while it is read: from stdin, or the controller's
    cli,      \* "reading" the plan, "running" the executor, or "done"
    exit      \* the exit code, or None

cliVars == <<plan, cli, exit>>
allVars == <<execVars, cliVars>>

CliInit ==
    /\ ExecInit
    /\ plan \in IF caller = "cli" THEN Plans ELSE {None}
    /\ cli = IF caller = "cli" THEN "reading" ELSE "running"
    /\ exit = None

\* The controller's own invocation names no target; a plan names the estate's
\* machine and the identity the estate declares, or is not carried out.
Agrees ==
    plan.mode = "wel" =>
        /\ plan.machine # None /\ plan.machine = Machine
        /\ Role # None /\ plan.identity # None /\ plan.identity = Role

\* Nothing of the executor has run.
EndsEarly(how, code) ==
    /\ cli' = "done" /\ exit' = code
    /\ pc' = "ended" /\ ended' = how
    /\ UNCHANGED <<plan, capability, caller, todo, record, run, lease,
                   estateVars, envVars, txnVars>>

Reading == cli = "reading" /\ pc = "load"

\* The document and its arguments fit the capability schema.  What is kept of
\* the plan goes into the provenance only.
ReadPlan ==
    /\ Reading /\ Agrees
    /\ cli' = "running" /\ plan' = None
    /\ UNCHANGED <<exit, execVars>>

\* A text that is no JSON, a document the schema refuses, a plan for another
\* estate.
RefusePlan == Reading /\ EndsEarly("refused", 2)

TransportWillNotStart == Reading /\ Agrees /\ EndsEarly("escaped", 1)

\* The exit code a caller reads: a refusal is 2, an exception nobody catches 1.
\* The sheet's file, read a third time, may be gone; the record may be refused.
ExitCode(code) ==
    \/ ended = "refused" /\ code = 2
    \/ ended \in {"escaped", "returned"} /\ code = 1
    \/ /\ ended = "returned"
       /\ code = IF Accepts(record, FALSE, CapabilityText,
                            SheetDocument(sheetFile)) THEN 0 ELSE 2

Report ==
    /\ caller = "cli" /\ cli = "running" /\ pc = "ended"
    /\ \E code \in 0..2 : ExitCode(code) /\ exit' = code
    /\ cli' = "done"
    /\ UNCHANGED <<plan, execVars>>

Invoke == cli = "running" /\ Executor /\ UNCHANGED cliVars

ProcessReturns ==
    /\ pc = "ended" /\ (caller = "cli" => cli = "done")
    /\ ProcessEnds /\ UNCHANGED cliVars

ProcessDies == ProcessEnds /\ UNCHANGED cliVars

CliNext ==
    \/ ReadPlan \/ RefusePlan \/ TransportWillNotStart \/ Report
    \/ Invoke \/ ProcessReturns \/ ProcessDies
    \/ Surroundings /\ UNCHANGED cliVars

CliSpec == CliInit /\ [][CliNext]_allVars

\* Every call the executor waits for carries a timeout, so the process never
\* stays in one place for good.
FairCliSpec ==
    /\ CliSpec
    /\ WF_allVars(ReadPlan \/ RefusePlan)
    /\ WF_allVars(Invoke)
    /\ WF_allVars(Report \/ ProcessReturns)

---------------------------------------------------------------------------

\* A caller reads exit code 2 as a refusal: nothing was mutated and no record
\* is owed (cli.py 252-253, 321-326).  It is only given while the estate is as
\* it was found and nothing is pending.  Two ways out are known to break that
\* and left out: an envelope that cannot be bound refuses after the gestures
\* (capability.binds), and a sheet edited meanwhile has its record refused.
ExitTwoMeansUntouched ==
    exit = 2 /\ capability.binds /\ sheetFile = 0 =>
        /\ world.touched = {} /\ ~world.own /\ queue = <<>> /\ late = {}
        /\ state = "fresh"

\* Every invocation comes to an end and the console lease comes back, however
\* the calls fail and whatever the session does.
EndsWithLeaseBack == <>[](pc = "exited" /\ lease # "mine")

=============================================================================
