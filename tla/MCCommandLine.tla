--------------------------- MODULE MCCommandLine ---------------------------
(***************************************************************************)
(* The command line over the run sheets of MCExecTransaction: the          *)
(* controller's own invocation, an agreed plan, and plans for another      *)
(* machine, for another identity and for nobody in particular.             *)
(***************************************************************************)
EXTENDS CommandLine, MCExecTransaction

AgreedPlan == [mode |-> "wel", machine |-> "vm", identity |-> "admin"]

MCPlans == {[mode |-> "direct", machine |-> None, identity |-> None],
            AgreedPlan,
            [AgreedPlan EXCEPT !.machine = "other"],
            [AgreedPlan EXCEPT !.identity = "other"],
            [AgreedPlan EXCEPT !.identity = None]}

=============================================================================
