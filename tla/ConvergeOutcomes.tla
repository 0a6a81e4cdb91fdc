-------------------------- MODULE ConvergeOutcomes --------------------------
(***************************************************************************)
(* What converge and its caller share: module Converge shows that it       *)
(* returns nothing else, and module ExecTransaction resolves the           *)
(* transaction from whatever it may return.                                *)
(***************************************************************************)

\* The status converge returns, with the status of the assertion it rests on.
Convergences == {<<"satisfied", "satisfied">>, <<"disproven", "disproven">>,
                 <<"indeterminate", "indeterminate">>,
                 <<"indeterminate", "satisfied">>}   \* did not reproduce

=============================================================================
