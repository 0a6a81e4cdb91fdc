----------------------------- MODULE OneAttempt -----------------------------
(***************************************************************************)
(* What a verified transaction promises whoever reads its result, with     *)
(* nothing said about how: the surface is committed to at most one         *)
(* attempt, a verdict is given at most once and nothing is attempted after *)
(* it, and a determinate verdict (verified or disproven) is only ever      *)
(* given about an attempt that was made.                                   *)
(***************************************************************************)

VARIABLES attempted,   \* a commit point has been crossed
          verdict      \* the outcome given, or "none"

attemptVars == <<attempted, verdict>>

Verdicts == {"verified", "disproven", "indeterminate"}

AttemptInit == attempted = FALSE /\ verdict = "none"

\* The one attempt; a verdict, once given, closes the transaction.
Attempt ==
    /\ verdict = "none"
    /\ ~attempted
    /\ attempted' = TRUE
    /\ UNCHANGED verdict

\* The outcome.  Without an attempt there is nothing to resolve either way.
Conclude(v) ==
    /\ verdict = "none"
    /\ v # "indeterminate" => attempted
    /\ verdict' = v
    /\ UNCHANGED attempted

AttemptNext == Attempt \/ \E v \in Verdicts : Conclude(v)

AttemptSpec == AttemptInit /\ [][AttemptNext]_attemptVars

=============================================================================
