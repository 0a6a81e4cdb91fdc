-------------------------- MODULE MCHelperSession --------------------------
(***************************************************************************)
(* Four requests, scripts and helper calls in any order; one stale line    *)
(* may be drained per request.                                             *)
(***************************************************************************)
EXTENDS HelperSession

=============================================================================
