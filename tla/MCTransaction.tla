--------------------------- MODULE MCTransaction ---------------------------
(***************************************************************************)
(* Any caller against one Transaction object: every call in every state,   *)
(* refused calls included.                                                 *)
(***************************************************************************)
EXTENDS Transaction

=============================================================================
