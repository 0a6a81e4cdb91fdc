--------------------------- MODULE ExclusiveLease ---------------------------
(***************************************************************************)
(* The exclusive interactive-session lease as its users see it: one holder *)
(* at a time, who takes it when nobody has it and gives it up himself (or  *)
(* by dying).  It passes from one holder to the next only through nobody.  *)
(***************************************************************************)

CONSTANTS Processes, Nobody

VARIABLE holder

LeaseInit == holder = Nobody

Take(p) == holder = Nobody /\ holder' = p

GiveUp(p) == holder = p /\ holder' = Nobody

LeaseNext == \E p \in Processes : Take(p) \/ GiveUp(p)

LeaseSpec == LeaseInit /\ [][LeaseNext]_holder

=============================================================================
