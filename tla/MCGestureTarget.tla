-------------------------- MODULE MCGestureTarget --------------------------
(***************************************************************************)
(* Four windows, which are interchangeable, and any sheet of six steps.    *)
(***************************************************************************)
EXTENDS GestureTarget, TLC

Symmetry == Permutations(Windows)

=============================================================================
