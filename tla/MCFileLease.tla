---------------------------- MODULE MCFileLease ----------------------------
(***************************************************************************)
(* Three controller processes on one console; they are interchangeable.    *)
(***************************************************************************)
EXTENDS FileLease, TLC

Symmetry == Permutations(Processes)

=============================================================================
