---------------------------- MODULE Observation ----------------------------
(***************************************************************************)
(* What one observation of the surface promises, and all that the poll     *)
(* loop of module Converge rests on: every fact is read once, and its      *)
(* value is the one its source had at the moment of that read.  Nothing is *)
(* promised about two facts, not even two facts of the same source.        *)
(***************************************************************************)
EXTENDS Naturals

CONSTANTS Facts,       \* what an observation reports
          Cells,       \* what changes as a whole: a directory object, a file
          Source,      \* the cell each fact is about
          MaxVersion   \* versions of a cell: 0..MaxVersion

VARIABLES surface,     \* the version each cell has now
          settles,     \* a changed cell never returns to an earlier version
          reading      \* the facts read so far, as versions of their sources

observationVars == <<surface, settles, reading>>

Nothing == <<>>

ObservationInit ==
    /\ surface \in [Cells -> 0..MaxVersion]
    /\ settles \in BOOLEAN
    /\ reading = Nothing

Change ==
    /\ \E c \in Cells :
          \/ surface[c] < MaxVersion
             /\ surface' = [surface EXCEPT ![c] = @ + 1]
          \/ surface[c] = MaxVersion /\ ~settles
             /\ surface' = [surface EXCEPT ![c] = 0]
    /\ UNCHANGED <<settles, reading>>

\* Facts not read before get the value of this moment, the others keep theirs.
Read ==
    /\ DOMAIN reading \subseteq DOMAIN reading' /\ DOMAIN reading' \subseteq Facts
    /\ reading' =
          [f \in DOMAIN reading' |->
              IF f \in DOMAIN reading THEN reading[f] ELSE surface[Source[f]]]
    /\ UNCHANGED <<surface, settles>>

\* The next observation.
Begin == reading' = Nothing /\ UNCHANGED <<surface, settles>>

ObservationSpec ==
    ObservationInit /\ [][Change \/ Read \/ Begin]_observationVars

=============================================================================
