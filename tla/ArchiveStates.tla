---------------------------- MODULE ArchiveStates ----------------------------
(***************************************************************************)
(* The archive lifecycle of core/archive_state.py: the states a session    *)
(* and its manifest can be in, and the moves ObservationSession.           *)
(* transition_to accepts.                                                  *)
(***************************************************************************)
EXTENDS Integers, Sequences

ArchiveState == {"CREATING", "RECORDING", "FINALIZING", "COMPLETE",
                 "ABORTED", "CORRUPTED"}

\* The table of can_transition_to: the successors of each state.
Allowed == [s \in ArchiveState |->
              CASE s = "CREATING"   -> {"RECORDING", "ABORTED"}
                [] s = "RECORDING"  -> {"FINALIZING", "ABORTED"}
                [] s = "FINALIZING" -> {"COMPLETE", "ABORTED"}
                [] OTHER            -> {}]

CanTransition(from, to) == to \in Allowed[from]
==============================================================================
