------------------------------ MODULE MCReplay ------------------------------
(* Replay on small instances.                                                *)
EXTENDS Replay
==============================================================================
