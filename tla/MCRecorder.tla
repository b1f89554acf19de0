----------------------------- MODULE MCRecorder -----------------------------
(* Recorder on small instances.                                              *)
EXTENDS Recorder
==============================================================================
