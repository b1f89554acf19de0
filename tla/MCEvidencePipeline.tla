------------------------- MODULE MCEvidencePipeline -------------------------
(* EvidencePipeline on a small instance: two tasks, two monitors.            *)
EXTENDS EvidencePipeline, TLC

CONSTANTS reader, main, metadata, console

MCTasks == {reader, main}
MCMonitors == {metadata, console}
MCSuspending == {console}
==============================================================================
