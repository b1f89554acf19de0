---------------------------- MODULE MCJsonlSink -----------------------------
(* JsonlSink on small instances; the partition keys are model values that    *)
(* nothing tells apart.                                                      *)
EXTENDS JsonlSink

CONSTANTS market, connection

MCPartitions == {market, connection}
MCSymmetry == Permutations(MCPartitions)
==============================================================================
