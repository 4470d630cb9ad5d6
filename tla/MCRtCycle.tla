----------------------------- MODULE MCRtCycle -----------------------------
(* Constants of the model-checked instances of RtCycle. *)
EXTENDS RtCycle

MCOneCount  == {0}
MCCounts    == 0..2
=============================================================================
