-------------------------- MODULE MCVideoReassembly --------------------------
(* Frames of one to three packets; sizes that end inside and at the end of a *)
(* packet.                                                                   *)
EXTENDS VideoReassembly
=============================================================================
