---------------------------- MODULE MCParts ----------------------------
(* Model values for the libraries: more packets than sequence numbers and   *)
(* than slots; more requests than slots, delays that reach the cap and one  *)
(* beyond it; frame times beyond the duration and one more frame than there *)
(* is memory for.                                                           *)
EXTENDS Parts
=============================================================================
