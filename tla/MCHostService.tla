--------------------------- MODULE MCHostService ---------------------------
(* Model values for HostService.                                            *)
EXTENDS HostService
=============================================================================
