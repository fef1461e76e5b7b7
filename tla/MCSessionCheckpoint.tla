------------------------ MODULE MCSessionCheckpoint ------------------------
(* Model values for SessionCheckpoint.                                      *)
EXTENDS SessionCheckpoint
=============================================================================
