-------------------------- MODULE MCDesktopSession --------------------------
(* Up to four sessions, one after the other.                               *)
EXTENDS DesktopSession
=============================================================================
