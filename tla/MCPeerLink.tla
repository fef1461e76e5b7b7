----------------------------- MODULE MCPeerLink -----------------------------
(* Model values for PeerLink.                                               *)
EXTENDS PeerLink
AllAccept == [e \in Endpoints |-> TRUE]
=============================================================================
