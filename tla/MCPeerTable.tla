---------------------------- MODULE MCPeerTable ----------------------------
(* Model values for PeerTable: two peers, each at its own address.          *)
EXTENDS PeerTable
KeyOfAddr == [a |-> "A", b |-> "B"]
HomeOfKey == [A |-> "a", B |-> "b"]
=============================================================================
