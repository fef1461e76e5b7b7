----------------------------- MODULE PeerTable -----------------------------
(* The table of peers of a client process: ctx->peers and ctx->num_peers of *)
(* network.c, the allocations its entries own (reconnection record, TCP     *)
(* connection, video reassembly buffer), and the loops over it: the passes  *)
(* of rootstream_net_recv, rootstream_net_tick, the decode step of the      *)
(* client session and the clean-up loop of the KDE client.  Removing an     *)
(* entry frees what it owns and shifts the entries behind it, so the loops  *)
(* advance one entry at a time here, each over the table the last left.     *)
(*                                                                          *)
(* What the wire and the clock do to one peer is PeerLink's subject and is  *)
(* a choice here.                                                           *)
EXTENDS Naturals, Sequences, FiniteSets, SequencesExt

CONSTANTS
    Addrs,        \* network addresses packets come from
    KeyOf,        \* the public key of the peer at an address
    Home,         \* the address a peer's host name resolves to
    MaxPeers,     \* MAX_PEERS
    MaxAllocs     \* bound: allocations alive at a time

Keys == {KeyOf[a] : a \in Addrs}
Allocs == 1..MaxAllocs
None == 0

ASSUME AddressAssumption ==
    /\ Home \in [Keys -> Addrs]
    /\ \A k \in Keys : KeyOf[Home[k]] = k
ASSUME SizeAssumption == MaxPeers \in Nat \ {0} /\ MaxAllocs \in Nat

States == {"DISCOVERED", "CONNECTING", "HANDSHAKE_SENT", "HANDSHAKE_RECEIVED",
           "CONNECTED", "DISCONNECTED", "FAILED"}

\* peer_t: keyed once it has a public key and a session, udp its transport,
\* heard if last_seen was set in this iteration; reconnect, tcp and rx are
\* reconnect_ctx, transport_priv and video_rx_buffer.
Entry == [addr : Addrs, keyed : BOOLEAN, state : States, udp : BOOLEAN, heard : BOOLEAN,
          reconnect : Allocs \cup {None}, tcp : Allocs \cup {None}, rx : Allocs \cup {None}]

VARIABLES
    peers,    \* the first num_peers entries of ctx->peers
    live,     \* allocations neither freed nor lost for good
    frame,    \* current_frame.data while its size is not 0, else None
    pc, i,    \* the loop the process is in, and the index it is at
    due,      \* history: reconnection records of the peers to try in this pass
    tried,    \* history: those the pass tried
    had,      \* history: num_peers when the clean-up loop began
    late      \* history: TCP was waited for or read since the last UDP packet

vars == <<peers, live, frame, pc, i, due, tried, had, late>>

Init ==
    /\ peers = <<>>
    /\ live = {}
    /\ frame = None
    /\ pc = "idle" /\ i = 0
    /\ due = {} /\ tried = {} /\ had = 0
    /\ late = FALSE

n == Len(peers)
Used == 1..n
Owned(e) == {e.reconnect, e.tcp, e.rx} \ {None}

\* The table during one handler: what its functions change.
Table == [peers |-> peers, live |-> live, late |-> late]
Become(t) == peers' = t.peers /\ live' = t.live /\ late' = t.late
Same == UNCHANGED <<peers, live, late, frame>>
Goto(where, index) == pc' = where /\ i' = index

Fresh(t) == CHOOSE id \in Allocs \ t.live : \A other \in Allocs \ t.live : id <= other
CanAlloc(t) == Allocs \ t.live # {}

----------------------------------------------------------------------------
(* Functions on one entry                                                   *)

Zeroed(a) == [addr |-> a, keyed |-> FALSE, state |-> "CONNECTING", udp |-> TRUE,
              heard |-> FALSE, reconnect |-> None, tcp |-> None, rx |-> None]

\* rootstream_net_tcp_connect, when it succeeds: the new connection replaces
\* whatever transport_priv pointed to, which nothing frees any more.
TcpConnected(t, s) ==
    [t EXCEPT !.peers[s].tcp = Fresh(t), !.peers[s].udp = FALSE,
              !.live = (@ \cup {Fresh(t)}) \ {t.peers[s].tcp}]

\* Waiting five seconds for a connection, every peer's last packet ages.
Waited(t) ==
    [t EXCEPT !.late = TRUE,
              !.peers = [s \in 1..Len(t.peers) |-> [t.peers[s] EXCEPT !.heard = FALSE]]]
WithWait(T) == T \cup {Waited(t) : t \in T}
OverTcp(t, s) == IF CanAlloc(t) THEN WithWait({TcpConnected(t, s)}) ELSE {}

\* What a rootstream_net_handshake that succeeds leaves, by UDP or by TCP.
Handshaken(t, s) ==
    {[t EXCEPT !.peers[s].udp = TRUE,
               !.peers[s].state = IF @ \in {"HANDSHAKE_RECEIVED", "CONNECTED"} THEN @
                                  ELSE "HANDSHAKE_SENT"]}
    \cup {[c EXCEPT !.peers[s].state = "HANDSHAKE_SENT"] : c \in OverTcp(t, s)}

\* ... and one that fails: TCP may have connected before it could not send.
NotHandshaken(t, s) == WithWait({t}) \cup OverTcp(t, s)

\* What peer_try_reconnect may leave: reconnected, to be tried again, given up.
Reconnected(t, s) ==
    {[r EXCEPT !.peers[s].state = "CONNECTED"] :
        r \in IF t.peers[s].udp THEN Handshaken(t, s) \cup OverTcp(t, s)
                                ELSE OverTcp(t, s)}
GivenUp(t, s) == {[r EXCEPT !.peers[s].state = "FAILED"] : r \in WithWait({t})}

\* Variants of the code stand before the definition they change.  The buffer is
\* forgotten.
RemovedButBuffer(t, s) ==
    [t EXCEPT !.live = @ \ {t.peers[s].reconnect, t.peers[s].tcp},
              !.peers = RemoveAt(@, s)]

\* rootstream_remove_peer.  The connection of an entry that went back to UDP
\* is lost.
Removed(t, s) ==
    [t EXCEPT !.live = @ \ Owned(t.peers[s]),
              !.peers = RemoveAt(@, s)]
FrameAfterRemoval(s) == IF peers[s].rx = frame THEN None ELSE frame

----------------------------------------------------------------------------
(* The user: rootstream_connect_to_peer, the KDE client's disconnect        *)

Least(S) == CHOOSE s \in S : \A r \in S : s <= r

\* rootstream_find_peer: the entries with the key.
Known(k) == {s \in Used : peers[s].keyed /\ KeyOf[peers[s].addr] = k}

\* rootstream_add_peer: the entry it returns, in the table it leaves.
Added(k) ==
    IF Known(k) # {} THEN [t |-> Table, s |-> Least(Known(k))]
    ELSE [t |-> [Table EXCEPT
                    !.peers = Append(@, [Zeroed(Home[k]) EXCEPT
                        !.keyed = TRUE, !.state = "DISCOVERED", !.reconnect = Fresh(Table)]),
                    !.live = @ \cup {Fresh(Table)}],
          s |-> n + 1]

\* Adds the peer or finds it, resolves its name, sends it a handshake.
Connect(k) ==
    /\ pc = "idle"
    /\ Known(k) # {} \/ (n < MaxPeers /\ CanAlloc(Table))
    /\ LET a == Added(k)
           t == [a.t EXCEPT !.peers[a.s].addr = Home[k]]
       IN  \/ Become(a.t)
           \/ \E h \in NotHandshaken(t, a.s) : Become(h)
           \/ \E h \in Handshaken(t, a.s) :
                 Become([h EXCEPT !.peers[a.s].state = "CONNECTING"])
    /\ UNCHANGED <<frame, pc, i, due, tried, had>>

StartClear ==
    /\ pc = "idle"
    /\ n > 0
    /\ had' = n
    /\ Goto("clear", 1)
    /\ Same /\ UNCHANGED <<due, tried>>

\* Variant: the index stays where it is.
ClearFirst ==
    /\ pc = "clear"
    /\ IF i <= n
       THEN /\ Become(Removed(Table, i))
            /\ frame' = FrameAfterRemoval(i)
            /\ Goto("clear", i)
            /\ UNCHANGED had
       ELSE /\ Goto("idle", 0)
            /\ had' = 0
            /\ Same
    /\ UNCHANGED <<due, tried>>

\* for (i = 0; i < num_peers; i++) remove_peer(&peers[i])
Clear ==
    /\ pc = "clear"
    /\ IF i <= n
       THEN /\ Become(Removed(Table, i))
            /\ frame' = FrameAfterRemoval(i)
            /\ Goto("clear", i + 1)
            /\ UNCHANGED had
       ELSE /\ Goto("idle", 0)
            /\ had' = 0
            /\ Same
    /\ UNCHANGED <<due, tried>>

----------------------------------------------------------------------------
(* The session loop: rootstream_net_recv, rootstream_net_tick, decode       *)

Due(s) == peers[s].state = "DISCONNECTED" /\ peers[s].reconnect # None

StartRecv ==
    /\ pc = "idle"
    /\ due' = {peers[s].reconnect : s \in {r \in Used : Due(r)}}
    /\ Goto("revive", n)
    /\ Same /\ UNCHANGED <<tried, had>>

\* The first pass, from the last entry to the first.
Revive ==
    /\ pc = "revive"
    /\ i > 0
    /\ Goto("revive", i - 1)
    /\ IF Due(i)
       THEN /\ tried' = tried \cup {peers[i].reconnect}
            /\ \/ /\ \E t \in Reconnected(Table, i) \cup WithWait({Table}) : Become(t)
                  /\ UNCHANGED frame
               \/ /\ \E t \in GivenUp(Table, i) : Become(Removed(t, i))
                  /\ frame' = FrameAfterRemoval(i)
       ELSE Same /\ UNCHANGED tried
    /\ UNCHANGED <<due, had>>

\* Variant: the first entry is left out.
EndReviveEarly ==
    /\ pc = "revive"
    /\ i <= 1
    /\ Goto("udp", 0)
    /\ Same /\ UNCHANGED <<due, tried, had>>

EndRevive ==
    /\ pc = "revive"
    /\ i = 0
    /\ Goto("udp", 0)
    /\ Same /\ UNCHANGED <<due, tried, had>>

\* rootstream_find_peer_by_addr: the entries with the address.
At(a) == {s \in Used : peers[s].addr = a}
Heard(t, s) == [t EXCEPT !.peers[s].heard = TRUE]

\* process_received_packet, for a handshake: an address the table does not
\* know takes the next slot.
Handshake(a, t) ==
    LET new == At(a) = {}
        s == IF new THEN n + 1 ELSE Least(At(a))
        h == Heard(IF new THEN [t EXCEPT !.peers = Append(@, Zeroed(a))] ELSE t, s)
        received == [h EXCEPT !.peers[s].state = "HANDSHAKE_RECEIVED",
                              !.peers[s].keyed = TRUE]
    IN  /\ new => n < MaxPeers
        /\ \/ Become([h EXCEPT !.peers[s].state = "DISCONNECTED"])
           \/ \E r \in NotHandshaken(received, s) : Become(r)
           \/ \E r \in Handshaken(received, s) :
                 Become([r EXCEPT !.peers[s].state = "CONNECTED"])
        /\ UNCHANGED frame

\* ... for a chunk of video: the buffer may have to grow, which frees the old
\* one; the last chunk of a frame hands the buffer to current_frame.
Video(a, t) ==
    LET s == Least(At(a))
        old == t.peers[s].rx
    IN  /\ t.peers[s].keyed
        /\ \E grow, last \in BOOLEAN :
            /\ old = None => grow
            /\ grow => CanAlloc(t)
            /\ LET id == IF grow THEN Fresh(t) ELSE old
               IN  /\ Become([Heard(t, s) EXCEPT !.peers[s].rx = id,
                                                 !.live = IF grow THEN (@ \cup {id}) \ {old}
                                                                  ELSE @])
                   /\ frame' = IF last THEN id ELSE frame

\* ... for CTRL_DISCONNECT and for all other packets.
Other(a, t) ==
    LET s == Least(At(a)) IN
    /\ \/ Become(Heard(t, s))
       \/ /\ t.peers[s].keyed
          /\ Become([Heard(t, s) EXCEPT !.peers[s].state = "DISCONNECTED"])
    /\ UNCHANGED frame

Process(a, t) == Handshake(a, t) \/ (At(a) # {} /\ (Video(a, t) \/ Other(a, t)))

\* One packet, or none, is read from the UDP socket.
UdpPacket ==
    /\ pc = "udp"
    /\ Same \/ \E a \in Addrs : Process(a, [Table EXCEPT !.late = FALSE])
    /\ Goto("tcp", 1)
    /\ due' = {} /\ tried' = {}
    /\ UNCHANGED had

\* The third pass reads the entries that are connected by TCP; what comes is
\* taken for the first entry with that address.
TcpPass ==
    /\ pc = "tcp"
    /\ i <= n
    /\ Goto("tcp", i + 1)
    /\ \/ Same
       \/ /\ ~peers[i].udp /\ peers[i].state = "CONNECTED"
          /\ LET down == [Table EXCEPT !.peers[i].state = "DISCONNECTED"] IN
             \/ peers[i].tcp # None /\ Process(peers[i].addr, [Table EXCEPT !.late = TRUE])
             \/ /\ \E t \in {down} \cup IF peers[i].reconnect = None THEN {}
                                       ELSE WithWait({down}) \cup Reconnected(down, i)
                                            \cup GivenUp(down, i) : Become(t)
                /\ UNCHANGED frame
    /\ UNCHANGED <<due, tried, had>>

EndRecv ==
    /\ pc = "tcp"
    /\ i > n
    /\ Goto("tick", 1)
    /\ Same /\ UNCHANGED <<due, tried, had>>

\* rootstream_net_tick: a handshake is repeated or given up, a quiet peer is
\* dropped and its buffer freed.
Tick ==
    /\ pc = "tick"
    /\ i <= n
    /\ Goto("tick", i + 1)
    /\ LET e == peers[i]
           again == {Table} \cup Handshaken(Table, i) \cup NotHandshaken(Table, i)
       IN  \/ Same
           \/ /\ e.state = "HANDSHAKE_SENT"
              /\ \/ \E t \in again : Become(t)
                 \/ \E t \in again : Become([t EXCEPT !.peers[i].state = "DISCONNECTED"])
              /\ UNCHANGED frame
           \/ /\ e.state = "CONNECTED" /\ ~e.heard
              /\ Become([Table EXCEPT
                           !.peers[i] = [@ EXCEPT !.state = "DISCONNECTED", !.rx = None],
                           !.live = @ \ {e.rx}])
              /\ UNCHANGED frame
    /\ UNCHANGED <<due, tried, had>>

EndTick ==
    /\ pc = "tick"
    /\ i > n
    /\ Goto("decode", 0)
    /\ Same /\ UNCHANGED <<due, tried, had>>

\* Variant: the size stays.
DecodeKept ==
    /\ pc = "decode"
    /\ Goto("idle", 0)
    /\ peers' = [s \in Used |-> [peers[s] EXCEPT !.heard = FALSE]]
    /\ late' = FALSE
    /\ UNCHANGED <<frame, live, due, tried, had>>

\* The session loop decodes current_frame if it has a size, and clears the size.
Decode ==
    /\ pc = "decode"
    /\ frame' = None
    /\ Goto("idle", 0)
    /\ peers' = [s \in Used |-> [peers[s] EXCEPT !.heard = FALSE]]
    /\ late' = FALSE
    /\ UNCHANGED <<live, due, tried, had>>

Next ==
    \/ \E k \in Keys : Connect(k)
    \/ StartClear \/ Clear
    \/ StartRecv \/ Revive \/ EndRevive
    \/ UdpPacket \/ TcpPass \/ EndRecv
    \/ Tick \/ EndTick \/ Decode

Spec == Init /\ [][Next]_vars

----------------------------------------------------------------------------
(* Properties                                                               *)

TypeOK ==
    /\ peers \in Seq(Entry)
    /\ n <= MaxPeers
    /\ live \subseteq Allocs
    /\ frame \in Allocs \cup {None}
    /\ pc \in {"idle", "clear", "revive", "udp", "tcp", "tick", "decode"}
    /\ i \in 0..(MaxPeers + 1)
    /\ due \subseteq Allocs /\ tried \subseteq Allocs
    /\ had \in 0..MaxPeers
    /\ late \in BOOLEAN

Fields == {"reconnect", "tcp", "rx"}

\* Whatever is added, heard, removed and shifted, an allocation has one owner:
\* no two fields of the table share one, none of them was freed, and every
\* live one can still be reached and freed.  (Connections that a later connect
\* overwrites, or that stay behind a return to UDP, are lost.)
OwnedOnce ==
    /\ \A s, r \in Used, f, g \in Fields :
          peers[s][f] = peers[r][g] /\ peers[s][f] # None => s = r /\ f = g
    /\ live = UNION {Owned(peers[s]) : s \in Used}

\* The pass over the disconnected peers tries each of them once, although it
\* removes some on its way.
EveryPeerIsTried == pc = "udp" => tried = due

\* What the session loop decodes is a peer's buffer that nobody freed since
\* the frame in it was completed; waiting for or reading TCP after the last
\* UDP packet can come between.
DecodedFrameIsAlive ==
    pc = "decode" /\ frame # None /\ ~late => frame \in {peers[s].rx : s \in Used}

\* The clean-up loop counts up over a table that shrinks: of k peers the
\* k \div 2 at even positions stay, with all they own.
ClearLeavesEveryOther == pc = "clear" /\ i > n => n = had \div 2
=============================================================================
