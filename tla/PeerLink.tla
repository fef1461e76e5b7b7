------------------------------ MODULE PeerLink ------------------------------
(***************************************************************************)
(* One host and one client of RootStream joined by UDP: the peer state     *)
(* machine of network.c (handshake, keepalive, timeouts, control           *)
(* commands), the reconnection logic of network_reconnect.c, the TCP       *)
(* fallback of network_tcp.c, and the service loops that drive them.       *)
(*                                                                         *)
(* Each process owns one table entry for the other.  The functions of the  *)
(* source are operators on that entry: they return the entry they leave    *)
(* behind and the packets they put on the wire.  Time is kept as ages that *)
(* stop counting where the code stops telling them apart.                  *)
(***************************************************************************)
EXTENDS Integers, FiniteSets

CONSTANTS
    HandshakeRetry,    \* HANDSHAKE_RETRY_MS, in clock ticks
    PeerTimeout,       \* PEER_TIMEOUT_MS
    Keepalive,         \* KEEPALIVE_INTERVAL_MS
    HealthTimeout,     \* the 30000 of check_peer_health
    InitialBackoff,    \* INITIAL_BACKOFF_MS
    MaxBackoff,        \* MAX_BACKOFF_MS
    MaxAttempts,       \* MAX_RECONNECT_ATTEMPTS
    Connectors,        \* processes whose user calls rootstream_connect_to_peer
    AcceptsVersion,    \* process -> it accepts the other's protocol version
    TcpReachable,      \* a TCP listener (none is in this repository) may answer
    Commands,          \* control commands a client's user may send
    MaxLosses,         \* packets the network may lose
    MaxCrashes,        \* process crashes in one behaviour
    Outages,           \* processes whose sendto may start to fail
    Duplicates,        \* the network may deliver a packet again
    Redials,           \* a user may call connect again for a peer already known
    Timely             \* a packet reaches a running process within two clock ticks

Endpoints == {"host", "client"}
Other(e) == IF e = "host" THEN "client" ELSE "host"

ASSUME TimeAssumption ==
    /\ HandshakeRetry \in Nat /\ PeerTimeout \in Nat /\ Keepalive \in Nat
    /\ HealthTimeout \in Nat /\ PeerTimeout <= HealthTimeout
    /\ InitialBackoff \in Nat /\ MaxBackoff \in Nat /\ InitialBackoff <= MaxBackoff
    /\ MaxAttempts \in Nat \ {0}

ASSUME EnvironmentAssumption ==
    /\ Connectors \subseteq Endpoints
    /\ AcceptsVersion \in [Endpoints -> BOOLEAN]
    /\ Outages \subseteq Endpoints
    /\ Commands \subseteq {"PAUSE", "RESUME", "DISCONNECT"}
    /\ MaxLosses \in Nat /\ MaxCrashes \in Nat
    /\ {TcpReachable, Duplicates, Redials, Timely} \subseteq BOOLEAN

VARIABLES
    peer,       \* process -> its entry for the other side, or NoPeer
    wire,       \* process -> UDP packets in flight to it
    pc,         \* process -> the next step of its service loop, or "down"
    netUp,      \* process -> sendto succeeds
    due,        \* process -> packets that were in flight at the last clock tick
    losses, crashes

vars == <<peer, wire, pc, netUp, due, losses, crashes>>

PeerStates == {"DISCOVERED", "CONNECTING", "HANDSHAKE_SENT", "HANDSHAKE_RECEIVED",
               "CONNECTED", "DISCONNECTED", "FAILED"}
Packets == {"HANDSHAKE", "VIDEO", "KEYFRAME", "PAUSE", "RESUME", "DISCONNECT", "PING", "PONG"}

QuietAges     == 0..(HealthTimeout + 1)
IdleAges      == 0..Keepalive
HandshakeAges == 0..PeerTimeout
Attempts      == 0..MaxAttempts
Waits         == 0..MaxBackoff

\* peer_t and its reconnect_ctx_t.  The three ages are the time since
\* last_received, last_sent and handshake_sent_time; wait is the time left until
\* rc->next_attempt; attempts stops counting at MaxAttempts.
Peer == [state : PeerStates \union {"ABSENT"}, streaming : BOOLEAN, authenticated : BOOLEAN,
         transport : {"UDP", "TCP"}, tcp : {"none", "open", "closed"},
         heard : BOOLEAN, quiet : QuietAges, idle : IdleAges, hsAge : HandshakeAges,
         reconnect : BOOLEAN, attempts : Attempts, backoff : Waits, wait : Waits]

\* A slot of ctx->peers after memset.
ZeroedPeer ==
    [state |-> "ABSENT", streaming |-> FALSE, authenticated |-> FALSE,
     transport |-> "UDP", tcp |-> "none", heard |-> FALSE, quiet |-> 0, idle |-> Keepalive,
     hsAge |-> PeerTimeout, reconnect |-> FALSE, attempts |-> 0, backoff |-> 0, wait |-> 0]
NoPeer == ZeroedPeer

\* What the sockets answer during one handler call: the fallback connect and send
\* of a handshake, a second connect, a send and a read on an open TCP connection.
\* They matter only while sendto fails or once the peer has a TCP connection.
SocketOutcomes(e) ==
    IF TcpReachable /\ ~ (netUp[e] /\ peer[e].transport = "UDP")
    THEN [fallback : {"refused", "established", "broken"}, again : BOOLEAN,
          send : {"sent", "partial", "dead"}, read : {"nothing", "dead"}]
    ELSE {[fallback |-> "refused", again |-> FALSE, send |-> "dead", read |-> "dead"]}

\* What a function leaves behind: the entry, the UDP packets sent, success.
Result(p, out, ok) == [peer |-> p, out |-> out, ok |-> ok]

-----------------------------------------------------------------------------
\* network.c, network_reconnect.c

rootstream_net_handshake(p, up, socks) ==
    IF up THEN
        Result(IF p.state \in {"HANDSHAKE_RECEIVED", "CONNECTED"}
               THEN [p EXCEPT !.idle = 0, !.transport = "UDP"]
               ELSE [p EXCEPT !.idle = 0, !.transport = "UDP",
                              !.state = "HANDSHAKE_SENT", !.hsAge = 0],
               {"HANDSHAKE"}, TRUE)
    ELSE IF socks.fallback = "established" THEN
        Result([p EXCEPT !.idle = 0, !.transport = "TCP", !.tcp = "open",
                         !.state = "HANDSHAKE_SENT", !.hsAge = 0], {}, TRUE)
    ELSE IF socks.fallback = "broken" THEN
        Result([p EXCEPT !.transport = "TCP", !.tcp = "closed"], {}, FALSE)
    ELSE Result(p, {}, FALSE)

rootstream_net_tcp_connect(p, answered) ==
    Result(IF answered THEN [p EXCEPT !.transport = "TCP", !.tcp = "open"] ELSE p, {}, answered)

\* The transport part of a reconnection attempt: a handshake, then TCP.
Redial(p, up, socks) ==
    IF p.transport = "TCP" THEN rootstream_net_tcp_connect(p, socks.again)
    ELSE LET hs == rootstream_net_handshake(p, up, socks)
         IN  IF hs.ok THEN hs ELSE rootstream_net_tcp_connect(hs.peer, socks.again)

\* Variants of the code, for the runs that show a property can fail, stand before
\* the definition they change.  The cap is checked before doubling.
DoubledLate(backoff) == IF backoff > MaxBackoff THEN MaxBackoff ELSE backoff * 2

Doubled(backoff) == IF backoff * 2 > MaxBackoff THEN MaxBackoff ELSE backoff * 2

\* ok is FALSE where the code returns -1: the caller may drop the entry.
peer_try_reconnect(p, up, socks) ==
    LET dial == Redial(p, up, socks)
        q    == dial.peer
    IN  IF p.wait > 0 THEN Result(p, {}, TRUE)
        ELSE IF dial.ok THEN
            Result([q EXCEPT !.attempts = 0, !.backoff = InitialBackoff, !.state = "CONNECTED"],
                   dial.out, TRUE)
        ELSE IF q.attempts + 1 >= MaxAttempts THEN
            Result([q EXCEPT !.attempts = MaxAttempts, !.state = "FAILED"], dial.out, FALSE)
        ELSE
            Result([q EXCEPT !.attempts = @ + 1, !.backoff = Doubled(@),
                             !.wait = Doubled(q.backoff)], dial.out, TRUE)

\* The connection is found dead while sending or reading.
LoseConnection(p, up, socks) ==
    LET q == [p EXCEPT !.state = "DISCONNECTED"]
    IN  IF q.reconnect THEN peer_try_reconnect(q, up, socks) ELSE Result(q, {}, TRUE)

CanSend(p) == p.state \in {"CONNECTED", "HANDSHAKE_RECEIVED"} /\ p.authenticated

\* crypto_encrypt_packet refuses a null plaintext; PING and PONG pass one.
Encryptable(type) == type \notin {"PING", "PONG"}

\* Variant: a packet sent counts as a sign of life of the peer.
SendMarksSeen(p, type, up, socks) ==
    IF CanSend(p) /\ up THEN Result([p EXCEPT !.idle = 0, !.quiet = 0], {type}, TRUE)
    ELSE Result(p, {}, FALSE)

rootstream_net_send_encrypted(p, type, up, socks) ==
    IF ~ (CanSend(p) /\ Encryptable(type)) THEN Result(p, {}, FALSE)
    ELSE IF p.transport = "UDP" /\ up THEN Result([p EXCEPT !.idle = 0], {type}, TRUE)
    ELSE IF p.transport = "TCP" /\ p.tcp = "open" /\ socks.send = "sent" THEN
        Result([p EXCEPT !.idle = 0], {}, TRUE)
    ELSE LET q == IF p.transport = "TCP" /\ socks.send = "dead"
                  THEN [p EXCEPT !.tcp = IF @ = "open" THEN "closed" ELSE @] ELSE p
         IN  [LoseConnection(q, up, socks) EXCEPT !.ok = FALSE]

\* A packet from an address not in the table gets a slot only for a handshake.
SlotFor(p, m) ==
    IF p.state = "ABSENT" /\ m = "HANDSHAKE" THEN [ZeroedPeer EXCEPT !.state = "CONNECTING"] ELSE p

\* Variant: no session is created.
ReceiveHandshakeNoSession(e, p, up, socks) ==
    LET hs == rootstream_net_handshake([p EXCEPT !.state = "HANDSHAKE_RECEIVED"], up, socks)
    IN  IF hs.ok THEN [hs EXCEPT !.peer.state = "CONNECTED", !.peer.streaming = (e = "host")]
        ELSE hs

\* Variant: a handshake is answered only "if we haven't already", as the comment
\* at network.c:564 says.
ReceiveHandshakeOnce(e, p, up, socks) ==
    LET q  == [p EXCEPT !.authenticated = TRUE, !.state = "HANDSHAKE_RECEIVED"]
        hs == rootstream_net_handshake(q, up, socks)
    IN  IF p.state = "CONNECTED" THEN Result(p, {}, TRUE)
        ELSE IF ~ hs.ok THEN hs
        ELSE [hs EXCEPT !.peer.state = "CONNECTED", !.peer.streaming = (e = "host")]

ReceiveHandshake(e, p, up, socks) ==
    LET q  == [p EXCEPT !.authenticated = TRUE, !.state = "HANDSHAKE_RECEIVED"]
        hs == rootstream_net_handshake(q, up, socks)
        r  == [hs.peer EXCEPT !.state = "CONNECTED"]
        kf == rootstream_net_send_encrypted(r, "KEYFRAME", up, socks)
    IN  IF ~ AcceptsVersion[e] THEN Result([p EXCEPT !.state = "DISCONNECTED"], {}, TRUE)
        ELSE IF ~ hs.ok THEN hs
        ELSE IF e = "host" THEN Result([r EXCEPT !.streaming = TRUE], hs.out, TRUE)
        ELSE Result(kf.peer, hs.out \union kf.out, TRUE)

ReceiveControl(p, m) ==
    CASE m = "PAUSE"      -> [p EXCEPT !.streaming = FALSE]
      [] m = "RESUME"     -> [p EXCEPT !.streaming = TRUE]
      [] m = "DISCONNECT" -> [p EXCEPT !.state = "DISCONNECTED", !.streaming = FALSE]
      [] OTHER            -> p

\* Variant: last_seen is not updated.
process_unseen(e, p, m, up, socks) ==
    LET slot == SlotFor(p, m)
    IN  IF slot.state = "ABSENT" THEN Result(p, {}, TRUE)
        ELSE IF m = "HANDSHAKE" THEN ReceiveHandshake(e, slot, up, socks)
        ELSE Result(ReceiveControl(slot, m), {}, TRUE)

process_received_packet(e, p, m, up, socks) ==
    LET slot == SlotFor(p, m)
        q    == [slot EXCEPT !.heard = TRUE, !.quiet = 0]
    IN  IF slot.state = "ABSENT" THEN Result(p, {}, TRUE)
        ELSE IF m = "HANDSHAKE" THEN ReceiveHandshake(e, q, up, socks)
        ELSE IF m = "PING" THEN rootstream_net_send_encrypted(q, "PONG", up, socks)
        ELSE IF q.authenticated THEN Result(ReceiveControl(q, m), {}, TRUE)
        ELSE Result(q, {}, TRUE)

\* Variant: nobody reconnects.
NoReconnectPass(p, up, socks) == Result(p, {}, TRUE)

\* The three passes of rootstream_net_recv over the (one-entry) table.
ReconnectPass(p, up, socks) ==
    IF p.state = "DISCONNECTED" /\ p.reconnect
    THEN LET r == peer_try_reconnect(p, up, socks)
         IN  IF r.ok THEN r ELSE [r EXCEPT !.peer = NoPeer]
    ELSE Result(p, {}, TRUE)

TcpPass(p, up, socks) ==
    IF p.transport = "TCP" /\ p.state = "CONNECTED" /\ (p.tcp # "open" \/ socks.read = "dead")
    THEN LoseConnection([p EXCEPT !.tcp = IF @ = "open" THEN "closed" ELSE @], up, socks)
    ELSE Result(p, {}, TRUE)

\* m is the packet the socket has, or "none".
rootstream_net_recv(e, p, m, up, socks) ==
    LET dial == ReconnectPass(p, up, socks)
        udp  == IF m = "none" THEN Result(dial.peer, {}, TRUE)
                ELSE process_received_packet(e, dial.peer, m, up, socks)
        tcp  == TcpPass(udp.peer, up, socks)
    IN  Result(tcp.peer, dial.out \union udp.out \union tcp.out, TRUE)

\* late: the millisecond clock moved on between the two reads of it, so that
\* now - handshake_sent_time wraps around.
TickHandshake(p, up, socks, late) ==
    LET hs == IF p.hsAge >= HandshakeRetry THEN rootstream_net_handshake(p, up, socks)
              ELSE Result(p, {}, TRUE)
        expired == hs.peer.hsAge >= PeerTimeout \/ (late /\ p.hsAge >= HandshakeRetry /\ hs.ok)
    IN  Result(IF expired THEN [hs.peer EXCEPT !.state = "DISCONNECTED"] ELSE hs.peer, hs.out, TRUE)

TickConnected(p, up, socks) ==
    IF p.heard /\ p.quiet >= PeerTimeout
    THEN Result([p EXCEPT !.state = "DISCONNECTED", !.streaming = FALSE], {}, TRUE)
    ELSE IF p.idle >= Keepalive THEN rootstream_net_send_encrypted(p, "PING", up, socks)
    ELSE Result(p, {}, TRUE)

rootstream_net_tick(p, up, socks, late) ==
    IF p.state = "HANDSHAKE_SENT" THEN TickHandshake(p, up, socks, late)
    ELSE IF p.state = "CONNECTED" THEN TickConnected(p, up, socks)
    ELSE Result(p, {}, TRUE)

check_peer_health(p, up, socks) ==
    IF p.state = "CONNECTED" /\ p.heard /\ p.quiet > HealthTimeout
    THEN LoseConnection(p, up, socks) ELSE Result(p, {}, TRUE)

\* Variant: peer_reconnect_init is forgotten.
AddPeerOnce(p) ==
    IF p.state = "ABSENT"
    THEN [ZeroedPeer EXCEPT !.state = "DISCOVERED", !.authenticated = TRUE] ELSE p

\* rootstream_add_peer for the other side's code.
rootstream_add_peer(p) ==
    IF p.state = "ABSENT"
    THEN [ZeroedPeer EXCEPT !.state = "DISCOVERED", !.authenticated = TRUE,
                            !.reconnect = TRUE, !.backoff = InitialBackoff]
    ELSE [p EXCEPT !.authenticated = TRUE]

\* resolved: the name service knows the peer's host name.
rootstream_connect_to_peer(p, resolved, up, socks) ==
    LET added == rootstream_add_peer(p)
        hs    == rootstream_net_handshake(added, up, socks)
    IN  IF ~ resolved THEN Result(added, {}, FALSE)
        ELSE IF hs.ok THEN [hs EXCEPT !.peer.state = "CONNECTING"] ELSE hs

\* rootstream_pause_stream, rootstream_resume_stream, rootstream_send_control.
SendCommand(p, cmd, up, socks) ==
    LET r == rootstream_net_send_encrypted(p, cmd, up, socks)
    IN  IF ~ r.ok \/ cmd = "DISCONNECT" THEN r
        ELSE [r EXCEPT !.peer.streaming = (cmd = "RESUME")]

-----------------------------------------------------------------------------
Init ==
    /\ peer = [e \in Endpoints |-> NoPeer]
    /\ wire = [e \in Endpoints |-> {}]
    /\ pc = [e \in Endpoints |-> "recv"]
    /\ netUp = [e \in Endpoints |-> TRUE]
    /\ due = [e \in Endpoints |-> {}]
    /\ losses = 0
    /\ crashes = 0

Running(e) == pc[e] # "down"

\* e's entry becomes r.peer and r.out is in flight to the other side.
Emit(e, r) ==
    /\ peer' = [peer EXCEPT ![e] = r.peer]
    /\ wire' = [wire EXCEPT ![Other(e)] = @ \union r.out]

\* The service loop: the host streams, receives, ticks and checks health
\* (service.c:469-566), the client receives and ticks (client_session.c).
Step(e, from, to) == pc[e] = from /\ pc' = [pc EXCEPT ![e] = to]

Stream ==
    /\ Step("host", "stream", "recv")
    /\ \E socks \in SocketOutcomes("host") :
        LET p == peer["host"]
        IN  Emit("host", IF p.state = "CONNECTED" /\ p.streaming
                         THEN rootstream_net_send_encrypted(p, "VIDEO", netUp["host"], socks)
                         ELSE Result(p, {}, TRUE))
    /\ UNCHANGED <<netUp, due, losses, crashes>>

Recv(e, m) ==
    /\ Step(e, "recv", "tick")
    /\ m \in wire[e] \/ (m = "none" /\ (Timely => wire[e] = {}))
    /\ \E socks \in SocketOutcomes(e), keep \in {FALSE, Duplicates} :
        LET r == rootstream_net_recv(e, peer[e], m, netUp[e], socks)
        IN  /\ peer' = [peer EXCEPT ![e] = r.peer]
            /\ wire' = [wire EXCEPT ![Other(e)] = @ \union r.out,
                                    ![e] = IF keep THEN @ ELSE @ \ {m}]
    /\ due' = [due EXCEPT ![e] = @ \ {m}]
    /\ UNCHANGED <<netUp, losses, crashes>>

Tick(e) ==
    /\ Step(e, "tick", IF e = "host" THEN "health" ELSE "recv")
    /\ \E socks \in SocketOutcomes(e), late \in BOOLEAN :
        Emit(e, rootstream_net_tick(peer[e], netUp[e], socks, late))
    /\ UNCHANGED <<netUp, due, losses, crashes>>

Health ==
    /\ Step("host", "health", "stream")
    /\ \E socks \in SocketOutcomes("host") :
        Emit("host", check_peer_health(peer["host"], netUp["host"], socks))
    /\ UNCHANGED <<netUp, due, losses, crashes>>

\* The user, between two steps of the loop.
Connect(e) ==
    /\ e \in Connectors /\ Running(e)
    /\ Redials \/ peer[e].state = "ABSENT"
    /\ \E socks \in SocketOutcomes(e), resolved \in BOOLEAN :
        Emit(e, rootstream_connect_to_peer(peer[e], resolved, netUp[e], socks))
    /\ UNCHANGED <<pc, netUp, due, losses, crashes>>

Command(cmd) ==
    /\ cmd \in Commands /\ Running("client") /\ peer["client"].state # "ABSENT"
    /\ \E socks \in SocketOutcomes("client") :
        Emit("client", SendCommand(peer["client"], cmd, netUp["client"], socks))
    /\ UNCHANGED <<pc, netUp, due, losses, crashes>>

\* The environment.
Older(age, cap) == IF age < cap THEN age + 1 ELSE age

Aged(p) ==
    [p EXCEPT !.quiet = Older(@, HealthTimeout + 1), !.idle = Older(@, Keepalive),
              !.hsAge = Older(@, PeerTimeout), !.wait = IF @ = 0 THEN 0 ELSE @ - 1]

ClockTick ==
    /\ \A e \in Endpoints : Running(e) => due[e] = {}
    /\ peer' = [e \in Endpoints |-> IF peer[e].state = "ABSENT" THEN peer[e] ELSE Aged(peer[e])]
    /\ due' = IF Timely THEN wire ELSE due
    /\ UNCHANGED <<wire, pc, netUp, losses, crashes>>

Lose(e, m) ==
    /\ m \in wire[e] /\ losses < MaxLosses
    /\ wire' = [wire EXCEPT ![e] = @ \ {m}]
    /\ due' = [due EXCEPT ![e] = @ \ {m}]
    /\ losses' = losses + 1
    /\ UNCHANGED <<peer, pc, netUp, crashes>>

NetChange(e) ==
    /\ e \in Outages
    /\ netUp' = [netUp EXCEPT ![e] = ~ @]
    /\ UNCHANGED <<peer, wire, pc, due, losses, crashes>>

Crash(e) ==
    /\ Running(e) /\ crashes < MaxCrashes
    /\ pc' = [pc EXCEPT ![e] = "down"]
    /\ peer' = [peer EXCEPT ![e] = NoPeer]
    /\ crashes' = crashes + 1
    /\ UNCHANGED <<wire, netUp, due, losses>>

Restart(e) ==
    /\ pc[e] = "down"
    /\ pc' = [pc EXCEPT ![e] = "recv"]
    /\ UNCHANGED <<peer, wire, netUp, due, losses, crashes>>

Next ==
    \/ Stream
    \/ Health
    \/ \E e \in Endpoints : (\E m \in Packets \union {"none"} : Recv(e, m)) \/ Tick(e)
    \/ \E e \in Endpoints : Connect(e)
    \/ \E cmd \in Commands : Command(cmd)
    \/ ClockTick
    \/ \E e \in Endpoints, m \in Packets : Lose(e, m)
    \/ \E e \in Endpoints : NetChange(e) \/ Crash(e) \/ Restart(e)

Spec == Init /\ [][Next]_vars

\* Running processes keep looping, the clock moves on, and a process that
\* crashed stays down unless it is started again: nothing is assumed of users,
\* of the network's losses or of Restart.
LoopFairness(e) ==
    /\ WF_vars(\E m \in Packets \union {"none"} : Recv(e, m))
    /\ WF_vars(Tick(e))

Fairness ==
    /\ WF_vars(Stream) /\ WF_vars(Health) /\ WF_vars(ClockTick)
    /\ \A e \in Endpoints : LoopFairness(e)

FairSpec == Spec /\ Fairness

-----------------------------------------------------------------------------
TypeOK ==
    /\ peer \in [Endpoints -> Peer]
    /\ wire \in [Endpoints -> SUBSET Packets]
    /\ pc \in [Endpoints -> {"down", "recv", "tick", "health", "stream"}]
    /\ netUp \in [Endpoints -> BOOLEAN]
    /\ due \in [Endpoints -> SUBSET Packets]
    /\ losses \in 0..MaxLosses /\ crashes \in 0..MaxCrashes

\* A peer that packets may be encrypted for has a session, however it came to be
\* connected: by a handshake (network.c:554-566) or by the reconnection code,
\* which sets PEER_CONNECTED without one (network_reconnect.c:82-89).
ConnectedHasSession ==
    \A e \in Endpoints :
        peer[e].state \in {"CONNECTED", "HANDSHAKE_RECEIVED"} => peer[e].authenticated

\* The host only ever streams to a peer it has received something from, so the
\* five-second timeout, which skips a peer with last_seen = 0 (network.c:827),
\* covers every stream.
StreamsAreWatched == peer["host"].streaming => peer["host"].heard

\* An entry the process did not add itself, which no reconnection will ever
\* revive, is one it has heard from: it cannot stay connected for ever to an
\* address that never answered.
UnaddedPeersAreHeard ==
    \A e \in Endpoints :
        (peer[e].state # "ABSENT" /\ ~ peer[e].reconnect) => peer[e].heard

\* The wait before the next attempt never exceeds the back-off it was computed
\* from, which is within its bounds, and a failed peer has used up its attempts.
BackoffBounded ==
    \A e \in Endpoints : LET p == peer[e] IN
        /\ p.wait <= p.backoff
        /\ p.reconnect => p.backoff \in InitialBackoff..MaxBackoff
        /\ p.state = "FAILED" => p.attempts = MaxAttempts /\ p.reconnect

Established ==
    /\ peer["host"].state = "CONNECTED" /\ peer["host"].streaming
    /\ peer["client"].state = "CONNECTED"

\* As long as no packet is lost, none held back and nobody crashes, two processes
\* that are connected stay connected: no timer fires for a peer that is alive.
LosslessLinkHolds == [][Established /\ losses' = 0 /\ crashes' = 0 => Established']_vars

\* A client that is gone is dropped for good: the host does not stream to it.
DeadClientIsDropped ==
    <>[](pc["client"] = "down") => <>[](peer["host"].state # "CONNECTED")

\* Whatever packets are lost and however often the host crashes, a client that
\* added the host itself and had its first handshake answered, and a host that is
\* running, find each other again.
LinkRecovers ==
    <>[](/\ peer["client"].reconnect
         /\ peer["client"].state \notin {"ABSENT", "DISCOVERED", "CONNECTING"}
         /\ pc["host"] # "down")
        => []<>Established

-----------------------------------------------------------------------------
\* What a document says and the code does not do.

\* docs/architecture.md:207-208: CTRL_PAUSE pauses streaming and CTRL_RESUME
\* resumes it: nothing else makes a paused, connected host stream again.
PauseHolds ==
    [][(/\ peer["host"].state = "CONNECTED" /\ ~ peer["host"].streaming
        /\ peer'["host"].streaming)
            => "RESUME" \in wire["host"]]_vars
=============================================================================
