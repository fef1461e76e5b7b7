--------------------------- MODULE PeerLink_proofs ---------------------------
(***************************************************************************)
(* Type correctness of PeerLink and its invariants about sessions, streams *)
(* and the pace of reconnection, for every value of the constants: any     *)
(* timers, any number of losses and crashes, with or without TCP, outages  *)
(* and duplicates.                                                         *)
(*                                                                         *)
(* The inductive invariant is a property of one entry, Sound, that every   *)
(* function of the source preserves: one lemma per function, following the *)
(* calls, then one step per action.                                        *)
(*                                                                         *)
(* The last part follows the handshakes of an undisturbed link: one is     *)
(* always on its way, and each process hears of the other every second     *)
(* tick.                                                                   *)
(***************************************************************************)
EXTENDS PeerLink, TLAPS

\* The part about the reconnection context.
Paced(p) ==
    /\ p.wait <= p.backoff
    /\ p.reconnect => InitialBackoff <= p.backoff
    /\ p.state = "FAILED" => p.attempts = MaxAttempts /\ p.reconnect

Sound(e, p) ==
    /\ p \in Peer
    /\ p.state \in {"CONNECTED", "HANDSHAKE_RECEIVED"} => p.authenticated
    /\ p.reconnect => p.authenticated
    /\ (p.state # "ABSENT" /\ ~ p.reconnect) => p.heard
    /\ (e = "host" /\ p.streaming) => p.heard
    /\ Paced(p)

\* What a function promises its caller.
SoundResult(e, r) ==
    /\ r \in [peer : Peer, out : SUBSET Packets, ok : BOOLEAN]
    /\ Sound(e, r.peer)

Socks == [fallback : {"refused", "established", "broken"}, again : BOOLEAN,
          send : {"sent", "partial", "dead"}, read : {"nothing", "dead"}]

LEMMA SocketOutcomesType == ASSUME NEW e PROVE SocketOutcomes(e) \subseteq Socks
<1> DEFINE open == TcpReachable /\ ~ (netUp[e] /\ peer[e].transport = "UDP")
<1>2. CASE open
  BY <1>2 DEF SocketOutcomes, Socks
<1>3. CASE ~ open
  <2>1. SocketOutcomes(e) = {[fallback |-> "refused", again |-> FALSE, send |-> "dead", read |-> "dead"]}
    BY <1>3 DEF SocketOutcomes
  <2>2. [fallback |-> "refused", again |-> FALSE, send |-> "dead", read |-> "dead"] \in Socks
    BY DEF Socks
  <2> QED
    BY <2>1, <2>2
<1> QED
  BY <1>2, <1>3

LEMMA Ranges ==
    /\ 0 \in QuietAges /\ 0 \in IdleAges /\ 0 \in HandshakeAges /\ 0 \in Attempts /\ 0 \in Waits
    /\ Keepalive \in IdleAges /\ PeerTimeout \in HandshakeAges /\ MaxAttempts \in Attempts
    /\ InitialBackoff \in Waits
BY TimeAssumption DEF QuietAges, IdleAges, HandshakeAges, Attempts, Waits

LEMMA DoubledType ==
    ASSUME NEW b \in Waits
    PROVE  Doubled(b) \in Waits /\ (InitialBackoff <= b => InitialBackoff <= Doubled(b))
BY TimeAssumption DEF Doubled, Waits

LEMMA ZeroedType == ZeroedPeer \in Peer
BY Ranges DEF ZeroedPeer, Peer

LEMMA NoPeerSound == ASSUME NEW e \in Endpoints PROVE Sound(e, NoPeer)
BY ZeroedType DEF Sound, Paced, NoPeer, ZeroedPeer

LEMMA ResultSound ==
    ASSUME NEW e \in Endpoints, NEW p, Sound(e, p), NEW out \in SUBSET Packets, NEW ok \in BOOLEAN
    PROVE  SoundResult(e, Result(p, out, ok)) /\ Result(p, out, ok).peer = p
BY DEF SoundResult, Result, Sound

\* A handshake changes neither what the entry knows of the peer nor its session.
LEMMA HandshakeSound ==
    ASSUME NEW e \in Endpoints, NEW p, Sound(e, p), p.state # "ABSENT",
           NEW up \in BOOLEAN, NEW socks \in Socks
    PROVE  LET r == rootstream_net_handshake(p, up, socks)
           IN  /\ SoundResult(e, r)
               /\ r.peer.state # "ABSENT"
               /\ r.peer.reconnect = p.reconnect /\ r.peer.heard = p.heard
               /\ r.peer.authenticated = p.authenticated /\ r.peer.streaming = p.streaming
               /\ r.peer.wait = p.wait
<1> DEFINE r == rootstream_net_handshake(p, up, socks)
           \* What becomes of the entry, and whether a packet goes out.
           Kept(q) == /\ q \in Peer /\ q.state \in {p.state, "HANDSHAKE_SENT"}
                      /\ q.reconnect = p.reconnect /\ q.heard = p.heard
                      /\ q.authenticated = p.authenticated /\ q.streaming = p.streaming
                      /\ q.wait = p.wait /\ q.backoff = p.backoff /\ q.attempts = p.attempts
<1>1. p \in Peer /\ {"HANDSHAKE"} \in SUBSET Packets /\ {} \in SUBSET Packets
  BY DEF Sound, Packets
<1>2. ASSUME NEW q, Kept(q), NEW out \in SUBSET Packets, NEW ok \in BOOLEAN
      PROVE  /\ SoundResult(e, Result(q, out, ok)) /\ Result(q, out, ok).peer = q
             /\ q.state # "ABSENT"
  <2>1. Sound(e, q)
    BY <1>2 DEF Sound, Paced
  <2> QED
    BY <1>2, <2>1, ResultSound
<1>3. CASE up /\ p.state \in {"HANDSHAKE_RECEIVED", "CONNECTED"}
  <2> DEFINE q == [p EXCEPT !.idle = 0, !.transport = "UDP"]
  <2>1. Kept(q)
    BY <1>1, Ranges DEF Peer
  <2>2. r = Result(q, {"HANDSHAKE"}, TRUE)
    BY <1>3 DEF rootstream_net_handshake
  <2>3. SoundResult(e, r) /\ r.peer = q /\ q.state # "ABSENT"
    <3> HIDE DEF q, r, Kept
    <3> QED
      BY <1>1, <1>2, <2>1, <2>2
  <2> HIDE DEF q, r
  <2> QED
    BY <2>1, <2>3 DEF r
<1>4. CASE up /\ p.state \notin {"HANDSHAKE_RECEIVED", "CONNECTED"}
  <2> DEFINE q == [p EXCEPT !.idle = 0, !.transport = "UDP", !.state = "HANDSHAKE_SENT", !.hsAge = 0]
  <2>1. Kept(q)
    BY <1>1, Ranges DEF Peer, PeerStates
  <2>2. r = Result(q, {"HANDSHAKE"}, TRUE)
    BY <1>4 DEF rootstream_net_handshake
  <2>3. SoundResult(e, r) /\ r.peer = q /\ q.state # "ABSENT"
    <3> HIDE DEF q, r, Kept
    <3> QED
      BY <1>1, <1>2, <2>1, <2>2
  <2> HIDE DEF q, r
  <2> QED
    BY <2>1, <2>3 DEF r
<1>5. CASE ~ up /\ socks.fallback = "established"
  <2> DEFINE q == [p EXCEPT !.idle = 0, !.transport = "TCP", !.tcp = "open",
                            !.state = "HANDSHAKE_SENT", !.hsAge = 0]
  <2>1. Kept(q)
    BY <1>1, Ranges DEF Peer, PeerStates
  <2>2. r = Result(q, {}, TRUE)
    BY <1>5 DEF rootstream_net_handshake
  <2>3. SoundResult(e, r) /\ r.peer = q /\ q.state # "ABSENT"
    <3> HIDE DEF q, r, Kept
    <3> QED
      BY <1>1, <1>2, <2>1, <2>2
  <2> HIDE DEF q, r
  <2> QED
    BY <2>1, <2>3 DEF r
<1>6. CASE ~ up /\ socks.fallback = "broken"
  <2> DEFINE q == [p EXCEPT !.transport = "TCP", !.tcp = "closed"]
  <2>1. Kept(q)
    BY <1>1 DEF Peer
  <2>2. r = Result(q, {}, FALSE)
    BY <1>6 DEF rootstream_net_handshake
  <2>3. SoundResult(e, r) /\ r.peer = q /\ q.state # "ABSENT"
    <3> HIDE DEF q, r, Kept
    <3> QED
      BY <1>1, <1>2, <2>1, <2>2
  <2> HIDE DEF q, r
  <2> QED
    BY <2>1, <2>3 DEF r
<1>7. CASE ~ up /\ socks.fallback \notin {"established", "broken"}
  <2>1. Kept(p)
    BY <1>1
  <2>2. r = Result(p, {}, FALSE)
    BY <1>7 DEF rootstream_net_handshake
  <2>3. SoundResult(e, r) /\ r.peer = p
    <3> HIDE DEF r, Kept
    <3> QED
      BY <1>1, <1>2, <2>1, <2>2
  <2> HIDE DEF r
  <2> QED
    BY <2>1, <2>3 DEF r
<1> QED
  BY <1>3, <1>4, <1>5, <1>6, <1>7

LEMMA TcpConnectSound ==
    ASSUME NEW e \in Endpoints, NEW p, Sound(e, p), NEW answered \in BOOLEAN
    PROVE  LET r == rootstream_net_tcp_connect(p, answered)
           IN  /\ SoundResult(e, r)
               /\ r.peer.state = p.state /\ r.peer.reconnect = p.reconnect
               /\ r.peer.heard = p.heard /\ r.peer.authenticated = p.authenticated
               /\ r.peer.wait = p.wait
BY DEF Sound, Paced, SoundResult, Result, rootstream_net_tcp_connect, Peer

LEMMA RedialSound ==
    ASSUME NEW e \in Endpoints, NEW p, Sound(e, p), p.state # "ABSENT", p.reconnect,
           NEW up \in BOOLEAN, NEW socks \in Socks
    PROVE  LET r == Redial(p, up, socks)
           IN  SoundResult(e, r) /\ r.peer.reconnect /\ r.peer.state # "ABSENT" /\ r.peer.wait = p.wait
<1> DEFINE hs == rootstream_net_handshake(p, up, socks)
<1>0. socks.again \in BOOLEAN
  BY DEF Socks
<1>1. CASE p.transport = "TCP"
  BY <1>0, <1>1, TcpConnectSound DEF Redial
<1>2. CASE p.transport # "TCP"
  <2>1. /\ SoundResult(e, hs) /\ hs.peer.state # "ABSENT" /\ hs.peer.reconnect
        /\ hs.peer.wait = p.wait
    BY HandshakeSound
  <2>2. CASE hs.ok
    BY <1>2, <2>1, <2>2 DEF Redial
  <2>3. CASE ~ hs.ok
    <3>1. Redial(p, up, socks) = rootstream_net_tcp_connect(hs.peer, socks.again)
      BY <1>2, <2>3 DEF Redial
    <3>2. Sound(e, hs.peer)
      BY <2>1 DEF SoundResult
    <3> QED
      BY <1>0, <2>1, <3>1, <3>2, TcpConnectSound
  <2> QED
    BY <2>2, <2>3
<1> QED
  BY <1>1, <1>2

\* The reconnection code makes a peer CONNECTED without a handshake: its session
\* is the one rootstream_add_peer created together with the reconnect context.
LEMMA TryReconnectSound ==
    ASSUME NEW e \in Endpoints, NEW p, Sound(e, p), p.state # "ABSENT", p.reconnect,
           NEW up \in BOOLEAN, NEW socks \in Socks
    PROVE  LET r == peer_try_reconnect(p, up, socks)
           IN  SoundResult(e, r) /\ r.peer.state # "ABSENT"
<1> DEFINE dial == Redial(p, up, socks)
           q == dial.peer
<1>0. SoundResult(e, dial) /\ q.reconnect /\ q.state # "ABSENT" /\ q.wait = p.wait
  BY RedialSound
<1>1. Sound(e, q) /\ dial.out \in SUBSET Packets /\ dial.ok \in BOOLEAN
  BY <1>0 DEF SoundResult
<1> HIDE DEF dial
<1>2. CASE p.wait > 0
  <2>1. peer_try_reconnect(p, up, socks) = Result(p, {}, TRUE)
    BY <1>2 DEF peer_try_reconnect
  <2>2. SoundResult(e, Result(p, {}, TRUE)) /\ Result(p, {}, TRUE).peer = p
    BY ResultSound
  <2> QED
    BY <2>1, <2>2
<1>3. CASE ~ (p.wait > 0) /\ dial.ok
  <2> DEFINE n == [q EXCEPT !.attempts = 0, !.backoff = InitialBackoff, !.state = "CONNECTED"]
  <2>1. Sound(e, n) /\ n.state # "ABSENT"
    <3>1. q.wait = 0
      BY <1>0, <1>3, TimeAssumption DEF Sound, Peer, Waits
    <3>2. n \in Peer /\ n.state = "CONNECTED" /\ n.wait = q.wait /\ n.backoff = InitialBackoff
      BY <1>1, Ranges DEF Sound, Peer, PeerStates
    <3>3. Paced(n)
      BY <3>1, <3>2, TimeAssumption DEF Paced
    <3> QED
      BY <1>0, <1>1, <3>2, <3>3 DEF Sound
  <2>2. peer_try_reconnect(p, up, socks) = Result(n, dial.out, TRUE)
    BY <1>3 DEF peer_try_reconnect, dial
  <2> HIDE DEF n
  <2>3. SoundResult(e, Result(n, dial.out, TRUE)) /\ Result(n, dial.out, TRUE).peer = n
    BY <1>1, <2>1, ResultSound
  <2> QED
    BY <2>1, <2>2, <2>3
<1>4. CASE ~ (p.wait > 0) /\ ~ dial.ok /\ q.attempts + 1 >= MaxAttempts
  <2> DEFINE n == [q EXCEPT !.attempts = MaxAttempts, !.state = "FAILED"]
  <2>1. Sound(e, n) /\ n.state # "ABSENT"
    BY <1>0, <1>1, Ranges DEF Sound, Paced, Peer, PeerStates
  <2>2. peer_try_reconnect(p, up, socks) = Result(n, dial.out, FALSE)
    BY <1>4 DEF peer_try_reconnect, dial
  <2> HIDE DEF n
  <2>3. SoundResult(e, Result(n, dial.out, FALSE)) /\ Result(n, dial.out, FALSE).peer = n
    BY <1>1, <2>1, ResultSound
  <2> QED
    BY <2>1, <2>2, <2>3
<1>5. CASE ~ (p.wait > 0) /\ ~ dial.ok /\ ~ (q.attempts + 1 >= MaxAttempts)
  <2> DEFINE n == [q EXCEPT !.attempts = @ + 1, !.backoff = Doubled(@),
                            !.wait = Doubled(q.backoff)]
  <2>1. /\ q.attempts + 1 \in Attempts /\ Doubled(q.backoff) \in Waits
        /\ InitialBackoff <= Doubled(q.backoff)
    BY <1>0, <1>1, <1>5, TimeAssumption, DoubledType DEF Attempts, Sound, Paced, Peer
  <2>2. Sound(e, n) /\ n.state # "ABSENT"
    <3>1. /\ n \in Peer /\ n.state = q.state /\ n.reconnect = q.reconnect
          /\ n.wait = Doubled(q.backoff) /\ n.backoff = Doubled(q.backoff)
      BY <1>1, <2>1 DEF Sound, Peer
    <3>2. n.state # "FAILED"
      BY <1>1, <1>5, <3>1, TimeAssumption DEF Sound, Paced
    <3>3. Paced(n)
      <4> HIDE DEF n
      <4> QED
        BY <2>1, <3>1, <3>2, TimeAssumption DEF Paced, Waits
    <3>4. n.streaming = q.streaming /\ n.heard = q.heard /\ n.authenticated = q.authenticated
      BY <1>1 DEF Sound, Peer
    <3> HIDE DEF n
    <3> QED
      BY <1>0, <1>1, <3>1, <3>3, <3>4 DEF Sound
  <2>3. peer_try_reconnect(p, up, socks) = Result(n, dial.out, TRUE)
    BY <1>5 DEF peer_try_reconnect, dial
  <2> HIDE DEF n
  <2>4. SoundResult(e, Result(n, dial.out, TRUE)) /\ Result(n, dial.out, TRUE).peer = n
    BY <1>1, <2>2, ResultSound
  <2> QED
    BY <2>2, <2>3, <2>4
<1> QED
  BY <1>2, <1>3, <1>4, <1>5

LEMMA LoseConnectionSound ==
    ASSUME NEW e \in Endpoints, NEW p, Sound(e, p), p.state # "ABSENT",
           NEW up \in BOOLEAN, NEW socks \in Socks
    PROVE  LET r == LoseConnection(p, up, socks)
           IN  SoundResult(e, r) /\ r.peer.state # "ABSENT"
<1> DEFINE q == [p EXCEPT !.state = "DISCONNECTED"]
<1>1. Sound(e, q) /\ q.state # "ABSENT"
  BY DEF Sound, Paced, Peer, PeerStates
<1>2. CASE q.reconnect
  <2>1. LoseConnection(p, up, socks) = peer_try_reconnect(q, up, socks)
    BY <1>2 DEF LoseConnection
  <2> HIDE DEF q
  <2> QED
    BY <1>1, <1>2, <2>1, TryReconnectSound
<1>3. CASE ~ q.reconnect
  BY <1>1, <1>3 DEF LoseConnection, SoundResult, Result, Sound
<1> QED
  BY <1>2, <1>3

LEMMA SendSound ==
    ASSUME NEW e \in Endpoints, NEW p, Sound(e, p), NEW type \in Packets,
           NEW up \in BOOLEAN, NEW socks \in Socks
    PROVE  SoundResult(e, rootstream_net_send_encrypted(p, type, up, socks))
<1> DEFINE r == rootstream_net_send_encrypted(p, type, up, socks)
<1>1. CASE ~ (CanSend(p) /\ Encryptable(type))
  BY <1>1, ResultSound DEF rootstream_net_send_encrypted
<1>2. CASE CanSend(p) /\ Encryptable(type) /\ p.transport = "UDP" /\ up
  <2> DEFINE n == [p EXCEPT !.idle = 0]
  <2>1. Sound(e, n)
    BY Ranges DEF Sound, Paced, Peer
  <2>2. r = Result(n, {type}, TRUE)
    BY <1>2 DEF rootstream_net_send_encrypted
  <2> HIDE DEF r, n
  <2> QED
    BY <2>1, <2>2, ResultSound DEF r
<1>3. CASE /\ CanSend(p) /\ Encryptable(type) /\ ~ (p.transport = "UDP" /\ up)
           /\ p.transport = "TCP" /\ p.tcp = "open" /\ socks.send = "sent"
  <2> DEFINE n == [p EXCEPT !.idle = 0]
  <2>1. Sound(e, n)
    BY Ranges DEF Sound, Paced, Peer
  <2>2. r = Result(n, {}, TRUE)
    BY <1>3 DEF rootstream_net_send_encrypted
  <2> HIDE DEF r, n
  <2> QED
    BY <2>1, <2>2, ResultSound DEF r
<1>4. CASE /\ CanSend(p) /\ Encryptable(type) /\ ~ (p.transport = "UDP" /\ up)
           /\ ~ (p.transport = "TCP" /\ p.tcp = "open" /\ socks.send = "sent")
  <2> DEFINE q == IF p.transport = "TCP" /\ socks.send = "dead"
                  THEN [p EXCEPT !.tcp = IF @ = "open" THEN "closed" ELSE @] ELSE p
             l == LoseConnection(q, up, socks)
  <2>1. Sound(e, q) /\ q.state # "ABSENT"
    BY <1>4 DEF Sound, Paced, Peer, CanSend
  <2>2. SoundResult(e, l)
    BY <2>1, LoseConnectionSound
  <2>3. r = [l EXCEPT !.ok = FALSE]
    BY <1>4 DEF rootstream_net_send_encrypted
  <2> HIDE DEF r, l
  <2> QED
    BY <2>2, <2>3 DEF SoundResult, r
<1> QED
  BY <1>1, <1>2, <1>3, <1>4

-----------------------------------------------------------------------------
\* What arrives.

LEMMA ReceiveHandshakeSound ==
    ASSUME NEW e \in Endpoints, NEW p, Sound(e, p), p.heard, p.state # "ABSENT",
           NEW up \in BOOLEAN, NEW socks \in Socks
    PROVE  SoundResult(e, ReceiveHandshake(e, p, up, socks))
<1> DEFINE q  == [p EXCEPT !.authenticated = TRUE, !.state = "HANDSHAKE_RECEIVED"]
           hs == rootstream_net_handshake(q, up, socks)
           r  == [hs.peer EXCEPT !.state = "CONNECTED"]
           st == [r EXCEPT !.streaming = TRUE]
           kf == rootstream_net_send_encrypted(r, "KEYFRAME", up, socks)
           d  == [p EXCEPT !.state = "DISCONNECTED"]
<1>1. Sound(e, q) /\ q.state # "ABSENT" /\ q.heard /\ q.authenticated
  BY DEF Sound, Paced, Peer, PeerStates
<1>2. SoundResult(e, hs) /\ hs.peer.heard /\ hs.peer.authenticated
  <2> HIDE DEF q
  <2> QED
    BY <1>1, HandshakeSound
<1>3. Sound(e, hs.peer) /\ hs.out \in SUBSET Packets
  BY <1>2 DEF SoundResult
<1>4. Sound(e, d)
  BY DEF Sound, Paced, Peer, PeerStates
<1> HIDE DEF hs
<1>5. Sound(e, r) /\ Sound(e, st)
  BY <1>2, <1>3 DEF Sound, Paced, Peer, PeerStates
<1> HIDE DEF r
<1>6. SoundResult(e, kf)
  BY <1>5, SendSound DEF Packets
<1>7. Sound(e, kf.peer) /\ hs.out \union kf.out \in SUBSET Packets
  BY <1>3, <1>6 DEF SoundResult
<1> HIDE DEF kf, st, d
<1>8. /\ SoundResult(e, Result(d, {}, TRUE))
      /\ SoundResult(e, Result(st, hs.out, TRUE))
      /\ SoundResult(e, Result(kf.peer, hs.out \union kf.out, TRUE))
  BY <1>3, <1>4, <1>5, <1>7, ResultSound
<1>9. ReceiveHandshake(e, p, up, socks) =
        IF ~ AcceptsVersion[e] THEN Result(d, {}, TRUE)
        ELSE IF ~ hs.ok THEN hs
        ELSE IF e = "host" THEN Result(st, hs.out, TRUE)
        ELSE Result(kf.peer, hs.out \union kf.out, TRUE)
  BY DEF ReceiveHandshake, d, st, kf, hs, r
<1> QED
  BY <1>2, <1>8, <1>9

LEMMA ReceiveControlSound ==
    ASSUME NEW e \in Endpoints, NEW p, Sound(e, p), p.heard, NEW m
    PROVE  Sound(e, ReceiveControl(p, m))
BY DEF ReceiveControl, Sound, Paced, Peer, PeerStates

LEMMA ProcessSound ==
    ASSUME NEW e \in Endpoints, NEW p, Sound(e, p), NEW m \in Packets,
           NEW up \in BOOLEAN, NEW socks \in Socks
    PROVE  SoundResult(e, process_received_packet(e, p, m, up, socks))
<1> DEFINE slot == SlotFor(p, m)
           q == [slot EXCEPT !.heard = TRUE, !.quiet = 0]
           c == ReceiveControl(q, m)
<1>1. CASE slot.state = "ABSENT"
  BY <1>1, ResultSound DEF process_received_packet
<1>2. CASE slot.state # "ABSENT"
  <2>1. /\ slot \in Peer
        /\ slot.state \in {"CONNECTED", "HANDSHAKE_RECEIVED"} => slot.authenticated
        /\ slot.reconnect => slot.authenticated
        /\ Paced(slot)
    <3>1. CASE p.state = "ABSENT" /\ m = "HANDSHAKE"
      <4>1. slot = [ZeroedPeer EXCEPT !.state = "CONNECTING"]
        BY <3>1 DEF SlotFor
      <4>2. slot \in Peer
        BY <4>1, ZeroedType DEF Peer, PeerStates
      <4>3. /\ slot.state = "CONNECTING" /\ slot.reconnect = FALSE
            /\ slot.wait = 0 /\ slot.backoff = 0
        BY <4>1 DEF ZeroedPeer
      <4> QED
        BY <4>2, <4>3 DEF Paced
    <3>2. CASE ~ (p.state = "ABSENT" /\ m = "HANDSHAKE")
      BY <3>2 DEF SlotFor, Sound, Paced
    <3> QED
      BY <3>1, <3>2
  <2>2. Sound(e, q) /\ q.heard /\ q.state # "ABSENT"
    <3> HIDE DEF slot
    <3> QED
      BY <1>2, <2>1, Ranges DEF Sound, Paced, Peer
  <2> HIDE DEF q
  <2>3. SoundResult(e, ReceiveHandshake(e, q, up, socks))
    BY <2>2, ReceiveHandshakeSound
  <2>4. SoundResult(e, rootstream_net_send_encrypted(q, "PONG", up, socks))
    BY <2>2, SendSound DEF Packets
  <2>5. Sound(e, c)
    BY <2>2, ReceiveControlSound
  <2> HIDE DEF c
  <2>6. SoundResult(e, Result(c, {}, TRUE)) /\ SoundResult(e, Result(q, {}, TRUE))
    BY <2>2, <2>5, ResultSound
  <2>7. process_received_packet(e, p, m, up, socks) =
          IF m = "HANDSHAKE" THEN ReceiveHandshake(e, q, up, socks)
          ELSE IF m = "PING" THEN rootstream_net_send_encrypted(q, "PONG", up, socks)
          ELSE IF q.authenticated THEN Result(c, {}, TRUE) ELSE Result(q, {}, TRUE)
    BY <1>2 DEF process_received_packet, q, c
  <2> QED
    BY <2>3, <2>4, <2>6, <2>7
<1> QED
  BY <1>1, <1>2

LEMMA ReconnectPassSound ==
    ASSUME NEW e \in Endpoints, NEW p, Sound(e, p), NEW up \in BOOLEAN, NEW socks \in Socks
    PROVE  SoundResult(e, ReconnectPass(p, up, socks))
<1> DEFINE r == peer_try_reconnect(p, up, socks)
<1>1. CASE p.state = "DISCONNECTED" /\ p.reconnect
  <2>1. SoundResult(e, r)
    BY <1>1, TryReconnectSound
  <2>2. ReconnectPass(p, up, socks) = IF r.ok THEN r ELSE [r EXCEPT !.peer = NoPeer]
    BY <1>1 DEF ReconnectPass
  <2> HIDE DEF r
  <2> QED
    BY <2>1, <2>2, NoPeerSound DEF SoundResult, Sound
<1>2. CASE ~ (p.state = "DISCONNECTED" /\ p.reconnect)
  BY <1>2, ResultSound DEF ReconnectPass
<1> QED
  BY <1>1, <1>2

LEMMA TcpPassSound ==
    ASSUME NEW e \in Endpoints, NEW p, Sound(e, p), NEW up \in BOOLEAN, NEW socks \in Socks
    PROVE  SoundResult(e, TcpPass(p, up, socks))
<1> DEFINE fails == p.transport = "TCP" /\ p.state = "CONNECTED" /\ (p.tcp # "open" \/ socks.read = "dead")
           q == [p EXCEPT !.tcp = IF @ = "open" THEN "closed" ELSE @]
<1>1. CASE fails
  <2>1. Sound(e, q) /\ q.state # "ABSENT"
    BY <1>1 DEF Sound, Paced, Peer
  <2>2. TcpPass(p, up, socks) = LoseConnection(q, up, socks)
    BY <1>1 DEF TcpPass
  <2> HIDE DEF q
  <2> QED
    BY <2>1, <2>2, LoseConnectionSound
<1>2. CASE ~ fails
  BY <1>2, ResultSound DEF TcpPass
<1> QED
  BY <1>1, <1>2

LEMMA NetRecvSound ==
    ASSUME NEW e \in Endpoints, NEW p, Sound(e, p), NEW m \in Packets \union {"none"},
           NEW up \in BOOLEAN, NEW socks \in Socks
    PROVE  SoundResult(e, rootstream_net_recv(e, p, m, up, socks))
<1> DEFINE dial == ReconnectPass(p, up, socks)
           udp  == IF m = "none" THEN Result(dial.peer, {}, TRUE)
                   ELSE process_received_packet(e, dial.peer, m, up, socks)
           tcp  == TcpPass(udp.peer, up, socks)
<1>1. Sound(e, dial.peer) /\ dial.out \in SUBSET Packets
  BY ReconnectPassSound DEF SoundResult
<1> HIDE DEF dial
<1>2. SoundResult(e, udp)
  BY <1>1, ProcessSound, ResultSound
<1>3. Sound(e, udp.peer) /\ udp.out \in SUBSET Packets
  BY <1>2 DEF SoundResult
<1> HIDE DEF udp
<1>4. Sound(e, tcp.peer) /\ tcp.out \in SUBSET Packets
  BY <1>3, TcpPassSound DEF SoundResult
<1>5. rootstream_net_recv(e, p, m, up, socks)
        = Result(tcp.peer, dial.out \union udp.out \union tcp.out, TRUE)
  BY DEF rootstream_net_recv, dial, udp
<1> HIDE DEF tcp
<1>6. dial.out \union udp.out \union tcp.out \in SUBSET Packets
  BY <1>1, <1>3, <1>4
<1> QED
  BY <1>4, <1>5, <1>6, ResultSound

-----------------------------------------------------------------------------
\* Timers, health checks and the user.

LEMMA DisconnectedSound ==
    ASSUME NEW e \in Endpoints, NEW p, Sound(e, p), p.state # "ABSENT"
    PROVE  /\ Sound(e, [p EXCEPT !.state = "DISCONNECTED"])
           /\ Sound(e, [p EXCEPT !.state = "DISCONNECTED", !.streaming = FALSE])
BY DEF Sound, Paced, Peer, PeerStates

LEMMA TickHandshakeSound ==
    ASSUME NEW e \in Endpoints, NEW p, Sound(e, p), p.state # "ABSENT",
           NEW up \in BOOLEAN, NEW socks \in Socks, NEW late \in BOOLEAN
    PROVE  SoundResult(e, TickHandshake(p, up, socks, late))
<1> DEFINE hs == IF p.hsAge >= HandshakeRetry THEN rootstream_net_handshake(p, up, socks)
                 ELSE Result(p, {}, TRUE)
           d == [hs.peer EXCEPT !.state = "DISCONNECTED"]
           expired == hs.peer.hsAge >= PeerTimeout \/ (late /\ p.hsAge >= HandshakeRetry /\ hs.ok)
<1>1. SoundResult(e, hs) /\ hs.peer.state # "ABSENT"
  <2>1. CASE p.hsAge >= HandshakeRetry
    BY <2>1, HandshakeSound
  <2>2. CASE ~ (p.hsAge >= HandshakeRetry)
    BY <2>2, ResultSound
  <2> QED
    BY <2>1, <2>2
<1>2. Sound(e, hs.peer) /\ hs.out \in SUBSET Packets
  BY <1>1 DEF SoundResult
<1>3. TickHandshake(p, up, socks, late) = Result(IF expired THEN d ELSE hs.peer, hs.out, TRUE)
  BY DEF TickHandshake
<1> HIDE DEF hs
<1>4. Sound(e, d)
  BY <1>1, <1>2, DisconnectedSound
<1> HIDE DEF d, expired
<1>5. Sound(e, IF expired THEN d ELSE hs.peer)
  BY <1>2, <1>4
<1>6. SoundResult(e, Result(IF expired THEN d ELSE hs.peer, hs.out, TRUE))
  BY <1>2, <1>5, ResultSound
<1> QED
  BY <1>3, <1>6

LEMMA NetTickSound ==
    ASSUME NEW e \in Endpoints, NEW p, Sound(e, p),
           NEW up \in BOOLEAN, NEW socks \in Socks, NEW late \in BOOLEAN
    PROVE  SoundResult(e, rootstream_net_tick(p, up, socks, late))
<1>1. CASE p.state = "HANDSHAKE_SENT"
  BY <1>1, TickHandshakeSound DEF rootstream_net_tick
<1>2. CASE p.state = "CONNECTED"
  <2> DEFINE d == [p EXCEPT !.state = "DISCONNECTED", !.streaming = FALSE]
  <2>1. Sound(e, d)
    BY <1>2, DisconnectedSound
  <2>2. rootstream_net_tick(p, up, socks, late) = TickConnected(p, up, socks)
    BY <1>2 DEF rootstream_net_tick
  <2>3. \/ TickConnected(p, up, socks) = Result(d, {}, TRUE)
        \/ TickConnected(p, up, socks) = rootstream_net_send_encrypted(p, "PING", up, socks)
        \/ TickConnected(p, up, socks) = Result(p, {}, TRUE)
    BY DEF TickConnected
  <2> HIDE DEF d
  <2>4. SoundResult(e, Result(d, {}, TRUE)) /\ SoundResult(e, Result(p, {}, TRUE))
    BY <2>1, ResultSound
  <2>5. SoundResult(e, rootstream_net_send_encrypted(p, "PING", up, socks))
    BY SendSound DEF Packets
  <2> QED
    BY <2>2, <2>3, <2>4, <2>5
<1>3. CASE p.state \notin {"HANDSHAKE_SENT", "CONNECTED"}
  BY <1>3, ResultSound DEF rootstream_net_tick
<1> QED
  BY <1>1, <1>2, <1>3

LEMMA HealthSound ==
    ASSUME NEW e \in Endpoints, NEW p, Sound(e, p), NEW up \in BOOLEAN, NEW socks \in Socks
    PROVE  SoundResult(e, check_peer_health(p, up, socks))
<1>1. CASE p.state = "CONNECTED" /\ p.heard /\ p.quiet > HealthTimeout
  BY <1>1, LoseConnectionSound DEF check_peer_health
<1>2. CASE ~ (p.state = "CONNECTED" /\ p.heard /\ p.quiet > HealthTimeout)
  BY <1>2, ResultSound DEF check_peer_health
<1> QED
  BY <1>1, <1>2

\* The session and the reconnect context are made together.
LEMMA AddPeerSound ==
    ASSUME NEW e \in Endpoints, NEW p, Sound(e, p)
    PROVE  Sound(e, rootstream_add_peer(p)) /\ rootstream_add_peer(p).state # "ABSENT"
<1>1. CASE p.state = "ABSENT"
  <2> DEFINE n == [ZeroedPeer EXCEPT !.state = "DISCOVERED", !.authenticated = TRUE,
                                     !.reconnect = TRUE, !.backoff = InitialBackoff]
  <2>1. n \in Peer
    BY ZeroedType, Ranges DEF Peer, PeerStates
  <2>2. /\ n.state = "DISCOVERED" /\ n.authenticated = TRUE /\ n.reconnect = TRUE
        /\ n.streaming = FALSE /\ n.wait = 0 /\ n.backoff = InitialBackoff
    BY DEF ZeroedPeer
  <2>3. rootstream_add_peer(p) = n
    BY <1>1 DEF rootstream_add_peer
  <2> HIDE DEF n
  <2> QED
    BY <2>1, <2>2, <2>3, TimeAssumption DEF Sound, Paced
<1>2. CASE p.state # "ABSENT"
  BY <1>2 DEF rootstream_add_peer, Sound, Paced, Peer
<1> QED
  BY <1>1, <1>2

LEMMA ConnectSound ==
    ASSUME NEW e \in Endpoints, NEW p, Sound(e, p), NEW resolved \in BOOLEAN,
           NEW up \in BOOLEAN, NEW socks \in Socks
    PROVE  SoundResult(e, rootstream_connect_to_peer(p, resolved, up, socks))
<1> DEFINE a == rootstream_add_peer(p)
           hs == rootstream_net_handshake(a, up, socks)
           c == [hs EXCEPT !.peer.state = "CONNECTING"]
<1>0. Sound(e, a) /\ a.state # "ABSENT"
  BY AddPeerSound
<1>1. SoundResult(e, hs) /\ SoundResult(e, Result(a, {}, FALSE))
  <2> HIDE DEF a
  <2> QED
    BY <1>0, HandshakeSound, ResultSound
<1>2. rootstream_connect_to_peer(p, resolved, up, socks) =
        IF ~ resolved THEN Result(a, {}, FALSE) ELSE IF hs.ok THEN c ELSE hs
  BY DEF rootstream_connect_to_peer
<1> HIDE DEF hs
<1>3. SoundResult(e, c)
  <2>1. hs.peer.state # "ABSENT"
    <3> HIDE DEF a
    <3> QED
      BY <1>0, HandshakeSound DEF hs
  <2> QED
    BY <1>1, <2>1 DEF SoundResult, Sound, Paced, Peer, PeerStates
<1> QED
  BY <1>1, <1>2, <1>3

\* A client's own commands are the only ones: they set its own streaming flag.
LEMMA CommandSound ==
    ASSUME NEW p, Sound("client", p), NEW cmd \in Commands, NEW up \in BOOLEAN, NEW socks \in Socks
    PROVE  SoundResult("client", SendCommand(p, cmd, up, socks))
<1> DEFINE r == rootstream_net_send_encrypted(p, cmd, up, socks)
           s == [r EXCEPT !.peer.streaming = (cmd = "RESUME")]
<1>1. cmd \in Packets
  BY EnvironmentAssumption DEF Packets
<1>2. SoundResult("client", r)
  BY <1>1, SendSound DEF Endpoints
<1>3. SendCommand(p, cmd, up, socks) = IF ~ r.ok \/ cmd = "DISCONNECT" THEN r ELSE s
  BY DEF SendCommand
<1> HIDE DEF r
<1>4. SoundResult("client", s)
  BY <1>2 DEF SoundResult, Sound, Paced, Peer
<1> QED
  BY <1>2, <1>3, <1>4

LEMMA AgedSound ==
    ASSUME NEW e \in Endpoints, NEW p, Sound(e, p)
    PROVE  Sound(e, Aged(p))
<1> DEFINE w == IF p.wait = 0 THEN 0 ELSE p.wait - 1
<1>1. /\ p.quiet \in QuietAges /\ p.idle \in IdleAges
      /\ p.hsAge \in HandshakeAges /\ p.wait \in Waits
  BY DEF Sound, Paced, Peer
<1>2. /\ Older(p.quiet, HealthTimeout + 1) \in QuietAges
      /\ Older(p.idle, Keepalive) \in IdleAges
      /\ Older(p.hsAge, PeerTimeout) \in HandshakeAges
  BY <1>1, TimeAssumption DEF Older, QuietAges, IdleAges, HandshakeAges
<1>3. w \in Waits /\ w <= p.wait
  BY <1>1, TimeAssumption DEF Waits
<1>4. Aged(p) = [p EXCEPT !.quiet = Older(p.quiet, HealthTimeout + 1),
                          !.idle = Older(p.idle, Keepalive),
                          !.hsAge = Older(p.hsAge, PeerTimeout), !.wait = w]
  BY DEF Aged, Sound, Peer
<1> HIDE DEF w
<1>5. p.backoff \in Waits /\ w <= p.backoff
  BY <1>1, <1>3, TimeAssumption DEF Sound, Paced, Peer, Waits
<1> QED
  BY <1>2, <1>3, <1>4, <1>5 DEF Sound, Paced, Peer

-----------------------------------------------------------------------------
\* The steps.

IInv == TypeOK /\ \A e \in Endpoints : Sound(e, peer[e])

\* A handler that ends in Emit keeps the entries sound and the wire well typed.
LEMMA EmitSound ==
    ASSUME IInv, NEW e \in Endpoints, NEW r, SoundResult(e, r), Emit(e, r)
    PROVE  /\ peer' \in [Endpoints -> Peer] /\ wire' \in [Endpoints -> SUBSET Packets]
           /\ \A f \in Endpoints : Sound(f, peer'[f])
<1>1. Other(e) \in Endpoints
  BY DEF Other, Endpoints
<1>2. r.peer \in Peer /\ r.out \in SUBSET Packets /\ Sound(e, r.peer)
  BY DEF SoundResult
<1>3. peer \in [Endpoints -> Peer] /\ wire \in [Endpoints -> SUBSET Packets]
  BY DEF IInv, TypeOK
<1>4. peer' = [peer EXCEPT ![e] = r.peer]
  BY DEF Emit
<1>5. wire' = [wire EXCEPT ![Other(e)] = wire[Other(e)] \union r.out]
  BY DEF Emit
<1>6. \A f \in Endpoints : Sound(f, peer[f])
  BY DEF IInv
<1>7. \A f \in Endpoints : Sound(f, peer'[f])
  BY <1>2, <1>3, <1>4, <1>6
<1> QED
  BY <1>1, <1>2, <1>3, <1>4, <1>5, <1>7

\* Initially there is no entry, no packet and nothing to be wrong about.
LEMMA InitIInv == Init => IInv
<1> SUFFICES ASSUME Init PROVE IInv
  OBVIOUS
<1>1. \A e \in Endpoints : Sound(e, peer[e])
  BY NoPeerSound DEF Init
<1>2. TypeOK
  BY <1>1, EnvironmentAssumption DEF Init, TypeOK, Sound, NoPeer
<1> QED
  BY <1>1, <1>2 DEF IInv

LEMMA NextIInv == IInv /\ [Next]_vars => IInv'
<1> SUFFICES ASSUME IInv, [Next]_vars PROVE IInv'
  OBVIOUS
<1>t. /\ peer \in [Endpoints -> Peer] /\ wire \in [Endpoints -> SUBSET Packets]
      /\ pc \in [Endpoints -> {"down", "recv", "tick", "health", "stream"}]
      /\ netUp \in [Endpoints -> BOOLEAN] /\ due \in [Endpoints -> SUBSET Packets]
      /\ losses \in 0..MaxLosses /\ crashes \in 0..MaxCrashes
      /\ \A e \in Endpoints : Sound(e, peer[e])
  BY DEF IInv, TypeOK
<1>e. "host" \in Endpoints /\ "client" \in Endpoints
  BY DEF Endpoints
<1>u. \A e \in Endpoints : netUp[e] \in BOOLEAN
  BY <1>t
<1>1. CASE Stream
  <2>1. PICK socks \in SocketOutcomes("host") :
          Emit("host", IF peer["host"].state = "CONNECTED" /\ peer["host"].streaming
                       THEN rootstream_net_send_encrypted(peer["host"], "VIDEO", netUp["host"], socks)
                       ELSE Result(peer["host"], {}, TRUE))
    BY <1>1 DEF Stream
  <2>2. socks \in Socks
    BY SocketOutcomesType
  <2> DEFINE r == IF peer["host"].state = "CONNECTED" /\ peer["host"].streaming
                  THEN rootstream_net_send_encrypted(peer["host"], "VIDEO", netUp["host"], socks)
                  ELSE Result(peer["host"], {}, TRUE)
  <2>3. SoundResult("host", r)
    <3>1. SoundResult("host", rootstream_net_send_encrypted(peer["host"], "VIDEO", netUp["host"], socks))
      BY <1>t, <1>e, <1>u, <2>2, SendSound DEF Packets
    <3>2. SoundResult("host", Result(peer["host"], {}, TRUE))
      BY <1>t, <1>e, ResultSound
    <3> QED
      BY <3>1, <3>2
  <2> HIDE DEF r
  <2>4. Emit("host", r)
    BY <2>1 DEF r
  <2>5. /\ peer' \in [Endpoints -> Peer] /\ wire' \in [Endpoints -> SUBSET Packets]
        /\ \A f \in Endpoints : Sound(f, peer'[f])
    BY <1>e, <2>3, <2>4, EmitSound
  <2> QED
    BY <1>1, <1>t, <2>5 DEF Stream, Step, IInv, TypeOK
<1>2. CASE Health
  <2>1. PICK socks \in SocketOutcomes("host") :
          Emit("host", check_peer_health(peer["host"], netUp["host"], socks))
    BY <1>2 DEF Health
  <2>2. socks \in Socks
    BY SocketOutcomesType
  <2>3. SoundResult("host", check_peer_health(peer["host"], netUp["host"], socks))
    BY <1>t, <1>e, <1>u, <2>2, HealthSound
  <2>4. /\ peer' \in [Endpoints -> Peer] /\ wire' \in [Endpoints -> SUBSET Packets]
        /\ \A f \in Endpoints : Sound(f, peer'[f])
    BY <1>e, <2>1, <2>3, EmitSound
  <2> QED
    BY <1>2, <1>t, <2>4 DEF Health, Step, IInv, TypeOK
<1>3. ASSUME NEW e \in Endpoints, NEW m \in Packets \union {"none"}, Recv(e, m) PROVE IInv'
  <2>1. PICK socks \in SocketOutcomes(e), keep \in {FALSE, Duplicates} :
          LET r == rootstream_net_recv(e, peer[e], m, netUp[e], socks)
          IN  /\ peer' = [peer EXCEPT ![e] = r.peer]
              /\ wire' = [wire EXCEPT ![Other(e)] = @ \union r.out,
                                      ![e] = IF keep THEN @ ELSE @ \ {m}]
    BY <1>3 DEF Recv
  <2>2. socks \in Socks
    BY SocketOutcomesType
  <2> DEFINE r == rootstream_net_recv(e, peer[e], m, netUp[e], socks)
  <2>3. SoundResult(e, r)
    BY <1>t, <1>u, <2>2, NetRecvSound
  <2>4. r.peer \in Peer /\ r.out \in SUBSET Packets /\ Sound(e, r.peer)
    BY <2>3 DEF SoundResult
  <2>5. peer' = [peer EXCEPT ![e] = r.peer]
    BY <2>1
  <2>6. wire' = [wire EXCEPT ![Other(e)] = @ \union r.out, ![e] = IF keep THEN @ ELSE @ \ {m}]
    BY <2>1
  <2> HIDE DEF r
  <2>7. Other(e) \in Endpoints
    BY DEF Other, Endpoints
  <2>8. [wire EXCEPT ![Other(e)] = @ \union r.out] \in [Endpoints -> SUBSET Packets]
    BY <1>t, <2>4, <2>7
  <2>9. wire' \in [Endpoints -> SUBSET Packets]
    BY <2>6, <2>8
  <2>10. peer' \in [Endpoints -> Peer] /\ \A f \in Endpoints : Sound(f, peer'[f])
    BY <1>t, <2>4, <2>5
  <2>11. due' \in [Endpoints -> SUBSET Packets]
    BY <1>t, <1>3 DEF Recv
  <2>12. pc' \in [Endpoints -> {"down", "recv", "tick", "health", "stream"}]
    BY <1>t, <1>3 DEF Recv, Step
  <2> QED
    BY <1>t, <1>3, <2>9, <2>10, <2>11, <2>12 DEF Recv, IInv, TypeOK
<1>4. ASSUME NEW e \in Endpoints, Tick(e) PROVE IInv'
  <2>1. PICK socks \in SocketOutcomes(e), late \in BOOLEAN :
          Emit(e, rootstream_net_tick(peer[e], netUp[e], socks, late))
    BY <1>4 DEF Tick
  <2>2. socks \in Socks
    BY SocketOutcomesType
  <2>3. SoundResult(e, rootstream_net_tick(peer[e], netUp[e], socks, late))
    BY <1>t, <1>u, <2>2, NetTickSound
  <2>4. /\ peer' \in [Endpoints -> Peer] /\ wire' \in [Endpoints -> SUBSET Packets]
        /\ \A f \in Endpoints : Sound(f, peer'[f])
    BY <2>1, <2>3, EmitSound
  <2> QED
    BY <1>4, <1>t, <2>4 DEF Tick, Step, IInv, TypeOK
<1>5. ASSUME NEW e \in Endpoints, Connect(e) PROVE IInv'
  <2>1. PICK socks \in SocketOutcomes(e), resolved \in BOOLEAN :
          Emit(e, rootstream_connect_to_peer(peer[e], resolved, netUp[e], socks))
    BY <1>5 DEF Connect
  <2>2. socks \in Socks
    BY SocketOutcomesType
  <2>3. SoundResult(e, rootstream_connect_to_peer(peer[e], resolved, netUp[e], socks))
    BY <1>t, <1>u, <2>2, ConnectSound
  <2>4. /\ peer' \in [Endpoints -> Peer] /\ wire' \in [Endpoints -> SUBSET Packets]
        /\ \A f \in Endpoints : Sound(f, peer'[f])
    BY <2>1, <2>3, EmitSound
  <2> QED
    BY <1>5, <1>t, <2>4 DEF Connect, IInv, TypeOK
<1>6. ASSUME NEW cmd \in Commands, Command(cmd) PROVE IInv'
  <2>1. PICK socks \in SocketOutcomes("client") :
          Emit("client", SendCommand(peer["client"], cmd, netUp["client"], socks))
    BY <1>6 DEF Command
  <2>2. socks \in Socks
    BY SocketOutcomesType
  <2>3. SoundResult("client", SendCommand(peer["client"], cmd, netUp["client"], socks))
    BY <1>t, <1>e, <1>u, <2>2, CommandSound
  <2>4. /\ peer' \in [Endpoints -> Peer] /\ wire' \in [Endpoints -> SUBSET Packets]
        /\ \A f \in Endpoints : Sound(f, peer'[f])
    BY <1>e, <2>1, <2>3, EmitSound
  <2> QED
    BY <1>6, <1>t, <2>4 DEF Command, IInv, TypeOK
<1>7. CASE ClockTick
  <2>1. \A e \in Endpoints : Sound(e, Aged(peer[e]))
    BY <1>t, AgedSound
  <2>2. \A e \in Endpoints : Sound(e, peer'[e]) /\ peer'[e] \in Peer
    BY <1>7, <1>t, <2>1 DEF ClockTick, Sound
  <2>3. peer' \in [Endpoints -> Peer]
    BY <1>7, <2>2 DEF ClockTick
  <2> QED
    BY <1>7, <1>t, <2>2, <2>3 DEF ClockTick, IInv, TypeOK
<1>8. ASSUME NEW e \in Endpoints, NEW m \in Packets, Lose(e, m) PROVE IInv'
  <2>1. losses' \in 0..MaxLosses
    BY <1>8, <1>t, EnvironmentAssumption DEF Lose
  <2>2. wire' \in [Endpoints -> SUBSET Packets] /\ due' \in [Endpoints -> SUBSET Packets]
    BY <1>8, <1>t DEF Lose
  <2> QED
    BY <1>8, <1>t, <2>1, <2>2 DEF Lose, IInv, TypeOK
<1>9. ASSUME NEW e \in Endpoints, NetChange(e) PROVE IInv'
  BY <1>9, <1>t DEF NetChange, IInv, TypeOK
<1>10. ASSUME NEW e \in Endpoints, Crash(e) PROVE IInv'
  <2>1. Sound(e, NoPeer) /\ NoPeer \in Peer
    BY NoPeerSound DEF Sound
  <2>2. peer' \in [Endpoints -> Peer] /\ \A f \in Endpoints : Sound(f, peer'[f])
    BY <1>10, <1>t, <2>1 DEF Crash
  <2>3. crashes' \in 0..MaxCrashes
    BY <1>10, <1>t, EnvironmentAssumption DEF Crash
  <2> QED
    BY <1>10, <1>t, <2>2, <2>3 DEF Crash, IInv, TypeOK
<1>11. ASSUME NEW e \in Endpoints, Restart(e) PROVE IInv'
  BY <1>11, <1>t DEF Restart, IInv, TypeOK
<1>12. CASE UNCHANGED vars
  BY <1>12 DEF vars, IInv, TypeOK
<1> QED
  BY <1>1, <1>2, <1>3, <1>4, <1>5, <1>6, <1>7, <1>8, <1>9, <1>10, <1>11, <1>12 DEF Next

LEMMA Invariance == Spec => []IInv
BY InitIInv, NextIInv, PTL DEF Spec

\* Every state of the program is well typed: ages, waits and attempts stay in
\* their ranges whatever the two processes, their users and the network do.
THEOREM TypeCorrect == Spec => []TypeOK
<1>1. IInv => TypeOK
  BY DEF IInv
<1> QED
  BY <1>1, Invariance, PTL

\* A peer the code encrypts for has a session, although the reconnection code
\* makes peers CONNECTED without one (network_reconnect.c:82-89).
THEOREM SessionBeforeTraffic == Spec => []ConnectedHasSession
<1>1. IInv => ConnectedHasSession
  BY DEF IInv, ConnectedHasSession, Sound
<1> QED
  BY <1>1, Invariance, PTL

\* The host's five-second timeout (network.c:827) applies to every peer it
\* streams to: it has heard from each of them.
THEOREM StreamsWatched == Spec => []StreamsAreWatched
<1>1. IInv => StreamsAreWatched
  BY DEF IInv, StreamsAreWatched, Sound, Endpoints
<1> QED
  BY <1>1, Invariance, PTL

\* An entry without a reconnection context was made by a packet of the peer.
THEOREM UnaddedHeard == Spec => []UnaddedPeersAreHeard
<1>1. IInv => UnaddedPeersAreHeard
  BY DEF IInv, UnaddedPeersAreHeard, Sound
<1> QED
  BY <1>1, Invariance, PTL

\* The wait of a peer never exceeds its back-off, which stays within its bounds,
\* and a peer has failed only after its last attempt (network_reconnect.c:46-110).
THEOREM BackoffStaysBounded == Spec => []BackoffBounded
<1>1. IInv => BackoffBounded
  BY TimeAssumption DEF IInv, BackoffBounded, Sound, Paced, Peer, Waits
<1> QED
  BY <1>1, Invariance, PTL

-----------------------------------------------------------------------------
(* The link stays up while nothing is lost.                                *)

\* Packets arrive in time and sendto never fails, nobody dials twice, pauses or
\* disconnects, both sides accept the other's version, and the timeout is longer
\* than the way of a packet, which is two ticks.
Undisturbed ==
    /\ Timely /\ Outages = {} /\ ~ Redials /\ Commands \subseteq {"RESUME"}
    /\ \A e \in Endpoints : AcceptsVersion[e]
    /\ PeerTimeout >= 3

\* An entry no timer and no reconnection has touched.
Calm(p) ==
    /\ p.state \in {"ABSENT", "DISCOVERED", "CONNECTING", "CONNECTED"}
    /\ p.transport = "UDP"

\* The next sign of life of e's peer is on its way, or the handshake that the peer
\* will answer by it; either has been under way for a tick if it is due.
Fed(e) ==
    \/ /\ "HANDSHAKE" \in wire[e]
       /\ peer[e].quiet <= (IF "HANDSHAKE" \in due[e] THEN 2 ELSE 1)
    \/ /\ "HANDSHAKE" \in wire[Other(e)]
       /\ peer[e].quiet <= (IF "HANDSHAKE" \in due[Other(e)] THEN 1 ELSE 0)

Quietly(e) ==
    /\ pc[e] # "down" /\ netUp[e] /\ Calm(peer[e])
    /\ wire[e] \subseteq Packets \ {"PAUSE", "DISCONNECT"}
    /\ peer[e].state = "CONNECTED" => Fed(e)

Lossless == losses = 0 /\ crashes = 0 => \A e \in Endpoints : Quietly(e)

\* What a function may do to a calm entry: a connection stays, and no later than
\* before has the peer been heard of.
Keeps(p, r) ==
    /\ Calm(r.peer) /\ r.out \subseteq Packets \ {"PAUSE", "DISCONNECT"}
    /\ r.peer.state = p.state \/ (p.state # "CONNECTED" /\ r.peer.state # "CONNECTED")
    /\ r.peer.quiet <= p.quiet
    /\ p.state = "CONNECTED" /\ p.streaming => r.peer.streaming

LEMMA KeepsResult ==
    ASSUME NEW p, Calm(p), NEW q, NEW ok \in BOOLEAN, NEW out,
           out \subseteq Packets \ {"PAUSE", "DISCONNECT"},
           q.state = p.state, q.transport = p.transport, q.quiet <= p.quiet,
           p.state = "CONNECTED" /\ p.streaming => q.streaming
    PROVE  Keeps(p, Result(q, out, ok))
BY DEF Keeps, Result, Calm

LEMMA SendCalm ==
    ASSUME NEW e, NEW p, Sound(e, p), Calm(p), NEW socks,
           NEW type \in {"VIDEO", "KEYFRAME", "RESUME"}
    PROVE  Keeps(p, rootstream_net_send_encrypted(p, type, TRUE, socks))
<1> DEFINE r == rootstream_net_send_encrypted(p, type, TRUE, socks)
           q == [p EXCEPT !.idle = 0]
<1>1. p \in Peer /\ q \in Peer /\ p.quiet <= p.quiet
  BY Ranges, TimeAssumption DEF Sound, Peer, QuietAges
<1>2. q.state = p.state /\ q.transport = p.transport /\ q.quiet = p.quiet /\ q.streaming = p.streaming
  BY <1>1 DEF Peer
<1>3. r = Result(p, {}, FALSE) \/ r = Result(q, {type}, TRUE)
  BY DEF rootstream_net_send_encrypted, Calm, Encryptable
<1>4. {type} \subseteq Packets \ {"PAUSE", "DISCONNECT"}
  BY DEF Packets
<1> HIDE DEF r, q
<1> QED
  BY <1>1, <1>2, <1>3, <1>4, KeepsResult DEF r

\* A handshake is answered by one and makes the peer connected.
LEMMA HandshakeCalm ==
    ASSUME NEW e \in Endpoints, AcceptsVersion[e], NEW p, p \in Peer, p.quiet = 0, NEW socks
    PROVE  LET r == ReceiveHandshake(e, p, TRUE, socks)
           IN  /\ Calm(r.peer) /\ r.peer.state = "CONNECTED" /\ r.peer.quiet = 0
               /\ "HANDSHAKE" \in r.out /\ r.out \subseteq {"HANDSHAKE", "KEYFRAME"}
               /\ p.streaming => r.peer.streaming
<1> DEFINE q == [p EXCEPT !.authenticated = TRUE, !.state = "HANDSHAKE_RECEIVED"]
           a == [q EXCEPT !.idle = 0, !.transport = "UDP"]
           c == [a EXCEPT !.state = "CONNECTED"]
           k == rootstream_net_send_encrypted(c, "KEYFRAME", TRUE, socks)
           Answered(x) == /\ x.state = "CONNECTED" /\ x.transport = "UDP" /\ x.quiet = 0
                          /\ x.streaming = p.streaming
<1>1. /\ c \in Peer /\ Answered(c) /\ c.authenticated
      /\ q.state = "HANDSHAKE_RECEIVED"
  BY Ranges DEF Peer, PeerStates
<1>2. rootstream_net_handshake(q, TRUE, socks) = Result(a, {"HANDSHAKE"}, TRUE)
  <2> HIDE DEF q
  <2> QED
    BY <1>1 DEF rootstream_net_handshake
<1>3. k = Result([c EXCEPT !.idle = 0], {"KEYFRAME"}, TRUE) /\ Answered([c EXCEPT !.idle = 0])
  <2> HIDE DEF c
  <2> QED
    BY <1>1 DEF rootstream_net_send_encrypted, CanSend, Encryptable, Peer
<1>4. [c EXCEPT !.streaming = TRUE].state = "CONNECTED" /\ [c EXCEPT !.streaming = TRUE].transport = "UDP"
      /\ [c EXCEPT !.streaming = TRUE].quiet = 0 /\ [c EXCEPT !.streaming = TRUE].streaming
  BY <1>1 DEF Peer
<1>5. ReceiveHandshake(e, p, TRUE, socks) =
        IF e = "host" THEN Result([c EXCEPT !.streaming = TRUE], {"HANDSHAKE"}, TRUE)
        ELSE Result(k.peer, {"HANDSHAKE"} \union k.out, TRUE)
  <2>1. /\ Result(a, {"HANDSHAKE"}, TRUE).peer = a /\ Result(a, {"HANDSHAKE"}, TRUE).ok
        /\ Result(a, {"HANDSHAKE"}, TRUE).out = {"HANDSHAKE"}
    BY DEF Result
  <2> HIDE DEF a, k
  <2> QED
    BY <1>2, <2>1 DEF ReceiveHandshake, k
<1> DEFINE r == ReceiveHandshake(e, p, TRUE, socks)
<1>6. CASE e = "host"
  <2>1. r.peer = [c EXCEPT !.streaming = TRUE] /\ r.out = {"HANDSHAKE"}
    <3>1. r = Result([c EXCEPT !.streaming = TRUE], {"HANDSHAKE"}, TRUE)
      BY <1>5, <1>6
    <3> HIDE DEF r, c
    <3> QED
      BY <3>1 DEF Result
  <2> HIDE DEF r, c
  <2> QED
    BY <1>4, <2>1 DEF Calm, r
<1>7. CASE e # "host"
  <2>1. r.peer = [c EXCEPT !.idle = 0] /\ r.out = {"HANDSHAKE"} \union {"KEYFRAME"}
    <3>1. r = Result(k.peer, {"HANDSHAKE"} \union k.out, TRUE)
      BY <1>5, <1>7
    <3> HIDE DEF r, c, k
    <3> QED
      BY <1>3, <3>1 DEF Result
  <2> HIDE DEF r, c
  <2> QED
    BY <1>3, <2>1 DEF Calm, r
<1> QED
  BY <1>6, <1>7

\* A turn of the receive loop.
LEMMA RecvCalm ==
    ASSUME NEW e \in Endpoints, AcceptsVersion[e], NEW p, Sound(e, p), Calm(p), NEW socks,
           NEW m \in (Packets \ {"PAUSE", "DISCONNECT"}) \union {"none"}
    PROVE  LET r == rootstream_net_recv(e, p, m, TRUE, socks)
           IN  /\ m # "HANDSHAKE" => Keeps(p, r)
               /\ m = "HANDSHAKE" =>
                    /\ Calm(r.peer) /\ r.peer.state = "CONNECTED" /\ r.peer.quiet = 0
                    /\ "HANDSHAKE" \in r.out /\ r.out \subseteq {"HANDSHAKE", "KEYFRAME"}
                    /\ p.state # "ABSENT" /\ p.streaming => r.peer.streaming
<1> DEFINE dial == ReconnectPass(p, TRUE, socks)
           udp  == IF m = "none" THEN Result(dial.peer, {}, TRUE)
                   ELSE process_received_packet(e, dial.peer, m, TRUE, socks)
           tcp  == TcpPass(udp.peer, TRUE, socks)
           r    == rootstream_net_recv(e, p, m, TRUE, socks)
           slot == SlotFor(p, m)
           q    == [slot EXCEPT !.heard = TRUE, !.quiet = 0]
           c    == ReceiveControl(q, m)
<1>1. p \in Peer /\ p.quiet \in Nat /\ p.quiet <= p.quiet
  BY TimeAssumption DEF Sound, Peer, QuietAges
<1>2. dial.peer = p /\ dial.out = {}
  BY DEF ReconnectPass, Calm, Result
<1>3. r = Result(tcp.peer, dial.out \union udp.out \union tcp.out, TRUE)
  BY DEF rootstream_net_recv
<1>4. m # "none" => udp = process_received_packet(e, p, m, TRUE, socks)
  <2> HIDE DEF dial
  <2> QED
    BY <1>2
<1>5. m = "none" => udp.peer = p /\ udp.out = {}
  <2> HIDE DEF dial
  <2> QED
    BY <1>2 DEF Result
<1> HIDE DEF udp, dial
<1>6. udp.peer.transport = "UDP" => tcp.peer = udp.peer /\ tcp.out = {}
  BY DEF TcpPass, Result
<1> HIDE DEF tcp, r
<1>7. udp.peer.transport = "UDP" => r.peer = udp.peer /\ r.out = udp.out
  BY <1>2, <1>3, <1>6 DEF Result
<1>8. CASE m = "none"
  <2>1. Keeps(p, Result(p, {}, TRUE))
    BY <1>1, KeepsResult
  <2>2. Result(p, {}, TRUE).peer = p /\ Result(p, {}, TRUE).out = {}
    BY DEF Result
  <2> QED
    BY <1>5, <1>7, <1>8, <2>1, <2>2 DEF Keeps, Calm, r
<1>9. CASE m # "none" /\ slot.state = "ABSENT"
  <2>1. Keeps(p, Result(p, {}, TRUE)) /\ p.transport = "UDP"
    BY <1>1, KeepsResult DEF Calm
  <2>2. Result(p, {}, TRUE).peer = p /\ Result(p, {}, TRUE).out = {}
    BY DEF Result
  <2>3. m # "HANDSHAKE"
    BY <1>9 DEF SlotFor, ZeroedPeer
  <2>4. udp = Result(p, {}, TRUE)
    BY <1>4, <1>9 DEF process_received_packet
  <2> QED
    BY <1>7, <2>1, <2>2, <2>3, <2>4 DEF Keeps, r
<1>10. CASE m = "HANDSHAKE" /\ slot.state # "ABSENT"
  <2>1. slot \in Peer /\ (p.state # "ABSENT" /\ p.streaming => slot.streaming)
    <3>1. CASE p.state = "ABSENT"
      <4>1. slot = [ZeroedPeer EXCEPT !.state = "CONNECTING"]
        BY <1>10, <3>1 DEF SlotFor
      <4>2. slot \in Peer
        BY <4>1, ZeroedType DEF Peer, PeerStates
      <4> QED
        BY <3>1, <4>2
    <3>2. CASE p.state # "ABSENT"
      BY <1>1, <3>2 DEF SlotFor
    <3> QED
      BY <3>1, <3>2
  <2>2. q \in Peer /\ q.quiet = 0 /\ q.streaming = slot.streaming
    <3> HIDE DEF slot
    <3> QED
      BY <2>1, Ranges DEF Peer
  <2>3. udp = ReceiveHandshake(e, q, TRUE, socks)
    BY <1>4, <1>10 DEF process_received_packet
  <2> HIDE DEF q
  <2>4. /\ Calm(udp.peer) /\ udp.peer.state = "CONNECTED" /\ udp.peer.quiet = 0
        /\ "HANDSHAKE" \in udp.out /\ udp.out \subseteq {"HANDSHAKE", "KEYFRAME"}
        /\ q.streaming => udp.peer.streaming
    BY <2>2, <2>3, HandshakeCalm
  <2> QED
    BY <1>7, <1>10, <2>1, <2>2, <2>4 DEF Calm, r
<1>11. CASE m \notin {"none", "HANDSHAKE"} /\ slot.state # "ABSENT"
  <2>1. slot = p
    BY <1>11 DEF SlotFor
  <2>2. /\ q \in Peer /\ q.quiet = 0 /\ q.state = p.state /\ q.transport = p.transport
        /\ q.streaming = p.streaming
    <3> HIDE DEF slot
    <3> QED
      BY <1>1, <2>1, Ranges DEF Peer
  <2>3. udp = IF m = "PING" THEN rootstream_net_send_encrypted(q, "PONG", TRUE, socks)
              ELSE IF q.authenticated THEN Result(c, {}, TRUE) ELSE Result(q, {}, TRUE)
    BY <1>4, <1>11 DEF process_received_packet
  <2> HIDE DEF q
  <2>4. c = q \/ c = [q EXCEPT !.streaming = TRUE]
    BY <1>11 DEF ReceiveControl
  <2>5. /\ c \in Peer /\ c.quiet = 0 /\ c.state = p.state /\ c.transport = p.transport
        /\ p.streaming => c.streaming
    <3> HIDE DEF c
    <3> QED
      BY <2>2, <2>4 DEF Peer
  <2>6. rootstream_net_send_encrypted(q, "PONG", TRUE, socks) = Result(q, {}, FALSE)
    BY DEF rootstream_net_send_encrypted, Encryptable
  <2> HIDE DEF c
  <2>7. udp \in {Result(q, {}, FALSE), Result(q, {}, TRUE), Result(c, {}, TRUE)}
    BY <2>3, <2>6
  <2>8. Keeps(p, udp)
    <3>1. q.quiet <= p.quiet /\ c.quiet <= p.quiet
      BY <1>1, <2>2, <2>5
    <3>2. Keeps(p, Result(c, {}, TRUE))
      BY <2>5, <3>1, KeepsResult
    <3>3. Keeps(p, Result(q, {}, TRUE)) /\ Keeps(p, Result(q, {}, FALSE))
      BY <2>2, <3>1, KeepsResult
    <3> QED
      BY <2>7, <3>2, <3>3
  <2> QED
    BY <1>7, <1>11, <2>8 DEF Keeps, Calm, r
<1> QED
  BY <1>8, <1>9, <1>10, <1>11

\* No timer fires for a peer that was heard of two ticks ago.
LEMMA TimersCalm ==
    ASSUME PeerTimeout >= 3, NEW e, NEW p, Sound(e, p), Calm(p),
           p.state = "CONNECTED" => p.quiet <= 2, NEW socks, NEW late
    PROVE  /\ Keeps(p, rootstream_net_tick(p, TRUE, socks, late))
           /\ Keeps(p, check_peer_health(p, TRUE, socks))
<1>1. p \in Peer /\ p.quiet \in Nat /\ p.quiet <= p.quiet
  BY TimeAssumption DEF Sound, Peer, QuietAges
<1>2. p.state = "CONNECTED" => ~ (p.quiet >= PeerTimeout) /\ ~ (p.quiet > HealthTimeout)
  BY <1>1, TimeAssumption
<1>3. Keeps(p, Result(p, {}, TRUE)) /\ Keeps(p, Result(p, {}, FALSE))
  BY <1>1, KeepsResult
<1>4. check_peer_health(p, TRUE, socks) = Result(p, {}, TRUE)
  BY <1>2 DEF check_peer_health
<1>5. rootstream_net_send_encrypted(p, "PING", TRUE, socks) = Result(p, {}, FALSE)
  BY DEF rootstream_net_send_encrypted, Encryptable
<1>6. p.state = "CONNECTED" =>
        TickConnected(p, TRUE, socks) \in {Result(p, {}, TRUE), Result(p, {}, FALSE)}
  BY <1>2, <1>5 DEF TickConnected
<1>7. p.state # "HANDSHAKE_SENT"
  BY DEF Calm
<1>8. rootstream_net_tick(p, TRUE, socks, late) \in {Result(p, {}, TRUE), Result(p, {}, FALSE)}
  BY <1>6, <1>7 DEF rootstream_net_tick
<1> QED
  BY <1>3, <1>4, <1>8

\* The first dial makes an entry that waits for the peer.
LEMMA ConnectCalm ==
    ASSUME NEW e, NEW p, Sound(e, p), p.state = "ABSENT", NEW resolved, NEW socks
    PROVE  Keeps(p, rootstream_connect_to_peer(p, resolved, TRUE, socks))
<1> DEFINE n == [ZeroedPeer EXCEPT !.state = "DISCOVERED", !.authenticated = TRUE,
                                   !.reconnect = TRUE, !.backoff = InitialBackoff]
           h == [n EXCEPT !.idle = 0, !.transport = "UDP", !.state = "HANDSHAKE_SENT", !.hsAge = 0]
           c == [h EXCEPT !.state = "CONNECTING"]
           hs == Result(h, {"HANDSHAKE"}, TRUE)
           New(x) == x.quiet = 0 /\ x.transport = "UDP" /\ x.state \in {"DISCOVERED", "CONNECTING"}
           r == rootstream_connect_to_peer(p, resolved, TRUE, socks)
<1>1. p.quiet \in Nat
  BY TimeAssumption DEF Sound, Peer, QuietAges
<1>2. New(n) /\ New(c) /\ n.state = "DISCOVERED"
  BY DEF ZeroedPeer
<1>3. rootstream_add_peer(p) = n
  BY DEF rootstream_add_peer
<1>4. rootstream_net_handshake(n, TRUE, socks) = hs
  <2> HIDE DEF n
  <2> QED
    BY <1>2 DEF rootstream_net_handshake
<1>5. /\ [hs EXCEPT !.peer.state = "CONNECTING"].peer = c
      /\ [hs EXCEPT !.peer.state = "CONNECTING"].out = {"HANDSHAKE"}
  <2> HIDE DEF h
  <2>1. hs.peer = h /\ hs.out = {"HANDSHAKE"} /\ hs = [peer |-> hs.peer, out |-> hs.out, ok |-> hs.ok]
    BY DEF Result
  <2> HIDE DEF hs
  <2> QED
    BY <2>1
<1>6. hs.ok
  BY DEF Result
<1> HIDE DEF n, hs, c
<1>7. r = Result(n, {}, FALSE) \/ r = [hs EXCEPT !.peer.state = "CONNECTING"]
  BY <1>3, <1>4, <1>6 DEF rootstream_connect_to_peer
<1> HIDE DEF r
<1>8. r.peer \in {n, c} /\ r.out \subseteq {"HANDSHAKE"}
  <2>1. Result(n, {}, FALSE).peer = n /\ Result(n, {}, FALSE).out = {}
    BY DEF Result
  <2> QED
    BY <1>5, <1>7, <2>1
<1>9. Keeps(p, r)
  BY <1>1, <1>2, <1>8 DEF Keeps, Calm, Packets
<1> QED
  BY <1>9 DEF r

LEMMA CommandCalm ==
    ASSUME NEW e, NEW p, Sound(e, p), Calm(p), NEW socks
    PROVE  Keeps(p, SendCommand(p, "RESUME", TRUE, socks))
<1> DEFINE r == rootstream_net_send_encrypted(p, "RESUME", TRUE, socks)
           q == [p EXCEPT !.idle = 0]
           s == [q EXCEPT !.streaming = TRUE]
<1>1. Keeps(p, r)
  <2>1. "RESUME" \in {"VIDEO", "KEYFRAME", "RESUME"}
    OBVIOUS
  <2> QED
    BY <2>1, SendCalm, Zenon
<1>2. p \in Peer /\ p.quiet <= p.quiet
  BY TimeAssumption DEF Sound, Peer, QuietAges
<1>3. /\ s.state = p.state /\ s.transport = p.transport /\ s.quiet = p.quiet /\ s.streaming
  BY <1>2 DEF Peer
<1>4. r = Result(p, {}, FALSE) \/ r = Result(q, {"RESUME"}, TRUE)
  BY DEF rootstream_net_send_encrypted, Calm, Encryptable
<1>5. SendCommand(p, "RESUME", TRUE, socks) = IF ~ r.ok THEN r ELSE [r EXCEPT !.peer.streaming = TRUE]
  BY DEF SendCommand
<1>6. r.ok => r.peer = q /\ r.out = {"RESUME"} /\ r = [peer |-> r.peer, out |-> r.out, ok |-> r.ok]
  <2> HIDE DEF q, r
  <2> QED
    BY <1>4 DEF Result
<1> HIDE DEF r
<1>7. r.ok => /\ [r EXCEPT !.peer.streaming = TRUE].peer = s
              /\ [r EXCEPT !.peer.streaming = TRUE].out = {"RESUME"}
  <2> HIDE DEF q
  <2> QED
    BY <1>6 DEF s
<1> HIDE DEF q, s
<1>8. r.ok => Keeps(p, [r EXCEPT !.peer.streaming = TRUE])
  BY <1>2, <1>3, <1>7 DEF Keeps, Calm, Packets
<1> QED
  BY <1>1, <1>5, <1>8

LEMMA AgedCalm ==
    ASSUME NEW e, NEW p, Sound(e, p), Calm(p)
    PROVE  /\ Calm(Aged(p)) /\ Aged(p).state = p.state /\ Aged(p).streaming = p.streaming
           /\ Aged(p).quiet <= p.quiet + 1
<1>1. p \in Peer /\ p.quiet \in Nat
  BY TimeAssumption DEF Sound, Peer, QuietAges
<1>2. /\ Aged(p).state = p.state /\ Aged(p).streaming = p.streaming
      /\ Aged(p).transport = p.transport
      /\ Aged(p).quiet = Older(p.quiet, HealthTimeout + 1)
  BY <1>1 DEF Aged, Peer
<1>3. Older(p.quiet, HealthTimeout + 1) <= p.quiet + 1
  BY <1>1 DEF Older
<1> QED
  BY <1>2, <1>3 DEF Calm

-----------------------------------------------------------------------------
\* The steps keep the link up.

\* A handler that ends in Emit keeps the way of the handshakes.
LEMMA EmitCalm ==
    ASSUME IInv, IInv', \A f \in Endpoints : Quietly(f), NEW e \in Endpoints, NEW r,
           Keeps(peer[e], r), Emit(e, r), UNCHANGED <<netUp, due>>,
           \A f \in Endpoints : pc'[f] # "down"
    PROVE  /\ \A f \in Endpoints : Quietly(f)'
           /\ Established => Established'
<1>t. /\ peer \in [Endpoints -> Peer] /\ wire \in [Endpoints -> SUBSET Packets]
      /\ Other(e) \in Endpoints
      /\ \A f \in Endpoints : peer[f].quiet \in Nat /\ peer'[f].quiet \in Nat
  <2>1. \A f \in Endpoints : peer[f] \in Peer /\ peer'[f] \in Peer
    BY DEF IInv, TypeOK
  <2> QED
    BY <2>1, TimeAssumption DEF IInv, TypeOK, Other, Endpoints, Peer, QuietAges
<1>1. peer' = [peer EXCEPT ![e] = r.peer] /\ wire' = [wire EXCEPT ![Other(e)] = wire[Other(e)] \union r.out]
  BY DEF Emit
<1>2. \A f \in Endpoints :
        /\ Calm(peer'[f]) /\ peer'[f].quiet <= peer[f].quiet
        /\ wire[f] \subseteq wire'[f] /\ wire'[f] \subseteq Packets \ {"PAUSE", "DISCONNECT"}
        /\ peer'[f].state = "CONNECTED" => peer[f].state = "CONNECTED"
        /\ peer[f].state = "CONNECTED" => peer'[f].state = "CONNECTED"
        /\ peer[f].state = "CONNECTED" /\ peer[f].streaming => peer'[f].streaming
  <2> SUFFICES ASSUME NEW f \in Endpoints
               PROVE  /\ Calm(peer'[f]) /\ peer'[f].quiet <= peer[f].quiet
                      /\ wire[f] \subseteq wire'[f]
                      /\ wire'[f] \subseteq Packets \ {"PAUSE", "DISCONNECT"}
                      /\ peer'[f].state = "CONNECTED" <=> peer[f].state = "CONNECTED"
                      /\ peer[f].state = "CONNECTED" /\ peer[f].streaming => peer'[f].streaming
    OBVIOUS
  <2>1. wire[f] \subseteq wire'[f] /\ wire'[f] \subseteq Packets \ {"PAUSE", "DISCONNECT"}
    BY <1>t, <1>1 DEF Quietly, Keeps
  <2>2. CASE f = e
    BY <1>t, <1>1, <2>1, <2>2 DEF Keeps
  <2>3. CASE f # e
    BY <1>t, <1>1, <2>1, <2>3 DEF Quietly
  <2> QED
    BY <2>2, <2>3
<1>3. \A f \in Endpoints : Fed(f) => Fed(f)'
  <2> SUFFICES ASSUME NEW f \in Endpoints, Fed(f) PROVE Fed(f)'
    OBVIOUS
  <2>1. Other(f) \in Endpoints
    BY DEF Other, Endpoints
  <2>2. peer'[f].quiet <= peer[f].quiet /\ wire[f] \subseteq wire'[f] /\ wire[Other(f)] \subseteq wire'[Other(f)]
    BY <1>2, <2>1
  <2> QED
    BY <1>t, <2>2 DEF Fed
<1>4. "host" \in Endpoints /\ "client" \in Endpoints
  BY DEF Endpoints
<1> QED
  BY <1>2, <1>3, <1>4 DEF Quietly, Established

\* A handshake received is the sign of life and puts the next one on its way.
LEMMA RecvKeepsCalm ==
    ASSUME Undisturbed, IInv, IInv', \A f \in Endpoints : Quietly(f), NEW e \in Endpoints,
           NEW m \in Packets \union {"none"}, Recv(e, m)
    PROVE  /\ \A f \in Endpoints : Quietly(f)'
           /\ Established => Established'
<1> DEFINE o == Other(e)
<1>e. /\ o \in Endpoints /\ o # e /\ Other(o) = e /\ \A f \in Endpoints : f = e \/ f = o
      /\ "host" \in Endpoints /\ "client" \in Endpoints
  BY DEF Other, Endpoints
<1> HIDE DEF o
<1>t. /\ peer \in [Endpoints -> Peer] /\ wire \in [Endpoints -> SUBSET Packets]
      /\ due \in [Endpoints -> SUBSET Packets]
      /\ \A f \in Endpoints : peer[f].quiet \in Nat /\ peer'[f].quiet \in Nat
      /\ \A f \in Endpoints : pc'[f] # "down"
  <2>1. \A f \in Endpoints : peer[f] \in Peer /\ peer'[f] \in Peer
    BY DEF IInv, TypeOK
  <2>2. \A f \in Endpoints : pc'[f] # "down"
    BY DEF Recv, Step, Quietly, IInv, TypeOK
  <2> QED
    BY <2>1, <2>2, TimeAssumption DEF IInv, TypeOK, Peer, QuietAges
<1>1. PICK socks \in SocketOutcomes(e), keep \in {FALSE, Duplicates} :
        LET r == rootstream_net_recv(e, peer[e], m, netUp[e], socks)
        IN  /\ peer' = [peer EXCEPT ![e] = r.peer]
            /\ wire' = [wire EXCEPT ![Other(e)] = @ \union r.out,
                                    ![e] = IF keep THEN @ ELSE @ \ {m}]
  BY DEF Recv
<1> DEFINE r == rootstream_net_recv(e, peer[e], m, TRUE, socks)
<1>2. /\ m \in (Packets \ {"PAUSE", "DISCONNECT"}) \union {"none"}
      /\ m = "HANDSHAKE" => "HANDSHAKE" \in wire[e]
      /\ due' = [due EXCEPT ![e] = due[e] \ {m}] /\ netUp' = netUp
      /\ netUp[e] = TRUE /\ Sound(e, peer[e]) /\ Calm(peer[e]) /\ AcceptsVersion[e]
  BY <1>e DEF Recv, Quietly, IInv, TypeOK, Undisturbed
<1>3. /\ m # "HANDSHAKE" => Keeps(peer[e], r)
      /\ m = "HANDSHAKE" =>
           /\ Calm(r.peer) /\ r.peer.state = "CONNECTED" /\ r.peer.quiet = 0
           /\ "HANDSHAKE" \in r.out /\ r.out \subseteq {"HANDSHAKE", "KEYFRAME"}
           /\ peer[e].state # "ABSENT" /\ peer[e].streaming => r.peer.streaming
  BY <1>2, RecvCalm
<1>4. /\ peer' = [peer EXCEPT ![e] = r.peer]
      /\ wire' = [wire EXCEPT ![o] = wire[o] \union r.out,
                              ![e] = IF keep THEN wire[e] ELSE wire[e] \ {m}]
  BY <1>1, <1>2, <1>e, <1>t DEF o
<1> HIDE DEF r
<1>5. /\ peer'[e] = r.peer /\ peer'[o] = peer[o]
      /\ wire'[o] = wire[o] \union r.out /\ wire'[e] \subseteq wire[e]
      /\ m # "HANDSHAKE" /\ "HANDSHAKE" \in wire[e] => "HANDSHAKE" \in wire'[e]
      /\ due'[o] = due[o] /\ due'[e] = due[e] \ {m}
  BY <1>2, <1>4, <1>e, <1>t
<1>6. \A f \in Endpoints : Calm(peer'[f]) /\ wire'[f] \subseteq Packets \ {"PAUSE", "DISCONNECT"}
  <2>1. Calm(r.peer) /\ r.out \subseteq Packets \ {"PAUSE", "DISCONNECT"}
    BY <1>3 DEF Keeps, Packets
  <2> QED
    BY <1>e, <1>5, <2>1 DEF Quietly
<1>7. peer[e].state = "CONNECTED" => /\ peer'[e].state = "CONNECTED"
                                     /\ peer[e].streaming => peer'[e].streaming
  BY <1>3, <1>5 DEF Keeps
<1>8. \A f \in Endpoints : peer'[f].state = "CONNECTED" => Fed(f)'
  <2>1. CASE m = "HANDSHAKE"
    <3>1. peer'[e].quiet = 0 /\ "HANDSHAKE" \in wire'[o]
      BY <1>3, <1>5, <2>1
    <3>2. Fed(e)'
      BY <3>1 DEF Fed, o
    <3>3. peer[o].state = "CONNECTED" => peer[o].quiet <= 1 \/ ("HANDSHAKE" \in wire[o] /\ Fed(o))
      BY <1>e, <1>t DEF Quietly, Fed
    <3>4. peer[o].state = "CONNECTED" => Fed(o)'
      <4>1. CASE peer[o].quiet <= 1
        BY <4>1, <3>1, <1>5, <1>t, <1>e DEF Fed
      <4>2. CASE ~ (peer[o].quiet <= 1) /\ "HANDSHAKE" \in wire[o] /\ Fed(o)
        BY <4>2, <3>1, <1>5, <1>t, <1>e DEF Fed
      <4> QED
        BY <3>3, <4>1, <4>2
    <3> QED
      BY <1>e, <1>5, <3>2, <3>4
  <2>2. CASE m # "HANDSHAKE"
    <3>1. /\ peer'[e].quiet <= peer[e].quiet
          /\ peer'[e].state = "CONNECTED" => peer[e].state = "CONNECTED"
      BY <1>3, <1>5, <2>2 DEF Keeps
    <3>2. "HANDSHAKE" \in due'[e] <=> "HANDSHAKE" \in due[e]
      BY <1>5, <2>2
    <3>3. peer[e].state = "CONNECTED" => Fed(e)'
      BY <1>5, <1>t, <1>e, <2>2, <3>1, <3>2 DEF Fed, Quietly, o
    <3>4. peer[o].state = "CONNECTED" => Fed(o)'
      BY <1>5, <1>t, <1>e, <2>2, <3>1, <3>2 DEF Fed, Quietly
    <3> QED
      BY <1>e, <1>5, <3>1, <3>3, <3>4
  <2> QED
    BY <2>1, <2>2
<1>9. \A f \in Endpoints : Quietly(f)'
  BY <1>2, <1>6, <1>8, <1>t DEF Quietly
<1> QED
  BY <1>9, <1>7, <1>5, <1>e DEF Established

\* The clock moves on when nothing is due, so nothing fresh is overtaken.
LEMMA ClockKeepsCalm ==
    ASSUME Undisturbed, IInv, IInv', \A f \in Endpoints : Quietly(f), ClockTick
    PROVE  /\ \A f \in Endpoints : Quietly(f)'
           /\ Established => Established'
<1>1. \A f \in Endpoints :
        /\ peer[f].quiet \in Nat /\ peer'[f].quiet \in Nat
        /\ Calm(peer'[f]) /\ peer'[f].state = peer[f].state
        /\ peer'[f].streaming = peer[f].streaming /\ peer'[f].quiet <= peer[f].quiet + 1
  <2> SUFFICES ASSUME NEW f \in Endpoints
               PROVE  /\ peer[f].quiet \in Nat /\ peer'[f].quiet \in Nat
                      /\ Calm(peer'[f]) /\ peer'[f].state = peer[f].state
                      /\ peer'[f].streaming = peer[f].streaming
                      /\ peer'[f].quiet <= peer[f].quiet + 1
    OBVIOUS
  <2>1. peer[f] \in Peer /\ peer'[f] \in Peer /\ Sound(f, peer[f]) /\ Calm(peer[f])
    BY DEF IInv, TypeOK, Quietly
  <2>2. peer[f].quiet \in Nat /\ peer'[f].quiet \in Nat
    BY <2>1, TimeAssumption DEF Peer, QuietAges
  <2>3. peer'[f] = peer[f] \/ peer'[f] = Aged(peer[f])
    BY DEF ClockTick
  <2> QED
    BY <2>1, <2>2, <2>3, AgedCalm
<1>2. \A f \in Endpoints : due[f] = {} /\ due'[f] = wire[f] /\ wire'[f] = wire[f]
  BY DEF ClockTick, Running, Quietly, Undisturbed
<1>3. \A f \in Endpoints : Fed(f) => Fed(f)'
  <2> SUFFICES ASSUME NEW f \in Endpoints, Fed(f) PROVE Fed(f)'
    OBVIOUS
  <2>1. Other(f) \in Endpoints
    BY DEF Other, Endpoints
  <2> QED
    BY <1>1, <1>2, <2>1 DEF Fed
<1>4. UNCHANGED <<pc, netUp>> /\ "host" \in Endpoints /\ "client" \in Endpoints
  BY DEF ClockTick, Endpoints
<1> QED
  BY <1>1, <1>2, <1>3, <1>4 DEF Quietly, Established

LEMMA NoneForgotten ==
    ASSUME losses \in Nat, crashes \in Nat, [Next]_vars
    PROVE  losses' \in Nat /\ losses' >= losses /\ crashes' \in Nat /\ crashes' >= crashes
<1> DEFINE Kept == UNCHANGED <<losses, crashes>>
<1>1. Stream \/ Health \/ ClockTick \/ UNCHANGED vars => Kept
  BY DEF Stream, Health, ClockTick, vars
<1>2. \A e \in Endpoints : Tick(e) \/ Connect(e) \/ NetChange(e) \/ Restart(e) => Kept
  BY DEF Tick, Connect, NetChange, Restart
<1>3. \A e \in Endpoints, m \in Packets \union {"none"} : Recv(e, m) => Kept
  BY DEF Recv
<1>4. \A cmd \in Commands : Command(cmd) => Kept
  BY DEF Command
<1>5. \A e \in Endpoints, m \in Packets : Lose(e, m) => losses' = losses + 1 /\ crashes' = crashes
  BY DEF Lose
<1>6. \A e \in Endpoints : Crash(e) => losses' = losses /\ crashes' = crashes + 1
  BY DEF Crash
<1>7. Kept \/ (losses' = losses + 1 /\ crashes' = crashes) \/ (losses' = losses /\ crashes' = crashes + 1)
  BY <1>1, <1>2, <1>3, <1>4, <1>5, <1>6 DEF Next
<1> QED
  BY <1>7

LEMMA NextLossless ==
    ASSUME Undisturbed, IInv, IInv', Lossless, [Next]_vars, losses' = 0, crashes' = 0
    PROVE  /\ \A f \in Endpoints : Quietly(f)'
           /\ Established => Established'
<1>n. losses \in Nat /\ crashes \in Nat
  BY EnvironmentAssumption DEF IInv, TypeOK
<1>z. losses = 0 /\ crashes = 0
  BY <1>n, NoneForgotten
<1>q. \A f \in Endpoints : Quietly(f)
  BY <1>z DEF Lossless
<1>p. \A f \in Endpoints :
        /\ Sound(f, peer[f]) /\ Calm(peer[f]) /\ netUp[f] = TRUE /\ pc[f] # "down"
        /\ peer[f].state = "CONNECTED" => peer[f].quiet <= 2
  <2> SUFFICES ASSUME NEW f \in Endpoints
               PROVE  /\ Sound(f, peer[f]) /\ Calm(peer[f]) /\ netUp[f] = TRUE /\ pc[f] # "down"
                      /\ peer[f].state = "CONNECTED" => peer[f].quiet <= 2
    OBVIOUS
  <2>1. peer[f].quiet \in Nat
    BY TimeAssumption DEF IInv, TypeOK, Peer, QuietAges
  <2> QED
    BY <1>q, <2>1 DEF Quietly, Fed, IInv, TypeOK
<1>e. "host" \in Endpoints /\ "client" \in Endpoints
  BY DEF Endpoints
<1>1. CASE Stream
  <2>1. PICK socks \in SocketOutcomes("host") :
          Emit("host", IF peer["host"].state = "CONNECTED" /\ peer["host"].streaming
                       THEN rootstream_net_send_encrypted(peer["host"], "VIDEO", TRUE, socks)
                       ELSE Result(peer["host"], {}, TRUE))
    BY <1>1, <1>p, <1>e DEF Stream
  <2>2. Keeps(peer["host"], rootstream_net_send_encrypted(peer["host"], "VIDEO", TRUE, socks))
    BY <1>p, <1>e, SendCalm, Zenon
  <2>3. Keeps(peer["host"], Result(peer["host"], {}, TRUE))
    <3>1. peer["host"].quiet <= peer["host"].quiet
      BY <1>e, TimeAssumption DEF IInv, TypeOK, Peer, QuietAges
    <3> QED
      BY <1>p, <1>e, <3>1, KeepsResult
  <2>4. \A f \in Endpoints : pc'[f] # "down"
    BY <1>1, <1>p DEF Stream, Step, IInv, TypeOK
  <2> QED
    BY <1>1, <1>e, <1>q, <2>1, <2>2, <2>3, <2>4, EmitCalm DEF Stream
<1>2. CASE Health
  <2>1. PICK socks \in SocketOutcomes("host") :
          Emit("host", check_peer_health(peer["host"], TRUE, socks))
    BY <1>2, <1>p, <1>e DEF Health
  <2>2. Keeps(peer["host"], check_peer_health(peer["host"], TRUE, socks))
    BY <1>p, <1>e, TimersCalm DEF Undisturbed
  <2>3. \A f \in Endpoints : pc'[f] # "down"
    BY <1>2, <1>p DEF Health, Step, IInv, TypeOK
  <2> QED
    BY <1>2, <1>e, <1>q, <2>1, <2>2, <2>3, EmitCalm DEF Health
<1>3. ASSUME NEW e \in Endpoints, NEW m \in Packets \union {"none"}, Recv(e, m)
      PROVE  (\A f \in Endpoints : Quietly(f)') /\ (Established => Established')
  BY <1>3, <1>q, RecvKeepsCalm
<1>4. ASSUME NEW e \in Endpoints, Tick(e)
      PROVE  (\A f \in Endpoints : Quietly(f)') /\ (Established => Established')
  <2>1. PICK socks \in SocketOutcomes(e), late \in BOOLEAN :
          Emit(e, rootstream_net_tick(peer[e], TRUE, socks, late))
    BY <1>4, <1>p DEF Tick
  <2>2. Keeps(peer[e], rootstream_net_tick(peer[e], TRUE, socks, late))
    BY <1>p, TimersCalm DEF Undisturbed
  <2>3. \A f \in Endpoints : pc'[f] # "down"
    BY <1>4, <1>p DEF Tick, Step, IInv, TypeOK
  <2> QED
    BY <1>4, <1>q, <2>1, <2>2, <2>3, EmitCalm DEF Tick
<1>5. ASSUME NEW e \in Endpoints, Connect(e)
      PROVE  (\A f \in Endpoints : Quietly(f)') /\ (Established => Established')
  <2>1. PICK socks \in SocketOutcomes(e), resolved \in BOOLEAN :
          Emit(e, rootstream_connect_to_peer(peer[e], resolved, TRUE, socks))
    BY <1>5, <1>p DEF Connect
  <2>2. peer[e].state = "ABSENT"
    BY <1>5 DEF Connect, Undisturbed
  <2>3. Keeps(peer[e], rootstream_connect_to_peer(peer[e], resolved, TRUE, socks))
    BY <1>p, <2>2, ConnectCalm
  <2> QED
    BY <1>5, <1>p, <1>q, <2>1, <2>3, EmitCalm DEF Connect
<1>6. ASSUME NEW cmd \in Commands, Command(cmd)
      PROVE  (\A f \in Endpoints : Quietly(f)') /\ (Established => Established')
  <2>1. cmd = "RESUME"
    BY DEF Undisturbed
  <2>2. PICK socks \in SocketOutcomes("client") :
          Emit("client", SendCommand(peer["client"], "RESUME", TRUE, socks))
    BY <1>6, <1>p, <1>e, <2>1 DEF Command
  <2>3. Keeps(peer["client"], SendCommand(peer["client"], "RESUME", TRUE, socks))
    BY <1>p, <1>e, CommandCalm
  <2> QED
    BY <1>6, <1>e, <1>p, <1>q, <2>2, <2>3, EmitCalm DEF Command
<1>7. CASE ClockTick
  BY <1>7, <1>q, ClockKeepsCalm
<1>8. ASSUME NEW e \in Endpoints, NEW m \in Packets, Lose(e, m) PROVE FALSE
  BY <1>8, <1>n DEF Lose
<1>9. ASSUME NEW e \in Endpoints, NetChange(e) \/ Crash(e) \/ Restart(e) PROVE FALSE
  BY <1>9, <1>n, <1>p DEF NetChange, Crash, Restart, Undisturbed
<1>10. CASE UNCHANGED vars
  BY <1>10, <1>q DEF vars, Quietly, Fed, Established
<1> QED
  BY <1>1, <1>2, <1>3, <1>4, <1>5, <1>6, <1>7, <1>8, <1>9, <1>10 DEF Next

\* While packets arrive in time and nobody interferes no timer fires for a live
\* peer, although no keepalive ever leaves either process (network.c:841): each
\* handshake is answered by another (network.c:564), and that is what keeps
\* last_received young enough for the tick (network.c:827).
THEOREM LinkHolds == ASSUME Undisturbed PROVE Spec => LosslessLinkHolds
<1>1. Init => Lossless
  BY DEF Init, Lossless, Quietly, Calm, NoPeer, ZeroedPeer
<1>2. IInv /\ IInv' /\ Lossless /\ [Next]_vars => Lossless'
  BY NextLossless DEF Lossless
<1>3. IInv /\ IInv' /\ Lossless /\ [Next]_vars
        => [Established /\ losses' = 0 /\ crashes' = 0 => Established']_vars
  BY NextLossless
<1> QED
  BY <1>1, <1>2, <1>3, Invariance, PTL DEF Spec, LosslessLinkHolds
=============================================================================
