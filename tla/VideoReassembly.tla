--------------------------- MODULE VideoReassembly ---------------------------
(***************************************************************************)
(* One video stream: rootstream_net_send_video cuts a frame into chunks,   *)
(* UDP carries them, and process_received_packet puts them together again  *)
(* in the peer's one reassembly buffer.  A frame that is complete is       *)
(* decoded in the same iteration of the client's loop, before the next     *)
(* packet is read.                                                         *)
(*                                                                         *)
(* Sizes are counted in units of which MaxChunk fit into a packet.  The    *)
(* buffer is kept by chunk positions: which frame's bytes each one holds.  *)
(***************************************************************************)
EXTENDS Integers, FiniteSets, Sequences

CONSTANTS
    MaxChunk,       \* max_chunk: units of a frame that fit into one packet
    FrameSizes,     \* sizes of encoded frames
    MaxFrames,      \* frames sent in one behaviour
    MaxInFlight,    \* chunks the network holds
    MaxLosses,      \* chunks the network may lose
    MaxFailures,    \* sends that may fail
    MaxTimeouts,    \* peer timeouts (network.c:827) in one behaviour
    MaxRepeats,     \* chunks the network may deliver again
    Ordered         \* the network keeps the order of chunks

ASSUME SizeAssumption ==
    /\ MaxChunk \in Nat \ {0} /\ FrameSizes \subseteq Nat \ {0} /\ IsFiniteSet(FrameSizes)
    /\ {MaxFrames, MaxInFlight, MaxLosses, MaxFailures, MaxTimeouts, MaxRepeats} \subseteq Nat
    /\ Ordered \in BOOLEAN

VARIABLES
    video_tx_frame_id,  \* the host's counter
    sending,            \* the frame rootstream_net_send_video is cutting up
    wire,               \* chunks in flight
    rx,                 \* the client's video_rx_* fields
    shown,              \* frames given to the decoder
    losses, failures, timeouts, repeats,
    damaged,            \* history: frames of which a chunk was lost or not sent
    interrupted,        \* history: frames the buffer was freed under
    repeated            \* history: frames of which a chunk was delivered again

vars == <<video_tx_frame_id, sending, wire, rx, shown, losses, failures, timeouts, repeats,
          damaged, interrupted, repeated>>

Frames == 1..MaxFrames

\* The chunk positions of a frame, and of the buffer.
PositionsOf(total) == 0..((total - 1) \div MaxChunk)
Positions == UNION {PositionsOf(size) : size \in FrameSizes}

Idle == [frame |-> 0, total |-> 0, offset |-> 0]

\* The size of the chunk at an offset.
ChunkSize(total, offset) == IF total - offset > MaxChunk THEN MaxChunk ELSE total - offset

ChunkAt(s) == [frame |-> s.frame, total |-> s.total, offset |-> s.offset,
               size |-> ChunkSize(s.total, s.offset)]

\* Bytes nobody has written.
Garbage == 0

Init ==
    /\ video_tx_frame_id = 1
    /\ sending = Idle
    /\ wire = {}
    /\ rx = [frame |-> 0, received |-> 0, expected |-> 0, capacity |-> 0,
             buffer |-> [i \in Positions |-> Garbage]]
    /\ shown = <<>>
    /\ losses = 0 /\ failures = 0 /\ timeouts = 0 /\ repeats = 0
    /\ damaged = {} /\ interrupted = {} /\ repeated = {}

-----------------------------------------------------------------------------
\* The host.

\* rootstream_net_send_video takes the next frame id.
Begin(size) ==
    /\ sending = Idle /\ video_tx_frame_id \in Frames
    /\ sending' = [frame |-> video_tx_frame_id, total |-> size, offset |-> 0]
    /\ video_tx_frame_id' = video_tx_frame_id + 1
    /\ UNCHANGED <<wire, rx, shown, losses, failures, timeouts, damaged, interrupted, repeats, repeated>>

\* One turn of its loop sends one chunk ...
SendChunk ==
    LET sent == sending.offset + ChunkSize(sending.total, sending.offset)
    IN  /\ sending # Idle /\ Cardinality(wire) < MaxInFlight
        /\ wire' = wire \union {ChunkAt(sending)}
        /\ sending' = IF sent < sending.total THEN [sending EXCEPT !.offset = sent] ELSE Idle
        /\ UNCHANGED <<video_tx_frame_id, rx, shown, losses, failures, timeouts,
                       damaged, interrupted, repeats, repeated>>

\* ... or fails to, and gives up the rest of the frame.
SendFails ==
    /\ sending # Idle /\ failures < MaxFailures
    /\ sending' = Idle
    /\ failures' = failures + 1
    /\ damaged' = damaged \union {sending.frame}
    /\ UNCHANGED <<video_tx_frame_id, wire, rx, shown, losses, timeouts, interrupted, repeats, repeated>>

-----------------------------------------------------------------------------
\* The client: the PKT_VIDEO case of process_received_packet.

\* A chunk of another frame than the last one starts the count again.
StartFrame(r, c) ==
    IF r.frame = c.frame THEN r
    ELSE [r EXCEPT !.frame = c.frame, !.received = 0, !.expected = c.total]

\* The buffer only ever grows; what realloc adds is garbage, as it was before.
\* Variant: it is only allocated.
GrowOnce(r) == IF r.capacity = 0 THEN [r EXCEPT !.capacity = r.expected] ELSE r

Grow(r) == IF r.capacity < r.expected THEN [r EXCEPT !.capacity = r.expected] ELSE r

Store(r, c) ==
    [r EXCEPT !.buffer[c.offset \div MaxChunk] = c.frame, !.received = @ + c.size]

\* Variant: a new frame goes on counting from the old one.
AssembleUnreset(r, c) == Store(Grow([r EXCEPT !.frame = c.frame, !.expected = c.total]), c)

\* Variant: the frame is only started when the chunk is its first.
AssembleFromFirst(r, c) == Store(Grow(IF c.offset = 0 THEN StartFrame(r, c) ELSE r), c)

Assemble(r, c) == Store(Grow(StartFrame(r, c)), c)

\* Variants: a frame is complete with its last chunk but one, or never.
CompleteEarly(r) == r.received + MaxChunk > r.expected
CompleteLate(r) == r.received > r.expected

Complete(r) == r.received >= r.expected

\* Everything the decoder is given was sent as part of this frame.
Whole(r) == \A i \in PositionsOf(r.expected) : r.buffer[i] = r.frame

\* In an ordered network, c is the oldest chunk in flight.
MayArrive(c) ==
    Ordered => \A d \in wire :
        d.frame > c.frame \/ (d.frame = c.frame /\ d.offset >= c.offset)

Receive(c) ==
    /\ c \in wire /\ MayArrive(c)
    /\ rx' = Assemble(rx, c)
    /\ shown' = IF Complete(rx') THEN Append(shown, [frame |-> rx'.frame, whole |-> Whole(rx')])
                ELSE shown
    /\ \/ wire' = wire \ {c} /\ UNCHANGED <<repeats, repeated>>
       \/ /\ repeats < MaxRepeats /\ repeats' = repeats + 1
          /\ repeated' = repeated \union {c.frame}
          /\ UNCHANGED wire
    /\ UNCHANGED <<video_tx_frame_id, sending, losses, failures, timeouts, damaged, interrupted>>

\* rootstream_net_tick frees the buffer and leaves the counters as they are.
Timeout ==
    /\ timeouts < MaxTimeouts
    /\ rx' = [rx EXCEPT !.capacity = 0, !.buffer = [i \in Positions |-> Garbage]]
    /\ timeouts' = timeouts + 1
    /\ interrupted' = interrupted \union {rx.frame}
    /\ UNCHANGED <<video_tx_frame_id, sending, wire, shown, losses, failures, damaged, repeats, repeated>>

Lose(c) ==
    /\ c \in wire /\ losses < MaxLosses
    /\ wire' = wire \ {c}
    /\ losses' = losses + 1
    /\ damaged' = damaged \union {c.frame}
    /\ UNCHANGED <<video_tx_frame_id, sending, rx, shown, failures, timeouts, interrupted, repeats, repeated>>

Next ==
    \/ \E size \in FrameSizes : Begin(size)
    \/ SendChunk
    \/ SendFails
    \/ \E c \in wire : Receive(c) \/ Lose(c)
    \/ Timeout

Spec == Init /\ [][Next]_vars

\* The host's loop ends and the client's loop reads what arrives.
Fairness == WF_vars(SendChunk) /\ WF_vars(\E c \in wire : Receive(c))
FairSpec == Spec /\ Fairness

-----------------------------------------------------------------------------
TypeOK ==
    /\ video_tx_frame_id \in 1..(MaxFrames + 1)
    /\ sending = Idle \/ /\ sending.frame \in Frames /\ sending.total \in FrameSizes
                         /\ sending.offset \in 0..(sending.total - 1)
    /\ \A c \in wire : /\ c.frame \in Frames /\ c.total \in FrameSizes
                       /\ c.size \in 1..MaxChunk /\ c.offset + c.size \in 1..c.total
    /\ rx.frame \in 0..MaxFrames /\ {rx.received, rx.expected, rx.capacity} \subseteq Nat
    /\ rx.buffer \in [Positions -> 0..MaxFrames]
    /\ losses \in 0..MaxLosses /\ failures \in 0..MaxFailures
    /\ timeouts \in 0..MaxTimeouts /\ repeats \in 0..MaxRepeats
    /\ damaged \subseteq Frames /\ interrupted \subseteq 0..MaxFrames /\ repeated \subseteq Frames

\* docs/PROTOCOL.md:89-91: the client reassembles chunks by frame id and passes
\* the full frame on: no frame the decoder gets has a hole or another frame's
\* bytes, although the code only counts bytes and never clears the buffer.  The
\* exceptions are a frame that was being put together when the peer timed out and
\* one of which the network repeats a chunk: the damage stays with that frame.
FramesAreWhole ==
    \A i \in DOMAIN shown : shown[i].whole \/ shown[i].frame \in interrupted \union repeated

\* No frame is decoded twice, unless the network repeats one of its own chunks.
ShownOnce ==
    \A i, j \in DOMAIN shown :
        shown[i].frame = shown[j].frame => i = j \/ shown[i].frame \in repeated

\* The buffer is large enough for every position the client has written.
BufferCovers ==
    \A i \in Positions : rx.buffer[i] # Garbage => i * MaxChunk < rx.capacity

\* On an ordered network that delivers chunks at most once, whatever is lost and
\* whichever sends fail, the client shows what FrameDelivery allows.
Delivery == INSTANCE FrameDelivery WITH offered <- video_tx_frame_id - 1
Delivers == Delivery!Spec

\* On such a network a frame is shown unless one of its own chunks is missing: what
\* other frames lose does not matter to it.
EveryFrameIsShown ==
    \A f \in Frames :
        (sending.frame = f) ~> (f \in damaged \/ \E i \in DOMAIN shown : shown[i].frame = f)
=============================================================================
