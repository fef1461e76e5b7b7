------------------------ MODULE VideoReassembly_proofs ------------------------
(***************************************************************************)
(* What the client makes of the chunks of a video stream, for every chunk  *)
(* size, any frame sizes and any network: unordered, lossy, repeating.     *)
(*                                                                         *)
(* The code only counts bytes.  The proof keeps the set of positions they  *)
(* are the bytes of: those of the present frame that were stored since the *)
(* count began, none of which is in flight or still to be sent unless the  *)
(* network repeated a chunk.  The sizes of a proper subset of a frame's    *)
(* chunks never add up to the frame.                                       *)
(***************************************************************************)
EXTENDS VideoReassembly, FiniteSetTheorems, TLAPS

Chunk == [frame : Frames, total : FrameSizes, offset : Nat, size : Nat]
Rx == [frame : 0..MaxFrames, received : Nat, expected : Nat, capacity : Nat,
       buffer : [Positions -> 0..MaxFrames]]

At(offset) == offset \div MaxChunk
Last(total) == (total - 1) \div MaxChunk

\* A piece of a frame begins at a chunk position of it.
Aligned(total, offset) ==
    /\ total \in FrameSizes /\ offset \in Nat /\ offset < total
    /\ At(offset) * MaxChunk = offset

\* The bytes at a set of positions of a frame.
Bytes(P, total) ==
    IF Last(total) \in P
    THEN (Cardinality(P) - 1) * MaxChunk + (total - Last(total) * MaxChunk)
    ELSE Cardinality(P) * MaxChunk

-----------------------------------------------------------------------------
\* Arithmetic of positions.

LEMMA Multiply ==
    /\ \A m, n \in Nat, k \in Nat : m <= n => m * k <= n * k
    /\ \A m, k \in Nat : (m + 1) * k = m * k + k
    /\ \A m \in Nat, k \in Nat \ {0} : (m * k) \div k = m
OBVIOUS

LEMMA LastLaws ==
    ASSUME NEW total \in Nat \ {0}
    PROVE  /\ Last(total) \in Nat
           /\ Last(total) * MaxChunk < total
           /\ total <= Last(total) * MaxChunk + MaxChunk
<1>1. total - 1 \in Nat /\ MaxChunk \in Nat \ {0}
  BY SizeAssumption
<1> DEFINE t == total - 1
<1> HIDE DEF t
<1>2. t \in Nat /\ t \div MaxChunk \in Nat
  BY <1>1 DEF t
<1>3. (t \div MaxChunk) * MaxChunk <= t
  BY <1>1, <1>2
<1>4. t < (t \div MaxChunk) * MaxChunk + MaxChunk
  BY <1>1, <1>2
<1>5. (t \div MaxChunk) * MaxChunk \in Nat
  BY <1>1, <1>2
<1> QED
  BY <1>1, <1>2, <1>3, <1>4, <1>5 DEF Last, t

\* A chunk at position k of a frame is a full one unless it is the last.
LEMMA ChunkSizes ==
    ASSUME NEW total \in FrameSizes, NEW k \in PositionsOf(total)
    PROVE  /\ k \in Nat /\ k <= Last(total)
           /\ Aligned(total, k * MaxChunk) /\ At(k * MaxChunk) = k
           /\ ChunkSize(total, k * MaxChunk) =
                IF k = Last(total) THEN total - k * MaxChunk ELSE MaxChunk
<1>1. total \in Nat \ {0} /\ MaxChunk \in Nat \ {0}
  BY SizeAssumption
<1>2. k \in Nat /\ k <= Last(total) /\ Last(total) \in Nat
  BY <1>1, LastLaws DEF PositionsOf, Last
<1>3. k * MaxChunk <= Last(total) * MaxChunk
  BY <1>1, <1>2, LastLaws, Multiply
<1>4. k * MaxChunk < total /\ k * MaxChunk \in Nat
  BY <1>1, <1>2, <1>3, LastLaws
<1>5. At(k * MaxChunk) = k
  BY <1>1, <1>2, Multiply DEF At
<1>6. CASE k = Last(total)
  BY <1>1, <1>2, <1>4, <1>5, <1>6, LastLaws DEF ChunkSize, Aligned
<1>7. CASE k # Last(total)
  <2>1. k + 1 <= Last(total)
    BY <1>2, <1>7
  <2>2. (k + 1) * MaxChunk <= Last(total) * MaxChunk
    BY <1>1, <1>2, <2>1, Multiply
  <2>3. k * MaxChunk + MaxChunk < total
    BY <1>1, <1>2, <2>2, LastLaws, Multiply
  <2> QED
    BY <1>1, <1>2, <1>4, <1>5, <1>7, <2>3 DEF ChunkSize, Aligned
<1> QED
  BY <1>6, <1>7

\* What is aligned is at a position.
LEMMA AlignedAt ==
    ASSUME NEW total, NEW offset, Aligned(total, offset)
    PROVE  /\ At(offset) \in PositionsOf(total) /\ At(offset) \in Nat
           /\ At(offset) \in Positions
<1>1. total \in Nat \ {0} /\ MaxChunk \in Nat \ {0} /\ offset \in Nat
  BY SizeAssumption DEF Aligned
<1>2. At(offset) \in Nat
  BY <1>1 DEF At
<1>3. At(offset) <= Last(total)
  <2>1. SUFFICES ASSUME Last(total) + 1 <= At(offset) PROVE FALSE
    BY <1>1, <1>2, LastLaws
  <2>2. (Last(total) + 1) * MaxChunk <= At(offset) * MaxChunk
    <3>1. Last(total) \in Nat /\ Last(total) + 1 \in Nat
      BY <1>1, LastLaws
    <3> QED
      BY <1>1, <1>2, <2>1, <3>1, Multiply
  <2>3. Last(total) * MaxChunk + MaxChunk <= offset
    BY <1>1, <2>2, LastLaws, Multiply DEF Aligned
  <2> QED
    BY <1>1, <2>3, LastLaws DEF Aligned
<1>4. At(offset) \in PositionsOf(total)
  BY <1>1, <1>2, <1>3, LastLaws DEF PositionsOf, Last
<1> QED
  BY <1>2, <1>4 DEF Positions, Aligned

LEMMA NoBytes == ASSUME NEW total PROVE Bytes({}, total) = 0
BY SizeAssumption, FS_EmptySet DEF Bytes

LEMMA MoreBytes ==
    ASSUME NEW total \in FrameSizes, NEW P \in SUBSET PositionsOf(total),
           NEW k \in PositionsOf(total), k \notin P
    PROVE  Bytes(P \union {k}, total) = Bytes(P, total) + ChunkSize(total, k * MaxChunk)
<1>1. total \in Nat \ {0} /\ MaxChunk \in Nat \ {0}
  BY SizeAssumption
<1>2. IsFiniteSet(P)
  <2>1. Last(total) \in Nat /\ PositionsOf(total) = 0..Last(total)
    BY <1>1, LastLaws DEF PositionsOf, Last
  <2>2. IsFiniteSet(0..Last(total))
    BY <2>1, FS_Interval
  <2> QED
    BY <2>1, <2>2, FS_Subset
<1> DEFINE c == Cardinality(P)
<1>3. c \in Nat /\ Cardinality(P \union {k}) = c + 1
  BY <1>2, FS_CardinalityType, FS_AddElement
<1>4. ChunkSize(total, k * MaxChunk) = IF k = Last(total) THEN total - k * MaxChunk ELSE MaxChunk
  BY ChunkSizes
<1>5. k \in Nat /\ Last(total) \in Nat
  BY ChunkSizes, <1>1, LastLaws
<1>6. CASE k = Last(total)
  <2>1. Bytes(P, total) = c * MaxChunk
    BY <1>6 DEF Bytes
  <2>2. Bytes(P \union {k}, total) = (c + 1 - 1) * MaxChunk + (total - Last(total) * MaxChunk)
    BY <1>3, <1>6 DEF Bytes
  <2> HIDE DEF c
  <2>3. (c + 1 - 1) = c
    BY <1>3
  <2> QED
    BY <1>1, <1>4, <1>6, <2>1, <2>2, <2>3
<1>7. CASE k # Last(total) /\ Last(total) \in P
  <2>1. Bytes(P, total) = (c - 1) * MaxChunk + (total - Last(total) * MaxChunk)
    BY <1>7 DEF Bytes
  <2>2. Bytes(P \union {k}, total) = (c + 1 - 1) * MaxChunk + (total - Last(total) * MaxChunk)
    BY <1>3, <1>7 DEF Bytes
  <2>3. c - 1 \in Nat
    BY <1>2, <1>3, <1>7, FS_EmptySet
  <2> HIDE DEF c
  <2>4. (c + 1 - 1) * MaxChunk = (c - 1) * MaxChunk + MaxChunk
    BY <1>1, <1>3, <2>3
  <2>5. (c - 1) * MaxChunk \in Nat /\ Last(total) * MaxChunk \in Nat
    BY <1>1, <1>5, <2>3
  <2> QED
    BY <1>1, <1>4, <1>7, <2>1, <2>2, <2>4, <2>5
<1>8. CASE k # Last(total) /\ Last(total) \notin P
  <2>1. Bytes(P, total) = c * MaxChunk
    BY <1>8 DEF Bytes
  <2>2. Bytes(P \union {k}, total) = (c + 1) * MaxChunk
    BY <1>3, <1>8 DEF Bytes
  <2> HIDE DEF c
  <2> QED
    BY <1>1, <1>3, <1>4, <1>8, <2>1, <2>2, Multiply
<1> QED
  BY <1>6, <1>7, <1>8

\* Bytes enough for the frame are all of its bytes.
LEMMA AllBytes ==
    ASSUME NEW total \in FrameSizes, NEW P \in SUBSET PositionsOf(total), Bytes(P, total) >= total
    PROVE  P = PositionsOf(total)
<1>1. total \in Nat \ {0} /\ MaxChunk \in Nat \ {0} /\ Last(total) \in Nat
  BY SizeAssumption, LastLaws
<1>2. /\ IsFiniteSet(PositionsOf(total)) /\ IsFiniteSet(P)
      /\ Cardinality(PositionsOf(total)) = Last(total) + 1
  <2>1. PositionsOf(total) = 0..Last(total)
    BY DEF PositionsOf, Last
  <2>2. IsFiniteSet(0..Last(total)) /\ Cardinality(0..Last(total)) = Last(total) + 1
    BY <1>1, FS_Interval
  <2> QED
    BY <2>1, <2>2, FS_Subset
<1> DEFINE c == Cardinality(P)
<1>3. c \in Nat
  BY <1>2, FS_CardinalityType
<1> SUFFICES ASSUME P # PositionsOf(total) PROVE FALSE
  OBVIOUS
<1>4. c < Last(total) + 1
  <2>1. c <= Cardinality(PositionsOf(total)) /\ c # Cardinality(PositionsOf(total))
    BY <1>2, FS_Subset
  <2> QED
    BY <1>1, <1>2, <1>3, <2>1
<1> HIDE DEF c
<1>5. CASE Last(total) \in P
  <2>1. Bytes(P, total) = (c - 1) * MaxChunk + (total - Last(total) * MaxChunk)
    BY <1>5 DEF Bytes, c
  <2>2. c - 1 \in Nat
    BY <1>2, <1>3, <1>5, FS_EmptySet DEF c
  <2>3. (c - 1 + 1) * MaxChunk = (c - 1) * MaxChunk + MaxChunk /\ c - 1 + 1 = c
    BY <1>1, <1>3, <2>2, Multiply
  <2>4. c * MaxChunk <= Last(total) * MaxChunk
    BY <1>1, <1>3, <1>4, Multiply
  <2>5. (c - 1) * MaxChunk \in Nat /\ Last(total) * MaxChunk \in Nat
    BY <1>1, <2>2
  <2> QED
    BY <1>1, <2>1, <2>3, <2>4, <2>5
<1>6. CASE Last(total) \notin P
  <2>1. Bytes(P, total) = c * MaxChunk
    BY <1>6 DEF Bytes, c
  <2>2. c * MaxChunk <= Last(total) * MaxChunk
    BY <1>1, <1>3, <1>4, Multiply
  <2>3. c * MaxChunk \in Nat /\ Last(total) * MaxChunk \in Nat
    BY <1>1, <1>3
  <2> QED
    BY <1>1, <2>1, <2>2, <2>3, LastLaws
<1> QED
  BY <1>5, <1>6

-----------------------------------------------------------------------------
\* The invariant.

Sent == [frame : Frames, total : FrameSizes, offset : Nat]

\* Chunks in flight are pieces of frames that were begun, and the pieces of one
\* frame agree on its size.  What is in flight of the frame being cut up comes
\* before what is still to be sent.
ChunksAgree ==
    /\ video_tx_frame_id \in Nat \ {0} /\ sending \in Sent \union {Idle}
    /\ \A c \in wire : /\ c \in Chunk /\ c.frame < video_tx_frame_id
                       /\ Aligned(c.total, c.offset) /\ c.size = ChunkSize(c.total, c.offset)
    /\ \A c, d \in wire : c.frame = d.frame => c.total = d.total
    /\ sending # Idle => /\ sending.frame < video_tx_frame_id
                         /\ Aligned(sending.total, sending.offset)
                         /\ \A c \in wire : c.frame = sending.frame =>
                                c.total = sending.total /\ c.offset < sending.offset

\* So does the client, of the frame it is putting together.
ClientAgrees ==
    /\ rx \in Rx /\ rx.frame < video_tx_frame_id
    /\ \A c \in wire : c.frame = rx.frame => c.total = rx.expected
    /\ sending # Idle /\ sending.frame = rx.frame => sending.total = rx.expected

\* No chunk at these positions of the frame is in flight or still to be sent.
Gone(f, P) ==
    /\ \A c \in wire : c.frame = f => At(c.offset) \notin P
    /\ sending.frame = f => \A k \in P : k * MaxChunk < sending.offset

\* What the client has counted of a frame is the chunks at the positions P.
CountedBy(P) ==
    /\ P \subseteq PositionsOf(rx.expected)
    /\ rx.received = Bytes(P, rx.expected)
    /\ Gone(rx.frame, P)
    /\ rx.frame \notin interrupted => \A k \in P : rx.buffer[k] = rx.frame

Counted ==
    (rx.frame \in Frames /\ rx.frame \notin repeated) => \E P : CountedBy(P)

\* Nothing more comes of a frame that was shown.
ShownIsGone ==
    /\ shown \in Seq([frame : Frames, whole : BOOLEAN])
    /\ \A i \in DOMAIN shown : shown[i].frame \notin repeated =>
          /\ \A c \in wire : c.frame # shown[i].frame
          /\ sending.frame # shown[i].frame
          /\ shown[i].frame < video_tx_frame_id

IInv == ChunksAgree /\ ClientAgrees /\ Counted /\ ShownIsGone
        /\ BufferCovers /\ FramesAreWhole /\ ShownOnce

LEMMA Constants ==
    /\ MaxChunk \in Nat \ {0} /\ MaxFrames \in Nat /\ FrameSizes \subseteq Nat \ {0}
    /\ \A f \in Frames : f \in Nat /\ f # 0 /\ f \in 0..MaxFrames
    /\ Garbage \in 0..MaxFrames /\ Garbage \notin Frames
    /\ Idle.frame = 0 /\ Idle \notin Sent
BY SizeAssumption DEF Frames, Garbage, Idle, Sent

LEMMA ShownFrames ==
    ASSUME shown \in Seq([frame : Frames, whole : BOOLEAN])
    PROVE  \A i \in DOMAIN shown : shown[i].frame \in Frames
<1> DEFINE R == [frame : Frames, whole : BOOLEAN]
<1>1. \A i \in DOMAIN shown : shown[i] \in R
  <2> HIDE DEF R
  <2>1. shown \in Seq(R)
    BY DEF R
  <2> QED
    BY <2>1
<1> QED
  BY <1>1

LEMMA InitIInv == Init => IInv
<1> SUFFICES ASSUME Init PROVE IInv
  OBVIOUS
<1> USE Constants
<1>1. ChunksAgree
  BY DEF Init, ChunksAgree
<1>2. ClientAgrees
  BY DEF Init, ClientAgrees, Rx
<1>3. Counted
  BY DEF Init, Counted
<1>4. ShownIsGone
  BY DEF Init, ShownIsGone
<1>5. BufferCovers /\ FramesAreWhole /\ ShownOnce
  BY DEF Init, BufferCovers, FramesAreWhole, ShownOnce
<1> QED
  BY <1>1, <1>2, <1>3, <1>4, <1>5 DEF IInv

\* Less in flight, less to send, more frames excused: all of the invariant stays,
\* as long as the client does nothing.
LEMMA LessKeeps ==
    ASSUME IInv, UNCHANGED <<video_tx_frame_id, rx, shown, interrupted, repeated>>,
           wire' \subseteq wire, sending' \in {sending, Idle}
    PROVE  IInv'
<1> USE Constants
<1>1. ChunksAgree'
  BY DEF IInv, ChunksAgree
<1>2. ClientAgrees'
  BY DEF IInv, ClientAgrees
<1>3. Counted'
  <2> SUFFICES ASSUME rx.frame \in Frames, rx.frame \notin repeated
               PROVE  \E P : CountedBy(P)'
    BY DEF Counted
  <2>1. PICK P : CountedBy(P)
    BY DEF IInv, Counted
  <2>2. CountedBy(P)'
    BY <2>1 DEF CountedBy, Gone
  <2> QED
    BY <2>2
<1>4. ShownIsGone'
  <2>1. \A i \in DOMAIN shown : shown[i].frame \in Frames
    BY ShownFrames DEF IInv, ShownIsGone
  <2> QED
    BY <2>1 DEF IInv, ShownIsGone
<1>5. BufferCovers' /\ FramesAreWhole' /\ ShownOnce'
  BY DEF IInv, BufferCovers, FramesAreWhole, ShownOnce
<1> QED
  BY <1>1, <1>2, <1>3, <1>4, <1>5 DEF IInv

LEMMA BeginKeeps ==
    ASSUME IInv, NEW size \in FrameSizes, Begin(size)
    PROVE  IInv'
<1> USE Constants
<1>0. /\ video_tx_frame_id \in Frames /\ video_tx_frame_id' = video_tx_frame_id + 1
      /\ sending = Idle
      /\ sending' = [frame |-> video_tx_frame_id, total |-> size, offset |-> 0]
      /\ sending' \in Sent
      /\ UNCHANGED <<wire, rx, shown, interrupted, repeated>>
  BY DEF Begin, Sent
<1>1. Aligned(size, 0)
  BY DEF Aligned, At
<1>2. ChunksAgree'
  <2>1. /\ video_tx_frame_id' \in Nat \ {0} /\ sending'.frame < video_tx_frame_id'
        /\ sending'.frame = video_tx_frame_id
        /\ Aligned(sending'.total, sending'.offset)
    BY <1>0, <1>1
  <2>2. \A c \in wire : c.frame < video_tx_frame_id /\ c.frame \in Nat
    BY DEF IInv, ChunksAgree, Chunk
  <2>3. \A c \in wire : c.frame < video_tx_frame_id' /\ c.frame # sending'.frame
    BY <1>0, <2>1, <2>2
  <2> QED
    BY <1>0, <2>1, <2>3 DEF IInv, ChunksAgree
<1>3. ClientAgrees'
  BY <1>0 DEF IInv, ClientAgrees, Rx
<1>4. Counted'
  <2> SUFFICES ASSUME rx.frame \in Frames, rx.frame \notin repeated
               PROVE  \E P : CountedBy(P)'
    BY <1>0 DEF Counted
  <2>1. PICK P : CountedBy(P)
    BY DEF IInv, Counted
  <2>2. sending'.frame # rx.frame
    BY <1>0 DEF IInv, ClientAgrees
  <2>3. CountedBy(P)'
    BY <1>0, <2>1, <2>2 DEF CountedBy, Gone
  <2> QED
    BY <2>3
<1>5. ShownIsGone'
  <2>1. \A i \in DOMAIN shown : shown[i].frame \in Frames
    BY ShownFrames DEF IInv, ShownIsGone
  <2> QED
    BY <1>0, <2>1 DEF IInv, ShownIsGone
<1>6. BufferCovers' /\ FramesAreWhole' /\ ShownOnce'
  BY <1>0 DEF IInv, BufferCovers, FramesAreWhole, ShownOnce
<1> QED
  BY <1>2, <1>3, <1>4, <1>5, <1>6 DEF IInv

LEMMA SendChunkKeeps ==
    ASSUME IInv, SendChunk
    PROVE  IInv'
<1> USE Constants
<1> DEFINE k == At(sending.offset)
           c == ChunkAt(sending)
           sent == sending.offset + ChunkSize(sending.total, sending.offset)
<1>0. /\ sending \in Sent /\ sending # Idle /\ wire' = wire \union {c}
      /\ sending' = IF sent < sending.total THEN [sending EXCEPT !.offset = sent] ELSE Idle
      /\ UNCHANGED <<video_tx_frame_id, rx, shown, interrupted, repeated>>
      /\ Aligned(sending.total, sending.offset)
  BY DEF SendChunk, IInv, ChunksAgree
<1>1. /\ k \in PositionsOf(sending.total) /\ k * MaxChunk = sending.offset /\ k \in Nat
      /\ sending.total \in Nat \ {0} /\ sending.offset < sending.total
  BY <1>0, AlignedAt DEF Aligned, Sent
<1>2. /\ ChunkSize(sending.total, sending.offset) \in 1..MaxChunk
      /\ sent \in Nat /\ sending.offset < sent
      /\ sent < sending.total => sent = sending.offset + MaxChunk
  BY <1>0, <1>1 DEF ChunkSize, Sent
<1>3. sent < sending.total => Aligned(sending.total, sent)
  <2> SUFFICES ASSUME sent < sending.total PROVE Aligned(sending.total, sent)
    OBVIOUS
  <2>1. sent = (k + 1) * MaxChunk /\ k + 1 \in Nat
    <3> HIDE DEF k, sent
    <3> QED
      BY <1>1, <1>2, Multiply
  <2>2. At(sent) = k + 1
    <3> HIDE DEF k, sent
    <3> QED
      BY <2>1, Multiply DEF At
  <2> QED
    BY <1>0, <1>2, <2>1, <2>2 DEF Aligned
<1>4. /\ c \in Chunk /\ c.frame = sending.frame /\ c.total = sending.total
      /\ c.offset = sending.offset /\ c.size = ChunkSize(c.total, c.offset)
  BY <1>0, <1>2 DEF ChunkAt, Chunk, Sent
<1> HIDE DEF c, sent
<1>5. \/ sending' = Idle
      \/ /\ sending' \in Sent /\ sending' # Idle /\ sending'.frame = sending.frame
         /\ sending'.total = sending.total /\ sending'.offset = sent /\ sent < sending.total
  BY <1>0, <1>2 DEF Sent
<1>6. ChunksAgree'
  <2>1. \A d \in wire' : /\ d \in Chunk /\ d.frame < video_tx_frame_id
                         /\ Aligned(d.total, d.offset) /\ d.size = ChunkSize(d.total, d.offset)
    BY <1>0, <1>4 DEF IInv, ChunksAgree
  <2>2. \A d \in wire : d.frame = sending.frame => d.total = sending.total /\ d.offset < sending.offset
    BY <1>0 DEF IInv, ChunksAgree
  <2>3. \A d, b \in wire' : d.frame = b.frame => d.total = b.total
    BY <1>0, <1>4, <2>2 DEF IInv, ChunksAgree
  <2>4. \A d \in wire' : d.frame = sending.frame => d.total = sending.total /\ d.offset < sent
    BY <1>0, <1>1, <1>2, <1>4, <2>1, <2>2 DEF Chunk, Sent
  <2>5. sending' # Idle => /\ sending'.frame < video_tx_frame_id
                           /\ Aligned(sending'.total, sending'.offset)
    BY <1>0, <1>3, <1>5 DEF IInv, ChunksAgree
  <2> QED
    BY <1>0, <1>5, <2>1, <2>3, <2>4, <2>5 DEF IInv, ChunksAgree
<1>7. ClientAgrees'
  BY <1>0, <1>4, <1>5 DEF IInv, ClientAgrees
<1>8. Counted'
  <2> SUFFICES ASSUME rx.frame \in Frames, rx.frame \notin repeated
               PROVE  \E P : CountedBy(P)'
    BY <1>0 DEF Counted
  <2>1. PICK P : CountedBy(P)
    BY DEF IInv, Counted
  <2>2. Gone(rx.frame, P)'
    <3>1. ASSUME sending.frame = rx.frame PROVE k \notin P
      BY <1>0, <1>1, <2>1, <3>1 DEF CountedBy, Gone, Sent
    <3>2. \A d \in wire' : d.frame = rx.frame => At(d.offset) \notin P
      BY <1>0, <1>4, <2>1, <3>1 DEF CountedBy, Gone
    <3>3. \A j \in P : j \in Nat
      BY <2>1, <1>0, LastLaws DEF CountedBy, PositionsOf
    <3>4. ASSUME sending'.frame = rx.frame, NEW j \in P PROVE j * MaxChunk < sending'.offset
      <4>1. sending.frame = rx.frame /\ sending'.offset = sent
        BY <1>5, <3>4
      <4>2. j * MaxChunk < sending.offset
        BY <2>1, <3>4, <4>1 DEF CountedBy, Gone
      <4>3. j * MaxChunk \in Int
        BY <3>3, <3>4
      <4> QED
        BY <1>0, <1>2, <4>1, <4>2, <4>3 DEF Sent
    <3> QED
      BY <1>0, <3>2, <3>4 DEF Gone
  <2>3. CountedBy(P)'
    BY <1>0, <2>1, <2>2 DEF CountedBy
  <2> QED
    BY <2>3
<1>9. ShownIsGone'
  <2>1. \A i \in DOMAIN shown : shown[i].frame \in Frames
    BY ShownFrames DEF IInv, ShownIsGone
  <2> QED
    BY <1>0, <1>4, <1>5, <2>1 DEF IInv, ShownIsGone
<1>10. BufferCovers' /\ FramesAreWhole' /\ ShownOnce'
  BY <1>0 DEF IInv, BufferCovers, FramesAreWhole, ShownOnce
<1> QED
  BY <1>6, <1>7, <1>8, <1>9, <1>10 DEF IInv

\* The buffer goes, the counters stay: the frame is excused.
LEMMA TimeoutKeeps ==
    ASSUME IInv, Timeout
    PROVE  IInv'
<1> USE Constants
<1> DEFINE empty == [i \in Positions |-> Garbage]
<1>0. /\ rx' = [rx EXCEPT !.capacity = 0, !.buffer = empty]
      /\ interrupted' = interrupted \union {rx.frame}
      /\ UNCHANGED <<video_tx_frame_id, sending, wire, shown, repeated>>
      /\ rx \in Rx
  BY DEF Timeout, IInv, ClientAgrees
<1>1. /\ rx' \in Rx /\ rx'.frame = rx.frame /\ rx'.expected = rx.expected
      /\ rx'.received = rx.received /\ rx'.buffer = empty
  <2>1. empty \in [Positions -> 0..MaxFrames]
    OBVIOUS
  <2> HIDE DEF empty
  <2> QED
    BY <1>0, <2>1 DEF Rx
<1>2. ChunksAgree' /\ ClientAgrees'
  BY <1>0, <1>1 DEF IInv, ChunksAgree, ClientAgrees
<1>3. Counted'
  <2> SUFFICES ASSUME rx.frame \in Frames, rx.frame \notin repeated
               PROVE  \E P : CountedBy(P)'
    BY <1>0, <1>1 DEF Counted
  <2>1. PICK P : CountedBy(P)
    BY DEF IInv, Counted
  <2>2. CountedBy(P)'
    BY <1>0, <1>1, <2>1 DEF CountedBy, Gone
  <2> QED
    BY <2>2
<1>4. ShownIsGone'
  BY <1>0 DEF IInv, ShownIsGone
<1>5. BufferCovers'
  BY <1>1 DEF BufferCovers
<1>6. FramesAreWhole' /\ ShownOnce'
  BY <1>0 DEF IInv, FramesAreWhole, ShownOnce
<1> QED
  BY <1>2, <1>3, <1>4, <1>5, <1>6 DEF IInv

\* What assembling a chunk does to the client's fields.
LEMMA Assembled ==
    ASSUME IInv, NEW c \in wire
    PROVE  LET r == Assemble(rx, c)
               k == At(c.offset)
           IN  /\ r \in Rx /\ r.frame = c.frame /\ r.expected = c.total
               /\ r.received = (IF rx.frame = c.frame THEN rx.received ELSE 0) + c.size
               /\ r.buffer = [rx.buffer EXCEPT ![k] = c.frame]
               /\ r.capacity >= c.total /\ r.capacity >= rx.capacity
<1> USE Constants
<1> DEFINE k == At(c.offset)
           s == StartFrame(rx, c)
           g == Grow(s)
<1>0. rx \in Rx /\ c \in Chunk /\ k \in Positions
  BY AlignedAt DEF IInv, ClientAgrees, ChunksAgree
<1>1. /\ s \in Rx /\ s.frame = c.frame /\ s.expected = c.total
      /\ s.received = (IF rx.frame = c.frame THEN rx.received ELSE 0)
      /\ s.buffer = rx.buffer /\ s.capacity = rx.capacity
  <2>1. CASE rx.frame = c.frame
    BY <1>0, <2>1 DEF StartFrame, IInv, ClientAgrees
  <2>2. CASE rx.frame # c.frame
    BY <1>0, <2>2 DEF StartFrame, Rx, Chunk
  <2> QED
    BY <2>1, <2>2
<1> HIDE DEF s
<1>2. /\ g \in Rx /\ g.frame = s.frame /\ g.expected = s.expected /\ g.received = s.received
      /\ g.buffer = s.buffer /\ g.capacity >= s.expected /\ g.capacity >= s.capacity
  BY <1>1 DEF Grow, Rx
<1> HIDE DEF g
<1>3. Assemble(rx, c) = [g EXCEPT !.buffer = [g.buffer EXCEPT ![k] = c.frame],
                                  !.received = g.received + c.size]
  BY <1>2 DEF Assemble, Store, g, s, At, Rx
<1>4. /\ [g.buffer EXCEPT ![k] = c.frame] \in [Positions -> 0..MaxFrames]
      /\ g.received + c.size \in Nat
  BY <1>0, <1>2 DEF Rx, Chunk
<1> DEFINE b == [g.buffer EXCEPT ![k] = c.frame]
           m == g.received + c.size
           r == [g EXCEPT !.buffer = b, !.received = m]
<1>5. b = [rx.buffer EXCEPT ![k] = c.frame]
  BY <1>1, <1>2
<1>6. m = (IF rx.frame = c.frame THEN rx.received ELSE 0) + c.size
  BY <1>1, <1>2
<1>7. r = Assemble(rx, c)
  BY <1>3
<1> HIDE DEF b, m, k
<1>8. /\ r \in Rx /\ r.frame = g.frame /\ r.expected = g.expected
      /\ r.received = m /\ r.buffer = b /\ r.capacity = g.capacity
  BY <1>2, <1>4 DEF Rx, b, m
<1> HIDE DEF r
<1>9. g.frame = c.frame /\ g.expected = c.total /\ g.capacity >= c.total /\ g.capacity >= rx.capacity
  BY <1>1, <1>2
<1>10. /\ r \in Rx /\ r.frame = c.frame /\ r.expected = c.total
       /\ r.received = (IF rx.frame = c.frame THEN rx.received ELSE 0) + c.size
       /\ r.buffer = [rx.buffer EXCEPT ![k] = c.frame]
       /\ r.capacity >= c.total /\ r.capacity >= rx.capacity
  BY <1>5, <1>6, <1>8, <1>9
<1> QED
  BY <1>7, <1>10 DEF k

\* If the network does not repeat the chunk, its position joins those counted.
LEMMA OneMoreCounted ==
    ASSUME IInv, NEW c \in wire, rx' = Assemble(rx, c), c.frame \notin repeated,
           wire' = wire \ {c}, UNCHANGED <<sending, interrupted>>
    PROVE  \E P : CountedBy(P)'
<1> USE Constants
<1> DEFINE r == IF rx.frame = c.frame THEN rx.received ELSE 0
<1>k. PICK k : k = At(c.offset)
  OBVIOUS
<1>0. /\ c \in Chunk /\ Aligned(c.total, c.offset) /\ c.size = ChunkSize(c.total, c.offset)
      /\ c.frame \in Frames
  BY DEF IInv, ChunksAgree, Chunk
<1>1. /\ k \in PositionsOf(c.total) /\ k \in Nat /\ k \in Positions /\ k * MaxChunk = c.offset
      /\ c.total \in FrameSizes
  BY <1>k, <1>0, AlignedAt DEF Aligned
<1>2. PICK P \in SUBSET PositionsOf(c.total) :
         /\ r = Bytes(P, c.total) /\ Gone(c.frame, P)
         /\ (rx.frame = c.frame /\ c.frame \notin interrupted) => \A j \in P : rx.buffer[j] = c.frame
         /\ rx.frame # c.frame => P = {}
  <2>1. CASE rx.frame = c.frame
    <3>1. PICK Q : CountedBy(Q)
      BY <1>0, <2>1 DEF IInv, Counted
    <3>2. rx.expected = c.total
      BY <2>1 DEF IInv, ClientAgrees
    <3> QED
      BY <2>1, <3>1, <3>2 DEF CountedBy
  <2>2. CASE rx.frame # c.frame
    BY <2>2, NoBytes DEF Gone
  <2> QED
    BY <2>1, <2>2
<1>4. /\ rx'.frame = c.frame /\ rx'.expected = c.total /\ rx'.received = r + c.size
      /\ rx'.buffer = [rx.buffer EXCEPT ![k] = c.frame]
      /\ rx.buffer \in [Positions -> 0..MaxFrames]
  BY <1>k, Assembled DEF IInv, ClientAgrees, Rx
<1> HIDE DEF r
<1>5. k \notin P
  BY <1>k, <1>2 DEF Gone
<1>6. rx'.received = Bytes(P \union {k}, c.total)
  <2>1. Bytes(P \union {k}, c.total) = Bytes(P, c.total) + ChunkSize(c.total, k * MaxChunk)
    BY <1>1, <1>5, MoreBytes
  <2> QED
    BY <1>0, <1>1, <1>2, <1>4, <2>1
<1>7. Gone(c.frame, P \union {k})'
  <2>1. ASSUME NEW d \in wire', d.frame = c.frame PROVE At(d.offset) \notin P \union {k}
    <3>1. d \in wire /\ d # c
      BY <2>1
    <3>2. At(d.offset) \notin P
      BY <1>2, <2>1, <3>1 DEF Gone
    <3>3. At(d.offset) # k
      <4> SUFFICES ASSUME At(d.offset) = k PROVE FALSE
        OBVIOUS
      <4>1. /\ d \in Chunk /\ Aligned(d.total, d.offset) /\ d.total = c.total
            /\ d.size = ChunkSize(d.total, d.offset)
        BY <2>1, <3>1 DEF IInv, ChunksAgree
      <4>2. d.offset = c.offset
        BY <1>1, <4>1 DEF Aligned
      <4>3. d = c
        BY <1>0, <2>1, <4>1, <4>2 DEF Chunk
      <4> QED
        BY <3>1, <4>3
    <3> QED
      BY <3>2, <3>3
  <2>2. ASSUME sending.frame = c.frame, NEW j \in P \union {k} PROVE j * MaxChunk < sending.offset
    <3>1. sending # Idle
      BY <1>0, <2>2
    <3>2. k * MaxChunk < sending.offset
      BY <1>1, <2>2, <3>1 DEF IInv, ChunksAgree
    <3> QED
      BY <1>2, <2>2, <3>2 DEF Gone
  <2> QED
    BY <2>1, <2>2 DEF Gone
<1>8. c.frame \notin interrupted => \A j \in P \union {k} : rx'.buffer[j] = c.frame
  <2> SUFFICES ASSUME c.frame \notin interrupted, NEW j \in P \union {k}
               PROVE  rx'.buffer[j] = c.frame
    OBVIOUS
  <2>1. j \in PositionsOf(c.total) /\ j \in Positions
    BY <1>1, <1>2 DEF Positions
  <2>2. CASE j = k
    BY <1>1, <1>4, <2>2
  <2>3. CASE j # k
    <3>1. j \in P /\ rx.frame = c.frame /\ rx.buffer[j] = c.frame
      BY <1>2, <2>3
    <3> QED
      BY <1>4, <2>1, <2>3, <3>1
  <2> QED
    BY <2>2, <2>3
<1>9. CountedBy(P \union {k})'
  BY <1>1, <1>2, <1>4, <1>6, <1>7, <1>8 DEF CountedBy
<1> QED
  BY <1>9

LEMMA ReceiveKeeps ==
    ASSUME IInv, NEW c \in wire, Receive(c)
    PROVE  IInv'
<1> USE Constants
<1>0. /\ rx' = Assemble(rx, c)
      /\ shown' = IF Complete(rx') THEN Append(shown, [frame |-> rx'.frame, whole |-> Whole(rx')])
                  ELSE shown
      /\ \/ wire' = wire \ {c} /\ repeated' = repeated
         \/ wire' = wire /\ repeated' = repeated \union {c.frame}
      /\ UNCHANGED <<video_tx_frame_id, sending, interrupted>>
      /\ c \in Chunk /\ Aligned(c.total, c.offset) /\ c.frame \in Frames
      /\ c.frame < video_tx_frame_id
  BY DEF Receive, IInv, ChunksAgree, Chunk
<1>1. /\ rx' \in Rx /\ rx'.frame = c.frame /\ rx'.expected = c.total
      /\ rx'.buffer = [rx.buffer EXCEPT ![At(c.offset)] = c.frame]
      /\ rx'.capacity >= c.total /\ rx'.capacity >= rx.capacity
  BY <1>0, Assembled
<1>2. ChunksAgree'
  BY <1>0 DEF IInv, ChunksAgree
<1>3. ClientAgrees'
  BY <1>0, <1>1 DEF IInv, ClientAgrees, ChunksAgree
<1>4. c.frame \notin repeated' => \E P : CountedBy(P)'
  BY <1>0, OneMoreCounted
<1>5. Counted'
  BY <1>1, <1>4 DEF Counted
<1>6. BufferCovers'
  <2> SUFFICES ASSUME NEW i \in Positions, rx'.buffer[i] # Garbage
               PROVE  i * MaxChunk < rx'.capacity
    BY DEF BufferCovers
  <2>1. At(c.offset) \in Positions /\ rx \in Rx
    BY <1>0, AlignedAt DEF IInv, ClientAgrees
  <2>2. CASE i = At(c.offset)
    BY <1>0, <1>1, <2>2 DEF Aligned, Rx
  <2>3. CASE i # At(c.offset)
    <3>1. i * MaxChunk < rx.capacity
      BY <1>1, <2>1, <2>3 DEF IInv, BufferCovers, Rx
    <3>2. i \in Nat
      <4>1. PICK size \in FrameSizes : i \in PositionsOf(size)
        BY DEF Positions
      <4> QED
        BY <4>1, ChunkSizes
    <3>3. i * MaxChunk \in Nat
      BY <3>2
    <3> QED
      BY <1>1, <2>1, <3>1, <3>3 DEF Rx
  <2> QED
    BY <2>2, <2>3
\* A complete frame that no chunk of was repeated has all its positions.
<1>7. ASSUME Complete(rx'), c.frame \notin repeated'
      PROVE  /\ \A d \in wire' : d.frame # c.frame
             /\ sending'.frame # c.frame
             /\ c.frame \notin interrupted => Whole(rx')
  <2>1. PICK P : CountedBy(P)'
    BY <1>4, <1>7
  <2>2. P = PositionsOf(c.total)
    <3>1. P \in SUBSET PositionsOf(c.total) /\ rx'.received = Bytes(P, c.total)
      BY <1>1, <2>1 DEF CountedBy
    <3>2. rx'.received >= c.total /\ c.total \in FrameSizes
      BY <1>0, <1>1, <1>7 DEF Complete, Aligned
    <3> QED
      BY <3>1, <3>2, AllBytes
  <2>3. ASSUME NEW d \in wire', d.frame = c.frame PROVE FALSE
    <3>1. Aligned(d.total, d.offset) /\ d.total = c.total
      BY <1>0, <1>2, <2>3 DEF ChunksAgree, IInv
    <3>2. At(d.offset) \in P
      BY <2>2, <3>1, AlignedAt
    <3> QED
      BY <1>1, <2>1, <2>3, <3>2 DEF CountedBy, Gone
  <2>4. ASSUME sending'.frame = c.frame PROVE FALSE
    <3>1. sending' # Idle
      BY <1>0, <2>4
    <3>2. Aligned(sending'.total, sending'.offset) /\ sending'.total = c.total
      BY <1>1, <1>2, <1>3, <2>4, <3>1 DEF ChunksAgree, ClientAgrees
    <3>3. /\ At(sending'.offset) \in P /\ At(sending'.offset) * MaxChunk = sending'.offset
          /\ sending'.offset \in Nat
      BY <2>2, <3>2, AlignedAt DEF Aligned
    <3>4. At(sending'.offset) * MaxChunk < sending'.offset
      BY <1>1, <2>1, <2>4, <3>3 DEF CountedBy, Gone
    <3> QED
      BY <3>3, <3>4
  <2>5. c.frame \notin interrupted => Whole(rx')
    BY <1>0, <1>1, <2>1, <2>2 DEF CountedBy, Whole
  <2> QED
    BY <2>3, <2>4, <2>5
<1> DEFINE new == [frame |-> c.frame, whole |-> Whole(rx')]
           R == [frame : Frames, whole : BOOLEAN]
<1>8. /\ shown \in Seq(R) /\ shown' \in Seq(R)
      /\ \A i \in DOMAIN shown : i \in DOMAIN shown' /\ shown'[i] = shown[i]
      /\ \A i \in DOMAIN shown' :
            i \in DOMAIN shown \/ (Complete(rx') /\ i = Len(shown) + 1 /\ shown'[i] = new)
  <2>1. shown \in Seq(R)
    BY DEF IInv, ShownIsGone
  <2>2. new \in R
    BY <1>0 DEF Whole
  <2>3. shown' = IF Complete(rx') THEN Append(shown, new) ELSE shown
    BY <1>0, <1>1
  <2> HIDE DEF new, R
  <2> QED
    BY <2>1, <2>2, <2>3
<1>9. \A i \in DOMAIN shown : shown[i].frame \in Frames
  BY <1>8, ShownFrames
<1>10. repeated \subseteq repeated' /\ wire' \subseteq wire
  BY <1>0
<1>11. ShownIsGone'
  <2> SUFFICES ASSUME NEW i \in DOMAIN shown', shown'[i].frame \notin repeated'
               PROVE  /\ \A d \in wire' : d.frame # shown'[i].frame
                      /\ sending'.frame # shown'[i].frame
                      /\ shown'[i].frame < video_tx_frame_id'
    BY <1>8 DEF ShownIsGone
  <2>1. CASE i \in DOMAIN shown
    BY <1>0, <1>8, <1>10, <2>1 DEF IInv, ShownIsGone
  <2>2. CASE Complete(rx') /\ i = Len(shown) + 1 /\ shown'[i] = new
    <3>1. shown'[i].frame = c.frame
      BY <2>2
    <3> QED
      BY <1>0, <1>7, <2>2, <3>1
  <2> QED
    BY <1>8, <2>1, <2>2
<1>12. FramesAreWhole'
  <2> SUFFICES ASSUME NEW i \in DOMAIN shown', shown'[i].frame \notin interrupted' \union repeated'
               PROVE  shown'[i].whole
    BY DEF FramesAreWhole
  <2>1. CASE i \in DOMAIN shown
    BY <1>0, <1>8, <1>10, <2>1 DEF IInv, FramesAreWhole
  <2>2. CASE Complete(rx') /\ i = Len(shown) + 1 /\ shown'[i] = new
    <3>1. shown'[i].frame = c.frame /\ shown'[i].whole = Whole(rx')
      BY <2>2
    <3> QED
      BY <1>0, <1>7, <2>2, <3>1
  <2> QED
    BY <1>8, <2>1, <2>2
<1>13. ShownOnce'
  <2> SUFFICES ASSUME NEW i \in DOMAIN shown', NEW j \in DOMAIN shown',
                      shown'[i].frame = shown'[j].frame, shown'[i].frame \notin repeated'
               PROVE  i = j
    BY DEF ShownOnce
  <2>1. CASE i \in DOMAIN shown /\ j \in DOMAIN shown
    BY <1>8, <1>10, <2>1 DEF IInv, ShownOnce
  <2>2. ASSUME NEW x \in DOMAIN shown, shown[x].frame = c.frame, c.frame \notin repeated
        PROVE  FALSE
    BY <2>2 DEF IInv, ShownIsGone
  <2>3. CASE i \in DOMAIN shown /\ shown'[j] = new
    BY <1>8, <1>10, <2>2, <2>3
  <2>4. CASE j \in DOMAIN shown /\ shown'[i] = new
    BY <1>8, <1>10, <2>2, <2>4
  <2> QED
    BY <1>8, <2>1, <2>3, <2>4
<1> QED
  BY <1>2, <1>3, <1>5, <1>6, <1>11, <1>12, <1>13 DEF IInv

LEMMA NextIInv == IInv /\ [Next]_vars => IInv'
<1> SUFFICES ASSUME IInv, [Next]_vars PROVE IInv'
  OBVIOUS
<1>1. CASE SendFails \/ (\E c \in wire : Lose(c)) \/ UNCHANGED vars
  BY <1>1, LessKeeps DEF SendFails, Lose, vars
<1>2. ASSUME NEW size \in FrameSizes, Begin(size) PROVE IInv'
  BY <1>2, BeginKeeps
<1>3. CASE SendChunk
  BY <1>3, SendChunkKeeps
<1>4. ASSUME NEW c \in wire, Receive(c) PROVE IInv'
  BY <1>4, ReceiveKeeps
<1>5. CASE Timeout
  BY <1>5, TimeoutKeeps
<1> QED
  BY <1>1, <1>2, <1>3, <1>4, <1>5 DEF Next

LEMMA Invariance == Spec => []IInv
BY InitIInv, NextIInv, PTL DEF Spec

\* No frame the decoder gets has a hole or another frame's bytes, in whatever order
\* chunks arrive and however many are lost (network.c:594-662).
THEOREM FramesComeWhole == Spec => []FramesAreWhole
<1>1. IInv => FramesAreWhole
  BY DEF IInv
<1> QED
  BY <1>1, Invariance, PTL

\* No frame is decoded twice unless the network repeats one of its chunks.
THEOREM FramesComeOnce == Spec => []ShownOnce
<1>1. IInv => ShownOnce
  BY DEF IInv
<1> QED
  BY <1>1, Invariance, PTL

\* Every chunk is copied to within the buffer that is allocated.
THEOREM BufferAlwaysCovers == Spec => []BufferCovers
<1>1. IInv => BufferCovers
  BY DEF IInv
<1> QED
  BY <1>1, Invariance, PTL
-----------------------------------------------------------------------------
\* An ordered network that delivers chunks at most once, and a peer that never
\* times out.
Faithful == Ordered /\ MaxRepeats = 0 /\ MaxTimeouts = 0

\* The client is never ahead of what is in flight, nor that of what is being cut
\* up, and no frame is excused.
InOrder ==
    /\ repeats = 0 /\ timeouts = 0 /\ repeated = {} /\ interrupted = {}
    /\ \A c \in wire : rx.frame <= c.frame
    /\ sending # Idle => sending.frame = video_tx_frame_id - 1
    /\ \A i \in DOMAIN shown : shown[i].frame <= rx.frame

LEMMA InitInOrder == Init => InOrder
BY DEF Init, InOrder

LEMMA NextInOrder ==
    ASSUME Faithful, IInv, InOrder, [Next]_vars
    PROVE  InOrder'
<1> USE Constants DEF Faithful
<1>0. /\ video_tx_frame_id \in Nat /\ rx.frame \in Nat /\ rx.frame < video_tx_frame_id
      /\ \A c \in wire : c.frame \in Nat /\ c.frame < video_tx_frame_id
      /\ \A i \in DOMAIN shown : shown[i].frame \in Nat
  BY ShownFrames DEF IInv, ChunksAgree, ClientAgrees, ShownIsGone, Chunk, Rx, Frames
<1>1. CASE SendFails \/ (\E c \in wire : Lose(c)) \/ UNCHANGED vars
  BY <1>1 DEF SendFails, Lose, vars, InOrder
<1>2. ASSUME NEW size \in FrameSizes, Begin(size) PROVE InOrder'
  BY <1>0, <1>2 DEF Begin, InOrder
<1>3. CASE SendChunk
  <2>1. /\ sending # Idle /\ wire' = wire \union {ChunkAt(sending)}
        /\ sending' = Idle \/ sending'.frame = sending.frame
        /\ UNCHANGED <<video_tx_frame_id, rx, shown, timeouts, interrupted, repeats, repeated>>
    BY <1>3 DEF SendChunk, IInv, ChunksAgree, Sent
  <2>2. ChunkAt(sending).frame = video_tx_frame_id - 1
    BY <2>1 DEF ChunkAt, InOrder
  <2> QED
    BY <1>0, <2>1, <2>2 DEF InOrder
<1>4. ASSUME NEW c \in wire, Receive(c) PROVE InOrder'
  <2>1. /\ \A d \in wire : c.frame <= d.frame
        /\ wire' = wire \ {c} /\ UNCHANGED <<repeats, repeated>>
        /\ UNCHANGED <<video_tx_frame_id, sending, timeouts, interrupted>>
        /\ rx' = Assemble(rx, c)
        /\ shown' \in {shown, Append(shown, [frame |-> rx'.frame, whole |-> Whole(rx')])}
    BY <1>0, <1>4 DEF Receive, MayArrive, InOrder
  <2>2. rx'.frame = c.frame
    BY <2>1, Assembled
  <2> DEFINE new == [frame |-> c.frame, whole |-> Whole(rx')]
  <2>3. \A i \in DOMAIN shown' : shown'[i].frame \in {shown[x].frame : x \in DOMAIN shown} \union {c.frame}
    <3>1. shown \in Seq([frame : Frames, whole : BOOLEAN]) /\ new.frame = c.frame
      BY DEF IInv, ShownIsGone
    <3>2. shown' \in {shown, Append(shown, new)}
      BY <2>1, <2>2
    <3> HIDE DEF new
    <3>3. \A i \in DOMAIN shown' : shown'[i] = new \/ (i \in DOMAIN shown /\ shown'[i] = shown[i])
      BY <3>1, <3>2
    <3> QED
      BY <3>1, <3>3
  <2>4. \A x \in DOMAIN shown : shown[x].frame <= c.frame
    BY <1>0 DEF InOrder
  <2>5. \A i \in DOMAIN shown' : shown'[i].frame <= rx'.frame
    BY <1>0, <2>2, <2>3, <2>4
  <2> QED
    BY <2>1, <2>2, <2>5 DEF InOrder
<1>5. CASE Timeout
  BY <1>5 DEF Timeout, InOrder
<1> QED
  BY <1>1, <1>2, <1>3, <1>4, <1>5 DEF Next

\* The chunk that completes a frame shows it, after every frame shown before.
LEMMA ReceiveShows ==
    ASSUME Faithful, IInv, IInv', InOrder, InOrder', NEW c \in wire, Receive(c), Complete(rx')
    PROVE  Delivery!Show(c.frame) /\ c.frame \in 1..(video_tx_frame_id - 1)
<1> USE Constants
<1> DEFINE new == [frame |-> c.frame, whole |-> Whole(rx')]
<1>1. /\ rx' = Assemble(rx, c) /\ rx'.frame = c.frame
      /\ shown' = Append(shown, new)
      /\ video_tx_frame_id' = video_tx_frame_id
  BY Assembled DEF Receive
<1>2. shown \in Seq([frame : Frames, whole : BOOLEAN])
  BY DEF IInv, ShownIsGone
<1>3. new.whole
  <2>1. new.frame = c.frame /\ new \in [frame : Frames, whole : BOOLEAN]
    BY DEF IInv, ChunksAgree, Chunk, Whole
  <2> HIDE DEF new
  <2>2. Len(shown') \in DOMAIN shown' /\ shown'[Len(shown')] = new
    BY <1>1, <1>2
  <2> QED
    BY <2>2 DEF IInv, FramesAreWhole, InOrder
<1>4. new = [frame |-> c.frame, whole |-> TRUE]
  BY <1>3 DEF Whole
<1>5. c.frame \in 1..(video_tx_frame_id - 1)
  BY DEF IInv, ChunksAgree, Chunk, Frames
<1>6. shown # <<>> => shown[Len(shown)].frame < c.frame
  <2> SUFFICES ASSUME shown # <<>> PROVE shown[Len(shown)].frame < c.frame
    OBVIOUS
  <2>1. Len(shown) \in DOMAIN shown
    BY <1>2
  <2>2. shown[Len(shown)].frame \in Nat /\ rx.frame \in Nat /\ c.frame \in Nat
    BY <1>2, <1>5, <2>1, ShownFrames DEF IInv, ClientAgrees, Rx, Frames
  <2>3. shown[Len(shown)].frame <= rx.frame /\ rx.frame <= c.frame
    BY <2>1 DEF InOrder
  <2>4. shown[Len(shown)].frame # c.frame
    BY <2>1 DEF IInv, ShownIsGone, InOrder
  <2> QED
    BY <2>2, <2>3, <2>4
<1> HIDE DEF new
<1> QED
  BY <1>1, <1>4, <1>5, <1>6 DEF Delivery!Show

LEMMA StepDelivers ==
    ASSUME Faithful, IInv, IInv', InOrder, InOrder', [Next]_vars
    PROVE  [Delivery!Next]_<<video_tx_frame_id - 1, shown>>
<1> USE Constants
<1>1. CASE SendFails \/ SendChunk \/ Timeout \/ (\E c \in wire : Lose(c)) \/ UNCHANGED vars
  BY <1>1 DEF SendFails, SendChunk, Timeout, Lose, vars
<1>2. ASSUME NEW size \in FrameSizes, Begin(size) PROVE Delivery!Next
  BY <1>2 DEF Begin, Delivery!Next, Delivery!Offer, IInv, ChunksAgree
<1>3. ASSUME NEW c \in wire, Receive(c), ~Complete(rx')
      PROVE  UNCHANGED <<video_tx_frame_id - 1, shown>>
  BY <1>3 DEF Receive
<1>4. ASSUME NEW c \in wire, Receive(c), Complete(rx') PROVE Delivery!Next
  BY <1>4, ReceiveShows DEF Delivery!Next
<1> QED
  BY <1>1, <1>2, <1>3, <1>4 DEF Next

\* On a network that keeps the order of chunks and delivers each at most once,
\* whatever it loses and whichever sends fail, the client's decoder is given what
\* the abstract specification allows: whole frames, each once, in the order the
\* host captured them (network.c:594-662).
THEOREM ShowsAsPromised == ASSUME Faithful PROVE Spec => Delivers
<1>1. Init => Delivery!Init
  BY DEF Init, Delivery!Init
<1>2. Spec => []InOrder
  <2>1. IInv /\ InOrder /\ [Next]_vars => InOrder'
    BY NextInOrder
  <2> QED
    BY <2>1, InitInOrder, Invariance, PTL DEF Spec
<1>3. IInv /\ IInv' /\ InOrder /\ InOrder' /\ [Next]_vars
        => [Delivery!Next]_<<video_tx_frame_id - 1, shown>>
  BY StepDelivers
<1> QED
  BY <1>1, <1>2, <1>3, Invariance, PTL DEF Spec, Delivers, Delivery!Spec
=============================================================================
