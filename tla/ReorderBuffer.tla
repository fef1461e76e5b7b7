---------------------------- MODULE ReorderBuffer ----------------------------
(***************************************************************************)
(* The packet reorder buffer: packets are numbered by their sender,        *)
(* reordered, lost or repeated by a network, held in slot seq % Capacity   *)
(* and delivered in order, or when they have been held too long.           *)
(*                                                                         *)
(* A packet is its number n; the code sees n % SeqNumbers.  A slot keeps   *)
(* how long its packet has been held instead of when it arrived.           *)
(***************************************************************************)
EXTENDS Integers, Sequences, FiniteSets

CONSTANTS
    Capacity,       \* REORDER_BUFFER_CAPACITY
    SeqNumbers,     \* 2^16: sequence numbers wrap
    Timeout,        \* timeout_us, in steps of the clock
    MaxPackets,     \* packets sent in one behaviour
    MaxInFlight,    \* packets the network holds
    MaxLosses,      \* packets it may lose
    MaxRepeats      \* packets it may deliver again

ReorderAssumption ==
    /\ {Capacity, SeqNumbers, Timeout} \subseteq Nat \ {0}
    /\ SeqNumbers % Capacity = 0 /\ 2 * Capacity <= SeqNumbers
    /\ {MaxPackets, MaxInFlight, MaxLosses, MaxRepeats} \subseteq Nat

Packets == 0..(MaxPackets - 1)
Slots == 0..(Capacity - 1)
Empty == [occupied |-> FALSE, packet |-> 0, age |-> 0]

VARIABLES
    rb,         \* the buffer: slots, next_seq, count
    delivered,  \* packets handed to the callback, oldest first
    wire,       \* packets in flight
    sent, losses,
    repeated,   \* packets the network has delivered again
    late        \* history: a packet was held too long

vars == <<rb, delivered, wire, sent, losses, repeated, late>>

Seq16(n) == n % SeqNumbers
SlotOf(seq) == seq % Capacity

\* RFC 1982: s1 is before s2.
seq_lt(s1, s2) == (s1 - s2) % SeqNumbers >= SeqNumbers \div 2

Init ==
    /\ rb = [slots |-> [i \in Slots |-> Empty], next_seq |-> 0, count |-> 0]
    /\ delivered = <<>>
    /\ wire = {} /\ sent = 0 /\ losses = 0 /\ repeated = {} /\ late = FALSE

-----------------------------------------------------------------------------
\* A full buffer and an occupied slot refuse the packet.
reorder_buffer_insert(b, n) ==
    LET i == SlotOf(Seq16(n)) IN
    IF b.count >= Capacity \/ b.slots[i].occupied THEN b
    ELSE [slots |-> [b.slots EXCEPT ![i] = [occupied |-> TRUE, packet |-> n, age |-> 0]],
          next_seq |-> b.next_seq, count |-> b.count + 1]

\* Within a flush: the buffer and what has been delivered so far.

\* The slot the j-th packet from next_seq on would be in, and whether it is there.
Expected(f, j) == SlotOf(f.b.next_seq + j)

\* Variants of the code stand before the definition they change.  The packet in the
\* slot may be any.
InPlaceUnchecked(f, j) == f.b.slots[Expected(f, j)].occupied

InPlace(f, j) ==
    LET s == f.b.slots[Expected(f, j)]
    IN  s.occupied /\ Seq16(s.packet) = Seq16(f.b.next_seq + j)

\* How many consecutive packets there are from next_seq on.
Run(f) == CHOOSE k \in 0..Capacity : /\ \A j \in 0..(k - 1) : InPlace(f, j)
                                     /\ k < Capacity => ~InPlace(f, k)

DeliverRun(f) ==
    [b |-> [slots |-> [i \in Slots |-> IF \E j \in 0..(Run(f) - 1) : i = Expected(f, j)
                                       THEN Empty ELSE f.b.slots[i]],
            next_seq |-> Seq16(f.b.next_seq + Run(f)),
            count |-> f.b.count - Run(f)],
     out |-> f.out \o [j \in 1..Run(f) |-> f.b.slots[Expected(f, j - 1)].packet]]

\* Variant: the pass ends one slot early.
DueButLast(b, i) == i < Capacity - 1 /\ b.slots[i].occupied /\ b.slots[i].age >= Timeout

Due(b, i) == b.slots[i].occupied /\ b.slots[i].age >= Timeout

\* Variant: the slot is not cleared.
DeliverLateUncleared(f, i) ==
    LET seq == Seq16(f.b.slots[i].packet)
        next == IF seq_lt(f.b.next_seq, seq) THEN seq ELSE f.b.next_seq
    IN  [b |-> [f.b EXCEPT !.next_seq = Seq16(next + 1), !.count = @ - 1],
         out |-> Append(f.out, f.b.slots[i].packet)]

\* A packet that was held too long: next_seq goes up to it, never down, and then
\* one further.
DeliverLate(f, i) ==
    LET seq == Seq16(f.b.slots[i].packet)
        next == IF seq_lt(f.b.next_seq, seq) THEN seq ELSE f.b.next_seq
    IN  [b |-> [slots |-> [f.b.slots EXCEPT ![i] = Empty],
                next_seq |-> Seq16(next + 1), count |-> f.b.count - 1],
         out |-> Append(f.out, f.b.slots[i].packet)]

\* One slot of the pass.
GiveUp(f, i) ==
    IF f.b.count > 0 /\ Due(f.b, i) THEN DeliverRun(DeliverLate(f, i)) ELSE f

\* The pass over the slots, in the order of the array.
reorder_buffer_flush(b, out) ==
    LET pass[k \in 0..Capacity] == IF k = 0 THEN DeliverRun([b |-> b, out |-> out])
                                   ELSE GiveUp(pass[k - 1], k - 1)
    IN  pass[Capacity]

-----------------------------------------------------------------------------
Held == {rb.slots[i].packet : i \in {j \in Slots : rb.slots[j].occupied}}

\* A bound: the sender is never a whole round of sequence numbers ahead of what is
\* awaited, held or in flight, which at 65536 numbers and a timeout of 80 ms it
\* cannot be.
Send ==
    /\ sent < MaxPackets /\ Cardinality(wire) < MaxInFlight
    /\ \A n \in wire \union Held \union {Len(delivered)} : sent + 1 < n + SeqNumbers
    /\ wire' = wire \union {sent}
    /\ sent' = sent + 1
    /\ UNCHANGED <<rb, delivered, losses, repeated, late>>

Insert(n) ==
    /\ n \in wire
    /\ rb' = reorder_buffer_insert(rb, n)
    /\ \/ wire' = wire \ {n} /\ UNCHANGED repeated
       \/ /\ Cardinality(repeated \union {n}) <= MaxRepeats
          /\ repeated' = repeated \union {n}
          /\ UNCHANGED wire
    /\ UNCHANGED <<delivered, sent, losses, late>>

HasWork == InPlace([b |-> rb, out |-> delivered], 0) \/ \E i \in Slots : Due(rb, i)

Flush ==
    /\ HasWork
    /\ \E f \in {reorder_buffer_flush(rb, delivered)} : rb' = f.b /\ delivered' = f.out
    /\ Len(delivered') <= MaxPackets + 1    \* a bound: repeated packets are delivered again
    /\ late' = (late \/ \E i \in Slots : Due(rb, i))
    /\ UNCHANGED <<wire, sent, losses, repeated>>

\* Time passes; after Timeout steps the age of a packet tells nothing more.
Older(e) == IF e.occupied /\ e.age < Timeout THEN [e EXCEPT !.age = @ + 1] ELSE e

Tick ==
    /\ \E i \in Slots : rb.slots[i].occupied /\ rb.slots[i].age < Timeout
    /\ rb' = [rb EXCEPT !.slots = [i \in Slots |-> Older(rb.slots[i])]]
    /\ UNCHANGED <<delivered, wire, sent, losses, repeated, late>>

Lose(n) ==
    /\ n \in wire /\ losses < MaxLosses
    /\ wire' = wire \ {n}
    /\ losses' = losses + 1
    /\ UNCHANGED <<rb, delivered, sent, repeated, late>>

Next ==
    \/ Send \/ Flush \/ Tick
    \/ \E n \in Packets : Insert(n) \/ Lose(n)

Spec == Init /\ [][Next]_vars

\* The owner of the buffer flushes it again and again, and time passes.  The first
\* is WF_vars(Flush) with the action's guard in place of ENABLED, which TLC is slow
\* to evaluate.
Fairness == ([]<>~HasWork \/ []<><<Flush>>_vars) /\ WF_vars(Tick)
FairSpec == Spec /\ Fairness

-----------------------------------------------------------------------------
TypeOK ==
    /\ rb.slots \in [Slots -> [occupied : BOOLEAN, packet : Packets \union {0}, age : 0..Timeout]]
    /\ rb.next_seq \in 0..(SeqNumbers - 1) /\ rb.count \in 0..Capacity
    /\ delivered \in Seq(Packets)
    /\ wire \subseteq Packets /\ sent \in 0..MaxPackets /\ losses \in 0..MaxLosses
    /\ repeated \subseteq Packets /\ late \in BOOLEAN

\* A packet is delivered once and then no longer held, unless the network repeats it.
DeliveredOnce ==
    /\ \A i, j \in DOMAIN delivered :
        delivered[i] = delivered[j] => i = j \/ delivered[i] \in repeated
    /\ \A i \in DOMAIN delivered : delivered[i] \notin Held \ repeated

\* As long as no packet was held too long, none is skipped, repeated or delivered
\* out of turn: reordering, losses, refusals and repeats delay packets but never
\* open a gap.
NoGaps == late \/ \A i \in DOMAIN delivered : delivered[i] = i - 1

\* A packet that was accepted is delivered, whatever is missing before it.
HeldIsDelivered == \A n \in Packets : (n \in Held) ~> (n \notin Held)
=============================================================================
