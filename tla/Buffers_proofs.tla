--------------------------- MODULE Buffers_proofs ---------------------------
(***************************************************************************)
(* The libraries that walk over an array: the reorder buffer, the retry    *)
(* table and the replay buffer, for any capacity and any inputs.           *)
(*                                                                         *)
(* Their loops are recursive functions of the slot reached.  What a loop   *)
(* keeps is proved of the set of slots it holds at, by induction over a    *)
(* set of numbers; that the recursive function is what its equation says   *)
(* is proved in the same way, by the course of the loop existing.          *)
(***************************************************************************)
EXTENDS Parts, SequenceTheorems, WellFoundedInduction, TLAPS

-----------------------------------------------------------------------------
(* Natural numbers.                                                        *)

\* Every set of naturals that is not empty has a least element.
LEMMA LeastElement ==
    ASSUME NEW S, S \subseteq Nat, S # {}
    PROVE  \E m \in S : \A k \in S : m <= k
<1> DEFINE Less == {x \in Nat \X Nat : x[1] < x[2]}
<1>1. OpToRel(<, Nat) = Less
  BY DEF OpToRel
<1>2. IsWellFoundedOn(Less, Nat)
  BY <1>1, NatLessThanWellFounded
<1>3. PICK m \in S : \A k \in S : <<k, m>> \notin Less
  <2> HIDE DEF Less
  <2> QED
    BY <1>2, WFMin
<1>4. ASSUME NEW k \in S PROVE m <= k
  <2>1. <<k, m>> \in Nat \X Nat /\ <<k, m>>[1] = k /\ <<k, m>>[2] = m
    OBVIOUS
  <2>2. ~(k < m)
    BY <1>3, <2>1
  <2> QED
    BY <2>2
<1> QED
  BY <1>4

\* What holds of 0 and of every successor up to n holds up to n.
LEMMA UpTo ==
    ASSUME NEW n \in Nat, NEW S, 0 \in S,
           \A k \in 0..n : k \in S /\ k < n => k + 1 \in S
    PROVE  0..n \subseteq S
<1> DEFINE Rest == {k \in 0..n : k \notin S}
<1> SUFFICES ASSUME Rest # {} PROVE FALSE
  OBVIOUS
<1>1. Rest \subseteq Nat
  OBVIOUS
<1>2. PICK m \in Rest : \A k \in Rest : m <= k
  <2> HIDE DEF Rest
  <2> QED
    BY <1>1, LeastElement
<1>3. m # 0 /\ m - 1 \in 0..n /\ m - 1 \in S
  BY <1>2
<1> QED
  BY <1>2, <1>3

\* Division leaves a remainder.
LEMMA Divide ==
    ASSUME NEW n \in Nat, NEW m \in Nat \ {0}
    PROVE  \E q \in Nat : m * q + (n % m) = n
<1> DEFINE Whole(x, q, r) == x = m * q + r
           S == {x \in 0..n : \E q \in Nat, r \in 0..(m - 1) : Whole(x, q, r)}
<1>1. 0 \in 0..(m - 1) /\ Whole(0, 0, 0)
  OBVIOUS
<1>2. ASSUME NEW k \in Nat, NEW q \in Nat, NEW r \in 0..(m - 1), Whole(k, q, r)
      PROVE  IF r < m - 1 THEN r + 1 \in 0..(m - 1) /\ Whole(k + 1, q, r + 1)
             ELSE q + 1 \in Nat /\ Whole(k + 1, q + 1, 0)
  <2>1. m * (q + 1) = m * q + m /\ m * q \in Nat
    OBVIOUS
  <2> QED
    BY <1>2, <2>1
<1>3. ASSUME NEW q \in Nat, NEW r \in 0..(m - 1), Whole(n, q, r) PROVE m * q + (n % m) = n
  <2> DEFINE z == m * q
  <2>1. z \in Nat /\ n = z + r /\ (z + r) % m = r
    <3>1. (m * q + r) % m = r /\ m * q \in Nat
      OBVIOUS
    <3>2. n = m * q + r
      BY <1>3
    <3> QED
      BY <3>1, <3>2
  <2> HIDE DEF z
  <2>2. z + (n % m) = n
    BY <2>1
  <2> QED
    BY <2>2 DEF z
<1> HIDE DEF Whole
<1>4. 0 \in S
  BY <1>1
<1>5. ASSUME NEW k \in 0..n, k \in S, k < n PROVE k + 1 \in S
  BY <1>1, <1>2, <1>5
<1> HIDE DEF S
<1>6. n \in S
  BY <1>4, <1>5, UpTo
<1> QED
  BY <1>3, <1>6 DEF S

\* Numbers with the same remainder are equal or at least m apart.
LEMMA SameRemainder ==
    ASSUME NEW x \in Nat, NEW y \in Nat, NEW m \in Nat \ {0}, x % m = y % m, x < y
    PROVE  x + m <= y
<1>1. PICK p \in Nat : m * p + (x % m) = x
  BY Divide
<1>2. PICK q \in Nat : m * q + (y % m) = y
  BY Divide
<1>3. x % m \in 0..(m - 1)
  OBVIOUS
<1>4. p < q
  <2>1. ASSUME q <= p PROVE m * q <= m * p
    BY <2>1
  <2>2. m * p \in Nat /\ m * q \in Nat
    OBVIOUS
  <2> QED
    BY <1>1, <1>2, <1>3, <2>1, <2>2
<1>5. m * q >= m * p + m
  BY <1>4
<1>6. m * p \in Nat /\ m * q \in Nat
  OBVIOUS
<1> QED
  BY <1>1, <1>2, <1>3, <1>5, <1>6

\* A remainder may be taken before an addition.
LEMMA RemainderFirst ==
    ASSUME NEW x \in Nat, NEW k \in Nat, NEW m \in Nat \ {0}
    PROVE  ((x % m) + k) % m = (x + k) % m
<1>1. PICK p \in Nat : m * p + (x % m) = x
  BY Divide
<1>2. x % m \in Nat
  OBVIOUS
<1>3. \E q \in Nat : m * q + (((x % m) + k) % m) = (x % m) + k
  <2> DEFINE z == (x % m) + k
  <2>1. z \in Nat
    BY <1>2
  <2> HIDE DEF z
  <2>2. \E q \in Nat : m * q + (z % m) = z
    BY <2>1, Divide
  <2> QED
    BY <2>2 DEF z
<1>4. ((x % m) + k) % m \in 0..(m - 1)
  BY <1>2
<1>q. PICK q \in Nat : m * q + (((x % m) + k) % m) = (x % m) + k
  BY <1>3
<1>5. m * (p + q) = m * p + m * q /\ m * p \in Nat /\ m * q \in Nat
  OBVIOUS
<1>6. ASSUME NEW r \in 0..(m - 1), (x % m) + k = m * q + r PROVE (x + k) % m = r
  <2>1. (m * (p + q) + r) % m = r
    OBVIOUS
  <2>2. x + k = m * (p + q) + r
    <3> DEFINE u == x % m
               a == m * p
               c == m * q
    <3>1. u \in Nat /\ a \in Nat /\ c \in Nat
      BY <1>2, <1>5
    <3>2. a + u = x
      BY <1>1
    <3>3. u + k = c + r
      BY <1>6
    <3>4. m * (p + q) = a + c
      BY <1>5
    <3> HIDE DEF u, a, c
    <3> QED
      BY <3>1, <3>2, <3>3, <3>4
  <2> QED
    BY <2>1, <2>2
<1> QED
  BY <1>q, <1>4, <1>6

-----------------------------------------------------------------------------
(* The reorder buffer: one copy of each packet.                            *)
(*                                                                         *)
(* A packet the network has not repeated is in the network, in one slot,   *)
(* delivered once, or lost.  Whatever a flush does is a sequence of moves  *)
(* from different occupied slots to the end of what was delivered.         *)

SlotRecords == [occupied : BOOLEAN, packet : Nat, age : Nat]
SlotArrays == [R!Slots -> SlotRecords]

\* The packets a buffer holds, and those it holds or has delivered.
HeldIn(s) == {s[i].packet : i \in {j \in R!Slots : s[j].occupied}}
Known(s, o) == HeldIn(s) \union {o[k] : k \in 1..Len(o)}

\* Of a packet outside rep there is one copy at most.
Once(s, o, rep) ==
    /\ \A i, j \in R!Slots : s[i].occupied /\ s[j].occupied /\ s[i].packet = s[j].packet
                           => i = j \/ s[i].packet \in rep
    /\ \A j, k \in 1..Len(o) : o[j] = o[k] => j = k \/ o[j] \in rep
    /\ \A i \in R!Slots, k \in 1..Len(o) : s[i].occupied /\ s[i].packet = o[k] => o[k] \in rep

LEMMA ReorderSizes ==
    ASSUME R!ReorderAssumption
    PROVE  /\ RbCapacity \in Nat \ {0} /\ SeqNumbers \in Nat \ {0} /\ HoldTimeout \in Nat
           /\ 2 * RbCapacity <= SeqNumbers /\ RbCapacity < SeqNumbers /\ 1 < SeqNumbers
           /\ MaxPackets \in Nat /\ MaxRepeats \in Nat
           /\ R!Empty \in SlotRecords /\ ~R!Empty.occupied
BY DEF R!ReorderAssumption, R!Empty, SlotRecords

\* Delivering the packets of r slots, in the order e, keeps to one copy.
Cleared(s, r, e) == [i \in R!Slots |-> IF \E j \in 1..r : i = e[j] THEN R!Empty ELSE s[i]]
Handed(s, o, r, e) == o \o [j \in 1..r |-> s[e[j]].packet]

LEMMA Joined ==
    ASSUME NEW p \in Seq(Nat), NEW q \in Seq(Nat)
    PROVE  p \o q \in Seq(Nat) /\ Len(p \o q) = Len(p) + Len(q)
BY ConcatProperties

LEMMA Moved ==
    ASSUME R!ReorderAssumption, NEW s \in SlotArrays, NEW o \in Seq(Nat), NEW rep, NEW r \in Nat,
           NEW e \in [1..r -> R!Slots], \A j \in 1..r : s[e[j]].occupied,
           \A j, k \in 1..r : e[j] = e[k] => j = k, Once(s, o, rep)
    PROVE  /\ Cleared(s, r, e) \in SlotArrays /\ Handed(s, o, r, e) \in Seq(Nat)
           /\ Len(Handed(s, o, r, e)) = Len(o) + r
           /\ \A k \in 1..Len(o) : Handed(s, o, r, e)[k] = o[k]
           /\ \A j \in 1..r : Handed(s, o, r, e)[Len(o) + j] = s[e[j]].packet
           /\ Once(Cleared(s, r, e), Handed(s, o, r, e), rep)
           /\ Known(Cleared(s, r, e), Handed(s, o, r, e)) \subseteq Known(s, o)
           /\ HeldIn(Cleared(s, r, e)) \subseteq HeldIn(s)
<1> DEFINE s2 == Cleared(s, r, e)
           o2 == Handed(s, o, r, e)
           new == [j \in 1..r |-> s[e[j]].packet]
<1>1. new \in Seq(Nat) /\ Len(new) = r /\ \A j \in 1..r : new[j] = s[e[j]].packet
  BY DEF SlotArrays, SlotRecords
<1>2. /\ o2 \in Seq(Nat) /\ Len(o2) = Len(o) + r /\ Len(o) \in Nat
      /\ \A k \in 1..Len(o) : o2[k] = o[k]
      /\ \A j \in 1..r : o2[Len(o) + j] = s[e[j]].packet
  <2>1. o2 = o \o new
    BY DEF Handed
  <2> HIDE DEF new, o2
  <2>2. o2 \in Seq(Nat)
    BY <1>1, <2>1, ConcatProperties
  <2>5. Len(o2) = Len(o) + r /\ Len(o) \in Nat
    <3>1. Len(o \o new) = Len(o) + Len(new)
      BY <1>1, Joined
    <3>2. Len(o2) = Len(o) + r
      BY <1>1, <2>1, <3>1
    <3>3. Len(o) \in Nat
      OBVIOUS
    <3> QED
      BY <3>2, <3>3
  <2>3. \A k \in 1..Len(o) : o2[k] = o[k]
    BY <1>1, <2>1, <2>5, ConcatProperties
  <2>4. \A j \in 1..r : o2[Len(o) + j] = new[j]
    BY <1>1, <2>1, <2>5, ConcatProperties
  <2> QED
    BY <1>1, <2>2, <2>3, <2>4, <2>5
<1>3. s2 \in SlotArrays
  BY ReorderSizes DEF Cleared, SlotArrays
<1>4. \A i \in R!Slots : s2[i].occupied => s2[i] = s[i] /\ \A j \in 1..r : i # e[j]
  BY ReorderSizes DEF Cleared
<1> HIDE DEF s2, o2
<1>5. \A k \in 1..Len(o2) : \/ k \in 1..Len(o) /\ o2[k] = o[k]
                            \/ \E j \in 1..r : k = Len(o) + j /\ o2[k] = s[e[j]].packet
  <2> TAKE k \in 1..Len(o2)
  <2>1. CASE k \in 1..Len(o)
    BY <1>2, <2>1
  <2>2. CASE k \notin 1..Len(o)
    <3>1. k - Len(o) \in 1..r /\ k = Len(o) + (k - Len(o))
      BY <1>2, <2>2
    <3>2. o2[Len(o) + (k - Len(o))] = s[e[k - Len(o)]].packet
      BY <1>2, <3>1
    <3> QED
      BY <3>1, <3>2
  <2> QED
    BY <2>1, <2>2
<1>6. ASSUME NEW j \in 1..Len(o2), NEW k \in 1..Len(o2), o2[j] = o2[k] PROVE j = k \/ o2[j] \in rep
  <2>1. CASE \E i \in 1..r : j = Len(o) + i /\ o2[j] = s[e[i]].packet
    <3>1. PICK i \in 1..r : j = Len(o) + i /\ o2[j] = s[e[i]].packet
      BY <2>1
    <3>2. CASE k \in 1..Len(o) /\ o2[k] = o[k]
      BY <1>6, <3>1, <3>2 DEF Once
    <3>3. CASE \E l \in 1..r : k = Len(o) + l /\ o2[k] = s[e[l]].packet
      <4>1. PICK l \in 1..r : k = Len(o) + l /\ o2[k] = s[e[l]].packet
        BY <3>3
      <4>2. e[i] \in R!Slots /\ e[l] \in R!Slots /\ s[e[i]].occupied /\ s[e[l]].occupied
            /\ s[e[i]].packet = s[e[l]].packet
        BY <1>6, <3>1, <4>1
      <4>3. e[i] = e[l] \/ o2[j] \in rep
        BY <3>1, <4>2 DEF Once
      <4> QED
        BY <3>1, <4>1, <4>3
    <3> QED
      BY <1>5, <3>2, <3>3
  <2>2. CASE j \in 1..Len(o) /\ o2[j] = o[j]
    <3>1. CASE k \in 1..Len(o) /\ o2[k] = o[k]
      BY <1>6, <2>2, <3>1 DEF Once
    <3>2. CASE \E l \in 1..r : k = Len(o) + l /\ o2[k] = s[e[l]].packet
      BY <1>6, <2>2, <3>2 DEF Once
    <3> QED
      BY <1>5, <3>1, <3>2
  <2> QED
    BY <1>5, <2>1, <2>2
<1>7. ASSUME NEW i \in R!Slots, NEW k \in 1..Len(o2), s2[i].occupied, s2[i].packet = o2[k]
      PROVE  o2[k] \in rep
  <2>1. s[i].occupied /\ s[i].packet = o2[k] /\ \A j \in 1..r : i # e[j]
    BY <1>4, <1>7
  <2>2. CASE k \in 1..Len(o) /\ o2[k] = o[k]
    BY <2>1, <2>2 DEF Once
  <2>3. CASE \E j \in 1..r : k = Len(o) + j /\ o2[k] = s[e[j]].packet
    <3>1. PICK j \in 1..r : o2[k] = s[e[j]].packet
      BY <2>3
    <3>2. e[j] \in R!Slots /\ s[e[j]].occupied /\ i # e[j]
      BY <2>1
    <3> QED
      BY <2>1, <3>1, <3>2 DEF Once
  <2> QED
    BY <1>5, <2>2, <2>3
<1>8. \A i, j \in R!Slots : s2[i].occupied /\ s2[j].occupied /\ s2[i].packet = s2[j].packet
                          => i = j \/ s2[i].packet \in rep
  BY <1>4 DEF Once
<1>9. Once(s2, o2, rep)
  BY <1>6, <1>7, <1>8 DEF Once
<1>10. HeldIn(s2) \subseteq HeldIn(s)
  BY <1>4 DEF HeldIn
<1>11. ASSUME NEW k \in 1..Len(o2) PROVE o2[k] \in Known(s, o)
  <2>1. CASE k \in 1..Len(o) /\ o2[k] = o[k]
    BY <2>1 DEF Known
  <2>2. CASE \E j \in 1..r : k = Len(o) + j /\ o2[k] = s[e[j]].packet
    BY <2>2 DEF Known, HeldIn
  <2> QED
    BY <1>5, <2>1, <2>2
<1>12. Known(s2, o2) \subseteq Known(s, o)
  BY <1>10, <1>11 DEF Known
<1> QED
  BY <1>2, <1>3, <1>9, <1>10, <1>12 DEF s2, o2

-----------------------------------------------------------------------------
(* The reorder buffer: a run and a packet given up are such moves.          *)

\* A buffer and what has been delivered, within a flush.
InFlush(f, rep) ==
    /\ f.b = [slots |-> f.b.slots, next_seq |-> f.b.next_seq, count |-> f.b.count]
    /\ f.b.slots \in SlotArrays /\ f.b.next_seq \in Nat /\ f.out \in Seq(Nat)
    /\ Once(f.b.slots, f.out, rep)

\* A flush takes packets from nowhere.
Within(f, g) ==
    /\ Known(g.b.slots, g.out) \subseteq Known(f.b.slots, f.out)
    /\ HeldIn(g.b.slots) \subseteq HeldIn(f.b.slots)

LEMMA RunEnds ==
    ASSUME R!ReorderAssumption, NEW f
    PROVE  R!Run(f) \in 0..RbCapacity /\ \A j \in 0..(R!Run(f) - 1) : R!InPlace(f, j)
<1> DEFINE Gaps == {j \in 0..RbCapacity : j < RbCapacity => ~R!InPlace(f, j)}
<1>1. Gaps \subseteq Nat /\ RbCapacity \in Gaps
  BY ReorderSizes
<1>2. PICK m \in Gaps : \A k \in Gaps : m <= k
  <2> HIDE DEF Gaps
  <2> QED
    BY <1>1, LeastElement
<1>3. /\ m \in 0..RbCapacity /\ m < RbCapacity => ~R!InPlace(f, m)
      /\ \A j \in 0..(m - 1) : R!InPlace(f, j)
  BY <1>2, ReorderSizes
<1> QED
  BY <1>3 DEF R!Run

\* The packets of a run are in different slots.
LEMMA Expectations ==
    ASSUME R!ReorderAssumption, NEW f, f.b.next_seq \in Nat
    PROVE  /\ \A j \in Nat : R!Expected(f, j) \in R!Slots
           /\ \A j, k \in 0..(RbCapacity - 1) : R!Expected(f, j) = R!Expected(f, k) => j = k
<1>1. ASSUME NEW j \in 0..(RbCapacity - 1), NEW k \in 0..(RbCapacity - 1), j < k
      PROVE  R!Expected(f, j) # R!Expected(f, k)
  <2>1. f.b.next_seq + j \in Nat /\ f.b.next_seq + k \in Nat /\ f.b.next_seq + j < f.b.next_seq + k
        /\ ~(f.b.next_seq + j + RbCapacity <= f.b.next_seq + k)
    BY <1>1, ReorderSizes
  <2> QED
    BY <2>1, ReorderSizes, SameRemainder DEF R!Expected, R!SlotOf
<1>2. \A j \in Nat : R!Expected(f, j) \in R!Slots
  BY ReorderSizes DEF R!Expected, R!SlotOf, R!Slots
<1>3. ASSUME NEW j \in 0..(RbCapacity - 1), NEW k \in 0..(RbCapacity - 1),
             R!Expected(f, j) = R!Expected(f, k)
      PROVE  j = k
  BY <1>1, <1>3, ReorderSizes
<1> QED
  BY <1>2, <1>3

LEMMA RunKeeps ==
    ASSUME R!ReorderAssumption, NEW rep, NEW f, InFlush(f, rep)
    PROVE  LET g == R!DeliverRun(f) IN
           /\ InFlush(g, rep) /\ Within(f, g)
           /\ g.b.next_seq = R!Seq16(f.b.next_seq + R!Run(f))
           /\ Len(g.out) = Len(f.out) + R!Run(f)
           /\ \A k \in 1..Len(f.out) : g.out[k] = f.out[k]
           /\ \A j \in 1..R!Run(f) : g.out[Len(f.out) + j] = f.b.slots[R!Expected(f, j - 1)].packet
<1> DEFINE s == f.b.slots
           r == R!Run(f)
           e == [j \in 1..r |-> R!Expected(f, j - 1)]
           g == R!DeliverRun(f)
<1>1. r \in 0..RbCapacity /\ \A j \in 0..(r - 1) : R!InPlace(f, j)
  BY RunEnds
<1>2. /\ s \in SlotArrays /\ f.out \in Seq(Nat) /\ f.b.next_seq \in Nat /\ Once(s, f.out, rep)
  BY DEF InFlush
<1>3. RbCapacity \in Nat
  BY ReorderSizes
<1> HIDE DEF r
<1>4. \A j \in 1..r : /\ e[j] = R!Expected(f, j - 1)
                      /\ j - 1 \in 0..(r - 1) /\ j - 1 \in 0..(RbCapacity - 1)
  BY <1>1, <1>3
<1>5. e \in [1..r -> R!Slots]
  <2>1. \A j \in 1..r : R!Expected(f, j - 1) \in R!Slots
    BY <1>2, <1>4, Expectations
  <2> QED
    BY <2>1
<1>6. \A j \in 1..r : s[e[j]].occupied
  BY <1>1, <1>4 DEF R!InPlace
<1>7. \A j, k \in 1..r : e[j] = e[k] => j = k
  BY <1>2, <1>4, Expectations
<1>8. r \in Nat
  BY <1>1, <1>3
<1>9. /\ g.b.slots = Cleared(s, r, e) /\ g.out = Handed(s, f.out, r, e)
      /\ g.b.next_seq = R!Seq16(f.b.next_seq + r)
  <2>1. \A i \in R!Slots : (\E j \in 0..(r - 1) : i = R!Expected(f, j)) <=> (\E j \in 1..r : i = e[j])
    <3>1. \A j \in 0..(r - 1) : j + 1 \in 1..r /\ e[j + 1] = R!Expected(f, j)
      BY <1>8
    <3> QED
      BY <1>4, <3>1
  <2>2. g.b.slots = Cleared(s, r, e)
    BY <2>1 DEF Cleared, R!DeliverRun, r
  <2>3. [j \in 1..r |-> s[R!Expected(f, j - 1)].packet] = [j \in 1..r |-> s[e[j]].packet]
    BY <1>4
  <2>4. g.out = f.out \o [j \in 1..r |-> s[R!Expected(f, j - 1)].packet]
    BY DEF R!DeliverRun, r
  <2>5. g.out = Handed(s, f.out, r, e)
    BY <2>3, <2>4 DEF Handed
  <2>6. g.b.next_seq = R!Seq16(f.b.next_seq + r)
    BY DEF R!DeliverRun, r
  <2> QED
    BY <2>2, <2>5, <2>6
<1>10. g.b.next_seq \in Nat
       /\ g.b = [slots |-> g.b.slots, next_seq |-> g.b.next_seq, count |-> g.b.count]
  <2>1. g.b.next_seq \in Nat
    BY <1>2, <1>8, <1>9, ReorderSizes DEF R!Seq16
  <2>2. g.b = [slots |-> g.b.slots, next_seq |-> g.b.next_seq, count |-> g.b.count]
    BY DEF R!DeliverRun
  <2> QED
    BY <2>1, <2>2
<1> HIDE DEF g, e, s
<1>11. /\ g.b.slots \in SlotArrays /\ g.out \in Seq(Nat) /\ Len(g.out) = Len(f.out) + r
       /\ \A k \in 1..Len(f.out) : g.out[k] = f.out[k]
       /\ \A j \in 1..r : g.out[Len(f.out) + j] = s[e[j]].packet
       /\ Once(g.b.slots, g.out, rep)
       /\ Known(g.b.slots, g.out) \subseteq Known(s, f.out)
       /\ HeldIn(g.b.slots) \subseteq HeldIn(s)
  <2>1. /\ Cleared(s, r, e) \in SlotArrays /\ Handed(s, f.out, r, e) \in Seq(Nat)
        /\ Len(Handed(s, f.out, r, e)) = Len(f.out) + r
        /\ \A k \in 1..Len(f.out) : Handed(s, f.out, r, e)[k] = f.out[k]
        /\ \A j \in 1..r : Handed(s, f.out, r, e)[Len(f.out) + j] = s[e[j]].packet
        /\ Once(Cleared(s, r, e), Handed(s, f.out, r, e), rep)
        /\ Known(Cleared(s, r, e), Handed(s, f.out, r, e)) \subseteq Known(s, f.out)
        /\ HeldIn(Cleared(s, r, e)) \subseteq HeldIn(s)
    BY <1>2, <1>5, <1>6, <1>7, <1>8, Moved
  <2> QED
    BY <1>9, <2>1
<1>12. InFlush(g, rep) /\ Within(f, g)
  BY <1>10, <1>11 DEF InFlush, Within, s
<1>13. \A j \in 1..r : g.out[Len(f.out) + j] = f.b.slots[R!Expected(f, j - 1)].packet
  BY <1>4, <1>11 DEF s
<1> QED
  BY <1>9, <1>11, <1>12, <1>13 DEF g, r

LEMMA LateKeeps ==
    ASSUME R!ReorderAssumption, NEW rep, NEW f, InFlush(f, rep), NEW i \in R!Slots, f.b.slots[i].occupied
    PROVE  InFlush(R!DeliverLate(f, i), rep) /\ Within(f, R!DeliverLate(f, i))
<1> DEFINE s == f.b.slots
           e == [j \in 1..1 |-> i]
           g == R!DeliverLate(f, i)
<1>1. s \in SlotArrays /\ f.out \in Seq(Nat) /\ f.b.next_seq \in Nat /\ Once(s, f.out, rep)
  BY DEF InFlush
<1>2. /\ e \in [1..1 -> R!Slots] /\ \A j \in 1..1 : s[e[j]].occupied
      /\ \A j, k \in 1..1 : e[j] = e[k] => j = k
  OBVIOUS
<1>3. g.b.slots = Cleared(s, 1, e)
  <2>1. \A k \in R!Slots : (\E j \in 1..1 : k = e[j]) <=> k = i
    OBVIOUS
  <2>2. g.b.slots = [s EXCEPT ![i] = R!Empty]
    BY DEF R!DeliverLate
  <2>3. [s EXCEPT ![i] = R!Empty] = [k \in R!Slots |-> IF k = i THEN R!Empty ELSE s[k]]
    BY <1>1 DEF SlotArrays
  <2> QED
    BY <2>1, <2>2, <2>3 DEF Cleared
<1>4. g.out = Handed(s, f.out, 1, e)
  <2>1. g.out = Append(f.out, s[i].packet)
    BY DEF R!DeliverLate
  <2>2. [j \in 1..1 |-> s[e[j]].packet] = <<s[i].packet>>
    OBVIOUS
  <2>3. s[i].packet \in Nat
    BY <1>1 DEF SlotArrays, SlotRecords
  <2>4. Append(f.out, s[i].packet) = f.out \o <<s[i].packet>>
    BY <1>1, <2>3, AppendIsConcat
  <2> QED
    BY <2>1, <2>2, <2>4 DEF Handed
<1>5. g.b.next_seq \in Nat
  <2> DEFINE number == R!Seq16(s[i].packet)
             next == IF R!seq_lt(f.b.next_seq, number) THEN number ELSE f.b.next_seq
  <2>1. number \in Nat
    BY <1>1, ReorderSizes DEF R!Seq16, SlotArrays, SlotRecords
  <2>2. next \in Nat
    BY <1>1, <2>1
  <2>3. g.b.next_seq = R!Seq16(next + 1)
    BY DEF R!DeliverLate
  <2> HIDE DEF next
  <2> QED
    BY <2>2, <2>3, ReorderSizes DEF R!Seq16
<1>7. g.b = [slots |-> g.b.slots, next_seq |-> g.b.next_seq, count |-> g.b.count]
  BY DEF R!DeliverLate
<1> HIDE DEF g, e, s
<1>6. /\ g.b.slots \in SlotArrays /\ g.out \in Seq(Nat) /\ Once(g.b.slots, g.out, rep)
      /\ Known(g.b.slots, g.out) \subseteq Known(s, f.out)
      /\ HeldIn(g.b.slots) \subseteq HeldIn(s)
  <2>1. /\ Cleared(s, 1, e) \in SlotArrays /\ Handed(s, f.out, 1, e) \in Seq(Nat)
        /\ Len(Handed(s, f.out, 1, e)) = Len(f.out) + 1
        /\ \A k \in 1..Len(f.out) : Handed(s, f.out, 1, e)[k] = f.out[k]
        /\ \A j \in 1..1 : Handed(s, f.out, 1, e)[Len(f.out) + j] = s[e[j]].packet
        /\ Once(Cleared(s, 1, e), Handed(s, f.out, 1, e), rep)
        /\ Known(Cleared(s, 1, e), Handed(s, f.out, 1, e)) \subseteq Known(s, f.out)
        /\ HeldIn(Cleared(s, 1, e)) \subseteq HeldIn(s)
    BY <1>1, <1>2, Moved
  <2> QED
    BY <1>3, <1>4, <2>1
<1> QED
  BY <1>5, <1>6, <1>7 DEF InFlush, Within, g, s

-----------------------------------------------------------------------------
(* The reorder buffer: the flush as a whole.                               *)

\* What a flush does first.
Begun(b, out) == R!DeliverRun([b |-> b, out |-> out])

\* p is the course of the pass, up to slot n.
Rounds(p, n, b, out) ==
    p = [k \in 0..n |-> IF k = 0 THEN Begun(b, out) ELSE R!GiveUp(p[k - 1], k - 1)]

\* The pass has a course: the recursive function exists.
LEMMA RoundsExist ==
    ASSUME NEW n \in Nat, NEW b, NEW out
    PROVE  \E p : Rounds(p, n, b, out)
<1> DEFINE S == {m \in 0..n : \E p : Rounds(p, m, b, out)}
<1>1. 0 \in S
  <2> DEFINE p == [k \in 0..0 |-> Begun(b, out)]
  <2>1. Rounds(p, 0, b, out)
    BY DEF Rounds
  <2> QED
    BY <2>1
<1>2. ASSUME NEW m \in 0..n, m \in S, m < n PROVE m + 1 \in S
  <2>1. PICK p : Rounds(p, m, b, out)
    BY <1>2
  <2> DEFINE q == [k \in 0..(m + 1) |-> IF k <= m THEN p[k] ELSE R!GiveUp(p[m], m)]
             body(k) == IF k = 0 THEN Begun(b, out) ELSE R!GiveUp(q[k - 1], k - 1)
  <2>2. ASSUME NEW k \in 0..(m + 1) PROVE q[k] = body(k)
    <3>1. CASE k = 0
      BY <2>1, <3>1 DEF Rounds
    <3>2. CASE k # 0 /\ k <= m
      <4>1. q[k - 1] = p[k - 1] /\ q[k] = p[k]
        BY <3>2
      <4>2. p[k] = R!GiveUp(p[k - 1], k - 1)
        BY <2>1, <3>2 DEF Rounds
      <4> QED
        BY <3>2, <4>1, <4>2
    <3>3. CASE k = m + 1
      <4>1. q[k - 1] = p[m] /\ q[k] = R!GiveUp(p[m], m) /\ k # 0 /\ k - 1 = m
        BY <3>3
      <4> QED
        BY <4>1
    <3> QED
      BY <3>1, <3>2, <3>3
  <2>3. Rounds(q, m + 1, b, out)
    <3>1. q = [k \in 0..(m + 1) |-> q[k]]
      OBVIOUS
    <3> HIDE DEF q
    <3>2. q = [k \in 0..(m + 1) |-> body(k)]
      BY <2>2, <3>1
    <3> QED
      BY <3>2 DEF Rounds
  <2> QED
    BY <1>2, <2>3
<1> HIDE DEF S
<1>3. 0..n \subseteq S
  BY <1>1, <1>2, UpTo
<1> QED
  BY <1>3 DEF S

\* A flush follows one.
LEMMA FlushIs ==
    ASSUME NEW b, NEW out, RbCapacity \in Nat
    PROVE  \E p : /\ R!reorder_buffer_flush(b, out) = p[RbCapacity]
                  /\ p[0] = Begun(b, out)
                  /\ \A k \in 1..RbCapacity : p[k] = R!GiveUp(p[k - 1], k - 1)
<1> DEFINE p == CHOOSE q : Rounds(q, RbCapacity, b, out)
<1>1. Rounds(p, RbCapacity, b, out)
  BY RoundsExist
<1>2. R!reorder_buffer_flush(b, out) = p[RbCapacity]
  BY DEF R!reorder_buffer_flush, Rounds, Begun
<1> HIDE DEF p
<1>3. p[0] = Begun(b, out) /\ \A k \in 1..RbCapacity : p[k] = R!GiveUp(p[k - 1], k - 1)
  BY <1>1 DEF Rounds
<1> QED
  BY <1>2, <1>3

LEMMA FlushKeeps ==
    ASSUME R!ReorderAssumption, NEW rep, NEW b, NEW out, InFlush([b |-> b, out |-> out], rep)
    PROVE  LET f == R!reorder_buffer_flush(b, out) IN
           InFlush(f, rep) /\ Within([b |-> b, out |-> out], f)
<1> DEFINE from == [b |-> b, out |-> out]
<1>1. PICK p : /\ R!reorder_buffer_flush(b, out) = p[RbCapacity]
               /\ p[0] = Begun(b, out)
               /\ \A k \in 1..RbCapacity : p[k] = R!GiveUp(p[k - 1], k - 1)
  BY ReorderSizes, FlushIs
<1> DEFINE S == {k \in 0..RbCapacity : InFlush(p[k], rep) /\ Within(from, p[k])}
<1>2. 0 \in S
  BY <1>1, RunKeeps, ReorderSizes DEF Begun
<1>3. ASSUME NEW k \in 0..RbCapacity, k \in S, k < RbCapacity PROVE k + 1 \in S
  <2>1. p[k + 1] = R!GiveUp(p[k], k) /\ k + 1 \in 0..RbCapacity /\ k \in R!Slots
    <3>1. k + 1 \in 1..RbCapacity /\ (k + 1) - 1 = k
      BY <1>3, ReorderSizes
    <3> QED
      BY <1>1, <1>3, <3>1, ReorderSizes DEF R!Slots
  <2>2. InFlush(p[k], rep) /\ Within(from, p[k])
    BY <1>3
  <2>3. CASE p[k + 1] = p[k]
    BY <2>1, <2>2, <2>3
  <2>4. CASE R!Due(p[k].b, k) /\ p[k + 1] = R!DeliverRun(R!DeliverLate(p[k], k))
    <3> DEFINE g == R!DeliverLate(p[k], k)
    <3>1. InFlush(g, rep) /\ Within(p[k], g)
      BY <2>1, <2>2, <2>4, LateKeeps DEF R!Due
    <3> HIDE DEF g
    <3>2. InFlush(R!DeliverRun(g), rep) /\ Within(g, R!DeliverRun(g))
      BY <3>1, RunKeeps
    <3>3. InFlush(p[k + 1], rep) /\ Within(from, p[k + 1])
      BY <2>2, <2>4, <3>1, <3>2 DEF Within, g
    <3> QED
      BY <2>1, <3>3
  <2> QED
    BY <2>1, <2>3, <2>4 DEF R!GiveUp
<1> HIDE DEF S
<1>4. RbCapacity \in S
  <2>1. 0..RbCapacity \subseteq S
    BY <1>2, <1>3, UpTo, ReorderSizes
  <2> QED
    BY <2>1, ReorderSizes
<1> QED
  BY <1>1, <1>4 DEF S

\* As long as no packet has been held too long, the pass finds nothing.
LEMMA FlushOnTime ==
    ASSUME R!ReorderAssumption, NEW b, NEW out, \A i \in R!Slots : ~R!Due(b, i)
    PROVE  R!reorder_buffer_flush(b, out) = Begun(b, out)
<1>1. PICK p : /\ R!reorder_buffer_flush(b, out) = p[RbCapacity]
               /\ p[0] = Begun(b, out)
               /\ \A k \in 1..RbCapacity : p[k] = R!GiveUp(p[k - 1], k - 1)
  BY ReorderSizes, FlushIs
<1>2. \A i \in R!Slots : ~R!Due(Begun(b, out).b, i)
  <2> SUFFICES ASSUME NEW i \in R!Slots PROVE ~R!Due(Begun(b, out).b, i)
    OBVIOUS
  <2>1. Begun(b, out).b.slots[i] \in {R!Empty, b.slots[i]}
    BY DEF Begun, R!DeliverRun
  <2> QED
    BY <2>1, ReorderSizes DEF R!Due
<1> DEFINE S == {k \in 0..RbCapacity : p[k] = Begun(b, out)}
<1>3. 0 \in S
  BY <1>1, ReorderSizes
<1>4. ASSUME NEW k \in 0..RbCapacity, k \in S, k < RbCapacity PROVE k + 1 \in S
  <2>1. p[k + 1] = R!GiveUp(p[k], k) /\ k + 1 \in 0..RbCapacity /\ k \in R!Slots
    <3>1. k + 1 \in 1..RbCapacity /\ (k + 1) - 1 = k
      BY <1>4, ReorderSizes
    <3> QED
      BY <1>1, <1>4, <3>1, ReorderSizes DEF R!Slots
  <2> QED
    BY <1>2, <1>4, <2>1 DEF R!GiveUp
<1> HIDE DEF S
<1>5. RbCapacity \in S
  <2>1. 0..RbCapacity \subseteq S
    BY <1>3, <1>4, UpTo, ReorderSizes
  <2> QED
    BY <2>1, ReorderSizes
<1> QED
  BY <1>1, <1>5 DEF S

-----------------------------------------------------------------------------
(* The reorder buffer: the inductive invariant.                            *)

\* As long as no packet was held too long: what is awaited is numbered by what has
\* been delivered, and nobody is a round of numbers ahead.
InTurn(f, w, n) ==
    /\ f.b.next_seq = R!Seq16(Len(f.out))
    /\ \A k \in 1..Len(f.out) : f.out[k] = k - 1
    /\ Len(f.out) <= n /\ n < Len(f.out) + SeqNumbers
    /\ \A m \in w \union HeldIn(f.b.slots) : m \in Nat /\ m < n /\ n < m + SeqNumbers

rbNow == [b |-> rb, out |-> delivered]

ReorderInv ==
    /\ InFlush(rbNow, repeated)
    /\ wire \subseteq Nat /\ sent \in Nat /\ late \in BOOLEAN
    /\ \A n \in wire \union Known(rb.slots, delivered) : n < sent
    /\ wire \intersect Known(rb.slots, delivered) \subseteq repeated
    /\ late \/ InTurn(rbNow, wire, sent)

\* The packets of a run are the next ones.
LEMMA RunInTurn ==
    ASSUME R!ReorderAssumption, NEW rep, NEW f, InFlush(f, rep), NEW w, NEW n \in Nat,
           InTurn(f, w, n)
    PROVE  InTurn(R!DeliverRun(f), w, n)
<1> DEFINE d == Len(f.out)
           r == R!Run(f)
           g == R!DeliverRun(f)
           S == {j \in 0..r : j < r => f.b.slots[R!Expected(f, j)].packet = d + j /\ d + j < n}
<1>1. d \in Nat /\ r \in 0..RbCapacity /\ (\A j \in 0..(r - 1) : R!InPlace(f, j)) /\ RbCapacity \in Nat
      /\ f.b.slots \in SlotArrays /\ f.b.next_seq \in Nat
  BY RunEnds, ReorderSizes DEF InFlush
<1>2. d <= n /\ n < d + SeqNumbers /\ f.b.next_seq = d % SeqNumbers
      /\ \A m \in HeldIn(f.b.slots) : m \in Nat /\ m < n /\ n < m + SeqNumbers
  BY DEF InTurn, R!Seq16
<1> HIDE DEF r, d
<1>3. ASSUME NEW j \in 0..(r - 1), d + j <= n
      PROVE  f.b.slots[R!Expected(f, j)].packet = d + j /\ d + j < n
  <2> DEFINE m == f.b.slots[R!Expected(f, j)].packet
  <2>1. m \in HeldIn(f.b.slots) /\ R!Seq16(m) = R!Seq16(f.b.next_seq + j)
    <3>1. R!InPlace(f, j) /\ j \in Nat
      BY <1>1
    <3>2. R!Expected(f, j) \in R!Slots
      BY <1>1, <3>1, Expectations
    <3> QED
      BY <3>1, <3>2 DEF R!InPlace, HeldIn
  <2> HIDE DEF m
  <2>2. m \in Nat /\ m < n /\ n < m + SeqNumbers /\ j \in Nat /\ j < RbCapacity
    BY <1>1, <1>2, <2>1
  <2>3. m % SeqNumbers = (d + j) % SeqNumbers
    BY <1>1, <1>2, <2>1, <2>2, ReorderSizes, RemainderFirst DEF R!Seq16
  <2>4. d + j \in Nat
    BY <1>1, <2>2
  <2>5. ~(m < d + j) /\ ~(d + j < m)
    <3>1. ASSUME m < d + j PROVE FALSE
      <4>1. m + SeqNumbers <= d + j
        BY <2>2, <2>3, <2>4, <3>1, ReorderSizes, SameRemainder
      <4> QED
        BY <1>1, <1>3, <2>2, <2>4, <4>1, ReorderSizes
    <3>2. ASSUME d + j < m PROVE FALSE
      <4>1. d + j + SeqNumbers <= m
        BY <2>2, <2>3, <2>4, <3>2, ReorderSizes, SameRemainder
      <4> QED
        BY <1>1, <1>2, <2>2, <2>4, <4>1, ReorderSizes
    <3> QED
      BY <3>1, <3>2
  <2>6. m = d + j
    BY <2>2, <2>4, <2>5
  <2> QED
    BY <2>2, <2>6 DEF m
<1>4. 0 \in S
  BY <1>1, <1>2, <1>3
<1>5. ASSUME NEW j \in 0..r, j \in S, j < r PROVE j + 1 \in S
  <2>1. d + j < n /\ j + 1 \in 0..r
    BY <1>1, <1>5
  <2>2. d + (j + 1) <= n
    BY <1>1, <2>1
  <2>3. CASE j + 1 < r
    <3>1. j + 1 \in 0..(r - 1)
      BY <1>1, <2>1, <2>3
    <3> QED
      BY <1>3, <2>1, <2>2, <3>1
  <2> QED
    BY <2>1, <2>3
<1>6. r \in Nat
  BY <1>1
<1>7. \A j \in 0..r : j \in S
  <2> HIDE DEF S
  <2> QED
    BY <1>4, <1>5, <1>6, UpTo
<1>8. \A j \in 0..(r - 1) : f.b.slots[R!Expected(f, j)].packet = d + j /\ d + j < n
  <2> SUFFICES ASSUME NEW j \in 0..(r - 1)
               PROVE  f.b.slots[R!Expected(f, j)].packet = d + j /\ d + j < n
    OBVIOUS
  <2>1. j \in 0..r /\ j < r
    BY <1>6
  <2> QED
    BY <1>7, <2>1
<1> HIDE DEF S
<1>9. d + r <= n
  <2>1. CASE r = 0
    BY <1>1, <1>2, <2>1
  <2>2. CASE r # 0
    <3>1. r - 1 \in 0..(r - 1)
      BY <1>6, <2>2
    <3> QED
      BY <1>1, <1>6, <1>8, <3>1
  <2> QED
    BY <2>1, <2>2
<1>10. /\ Within(f, g)
       /\ g.b.next_seq = R!Seq16(f.b.next_seq + r)
       /\ Len(g.out) = d + r
       /\ \A k \in 1..d : g.out[k] = f.out[k]
       /\ \A j \in 1..r : g.out[d + j] = f.b.slots[R!Expected(f, j - 1)].packet
  BY RunKeeps DEF r, d
<1> HIDE DEF g
<1>11. g.b.next_seq = R!Seq16(Len(g.out))
  BY <1>1, <1>2, <1>6, <1>10, ReorderSizes, RemainderFirst DEF R!Seq16
<1>12. ASSUME NEW k \in 1..Len(g.out) PROVE g.out[k] = k - 1
  <2>1. CASE k \in 1..d
    BY <1>10, <2>1 DEF InTurn, d
  <2>2. CASE k \notin 1..d
    <3>1. k - d \in 1..r /\ d + (k - d) = k /\ (k - d) - 1 \in 0..(r - 1)
      BY <1>1, <1>6, <1>10, <2>2
    <3>2. g.out[k] = f.b.slots[R!Expected(f, (k - d) - 1)].packet
      BY <1>10, <3>1
    <3>3. g.out[k] = d + ((k - d) - 1)
      BY <1>8, <3>1, <3>2
    <3> QED
      BY <1>1, <3>1, <3>3
  <2> QED
    BY <2>1, <2>2
<1>13. Len(g.out) <= n /\ n < Len(g.out) + SeqNumbers
  BY <1>1, <1>2, <1>6, <1>9, <1>10, ReorderSizes
<1>14. \A m \in w \union HeldIn(g.b.slots) : m \in Nat /\ m < n /\ n < m + SeqNumbers
  BY <1>10 DEF InTurn, Within
<1> QED
  BY <1>11, <1>12, <1>13, <1>14 DEF InTurn, g

-----------------------------------------------------------------------------
(* The reorder buffer: its steps.                                          *)

LEMMA ReorderInit == ASSUME R!ReorderAssumption, R!Init PROVE ReorderInv
<1>1. /\ rb = [slots |-> [i \in R!Slots |-> R!Empty], next_seq |-> 0, count |-> 0]
      /\ delivered = <<>> /\ wire = {} /\ sent = 0 /\ repeated = {} /\ late = FALSE
  BY DEF R!Init
<1>2. rb.slots \in SlotArrays /\ \A i \in R!Slots : ~rb.slots[i].occupied
  BY <1>1, ReorderSizes DEF SlotArrays
<1>3. HeldIn(rb.slots) = {} /\ Len(delivered) = 0 /\ delivered \in Seq(Nat)
  BY <1>1, <1>2 DEF HeldIn
<1>4. Known(rb.slots, delivered) = {}
  BY <1>3 DEF Known
<1>5. InFlush(rbNow, repeated)
  BY <1>1, <1>2, <1>3 DEF InFlush, Once, rbNow
<1>6. InTurn(rbNow, wire, sent)
  BY <1>1, <1>3, ReorderSizes DEF InTurn, R!Seq16, rbNow
<1> QED
  BY <1>1, <1>4, <1>5, <1>6 DEF ReorderInv, rbNow

LEMMA SendStep == ASSUME R!ReorderAssumption, ReorderInv, R!Send PROVE ReorderInv'
<1>1. /\ \A n \in wire \union HeldIn(rb.slots) \union {Len(delivered)} : sent + 1 < n + SeqNumbers
      /\ wire' = wire \union {sent} /\ sent' = sent + 1
      /\ rb' = rb /\ delivered' = delivered /\ repeated' = repeated /\ late' = late
  BY DEF R!Send, R!Held, HeldIn
<1>2. /\ InFlush(rbNow, repeated) /\ wire \subseteq Nat /\ sent \in Nat /\ late \in BOOLEAN
      /\ \A n \in wire \union Known(rb.slots, delivered) : n < sent
      /\ wire \intersect Known(rb.slots, delivered) \subseteq repeated
  BY DEF ReorderInv, rbNow
<1>3. InFlush(rbNow, repeated)'
  BY <1>1, <1>2 DEF InFlush, rbNow
<1>4. wire' \subseteq Nat /\ sent' \in Nat /\ late' \in BOOLEAN
  BY <1>1, <1>2
<1>n. Known(rb.slots, delivered) \subseteq Nat
  <2>1. rb.slots \in SlotArrays /\ delivered \in Seq(Nat)
    BY <1>2 DEF InFlush, rbNow
  <2> QED
    BY <2>1 DEF Known, HeldIn, SlotArrays, SlotRecords
<1>6. \A n \in (wire \union Known(rb.slots, delivered))' : n < sent'
  BY <1>1, <1>2, <1>n DEF Known, HeldIn
<1>7. (wire \intersect Known(rb.slots, delivered))' \subseteq repeated'
  <2>1. sent \notin Known(rb.slots, delivered)
    BY <1>2
  <2>2. Known(rb.slots, delivered)' = Known(rb.slots, delivered)
    BY <1>1 DEF Known, HeldIn
  <2> QED
    BY <1>1, <1>2, <2>1, <2>2
<1>8. ASSUME ~late' PROVE InTurn(rbNow, wire, sent)'
  <2>1. InTurn(rbNow, wire, sent)
    BY <1>1, <1>8 DEF ReorderInv, rbNow
  <2>2. InTurn(rbNow, wire \union {sent}, sent + 1)
    <3>1. delivered \in Seq(Nat) /\ Len(delivered) \in Nat
      BY <1>2 DEF InFlush, rbNow
    <3>2. Len(delivered) <= sent + 1 /\ sent + 1 < Len(delivered) + SeqNumbers
      BY <1>1, <1>2, <2>1, <3>1 DEF InTurn, rbNow
    <3>3. ASSUME NEW m \in wire \union {sent} \union HeldIn(rb.slots)
          PROVE  m \in Nat /\ m < sent + 1 /\ sent + 1 < m + SeqNumbers
      <4>1. CASE m = sent
        BY <1>2, <4>1, ReorderSizes
      <4>2. CASE m \in wire \union HeldIn(rb.slots)
        BY <1>1, <1>2, <2>1, <4>2 DEF InTurn, rbNow
      <4> QED
        BY <4>1, <4>2
    <3> QED
      BY <2>1, <3>2, <3>3 DEF InTurn, rbNow
  <2> QED
    BY <1>1, <2>2 DEF InTurn, HeldIn, rbNow
<1> QED
  BY <1>3, <1>4, <1>6, <1>7, <1>8 DEF ReorderInv, rbNow

LEMMA InsertStep == ASSUME R!ReorderAssumption, ReorderInv, NEW n, R!Insert(n) PROVE ReorderInv'
<1> DEFINE i == R!SlotOf(R!Seq16(n))
           s == rb.slots
           e == [occupied |-> TRUE, packet |-> n, age |-> 0]
<1>1. /\ InFlush(rbNow, repeated) /\ wire \subseteq Nat /\ sent \in Nat /\ late \in BOOLEAN
      /\ \A m \in wire \union Known(s, delivered) : m < sent
      /\ wire \intersect Known(s, delivered) \subseteq repeated
  BY DEF ReorderInv, rbNow
<1>2. /\ n \in wire /\ delivered' = delivered /\ sent' = sent /\ late' = late
      /\ \/ wire' = wire \ {n} /\ repeated' = repeated
         \/ wire' = wire /\ repeated' = repeated \union {n}
  BY DEF R!Insert
<1>3. /\ rb = [slots |-> s, next_seq |-> rb.next_seq, count |-> rb.count]
      /\ s \in SlotArrays /\ rb.next_seq \in Nat /\ delivered \in Seq(Nat)
      /\ Once(s, delivered, repeated)
  BY <1>1 DEF InFlush, rbNow
<1>4. n \in Nat /\ i \in R!Slots /\ e \in SlotRecords
  <2>1. n \in Nat
    BY <1>1, <1>2
  <2>2. R!Seq16(n) \in Nat
    BY <2>1, ReorderSizes DEF R!Seq16
  <2>3. i \in R!Slots
    BY <2>2, ReorderSizes DEF R!SlotOf, R!Slots
  <2> QED
    BY <2>1, <2>3 DEF SlotRecords
<1>5. \/ rb' = rb
      \/ /\ ~s[i].occupied
         /\ rb' = [slots |-> [s EXCEPT ![i] = e], next_seq |-> rb.next_seq, count |-> rb.count + 1]
  <2>1. CASE rb.count >= RbCapacity \/ s[i].occupied
    BY <2>1 DEF R!Insert, R!reorder_buffer_insert
  <2>2. CASE ~(rb.count >= RbCapacity \/ s[i].occupied)
    BY <2>2 DEF R!Insert, R!reorder_buffer_insert
  <2> QED
    BY <2>1, <2>2
<1> HIDE DEF i, e
<1>6. /\ rb' = [slots |-> rb'.slots, next_seq |-> rb'.next_seq, count |-> rb'.count]
      /\ rb'.slots \in SlotArrays /\ rb'.next_seq = rb.next_seq
      /\ \A j \in R!Slots : rb'.slots[j] = s[j] \/ (j = i /\ ~s[i].occupied /\ rb'.slots[j] = e)
  <2>1. CASE rb' = rb
    <3>1. rb' = [slots |-> rb'.slots, next_seq |-> rb'.next_seq, count |-> rb'.count]
      BY <1>1, <2>1 DEF InFlush, rbNow
    <3>2. rb'.slots = s /\ rb'.next_seq = rb.next_seq /\ s \in SlotArrays
      BY <1>1, <2>1 DEF InFlush, rbNow
    <3>3. \A j \in R!Slots : rb'.slots[j] = s[j]
      BY <3>2
    <3>4. rb'.slots \in SlotArrays
      BY <3>2
    <3>5. \A j \in R!Slots : rb'.slots[j] = s[j] \/ (j = i /\ ~s[i].occupied /\ rb'.slots[j] = e)
      BY <3>3
    <3>6. rb'.next_seq = rb.next_seq
      BY <3>2
    <3> QED
      BY <3>1, <3>4, <3>5, <3>6
  <2>2. CASE rb' = [slots |-> [s EXCEPT ![i] = e], next_seq |-> rb.next_seq, count |-> rb.count + 1]
             /\ ~s[i].occupied
    <3>1. rb'.slots = [s EXCEPT ![i] = e] /\ rb'.next_seq = rb.next_seq
      BY <2>2
    <3>2. [s EXCEPT ![i] = e] \in SlotArrays
      BY <1>3, <1>4 DEF SlotArrays
    <3>3. \A j \in R!Slots : [s EXCEPT ![i] = e][j] = IF j = i THEN e ELSE s[j]
      BY <1>3 DEF SlotArrays
    <3>4. rb' = [slots |-> rb'.slots, next_seq |-> rb'.next_seq, count |-> rb'.count]
      BY <2>2
    <3>5. \A j \in R!Slots : rb'.slots[j] = s[j] \/ (j = i /\ ~s[i].occupied /\ rb'.slots[j] = e)
      <4> SUFFICES ASSUME NEW j \in R!Slots
                   PROVE  rb'.slots[j] = s[j] \/ (j = i /\ ~s[i].occupied /\ rb'.slots[j] = e)
        OBVIOUS
      <4>1. CASE j = i
        <5>1. rb'.slots[j] = e
          BY <3>1, <3>3, <4>1
        <5> QED
          BY <2>2, <4>1, <5>1
      <4>2. CASE j # i
        <5>1. rb'.slots[j] = s[j]
          BY <3>1, <3>3, <4>2
        <5> QED
          BY <5>1
      <4> QED
        BY <4>1, <4>2
    <3>6. rb'.slots \in SlotArrays
      BY <3>1, <3>2
    <3> QED
      BY <3>1, <3>4, <3>5, <3>6
  <2> QED
    BY <1>5, <2>1, <2>2
<1>7. e.occupied /\ e.packet = n /\ n \in repeated' \union (wire \ wire')
  BY <1>2 DEF e
<1>8. /\ HeldIn(rb'.slots) \subseteq HeldIn(s) \union {n}
      /\ Known(rb'.slots, delivered) \subseteq Known(s, delivered) \union {n}
  BY <1>6, <1>7 DEF Known, HeldIn
<1>9. repeated \subseteq repeated' /\ wire' \subseteq wire
  BY <1>2
<1>10. n \in Known(s, delivered) => n \in repeated
  BY <1>1, <1>2
<1>11. Once(rb'.slots, delivered, repeated')
  <2>1. ASSUME NEW j \in R!Slots, NEW k \in R!Slots, rb'.slots[j].occupied, rb'.slots[k].occupied,
               rb'.slots[j].packet = rb'.slots[k].packet
        PROVE  j = k \/ rb'.slots[j].packet \in repeated'
    <3>1. CASE rb'.slots[j] = s[j] /\ rb'.slots[k] = s[k]
      BY <1>3, <1>9, <2>1, <3>1 DEF Once
    <3>2. CASE j = i /\ rb'.slots[j] = e /\ rb'.slots[k] = s[k]
      <4>1. n \in HeldIn(s)
        BY <1>7, <2>1, <3>2 DEF HeldIn
      <4> QED
        BY <1>7, <1>9, <1>10, <3>2, <4>1 DEF Known
    <3>3. CASE k = i /\ rb'.slots[k] = e /\ rb'.slots[j] = s[j]
      <4>1. n \in HeldIn(s)
        BY <1>7, <2>1, <3>3 DEF HeldIn
      <4> QED
        BY <1>7, <1>9, <1>10, <2>1, <3>3, <4>1 DEF Known
    <3> QED
      BY <1>6, <3>1, <3>2, <3>3
  <2>2. ASSUME NEW j \in R!Slots, NEW k \in 1..Len(delivered), rb'.slots[j].occupied,
               rb'.slots[j].packet = delivered[k]
        PROVE  delivered[k] \in repeated'
    <3>1. CASE rb'.slots[j] = s[j]
      BY <1>3, <1>9, <2>2, <3>1 DEF Once
    <3>2. CASE rb'.slots[j] = e
      BY <1>7, <1>9, <1>10, <2>2, <3>2 DEF Known
    <3> QED
      BY <1>6, <3>1, <3>2
  <2>3. \A j, k \in 1..Len(delivered) :
           delivered[j] = delivered[k] => j = k \/ delivered[j] \in repeated'
    BY <1>3, <1>9 DEF Once
  <2> QED
    BY <2>1, <2>2, <2>3 DEF Once
<1>12. InFlush(rbNow, repeated)'
  BY <1>2, <1>3, <1>6, <1>11 DEF InFlush, rbNow
<1>13. \A m \in (wire \union Known(rb.slots, delivered))' : m < sent'
  BY <1>1, <1>2, <1>8, <1>9
<1>14. (wire \intersect Known(rb.slots, delivered))' \subseteq repeated'
  BY <1>1, <1>2, <1>8, <1>9
<1>15. ASSUME ~late' PROVE InTurn(rbNow, wire, sent)'
  <2>1. InTurn(rbNow, wire, sent)
    BY <1>2, <1>15 DEF ReorderInv, rbNow
  <2> QED
    BY <1>2, <1>6, <1>8, <1>9, <2>1 DEF InTurn, s, rbNow
<1> QED
  BY <1>1, <1>2, <1>9, <1>12, <1>13, <1>14, <1>15 DEF ReorderInv, rbNow

LEMMA FlushStep == ASSUME R!ReorderAssumption, ReorderInv, R!Flush PROVE ReorderInv'
<1> DEFINE f == R!reorder_buffer_flush(rb, delivered)
<1>1. /\ rb' = f.b /\ delivered' = f.out /\ late' = (late \/ \E i \in R!Slots : R!Due(rb, i))
      /\ wire' = wire /\ sent' = sent /\ repeated' = repeated
  BY DEF R!Flush
<1>2. /\ InFlush(rbNow, repeated) /\ wire \subseteq Nat /\ sent \in Nat /\ late \in BOOLEAN
      /\ \A n \in wire \union Known(rb.slots, delivered) : n < sent
      /\ wire \intersect Known(rb.slots, delivered) \subseteq repeated
  BY DEF ReorderInv, rbNow
<1>3. InFlush(f, repeated) /\ Within(rbNow, f)
  BY <1>2, FlushKeeps DEF rbNow
<1>4. ASSUME ~late' PROVE InTurn(f, wire, sent)
  <2>1. ~late /\ \A i \in R!Slots : ~R!Due(rb, i)
    BY <1>1, <1>4
  <2>2. f = R!DeliverRun(rbNow)
    BY <2>1, FlushOnTime DEF Begun, rbNow
  <2>3. InTurn(rbNow, wire, sent)
    BY <2>1 DEF ReorderInv, rbNow
  <2> QED
    BY <1>2, <2>2, <2>3, RunInTurn
<1> HIDE DEF f
<1>5. InFlush(rbNow, repeated)'
  BY <1>1, <1>3 DEF InFlush, rbNow
<1>6. Known(rb.slots, delivered)' \subseteq Known(rb.slots, delivered)
  BY <1>1, <1>3 DEF Within, rbNow
<1>7. ASSUME ~late' PROVE InTurn(rbNow, wire, sent)'
  BY <1>1, <1>4, <1>7 DEF InTurn, rbNow
<1>8. late' \in BOOLEAN
  BY <1>1, <1>2
<1> QED
  BY <1>1, <1>2, <1>5, <1>6, <1>7, <1>8 DEF ReorderInv, rbNow

LEMMA TickStep == ASSUME R!ReorderAssumption, ReorderInv, R!Tick PROVE ReorderInv'
<1> DEFINE s == rb.slots
           older == [i \in R!Slots |-> R!Older(s[i])]
<1>1. /\ rb' = [rb EXCEPT !.slots = older]
      /\ wire' = wire /\ sent' = sent /\ repeated' = repeated /\ late' = late /\ delivered' = delivered
  BY DEF R!Tick
<1>2. /\ InFlush(rbNow, repeated) /\ wire \subseteq Nat /\ sent \in Nat /\ late \in BOOLEAN
      /\ \A n \in wire \union Known(rb.slots, delivered) : n < sent
      /\ wire \intersect Known(rb.slots, delivered) \subseteq repeated
  BY DEF ReorderInv, rbNow
<1>3. /\ rb = [slots |-> s, next_seq |-> rb.next_seq, count |-> rb.count]
      /\ s \in SlotArrays /\ rb.next_seq \in Nat /\ delivered \in Seq(Nat)
      /\ Once(s, delivered, repeated)
  BY <1>2 DEF InFlush, rbNow
<1>4. older \in SlotArrays /\ \A i \in R!Slots : /\ older[i].occupied = s[i].occupied
                                            /\ older[i].packet = s[i].packet
  <2>1. ASSUME NEW i \in R!Slots
        PROVE  /\ older[i] \in SlotRecords /\ older[i].occupied = s[i].occupied
               /\ older[i].packet = s[i].packet
    <3>1. s[i] \in SlotRecords
      BY <1>3 DEF SlotArrays
    <3>2. /\ [s[i] EXCEPT !.age = @ + 1] \in SlotRecords
          /\ [s[i] EXCEPT !.age = @ + 1].occupied = s[i].occupied
          /\ [s[i] EXCEPT !.age = @ + 1].packet = s[i].packet
      BY <3>1 DEF SlotRecords
    <3> QED
      BY <3>1, <3>2 DEF R!Older
  <2> QED
    BY <2>1 DEF SlotArrays
<1> HIDE DEF older, s
<1>5. rb' = [slots |-> older, next_seq |-> rb.next_seq, count |-> rb.count]
  BY <1>1, <1>3
<1>6. rb'.slots = older /\ rb'.next_seq = rb.next_seq /\ rb'.count = rb.count
  BY <1>5
<1>7. HeldIn(older) = HeldIn(s) /\ Known(older, delivered) = Known(s, delivered)
      /\ Once(older, delivered, repeated)
  BY <1>3, <1>4 DEF HeldIn, Known, Once
<1>8. InFlush(rbNow, repeated)'
  BY <1>1, <1>3, <1>4, <1>5, <1>6, <1>7 DEF InFlush, rbNow
<1>9. ASSUME ~late' PROVE InTurn(rbNow, wire, sent)'
  <2>1. InTurn(rbNow, wire, sent)
    BY <1>1, <1>9 DEF ReorderInv, rbNow
  <2> QED
    BY <1>1, <1>6, <1>7, <2>1 DEF InTurn, s, rbNow
<1> QED
  BY <1>1, <1>2, <1>6, <1>7, <1>8, <1>9 DEF ReorderInv, s, rbNow

LEMMA LoseStep == ASSUME R!ReorderAssumption, ReorderInv, NEW n, R!Lose(n) PROVE ReorderInv'
<1>1. /\ wire' \subseteq wire
      /\ rb' = rb /\ sent' = sent /\ repeated' = repeated /\ late' = late /\ delivered' = delivered
  BY DEF R!Lose
<1>2. InFlush(rbNow, repeated)'
  BY <1>1 DEF ReorderInv, rbNow
<1>3. InTurn(rbNow, wire, sent) => InTurn(rbNow, wire, sent)'
  BY <1>1 DEF InTurn, HeldIn, rbNow
<1>4. Known(rb.slots, delivered)' = Known(rb.slots, delivered)
  BY <1>1 DEF Known, HeldIn
<1> QED
  BY <1>1, <1>2, <1>3, <1>4 DEF ReorderInv, rbNow

LEMMA ReorderNext == ASSUME R!ReorderAssumption, ReorderInv, [R!Next]_(R!vars) PROVE ReorderInv'
<1>1. CASE UNCHANGED R!vars
  <2>1. /\ rb' = rb /\ sent' = sent /\ repeated' = repeated
        /\ late' = late /\ delivered' = delivered /\ wire' = wire
    BY <1>1 DEF R!vars
  <2>2. InFlush(rbNow, repeated)'
    BY <2>1 DEF ReorderInv, rbNow
  <2>3. InTurn(rbNow, wire, sent) => InTurn(rbNow, wire, sent)'
    BY <2>1 DEF InTurn, HeldIn, rbNow
  <2>4. Known(rb.slots, delivered)' = Known(rb.slots, delivered)
    BY <2>1 DEF Known, HeldIn
  <2> QED
    BY <2>1, <2>2, <2>3, <2>4 DEF ReorderInv, rbNow
<1>2. CASE R!Next
  BY <1>2, SendStep, FlushStep, TickStep, InsertStep, LoseStep DEF R!Next
<1> QED
  BY <1>1, <1>2

LEMMA ReorderInvariance == ASSUME R!ReorderAssumption PROVE R!Spec => []ReorderInv
<1>1. R!Init => ReorderInv
  BY ReorderInit
<1>2. ReorderInv /\ [R!Next]_(R!vars) => ReorderInv'
  BY ReorderNext
<1> QED
  BY <1>1, <1>2, PTL DEF R!Spec

LEMMA ReorderSingle == ASSUME R!ReorderAssumption PROVE R!Spec => []R!DeliveredOnce
<1>1. ReorderInv => R!DeliveredOnce
  <2> SUFFICES ASSUME ReorderInv PROVE R!DeliveredOnce
    OBVIOUS
  <2>1. delivered \in Seq(Nat) /\ Once(rb.slots, delivered, repeated)
    BY DEF ReorderInv, InFlush, rbNow
  <2>2. DOMAIN delivered = 1..Len(delivered)
    BY <2>1
  <2> QED
    BY <2>1, <2>2 DEF R!DeliveredOnce, Once, R!Held
<1> QED
  BY <1>1, ReorderInvariance, PTL

LEMMA ReorderInTurn == ASSUME R!ReorderAssumption PROVE R!Spec => []R!NoGaps
<1>1. ReorderInv => R!NoGaps
  <2> SUFFICES ASSUME ReorderInv, ~late PROVE R!NoGaps
    BY DEF R!NoGaps
  <2>1. delivered \in Seq(Nat) /\ \A k \in 1..Len(delivered) : delivered[k] = k - 1
    BY DEF ReorderInv, InFlush, InTurn, rbNow
  <2>2. DOMAIN delivered = 1..Len(delivered)
    BY <2>1
  <2> QED
    BY <2>1, <2>2 DEF R!NoGaps
<1> QED
  BY <1>1, ReorderInvariance, PTL

-----------------------------------------------------------------------------
(* The retry table: the loop of a tick.                                    *)

Start(fresh) == [table |-> table, fired |-> {}, answered |-> {}, added |-> {}, fresh |-> fresh]

\* p is the course of the loop, up to slot n.
Course(p, n, replies, fresh) ==
    p = [k \in 0..n |-> IF k = 0 THEN Start(fresh) ELSE T!Visit(p[k - 1], k, replies[k])]

\* The loop has a course: the recursive function exists.
LEMMA CourseExists ==
    ASSUME NEW n \in Nat, NEW replies, NEW fresh
    PROVE  \E p : Course(p, n, replies, fresh)
<1> DEFINE S == {m \in 0..n : \E p : Course(p, m, replies, fresh)}
<1>1. 0 \in S
  <2> DEFINE p == [k \in 0..0 |-> Start(fresh)]
  <2>1. Course(p, 0, replies, fresh)
    BY DEF Course
  <2> QED
    BY <2>1
<1>2. ASSUME NEW m \in 0..n, m \in S, m < n PROVE m + 1 \in S
  <2>1. PICK p : Course(p, m, replies, fresh)
    BY <1>2
  <2> DEFINE q == [k \in 0..(m + 1) |-> IF k <= m THEN p[k] ELSE T!Visit(p[m], m + 1, replies[m + 1])]
             body(k) == IF k = 0 THEN Start(fresh) ELSE T!Visit(q[k - 1], k, replies[k])
  <2>2. ASSUME NEW k \in 0..(m + 1) PROVE q[k] = body(k)
    <3>1. CASE k = 0
      BY <2>1, <3>1 DEF Course
    <3>2. CASE k # 0 /\ k <= m
      <4>1. q[k - 1] = p[k - 1] /\ q[k] = p[k]
        BY <3>2
      <4>2. p[k] = T!Visit(p[k - 1], k, replies[k])
        BY <2>1, <3>2 DEF Course
      <4> QED
        BY <3>2, <4>1, <4>2
    <3>3. CASE k = m + 1
      <4>1. q[k - 1] = p[m] /\ q[k] = T!Visit(p[m], k, replies[k]) /\ k # 0
        BY <3>3
      <4> QED
        BY <4>1
    <3> QED
      BY <3>1, <3>2, <3>3
  <2>3. Course(q, m + 1, replies, fresh)
    <3>1. q = [k \in 0..(m + 1) |-> q[k]]
      OBVIOUS
    <3> HIDE DEF q
    <3>2. q = [k \in 0..(m + 1) |-> body(k)]
      BY <2>2, <3>1
    <3> QED
      BY <3>2 DEF Course
  <2> QED
    BY <1>2, <2>3
<1> HIDE DEF S
<1>3. 0..n \subseteq S
  BY <1>1, <1>2, UpTo
<1> QED
  BY <1>3 DEF S

\* The loop of a tick follows one.
LEMMA PassIs ==
    ASSUME NEW replies, NEW fresh, MaxSlots \in Nat
    PROVE  \E p : Course(p, MaxSlots, replies, fresh) /\ T!Pass(replies, fresh) = p[MaxSlots]
<1> DEFINE p == CHOOSE q : Course(q, MaxSlots, replies, fresh)
<1>1. Course(p, MaxSlots, replies, fresh)
  BY CourseExists
<1>2. T!Pass(replies, fresh) = p[MaxSlots]
  BY DEF T!Pass, Course, Start
<1> QED
  BY <1>1, <1>2

-----------------------------------------------------------------------------
(* The retry table: the inductive invariant and its steps.                  *)

\* A slot is a record of these fields.
IsEntry(e) ==
    /\ e = [in_use |-> e.in_use, id |-> e.id, attempts |-> e.attempts, max |-> e.max,
            base |-> e.base, wait |-> e.wait]
    /\ e.in_use \in BOOLEAN
    /\ e.in_use => /\ e.id \in Requests /\ e.attempts \in Nat /\ e.max \in Nat
                   /\ e.attempts < e.max

IsTable(t) ==
    /\ t = [entries |-> t.entries, count |-> t.count]
    /\ t.entries = [i \in T!Slots |-> t.entries[i]]
    /\ \A i \in T!Slots : IsEntry(t.entries[i])

\* As long as no callback has changed the table: each request has one slot, whose
\* attempts and what the request is owed make up its budget.
Charged ==
    /\ IsTable(table)
    /\ owed \in [Requests -> Int] /\ DOMAIN status = Requests
    /\ \A i, j \in T!InUse : table.entries[i].id = table.entries[j].id => i = j
    /\ \A i \in T!InUse :
         LET e == table.entries[i]
         IN  status[e.id] = "pending" /\ owed[e.id] = e.max - e.attempts
    /\ \A r \in Requests : status[r] = "expired" => owed[r] = 0

RetryInv == meddled \/ Charged

\* What a try leaves in a slot whose owner waits.
Tried(e) ==
    IF T!HasMore(e) THEN [e EXCEPT !.attempts = @ + 1, !.wait = T!Delay(e.base, e.attempts + 1)]
    ELSE T!Cleared

\* Where the loop is after k slots if every owner waits.
Waited(k, count, fresh) ==
    [table |-> [entries |-> [i \in T!Slots |-> IF i <= k /\ T!Due(table, i)
                                             THEN Tried(table.entries[i]) ELSE table.entries[i]],
                count |-> count],
     fired |-> {table.entries[i].id : i \in {j \in T!Slots : j <= k /\ T!Due(table, j)}},
     answered |-> {}, added |-> {}, fresh |-> fresh]

IsTurn(p) == p = [table |-> p.table, fired |-> p.fired, answered |-> p.answered,
                  added |-> p.added, fresh |-> p.fresh]

LEMMA VisitWaited ==
    ASSUME IsTable(table), MaxSlots \in Nat, NEW k \in 0..MaxSlots, k < MaxSlots, NEW count,
           NEW fresh, NEW reply,
           NEW p, p = Waited(k, count, fresh), T!Visit(p, k + 1, reply).answered = {}
    PROVE  \E c : T!Visit(p, k + 1, reply) = Waited(k + 1, c, fresh)
<1> DEFINE E == p.table.entries
           i == k + 1
<1>1. /\ i \in T!Slots /\ E[i] = table.entries[i]
      /\ E = [j \in T!Slots |-> IF j <= k /\ T!Due(table, j) THEN Tried(table.entries[j])
                              ELSE table.entries[j]]
      /\ p.table = [entries |-> E, count |-> count]
      /\ p.fired = {table.entries[x].id : x \in {j \in T!Slots : j <= k /\ T!Due(table, j)}}
      /\ p = [table |-> p.table, fired |-> p.fired, answered |-> {}, added |-> {}, fresh |-> fresh]
  <2>1. i \in T!Slots
    BY DEF T!Slots
  <2>2. E = [j \in T!Slots |-> IF j <= k /\ T!Due(table, j) THEN Tried(table.entries[j])
                             ELSE table.entries[j]]
    BY DEF Waited
  <2>3. ~(i <= k)
    OBVIOUS
  <2>4. E[i] = table.entries[i]
    BY <2>1, <2>2, <2>3
  <2>5. /\ p.table = [entries |-> E, count |-> count]
        /\ p.fired = {table.entries[x].id : x \in {j \in T!Slots : j <= k /\ T!Due(table, j)}}
    BY DEF Waited
  <2>6. p = [table |-> p.table, fired |-> p.fired, answered |-> {}, added |-> {}, fresh |-> fresh]
    BY DEF Waited
  <2> QED
    BY <2>1, <2>2, <2>4, <2>5, <2>6
<1>2. T!Due(p.table, i) <=> T!Due(table, i)
  BY <1>1 DEF T!Due
<1>3. \A j \in T!Slots : j <= i <=> j <= k \/ j = i
  BY DEF T!Slots
<1>4. CASE ~T!Due(table, i)
  <2>1. T!Visit(p, i, reply) = p
    BY <1>2, <1>4 DEF T!Visit
  <2>2. p = Waited(i, count, fresh)
    <3>1. E = [j \in T!Slots |-> IF j <= i /\ T!Due(table, j) THEN Tried(table.entries[j])
                              ELSE table.entries[j]]
      BY <1>1, <1>3, <1>4
    <3>2. {j \in T!Slots : j <= k /\ T!Due(table, j)} = {j \in T!Slots : j <= i /\ T!Due(table, j)}
      BY <1>1, <1>3, <1>4
    <3> HIDE DEF E, i
    <3> QED
      BY <1>1, <3>1, <3>2 DEF Waited
  <2> QED
    BY <2>1, <2>2
<1>5. CASE T!Due(table, i)
  <2>1. reply = "wait"
    <3> SUFFICES ASSUME reply # "wait" PROVE FALSE
      OBVIOUS
    <3>1. T!Visit(p, i, reply).answered = p.answered \union {p.table.entries[i].id}
      BY <1>1, <1>2, <1>5 DEF T!Visit
    <3> QED
      BY <3>1
  <2>2. T!Visit(p, i, reply) =
          [table |-> T!Advance(p.table, i), fired |-> p.fired \union {table.entries[i].id},
           answered |-> {}, added |-> {}, fresh |-> fresh]
    <3>1. p.table.entries[i].id = table.entries[i].id /\ T!Callback(p.table, i, reply, p.fresh) = p.table
      BY <1>1, <2>1 DEF T!Callback
    <3>2. T!Visit(p, i, reply) =
            [table |-> T!Advance(p.table, i), fired |-> p.fired \union {table.entries[i].id},
             answered |-> p.answered, added |-> p.added, fresh |-> p.fresh]
      BY <1>1, <1>2, <1>5, <2>1, <3>1 DEF T!Visit
    <3> HIDE DEF E, i
    <3>3. p.answered = {} /\ p.added = {} /\ p.fresh = fresh
      BY <1>1
    <3> QED
      BY <3>2, <3>3
  <2>3. PICK c : T!Advance(p.table, i) =
                  [entries |-> [E EXCEPT ![i] = Tried(table.entries[i])], count |-> c]
    <3>1. CASE T!HasMore(E[i])
      <4>1. T!Advance(p.table, i) = [p.table EXCEPT !.entries[i] = Tried(table.entries[i])]
        BY <1>1, <3>1 DEF T!Advance, Tried
      <4> QED
        BY <1>1, <4>1
    <3>2. CASE ~T!HasMore(E[i])
      BY <1>1, <3>2 DEF T!Advance, T!Clear, Tried
    <3> QED
      BY <3>1, <3>2
  <2>4. [E EXCEPT ![i] = Tried(table.entries[i])]
          = [j \in T!Slots |-> IF j <= i /\ T!Due(table, j) THEN Tried(table.entries[j])
                             ELSE table.entries[j]]
    BY <1>1, <1>3, <1>5
  <2>5. {j \in T!Slots : j <= i /\ T!Due(table, j)}
          = {j \in T!Slots : j <= k /\ T!Due(table, j)} \union {i}
    BY <1>1, <1>3, <1>5
  <2>6. p.fired \union {table.entries[i].id}
          = {table.entries[x].id : x \in {j \in T!Slots : j <= i /\ T!Due(table, j)}}
    BY <1>1, <2>5
  <2> HIDE DEF E, i
  <2>7. T!Visit(p, i, reply) = Waited(i, c, fresh)
    BY <2>2, <2>3, <2>4, <2>6 DEF Waited
  <2> QED
    BY <2>7 DEF i
<1> QED
  BY <1>4, <1>5

\* If no owner answered, the loop has tried every slot that was due.
LEMMA PassWaited ==
    ASSUME IsTable(table), MaxSlots \in Nat, NEW replies, NEW fresh,
           T!Pass(replies, fresh).answered = {}
    PROVE  \E c : T!Pass(replies, fresh) = Waited(MaxSlots, c, fresh)
<1>1. PICK p : Course(p, MaxSlots, replies, fresh) /\ T!Pass(replies, fresh) = p[MaxSlots]
  BY PassIs
<1> DEFINE S == {k \in 0..MaxSlots : /\ IsTurn(p[k])
                                     /\ p[k].answered = {} => \E c : p[k] = Waited(k, c, fresh)}
<1>2. 0 \in S
  <2>1. p[0] = Start(fresh)
    BY <1>1 DEF Course
  <2>2. IsTurn(p[0])
    BY <2>1 DEF IsTurn, Start
  <2>3. p[0] = Waited(0, table.count, fresh)
    <3>1. \A i \in T!Slots : ~(i <= 0)
      BY DEF T!Slots
    <3>2. table.entries = [i \in T!Slots |-> IF i <= 0 /\ T!Due(table, i) THEN Tried(table.entries[i])
                                           ELSE table.entries[i]]
      BY <3>1 DEF IsTable
    <3>3. {table.entries[i].id : i \in {j \in T!Slots : j <= 0 /\ T!Due(table, j)}} = {}
      BY <3>1
    <3> QED
      BY <2>1, <3>2, <3>3 DEF Waited, Start, IsTable
  <2> QED
    BY <2>2, <2>3
<1>3. ASSUME NEW k \in 0..MaxSlots, k \in S, k < MaxSlots PROVE k + 1 \in S
  <2>1. p[k + 1] = T!Visit(p[k], k + 1, replies[k + 1])
    BY <1>1, <1>3 DEF Course
  <2>2. IsTurn(p[k]) /\ (p[k].answered = {} => \E c : p[k] = Waited(k, c, fresh))
    BY <1>3
  <2>3. IsTurn(p[k + 1]) /\ (p[k + 1].answered = {} => p[k].answered = {})
    <3>1. CASE ~T!Due(p[k].table, k + 1)
      BY <2>1, <2>2, <3>1 DEF T!Visit
    <3>2. CASE T!Due(p[k].table, k + 1)
      <4> DEFINE id == p[k].table.entries[k + 1].id
                 t == T!Advance(T!Callback(p[k].table, k + 1, replies[k + 1], p[k].fresh), k + 1)
                 f == p[k].fired \union {id}
                 a == IF replies[k + 1] = "wait" THEN p[k].answered ELSE p[k].answered \union {id}
                 d == IF replies[k + 1] = "replace" THEN {p[k].fresh.id} ELSE p[k].added
                 g == p[k].fresh
      <4>1. p[k + 1] = [table |-> t, fired |-> f, answered |-> a, added |-> d, fresh |-> g]
        BY <2>1, <3>2 DEF T!Visit
      <4>2. a = {} => p[k].answered = {}
        OBVIOUS
      <4> HIDE DEF t, f, a, d, g
      <4> QED
        BY <4>1, <4>2 DEF IsTurn
    <3> QED
      BY <3>1, <3>2
  <2>4. ASSUME p[k + 1].answered = {} PROVE \E c : p[k + 1] = Waited(k + 1, c, fresh)
    <3>1. PICK c : p[k] = Waited(k, c, fresh)
      BY <2>2, <2>3, <2>4
    <3> QED
      BY <1>3, <2>1, <2>4, <3>1, VisitWaited
  <2> QED
    BY <1>3, <2>3, <2>4
<1> HIDE DEF S
<1>4. 0..MaxSlots \subseteq S
  BY <1>2, <1>3, UpTo
<1> QED
  BY <1>1, <1>4 DEF S

LEMMA RetryInit == T!Init => RetryInv
<1> SUFFICES ASSUME T!Init PROVE Charged
  BY DEF RetryInv
<1>1. IsEntry(T!Cleared)
  BY DEF IsEntry, T!Cleared
<1>2. IsTable(table)
  BY <1>1 DEF T!Init, IsTable
<1>3. T!InUse = {}
  BY DEF T!Init, T!InUse, T!Cleared
<1> QED
  BY <1>2, <1>3 DEF T!Init, Charged

LEMMA TickKeeps ==
    ASSUME MaxSlots \in Nat, RetryInv, T!rm_table_tick
    PROVE  RetryInv'
<1> SUFFICES ASSUME ~meddled' PROVE Charged'
  BY DEF RetryInv
<1>1. PICK replies, fresh :
        LET p == T!Pass(replies, fresh) IN
        /\ table' = p.table
        /\ owed' = [q \in Requests |-> IF q \in p.fired THEN owed[q] - 1
                                       ELSE IF q \in p.added THEN fresh.max ELSE owed[q]]
        /\ status' = [q \in Requests |-> IF q \in p.answered THEN "removed"
                                         ELSE IF T!Holds(p.table, q) THEN "pending"
                                         ELSE IF q \in p.fired \union p.added THEN "expired"
                                         ELSE status[q]]
        /\ meddled' = (meddled \/ p.answered # {})
  BY DEF T!rm_table_tick
<1>2. Charged /\ T!Pass(replies, fresh).answered = {}
  BY <1>1 DEF RetryInv
<1>3. PICK c : T!Pass(replies, fresh) = Waited(MaxSlots, c, fresh)
  BY <1>2, PassWaited DEF Charged
<1> DEFINE D == {i \in T!Slots : T!Due(table, i)}
           fired == {table.entries[i].id : i \in D}
           E == [i \in T!Slots |-> IF i \in D THEN Tried(table.entries[i]) ELSE table.entries[i]]
<1>4. /\ T!Pass(replies, fresh).table = [entries |-> E, count |-> c]
      /\ T!Pass(replies, fresh).fired = fired /\ T!Pass(replies, fresh).added = {}
  BY <1>3 DEF Waited, T!Slots
<1>5. /\ table' = [entries |-> E, count |-> c]
      /\ owed' = [q \in Requests |-> IF q \in fired THEN owed[q] - 1 ELSE owed[q]]
      /\ status' = [q \in Requests |-> IF T!Holds(table', q) THEN "pending"
                                       ELSE IF q \in fired THEN "expired" ELSE status[q]]
  BY <1>1, <1>2, <1>4
<1>6. /\ \A i \in T!Slots : IsEntry(table.entries[i])
      /\ T!InUse \subseteq T!Slots /\ D \subseteq T!InUse
      /\ \A i \in T!Slots : i \in T!InUse <=> table.entries[i].in_use
  BY <1>2 DEF Charged, IsTable, T!InUse, T!Due
<1>7. \A i \in D : /\ T!HasMore(table.entries[i])
                       <=> table.entries[i].attempts + 1 < table.entries[i].max
                   /\ IsEntry(Tried(table.entries[i]))
                   /\ Tried(table.entries[i]).in_use <=> T!HasMore(table.entries[i])
                   /\ Tried(table.entries[i]).in_use =>
                        /\ Tried(table.entries[i]).id = table.entries[i].id
                        /\ Tried(table.entries[i]).max = table.entries[i].max
                        /\ Tried(table.entries[i]).attempts = table.entries[i].attempts + 1
  <2> SUFFICES ASSUME NEW i \in D
               PROVE  /\ T!HasMore(table.entries[i])
                         <=> table.entries[i].attempts + 1 < table.entries[i].max
                      /\ IsEntry(Tried(table.entries[i]))
                      /\ Tried(table.entries[i]).in_use <=> T!HasMore(table.entries[i])
                      /\ Tried(table.entries[i]).in_use =>
                           /\ Tried(table.entries[i]).id = table.entries[i].id
                           /\ Tried(table.entries[i]).max = table.entries[i].max
                           /\ Tried(table.entries[i]).attempts = table.entries[i].attempts + 1
    OBVIOUS
  <2> DEFINE e == table.entries[i]
  <2>1. IsEntry(e) /\ e.in_use
    BY <1>6 DEF T!InUse
  <2> HIDE DEF e
  <2>2. CASE T!HasMore(e)
    <3> DEFINE w == T!Delay(e.base, e.attempts + 1)
    <3> HIDE DEF w
    <3>1. Tried(e) = [in_use |-> TRUE, id |-> e.id, attempts |-> e.attempts + 1, max |-> e.max,
                      base |-> e.base, wait |-> w]
      BY <2>1, <2>2 DEF Tried, IsEntry, w
    <3>2. e.attempts + 1 < e.max /\ e.attempts + 1 \in Nat /\ e.max \in Nat /\ e.id \in Requests
      BY <2>1, <2>2 DEF IsEntry, T!HasMore
    <3>3. IsEntry(Tried(e))
      BY <3>1, <3>2 DEF IsEntry
    <3> QED
      BY <2>2, <3>1, <3>2, <3>3 DEF e
  <2>3. CASE ~T!HasMore(e)
    <3>1. Tried(e) = T!Cleared /\ ~(e.attempts + 1 < e.max)
      BY <2>3 DEF Tried, T!HasMore
    <3>2. IsEntry(T!Cleared) /\ ~T!Cleared.in_use
      BY DEF IsEntry, T!Cleared
    <3> QED
      BY <2>3, <3>1, <3>2 DEF e
  <2> QED
    BY <2>2, <2>3
<1> HIDE DEF D
<1>8. IsTable(table')
  BY <1>5, <1>6, <1>7 DEF IsTable
<1>9. /\ T!InUse' \subseteq T!InUse /\ T!InUse' = {i \in T!Slots : E[i].in_use}
      /\ \A i \in T!InUse' : /\ E[i].id = table.entries[i].id /\ E[i].max = table.entries[i].max
                           /\ E[i].attempts = table.entries[i].attempts + (IF i \in D THEN 1 ELSE 0)
      /\ table'.entries = E
  <2>1. table'.entries = E
    BY <1>5
  <2>2. T!InUse' = {i \in T!Slots : E[i].in_use}
    BY <2>1 DEF T!InUse
  <2>3. \A i \in T!Slots : E[i] = IF i \in D THEN Tried(table.entries[i]) ELSE table.entries[i]
    OBVIOUS
  <2> HIDE DEF E
  <2>4. T!InUse' \subseteq T!InUse
    BY <1>6, <2>2, <2>3
  <2>5. ASSUME NEW i \in T!InUse'
        PROVE  /\ E[i].id = table.entries[i].id /\ E[i].max = table.entries[i].max
               /\ E[i].attempts = table.entries[i].attempts + (IF i \in D THEN 1 ELSE 0)
    <3>1. CASE i \in D
      BY <1>7, <2>2, <2>3, <3>1
    <3>2. CASE i \notin D
      <4>1. E[i] = table.entries[i] /\ table.entries[i].attempts \in Nat
        BY <1>6, <2>3, <2>4, <3>2 DEF IsEntry
      <4> QED
        BY <3>2, <4>1
    <3> QED
      BY <3>1, <3>2
  <2> QED
    BY <2>1, <2>2, <2>4, <2>5
<1>10. \A i, j \in T!InUse' : E[i].id = E[j].id => i = j
  BY <1>2, <1>9 DEF Charged
<1>11. \A i \in T!InUse' : T!Holds(table', E[i].id)
  BY <1>9 DEF T!Holds
<1>12. \A i \in T!InUse : table.entries[i].id \in fired <=> i \in D
  BY <1>2, <1>6 DEF Charged
<1>13. \A i \in T!InUse : table.entries[i].id \in Requests
  BY <1>6 DEF IsEntry
<1> HIDE DEF E, fired
<1>14. \A i \in T!InUse' : status'[E[i].id] = "pending" /\ owed'[E[i].id] = E[i].max - E[i].attempts
  <2> SUFFICES ASSUME NEW i \in T!InUse'
               PROVE  status'[E[i].id] = "pending" /\ owed'[E[i].id] = E[i].max - E[i].attempts
    OBVIOUS
  <2>1. /\ owed[table.entries[i].id] = table.entries[i].max - table.entries[i].attempts
        /\ table.entries[i].max \in Nat /\ table.entries[i].attempts \in Nat
    BY <1>2, <1>6, <1>9 DEF Charged, IsEntry
  <2> QED
    BY <1>5, <1>9, <1>11, <1>12, <1>13, <2>1
<1>15. \A r \in Requests : status'[r] = "expired" => owed'[r] = 0
  <2> SUFFICES ASSUME NEW r \in Requests, status'[r] = "expired" PROVE owed'[r] = 0
    OBVIOUS
  <2>1. ~T!Holds(table', r)
    BY <1>5
  <2>2. CASE r \notin fired
    BY <1>2, <1>5, <2>1, <2>2 DEF Charged
  <2>3. CASE r \in fired
    <3>1. PICK i \in D : r = table.entries[i].id
      BY <2>3 DEF fired
    <3>2. ~T!HasMore(table.entries[i])
      <4> SUFFICES ASSUME T!HasMore(table.entries[i]) PROVE FALSE
        OBVIOUS
      <4>1. E[i].in_use /\ E[i].id = r /\ i \in T!Slots
        BY <1>6, <1>7, <3>1 DEF E
      <4> QED
        BY <1>9, <2>1, <4>1 DEF T!Holds
    <3>3. /\ owed[r] = table.entries[i].max - table.entries[i].attempts
          /\ table.entries[i].max \in Nat /\ table.entries[i].attempts \in Nat
          /\ table.entries[i].attempts < table.entries[i].max
      BY <1>2, <1>6, <3>1 DEF Charged, IsEntry
    <3>4. owed[r] = 1
      BY <1>7, <3>1, <3>2, <3>3
    <3> QED
      BY <1>5, <2>3, <3>4
  <2> QED
    BY <2>2, <2>3
<1>16. owed' \in [Requests -> Int] /\ DOMAIN status' = Requests
  BY <1>2, <1>5 DEF Charged
<1> QED
  BY <1>8, <1>9, <1>10, <1>14, <1>15, <1>16 DEF Charged

LEMMA ClearIs ==
    ASSUME NEW t, IsTable(t), NEW i \in T!Slots
    PROVE  /\ IsTable(T!Clear(t, i))
           /\ T!Clear(t, i).entries = [t.entries EXCEPT ![i] = T!Cleared]
<1>1. IsEntry(T!Cleared)
  BY DEF IsEntry, T!Cleared
<1> QED
  BY <1>1 DEF IsTable, T!Clear

LEMMA AnswerKeeps ==
    ASSUME RetryInv, NEW r \in Requests, T!Answer(r)
    PROVE  RetryInv'
<1> SUFFICES ASSUME ~meddled' PROVE Charged'
  BY DEF RetryInv
<1>1. PICK i \in T!Slots : /\ table.entries[i].in_use /\ table.entries[i].id = r
                         /\ table' = T!Clear(table, i)
  BY DEF T!Answer
<1>2. Charged /\ UNCHANGED owed /\ status' = [status EXCEPT ![r] = "removed"]
  BY DEF RetryInv, T!Answer
<1>3. IsTable(table') /\ table'.entries = [table.entries EXCEPT ![i] = T!Cleared] /\ IsTable(table)
  BY <1>1, <1>2, ClearIs DEF Charged
<1>4. /\ T!InUse' = T!InUse \ {i} /\ i \in T!InUse
      /\ \A j \in T!InUse' : table'.entries[j] = table.entries[j]
  BY <1>1, <1>3 DEF T!InUse, IsTable, T!Cleared
<1>5. \A j \in T!InUse' : table.entries[j].id # r
  BY <1>1, <1>2, <1>4 DEF Charged
<1> QED
  BY <1>2, <1>3, <1>4, <1>5 DEF Charged

\* The first free slot is there if a slot is free.
LEMMA FreeSlotIs ==
    ASSUME MaxSlots \in Nat, NEW t, \E i \in T!Slots : ~t.entries[i].in_use
    PROVE  T!FreeSlot(t) \in T!Slots /\ ~t.entries[T!FreeSlot(t)].in_use
<1> DEFINE S == {i \in T!Slots : ~t.entries[i].in_use}
<1>1. S \subseteq Nat /\ S # {}
  BY DEF T!Slots
<1>2. PICK m \in S : \A k \in S : m <= k
  <2> HIDE DEF S
  <2> QED
    BY <1>1, LeastElement
<1>3. \A j \in 1..(m - 1) : j \in T!Slots /\ j \notin S
  BY <1>1, <1>2 DEF T!Slots
<1> QED
  BY <1>2, <1>3 DEF T!FreeSlot

LEMMA RegisterKeeps ==
    ASSUME T!RetryAssumption, RetryInv, NEW r \in Requests, T!Register(r)
    PROVE  RetryInv'
<1> SUFFICES ASSUME ~meddled' PROVE Charged'
  BY DEF RetryInv
<1>1. PICK base \in BaseDelays, budget \in Budgets :
        /\ table' = T!rm_table_add(table, r, base, budget)
        /\ owed' = [owed EXCEPT ![r] = budget]
  BY DEF T!Register
<1>2. /\ status[r] = "new" /\ T!Holds(table', r) /\ status' = [status EXCEPT ![r] = "pending"]
      /\ Charged
  BY DEF T!Register, RetryInv
<1> DEFINE i == T!FreeSlot(table)
           new == [in_use |-> TRUE, id |-> r, attempts |-> 0, max |-> budget,
                   base |-> base, wait |-> base]
<1>3. \A j \in T!InUse : table.entries[j].id # r
  BY <1>2 DEF Charged
<1>4. table' # table
  BY <1>2, <1>3 DEF T!Holds, T!InUse
<1>5. /\ i \in T!Slots /\ ~table.entries[i].in_use
      /\ table' = [entries |-> [table.entries EXCEPT ![i] = new], count |-> table.count + 1]
  <2>1. \E j \in T!Slots : ~table.entries[j].in_use
    BY <1>1, <1>4 DEF T!rm_table_add
  <2>2. i \in T!Slots /\ ~table.entries[i].in_use
    BY <2>1, FreeSlotIs DEF T!RetryAssumption
  <2> QED
    BY <1>1, <1>4, <2>2 DEF T!rm_table_add
<1>6. IsEntry(new)
  BY DEF IsEntry, T!RetryAssumption
<1> HIDE DEF i
<1>7. IsTable(table') /\ table'.entries = [table.entries EXCEPT ![i] = new]
  <2> HIDE DEF new
  <2> QED
    BY <1>2, <1>5, <1>6 DEF IsTable, Charged
<1>8. /\ T!InUse' = T!InUse \union {i} /\ i \notin T!InUse /\ table'.entries[i] = new
      /\ \A j \in T!InUse : table'.entries[j] = table.entries[j]
  BY <1>2, <1>5, <1>7 DEF T!InUse, IsTable, Charged
<1>9. /\ owed' \in [Requests -> Int] /\ DOMAIN status' = Requests
      /\ \A q \in Requests : q # r => owed'[q] = owed[q] /\ status'[q] = status[q]
      /\ owed'[r] = budget /\ status'[r] = "pending" /\ budget \in Nat
  <2>1. budget \in Nat
    BY DEF T!RetryAssumption
  <2>2. owed \in [Requests -> Int] /\ DOMAIN status = Requests
    BY <1>2 DEF Charged
  <2> QED
    BY <1>1, <1>2, <2>1, <2>2
<1>10. \A j \in T!InUse : table.entries[j].id \in Requests
  BY <1>2 DEF Charged, IsTable, IsEntry, T!InUse
<1>11. new.id = r /\ new.max = budget /\ new.attempts = 0
  OBVIOUS
<1> HIDE DEF new
<1>12. \A j, k \in T!InUse' : table'.entries[j].id = table'.entries[k].id => j = k
  BY <1>2, <1>3, <1>8, <1>11 DEF Charged
<1>13. \A j \in T!InUse' :
         LET e == table'.entries[j]
         IN  status'[e.id] = "pending" /\ owed'[e.id] = e.max - e.attempts
  <2> SUFFICES ASSUME NEW j \in T!InUse'
               PROVE  LET e == table'.entries[j]
                      IN  status'[e.id] = "pending" /\ owed'[e.id] = e.max - e.attempts
    OBVIOUS
  <2>1. CASE j = i
    <3>1. table'.entries[j] = new
      BY <1>8, <2>1
    <3>2. new.max - new.attempts = budget
      BY <1>9, <1>11
    <3> QED
      BY <1>9, <1>11, <3>1, <3>2
  <2>2. CASE j \in T!InUse
    <3>1. /\ table'.entries[j] = table.entries[j] /\ table.entries[j].id # r
          /\ table.entries[j].id \in Requests
      BY <1>3, <1>8, <1>10, <2>2
    <3>2. /\ status[table.entries[j].id] = "pending"
          /\ owed[table.entries[j].id] = table.entries[j].max - table.entries[j].attempts
      BY <1>2, <2>2 DEF Charged
    <3> QED
      BY <1>9, <3>1, <3>2
  <2> QED
    BY <1>8, <2>1, <2>2
<1>14. \A q \in Requests : status'[q] = "expired" => owed'[q] = 0
  BY <1>2, <1>9 DEF Charged
<1> QED
  BY <1>7, <1>9, <1>12, <1>13, <1>14 DEF Charged

LEMMA ClockKeeps ==
    ASSUME RetryInv, T!ClockTick
    PROVE  RetryInv'
<1> SUFFICES ASSUME ~meddled' PROVE Charged'
  BY DEF RetryInv
<1>1. Charged /\ UNCHANGED <<owed, status>>
  BY DEF RetryInv, T!ClockTick
<1> DEFINE E == [i \in T!Slots |-> IF table.entries[i].wait > 0
                                 THEN [table.entries[i] EXCEPT !.wait = @ - 1]
                                 ELSE table.entries[i]]
<1>2. table' = [entries |-> E, count |-> table.count]
  <2>1. table = [entries |-> table.entries, count |-> table.count]
    BY <1>1 DEF Charged, IsTable
  <2>2. table' = [table EXCEPT !.entries = E]
    BY DEF T!ClockTick
  <2> HIDE DEF E
  <2> QED
    BY <2>1, <2>2
<1>3. \A i \in T!Slots : /\ IsEntry(E[i]) /\ E[i].in_use = table.entries[i].in_use
                       /\ E[i].id = table.entries[i].id /\ E[i].max = table.entries[i].max
                       /\ E[i].attempts = table.entries[i].attempts
  <2> SUFFICES ASSUME NEW i \in T!Slots
               PROVE  /\ IsEntry(E[i]) /\ E[i].in_use = table.entries[i].in_use
                      /\ E[i].id = table.entries[i].id /\ E[i].max = table.entries[i].max
                      /\ E[i].attempts = table.entries[i].attempts
    OBVIOUS
  <2> DEFINE e == table.entries[i]
  <2>1. IsEntry(e) /\ E[i] = IF e.wait > 0 THEN [e EXCEPT !.wait = @ - 1] ELSE e
    BY <1>1 DEF Charged, IsTable
  <2> HIDE DEF e
  <2> DEFINE w == e.wait - 1
             f == [e EXCEPT !.wait = w]
  <2> HIDE DEF w
  <2>2. f = [in_use |-> e.in_use, id |-> e.id, attempts |-> e.attempts, max |-> e.max,
             base |-> e.base, wait |-> w]
    BY <2>1 DEF IsEntry
  <2>3. /\ IsEntry(f) /\ f.in_use = e.in_use /\ f.id = e.id /\ f.max = e.max
        /\ f.attempts = e.attempts
    <3> HIDE DEF f
    <3> QED
      BY <2>1, <2>2 DEF IsEntry
  <2>4. E[i] \in {e, f}
    BY <2>1 DEF w
  <2> HIDE DEF E, f
  <2> QED
    BY <2>1, <2>3, <2>4 DEF e
<1>4. IsTable(table') /\ table'.entries = E /\ T!InUse' = T!InUse /\ T!InUse \subseteq T!Slots
  BY <1>2, <1>3 DEF IsTable, T!InUse
<1> HIDE DEF E
<1>5. \A i, j \in T!InUse' : table'.entries[i].id = table'.entries[j].id => i = j
  BY <1>1, <1>3, <1>4 DEF Charged
<1>6. \A i \in T!InUse' :
        LET e == table'.entries[i]
        IN  status'[e.id] = "pending" /\ owed'[e.id] = e.max - e.attempts
  BY <1>1, <1>3, <1>4 DEF Charged
<1> QED
  BY <1>1, <1>4, <1>5, <1>6 DEF Charged

LEMMA RetryNext ==
    ASSUME T!RetryAssumption, RetryInv, [T!Next]_(T!vars)
    PROVE  RetryInv'
<1>1. MaxSlots \in Nat
  BY DEF T!RetryAssumption
<1>2. CASE UNCHANGED T!vars
  BY <1>2 DEF RetryInv, Charged, T!InUse, T!vars
<1> QED
  BY <1>1, <1>2, TickKeeps, AnswerKeeps, RegisterKeeps, ClockKeeps DEF T!Next

LEMMA RetrySpends == ASSUME T!RetryAssumption PROVE T!Spec => []T!BudgetIsSpent
<1>1. RetryInv => T!BudgetIsSpent
  BY DEF RetryInv, Charged, T!BudgetIsSpent
<1>2. RetryInv /\ [T!Next]_(T!vars) => RetryInv'
  BY RetryNext
<1> QED
  BY <1>1, <1>2, RetryInit, PTL DEF T!Spec

-----------------------------------------------------------------------------
(* The replay buffer: its queues, and the inductive invariant.              *)

Stamps == FrameTimes \union {0}
Queues == Seq(FrameTimes)
Both == [video : Queues, audio : Queues]

\* A queue whose timestamps go up to the newest one.
Rising(q, top) ==
    /\ \A k \in 1..Len(q) : q[k] <= top
    /\ \A j, k \in 1..Len(q) : j <= k => q[j] <= q[k]

FramesIn(v) == Len(v.video) + Len(v.audio)

\* In what is held no age is over the duration, and oldest is before all video.
Trimmed(v, first, top) ==
    /\ \A k \in 1..Len(v.video) : top - v.video[k] <= Duration /\ first <= v.video[k]
    /\ \A k \in 1..Len(v.audio) : top - v.audio[k] <= Duration

Counted ==
    /\ queue \in Both /\ oldest \in Stamps /\ newest \in Stamps /\ disorder \in BOOLEAN
    /\ adding \in [P!Producers -> {"idle", "age", "limit"}]
    /\ \A p, q \in P!Producers : adding[p] # "idle" /\ adding[q] # "idle" => p = q
    /\ total = FramesIn(queue)
    /\ FramesIn(queue) <= Memory + 1
    /\ P!NoAdd => FramesIn(queue) <= Memory
    /\ ~disorder => /\ Rising(queue.video, newest) /\ Rising(queue.audio, newest)
                    /\ oldest <= newest
                    /\ (\A p \in P!Producers : adding[p] # "age") => Trimmed(queue, oldest, newest)

ReplayInv == raced \/ Counted

LEMMA Producing == \A f \in Both : /\ f["video"] = f.video /\ f["audio"] = f.audio
                                   /\ \A p \in P!Producers : f[p] \in Queues
                                   /\ Len(f.video) \in Nat /\ Len(f.audio) \in Nat
                                   /\ f = [video |-> f.video, audio |-> f.audio]
BY DEF Both, P!Producers, Queues

LEMMA Replaced ==
    ASSUME NEW r \in Both, NEW x \in Queues
    PROVE  /\ [r EXCEPT !["video"] = x] = [video |-> x, audio |-> r.audio]
           /\ [r EXCEPT !["audio"] = x] = [video |-> r.video, audio |-> x]
<1>1. /\ [r EXCEPT !["video"] = x] = [r EXCEPT !.video = x]
      /\ [r EXCEPT !["audio"] = x] = [r EXCEPT !.audio = x]
  OBVIOUS
<1> QED
  BY <1>1 DEF Both

LEMMA ReplayBounds ==
    ASSUME P!ReplayAssumption
    PROVE  /\ Wrap \in Nat /\ Memory \in Nat /\ Duration \in Nat /\ Memory + 1 < Wrap
           /\ \A t \in FrameTimes : t \in Nat /\ t < Wrap
           /\ \A t \in Stamps : t \in Nat /\ t < Wrap
BY DEF P!ReplayAssumption, Stamps

LEMMA Ages ==
    ASSUME P!ReplayAssumption, NEW a \in Stamps, NEW b \in Stamps, b <= a
    PROVE  P!Minus(a, b) = a - b
BY DEF P!ReplayAssumption, Stamps, P!Minus

LEMMA Counts ==
    ASSUME P!ReplayAssumption, NEW a \in Nat, NEW b \in Nat, b <= a, a <= Memory + 1
    PROVE  P!Minus(a, b) = a - b
BY DEF P!ReplayAssumption, P!Minus

LEMMA Drops ==
    ASSUME NEW q \in Queues, NEW d \in 0..Len(q)
    PROVE  /\ P!Drop(q, d) \in Queues /\ Len(P!Drop(q, d)) = Len(q) - d
           /\ \A k \in 1..(Len(q) - d) : P!Drop(q, d)[k] = q[k + d] /\ k + d \in 1..Len(q)
BY DEF P!Drop, Queues

LEMMA Youngs ==
    ASSUME NEW q \in Queues
    PROVE  \E d \in 0..Len(q) : /\ P!Young(q) = P!Drop(q, d)
                                /\ \A k \in 1..d : P!Old(q[k])
                                /\ d < Len(q) => ~P!Old(q[d + 1])
<1> DEFINE young == {k \in 1..Len(q) : ~P!Old(q[k])}
<1>1. Len(q) \in Nat /\ young \subseteq Nat
  BY DEF Queues
<1>2. CASE young = {}
  <2>1. P!Young(q) = P!Drop(q, Len(q))
    <3>1. P!Drop(q, Len(q)) = <<>>
      BY DEF P!Drop, Queues
    <3> QED
      BY <1>2, <3>1 DEF P!Young
  <2> QED
    BY <1>1, <1>2, <2>1
<1>3. CASE young # {}
  <2> DEFINE m == CHOOSE k \in young : \A j \in young : k <= j
  <2>1. m \in young /\ \A j \in young : m <= j
    <3> HIDE DEF young
    <3> QED
      BY <1>1, <1>3, LeastElement
  <2>2. P!Young(q) = P!Drop(q, m - 1)
    BY <1>3 DEF P!Young
  <2> HIDE DEF m
  <2>3. m - 1 \in 0..Len(q) /\ m - 1 + 1 = m
    BY <1>1, <2>1
  <2>4. \A k \in 1..(m - 1) : k \in 1..Len(q) /\ k \notin young
    BY <1>1, <2>1
  <2> QED
    BY <2>1, <2>2, <2>3, <2>4
<1> QED
  BY <1>2, <1>3

LEMMA DropRises ==
    ASSUME NEW q \in Queues, NEW d \in 0..Len(q), NEW top, Rising(q, top)
    PROVE  Rising(P!Drop(q, d), top)
<1>1. Len(q) \in Nat
  BY DEF Queues
<1> DEFINE r == P!Drop(q, d)
<1>2. Len(r) = Len(q) - d /\ \A k \in 1..(Len(q) - d) : r[k] = q[k + d] /\ k + d \in 1..Len(q)
  BY Drops
<1> HIDE DEF r
<1>3. \A j, k \in 1..Len(r) : j <= k => j + d <= k + d
  BY <1>1, <1>2
<1> QED
  BY <1>1, <1>2, <1>3 DEF Rising, r

\* What is left of a rising queue when what is too old is gone.
LEMMA YoungOnly ==
    ASSUME P!ReplayAssumption, newest \in Stamps, NEW q \in Queues, Rising(q, newest)
    PROVE  /\ \A k \in 1..Len(P!Young(q)) : newest - P!Young(q)[k] <= Duration
           /\ \A k \in 1..Len(q) : newest - q[k] <= Duration =>
                \E j \in 1..Len(P!Young(q)) : P!Young(q)[j] = q[k]
<1>1. PICK d \in 0..Len(q) : /\ P!Young(q) = P!Drop(q, d)
                             /\ \A k \in 1..d : P!Old(q[k])
                             /\ d < Len(q) => ~P!Old(q[d + 1])
  BY Youngs
<1>2. Len(q) \in Nat /\ \A k \in 1..Len(q) : q[k] \in Stamps /\ q[k] \in Int
  <2>1. Len(q) \in Nat /\ \A k \in 1..Len(q) : q[k] \in FrameTimes
    BY DEF Queues
  <2> QED
    BY <2>1, ReplayBounds DEF Stamps
<1>3. \A k \in 1..Len(q) : P!Old(q[k]) <=> newest - q[k] > Duration
  BY <1>2, Ages DEF P!Old, Rising
<1> DEFINE r == P!Drop(q, d)
<1>4. Len(r) = Len(q) - d /\ \A k \in 1..(Len(q) - d) : r[k] = q[k + d] /\ k + d \in 1..Len(q)
  BY Drops
<1> HIDE DEF r
<1>5. newest \in Int /\ Duration \in Nat
  BY DEF Stamps, P!ReplayAssumption
<1>6. ASSUME NEW k \in 1..Len(r) PROVE newest - r[k] <= Duration
  <2>1. r[k] = q[k + d] /\ k + d \in 1..Len(q) /\ d + 1 \in 1..Len(q) /\ d + 1 <= k + d
    BY <1>2, <1>4
  <2>2. newest - q[d + 1] <= Duration /\ q[d + 1] <= q[k + d]
    BY <1>1, <1>2, <1>3, <1>5, <2>1 DEF Rising
  <2> QED
    BY <1>2, <1>5, <2>1, <2>2
<1>7. ASSUME NEW k \in 1..Len(q), newest - q[k] <= Duration
      PROVE  \E j \in 1..Len(r) : r[j] = q[k]
  <2>1. ~P!Old(q[k])
    BY <1>2, <1>3, <1>5, <1>7
  <2>2. d < k /\ k - d \in 1..Len(r) /\ k - d + d = k
    BY <1>1, <1>2, <1>4, <2>1
  <2> QED
    BY <1>4, <2>2
<1> QED
  BY <1>1, <1>6, <1>7 DEF r

-----------------------------------------------------------------------------
(* The replay buffer: its steps.                                           *)

LEMMA ReplayInit == ASSUME P!ReplayAssumption, P!Init PROVE ReplayInv
<1>1. queue \in Both /\ FramesIn(queue) = 0
  BY DEF P!Init, P!Nothing, Both, Queues, FramesIn
<1>2. queue.video = <<>> /\ queue.audio = <<>>
  BY DEF P!Init, P!Nothing
<1>3. oldest \in Stamps /\ newest \in Stamps /\ oldest <= newest /\ total = 0
  BY DEF P!Init, Stamps
<1>d. disorder \in BOOLEAN
  BY DEF P!Init
<1>4. /\ adding \in [P!Producers -> {"idle", "age", "limit"}]
      /\ \A p, q \in P!Producers : adding[p] # "idle" /\ adding[q] # "idle" => p = q
  BY DEF P!Init
<1>5. Rising(queue.video, newest) /\ Rising(queue.audio, newest) /\ Trimmed(queue, oldest, newest)
  BY <1>2 DEF Rising, Trimmed
<1> QED
  BY <1>1, <1>3, <1>d, <1>4, <1>5, ReplayBounds DEF ReplayInv, Counted

LEMMA AddKeeps ==
    ASSUME P!ReplayAssumption, ReplayInv, NEW p \in P!Producers, NEW t \in FrameTimes, P!Add(p, t)
    PROVE  ReplayInv'
<1> SUFFICES ASSUME ~raced' PROVE Counted'
  BY DEF ReplayInv
<1>1. /\ Counted /\ \A q \in P!Producers : adding[q] = "idle"
      /\ adding' = [adding EXCEPT ![p] = "age"]
      /\ queue' = [queue EXCEPT ![p] = Append(@, t)]
      /\ total' = (total + 1) % Wrap
      /\ newest' = t /\ disorder' = (disorder \/ t < newest) /\ oldest' = oldest
  BY DEF P!Add, ReplayInv
<1>2. P!NoAdd /\ FramesIn(queue) <= Memory /\ total = FramesIn(queue)
  BY <1>1 DEF Counted, P!NoAdd
<1> DEFINE v == queue.video
           a == queue.audio
<1>3. /\ v \in Queues /\ a \in Queues /\ Len(v) \in Nat /\ Len(a) \in Nat
      /\ queue = [video |-> v, audio |-> a]
  BY <1>1, Producing DEF Counted, Both
<1>4. \A q \in Queues : /\ Append(q, t) \in Queues /\ Len(Append(q, t)) = Len(q) + 1
                        /\ \A k \in 1..Len(q) : Append(q, t)[k] = q[k]
                        /\ Append(q, t)[Len(q) + 1] = t
  BY DEF Queues
<1>5. queue' = IF p = "video" THEN [video |-> Append(v, t), audio |-> a]
               ELSE [video |-> v, audio |-> Append(a, t)]
  <2>1. queue' = [queue EXCEPT ![p] = Append(queue[p], t)] /\ queue["video"] = v /\ queue["audio"] = a
    BY <1>1
  <2>2. Append(v, t) \in Queues /\ Append(a, t) \in Queues
    BY <1>3, <1>4
  <2>3. queue \in Both
    BY <1>1 DEF Counted
  <2>4. CASE p = "video"
    <3>1. queue' = [queue EXCEPT !["video"] = Append(v, t)]
      BY <2>1, <2>4
    <3> QED
      BY <2>2, <2>3, <2>4, <3>1, Replaced
  <2>5. CASE p = "audio"
    <3>1. queue' = [queue EXCEPT !["audio"] = Append(a, t)]
      BY <2>1, <2>5
    <3> QED
      BY <2>2, <2>3, <2>5, <3>1, Replaced
  <2> QED
    BY <2>4, <2>5 DEF P!Producers
<1> HIDE DEF v, a
<1>6. queue' \in Both /\ FramesIn(queue') = FramesIn(queue) + 1
  BY <1>3, <1>5, <1>4 DEF Both, FramesIn, v, a
<1>7. total' = FramesIn(queue') /\ FramesIn(queue') <= Memory + 1 /\ FramesIn(queue') \in Nat
  <2>1. FramesIn(queue) \in Nat
    BY <1>3 DEF FramesIn, v, a
  <2>2. FramesIn(queue) + 1 \in 0..(Wrap - 1)
    BY <1>2, <2>1 DEF P!ReplayAssumption
  <2>3. (FramesIn(queue) + 1) % Wrap = FramesIn(queue) + 1
    BY <2>2 DEF P!ReplayAssumption
  <2> QED
    BY <1>1, <1>2, <1>6, <2>1, <2>3 DEF P!ReplayAssumption
<1>8. /\ adding' \in [P!Producers -> {"idle", "age", "limit"}]
      /\ \A q, r \in P!Producers : adding'[q] # "idle" /\ adding'[r] # "idle" => q = r
      /\ ~P!NoAdd' /\ adding'[p] = "age"
  BY <1>1 DEF Counted, P!NoAdd
<1>9. oldest' \in Stamps /\ newest' \in Stamps /\ disorder' \in BOOLEAN
  BY <1>1 DEF Counted, Stamps
<1>10. ASSUME ~disorder'
       PROVE  Rising(queue.video, newest)' /\ Rising(queue.audio, newest)' /\ oldest' <= newest'
  <2>1. /\ newest <= t /\ Rising(v, newest) /\ Rising(a, newest) /\ oldest <= newest
        /\ newest \in Int /\ t \in Int /\ oldest \in Int
    <3>1. ~disorder /\ ~(t < newest)
      BY <1>1, <1>10
    <3>2. newest \in Int /\ t \in Int /\ oldest \in Int
      BY <1>1, ReplayBounds DEF Counted
    <3>3. Rising(v, newest) /\ Rising(a, newest) /\ oldest <= newest
      BY <1>1, <3>1 DEF Counted, v, a
    <3> QED
      BY <3>1, <3>2, <3>3
  <2>2. ASSUME NEW q \in Queues, Rising(q, newest)
        PROVE  Rising(q, t) /\ Rising(Append(q, t), t)
    <3>1. Len(q) \in Nat /\ \A k \in 1..Len(q) : q[k] \in Int /\ q[k] <= newest
      <4>1. Len(q) \in Nat /\ \A k \in 1..Len(q) : q[k] \in FrameTimes
        BY DEF Queues
      <4>2. \A k \in 1..Len(q) : q[k] <= newest
        BY <2>2 DEF Rising
      <4> QED
        BY <4>1, <4>2, ReplayBounds
    <3>2. \A k \in 1..Len(q) : q[k] <= t
      BY <2>1, <3>1
    <3>3. Rising(q, t)
      BY <2>2, <3>2 DEF Rising
    <3> DEFINE r == Append(q, t)
    <3>4. /\ Len(r) = Len(q) + 1 /\ \A k \in 1..Len(q) : r[k] = q[k]
          /\ r[Len(q) + 1] = t
      BY <1>4
    <3> HIDE DEF r
    <3>5. \A k \in 1..Len(r) : k \in 1..Len(q) \/ k = Len(q) + 1
      BY <3>1, <3>4
    <3>6. \A k \in 1..Len(r) : r[k] <= t
      BY <2>1, <3>2, <3>4, <3>5
    <3>7. \A j, k \in 1..Len(r) : j <= k => r[j] <= r[k]
      <4> SUFFICES ASSUME NEW j \in 1..Len(r), NEW k \in 1..Len(r), j <= k PROVE r[j] <= r[k]
        OBVIOUS
      <4>1. CASE k = Len(q) + 1
        BY <3>4, <3>6, <4>1
      <4>2. CASE k \in 1..Len(q)
        <5>1. j \in 1..Len(q)
          BY <3>1, <4>2
        <5> QED
          BY <2>2, <3>4, <4>2, <5>1 DEF Rising
      <4> QED
        BY <3>5, <4>1, <4>2
    <3> QED
      BY <3>3, <3>6, <3>7 DEF Rising, r
  <2>3. queue'.video \in {v, Append(v, t)} /\ queue'.audio \in {a, Append(a, t)}
    BY <1>5
  <2> QED
    BY <1>1, <1>3, <2>1, <2>2, <2>3
<1> QED
  BY <1>6, <1>7, <1>8, <1>9, <1>10 DEF Counted

LEMMA CleanupKeeps ==
    ASSUME P!ReplayAssumption, ReplayInv, NEW p \in P!Producers, P!cleanup_old_frames(p)
    PROVE  ReplayInv'
<1> SUFFICES ASSUME ~raced' PROVE Counted'
  BY DEF ReplayInv
<1> DEFINE v == queue.video
           a == queue.audio
<1>1. /\ Counted /\ adding[p] = "age"
      /\ queue' = [q \in P!Producers |-> P!Young(queue[q])]
      /\ total' = P!Minus(total, P!Held - Len(queue'.video) - Len(queue'.audio))
      /\ oldest' = CASE queue'.video # <<>> -> queue'.video[1]
                     [] queue'.video = <<>> /\ queue'.audio # <<>> -> queue'.audio[1]
                     [] OTHER -> oldest
      /\ adding' = [adding EXCEPT ![p] = "limit"]
      /\ UNCHANGED <<newest, disorder>>
  BY DEF P!cleanup_old_frames, ReplayInv
<1>2. v \in Queues /\ a \in Queues /\ Len(v) \in Nat /\ Len(a) \in Nat /\ total = Len(v) + Len(a)
  BY <1>1, Producing DEF Counted, Both, FramesIn
<1>3. queue' = [video |-> P!Young(v), audio |-> P!Young(a)]
  BY <1>1, Producing DEF Counted, P!Producers
<1>4. PICK d \in 0..Len(v) : P!Young(v) = P!Drop(v, d)
  BY <1>2, Youngs
<1>5. PICK e \in 0..Len(a) : P!Young(a) = P!Drop(a, e)
  BY <1>2, Youngs
<1>6. /\ P!Young(v) \in Queues /\ Len(P!Young(v)) = Len(v) - d
      /\ P!Young(a) \in Queues /\ Len(P!Young(a)) = Len(a) - e
  BY <1>2, <1>4, <1>5, Drops
<1>7. queue'.video = P!Young(v) /\ queue'.audio = P!Young(a) /\ queue' \in Both
  BY <1>3, <1>6 DEF Both
<1>8. /\ total' = FramesIn(queue') /\ FramesIn(queue') <= Memory + 1
  <2>1. P!Held - Len(queue'.video) - Len(queue'.audio) = d + e /\ d + e \in Nat
    <3>1. P!Held = Len(v) + Len(a)
      BY DEF P!Held
    <3>2. Len(queue'.video) = Len(v) - d /\ Len(queue'.audio) = Len(a) - e
      BY <1>6, <1>7
    <3> HIDE DEF v, a
    <3> QED
      BY <1>2, <3>1, <3>2
  <2>2. d + e <= total /\ total <= Memory + 1 /\ total \in Nat
    <3>1. total <= Memory + 1
      BY <1>1 DEF Counted
    <3> HIDE DEF v, a
    <3> QED
      BY <1>2, <3>1
  <2>3. total' = total - (d + e)
    BY <1>1, <2>1, <2>2, Counts
  <2> QED
    <3>1. FramesIn(queue') = Len(v) - d + (Len(a) - e)
      BY <1>6, <1>7 DEF FramesIn
    <3>2. Memory \in Nat
      BY ReplayBounds
    <3> HIDE DEF v, a
    <3> QED
      BY <1>2, <2>2, <2>3, <3>1, <3>2
<1>9. /\ adding' \in [P!Producers -> {"idle", "age", "limit"}]
      /\ \A q, r \in P!Producers : adding'[q] # "idle" /\ adding'[r] # "idle" => q = r
      /\ ~P!NoAdd'
  BY <1>1 DEF Counted, P!NoAdd
<1> HIDE DEF v, a
<1>10. /\ \A k \in 1..Len(P!Young(v)) : P!Young(v)[k] \in FrameTimes
       /\ \A k \in 1..Len(P!Young(a)) : P!Young(a)[k] \in FrameTimes
       /\ P!Young(v) # <<>> => 1 \in 1..Len(P!Young(v))
       /\ P!Young(a) # <<>> => 1 \in 1..Len(P!Young(a))
  BY <1>6 DEF Queues
<1>11. oldest' \in Stamps /\ newest' \in Stamps /\ disorder' \in BOOLEAN
  <2>1. oldest' \in {P!Young(v)[1], P!Young(a)[1], oldest}
    BY <1>1, <1>7
  <2> QED
    BY <1>1, <1>7, <1>10 DEF Counted, Stamps
<1>12. ASSUME ~disorder'
       PROVE  /\ Rising(queue.video, newest)' /\ Rising(queue.audio, newest)' /\ oldest' <= newest'
              /\ Trimmed(queue, oldest, newest)'
  <2>1. Rising(v, newest) /\ Rising(a, newest) /\ oldest <= newest /\ newest \in Stamps
    BY <1>1, <1>12 DEF Counted, v, a
  <2>2. Rising(P!Young(v), newest) /\ Rising(P!Young(a), newest)
    BY <1>2, <1>4, <1>5, <2>1, DropRises DEF v, a
  <2>3. /\ \A k \in 1..Len(P!Young(v)) : newest - P!Young(v)[k] <= Duration
        /\ \A k \in 1..Len(P!Young(a)) : newest - P!Young(a)[k] <= Duration
    BY <1>2, <2>1, YoungOnly DEF v, a
  <2>4. oldest' <= newest
    BY <1>1, <1>7, <1>10, <2>1, <2>2 DEF Rising
  <2>5. \A k \in 1..Len(P!Young(v)) : oldest' <= P!Young(v)[k]
    <3> SUFFICES ASSUME NEW k \in 1..Len(P!Young(v)) PROVE oldest' <= P!Young(v)[k]
      OBVIOUS
    <3>1. P!Young(v) # <<>> /\ 1 <= k /\ 1 \in 1..Len(P!Young(v))
      BY <1>10
    <3>2. oldest' = P!Young(v)[1]
      BY <1>1, <1>7, <3>1
    <3> QED
      BY <2>2, <3>1, <3>2 DEF Rising
  <2> QED
    BY <1>1, <1>7, <2>2, <2>3, <2>4, <2>5 DEF Trimmed
<1> QED
  BY <1>7, <1>8, <1>9, <1>11, <1>12 DEF Counted

LEMMA LimitKeeps ==
    ASSUME P!ReplayAssumption, ReplayInv, NEW p \in P!Producers, P!enforce_memory_limit(p)
    PROVE  ReplayInv'
<1> SUFFICES ASSUME ~raced' PROVE Counted'
  BY DEF ReplayInv
<1> DEFINE v == queue.video
           a == queue.audio
           over == IF total > Memory THEN total - Memory ELSE 0
           d == P!Least(over, Len(v))
           e == P!Least(over - d, Len(a))
<1>1. /\ Counted /\ adding[p] = "limit"
      /\ queue' = [video |-> P!Drop(v, d), audio |-> P!Drop(a, e)]
      /\ total' = P!Minus(total, d + e)
      /\ adding' = [adding EXCEPT ![p] = "idle"]
      /\ UNCHANGED <<newest, oldest, disorder>>
  BY DEF P!enforce_memory_limit, ReplayInv
<1>2. v \in Queues /\ a \in Queues /\ Len(v) \in Nat /\ Len(a) \in Nat /\ total = Len(v) + Len(a)
  BY <1>1, Producing DEF Counted, Both, FramesIn
<1>3. d \in 0..Len(v) /\ e \in 0..Len(a) /\ d + e = over
  <2>1. total \in Nat /\ Memory \in Nat /\ over \in Nat /\ over <= total
    <3>1. total \in Nat /\ Memory \in Nat
      <4> HIDE DEF v, a
      <4> QED
        BY <1>2, ReplayBounds
    <3> QED
      BY <3>1
  <2> HIDE DEF over, v, a
  <2>2. d \in 0..Len(v) /\ d <= over /\ (d = over \/ d = Len(v))
    BY <1>2, <2>1 DEF P!Least
  <2> HIDE DEF d
  <2>3. e \in 0..Len(a) /\ (e = over - d \/ e = Len(a)) /\ e <= over - d
    BY <1>2, <2>1, <2>2 DEF P!Least
  <2> HIDE DEF e
  <2> QED
    BY <1>2, <2>1, <2>2, <2>3
<1> HIDE DEF d, e
<1>4. /\ P!Drop(v, d) \in Queues /\ Len(P!Drop(v, d)) = Len(v) - d
      /\ P!Drop(a, e) \in Queues /\ Len(P!Drop(a, e)) = Len(a) - e
  BY <1>2, <1>3, Drops
<1>5. queue'.video = P!Drop(v, d) /\ queue'.audio = P!Drop(a, e) /\ queue' \in Both
  BY <1>1, <1>4 DEF Both
<1>6. total' = FramesIn(queue') /\ FramesIn(queue') <= Memory /\ FramesIn(queue') <= Memory + 1
  <2>1. total \in Nat /\ total <= Memory + 1 /\ d + e \in Nat /\ d + e <= total /\ Memory \in Nat
    <3>1. total <= Memory + 1 /\ Memory \in Nat
      BY <1>1, ReplayBounds DEF Counted
    <3>2. total \in Nat /\ d + e \in Nat
      <4> HIDE DEF v, a, over
      <4> QED
        BY <1>2, <1>3
    <3>3. over <= total
      BY <3>1, <3>2
    <3> QED
      BY <1>3, <3>1, <3>2, <3>3
  <2>2. total' = total - (d + e)
    BY <1>1, <2>1, Counts
  <2>3. FramesIn(queue') = Len(v) - d + (Len(a) - e)
    BY <1>4, <1>5 DEF FramesIn
  <2> QED
    <3>1. total - over <= Memory
      BY <2>1
    <3>2. FramesIn(queue') = total - (d + e)
      <4> HIDE DEF v, a
      <4> QED
        BY <1>2, <1>3, <2>3
    <3> HIDE DEF over
    <3> QED
      BY <1>3, <2>1, <2>2, <3>1, <3>2
<1>7. /\ adding' \in [P!Producers -> {"idle", "age", "limit"}]
      /\ \A q, r \in P!Producers : adding'[q] # "idle" /\ adding'[r] # "idle" => q = r
      /\ \A q \in P!Producers : adding[q] # "age"
  BY <1>1 DEF Counted
<1>8. oldest' \in Stamps /\ newest' \in Stamps /\ disorder' \in BOOLEAN
  BY <1>1 DEF Counted
<1> HIDE DEF v, a
<1>9. ASSUME ~disorder'
      PROVE  /\ Rising(queue.video, newest)' /\ Rising(queue.audio, newest)' /\ oldest' <= newest'
             /\ Trimmed(queue, oldest, newest)'
  <2>1. /\ Rising(v, newest) /\ Rising(a, newest) /\ oldest <= newest
        /\ Trimmed(queue, oldest, newest)
    BY <1>1, <1>7, <1>9 DEF Counted, v, a
  <2>2. Rising(P!Drop(v, d), newest) /\ Rising(P!Drop(a, e), newest)
    BY <1>2, <1>3, <2>1, DropRises
  <2>3. /\ \A k \in 1..Len(P!Drop(v, d)) : newest - P!Drop(v, d)[k] <= Duration
                                             /\ oldest <= P!Drop(v, d)[k]
        /\ \A k \in 1..Len(P!Drop(a, e)) : newest - P!Drop(a, e)[k] <= Duration
    <3>1. /\ \A k \in 1..Len(v) : newest - v[k] <= Duration /\ oldest <= v[k]
          /\ \A k \in 1..Len(a) : newest - a[k] <= Duration
      BY <2>1 DEF Trimmed, v, a
    <3>2. \A k \in 1..Len(P!Drop(v, d)) : P!Drop(v, d)[k] = v[k + d] /\ k + d \in 1..Len(v)
      BY <1>2, <1>3, Drops
    <3>3. \A k \in 1..Len(P!Drop(a, e)) : P!Drop(a, e)[k] = a[k + e] /\ k + e \in 1..Len(a)
      BY <1>2, <1>3, Drops
    <3> QED
      BY <3>1, <3>2, <3>3
  <2> QED
    BY <1>1, <1>5, <2>1, <2>2, <2>3 DEF Trimmed
<1> QED
  BY <1>5, <1>6, <1>7, <1>8, <1>9 DEF Counted

LEMMA ClearKeeps ==
    ASSUME P!ReplayAssumption, ReplayInv, P!replay_buffer_clear
    PROVE  ReplayInv'
<1> SUFFICES ASSUME ~raced' PROVE Counted'
  BY DEF ReplayInv
<1>1. /\ Counted /\ queue' = P!Nothing /\ total' = 0 /\ oldest' = 0 /\ newest' = 0
      /\ UNCHANGED <<adding, disorder>>
  BY DEF P!replay_buffer_clear, ReplayInv
<1>2. queue' \in Both /\ FramesIn(queue') = 0 /\ queue'.video = <<>> /\ queue'.audio = <<>>
  BY <1>1 DEF P!Nothing, Both, Queues, FramesIn
<1> QED
  BY <1>1, <1>2 DEF Counted, Stamps, P!ReplayAssumption, Rising, Trimmed

LEMMA ReplayNext ==
    ASSUME P!ReplayAssumption, ReplayInv, [P!Next]_(P!vars)
    PROVE  ReplayInv'
<1>1. CASE UNCHANGED P!vars
  BY <1>1 DEF ReplayInv, Counted, P!NoAdd, P!vars
<1> QED
  BY <1>1, AddKeeps, CleanupKeeps, LimitKeeps, ClearKeeps DEF P!Next

LEMMA ReplayInvariance == ASSUME P!ReplayAssumption PROVE P!Spec => []ReplayInv
<1>1. P!Init => ReplayInv
  BY ReplayInit
<1>2. ReplayInv /\ [P!Next]_(P!vars) => ReplayInv'
  BY ReplayNext
<1> QED
  BY <1>1, <1>2, PTL DEF P!Spec

LEMMA ReplayCounts == ASSUME P!ReplayAssumption PROVE P!Spec => []P!MemoryIsCounted
<1>1. ReplayInv => P!MemoryIsCounted
  <2> SUFFICES ASSUME Counted, P!NoAdd
               PROVE  /\ total = P!Held /\ P!Held <= Memory
                      /\ disorder \/ \A p \in P!Producers : \A k \in 1..Len(queue[p]) :
                                        newest - queue[p][k] <= Duration
    BY DEF ReplayInv, P!MemoryIsCounted
  <2>1. P!Held = FramesIn(queue)
    BY DEF P!Held, FramesIn
  <2>2. disorder \/ Trimmed(queue, oldest, newest)
    BY DEF Counted, P!NoAdd
  <2> QED
    BY <2>1, <2>2, Producing DEF Counted, Trimmed, P!Producers
<1> QED
  BY <1>1, ReplayInvariance, PTL

LEMMA ReplaySaves == ASSUME P!ReplayAssumption PROVE P!Spec => []P!SaveIsComplete
<1>1. ReplayInv => P!SaveIsComplete
  <2> SUFFICES ASSUME Counted, P!NoAdd, ~disorder
               PROVE  /\ P!replay_buffer_save(0) = 1..Len(queue.video)
                      /\ \A d \in 1..newest :
                            P!replay_buffer_save(d) =
                               {k \in 1..Len(queue.video) : newest - queue.video[k] <= d}
    BY DEF ReplayInv, P!SaveIsComplete
  <2>1. /\ newest \in Stamps /\ oldest \in Stamps /\ oldest <= newest /\ newest \in Int /\ oldest \in Int
        /\ Trimmed(queue, oldest, newest) /\ queue.video \in Queues
    BY Producing DEF Counted, P!NoAdd, Stamps, P!ReplayAssumption, Both
  <2>2. \A k \in 1..Len(queue.video) : queue.video[k] \in Int
    BY <2>1, ReplayBounds DEF Queues
  <2>3. P!Cutoff(0) = oldest
    <3>1. P!Minus(newest, oldest) = newest - oldest
      BY <2>1, Ages
    <3>2. newest - oldest \in 0..newest /\ newest \in 0..(Wrap - 1)
      BY <2>1 DEF Stamps, P!ReplayAssumption
    <3>3. P!Minus(newest, newest - oldest) = oldest
      BY <2>1, <3>2 DEF P!Minus, P!ReplayAssumption
    <3> QED
      BY <3>1, <3>3 DEF P!Cutoff
  <2>4. P!replay_buffer_save(0) = 1..Len(queue.video)
    BY <2>1, <2>3 DEF P!replay_buffer_save, Trimmed
  <2>5. ASSUME NEW d \in 1..newest
        PROVE  P!replay_buffer_save(d) =
                 {k \in 1..Len(queue.video) : newest - queue.video[k] <= d}
    <3>1. P!Cutoff(d) = newest - d
      <4>1. d # 0 /\ newest \in 0..(Wrap - 1) /\ newest - d \in 0..(Wrap - 1)
        BY <2>1 DEF Stamps, P!ReplayAssumption
      <4> QED
        BY <4>1 DEF P!Cutoff, P!Minus, P!ReplayAssumption
    <3>2. \A k \in 1..Len(queue.video) : queue.video[k] >= newest - d <=> newest - queue.video[k] <= d
      BY <2>1, <2>2
    <3> QED
      BY <3>1, <3>2 DEF P!replay_buffer_save
  <2> QED
    BY <2>4, <2>5
<1> QED
  BY <1>1, ReplayInvariance, PTL

\* A step that may give up a young frame is one of those the property excuses.
LEMMA YoungKept ==
    ASSUME P!ReplayAssumption, ReplayInv, [P!Next]_(P!vars), ~disorder, ~raced, ~raced',
           ~(total > Memory /\ \E p \in P!Producers : adding[p] = "limit"),
           ~(queue' = P!Nothing /\ newest' = 0),
           NEW k \in 1..Len(queue.video), newest - queue.video[k] <= Duration
    PROVE  \E j \in 1..Len(queue'.video) : queue'.video[j] = queue.video[k]
<1>1. Counted /\ queue.video \in Queues /\ queue["video"] = queue.video /\ queue \in Both
  BY Producing DEF ReplayInv, Counted, Both
<1>2. ASSUME NEW p \in P!Producers, NEW t \in FrameTimes, P!Add(p, t)
      PROVE  k \in 1..Len(queue'.video) /\ queue'.video[k] = queue.video[k]
  <2>1. queue'.video \in {queue.video, Append(queue.video, t)}
    BY <1>1, <1>2 DEF P!Add, Both, P!Producers
  <2> QED
    BY <1>1, <2>1 DEF Queues
<1>3. ASSUME NEW p \in P!Producers, P!cleanup_old_frames(p)
      PROVE  \E j \in 1..Len(queue'.video) : queue'.video[j] = queue.video[k]
  <2>1. queue'.video = P!Young(queue.video)
    BY <1>1, <1>3 DEF P!cleanup_old_frames, P!Producers
  <2>2. Rising(queue.video, newest) /\ newest \in Stamps
    BY <1>1 DEF Counted
  <2> QED
    BY <1>1, <2>1, <2>2, YoungOnly
<1>4. ASSUME NEW p \in P!Producers, P!enforce_memory_limit(p)
      PROVE  queue'.video = queue.video
  <2>1. total <= Memory /\ total \in Nat /\ Memory \in Nat
    <3>1. ~(total > Memory) /\ Memory \in Nat
      BY <1>4, ReplayBounds DEF P!enforce_memory_limit
    <3>2. total = FramesIn(queue) /\ FramesIn(queue) \in Nat
      <4>1. Len(queue.video) \in Nat /\ Len(queue.audio) \in Nat
        BY <1>1, Producing
      <4>2. FramesIn(queue) \in Nat
        <5> DEFINE m == Len(queue.video)
                   n == Len(queue.audio)
        <5>1. FramesIn(queue) = m + n /\ m \in Nat /\ n \in Nat
          BY <4>1 DEF FramesIn
        <5> HIDE DEF m, n
        <5> QED
          BY <5>1
      <4>3. total = FramesIn(queue)
        BY <1>1, <1>4 DEF Counted, P!enforce_memory_limit
      <4> QED
        BY <4>2, <4>3
    <3> QED
      BY <3>1, <3>2
  <2>2. P!Least(0, Len(queue.video)) = 0 /\ Len(queue.video) \in Nat
    BY <1>1 DEF P!Least, Queues
  <2>3. queue'.video = P!Drop(queue.video, 0)
    BY <1>4, <2>1, <2>2 DEF P!enforce_memory_limit
  <2> QED
    BY <1>1, <2>3 DEF P!Drop, Queues
<1>5. CASE P!replay_buffer_clear
  BY <1>5 DEF P!replay_buffer_clear
<1>6. CASE UNCHANGED P!vars
  BY <1>6 DEF P!vars
<1> QED
  BY <1>2, <1>3, <1>4, <1>5, <1>6 DEF P!Next

LEMMA ReplayKeepsYoung == ASSUME P!ReplayAssumption PROVE P!Spec => P!YoungStay
<1>1. ReplayInv /\ [P!Next]_(P!vars) =>
        [\/ disorder \/ raced \/ raced'
         \/ total > Memory /\ \E p \in P!Producers : adding[p] = "limit"
         \/ queue' = P!Nothing /\ newest' = 0
         \/ \A k \in 1..Len(queue.video) :
               newest - queue.video[k] <= Duration =>
                  \E j \in 1..Len(queue'.video) : queue'.video[j] = queue.video[k]]_(P!vars)
  BY YoungKept
<1> QED
  BY <1>1, ReplayInvariance, PTL DEF P!Spec, P!YoungStay

-----------------------------------------------------------------------------
(* The parts side by side.                                                 *)

\* The behaviours of a part that stays as it was created, or is the one that moves.
LEMMA ReorderMoves == AllSpec => R!Spec
<1>1. AllInit => R!Init
  BY DEF AllInit
<1>2. [AllNext]_allVars => [R!Next]_(R!vars)
  BY DEF AllNext, allVars, reorderVars, R!vars
<1> QED
  BY <1>1, <1>2, PTL DEF AllSpec, R!Spec

LEMMA RetryMoves == AllSpec => T!Spec
<1>1. AllInit => T!Init
  BY DEF AllInit
<1>2. [AllNext]_allVars => [T!Next]_(T!vars)
  BY DEF AllNext, allVars, retryVars, T!vars
<1> QED
  BY <1>1, <1>2, PTL DEF AllSpec, T!Spec

LEMMA ReplayMoves == AllSpec => P!Spec
<1>1. AllInit => P!Init
  BY DEF AllInit
<1>2. [AllNext]_allVars => [P!Next]_(P!vars)
  BY DEF AllNext, allVars, replayVars, P!vars
<1> QED
  BY <1>1, <1>2, PTL DEF AllSpec, P!Spec

LEMMA Assumed == R!ReorderAssumption /\ T!RetryAssumption /\ P!ReplayAssumption
BY PartsAssumption

\* DeliveredOnce: the reorder buffer hands a packet to the callback once and then
\* no longer holds it, unless the network repeats it, however many packets, slots
\* and sequence numbers there are and whatever is held too long.
THEOREM DeliveriesAreSingle == AllSpec => []DeliveredOnce
<1>1. R!Spec => []DeliveredOnce
  BY Assumed, ReorderSingle DEF DeliveredOnce
<1> QED
  BY <1>1, ReorderMoves, PTL

\* NoGaps: as long as no packet is held too long, the reorder buffer delivers the
\* packets in order and without a gap, over any number of rounds of sequence numbers.
THEOREM NoneIsSkipped == AllSpec => []NoGaps
<1>1. R!Spec => []NoGaps
  BY Assumed, ReorderInTurn DEF NoGaps
<1> QED
  BY <1>1, ReorderMoves, PTL

\* BudgetIsSpent: a request is given up only after the callback was called for it as
\* often as its budget says, and a slot says what is left, as long as no callback has
\* changed the table, whatever its size, the budgets and the delays.
THEOREM BudgetsAreSpent == AllSpec => []BudgetIsSpent
<1>1. T!Spec => []BudgetIsSpent
  BY Assumed, RetrySpends DEF BudgetIsSpent
<1> QED
  BY <1>1, RetryMoves, PTL

\* MemoryIsCounted: between adds the replay buffer's counter is what its queues hold,
\* within the limits of memory and of age, for any limits and timestamps.
THEOREM MemoryCounts == AllSpec => []MemoryIsCounted
<1>1. P!Spec => []MemoryIsCounted
  BY Assumed, ReplayCounts DEF MemoryIsCounted
<1> QED
  BY <1>1, ReplayMoves, PTL

\* SaveIsComplete: a save writes exactly the frames of the seconds asked for.
THEOREM SavesAreComplete == AllSpec => []SaveIsComplete
<1>1. P!Spec => []SaveIsComplete
  BY Assumed, ReplaySaves DEF SaveIsComplete
<1> QED
  BY <1>1, ReplayMoves, PTL

\* YoungStay: a step gives up a frame that is young enough only for want of memory,
\* by a clear, or after a timestamp that ran backwards.
THEOREM YoungFramesStay == AllSpec => YoungStay
<1>1. P!Spec => YoungStay
  BY Assumed, ReplayKeepsYoung DEF YoungStay
<1> QED
  BY <1>1, ReplayMoves, PTL
=============================================================================
