--------------------------- MODULE PeerTable_proofs ---------------------------
(* The table of peers, for any number of addresses, slots and allocations.  *)
(*                                                                          *)
(* Most functions are mild: they leave every entry its reconnection record  *)
(* and its video buffer and touch the state of one entry only.  The proofs  *)
(* show that once, function by function, and what a table owns is kept by   *)
(* the few that are not: adding, growing a buffer, freeing one, removing.   *)
EXTENDS PeerTable, FiniteSetTheorems, SequenceTheorems, TLAPS

Tables == [peers : Seq(Entry), live : SUBSET Allocs, late : BOOLEAN]

\* OwnedOnce, of a table and the live allocations, one field at a time.
Owns(p, l) ==
    /\ \A s, r \in 1..Len(p), f, g \in Fields :
          p[s][f] = p[r][g] /\ p[s][f] # None => s = r /\ f = g
    /\ \A s \in 1..Len(p), f \in Fields : p[s][f] # None => p[s][f] \in l
    /\ \A x \in l : \E s \in 1..Len(p), f \in Fields : p[s][f] = x

Good(t) == t \in Tables /\ Owns(t.peers, t.live)

\* From t to u only entry s changes its state, and unless TCP is waited for every
\* peer that was heard still counts as heard.
Mild(t, u, s) ==
    /\ Good(u) /\ Len(u.peers) = Len(t.peers)
    /\ \A r \in 1..Len(t.peers) : /\ u.peers[r].rx = t.peers[r].rx
                                  /\ u.peers[r].reconnect = t.peers[r].reconnect
                                  /\ r # s => u.peers[r].state = t.peers[r].state
    /\ \/ u.late = TRUE
       \/ u.late = t.late /\ \A r \in 1..Len(t.peers) : u.peers[r].heard = t.peers[r].heard

-----------------------------------------------------------------------------
\* Entries and sequences.

LEMMA Constants ==
    /\ None \notin Allocs /\ Allocs \subseteq Nat
    /\ \A e \in Entry, f \in Fields : e[f] \in Allocs \cup {None}
    /\ \A e \in Entry : /\ e.reconnect = e["reconnect"] /\ e.tcp = e["tcp"] /\ e.rx = e["rx"]
                        /\ e.state \in States /\ e.heard \in BOOLEAN
BY DEF None, Allocs, Entry, Fields

LEMMA PutEntry ==
    ASSUME NEW p \in Seq(Entry), NEW s \in 1..Len(p), NEW e \in Entry
    PROVE  /\ [p EXCEPT ![s] = e] \in Seq(Entry) /\ Len([p EXCEPT ![s] = e]) = Len(p)
           /\ [p EXCEPT ![s] = e][s] = e
           /\ \A r \in 1..Len(p) : r # s => [p EXCEPT ![s] = e][r] = p[r]
OBVIOUS

LEMMA EntriesOf ==
    ASSUME NEW t \in Tables
    PROVE  /\ t.peers \in Seq(Entry) /\ Len(t.peers) \in Nat /\ t.live \subseteq Allocs
           /\ \A s \in 1..Len(t.peers) : t.peers[s] \in Entry
<1>1. t.peers \in Seq(Entry) /\ t.live \subseteq Allocs
  BY DEF Tables
<1> QED
  BY <1>1

\* The first index of a set of them.
LEMMA LeastIsIn ==
    ASSUME NEW S \in SUBSET Nat, S # {}
    PROVE  Least(S) \in S
<1> DEFINE R == StrictSubsetOrdering(Nat)
           F == FiniteSubsetsOf(Nat)
           T == {0..k : k \in S}
<1>1. IsWellFoundedOn(R, F)
  BY FS_StrictSubsetOrderingWellFounded
<1>2. T \subseteq F /\ T # {}
  <2>1. \A k \in S : IsFiniteSet(0..k)
    BY FS_Interval
  <2>2. \A k \in S : 0..k \subseteq Nat
    OBVIOUS
  <2>3. T \subseteq F
    BY <2>1, <2>2 DEF FiniteSubsetsOf
  <2>4. PICK k \in S : TRUE
    OBVIOUS
  <2>5. 0..k \in T
    OBVIOUS
  <2> QED
    BY <2>3, <2>5
<1>3. PICK x \in T : \A y \in T : ~ (<<y, x>> \in R)
  <2> HIDE DEF R, F, T
  <2> QED
    BY <1>1, <1>2, WFMin
<1>4. PICK m \in S : x = 0..m
  OBVIOUS
<1>5. ASSUME NEW k \in S, k < m PROVE FALSE
  <2>1. 0..k \subseteq 0..m /\ 0..k # 0..m
    <3>1. m \in 0..m /\ m \notin 0..k
      BY <1>5
    <3> QED
      BY <1>5, <3>1
  <2>2. <<0..k, x>> \in R
    BY <1>4, <2>1 DEF StrictSubsetOrdering
  <2> QED
    BY <1>3, <2>2
<1>6. \A k \in S : m <= k
  BY <1>5
<1> QED
  BY <1>6 DEF Least

LEMMA FreshIsFree == ASSUME NEW t \in Tables, CanAlloc(t) PROVE Fresh(t) \in Allocs \ t.live
<1>1. Allocs \ t.live \in SUBSET Nat /\ Allocs \ t.live # {}
  BY Constants DEF CanAlloc
<1>2. Fresh(t) = Least(Allocs \ t.live)
  BY DEF Fresh, Least
<1> QED
  BY <1>1, <1>2, LeastIsIn

-----------------------------------------------------------------------------
\* The mild functions.

LEMMA MildRefl == ASSUME NEW t, Good(t), NEW s PROVE Mild(t, t, s)
BY DEF Mild

LEMMA MildTrans ==
    ASSUME NEW t, NEW u, NEW v, NEW s, Mild(t, u, s), Mild(u, v, s)
    PROVE  Mild(t, v, s)
BY DEF Mild

\* What a table owns depends on the allocations of its entries only.
LEMMA SameFields ==
    ASSUME NEW p, NEW q, NEW l, Len(q) = Len(p), Owns(p, l),
           \A r \in 1..Len(p), f \in Fields : q[r][f] = p[r][f]
    PROVE  Owns(q, l)
<1>1. ASSUME NEW s \in 1..Len(q), NEW r \in 1..Len(q), NEW f \in Fields, NEW g \in Fields,
             q[s][f] = q[r][g], q[s][f] # None
      PROVE  s = r /\ f = g
  BY <1>1 DEF Owns
<1>2. ASSUME NEW s \in 1..Len(q), NEW f \in Fields, q[s][f] # None PROVE q[s][f] \in l
  BY <1>2 DEF Owns
<1>3. ASSUME NEW x \in l PROVE \E s \in 1..Len(q), f \in Fields : q[s][f] = x
  <2>1. PICK s \in 1..Len(p), f \in Fields : p[s][f] = x
    BY DEF Owns
  <2> QED
    BY <2>1
<1> QED
  BY <1>1, <1>2, <1>3 DEF Owns

\* A step that changes nothing an entry owns.
LEMMA PlainMild ==
    ASSUME NEW t, Good(t), NEW s \in 1..Len(t.peers), NEW e \in Entry,
           e.rx = t.peers[s].rx, e.tcp = t.peers[s].tcp, e.reconnect = t.peers[s].reconnect,
           e.heard = t.peers[s].heard
    PROVE  Mild(t, [t EXCEPT !.peers[s] = e], s)
<1> DEFINE q == [t.peers EXCEPT ![s] = e]
           u == [t EXCEPT !.peers[s] = e]
<1>1. /\ t \in Tables /\ t.peers \in Seq(Entry) /\ t.live \subseteq Allocs /\ t.late \in BOOLEAN
      /\ \A r \in 1..Len(t.peers) : t.peers[r] \in Entry
  BY EntriesOf DEF Good, Tables
<1>2. /\ q \in Seq(Entry) /\ Len(q) = Len(t.peers) /\ q[s] = e
      /\ \A r \in 1..Len(t.peers) : r # s => q[r] = t.peers[r]
  BY <1>1, PutEntry
<1>3. u = [t EXCEPT !.peers = q]
  BY <1>1 DEF Tables
<1> HIDE DEF q
<1>4. u \in Tables /\ u.peers = q /\ u.live = t.live /\ u.late = t.late
  BY <1>1, <1>2, <1>3 DEF Tables
<1>5. \A r \in 1..Len(t.peers), f \in Fields : q[r][f] = t.peers[r][f]
  <2>1. \A f \in Fields : e[f] = t.peers[s][f]
    BY <1>1, Constants DEF Fields
  <2> QED
    BY <1>2, <2>1
<1>6. Owns(q, t.live)
  BY <1>2, <1>5, SameFields DEF Good
<1> HIDE DEF u
<1>7. Good(u) /\ Len(u.peers) = Len(t.peers)
  BY <1>2, <1>4, <1>6 DEF Good
<1>8. \A r \in 1..Len(t.peers) : /\ q[r].rx = t.peers[r].rx
                                 /\ q[r].reconnect = t.peers[r].reconnect
                                 /\ q[r].heard = t.peers[r].heard
                                 /\ r # s => q[r].state = t.peers[r].state
  BY <1>2
<1>9. \A r \in 1..Len(t.peers) : /\ u.peers[r].rx = t.peers[r].rx
                                 /\ u.peers[r].reconnect = t.peers[r].reconnect
                                 /\ u.peers[r].heard = t.peers[r].heard
                                 /\ r # s => u.peers[r].state = t.peers[r].state
  BY <1>4, <1>8
<1>10. Mild(t, u, s)
  BY <1>4, <1>7, <1>9 DEF Mild
<1> QED
  BY <1>10 DEF u

LEMMA StateMild ==
    ASSUME NEW t, Good(t), NEW s \in 1..Len(t.peers), NEW x \in States
    PROVE  Mild(t, [t EXCEPT !.peers[s].state = x], s)
<1> DEFINE e == [t.peers[s] EXCEPT !.state = x]
<1>1. t \in Tables /\ t.peers[s] \in Entry
  BY EntriesOf DEF Good
<1>2. /\ e \in Entry /\ e.rx = t.peers[s].rx /\ e.tcp = t.peers[s].tcp
      /\ e.reconnect = t.peers[s].reconnect /\ e.heard = t.peers[s].heard
  BY <1>1 DEF Entry
<1>3. [t EXCEPT !.peers[s].state = x] = [t EXCEPT !.peers[s] = e]
  BY <1>1, EntriesOf DEF Tables
<1> HIDE DEF e
<1> QED
  BY <1>2, <1>3, PlainMild

LEMMA UdpMild ==
    ASSUME NEW t, Good(t), NEW s \in 1..Len(t.peers)
    PROVE  Mild(t, [t EXCEPT !.peers[s].udp = TRUE,
                             !.peers[s].state = IF @ \in {"HANDSHAKE_RECEIVED", "CONNECTED"} THEN @
                                                ELSE "HANDSHAKE_SENT"], s)
<1> DEFINE x == IF t.peers[s].state \in {"HANDSHAKE_RECEIVED", "CONNECTED"} THEN t.peers[s].state
                ELSE "HANDSHAKE_SENT"
           e == [t.peers[s] EXCEPT !.udp = TRUE, !.state = x]
<1>1. t \in Tables /\ t.peers[s] \in Entry /\ t.peers \in Seq(Entry)
  BY EntriesOf DEF Good
<1>2. /\ e \in Entry /\ e.rx = t.peers[s].rx /\ e.tcp = t.peers[s].tcp
      /\ e.reconnect = t.peers[s].reconnect /\ e.heard = t.peers[s].heard
  BY <1>1 DEF Entry, States
<1>3. [t EXCEPT !.peers[s].udp = TRUE,
                !.peers[s].state = IF @ \in {"HANDSHAKE_RECEIVED", "CONNECTED"} THEN @
                                   ELSE "HANDSHAKE_SENT"] = [t EXCEPT !.peers[s] = e]
  BY <1>1 DEF Tables, Entry
<1> HIDE DEF e
<1> QED
  BY <1>2, <1>3, PlainMild

LEMMA WaitedMild ==
    ASSUME NEW t, Good(t), NEW s
    PROVE  Mild(t, Waited(t), s)
<1> DEFINE q == [r \in 1..Len(t.peers) |-> [t.peers[r] EXCEPT !.heard = FALSE]]
<1>1. /\ t \in Tables /\ Len(t.peers) \in Nat /\ t.live \subseteq Allocs
      /\ \A r \in 1..Len(t.peers) : t.peers[r] \in Entry
  BY EntriesOf DEF Good
<1>2. \A r \in 1..Len(t.peers) :
         /\ q[r] \in Entry /\ q[r].rx = t.peers[r].rx /\ q[r].tcp = t.peers[r].tcp
         /\ q[r].reconnect = t.peers[r].reconnect /\ q[r].state = t.peers[r].state
  BY <1>1 DEF Entry
<1>3. q \in Seq(Entry) /\ Len(q) = Len(t.peers)
  <2>1. q \in [1..Len(t.peers) -> Entry]
    BY <1>2
  <2> HIDE DEF q
  <2> QED
    BY <1>1, <2>1
<1>4. Waited(t) = [t EXCEPT !.late = TRUE, !.peers = q]
  BY DEF Waited
<1> HIDE DEF q
<1>5. /\ Waited(t) \in Tables /\ Waited(t).peers = q /\ Waited(t).live = t.live
      /\ Waited(t).late = TRUE
  BY <1>1, <1>3, <1>4 DEF Tables
<1>6. \A r \in 1..Len(t.peers), f \in Fields : q[r][f] = t.peers[r][f]
  BY <1>1, <1>2, Constants DEF Fields
<1>7. Owns(q, t.live)
  BY <1>3, <1>6, SameFields DEF Good
<1>8. Good(Waited(t)) /\ Len(Waited(t).peers) = Len(t.peers)
  BY <1>3, <1>5, <1>7 DEF Good
<1> QED
  BY <1>2, <1>5, <1>8 DEF Mild

-----------------------------------------------------------------------------
\* The functions that change what an entry owns.

\* Entry s gets v, which nothing owns, or None in the place of an allocation.
LEMMA PutField ==
    ASSUME NEW p, NEW q, NEW l \in SUBSET Allocs, NEW s \in 1..Len(p), NEW f \in Fields, NEW v,
           Owns(p, l), Len(q) = Len(p), v \notin l, q[s][f] = v,
           \A r \in 1..Len(p), g \in Fields : r # s \/ g # f => q[r][g] = p[r][g]
    PROVE  Owns(q, (l \cup ({v} \ {None})) \ {p[s][f]})
<1> DEFINE m == (l \cup ({v} \ {None})) \ {p[s][f]}
<1>0. None \notin l
  BY Constants
<1>1. ASSUME NEW r \in 1..Len(q), NEW t \in 1..Len(q), NEW g \in Fields, NEW h \in Fields,
             q[r][g] = q[t][h], q[r][g] # None
      PROVE  r = t /\ g = h
  <2>1. CASE (r # s \/ g # f) /\ (t # s \/ h # f)
    BY <1>1, <2>1 DEF Owns
  <2>2. CASE r = s /\ g = f /\ (t # s \/ h # f)
    BY <1>1, <2>2 DEF Owns
  <2>3. CASE (r # s \/ g # f) /\ t = s /\ h = f
    BY <1>1, <2>3 DEF Owns
  <2> QED
    BY <2>1, <2>2, <2>3
<1>2. ASSUME NEW r \in 1..Len(q), NEW g \in Fields, q[r][g] # None PROVE q[r][g] \in m
  <2>1. CASE r = s /\ g = f
    <3>1. v # p[s][f]
      BY <1>2, <2>1 DEF Owns
    <3> QED
      BY <1>2, <2>1, <3>1
  <2>2. CASE r # s \/ g # f
    <3>1. p[r][g] \in l /\ p[r][g] # p[s][f]
      BY <1>2, <2>2 DEF Owns
    <3> QED
      BY <2>2, <3>1
  <2> QED
    BY <2>1, <2>2
<1>3. ASSUME NEW x \in m PROVE \E r \in 1..Len(q), g \in Fields : q[r][g] = x
  <2>1. CASE x = v
    BY <2>1
  <2>2. CASE x \in l
    <3>1. PICK r \in 1..Len(p), g \in Fields : p[r][g] = x
      BY <2>2 DEF Owns
    <3>2. r # s \/ g # f
      BY <3>1
    <3> QED
      BY <3>1, <3>2
  <2> QED
    BY <2>1, <2>2
<1> HIDE DEF m
<1>4. Owns(q, m)
  BY <1>1, <1>2, <1>3 DEF Owns
<1> QED
  BY <1>4 DEF m

\* A new entry owns at most v, its reconnection record.
LEMMA AppendField ==
    ASSUME NEW p, NEW q, NEW l \in SUBSET Allocs, NEW v, Len(p) \in Nat,
           Owns(p, l), Len(q) = Len(p) + 1, v \notin l,
           \A r \in 1..Len(p), g \in Fields : q[r][g] = p[r][g],
           \A g \in Fields : q[Len(p) + 1][g] = IF g = "reconnect" THEN v ELSE None
    PROVE  Owns(q, l \cup ({v} \ {None}))
<1> DEFINE m == l \cup ({v} \ {None})
           last == Len(p) + 1
<1>0. None \notin l /\ "reconnect" \in Fields
  BY Constants DEF Fields
<1>1. ASSUME NEW r \in 1..Len(q), NEW t \in 1..Len(q), NEW g \in Fields, NEW h \in Fields,
             q[r][g] = q[t][h], q[r][g] # None
      PROVE  r = t /\ g = h
  <2>1. CASE r \in 1..Len(p) /\ t \in 1..Len(p)
    BY <1>1, <2>1 DEF Owns
  <2>2. CASE r = last /\ t = last
    BY <1>1, <2>2
  <2>3. CASE r = last /\ t \in 1..Len(p)
    <3>1. q[r][g] = v /\ p[t][h] \in l
      BY <1>1, <2>3 DEF Owns
    <3> QED
      BY <1>1, <2>3, <3>1
  <2>4. CASE r \in 1..Len(p) /\ t = last
    <3>1. q[t][h] = v /\ p[r][g] \in l
      BY <1>1, <2>4 DEF Owns
    <3> QED
      BY <1>1, <2>4, <3>1
  <2> QED
    BY <2>1, <2>2, <2>3, <2>4
<1>2. ASSUME NEW r \in 1..Len(q), NEW g \in Fields, q[r][g] # None PROVE q[r][g] \in m
  <2>1. CASE r \in 1..Len(p)
    BY <1>2, <2>1 DEF Owns
  <2>2. CASE r = last
    BY <1>2, <2>2
  <2> QED
    BY <2>1, <2>2
<1>3. ASSUME NEW x \in m PROVE \E r \in 1..Len(q), g \in Fields : q[r][g] = x
  <2>1. CASE x = v
    BY <1>0, <2>1
  <2>2. CASE x \in l
    <3>1. PICK r \in 1..Len(p), g \in Fields : p[r][g] = x
      BY <2>2 DEF Owns
    <3> QED
      BY <3>1
  <2> QED
    BY <2>1, <2>2
<1> HIDE DEF m
<1>4. Owns(q, m)
  BY <1>1, <1>2, <1>3 DEF Owns
<1> QED
  BY <1>4 DEF m

LEMMA RemoveEntry ==
    ASSUME NEW p \in Seq(Entry), NEW s \in 1..Len(p)
    PROVE  /\ RemoveAt(p, s) \in Seq(Entry)
           /\ Len(RemoveAt(p, s)) = Len(p) - 1
           /\ \A r \in 1..(s - 1) : RemoveAt(p, s)[r] = p[r]
           /\ \A r \in s..(Len(p) - 1) : RemoveAt(p, s)[r] = p[r + 1]
<1> DEFINE a == SubSeq(p, 1, s - 1)
           b == SubSeq(p, s + 1, Len(p))
<1>1. /\ a \in Seq(Entry) /\ Len(a) = s - 1
      /\ \A r \in 1..(s - 1) : a[r] = p[r]
  <2>1. \A k \in 1..(s - 1) : k \in 1..Len(p)
    OBVIOUS
  <2>2. /\ SubSeq(p, 1, s - 1) \in Seq(Entry)
        /\ Len(SubSeq(p, 1, s - 1)) = IF 1 <= s - 1 THEN (s - 1) - 1 + 1 ELSE 0
        /\ \A k \in 1..((s - 1) - 1 + 1) : SubSeq(p, 1, s - 1)[k] = p[1 + k - 1]
    BY <2>1, SubSeqProperties
  <2> QED
    BY <2>2
<1>2. /\ b \in Seq(Entry) /\ Len(b) = Len(p) - s
      /\ \A r \in 1..(Len(p) - s) : b[r] = p[s + r]
  <2>1. \A k \in (s + 1)..Len(p) : k \in 1..Len(p)
    OBVIOUS
  <2>2. /\ SubSeq(p, s + 1, Len(p)) \in Seq(Entry)
        /\ Len(SubSeq(p, s + 1, Len(p))) = IF s + 1 <= Len(p) THEN Len(p) - (s + 1) + 1 ELSE 0
        /\ \A k \in 1..(Len(p) - (s + 1) + 1) : SubSeq(p, s + 1, Len(p))[k] = p[(s + 1) + k - 1]
    BY <2>1, SubSeqProperties
  <2> QED
    BY <2>2
<1>3. RemoveAt(p, s) = a \o b
  BY DEF RemoveAt
<1> HIDE DEF a, b
<1>4. /\ a \o b \in Seq(Entry) /\ Len(a \o b) = Len(p) - 1
      /\ \A r \in 1..(Len(p) - 1) : (a \o b)[r] = IF r <= s - 1 THEN a[r] ELSE b[r - (s - 1)]
  BY <1>1, <1>2, ConcatProperties
<1>5. ASSUME NEW r \in s..(Len(p) - 1) PROVE (a \o b)[r] = p[r + 1]
  <2>1. (a \o b)[r] = b[r - (s - 1)]
    BY <1>4
  <2> QED
    BY <1>2, <2>1
<1>6. \A r \in 1..(s - 1) : (a \o b)[r] = p[r]
  BY <1>1, <1>4
<1> QED
  BY <1>3, <1>4, <1>5, <1>6

LEMMA RemovedOwns ==
    ASSUME NEW p, NEW q, NEW l \in SUBSET Allocs, Len(p) \in Nat, NEW s \in 1..Len(p),
           Owns(p, l), Len(q) = Len(p) - 1,
           \A r \in 1..(s - 1) : q[r] = p[r],
           \A r \in s..(Len(p) - 1) : q[r] = p[r + 1]
    PROVE  Owns(q, l \ {p[s][f] : f \in Fields})
<1> DEFINE m == l \ {p[s][f] : f \in Fields}
           from(r) == IF r < s THEN r ELSE r + 1
<1>1. \A r \in 1..Len(q) : from(r) \in 1..Len(p) /\ from(r) # s /\ q[r] = p[from(r)]
  OBVIOUS
<1>2. \A r, t \in 1..Len(q) : from(r) = from(t) => r = t
  OBVIOUS
<1>3. \A r \in 1..Len(p) : r # s => \E t \in 1..Len(q) : from(t) = r
  <2> SUFFICES ASSUME NEW r \in 1..Len(p), r # s PROVE \E t \in 1..Len(q) : from(t) = r
    OBVIOUS
  <2>1. CASE r < s
    BY <2>1
  <2>2. CASE r > s
    <3>1. r - 1 \in 1..Len(q) /\ from(r - 1) = r
      BY <2>2
    <3> QED
      BY <3>1
  <2> QED
    BY <2>1, <2>2
<1> HIDE DEF from, m
<1>4. ASSUME NEW r \in 1..Len(q), NEW t \in 1..Len(q), NEW g \in Fields, NEW h \in Fields,
             q[r][g] = q[t][h], q[r][g] # None
      PROVE  r = t /\ g = h
  <2>1. from(r) = from(t) /\ g = h
    BY <1>1, <1>4 DEF Owns
  <2> QED
    BY <1>2, <2>1
<1>5. ASSUME NEW r \in 1..Len(q), NEW g \in Fields, q[r][g] # None PROVE q[r][g] \in m
  <2>1. q[r][g] \in l /\ \A f \in Fields : q[r][g] # p[s][f]
    BY <1>1, <1>5 DEF Owns
  <2> QED
    BY <2>1 DEF m
<1>6. ASSUME NEW x \in m PROVE \E r \in 1..Len(q), g \in Fields : q[r][g] = x
  <2>1. x \in l /\ \A f \in Fields : x # p[s][f]
    BY DEF m
  <2>2. PICK r \in 1..Len(p), g \in Fields : p[r][g] = x
    BY <2>1 DEF Owns
  <2>3. r # s
    BY <2>1, <2>2
  <2>4. PICK t \in 1..Len(q) : from(t) = r
    BY <1>3, <2>3
  <2> QED
    BY <1>1, <2>2, <2>4
<1>7. Owns(q, m)
  BY <1>4, <1>5, <1>6 DEF Owns
<1> QED
  BY <1>7 DEF m

-----------------------------------------------------------------------------
\* One entry is replaced.

Replaced(p, s, e) == [p EXCEPT ![s] = e]
Put(t, s, e, m) == [t EXCEPT !.peers = Replaced(t.peers, s, e), !.live = m]

\* Entry s of u is e, and the rest is as in t.
PutIn(t, u, s, e) ==
    /\ Good(u) /\ Len(u.peers) = Len(t.peers) /\ u.late = t.late /\ u.peers[s] = e
    /\ \A r \in 1..Len(t.peers) : r # s => u.peers[r] = t.peers[r]

LEMMA PutGood ==
    ASSUME NEW t, Good(t), NEW s \in 1..Len(t.peers), NEW e \in Entry, NEW m \in SUBSET Allocs,
           Owns(Replaced(t.peers, s, e), m)
    PROVE  PutIn(t, Put(t, s, e, m), s, e)
<1> DEFINE q == Replaced(t.peers, s, e)
           u == Put(t, s, e, m)
<1>1. t \in Tables /\ t.peers \in Seq(Entry)
  BY EntriesOf DEF Good
<1>2. /\ q \in Seq(Entry) /\ Len(q) = Len(t.peers) /\ q[s] = e
      /\ \A r \in 1..Len(t.peers) : r # s => q[r] = t.peers[r]
  BY <1>1, PutEntry DEF Replaced
<1>3. u = [t EXCEPT !.peers = q, !.live = m]
  BY DEF Put
<1> HIDE DEF q, u
<1>4. u \in Tables /\ u.peers = q /\ u.live = m /\ u.late = t.late
  BY <1>1, <1>2, <1>3 DEF Tables
<1>5. Owns(q, m)
  BY DEF q
<1>6. PutIn(t, u, s, e)
  BY <1>2, <1>4, <1>5 DEF Good, PutIn
<1> QED
  BY <1>6 DEF u

\* One allocation of an entry is replaced by a fresh one or by nothing.
Swapped(t, s, f, v) == (t.live \cup ({v} \ {None})) \ {t.peers[s][f]}

LEMMA PutFieldGood ==
    ASSUME NEW t, Good(t), NEW s \in 1..Len(t.peers), NEW f \in Fields, NEW v, NEW e \in Entry,
           v = None \/ v \in Allocs \ t.live, e[f] = v,
           \A g \in Fields : g # f => e[g] = t.peers[s][g]
    PROVE  PutIn(t, Put(t, s, e, Swapped(t, s, f, v)), s, e)
<1> DEFINE q == Replaced(t.peers, s, e)
           m == Swapped(t, s, f, v)
<1>1. /\ t \in Tables /\ t.peers \in Seq(Entry) /\ t.live \in SUBSET Allocs
      /\ Owns(t.peers, t.live)
  BY EntriesOf DEF Good
<1>2. /\ Len(q) = Len(t.peers) /\ q[s] = e
      /\ \A r \in 1..Len(t.peers) : r # s => q[r] = t.peers[r]
  BY <1>1, PutEntry DEF Replaced
<1>3. v \notin t.live /\ m \in SUBSET Allocs
  BY <1>1, Constants DEF Swapped
<1> HIDE DEF q
<1>4. /\ q[s][f] = v
      /\ \A r \in 1..Len(t.peers), g \in Fields : r # s \/ g # f => q[r][g] = t.peers[r][g]
  BY <1>2
<1>5. Owns(q, m)
  BY <1>1, <1>2, <1>3, <1>4, PutField DEF Swapped
<1> HIDE DEF m
<1>6. PutIn(t, Put(t, s, e, m), s, e)
  BY <1>3, <1>5, PutGood DEF q
<1> QED
  BY <1>6 DEF m

\* Nothing an entry owns changes.
LEMMA PutSame ==
    ASSUME NEW t, Good(t), NEW s \in 1..Len(t.peers), NEW e \in Entry,
           e.rx = t.peers[s].rx, e.tcp = t.peers[s].tcp, e.reconnect = t.peers[s].reconnect
    PROVE  PutIn(t, Put(t, s, e, t.live), s, e)
<1> DEFINE q == Replaced(t.peers, s, e)
<1>1. /\ t \in Tables /\ t.peers \in Seq(Entry) /\ t.live \in SUBSET Allocs
      /\ Owns(t.peers, t.live)
      /\ \A r \in 1..Len(t.peers) : t.peers[r] \in Entry
  BY EntriesOf DEF Good
<1>2. /\ Len(q) = Len(t.peers) /\ q[s] = e
      /\ \A r \in 1..Len(t.peers) : r # s => q[r] = t.peers[r]
  BY <1>1, PutEntry DEF Replaced
<1> HIDE DEF q
<1>3. \A f \in Fields : e[f] = t.peers[s][f]
  BY <1>1, Constants DEF Fields
<1>4. \A r \in 1..Len(t.peers), f \in Fields : q[r][f] = t.peers[r][f]
  BY <1>2, <1>3
<1>5. Owns(q, t.live)
  BY <1>1, <1>2, <1>4, SameFields
<1> QED
  BY <1>1, <1>5, PutGood DEF q

LEMMA TcpMild ==
    ASSUME NEW t, Good(t), NEW s \in 1..Len(t.peers), CanAlloc(t)
    PROVE  Mild(t, TcpConnected(t, s), s)
<1> DEFINE v == Fresh(t)
           e == [t.peers[s] EXCEPT !.tcp = v, !.udp = FALSE]
           u == Put(t, s, e, Swapped(t, s, "tcp", v))
<1>1. t \in Tables /\ t.peers \in Seq(Entry) /\ t.peers[s] \in Entry
  BY EntriesOf DEF Good
<1>2. v \in Allocs \ t.live /\ v # None
  BY <1>1, FreshIsFree, Constants
<1> HIDE DEF v
<1>3. /\ e \in Entry /\ e["tcp"] = v /\ e.rx = t.peers[s].rx /\ e.reconnect = t.peers[s].reconnect
      /\ e.heard = t.peers[s].heard
  BY <1>1, <1>2 DEF Entry
<1>4. TcpConnected(t, s) = u
  <2>1. {v} \ {None} = {v}
    BY <1>2
  <2>2. TcpConnected(t, s) = [t EXCEPT !.peers[s].tcp = v, !.peers[s].udp = FALSE,
                                       !.live = (@ \cup {v}) \ {t.peers[s].tcp}]
    BY DEF TcpConnected, v
  <2>3. [t.peers EXCEPT ![s].tcp = v, ![s].udp = FALSE] = [t.peers EXCEPT ![s] = e]
    BY <1>1
  <2>4. [t EXCEPT !.peers[s].tcp = v, !.peers[s].udp = FALSE,
                  !.live = (@ \cup {v}) \ {t.peers[s].tcp}]
            = [t EXCEPT !.peers = [t.peers EXCEPT ![s].tcp = v, ![s].udp = FALSE],
                        !.live = (t.live \cup {v}) \ {t.peers[s].tcp}]
    <3> DEFINE p == t.peers
               l == t.live
    <3>1. t = [peers |-> p, live |-> l, late |-> t.late]
      BY <1>1 DEF Tables
    <3> QED
      BY <3>1
  <2> QED
    BY <2>1, <2>2, <2>3, <2>4 DEF Put, Replaced, Swapped
<1> HIDE DEF e
<1>5. "tcp" \in Fields /\ \A g \in Fields : g # "tcp" => e[g] = t.peers[s][g]
  BY <1>3 DEF Fields
<1>6. PutIn(t, u, s, e)
  BY <1>2, <1>3, <1>5, PutFieldGood
<1> HIDE DEF u
<1>7. Mild(t, u, s)
  BY <1>3, <1>6 DEF Mild, PutIn
<1> QED
  BY <1>4, <1>7

\* What a connect, a handshake and a reconnection may leave.
MildSet(t, T, s) == \A u \in T : Mild(t, u, s)

LEMMA MildGood ==
    ASSUME NEW t, NEW u, NEW s, Mild(t, u, s) PROVE Good(u) /\ Len(u.peers) = Len(t.peers)
BY DEF Mild

LEMMA WithWaitMild ==
    ASSUME NEW t, NEW s, NEW T, MildSet(t, T, s) PROVE MildSet(t, WithWait(T), s)
<1> SUFFICES ASSUME NEW u \in T PROVE Mild(t, Waited(u), s)
  BY DEF MildSet, WithWait
<1>1. Mild(t, u, s)
  BY DEF MildSet
<1>2. Mild(u, Waited(u), s)
  BY <1>1, MildGood, WaitedMild
<1> QED
  BY <1>1, <1>2, MildTrans

LEMMA StatesMild ==
    ASSUME NEW t, Good(t), NEW s \in 1..Len(t.peers), NEW T, MildSet(t, T, s), NEW x \in States
    PROVE  MildSet(t, {[u EXCEPT !.peers[s].state = x] : u \in T}, s)
<1> SUFFICES ASSUME NEW u \in T PROVE Mild(t, [u EXCEPT !.peers[s].state = x], s)
  BY DEF MildSet
<1>1. Mild(t, u, s)
  BY DEF MildSet
<1>2. Good(u) /\ s \in 1..Len(u.peers)
  BY <1>1, MildGood
<1>3. Mild(u, [u EXCEPT !.peers[s].state = x], s)
  BY <1>2, StateMild
<1> QED
  BY <1>1, <1>3, MildTrans

LEMMA OverTcpMild ==
    ASSUME NEW t, Good(t), NEW s \in 1..Len(t.peers) PROVE MildSet(t, OverTcp(t, s), s)
<1>1. CASE CanAlloc(t)
  <2>1. MildSet(t, {TcpConnected(t, s)}, s)
    BY <1>1, TcpMild DEF MildSet
  <2> QED
    BY <1>1, <2>1, WithWaitMild DEF OverTcp
<1>2. CASE ~ CanAlloc(t)
  BY <1>2 DEF OverTcp, MildSet
<1> QED
  BY <1>1, <1>2

LEMMA HandshakesMild ==
    ASSUME NEW t, Good(t), NEW s \in 1..Len(t.peers)
    PROVE  /\ MildSet(t, {t}, s) /\ MildSet(t, WithWait({t}), s)
           /\ MildSet(t, Handshaken(t, s), s)
           /\ MildSet(t, NotHandshaken(t, s), s)
<1>1. MildSet(t, {t}, s)
  BY MildRefl DEF MildSet
<1>2. MildSet(t, WithWait({t}), s)
  BY <1>1, WithWaitMild
<1>3. MildSet(t, OverTcp(t, s), s)
  BY OverTcpMild
<1>4. MildSet(t, {[c EXCEPT !.peers[s].state = "HANDSHAKE_SENT"] : c \in OverTcp(t, s)}, s)
  BY <1>3, StatesMild DEF States
<1>5. MildSet(t, Handshaken(t, s), s)
  BY <1>4, UdpMild DEF MildSet, Handshaken
<1>6. MildSet(t, NotHandshaken(t, s), s)
  BY <1>2, <1>3 DEF MildSet, NotHandshaken
<1> QED
  BY <1>1, <1>2, <1>5, <1>6

LEMMA ReconnectsMild ==
    ASSUME NEW t, Good(t), NEW s \in 1..Len(t.peers)
    PROVE  MildSet(t, Reconnected(t, s), s) /\ MildSet(t, GivenUp(t, s), s)
<1> DEFINE R == IF t.peers[s].udp THEN Handshaken(t, s) \cup OverTcp(t, s) ELSE OverTcp(t, s)
<1>1. MildSet(t, R, s)
  BY HandshakesMild, OverTcpMild DEF MildSet
<1> HIDE DEF R
<1>2. MildSet(t, {[r EXCEPT !.peers[s].state = "CONNECTED"] : r \in R}, s)
  BY <1>1, StatesMild DEF States
<1>3. MildSet(t, {[r EXCEPT !.peers[s].state = "FAILED"] : r \in WithWait({t})}, s)
  BY HandshakesMild, StatesMild DEF States
<1> QED
  BY <1>2, <1>3 DEF Reconnected, GivenUp, R

-----------------------------------------------------------------------------
\* The functions that are not mild.

\* What every function but a removal and an addition keeps.
Kept(t, u) == Good(u) /\ Len(u.peers) = Len(t.peers) /\ (t.late = TRUE => u.late = TRUE)

LEMMA KeptTrans ==
    ASSUME NEW t, NEW u, NEW v, Kept(t, u), Kept(u, v) PROVE Kept(t, v)
BY DEF Kept

LEMMA MildKept == ASSUME NEW t, NEW u, NEW s, Mild(t, u, s) PROVE Kept(t, u)
BY DEF Mild, Kept

LEMMA HeardGood ==
    ASSUME NEW t, Good(t), NEW s \in 1..Len(t.peers)
    PROVE  /\ Kept(t, Heard(t, s)) /\ Heard(t, s).live = t.live
           /\ Heard(t, s).peers[s] = [t.peers[s] EXCEPT !.heard = TRUE]
<1> DEFINE e == [t.peers[s] EXCEPT !.heard = TRUE]
<1>1. t \in Tables /\ t.peers \in Seq(Entry) /\ t.peers[s] \in Entry
  BY EntriesOf DEF Good
<1>2. /\ e \in Entry /\ e.rx = t.peers[s].rx /\ e.tcp = t.peers[s].tcp
      /\ e.reconnect = t.peers[s].reconnect
  BY <1>1 DEF Entry
<1>3. Heard(t, s) = Put(t, s, e, t.live)
  BY <1>1 DEF Heard, Put, Replaced, Tables
<1>4. Put(t, s, e, t.live).live = t.live
  BY <1>1 DEF Put, Tables
<1> HIDE DEF e
<1>5. PutIn(t, Put(t, s, e, t.live), s, e)
  BY <1>2, PutSame
<1>6. /\ Kept(t, Heard(t, s)) /\ Heard(t, s).live = t.live /\ Heard(t, s).peers[s] = e
  BY <1>3, <1>4, <1>5 DEF PutIn, Kept
<1> QED
  BY <1>6 DEF e

LEMMA RemovedGood ==
    ASSUME NEW t, Good(t), NEW s \in 1..Len(t.peers)
    PROVE  /\ Good(Removed(t, s)) /\ Removed(t, s).late = t.late
           /\ Len(Removed(t, s).peers) = Len(t.peers) - 1
           /\ \A r \in 1..(s - 1) : Removed(t, s).peers[r] = t.peers[r]
<1> DEFINE q == RemoveAt(t.peers, s)
           m == t.live \ Owned(t.peers[s])
<1>1. /\ t \in Tables /\ t.peers \in Seq(Entry) /\ t.live \in SUBSET Allocs
      /\ Owns(t.peers, t.live) /\ t.peers[s] \in Entry /\ Len(t.peers) \in Nat
  BY EntriesOf DEF Good
<1>2. /\ q \in Seq(Entry) /\ Len(q) = Len(t.peers) - 1
      /\ \A r \in 1..(s - 1) : q[r] = t.peers[r]
      /\ \A r \in s..(Len(t.peers) - 1) : q[r] = t.peers[r + 1]
  BY <1>1, RemoveEntry
<1>3. m = t.live \ {t.peers[s][f] : f \in Fields}
  <2>1. \A x \in Allocs : x \in Owned(t.peers[s]) <=> \E f \in Fields : t.peers[s][f] = x
    BY <1>1, Constants DEF Owned, Fields
  <2> QED
    BY <1>1, <2>1
<1>4. Removed(t, s) = [t EXCEPT !.live = m, !.peers = q]
  BY <1>1 DEF Removed, Tables
<1> HIDE DEF q, m
<1>5. Owns(q, t.live \ {t.peers[s][f] : f \in Fields})
  <2>1. Len(q) = Len(t.peers) - 1 /\ Len(t.peers) \in Nat /\ Owns(t.peers, t.live)
    BY <1>1, <1>2
  <2>2. \A r \in 1..(s - 1) : q[r] = t.peers[r]
    BY <1>2
  <2>3. \A r \in s..(Len(t.peers) - 1) : q[r] = t.peers[r + 1]
    BY <1>2
  <2>4. t.live \in SUBSET Allocs
    BY <1>1
  <2> DEFINE p == t.peers
             l == t.live
  <2>5. /\ Len(p) \in Nat /\ s \in 1..Len(p) /\ Owns(p, l) /\ Len(q) = Len(p) - 1
        /\ l \in SUBSET Allocs
        /\ \A r \in 1..(s - 1) : q[r] = p[r]
        /\ \A r \in s..(Len(p) - 1) : q[r] = p[r + 1]
    BY <2>1, <2>2, <2>3, <2>4
  <2>6. Owns(q, l \ {p[s][f] : f \in Fields})
    <3> HIDE DEF p, l
    <3> QED
      BY <2>5, RemovedOwns
  <2> QED
    BY <2>6
<1>6. Owns(q, m) /\ m \in SUBSET Allocs
  BY <1>1, <1>3, <1>5
<1>7. /\ Removed(t, s) \in Tables /\ Removed(t, s).peers = q /\ Removed(t, s).live = m
      /\ Removed(t, s).late = t.late
  BY <1>1, <1>2, <1>4, <1>6 DEF Tables
<1> QED
  BY <1>2, <1>6, <1>7 DEF Good

\* A new entry at the end, which owns v or nothing.
Extended(t, e, v) == [t EXCEPT !.peers = Append(t.peers, e), !.live = t.live \cup ({v} \ {None})]

LEMMA ExtendedGood ==
    ASSUME NEW t, Good(t), NEW v, v = None \/ v \in Allocs \ t.live,
           NEW e \in Entry, e["reconnect"] = v, e["tcp"] = None, e["rx"] = None
    PROVE  /\ Good(Extended(t, e, v)) /\ Extended(t, e, v).late = t.late
           /\ Len(Extended(t, e, v).peers) = Len(t.peers) + 1
<1> DEFINE q == Append(t.peers, e)
           m == t.live \cup ({v} \ {None})
<1>1. /\ t \in Tables /\ t.peers \in Seq(Entry) /\ t.live \in SUBSET Allocs
      /\ Owns(t.peers, t.live) /\ Len(t.peers) \in Nat
  BY EntriesOf DEF Good
<1>2. /\ q \in Seq(Entry) /\ Len(q) = Len(t.peers) + 1 /\ q[Len(t.peers) + 1] = e
      /\ \A r \in 1..Len(t.peers) : q[r] = t.peers[r]
  BY <1>1
<1>3. v \notin t.live /\ m \in SUBSET Allocs
  BY <1>1, Constants
<1>4. Extended(t, e, v) = [t EXCEPT !.peers = q, !.live = m]
  BY DEF Extended
<1> HIDE DEF q
<1>5. /\ \A r \in 1..Len(t.peers), g \in Fields : q[r][g] = t.peers[r][g]
      /\ \A g \in Fields : q[Len(t.peers) + 1][g] = IF g = "reconnect" THEN v ELSE None
  BY <1>2 DEF Fields
<1>6. Owns(q, m)
  BY <1>1, <1>2, <1>3, <1>5, AppendField
<1> HIDE DEF m
<1>7. /\ Extended(t, e, v) \in Tables /\ Extended(t, e, v).peers = q
      /\ Extended(t, e, v).live = m /\ Extended(t, e, v).late = t.late
  BY <1>1, <1>2, <1>3, <1>4 DEF Tables
<1> QED
  BY <1>2, <1>6, <1>7 DEF Good

-----------------------------------------------------------------------------
\* A packet.

LEMMA BecomeIs == ASSUME NEW u, Good(u), Become(u) PROVE Table' = u
<1>1. u \in Tables
  BY DEF Good
<1>2. Table' = [peers |-> u.peers, live |-> u.live, late |-> u.late]
  BY DEF Become, Table
<1> QED
  BY <1>1, <1>2 DEF Tables

\* What a packet does: nothing is lost, at most one peer is new, and a frame that
\* is handed over is the buffer of a peer that was just heard.
Processed(t) ==
    /\ Good(Table)' /\ Len(peers') \in {n, n + 1} /\ Len(peers') <= MaxPeers
    /\ t.late = TRUE => late' = TRUE
    /\ \/ frame' = frame
       \/ frame' \in Allocs /\ \E s \in 1..Len(peers') : peers'[s].rx = frame' /\ peers'[s].heard

LEMMA FirstAt ==
    ASSUME TypeOK, NEW a \in Addrs, At(a) # {} PROVE Least(At(a)) \in Used
<1>1. At(a) \in SUBSET Nat /\ At(a) \subseteq Used
  BY DEF At, Used, TypeOK
<1> QED
  BY <1>1, LeastIsIn

LEMMA HandshakeProcessed ==
    ASSUME TypeOK, NEW a \in Addrs, NEW t, Good(t), t.peers = peers, Handshake(a, t)
    PROVE  Processed(t)
<1> DEFINE new == At(a) = {}
           s == IF new THEN n + 1 ELSE Least(At(a))
           g == IF new THEN [t EXCEPT !.peers = Append(@, Zeroed(a))] ELSE t
           h == Heard(g, s)
           e == [h.peers[s] EXCEPT !.state = "HANDSHAKE_RECEIVED", !.keyed = TRUE]
           received == [h EXCEPT !.peers[s].state = "HANDSHAKE_RECEIVED", !.peers[s].keyed = TRUE]
<1>1. t \in Tables /\ n \in Nat /\ n = Len(t.peers) /\ n <= MaxPeers /\ MaxPeers \in Nat
  BY EntriesOf, SizeAssumption DEF Good, n, TypeOK
<1>2. /\ Good(g) /\ s \in 1..Len(g.peers) /\ Len(g.peers) \in {n, n + 1}
      /\ Len(g.peers) <= MaxPeers /\ g.late = t.late
  <2>1. CASE new
    <3>1. Zeroed(a) \in Entry /\ Zeroed(a)["reconnect"] = None /\ Zeroed(a)["tcp"] = None
          /\ Zeroed(a)["rx"] = None
      BY DEF Zeroed, Entry, States
    <3>2. [t EXCEPT !.peers = Append(@, Zeroed(a))] = Extended(t, Zeroed(a), None)
      BY <1>1 DEF Extended, Tables
    <3>3. n < MaxPeers
      BY <2>1 DEF Handshake
    <3>4. g = Extended(t, Zeroed(a), None)
      BY <2>1, <3>2
    <3>5. /\ Good(Extended(t, Zeroed(a), None)) /\ Extended(t, Zeroed(a), None).late = t.late
          /\ Len(Extended(t, Zeroed(a), None).peers) = Len(t.peers) + 1
      BY <3>1, ExtendedGood
    <3>6. Good(g) /\ Len(g.peers) = n + 1 /\ g.late = t.late
      BY <1>1, <3>4, <3>5
    <3> QED
      BY <1>1, <2>1, <3>3, <3>6
  <2>2. CASE ~ new
    BY <1>1, <2>2, FirstAt DEF Used
  <2> QED
    BY <2>1, <2>2
<1>3. \/ Become([h EXCEPT !.peers[s].state = "DISCONNECTED"])
      \/ \E r \in NotHandshaken(received, s) : Become(r)
      \/ \E r \in Handshaken(received, s) : Become([r EXCEPT !.peers[s].state = "CONNECTED"])
  BY DEF Handshake
<1>4. frame' = frame
  BY DEF Handshake
<1> HIDE DEF g, s
<1>5. Kept(g, h)
  BY <1>2, HeardGood
<1> HIDE DEF h
<1>6. Good(h) /\ s \in 1..Len(h.peers)
  BY <1>2, <1>5 DEF Kept
<1>7. h \in Tables /\ h.peers \in Seq(Entry) /\ h.peers[s] \in Entry
  BY <1>6, EntriesOf DEF Good
<1>8. Kept(h, received)
  <2>1. /\ e \in Entry /\ e.rx = h.peers[s].rx /\ e.tcp = h.peers[s].tcp
        /\ e.reconnect = h.peers[s].reconnect
    BY <1>7 DEF Entry, States
  <2>2. received = Put(h, s, e, h.live)
    BY <1>7 DEF Put, Replaced, Tables
  <2> HIDE DEF e
  <2>3. PutIn(h, Put(h, s, e, h.live), s, e)
    BY <1>6, <2>1, PutSame
  <2> QED
    BY <2>2, <2>3 DEF PutIn, Kept
<1> HIDE DEF received
<1>9. Good(received) /\ s \in 1..Len(received.peers)
  BY <1>6, <1>8 DEF Kept
<1>10. PICK u : Kept(h, u) /\ Become(u)
  <2>1. CASE Become([h EXCEPT !.peers[s].state = "DISCONNECTED"])
    <3>1. Mild(h, [h EXCEPT !.peers[s].state = "DISCONNECTED"], s)
      BY <1>6, StateMild DEF States
    <3> QED
      BY <2>1, <3>1, MildKept
  <2>2. CASE \E r \in NotHandshaken(received, s) : Become(r)
    <3>1. PICK r \in NotHandshaken(received, s) : Become(r)
      BY <2>2
    <3>2. Mild(received, r, s)
      BY <1>9, HandshakesMild DEF MildSet
    <3> QED
      BY <1>8, <3>1, <3>2, MildKept, KeptTrans
  <2>3. CASE \E r \in Handshaken(received, s) : Become([r EXCEPT !.peers[s].state = "CONNECTED"])
    <3>1. PICK r \in Handshaken(received, s) : Become([r EXCEPT !.peers[s].state = "CONNECTED"])
      BY <2>3
    <3>2. MildSet(received, {[x EXCEPT !.peers[s].state = "CONNECTED"] : x \in Handshaken(received, s)}, s)
      BY <1>9, HandshakesMild, StatesMild DEF States
    <3>3. Mild(received, [r EXCEPT !.peers[s].state = "CONNECTED"], s)
      BY <3>2 DEF MildSet
    <3> QED
      BY <1>8, <3>1, <3>3, MildKept, KeptTrans
  <2> QED
    BY <1>3, <2>1, <2>2, <2>3
<1>11. Kept(g, u)
  BY <1>5, <1>10, KeptTrans
<1>12. Table' = u /\ peers' = u.peers /\ late' = u.late
  BY <1>10, BecomeIs DEF Kept, Become
<1> QED
  BY <1>2, <1>4, <1>11, <1>12 DEF Processed, Kept

LEMMA VideoProcessed ==
    ASSUME TypeOK, NEW a \in Addrs, NEW t, Good(t), t.peers = peers, At(a) # {}, Video(a, t)
    PROVE  Processed(t)
<1> DEFINE s == Least(At(a))
           old == t.peers[s].rx
           h == Heard(t, s)
<1>1. n = Len(t.peers) /\ n <= MaxPeers /\ s \in 1..Len(t.peers)
  BY FirstAt DEF n, TypeOK, Used
<1> HIDE DEF s
<1>2. /\ Good(h) /\ Len(h.peers) = n /\ (t.late = TRUE => h.late = TRUE) /\ h.live = t.live
      /\ h.peers[s] = [t.peers[s] EXCEPT !.heard = TRUE]
  BY <1>1, HeardGood DEF Kept
<1>3. t \in Tables /\ t.peers[s] \in Entry
  BY <1>1, EntriesOf DEF Good
<1>4. PICK grow, last \in BOOLEAN :
        /\ old = None => grow
        /\ grow => CanAlloc(t)
        /\ LET id == IF grow THEN Fresh(t) ELSE old
           IN  /\ Become([Heard(t, s) EXCEPT !.peers[s].rx = id,
                                             !.live = IF grow THEN (@ \cup {id}) \ {old} ELSE @])
               /\ frame' = IF last THEN id ELSE frame
  BY DEF Video, s
<1> DEFINE id == IF grow THEN Fresh(t) ELSE old
           u == [h EXCEPT !.peers[s].rx = id,
                          !.live = IF grow THEN (@ \cup {id}) \ {old} ELSE @]
           e == [h.peers[s] EXCEPT !.rx = id]
<1>5. Become(u) /\ frame' = IF last THEN id ELSE frame
  BY <1>4
<1>6. id \in Allocs /\ (grow => id \in Allocs \ h.live) /\ id # None
  <2>1. old \in Allocs \cup {None}
    BY <1>3, Constants DEF Entry
  <2>2. grow => Fresh(t) \in Allocs \ t.live
    BY <1>3, <1>4, FreshIsFree
  <2> QED
    BY <1>2, <1>4, <2>1, <2>2, Constants
<1>7. old = h.peers[s].rx
  BY <1>2, <1>3 DEF Entry
<1> HIDE DEF h, id
<1>8. h \in Tables /\ h.peers \in Seq(Entry) /\ h.peers[s] \in Entry /\ s \in 1..Len(h.peers)
  BY <1>1, <1>2, EntriesOf DEF Good
<1>9. /\ e \in Entry /\ e.rx = id /\ e["rx"] = id /\ e.tcp = h.peers[s].tcp
      /\ e.reconnect = h.peers[s].reconnect /\ e.heard = TRUE
  <2>1. h.peers[s].heard = TRUE
    BY <1>2, <1>3 DEF Entry
  <2> QED
    BY <1>6, <1>8, <2>1 DEF Entry
<1>10. PutIn(h, u, s, e)
  <2>1. CASE grow
    <3>1. u = Put(h, s, e, Swapped(h, s, "rx", id))
      <4>1. u = [h EXCEPT !.peers[s].rx = id, !.live = (@ \cup {id}) \ {old}]
        BY <2>1
      <4>2. {id} \ {None} = {id}
        BY <1>6
      <4> QED
        BY <1>7, <1>8, <4>1, <4>2 DEF Put, Replaced, Swapped, Tables
    <3>2. "rx" \in Fields /\ \A g \in Fields : g # "rx" => e[g] = h.peers[s][g]
      BY <1>9 DEF Fields
    <3>3. id = None \/ id \in Allocs \ h.live
      BY <1>6, <2>1
    <3>4. e \in Entry /\ e["rx"] = id
      BY <1>9
    <3> HIDE DEF u, e
    <3>5. PutIn(h, Put(h, s, e, Swapped(h, s, "rx", id)), s, e)
      BY <1>2, <1>8, <3>2, <3>3, <3>4, PutFieldGood
    <3> QED
      BY <3>1, <3>5
  <2>2. CASE ~ grow
    <3>1. u = Put(h, s, e, h.live)
      BY <1>8, <2>2 DEF Put, Replaced, Tables
    <3>2. e \in Entry /\ e.rx = h.peers[s].rx /\ e.tcp = h.peers[s].tcp
          /\ e.reconnect = h.peers[s].reconnect
      BY <1>7, <1>9, <2>2 DEF id
    <3> HIDE DEF u, e
    <3>3. PutIn(h, Put(h, s, e, h.live), s, e)
      BY <1>2, <1>8, <3>2, PutSame
    <3> QED
      BY <3>1, <3>3
  <2> QED
    BY <2>1, <2>2
<1> HIDE DEF u, e
<1>11. /\ Good(u) /\ Len(u.peers) = n /\ u.peers[s].rx = id /\ u.peers[s].heard
       /\ (t.late = TRUE => u.late = TRUE)
  BY <1>2, <1>9, <1>10 DEF PutIn
<1>12. Table' = u /\ peers' = u.peers /\ late' = u.late
  BY <1>5, <1>11, BecomeIs DEF Become
<1>13. Good(Table)'
  BY <1>11, <1>12
<1>14. \/ frame' = frame
       \/ frame' \in Allocs /\ \E r \in 1..Len(peers') : peers'[r].rx = frame' /\ peers'[r].heard
  BY <1>1, <1>5, <1>6, <1>11, <1>12
<1> QED
  BY <1>1, <1>11, <1>12, <1>13, <1>14 DEF Processed

LEMMA OtherProcessed ==
    ASSUME TypeOK, NEW a \in Addrs, NEW t, Good(t), t.peers = peers, At(a) # {}, Other(a, t)
    PROVE  Processed(t)
<1> DEFINE s == Least(At(a))
           h == Heard(t, s)
<1>1. n = Len(t.peers) /\ n <= MaxPeers /\ s \in 1..Len(t.peers)
  BY FirstAt DEF n, TypeOK, Used
<1>2. frame' = frame /\ (Become(h) \/ Become([h EXCEPT !.peers[s].state = "DISCONNECTED"]))
  BY DEF Other
<1> HIDE DEF s
<1>3. Kept(t, h)
  BY <1>1, HeardGood
<1> HIDE DEF h
<1>4. Good(h) /\ s \in 1..Len(h.peers)
  BY <1>1, <1>3 DEF Kept
<1>5. Kept(h, [h EXCEPT !.peers[s].state = "DISCONNECTED"])
  BY <1>4, StateMild, MildKept DEF States
<1>6. PICK u : Kept(t, u) /\ Become(u)
  BY <1>2, <1>3, <1>5, KeptTrans
<1>7. Table' = u /\ peers' = u.peers /\ late' = u.late
  BY <1>6, BecomeIs DEF Kept, Become
<1> QED
  BY <1>1, <1>2, <1>6, <1>7 DEF Processed, Kept

LEMMA ProcessProcessed ==
    ASSUME TypeOK, NEW a \in Addrs, NEW t, Good(t), t.peers = peers, Process(a, t)
    PROVE  Processed(t)
BY HandshakeProcessed, VideoProcessed, OtherProcessed DEF Process

-----------------------------------------------------------------------------
\* The inductive invariant.

Ranges ==
    /\ n <= MaxPeers
    /\ frame \in Allocs \cup {None}
    /\ pc \in {"idle", "clear", "revive", "udp", "tcp", "tick", "decode"}
    /\ i \in 0..(MaxPeers + 1)
    /\ due \subseteq Allocs /\ tried \subseteq Allocs
    /\ had \in 0..MaxPeers

\* Where the loops are: the clean-up counts up while the table shrinks.
Places ==
    /\ pc = "clear" => 1 <= i /\ i <= n + 2 /\ n + i = had + 1
    /\ pc = "revive" => i <= n
    /\ pc \in {"tcp", "tick"} => 1 <= i /\ i <= n + 1

\* What is still to be tried is what is due below the index, which neither a
\* reconnection nor a removal at the index touches.
Turns ==
    /\ pc = "revive" => tried \cup {peers[s].reconnect : s \in {r \in 1..i : Due(r)}} = due
    /\ pc = "udp" => tried = due
    /\ pc \notin {"revive", "udp"} => tried = {}

\* A frame waits for the decoder only behind the packet that completed it, and
\* its peer cannot have timed out since.
FrameIsHeld ==
    /\ pc \in {"idle", "clear", "revive", "udp"} => frame = None
    /\ frame # None /\ ~late => \E s \in Used : peers[s].rx = frame /\ peers[s].heard

IInv == Good(Table) /\ Ranges /\ Places /\ Turns /\ FrameIsHeld

LEMMA TableIs == Table.peers = peers /\ Table.live = live /\ Table.late = late
BY DEF Table

LEMMA InvType == IInv => TypeOK /\ n \in Nat
<1>1. Good(Table) => peers \in Seq(Entry) /\ live \subseteq Allocs /\ late \in BOOLEAN
  BY TableIs DEF Good, Tables
<1> QED
  BY <1>1 DEF IInv, Ranges, TypeOK, n

LEMMA InitInv == Init => IInv
<1> SUFFICES ASSUME Init PROVE IInv
  OBVIOUS
<1>1. n = 0 /\ Used = {}
  BY DEF Init, n, Used
<1>2. Owns(<<>>, {})
  BY DEF Owns
<1>3. Good(Table)
  <2>1. Table = [peers |-> <<>>, live |-> {}, late |-> FALSE]
    BY DEF Init, Table
  <2>2. <<>> \in Seq(Entry)
    OBVIOUS
  <2>3. [peers |-> <<>>, live |-> {}, late |-> FALSE] \in Tables
    BY <2>2 DEF Tables
  <2> QED
    BY <1>2, <2>1, <2>3 DEF Good
<1>4. Ranges /\ Places /\ Turns /\ FrameIsHeld
  BY <1>1, SizeAssumption DEF Init, Ranges, Places, Turns, FrameIsHeld
<1> QED
  BY <1>3, <1>4 DEF IInv

\* Mild changes leave what there is of a frame.
LEMMA MildFrame ==
    ASSUME IInv, NEW u, NEW s, Mild(Table, u, s), Become(u), frame' = frame
    PROVE  /\ Good(Table)' /\ Len(peers') = n
           /\ (frame # None /\ ~late => \E r \in Used : peers[r].rx = frame /\ peers[r].heard)
              => (frame' # None /\ ~late' => \E r \in Used' : peers'[r].rx = frame' /\ peers'[r].heard)
<1>1. Good(u) /\ Len(u.peers) = Len(peers)
  BY TableIs DEF Mild
<1>2. Table' = u /\ peers' = u.peers /\ late' = u.late
  BY <1>1, BecomeIs DEF Become
<1>3. \A r \in 1..Len(peers) : u.peers[r].rx = peers[r].rx
  BY TableIs DEF Mild
<1>4. u.late = TRUE \/ (u.late = late /\ \A r \in 1..Len(peers) : u.peers[r].heard = peers[r].heard)
  BY TableIs DEF Mild
<1>5. Used = 1..Len(peers) /\ Used' = 1..Len(peers)
  BY <1>1, <1>2 DEF Used, n
<1> QED
  BY <1>1, <1>2, <1>3, <1>4, <1>5 DEF n

-----------------------------------------------------------------------------
\* One lemma per kind of step.

LEMMA SameTable == ASSUME Same PROVE Table' = Table /\ peers' = peers /\ n' = n /\ Used' = Used
BY DEF Same, Table, n, Used

LEMMA SameGood == ASSUME IInv, UNCHANGED <<peers, live, late>> PROVE Good(Table)'
<1>1. Table' = Table
  BY DEF Table
<1> QED
  BY <1>1 DEF IInv

\* The entry a user's connect is about, in the table with it.
LEMMA AddedGood ==
    ASSUME IInv, NEW k \in Keys, Known(k) # {} \/ (n < MaxPeers /\ CanAlloc(Table))
    PROVE  /\ Good(Added(k).t) /\ Added(k).s \in 1..Len(Added(k).t.peers)
           /\ Len(Added(k).t.peers) <= MaxPeers
<1>1. TypeOK /\ n \in Nat /\ n = Len(Table.peers) /\ n <= MaxPeers /\ MaxPeers \in Nat /\ Good(Table)
  BY InvType, TableIs, SizeAssumption DEF IInv, Ranges, n
<1>2. CASE Known(k) # {}
  <2>1. Known(k) \in SUBSET Nat /\ Known(k) \subseteq Used
    BY <1>1 DEF Known, Used
  <2>2. Least(Known(k)) \in Used
    BY <1>2, <2>1, LeastIsIn
  <2>3. Added(k) = [t |-> Table, s |-> Least(Known(k))]
    BY <1>2 DEF Added
  <2> QED
    BY <1>1, <2>2, <2>3 DEF Used
<1>3. CASE Known(k) = {}
  <2> DEFINE v == Fresh(Table)
             e == [Zeroed(Home[k]) EXCEPT !.keyed = TRUE, !.state = "DISCOVERED", !.reconnect = v]
  <2>1. CanAlloc(Table) /\ n < MaxPeers
    BY <1>3
  <2>2. Table \in Tables
    BY <1>1 DEF Good
  <2>3. v \in Allocs \ Table.live /\ v # None
    BY <2>1, <2>2, FreshIsFree, Constants
  <2>4. Added(k) = [t |-> [Table EXCEPT !.peers = Append(@, e), !.live = @ \cup {v}], s |-> n + 1]
    BY <1>3 DEF Added
  <2> HIDE DEF v
  <2>5. Home[k] \in Addrs
    BY AddressAssumption
  <2>6. e \in Entry /\ e["reconnect"] = v /\ e["tcp"] = None /\ e["rx"] = None
    BY <2>3, <2>5 DEF Zeroed, Entry, States
  <2> HIDE DEF e
  <2>7. [Table EXCEPT !.peers = Append(@, e), !.live = @ \cup {v}] = Extended(Table, e, v)
    <3>1. {v} \ {None} = {v}
      BY <2>3
    <3> QED
      BY <2>2, <3>1 DEF Extended, Tables
  <2>8. v = None \/ v \in Allocs \ Table.live
    BY <2>3
  <2>9. Good(Extended(Table, e, v)) /\ Len(Extended(Table, e, v).peers) = Len(Table.peers) + 1
    BY <1>1, <2>6, <2>8, ExtendedGood
  <2>10. Added(k).t = Extended(Table, e, v) /\ Added(k).s = n + 1
    BY <2>4, <2>7
  <2> QED
    BY <1>1, <2>1, <2>9, <2>10
<1> QED
  BY <1>2, <1>3

LEMMA ConnectInv == ASSUME IInv, NEW k \in Keys, Connect(k) PROVE IInv'
<1> DEFINE a == Added(k)
           t == [a.t EXCEPT !.peers[a.s].addr = Home[k]]
           e == [a.t.peers[a.s] EXCEPT !.addr = Home[k]]
<1>1. /\ pc = "idle" /\ UNCHANGED <<frame, pc, i, due, tried, had>>
      /\ \/ Become(a.t)
         \/ \E h \in NotHandshaken(t, a.s) : Become(h)
         \/ \E h \in Handshaken(t, a.s) : Become([h EXCEPT !.peers[a.s].state = "CONNECTING"])
  BY DEF Connect
<1>2. Good(a.t) /\ a.s \in 1..Len(a.t.peers) /\ Len(a.t.peers) <= MaxPeers
  BY AddedGood DEF Connect
<1> HIDE DEF a
<1>3. a.t \in Tables /\ a.t.peers \in Seq(Entry) /\ a.t.peers[a.s] \in Entry
  BY <1>2, EntriesOf DEF Good
<1>4. Kept(a.t, t)
  <2>1. Home[k] \in Addrs
    BY AddressAssumption
  <2>2. /\ e \in Entry /\ e.rx = a.t.peers[a.s].rx /\ e.tcp = a.t.peers[a.s].tcp
        /\ e.reconnect = a.t.peers[a.s].reconnect
    BY <1>3, <2>1 DEF Entry
  <2>3. t = Put(a.t, a.s, e, a.t.live)
    BY <1>3 DEF Put, Replaced, Tables
  <2> HIDE DEF e, t
  <2>4. PutIn(a.t, Put(a.t, a.s, e, a.t.live), a.s, e)
    BY <1>2, <2>2, PutSame
  <2> QED
    BY <2>3, <2>4 DEF PutIn, Kept
<1> HIDE DEF t
<1>5. Good(t) /\ a.s \in 1..Len(t.peers)
  BY <1>2, <1>4 DEF Kept
<1>6. PICK u : Kept(a.t, u) /\ Become(u)
  <2>1. CASE Become(a.t)
    <3>1. Kept(a.t, a.t)
      BY <1>2 DEF Kept
    <3> QED
      BY <2>1, <3>1
  <2>2. CASE \E h \in NotHandshaken(t, a.s) : Become(h)
    <3>1. PICK h \in NotHandshaken(t, a.s) : Become(h)
      BY <2>2
    <3>2. Mild(t, h, a.s)
      BY <1>5, HandshakesMild DEF MildSet
    <3> QED
      BY <1>4, <3>1, <3>2, MildKept, KeptTrans
  <2>3. CASE \E h \in Handshaken(t, a.s) : Become([h EXCEPT !.peers[a.s].state = "CONNECTING"])
    <3>1. PICK h \in Handshaken(t, a.s) : Become([h EXCEPT !.peers[a.s].state = "CONNECTING"])
      BY <2>3
    <3>2. MildSet(t, {[x EXCEPT !.peers[a.s].state = "CONNECTING"] : x \in Handshaken(t, a.s)}, a.s)
      BY <1>5, HandshakesMild, StatesMild DEF States
    <3>3. Mild(t, [h EXCEPT !.peers[a.s].state = "CONNECTING"], a.s)
      BY <3>1, <3>2 DEF MildSet
    <3> QED
      BY <1>4, <3>1, <3>3, MildKept, KeptTrans
  <2> QED
    BY <1>1, <2>1, <2>2, <2>3
<1>7. Table' = u /\ peers' = u.peers
  BY <1>6, BecomeIs DEF Kept, Become
<1>8. Good(Table)' /\ n' <= MaxPeers
  BY <1>2, <1>6, <1>7 DEF Kept, n
<1>9. (Ranges /\ Places /\ Turns /\ FrameIsHeld)'
  BY <1>1, <1>8 DEF IInv, Ranges, Places, Turns, FrameIsHeld
<1> QED
  BY <1>8, <1>9 DEF IInv

LEMMA ClearInv == ASSUME IInv, StartClear \/ Clear PROVE IInv'
<1>1. TypeOK /\ n \in Nat /\ n = Len(Table.peers) /\ n <= MaxPeers /\ MaxPeers \in Nat /\ Good(Table)
  BY InvType, TableIs, SizeAssumption DEF IInv, Ranges, n
<1>2. CASE StartClear
  <2>1. Good(Table)' /\ n' = n /\ frame' = frame
    BY <1>2, SameGood, SameTable DEF StartClear, Same
  <2>2. (Ranges /\ Places /\ Turns /\ FrameIsHeld)'
    BY <1>1, <1>2, <2>1 DEF StartClear, Goto, Same, IInv, Ranges, Places, Turns, FrameIsHeld
  <2> QED
    BY <2>1, <2>2 DEF IInv
<1>3. CASE Clear /\ i <= n
  <2>1. /\ Become(Removed(Table, i)) /\ frame' = FrameAfterRemoval(i) /\ pc = "clear"
        /\ pc' = pc /\ i' = i + 1 /\ UNCHANGED <<due, tried, had>>
    BY <1>3 DEF Clear, Goto
  <2>2. i \in 1..n /\ frame = None
    BY <1>1, <1>3, <2>1 DEF IInv, Ranges, Places, FrameIsHeld
  <2>3. Good(Removed(Table, i)) /\ Len(Removed(Table, i).peers) = n - 1
    BY <1>1, <2>2, RemovedGood
  <2>4. Table' = Removed(Table, i) /\ peers' = Removed(Table, i).peers
    BY <2>1, <2>3, BecomeIs DEF Become
  <2>5. Good(Table)' /\ n' = n - 1 /\ frame' = None
    BY <2>1, <2>2, <2>3, <2>4 DEF n, FrameAfterRemoval
  <2>6. Ranges'
    BY <1>1, <2>1, <2>2, <2>5 DEF IInv, Ranges
  <2>7. Places'
    <3>1. 1 <= i /\ n + i = had + 1 /\ i \in Nat /\ had \in Nat /\ n \in Nat
      BY <1>1, <2>1 DEF IInv, Places, Ranges
    <3>2. i' = i + 1 /\ n' = n - 1 /\ had' = had /\ pc' = "clear" /\ i <= n
      BY <1>3, <2>1, <2>5
    <3>3. \A x, y, z \in Nat : 1 <= x /\ y + x = z + 1 /\ x <= y
            => 1 <= x + 1 /\ x + 1 <= (y - 1) + 2 /\ (y - 1) + (x + 1) = z + 1
      OBVIOUS
    <3>4. 1 <= i + 1 /\ i + 1 <= (n - 1) + 2 /\ (n - 1) + (i + 1) = had + 1
      BY <3>1, <3>2, <3>3
    <3>5. 1 <= i' /\ i' <= n' + 2 /\ n' + i' = had' + 1
      BY <3>2, <3>4
    <3> QED
      BY <3>2, <3>5 DEF Places
  <2>8. Turns' /\ FrameIsHeld'
    BY <2>1, <2>5 DEF IInv, Turns, FrameIsHeld
  <2> QED
    BY <2>5, <2>6, <2>7, <2>8 DEF IInv
<1>4. CASE Clear /\ ~ (i <= n)
  <2>1. Good(Table)' /\ n' = n /\ frame' = frame
    BY <1>4, SameGood, SameTable DEF Clear, Same
  <2>2. (Ranges /\ Places /\ Turns /\ FrameIsHeld)'
    BY <1>1, <1>4, <2>1 DEF Clear, Goto, IInv, Ranges, Places, Turns, FrameIsHeld
  <2> QED
    BY <2>1, <2>2 DEF IInv
<1> QED
  BY <1>2, <1>3, <1>4

\* The records of the peers due among the first j.
DueIn(p, j) == {p[s].reconnect : s \in {r \in 1..j : p[r].state = "DISCONNECTED"
                                                     /\ p[r].reconnect # None}}

LEMMA DueBelow ==
    ASSUME NEW p, NEW q, NEW j \in Nat \ {0},
           \A r \in 1..(j - 1) : q[r].state = p[r].state /\ q[r].reconnect = p[r].reconnect
    PROVE  DueIn(p, j) = DueIn(q, j - 1)
                         \cup IF p[j].state = "DISCONNECTED" /\ p[j].reconnect # None
                              THEN {p[j].reconnect} ELSE {}
<1>1. 1..j = 1..(j - 1) \cup {j} /\ j \notin 1..(j - 1)
  OBVIOUS
<1> QED
  BY <1>1 DEF DueIn

LEMMA TurnsAre ==
    Turns <=> /\ pc = "revive" => tried \cup DueIn(peers, i) = due
              /\ pc = "udp" => tried = due
              /\ pc \notin {"revive", "udp"} => tried = {}
BY DEF Turns, DueIn, Due

LEMMA StartRecvInv == ASSUME IInv, StartRecv PROVE IInv'
<1>1. TypeOK /\ n \in Nat /\ n <= MaxPeers /\ MaxPeers \in Nat
  BY InvType, SizeAssumption DEF IInv, Ranges
<1>2. /\ pc = "idle" /\ pc' = "revive" /\ i' = n /\ UNCHANGED <<tried, had>> /\ Same
      /\ due' = DueIn(peers, n)
  BY DEF StartRecv, Goto, DueIn, Due, Used
<1>3. Good(Table)' /\ n' = n /\ frame' = frame /\ peers' = peers
  BY <1>2, SameGood, SameTable DEF Same
<1>4. tried = {} /\ frame = None
  BY <1>2 DEF IInv, Turns, FrameIsHeld
<1>5. due' \subseteq Allocs
  <2>1. \A s \in 1..n : peers[s] \in Entry
    BY <1>1 DEF TypeOK, n
  <2>2. \A s \in 1..n : peers[s].reconnect \in Allocs \cup {None}
    BY <2>1 DEF Entry
  <2> QED
    BY <1>2, <2>2 DEF DueIn
<1>6. Turns'
  <2>1. /\ pc' = "revive" => tried' \cup DueIn(peers', i') = due'
        /\ pc' = "udp" => tried' = due'
        /\ pc' \notin {"revive", "udp"} => tried' = {}
    BY <1>2, <1>3, <1>4
  <2> QED
    BY <2>1 DEF Turns, DueIn, Due
<1>7. (Ranges /\ Places /\ FrameIsHeld)'
  BY <1>1, <1>2, <1>3, <1>4, <1>5 DEF IInv, Ranges, Places, FrameIsHeld
<1> QED
  BY <1>3, <1>6, <1>7 DEF IInv

\* What one turn of the first pass leaves: the entries below are as they were.
Tried(u) ==
    /\ Good(u) /\ Len(u.peers) \in {n, n - 1}
    /\ \A r \in 1..(i - 1) : /\ u.peers[r].state = peers[r].state
                             /\ u.peers[r].reconnect = peers[r].reconnect

LEMMA ReviveTried ==
    ASSUME IInv, Revive
    PROVE  /\ frame' = None
           /\ \E u : Tried(u) /\ Become(u)
<1>1. TypeOK /\ n \in Nat /\ n = Len(Table.peers) /\ Good(Table) /\ Table.peers = peers
  BY InvType, TableIs DEF IInv, n
<1>2. i \in 1..n /\ frame = None
  BY <1>1 DEF Revive, IInv, Ranges, Places, FrameIsHeld
<1>3. ASSUME NEW u, Mild(Table, u, i) PROVE Tried(u)
  <2>1. \A r \in 1..(i - 1) : r \in 1..Len(Table.peers) /\ r # i
    BY <1>1, <1>2
  <2>2. Good(u) /\ Len(u.peers) = Len(Table.peers)
    BY <1>3 DEF Mild
  <2>3. \A r \in 1..Len(Table.peers) : /\ u.peers[r].reconnect = Table.peers[r].reconnect
                                       /\ r # i => u.peers[r].state = Table.peers[r].state
    BY <1>3 DEF Mild
  <2> QED
    BY <1>1, <2>1, <2>2, <2>3 DEF Tried
<1>4. CASE Due(i)
  <2>1. CASE \E t \in Reconnected(Table, i) \cup WithWait({Table}) : Become(t) /\ frame' = frame
    <3>1. PICK t \in Reconnected(Table, i) \cup WithWait({Table}) : Become(t) /\ frame' = frame
      BY <2>1
    <3>2. i \in 1..Len(Table.peers)
      BY <1>1, <1>2
    <3>3. MildSet(Table, Reconnected(Table, i), i)
      BY <1>1, <3>2, ReconnectsMild
    <3>4. MildSet(Table, WithWait({Table}), i)
      BY <1>1, <3>2, HandshakesMild
    <3>5. Mild(Table, t, i)
      BY <3>3, <3>4 DEF MildSet
    <3> QED
      BY <1>2, <1>3, <3>1, <3>5
  <2>2. CASE \E t \in GivenUp(Table, i) : Become(Removed(t, i)) /\ frame' = FrameAfterRemoval(i)
    <3>1. PICK t \in GivenUp(Table, i) : Become(Removed(t, i)) /\ frame' = FrameAfterRemoval(i)
      BY <2>2
    <3>2. i \in 1..Len(Table.peers)
      BY <1>1, <1>2
    <3>3. MildSet(Table, GivenUp(Table, i), i)
      BY <1>1, <3>2, ReconnectsMild
    <3>4. Mild(Table, t, i)
      BY <3>1, <3>3 DEF MildSet
    <3>5. Tried(t) /\ Good(t) /\ Len(t.peers) = n /\ i \in 1..Len(t.peers)
      BY <1>1, <1>2, <1>3, <3>4, MildGood
    <3>6. /\ Good(Removed(t, i)) /\ Len(Removed(t, i).peers) = Len(t.peers) - 1
          /\ \A r \in 1..(i - 1) : Removed(t, i).peers[r] = t.peers[r]
      BY <3>5, RemovedGood
    <3>7. Tried(Removed(t, i))
      BY <3>5, <3>6 DEF Tried
    <3> QED
      BY <1>2, <3>1, <3>7 DEF FrameAfterRemoval
  <2> QED
    BY <1>4, <2>1, <2>2 DEF Revive
<1>5. CASE ~ Due(i)
  <2>1. Same
    BY <1>5 DEF Revive
  <2>2. Become(Table) /\ frame' = None
    BY <1>2, <2>1, TableIs DEF Same, Become
  <2>3. Mild(Table, Table, i)
    BY <1>1, MildRefl
  <2> QED
    BY <1>3, <2>2, <2>3
<1> QED
  BY <1>4, <1>5

LEMMA ReviveInv == ASSUME IInv, Revive PROVE IInv'
<1>1. TypeOK /\ n \in Nat /\ n <= MaxPeers /\ MaxPeers \in Nat
  BY InvType, SizeAssumption DEF IInv, Ranges
<1>2. /\ pc = "revive" /\ pc' = "revive" /\ i' = i - 1 /\ i \in 1..n /\ UNCHANGED <<due, had>>
      /\ tried' = tried \cup IF peers[i].state = "DISCONNECTED" /\ peers[i].reconnect # None
                             THEN {peers[i].reconnect} ELSE {}
  BY <1>1 DEF Revive, Goto, Due, IInv, Ranges, Places
<1>3. PICK u : Tried(u) /\ Become(u)
  BY ReviveTried
<1>4. Table' = u /\ peers' = u.peers /\ frame' = None
  BY <1>3, BecomeIs, ReviveTried DEF Become, Tried
<1>5. Good(Table)' /\ n' \in {n, n - 1}
  BY <1>3, <1>4 DEF Tried, n
<1>6. \A r \in 1..(i - 1) : peers'[r].state = peers[r].state /\ peers'[r].reconnect = peers[r].reconnect
  BY <1>3, <1>4 DEF Tried
<1>7. Turns'
  <2>1. i \in Nat \ {0}
    BY <1>1, <1>2
  <2>2. DueIn(peers, i) = DueIn(peers', i - 1)
                          \cup IF peers[i].state = "DISCONNECTED" /\ peers[i].reconnect # None
                               THEN {peers[i].reconnect} ELSE {}
    BY <1>6, <2>1, DueBelow
  <2>3. tried \cup DueIn(peers, i) = due
    BY <1>2, TurnsAre DEF IInv
  <2>4. tried' \cup DueIn(peers', i') = due'
    BY <1>2, <2>2, <2>3
  <2> QED
    BY <1>2, <2>4 DEF Turns, DueIn, Due
<1>8. tried' \subseteq Allocs
  <2>1. peers[i] \in Entry /\ tried \subseteq Allocs
    BY <1>1, <1>2 DEF TypeOK, n
  <2>2. peers[i].reconnect \in Allocs \cup {None}
    BY <2>1 DEF Entry
  <2> QED
    BY <1>2, <2>1, <2>2
<1>9. Ranges' /\ Places' /\ FrameIsHeld'
  BY <1>1, <1>2, <1>4, <1>5, <1>8 DEF IInv, Ranges, Places, FrameIsHeld
<1> QED
  BY <1>5, <1>7, <1>9 DEF IInv

\* The steps that only move on to the next loop.
LEMMA MoveOnInv == ASSUME IInv, EndRevive \/ EndRecv \/ EndTick PROVE IInv'
<1>1. TypeOK /\ n \in Nat /\ MaxPeers \in Nat
  BY InvType, SizeAssumption
<1>2. Same /\ UNCHANGED <<due, tried, had>>
  BY DEF EndRevive, EndRecv, EndTick
<1>3. /\ Good(Table)' /\ n' = n /\ frame' = frame /\ peers' = peers /\ late' = late
      /\ Used' = Used
  BY <1>2, SameGood, SameTable DEF Same
<1>4. CASE EndRevive
  <2>1. pc = "revive" /\ i = 0 /\ pc' = "udp" /\ i' = 0
    BY <1>4 DEF EndRevive, Goto
  <2>2. DueIn(peers, 0) = {}
    BY DEF DueIn
  <2>3. tried = due
    BY <2>1, <2>2, TurnsAre DEF IInv
  <2> QED
    BY <1>1, <1>2, <1>3, <2>1, <2>3 DEF IInv, Ranges, Places, Turns, FrameIsHeld
<1>5. CASE EndRecv
  <2>1. pc = "tcp" /\ pc' = "tick" /\ i' = 1
    BY <1>5 DEF EndRecv, Goto
  <2>2. 1 \in 0..(MaxPeers + 1) /\ 1 <= n + 1
    BY <1>1
  <2> QED
    BY <1>2, <1>3, <2>1, <2>2 DEF IInv, Ranges, Places, Turns, FrameIsHeld
<1>6. CASE EndTick
  <2>1. pc = "tick" /\ pc' = "decode" /\ i' = 0
    BY <1>6 DEF EndTick, Goto
  <2> QED
    BY <1>1, <1>2, <1>3, <2>1 DEF IInv, Ranges, Places, Turns, FrameIsHeld
<1> QED
  BY <1>4, <1>5, <1>6

\* The table with its last packet read at another time.
LEMMA LateGood ==
    ASSUME Good(Table), NEW b \in BOOLEAN
    PROVE  /\ Good([Table EXCEPT !.late = b]) /\ [Table EXCEPT !.late = b].peers = peers
           /\ [Table EXCEPT !.late = b].late = b
BY TableIs DEF Good, Tables, Table

LEMMA UdpPacketInv == ASSUME IInv, UdpPacket PROVE IInv'
<1> DEFINE t == [Table EXCEPT !.late = FALSE]
<1>1. TypeOK /\ n \in Nat /\ n <= MaxPeers /\ MaxPeers \in Nat \ {0} /\ Good(Table)
  BY InvType, SizeAssumption DEF IInv, Ranges
<1>2. /\ pc = "udp" /\ pc' = "tcp" /\ i' = 1 /\ due' = {} /\ tried' = {} /\ had' = had
      /\ Same \/ \E a \in Addrs : Process(a, t)
  BY DEF UdpPacket, Goto
<1>3. frame = None
  BY <1>2 DEF IInv, FrameIsHeld
<1>4. Good(t) /\ t.peers = peers
  BY <1>1, LateGood
<1> HIDE DEF t
<1>5. /\ Good(Table)' /\ n' \in Nat /\ n' <= MaxPeers
      /\ \/ frame' = None
         \/ frame' \in Allocs /\ \E s \in Used' : peers'[s].rx = frame' /\ peers'[s].heard
  <2>1. CASE Same
    <3>1. Good(Table)' /\ n' = n /\ frame' = frame
      BY <2>1, SameGood, SameTable DEF Same
    <3> QED
      BY <1>1, <1>3, <3>1
  <2>2. CASE \E a \in Addrs : Process(a, t)
    <3>1. Processed(t)
      BY <1>1, <1>4, <2>2, ProcessProcessed
    <3>2. n' = Len(peers') /\ Used' = 1..Len(peers')
      BY DEF n, Used
    <3> QED
      BY <1>1, <1>3, <3>1, <3>2 DEF Processed
  <2> QED
    BY <1>2, <2>1, <2>2
<1>6. Ranges'
  BY <1>1, <1>2, <1>5 DEF IInv, Ranges
<1>7. Places' /\ Turns' /\ FrameIsHeld'
  BY <1>1, <1>2, <1>5 DEF Places, Turns, FrameIsHeld
<1> QED
  BY <1>5, <1>6, <1>7 DEF IInv

\* What a turn of the TCP pass and of the clock leaves of table and frame.
TurnKeeps ==
    /\ Good(Table)' /\ n' \in Nat /\ n <= n' /\ n' <= MaxPeers
    /\ frame' \in Allocs \cup {None}
    /\ frame' # None /\ ~late' => \E s \in Used' : peers'[s].rx = frame' /\ peers'[s].heard

LEMMA SameKeeps == ASSUME IInv, Same PROVE TurnKeeps
<1>1. Good(Table)' /\ n' = n /\ Used' = Used /\ UNCHANGED <<peers, late, frame>>
  BY SameGood, SameTable DEF Same
<1> QED
  BY <1>1, InvType DEF TurnKeeps, IInv, Ranges, FrameIsHeld

LEMMA MildKeeps ==
    ASSUME IInv, NEW u, NEW s, Mild(Table, u, s), Become(u), frame' = frame
    PROVE  TurnKeeps
<1>1. n \in Nat /\ n <= MaxPeers /\ frame \in Allocs \cup {None}
  BY InvType DEF IInv, Ranges
<1>2. /\ Good(Table)' /\ Len(peers') = n
      /\ (frame # None /\ ~late => \E r \in Used : peers[r].rx = frame /\ peers[r].heard)
         => (frame' # None /\ ~late' => \E r \in Used' : peers'[r].rx = frame' /\ peers'[r].heard)
  BY MildFrame
<1>3. n' = Len(peers')
  BY DEF n
<1> QED
  BY <1>1, <1>2, <1>3 DEF TurnKeeps, IInv, FrameIsHeld

LEMMA TcpPassKeeps == ASSUME IInv, TcpPass PROVE TurnKeeps
<1> DEFINE down == [Table EXCEPT !.peers[i].state = "DISCONNECTED"]
           late1 == [Table EXCEPT !.late = TRUE]
           ends == {down} \cup IF peers[i].reconnect = None THEN {}
                               ELSE WithWait({down}) \cup Reconnected(down, i) \cup GivenUp(down, i)
<1>1. TypeOK /\ n \in Nat /\ n = Len(Table.peers) /\ n <= MaxPeers /\ Good(Table)
  BY InvType, TableIs DEF IInv, Ranges, n
<1>2. i \in 1..n
  BY <1>1 DEF TcpPass, IInv, Ranges, Places
<1>3. CASE Same
  BY <1>3, SameKeeps
<1>4. CASE peers[i].tcp # None /\ Process(peers[i].addr, late1)
  <2>1. Good(late1) /\ late1.peers = peers /\ late1.late = TRUE
    BY <1>1, LateGood
  <2>2. peers[i] \in Entry
    BY <1>1, <1>2 DEF TypeOK, n
  <2>3. peers[i].addr \in Addrs
    BY <2>2 DEF Entry
  <2> HIDE DEF late1
  <2>4. Processed(late1)
    BY <1>1, <1>4, <2>1, <2>3, ProcessProcessed
  <2>5. n' = Len(peers') /\ late' = TRUE
    BY <2>1, <2>4 DEF n, Processed
  <2>6. frame \in Allocs \cup {None}
    BY DEF IInv, Ranges
  <2> QED
    BY <1>1, <2>4, <2>5, <2>6 DEF TurnKeeps, Processed
<1>5. CASE \E t \in ends : Become(t) /\ frame' = frame
  <2>1. PICK t \in ends : Become(t) /\ frame' = frame
    BY <1>5
  <2>2. i \in 1..Len(Table.peers)
    BY <1>1, <1>2
  <2>3. Mild(Table, down, i)
    BY <1>1, <2>2, StateMild DEF States
  <2>4. Good(down) /\ i \in 1..Len(down.peers)
    BY <2>2, <2>3, MildGood
  <2> HIDE DEF down
  <2>5. MildSet(down, {down}, i) /\ MildSet(down, WithWait({down}), i)
    BY <2>4, HandshakesMild
  <2>6. MildSet(down, Reconnected(down, i), i) /\ MildSet(down, GivenUp(down, i), i)
    BY <2>4, ReconnectsMild
  <2>7. Mild(down, t, i)
    BY <2>1, <2>5, <2>6 DEF MildSet
  <2>8. Mild(Table, t, i)
    BY <2>3, <2>7, MildTrans
  <2> QED
    BY <2>1, <2>8, MildKeeps
<1> QED
  BY <1>3, <1>4, <1>5 DEF TcpPass

LEMMA TickKeeps == ASSUME IInv, Tick PROVE TurnKeeps
<1> DEFINE again == {Table} \cup Handshaken(Table, i) \cup NotHandshaken(Table, i)
           u == [Table EXCEPT
                   !.peers[i] = [@ EXCEPT !.state = "DISCONNECTED", !.rx = None],
                   !.live = @ \ {peers[i].rx}]
           e == [peers[i] EXCEPT !.state = "DISCONNECTED", !.rx = None]
<1>1. TypeOK /\ n \in Nat /\ n = Len(Table.peers) /\ n <= MaxPeers /\ Good(Table)
      /\ Table.peers = peers /\ Table.late = late
  BY InvType, TableIs DEF IInv, Ranges, n
<1>2. i \in 1..n /\ i \in 1..Len(Table.peers)
  BY <1>1 DEF Tick, IInv, Ranges, Places
<1>3. MildSet(Table, again, i)
  BY <1>1, <1>2, HandshakesMild DEF MildSet
<1>4. CASE Same
  BY <1>4, SameKeeps
<1>5. CASE \E t \in again : Become(t) /\ frame' = frame
  BY <1>3, <1>5, MildKeeps DEF MildSet
<1>6. CASE \E t \in again : Become([t EXCEPT !.peers[i].state = "DISCONNECTED"]) /\ frame' = frame
  <2> HIDE DEF again
  <2>1. MildSet(Table, {[t EXCEPT !.peers[i].state = "DISCONNECTED"] : t \in again}, i)
    BY <1>1, <1>2, <1>3, StatesMild DEF States
  <2> QED
    BY <1>6, <2>1, MildKeeps DEF MildSet
<1>7. CASE ~ peers[i].heard /\ Become(u) /\ frame' = frame
  <2>1. Table \in Tables /\ peers \in Seq(Entry) /\ peers[i] \in Entry
    BY <1>1, <1>2, EntriesOf DEF Good
  <2>2. /\ e \in Entry /\ e["rx"] = None /\ e.tcp = peers[i].tcp
        /\ e.reconnect = peers[i].reconnect
    BY <2>1 DEF Entry, States
  <2>3. u = Put(Table, i, e, Swapped(Table, i, "rx", None))
    <3>1. e = [Table.peers[i] EXCEPT !.state = "DISCONNECTED", !.rx = None]
      BY <1>1
    <3>2. u = [Table EXCEPT !.peers = [peers EXCEPT ![i] = e],
                            !.live = Table.live \ {peers[i].rx}]
      BY <1>1, <3>1
    <3>3. peers[i].rx = Table.peers[i]["rx"] /\ {None} \ {None} = {}
      BY <1>1
    <3>4. Table.live \ {peers[i].rx} = Swapped(Table, i, "rx", None)
      BY <3>3 DEF Swapped
    <3> QED
      BY <1>1, <3>1, <3>2, <3>4 DEF Put, Replaced
  <2> HIDE DEF u, e
  <2>4. "rx" \in Fields /\ \A g \in Fields : g # "rx" => e[g] = Table.peers[i][g]
    BY <1>1, <2>2 DEF Fields
  <2>5. PutIn(Table, u, i, e)
    BY <1>1, <1>2, <2>2, <2>3, <2>4, PutFieldGood
  <2>6. /\ Good(u) /\ Len(u.peers) = n /\ u.late = late
        /\ \A r \in 1..n : r # i => u.peers[r] = peers[r]
    BY <1>1, <2>5 DEF PutIn
  <2>7. Table' = u /\ peers' = u.peers /\ late' = u.late
    BY <1>7, <2>6, BecomeIs DEF Become
  <2>8. n' = n /\ Used' = 1..n /\ Used = 1..n
    BY <2>6, <2>7 DEF n, Used
  <2>9. frame' # None /\ ~late' => \E s \in Used' : peers'[s].rx = frame' /\ peers'[s].heard
    <3> SUFFICES ASSUME frame # None, ~late
                 PROVE  \E s \in Used' : peers'[s].rx = frame /\ peers'[s].heard
      BY <1>7, <2>6, <2>7
    <3>1. PICK s \in Used : peers[s].rx = frame /\ peers[s].heard
      BY DEF IInv, FrameIsHeld
    <3>2. s # i /\ s \in 1..n
      BY <1>7, <2>8, <3>1
    <3> QED
      BY <2>6, <2>7, <2>8, <3>1, <3>2
  <2>10. frame' \in Allocs \cup {None}
    BY <1>7 DEF IInv, Ranges
  <2> QED
    BY <1>1, <2>6, <2>7, <2>8, <2>9, <2>10 DEF TurnKeeps
<1> QED
  BY <1>4, <1>5, <1>6, <1>7 DEF Tick

LEMMA TurnInv == ASSUME IInv, TcpPass \/ Tick PROVE IInv'
<1>1. n \in Nat /\ MaxPeers \in Nat
  BY InvType, SizeAssumption
<1>2. TurnKeeps
  BY TcpPassKeeps, TickKeeps
<1>3. /\ pc \in {"tcp", "tick"} /\ pc' = pc /\ i' = i + 1 /\ i <= n /\ i \in Nat
      /\ UNCHANGED <<due, tried, had>>
  BY DEF TcpPass, Tick, Goto, IInv, Ranges
<1>4. Ranges'
  BY <1>1, <1>2, <1>3 DEF IInv, Ranges, TurnKeeps
<1>5. Places'
  <2>1. n' \in Nat /\ n <= n'
    BY <1>2 DEF TurnKeeps
  <2>2. \A x, y, z \in Nat : x <= y /\ y <= z => 1 <= x + 1 /\ x + 1 <= z + 1
    OBVIOUS
  <2>3. 1 <= i' /\ i' <= n' + 1
    BY <1>1, <1>3, <2>1, <2>2
  <2> QED
    BY <1>3, <2>3 DEF Places
<1>6. Turns' /\ FrameIsHeld'
  BY <1>2, <1>3 DEF IInv, Turns, FrameIsHeld, TurnKeeps
<1> QED
  BY <1>2, <1>4, <1>5, <1>6 DEF IInv, TurnKeeps

LEMMA DecodeInv == ASSUME IInv, Decode PROVE IInv'
<1> DEFINE q == [s \in Used |-> [peers[s] EXCEPT !.heard = FALSE]]
<1>1. TypeOK /\ n \in Nat /\ n <= MaxPeers /\ MaxPeers \in Nat /\ Good(Table)
  BY InvType, SizeAssumption DEF IInv, Ranges
<1>2. /\ pc = "decode" /\ pc' = "idle" /\ i' = 0 /\ frame' = None /\ peers' = q /\ late' = FALSE
      /\ UNCHANGED <<live, due, tried, had>>
  BY DEF Decode, Goto
<1>3. \A s \in 1..n : peers[s] \in Entry
  BY <1>1 DEF TypeOK, n
<1>4. q \in Seq(Entry) /\ Len(q) = n
  <2>1. \A s \in 1..n : [peers[s] EXCEPT !.heard = FALSE] \in Entry
    BY <1>3 DEF Entry
  <2> QED
    BY <1>1, <2>1 DEF Used
<1>5. \A r \in 1..n, f \in Fields : q[r][f] = peers[r][f]
  BY <1>3 DEF Used, Fields, Entry
<1> HIDE DEF q
<1>6. Owns(q, live) /\ live \subseteq Allocs
  <2>1. Owns(peers, live) /\ n = Len(peers)
    BY <1>1, TableIs DEF Good, n
  <2> QED
    BY <1>1, <1>4, <1>5, <2>1, SameFields DEF TypeOK
<1>7. Good(Table)' /\ n' = n
  <2>1. Table' = [peers |-> q, live |-> live, late |-> FALSE]
    BY <1>2 DEF Table
  <2>2. [peers |-> q, live |-> live, late |-> FALSE] \in Tables
    BY <1>4, <1>6 DEF Tables
  <2>3. n' = Len(q)
    BY <1>2 DEF n
  <2> QED
    BY <1>4, <1>6, <2>1, <2>2, <2>3 DEF Good
<1>8. (Ranges /\ Places /\ Turns /\ FrameIsHeld)'
  BY <1>1, <1>2, <1>7 DEF IInv, Ranges, Places, Turns, FrameIsHeld
<1> QED
  BY <1>7, <1>8 DEF IInv

LEMMA UnchangedInv == ASSUME IInv, UNCHANGED vars PROVE IInv'
<1>1. UNCHANGED <<peers, live, frame, pc, i, due, tried, had, late>>
  BY DEF vars
<1>2. Good(Table)' /\ n' = n /\ Used' = Used
  BY <1>1, SameGood DEF n, Used
<1>3. (Ranges /\ Places /\ Turns /\ FrameIsHeld)'
  BY <1>1, <1>2 DEF IInv, Ranges, Places, Turns, FrameIsHeld, Due
<1> QED
  BY <1>2, <1>3 DEF IInv

LEMMA NextInv == IInv /\ [Next]_vars => IInv'
<1> SUFFICES ASSUME IInv, [Next]_vars PROVE IInv'
  OBVIOUS
<1>1. CASE Next
  BY <1>1, ConnectInv, ClearInv, StartRecvInv, ReviveInv, MoveOnInv, UdpPacketInv, TurnInv, DecodeInv
     DEF Next
<1>2. CASE UNCHANGED vars
  BY <1>2, UnchangedInv
<1> QED
  BY <1>1, <1>2

LEMMA Invariant == Spec => []IInv
<1>1. Init => IInv
  BY InitInv
<1>2. IInv /\ [Next]_vars => IInv'
  BY NextInv
<1> QED
  BY <1>1, <1>2, PTL DEF Spec

-----------------------------------------------------------------------------
\* The properties of PeerTable.

\* Every variable keeps its type: at most MAX_PEERS entries, and the loops'
\* index within the table or one behind it.
THEOREM TypeCorrect == Spec => []TypeOK
<1>1. IInv => TypeOK
  BY InvType
<1> QED
  BY <1>1, Invariant, PTL

\* What the entries point to has one owner each, none of it was freed, and all
\* that is alive can be freed: whatever is added, heard, replaced and removed.
THEOREM AllocationsHaveOneOwner == Spec => []OwnedOnce
<1>1. IInv => OwnedOnce
  <2> SUFFICES ASSUME IInv PROVE OwnedOnce
    OBVIOUS
  <2>1. TypeOK /\ Owns(peers, live) /\ Used = 1..Len(peers)
    BY InvType, TableIs DEF IInv, Good, Used, n
  <2>2. \A s \in Used, x \in Allocs : x \in Owned(peers[s]) <=> \E f \in Fields : peers[s][f] = x
    <3>1. \A s \in Used : peers[s] \in Entry
      BY <2>1 DEF TypeOK
    <3> QED
      BY <3>1, Constants DEF Owned, Fields
  <2>3. live \subseteq Allocs /\ \A s \in Used : Owned(peers[s]) \subseteq Allocs
    <3>1. \A s \in Used : peers[s] \in Entry
      BY <2>1 DEF TypeOK
    <3> QED
      BY <2>1, <3>1 DEF Owned, TypeOK, Entry
  <2>4. ASSUME NEW x PROVE x \in live <=> x \in UNION {Owned(peers[s]) : s \in Used}
    <3>1. ASSUME x \in live PROVE \E s \in Used : x \in Owned(peers[s])
      BY <2>1, <2>2, <2>3, <3>1 DEF Owns
    <3>2. ASSUME NEW s \in Used, x \in Owned(peers[s]) PROVE x \in live
      <4>1. x \in Allocs /\ x # None
        BY <2>3, <3>2, Constants
      <4> QED
        BY <2>1, <2>2, <3>2, <4>1 DEF Owns
    <3> QED
      BY <3>1, <3>2
  <2>5. live = UNION {Owned(peers[s]) : s \in Used}
    BY <2>4
  <2> QED
    BY <2>1, <2>5 DEF OwnedOnce, Owns
<1> QED
  BY <1>1, Invariant, PTL

\* The pass over the disconnected peers skips none of them, whichever it gives up
\* and removes on its way.
THEOREM EveryPeerGetsItsTurn == Spec => []EveryPeerIsTried
<1>1. IInv => EveryPeerIsTried
  BY DEF IInv, Turns, EveryPeerIsTried
<1> QED
  BY <1>1, Invariant, PTL

\* Unless TCP was waited for or read behind the packet that completed it, the
\* frame the session loop decodes is in a buffer some peer still owns.
THEOREM DecodedFrameLives == Spec => []DecodedFrameIsAlive
<1>1. IInv => DecodedFrameIsAlive
  <2> SUFFICES ASSUME IInv, frame # None, ~late PROVE frame \in {peers[s].rx : s \in Used}
    BY DEF DecodedFrameIsAlive
  <2>1. PICK s \in Used : peers[s].rx = frame
    BY DEF IInv, FrameIsHeld
  <2> QED
    BY <2>1
<1> QED
  BY <1>1, Invariant, PTL

\* The KDE client's clean-up loop leaves half of the peers, whatever their number.
THEOREM HalfThePeersStay == Spec => []ClearLeavesEveryOther
<1>1. IInv => ClearLeavesEveryOther
  <2> SUFFICES ASSUME IInv, pc = "clear", i > n PROVE n = had \div 2
    BY DEF ClearLeavesEveryOther
  <2>1. n \in Nat /\ i \in Nat /\ had \in Nat /\ i <= n + 2 /\ n + i = had + 1
    BY InvType DEF IInv, Ranges, Places
  <2>2. \A x, y, z \in Nat : y > x /\ y <= x + 2 /\ x + y = z + 1 => z = 2 * x \/ z = 2 * x + 1
    OBVIOUS
  <2>3. \A x \in Nat : (2 * x) \div 2 = x /\ (2 * x + 1) \div 2 = x
    OBVIOUS
  <2>4. had = 2 * n \/ had = 2 * n + 1
    BY <2>1, <2>2
  <2> QED
    BY <2>1, <2>3, <2>4
<1> QED
  BY <1>1, Invariant, PTL
=============================================================================
