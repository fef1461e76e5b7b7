-------------------------- MODULE Scheduler_proofs --------------------------
(***************************************************************************)
(* For every capacity, clock and number of entries: the shape of the       *)
(* scheduler's state and the uniqueness of ids, with any number of threads *)
(* that tick and edits at any time; and that nothing fires twice and no    *)
(* day is passed over, if one thread ticks.                                *)
(***************************************************************************)
EXTENDS Scheduler, TLAPS

SlotRecords == [used : BOOLEAN, fired : BOOLEAN, entry : Entries \cup {NoEntry}]
TickRecords == [running : BOOLEAN, slot : 0..Capacity, now : Times]

\* A table whose entries were all added under an id of their own.
Numbered(table) ==
    /\ table \in [Slots -> SlotRecords]
    /\ \A i \in Slots : table[i].used => table[i].entry \in Entries /\ table[i].entry.id < next_id
    /\ \A i, j \in Slots :
        table[i].used /\ table[j].used /\ table[i].entry.id = table[j].entry.id => i = j

TableInv == TypeOK /\ Numbered(slots)

LEMMA EntriesTyped ==
    ASSUME NEW e \in Entries
    PROVE  /\ e.id \in Ids /\ e.start \in Nat /\ e.repeat \in BOOLEAN /\ e.enabled \in BOOLEAN
           /\ [e EXCEPT !.start = @ + Day] \in Entries
           /\ [e EXCEPT !.start = @ + Day].id = e.id
           /\ [e EXCEPT !.start = @ + Day].start = e.start + Day
BY SchedulerAssumption DEF Entries

\* After its callback a slot is free, or it holds the same entry, later.
LEMMA AfterFiringNumbered ==
    ASSUME NEW s \in SlotRecords, s.used => s.entry \in Entries
    PROVE  /\ AfterFiring(s) \in SlotRecords
           /\ AfterFiring(s).used =>
                /\ s.used
                /\ AfterFiring(s).entry \in Entries
                /\ AfterFiring(s).entry.id = s.entry.id
                /\ AfterFiring(s).entry.start = s.entry.start + Day
<1>1. CASE ~ s.used
  BY <1>1 DEF AfterFiring, SlotRecords
<1>2. CASE s.used /\ s.entry.repeat
  <2>1. AfterFiring(s) = [s EXCEPT !.entry = [s.entry EXCEPT !.start = @ + Day]]
    BY <1>2 DEF AfterFiring, SlotRecords
  <2>2. [s.entry EXCEPT !.start = @ + Day] \in Entries
    BY <1>2, EntriesTyped
  <2> QED
    BY <1>2, <2>1, <2>2, EntriesTyped DEF SlotRecords
<1>3. CASE s.used /\ ~ s.entry.repeat
  BY <1>3 DEF AfterFiring, SlotRecords
<1> QED
  BY <1>1, <1>2, <1>3

\* A scan ends the tick, or lets it call the callback of one slot that is due.
LEMMA ScanCases ==
    ASSUME NEW t \in Tickers, NEW table, NEW first \in Nat, first > 0, NEW time, Scan(t, table, first, time)
    PROVE  /\ slots' = table
           /\ \/ tick' = [tick EXCEPT ![t] = Idle] /\ calls' = calls
              \/ \E i \in Slots :
                   /\ first <= i
                   /\ Due(table[i], time)
                   /\ tick' = [tick EXCEPT ![t] = [running |-> TRUE, slot |-> i, now |-> time]]
                   /\ calls' = [calls EXCEPT ![table[i].entry.id] = Append(@, table[i].entry.start)]
BY SchedulerAssumption DEF Scan, Slots

LEMMA ScanKeepsTable ==
    ASSUME TableInv, NEW t \in Tickers, NEW table, NEW first \in Nat, first > 0, NEW time \in Times,
           Numbered(table), Scan(t, table, first, time),
           UNCHANGED <<next_id, now, added, removed, usurpers>>
    PROVE  TableInv'
<1>0. Idle \in TickRecords
  BY SchedulerAssumption DEF Idle, TickRecords, Times
<1>1. slots' = table
  BY ScanCases
<1>2. Numbered(slots)'
  BY <1>1 DEF Numbered
<1>3. tick' \in [Tickers -> TickRecords] /\ calls' \in [Ids -> Seq(Nat)]
  <2>1. CASE tick' = [tick EXCEPT ![t] = Idle] /\ calls' = calls
    BY <1>0, <2>1 DEF TableInv, TypeOK, TickRecords
  <2>2. ASSUME NEW i \in Slots, Due(table[i], time),
               tick' = [tick EXCEPT ![t] = [running |-> TRUE, slot |-> i, now |-> time]],
               calls' = [calls EXCEPT ![table[i].entry.id] = Append(@, table[i].entry.start)]
        PROVE  tick' \in [Tickers -> TickRecords] /\ calls' \in [Ids -> Seq(Nat)]
    <3>1. [running |-> TRUE, slot |-> i, now |-> time] \in TickRecords
      BY SchedulerAssumption DEF TickRecords, Slots
    <3>2. table[i].entry \in Entries
      BY <2>2 DEF Numbered, Due
    <3>3. table[i].entry.id \in Ids /\ table[i].entry.start \in Nat
      BY <3>2 DEF Entries
    <3> QED
      BY <2>2, <3>1, <3>3 DEF TableInv, TypeOK, TickRecords
  <2> QED
    BY <2>1, <2>2, ScanCases
<1> QED
  BY <1>1, <1>2, <1>3 DEF TableInv, TypeOK, Numbered, SlotRecords, TickRecords

LEMMA TableInit == Init => TableInv
<1> SUFFICES ASSUME Init PROVE TableInv
  OBVIOUS
<1>1. Unused \in SlotRecords /\ Idle \in TickRecords
  BY SchedulerAssumption DEF Unused, Idle, SlotRecords, TickRecords, Times
<1>2. TypeOK
  BY <1>1, SchedulerAssumption DEF Init, TypeOK, SlotRecords, TickRecords, Times
<1> QED
  BY <1>1, <1>2 DEF Init, TableInv, Numbered, Unused

LEMMA TableNext == TableInv /\ [Next]_vars => TableInv'
<1> SUFFICES ASSUME TableInv, [Next]_vars PROVE TableInv'
  OBVIOUS
<1> USE DEF TableInv
<1>1. ASSUME NEW start \in Times, NEW repeat \in BOOLEAN, NEW enabled \in BOOLEAN,
             scheduler_add(start, repeat, enabled)
      PROVE  TableInv'
  <2> DEFINE e == [id |-> next_id, start |-> start, repeat |-> repeat, enabled |-> enabled]
             s == [used |-> TRUE, fired |-> FALSE, entry |-> e]
  <2>1. PICK i \in Slots : slots' = [slots EXCEPT ![i] = s] /\ added' = [added EXCEPT ![next_id] = e]
    BY <1>1 DEF scheduler_add
  <2>2. next_id \in Ids /\ next_id' = next_id + 1 /\ UNCHANGED <<now, tick, calls, removed>>
    BY <1>1 DEF scheduler_add
  <2>8. usurpers' \subseteq Ids
    BY <1>1, <2>2 DEF scheduler_add, TypeOK
  <2>3. e \in Entries /\ s \in SlotRecords
    BY <2>2 DEF Entries, SlotRecords, Times
  <2>4. s.used /\ s.entry = e /\ e.id = next_id
    OBVIOUS
  <2> HIDE DEF e, s
  <2>5. slots' \in [Slots -> SlotRecords] /\ added' \in [Ids -> Entries \cup {NoEntry}]
    BY <2>1, <2>3 DEF TypeOK, Numbered
  <2>6. TypeOK'
    BY <2>2, <2>5, <2>8, SchedulerAssumption DEF TypeOK, SlotRecords, Ids
  <2>7. Numbered(slots)'
    <3>1. \A j \in Slots : j # i => slots'[j] = slots[j]
      BY <2>1 DEF Numbered
    <3>2. slots'[i] = s
      BY <2>1 DEF Numbered
    <3>3. ASSUME NEW j \in Slots, slots'[j].used
          PROVE  slots'[j].entry \in Entries /\ slots'[j].entry.id < next_id'
      <4>1. slots'[j].entry \in Entries /\ (j = i \/ slots[j].entry.id < next_id)
        BY <2>3, <2>4, <3>1, <3>2, <3>3 DEF Numbered
      <4>2. slots'[j].entry.id \in Ids
        BY <4>1 DEF Entries
      <4> QED
        BY <2>2, <2>4, <3>1, <3>2, <4>1, <4>2, SchedulerAssumption DEF Ids
    <3>4. ASSUME NEW j \in Slots, NEW k \in Slots, slots'[j].used, slots'[k].used,
                 slots'[j].entry.id = slots'[k].entry.id
          PROVE  j = k
      <4>1. \A l \in Slots : l # i /\ slots'[l].used => slots'[l].entry.id \in Ids /\ slots'[l].entry.id < next_id
        BY <3>1, EntriesTyped DEF Numbered
      <4>2. next_id \in Nat /\ Ids \subseteq Nat
        BY <2>2, SchedulerAssumption DEF Ids
      <4> QED
        BY <2>4, <3>1, <3>2, <3>4, <4>1, <4>2 DEF Numbered
    <3> QED
      BY <2>5, <3>3, <3>4 DEF Numbered
  <2> QED
    BY <2>6, <2>7
<1>2. ASSUME NEW id \in Ids, scheduler_remove(id) PROVE TableInv'
  <2>1. PICK i \in Slots : slots' = [slots EXCEPT ![i].used = FALSE]
    BY <1>2 DEF scheduler_remove
  <2>2. UNCHANGED <<next_id, now, tick, added, calls, usurpers>> /\ removed' = removed \cup {id}
    BY <1>2 DEF scheduler_remove
  <2>3. slots \in [Slots -> SlotRecords]
    BY DEF Numbered
  <2>4. [slots[i] EXCEPT !.used = FALSE] \in SlotRecords /\ ~[slots[i] EXCEPT !.used = FALSE].used
    BY <2>3 DEF SlotRecords
  <2>5. slots'[i] = [slots[i] EXCEPT !.used = FALSE] /\ \A j \in Slots : j # i => slots'[j] = slots[j]
    BY <2>1, <2>3
  <2>6. slots' \in [Slots -> SlotRecords]
    BY <2>1, <2>3, <2>4
  <2>7. \A j \in Slots : slots'[j].used => slots[j].used /\ slots'[j] = slots[j]
    BY <2>4, <2>5
  <2>8. Numbered(slots)'
    BY <2>2, <2>6, <2>7 DEF Numbered
  <2>9. TypeOK'
    BY <2>2, <2>6 DEF TypeOK, SlotRecords
  <2> QED
    BY <2>8, <2>9
<1>3. ASSUME scheduler_clear PROVE TableInv'
  <2>1. slots' \in [Slots -> SlotRecords] /\ \A i \in Slots : ~ slots'[i].used
    BY <1>3 DEF scheduler_clear, TypeOK, SlotRecords
  <2>2. removed' \subseteq Ids
    <3>1. \A i \in Slots : slots[i].used => slots[i].entry.id \in Ids
      BY EntriesTyped DEF Numbered
    <3>2. removed' = removed \cup {slots[i].entry.id : i \in {j \in Slots : slots[j].used}}
      BY <1>3 DEF scheduler_clear
    <3>3. removed \subseteq Ids
      BY DEF TypeOK
    <3> QED
      BY <3>1, <3>2, <3>3
  <2> QED
    BY <1>3, <2>1, <2>2 DEF scheduler_clear, TypeOK, Numbered, SlotRecords
<1>4. ASSUME NEW t \in Tickers, scheduler_tick(t) PROVE TableInv'
  <2>1. now \in Times
    BY DEF TypeOK
  <2> QED
    BY <1>4, <2>1, ScanKeepsTable DEF scheduler_tick
<1>5. ASSUME NEW t \in Tickers, CallbackReturns(t) PROVE TableInv'
  <2> DEFINE i == tick[t].slot
             table == [slots EXCEPT ![i] = AfterFiring(@)]
  <2>1. tick[t].now \in Times /\ i \in 0..Capacity
    BY DEF TypeOK
  <2>2. Scan(t, table, i + 1, tick[t].now) /\ UNCHANGED <<next_id, now, added, removed, usurpers>>
    BY <1>5 DEF CallbackReturns
  <2>3. i + 1 \in Nat /\ i + 1 > 0
    BY <2>1, SchedulerAssumption
  <2>4. \A j \in Slots : slots[j] \in SlotRecords /\ (slots[j].used => slots[j].entry \in Entries)
    BY DEF Numbered
  <2>5. table \in [Slots -> SlotRecords]
    BY <2>4, AfterFiringNumbered DEF Numbered
  <2>6. \A j \in Slots : table[j].used =>
           slots[j].used /\ table[j].entry \in Entries /\ table[j].entry.id = slots[j].entry.id
    BY <2>4, AfterFiringNumbered DEF Numbered
  <2>7. Numbered(table)
    BY <2>5, <2>6 DEF Numbered
  <2> HIDE DEF table, i
  <2> QED
    BY <2>1, <2>2, <2>3, <2>7, ScanKeepsTable
<1>6. CASE ClockAdvances
  BY <1>6, SchedulerAssumption DEF ClockAdvances, TypeOK, Numbered, Times
<1>7. CASE UNCHANGED vars
  BY <1>7 DEF vars, TypeOK, Numbered
<1> QED
  BY <1>1, <1>2, <1>3, <1>4, <1>5, <1>6, <1>7 DEF Next

\* The table, the ticks and the histories have the shape the structures declare.
THEOREM TypeCorrect == Spec => []TypeOK
<1>1. TableInv => TypeOK
  BY DEF TableInv
<1> QED
  BY <1>1, TableInit, TableNext, PTL DEF Spec

\* An id names one entry of the table, however many threads add, remove, clear
\* and tick.
THEOREM IdsAreUnique == Spec => []UniqueIds
<1>1. TableInv => UniqueIds
  BY DEF TableInv, Numbered, UniqueIds
<1> QED
  BY <1>1, TableInit, TableNext, PTL DEF Spec

-----------------------------------------------------------------------------
OneTicker == \A t, u \in Tickers : t = u

Ascending == \A id \in Ids : \A j, k \in 1..Len(calls[id]) : j < k => calls[id][j] < calls[id][k]

\* An entry that no callback runs for was only called for times before its own.
Passed(table) ==
    \A i \in Slots : table[i].used =>
        \A k \in 1..Len(calls[table[i].entry.id]) :
            \/ calls[table[i].entry.id][k] < table[i].entry.start
            \/ calls[table[i].entry.id][k] = table[i].entry.start /\ FiringOf(i)

Fresh == \A id \in Ids : id >= next_id => calls[id] = <<>>

CallInv == TableInv /\ Ascending /\ Passed(slots) /\ Fresh

\* No entry of the table was called for its own time yet.
Rested(table) ==
    \A i \in Slots : table[i].used =>
        \A k \in 1..Len(calls[table[i].entry.id]) : calls[table[i].entry.id][k] < table[i].entry.start

LEMMA ScanKeepsCalls ==
    ASSUME CallInv, NEW t \in Tickers, NEW table, NEW first \in Nat, first > 0, NEW time \in Times,
           Numbered(table), Rested(table), Scan(t, table, first, time),
           UNCHANGED <<next_id, now, added, removed, usurpers>>
    PROVE  CallInv'
<1> USE DEF CallInv
<1>1. TableInv'
  BY ScanKeepsTable
<1>2. slots' = table
  BY ScanCases
<1>3. CASE tick' = [tick EXCEPT ![t] = Idle] /\ calls' = calls
  <2>1. Ascending' /\ Fresh'
    BY <1>3 DEF Ascending, Fresh
  <2>2. Passed(slots)'
    BY <1>2, <1>3 DEF Passed, Rested
  <2> QED
    BY <1>1, <2>1, <2>2
<1>4. ASSUME NEW i \in Slots, Due(table[i], time),
             tick' = [tick EXCEPT ![t] = [running |-> TRUE, slot |-> i, now |-> time]],
             calls' = [calls EXCEPT ![table[i].entry.id] = Append(@, table[i].entry.start)]
      PROVE  CallInv'
  <2> DEFINE id == table[i].entry.id
             start == table[i].entry.start
  <2>1. table[i].used /\ id \in Ids /\ start \in Nat /\ id < next_id
    BY <1>4, EntriesTyped DEF Due, Numbered
  <2>2. calls[id] \in Seq(Nat) /\ \A k \in 1..Len(calls[id]) : calls[id][k] < start
    BY <2>1 DEF Rested, TableInv, TypeOK
  <2>3. calls'[id] = Append(calls[id], start) /\ \A d \in Ids : d # id => calls'[d] = calls[d]
    BY <1>4, <2>1 DEF TableInv, TypeOK
  <2>4. FiringOf(i)'
    BY <1>4 DEF FiringOf, TableInv, TypeOK
  <2>5. \A j \in Slots : table[j].used /\ j # i => table[j].entry.id \in Ids /\ table[j].entry.id # id
    BY <2>1, EntriesTyped DEF Numbered
  <2> HIDE DEF id, start
  <2>6. /\ Len(calls'[id]) = Len(calls[id]) + 1
        /\ calls'[id][Len(calls[id]) + 1] = start
        /\ \A k \in 1..Len(calls[id]) : calls'[id][k] = calls[id][k]
        /\ Len(calls[id]) \in Nat
    BY <2>2, <2>3
  <2>7. Ascending'
    <3>1. ASSUME NEW j \in 1..Len(calls'[id]), NEW k \in 1..Len(calls'[id]), j < k
          PROVE  calls'[id][j] < calls'[id][k]
      <4>1. j \in 1..Len(calls[id])
        BY <2>6, <3>1
      <4>2. CASE k \in 1..Len(calls[id])
        BY <2>1, <2>6, <3>1, <4>1, <4>2 DEF Ascending
      <4>3. CASE k = Len(calls[id]) + 1
        BY <2>2, <2>6, <4>1, <4>3
      <4> QED
        BY <2>6, <4>2, <4>3
    <3> QED
      BY <2>3, <3>1 DEF Ascending
  <2>8. Fresh'
    BY <2>1, <2>3 DEF Fresh, TableInv, TypeOK, Ids
  <2>9. Passed(slots)'
    <3>1. \A k \in 1..Len(calls'[id]) : calls'[id][k] < start \/ calls'[id][k] = start
      BY <2>2, <2>6
    <3>2. ASSUME NEW j \in Slots, table[j].used, NEW k \in 1..Len(calls'[table[j].entry.id])
          PROVE  \/ calls'[table[j].entry.id][k] < table[j].entry.start
                 \/ calls'[table[j].entry.id][k] = table[j].entry.start /\ FiringOf(j)'
      <4>1. CASE j = i
        BY <2>4, <3>1, <3>2, <4>1 DEF id, start
      <4>2. CASE j # i
        BY <2>3, <2>5, <3>2, <4>2 DEF Rested
      <4> QED
        BY <4>1, <4>2
    <3> QED
      BY <1>2, <3>2 DEF Passed
  <2> QED
    BY <1>1, <2>7, <2>8, <2>9
<1> QED
  BY <1>3, <1>4, ScanCases

LEMMA CallInit == Init => CallInv
BY TableInit DEF Init, CallInv, Ascending, Passed, Fresh, Unused

LEMMA CallNext == OneTicker /\ CallInv /\ [Next]_vars => CallInv'
<1> SUFFICES ASSUME OneTicker, CallInv, [Next]_vars PROVE CallInv'
  OBVIOUS
<1> USE DEF CallInv
<1>0. TableInv'
  BY TableNext
<1>1. ASSUME NEW start \in Times, NEW repeat \in BOOLEAN, NEW enabled \in BOOLEAN,
             scheduler_add(start, repeat, enabled)
      PROVE  CallInv'
  <2> DEFINE e == [id |-> next_id, start |-> start, repeat |-> repeat, enabled |-> enabled]
  <2>1. PICK i \in Slots : slots' = [slots EXCEPT ![i] = [used |-> TRUE, fired |-> FALSE, entry |-> e]]
    BY <1>1 DEF scheduler_add
  <2>2. next_id \in Ids /\ next_id' = next_id + 1 /\ UNCHANGED <<tick, calls>>
    BY <1>1 DEF scheduler_add
  <2>3. calls[next_id] = <<>>
    BY <2>2, SchedulerAssumption DEF Fresh, Ids
  <2>4. Ascending'
    BY <2>2 DEF Ascending
  <2>5. Fresh'
    BY <2>2, SchedulerAssumption DEF Fresh, Ids
  <2>6. Passed(slots)'
    <3>1. \A j \in Slots : FiringOf(j)' = FiringOf(j)
      BY <2>2 DEF FiringOf
    <3>2. slots'[i].entry.id = next_id /\ \A j \in Slots : j # i => slots'[j] = slots[j]
      BY <2>1 DEF TableInv, TypeOK
    <3>3. Len(calls'[slots'[i].entry.id]) = 0
      BY <2>2, <2>3, <3>2
    <3> QED
      BY <2>2, <3>1, <3>2, <3>3 DEF Passed
  <2> QED
    BY <1>0, <2>4, <2>5, <2>6
<1>2. ASSUME NEW id \in Ids, scheduler_remove(id) PROVE CallInv'
  <2>1. UNCHANGED <<next_id, tick, calls>>
    BY <1>2 DEF scheduler_remove
  <2>2. \A j \in Slots : slots'[j].used => slots[j].used /\ slots'[j].entry = slots[j].entry
    BY <1>2 DEF scheduler_remove, TableInv, TypeOK
  <2> QED
    BY <1>0, <2>1, <2>2 DEF Ascending, Fresh, Passed, FiringOf
<1>3. ASSUME scheduler_clear PROVE CallInv'
  <2>1. UNCHANGED <<next_id, tick, calls>> /\ \A j \in Slots : ~ slots'[j].used
    BY <1>3 DEF scheduler_clear, TableInv, TypeOK
  <2> QED
    BY <1>0, <2>1 DEF Ascending, Fresh, Passed
<1>4. ASSUME NEW t \in Tickers, scheduler_tick(t) PROVE CallInv'
  <2>1. \A i \in Slots : ~ FiringOf(i)
    BY <1>4 DEF OneTicker, scheduler_tick, FiringOf
  <2>2. Rested(slots)
    BY <2>1 DEF Passed, Rested
  <2>3. now \in Times /\ Numbered(slots)
    BY DEF TableInv, TypeOK
  <2> QED
    BY <1>4, <2>2, <2>3, ScanKeepsCalls DEF scheduler_tick
<1>5. ASSUME NEW t \in Tickers, CallbackReturns(t) PROVE CallInv'
  <2> DEFINE i == tick[t].slot
             table == [slots EXCEPT ![i] = AfterFiring(@)]
  <2>1. tick[t].now \in Times /\ i \in 0..Capacity
    BY DEF TableInv, TypeOK
  <2>2. Scan(t, table, i + 1, tick[t].now) /\ UNCHANGED <<next_id, now, added, removed, usurpers>>
    BY <1>5 DEF CallbackReturns
  <2>3. i + 1 \in Nat /\ i + 1 > 0
    BY <2>1, SchedulerAssumption
  <2>4. \A j \in Slots : slots[j] \in SlotRecords /\ (slots[j].used => slots[j].entry \in Entries)
    BY DEF TableInv, Numbered
  <2>5. table \in [Slots -> SlotRecords]
    BY <2>4, AfterFiringNumbered DEF TableInv, Numbered
  <2>6. \A j \in Slots : table[j].used =>
           slots[j].used /\ table[j].entry \in Entries /\ table[j].entry.id = slots[j].entry.id
    BY <2>4, AfterFiringNumbered DEF TableInv, Numbered
  <2>7. Numbered(table)
    BY <2>5, <2>6 DEF TableInv, Numbered
  <2>8. Rested(table)
    <3> SUFFICES ASSUME NEW j \in Slots, table[j].used, NEW k \in 1..Len(calls[table[j].entry.id])
                 PROVE  calls[table[j].entry.id][k] < table[j].entry.start
      BY DEF Rested
    <3>1. slots[j].used /\ slots[j].entry \in Entries /\ table[j].entry.id = slots[j].entry.id
      BY <2>4, <2>6
    <3>2. \/ calls[slots[j].entry.id][k] < slots[j].entry.start
          \/ calls[slots[j].entry.id][k] = slots[j].entry.start /\ FiringOf(j)
      BY <3>1 DEF Passed
    <3>3. CASE j = i
      <4>1. table[j] = AfterFiring(slots[j])
        BY <3>3 DEF TableInv, TypeOK
      <4>2. table[j].entry.start = slots[j].entry.start + Day
        BY <2>4, <4>1, AfterFiringNumbered
      <4>3. slots[j].entry.start \in Nat /\ calls[slots[j].entry.id] \in Seq(Nat)
        BY <3>1, EntriesTyped DEF TableInv, TypeOK
      <4> HIDE DEF table, i
      <4>4. calls[slots[j].entry.id][k] \in Nat
        BY <3>1, <4>3
      <4>5. Day \in Nat /\ Day > 0
        BY SchedulerAssumption
      <4>6. calls[slots[j].entry.id][k] < slots[j].entry.start + Day
        BY <3>2, <4>3, <4>4, <4>5
      <4> QED
        BY <3>1, <4>2, <4>6
    <3>4. CASE j # i
      <4>1. ~ FiringOf(j)
        BY <3>4 DEF OneTicker, FiringOf
      <4>2. table[j] = slots[j]
        BY <3>4 DEF TableInv, TypeOK
      <4> QED
        BY <3>2, <4>1, <4>2
    <3> QED
      BY <3>3, <3>4
  <2> HIDE DEF table, i
  <2> QED
    BY <2>1, <2>2, <2>3, <2>7, <2>8, ScanKeepsCalls
<1>6. CASE ClockAdvances
  BY <1>0, <1>6 DEF ClockAdvances, Ascending, Passed, Fresh, FiringOf
<1>7. CASE UNCHANGED vars
  BY <1>0, <1>7 DEF vars, Ascending, Passed, Fresh, FiringOf
<1> QED
  BY <1>1, <1>2, <1>3, <1>4, <1>5, <1>6, <1>7 DEF Next

\* If one thread ticks, no callback is called twice for one occurrence of an
\* entry, whatever the callback and other threads do to the table meanwhile.
THEOREM OneTickerFiresOnce == ASSUME OneTicker PROVE Spec => []FiresOnce
<1>1. CallInv => FiresOnce
  <2> SUFFICES ASSUME CallInv, NEW id \in Ids,
                      NEW j \in 1..Len(calls[id]), NEW k \in 1..Len(calls[id]), calls[id][j] = calls[id][k]
               PROVE  j = k
    BY DEF FiresOnce
  <2>1. calls[id] \in Seq(Nat)
    BY DEF CallInv, TableInv, TypeOK
  <2>2. calls[id][j] \in Nat /\ calls[id][k] \in Nat /\ j \in Nat /\ k \in Nat
    BY <2>1
  <2> QED
    BY <2>2 DEF CallInv, Ascending
<1>2. CallInv /\ [Next]_vars => CallInv'
  BY CallNext
<1> QED
  BY <1>1, <1>2, CallInit, PTL DEF Spec

-----------------------------------------------------------------------------
\* The days of an entry that was neither removed nor put in a running one's place.
Cared == {id \in Ids \ (removed \cup usurpers) : added[id] # NoEntry}

\* Slot i holds the entry of the id, d days after its first.
Waiting(table, id, i, d) ==
    /\ table[i].used /\ table[i].entry.id = id /\ table[i].entry.repeat = added[id].repeat
    /\ d \in Nat /\ table[i].entry.start = added[id].start + Day * d
    /\ ~added[id].repeat => d = 0

\* The one-shot entry was called and is out of the table.
Done(table, id) ==
    /\ ~added[id].repeat /\ calls[id] = <<added[id].start>>
    /\ \A i \in Slots : table[i].used => table[i].entry.id # id

\* The entry whose callback runs is still of the day it is called for.
InCall(id, i) ==
    /\ calls[id] # <<>> /\ Waiting(slots, id, i, Len(calls[id]) - 1)
    /\ ~added[id].repeat => calls[id] = <<added[id].start>>

AtRest(table) ==
    \A id \in Cared : (\E i \in Slots : Waiting(table, id, i, Len(calls[id]))) \/ Done(table, id)

Waits ==
    \A id \in Cared :
        \/ \E i \in Slots : IF FiringOf(i) THEN InCall(id, i)
                            ELSE Waiting(slots, id, i, Len(calls[id]))
        \/ Done(slots, id)

DayInv == CallInv /\ Waits

LEMMA AfterFiringDays ==
    ASSUME NEW s \in SlotRecords, s.used, s.entry \in Entries
    PROVE  /\ s.entry.repeat => /\ AfterFiring(s).used /\ AfterFiring(s).entry.repeat
                                /\ AfterFiring(s).entry.id = s.entry.id
                                /\ AfterFiring(s).entry.start = s.entry.start + Day
           /\ ~s.entry.repeat => ~AfterFiring(s).used
<1>1. CASE s.entry.repeat
  <2>1. AfterFiring(s) = [s EXCEPT !.entry = [s.entry EXCEPT !.start = @ + Day]]
    BY <1>1 DEF AfterFiring, SlotRecords
  <2>2. [s.entry EXCEPT !.start = @ + Day].repeat = s.entry.repeat
    BY DEF Entries
  <2> QED
    BY <1>1, <2>1, <2>2, EntriesTyped DEF SlotRecords
<1>2. CASE ~s.entry.repeat
  BY <1>2 DEF AfterFiring, SlotRecords
<1> QED
  BY <1>1, <1>2

\* The first starts and the days between are numbers.
LEMMA Appended ==
    ASSUME NEW c \in Seq(Nat), NEW t \in Nat
    PROVE  /\ Append(c, t) # <<>> /\ Len(Append(c, t)) - 1 = Len(c)
           /\ Len(c) = 0 => Append(c, t) = <<t>>
<1>1. Len(Append(c, t)) = Len(c) + 1 /\ Len(c) \in Nat
  OBVIOUS
<1>2. Len(<<>>) = 0
  OBVIOUS
<1>3. Append(c, t) # <<>>
  BY <1>1, <1>2
<1>4. Len(c) = 0 => c = <<>>
  OBVIOUS
<1>5. Append(<<>>, t) = <<t>>
  OBVIOUS
<1>6. Len(c) = 0 => Append(c, t) = <<t>>
  <2>1. c = <<>> => Append(c, t) = Append(<<>>, t)
    OBVIOUS
  <2> QED
    BY <1>4, <1>5, <2>1
<1>7. Len(Append(c, t)) - 1 = Len(c)
  BY <1>1
<1> QED
  BY <1>3, <1>6, <1>7

LEMMA DaysTyped ==
    ASSUME TypeOK, NEW id \in Ids, added[id] # NoEntry
    PROVE  added[id] \in Entries /\ added[id].start \in Nat /\ calls[id] \in Seq(Nat)
           /\ Len(calls[id]) \in Nat /\ Day \in Nat
<1>1. added[id] \in Entries /\ calls[id] \in Seq(Nat)
  BY DEF TypeOK
<1>2. added[id].start \in Nat
  BY <1>1, EntriesTyped
<1>3. Len(calls[id]) \in Nat
  BY <1>1
<1> QED
  BY <1>1, <1>2, <1>3, SchedulerAssumption

LEMMA ScanWaits ==
    ASSUME OneTicker, TypeOK, NEW t \in Tickers, NEW table, NEW first \in Nat, first > 0, NEW time,
           Numbered(table), AtRest(table), Scan(t, table, first, time),
           UNCHANGED <<next_id, now, added, removed, usurpers>>
    PROVE  Waits'
<1>1. slots' = table /\ Cared' = Cared
  BY ScanCases DEF Cared
<1>2. CASE tick' = [tick EXCEPT ![t] = Idle] /\ calls' = calls
  <2>1. \A i \in Slots : ~FiringOf(i)'
    BY <1>2 DEF OneTicker, FiringOf, TypeOK, Idle
  <2>2. \A id \in Cared, i \in Slots :
           Waiting(table, id, i, Len(calls[id])) => Waiting(slots, id, i, Len(calls[id]))'
    BY <1>1, <1>2 DEF Waiting
  <2>3. \A id \in Cared : Done(table, id) => Done(slots, id)'
    BY <1>1, <1>2 DEF Done
  <2> QED
    BY <1>1, <2>1, <2>2, <2>3 DEF Waits, AtRest
<1>3. ASSUME NEW i \in Slots, Due(table[i], time),
             tick' = [tick EXCEPT ![t] = [running |-> TRUE, slot |-> i, now |-> time]],
             calls' = [calls EXCEPT ![table[i].entry.id] = Append(@, table[i].entry.start)]
      PROVE  Waits'
  <2> DEFINE new == table[i].entry.id
             start == table[i].entry.start
  <2>1. table[i].used /\ new \in Ids /\ start \in Nat
    BY <1>3, EntriesTyped DEF Due, Numbered
  <2>2. \A j \in Slots : FiringOf(j)' <=> j = i
    BY <1>3 DEF OneTicker, FiringOf, TypeOK
  <2>3. calls'[new] = Append(calls[new], start) /\ \A d \in Ids : d # new => calls'[d] = calls[d]
    BY <1>3, <2>1 DEF TypeOK
  <2> SUFFICES ASSUME NEW id \in Cared
               PROVE  \/ \E j \in Slots : IF FiringOf(j)' THEN InCall(id, j)'
                                          ELSE Waiting(slots, id, j, Len(calls[id]))'
                      \/ Done(slots, id)'
    BY <1>1 DEF Waits
  <2>4. id \in Ids /\ added[id] # NoEntry
    BY DEF Cared
  <2>5. CASE Waiting(table, id, i, Len(calls[id]))
    <3>1. id = new
      BY <2>5 DEF Waiting
    <3>2. /\ calls[id] \in Seq(Nat) /\ calls'[id] = Append(calls[id], start)
          /\ added[id].start \in Nat /\ Day \in Nat
      BY <2>3, <2>4, <3>1, DaysTyped
    <3>3. /\ calls'[id] # <<>> /\ Len(calls'[id]) - 1 = Len(calls[id])
          /\ (Len(calls[id]) = 0 => calls'[id] = <<start>>)
      <4> DEFINE c == calls[id]
      <4>1. c \in Seq(Nat) /\ calls'[id] = Append(c, start)
        BY <3>2
      <4> HIDE DEF c, start
      <4>2. start \in Nat
        BY <2>1 DEF start
      <4> QED
        BY <4>1, <4>2, Appended DEF c
    <3>4. Waiting(slots, id, i, Len(calls[id]) - 1)'
      BY <1>1, <2>5, <3>3 DEF Waiting
    <3>5. ~added[id].repeat => calls'[id] = <<added[id].start>>
      <4> SUFFICES ASSUME ~added[id].repeat PROVE calls'[id] = <<added[id].start>>
        OBVIOUS
      <4>1. Len(calls[id]) = 0 /\ start = added[id].start + Day * Len(calls[id])
        BY <2>5 DEF Waiting
      <4>2. start = added[id].start
        BY <3>2, <4>1
      <4> QED
        BY <3>3, <4>1, <4>2
    <3>6. InCall(id, i)'
      BY <3>3, <3>4, <3>5 DEF InCall
    <3> QED
      BY <2>2, <3>6
  <2>6. ASSUME NEW j \in Slots, j # i, Waiting(table, id, j, Len(calls[id])) PROVE Waiting(slots, id, j, Len(calls[id]))'
    <3>1. id # new
      BY <2>1, <2>6 DEF Waiting, Numbered
    <3> QED
      BY <1>1, <2>3, <2>4, <2>6, <3>1 DEF Waiting
  <2>7. CASE Done(table, id)
    <3>1. id # new
      BY <2>1, <2>7 DEF Done
    <3>2. Done(slots, id)'
      BY <1>1, <2>3, <2>4, <2>7, <3>1 DEF Done
    <3> QED
      BY <3>2
  <2> QED
    BY <2>2, <2>5, <2>6, <2>7 DEF AtRest
<1> QED
  BY <1>2, <1>3, ScanCases

\* When the callback returns, the entry goes on to its next day or out of the table.
LEMMA ReturnRests ==
    ASSUME OneTicker, TableInv, Waits, NEW t \in Tickers, tick[t].running, NEW table,
           table = [slots EXCEPT ![tick[t].slot] = AfterFiring(@)]
    PROVE  AtRest(table)
<1> DEFINE i == tick[t].slot
<1>1. \A j \in Slots : FiringOf(j) <=> j = i
  BY DEF OneTicker, FiringOf
<1>2. \A j \in Slots : slots[j] \in SlotRecords /\ (slots[j].used => slots[j].entry \in Entries)
  BY DEF TableInv, Numbered
<1>3. \A j \in Slots : table[j] = IF j = i THEN AfterFiring(slots[j]) ELSE slots[j]
  BY DEF TableInv, TypeOK
<1> HIDE DEF i
<1>4. \A j \in Slots : table[j].used => slots[j].used /\ table[j].entry.id = slots[j].entry.id
  BY <1>2, <1>3, AfterFiringNumbered
<1> SUFFICES ASSUME NEW id \in Cared
             PROVE  (\E j \in Slots : Waiting(table, id, j, Len(calls[id]))) \/ Done(table, id)
  BY DEF AtRest
<1>5. /\ id \in Ids /\ added[id] \in Entries /\ added[id].start \in Nat
      /\ calls[id] \in Seq(Nat) /\ Len(calls[id]) \in Nat /\ Day \in Nat
  BY DaysTyped DEF Cared, TableInv
<1>6. ASSUME NEW j \in Slots, FiringOf(j), InCall(id, j)
      PROVE  Waiting(table, id, j, Len(calls[id])) \/ Done(table, id)
  <2>1. /\ slots[j].used /\ slots[j].entry.id = id /\ slots[j].entry.repeat = added[id].repeat
        /\ slots[j].entry.start = added[id].start + Day * (Len(calls[id]) - 1)
        /\ Len(calls[id]) - 1 \in Nat
    BY <1>6 DEF InCall, Waiting
  <2>2. table[j] = AfterFiring(slots[j]) /\ slots[j] \in SlotRecords /\ slots[j].entry \in Entries
    BY <1>1, <1>2, <1>3, <1>6, <2>1
  <2>3. CASE added[id].repeat
    <3>1. /\ table[j].used /\ table[j].entry.repeat /\ table[j].entry.id = id
          /\ table[j].entry.start = slots[j].entry.start + Day
      BY <2>1, <2>2, <2>3, AfterFiringDays
    <3>2. \A a, d, l \in Nat : l - 1 \in Nat => (a + d * (l - 1)) + d = a + d * l
      OBVIOUS
    <3>3. table[j].entry.start = added[id].start + Day * Len(calls[id])
      BY <1>5, <2>1, <3>1, <3>2
    <3>4. table[j].entry.repeat = added[id].repeat
      BY <2>2, <2>3, <1>5, <3>1, AfterFiringNumbered, EntriesTyped
    <3> QED
      BY <1>5, <2>3, <3>1, <3>3, <3>4 DEF Waiting
  <2>4. CASE ~added[id].repeat
    <3>1. ~table[j].used
      BY <2>1, <2>2, <2>4, AfterFiringDays
    <3>2. \A k \in Slots : table[k].used => table[k].entry.id # id
      BY <1>4, <2>1, <3>1 DEF TableInv, Numbered
    <3> QED
      BY <1>6, <2>4, <3>2 DEF Done, InCall
  <2> QED
    BY <2>3, <2>4
<1>7. ASSUME NEW j \in Slots, ~FiringOf(j), Waiting(slots, id, j, Len(calls[id]))
      PROVE  Waiting(table, id, j, Len(calls[id]))
  BY <1>1, <1>3, <1>7 DEF Waiting
<1>8. Done(slots, id) => Done(table, id)
  BY <1>4 DEF Done
<1> QED
  BY <1>6, <1>7, <1>8 DEF Waits

LEMMA DayNext == OneTicker /\ DayInv /\ [Next]_vars => DayInv'
<1> SUFFICES ASSUME OneTicker, DayInv, [Next]_vars PROVE Waits'
  BY CallNext DEF DayInv
<1>0. CallInv /\ TableInv /\ TypeOK /\ Numbered(slots) /\ Waits
  BY DEF DayInv, CallInv, TableInv
<1>1. ASSUME NEW start \in Times, NEW repeat \in BOOLEAN, NEW enabled \in BOOLEAN,
             scheduler_add(start, repeat, enabled)
      PROVE  Waits'
  <2> DEFINE e == [id |-> next_id, start |-> start, repeat |-> repeat, enabled |-> enabled]
  <2>1. PICK i \in Slots :
           /\ ~slots[i].used
           /\ slots' = [slots EXCEPT ![i] = [used |-> TRUE, fired |-> FALSE, entry |-> e]]
           /\ added' = [added EXCEPT ![next_id] = e]
           /\ usurpers' = IF FiringOf(i) THEN usurpers \cup {next_id} ELSE usurpers
    BY <1>1 DEF scheduler_add
  <2>2. next_id \in Ids /\ UNCHANGED <<tick, calls, removed>> /\ calls[next_id] = <<>>
    BY <1>0, <1>1, SchedulerAssumption DEF scheduler_add, CallInv, Fresh, Ids
  <2>3. /\ slots'[i].used /\ slots'[i].entry = e /\ \A j \in Slots : j # i => slots'[j] = slots[j]
        /\ added'[next_id] = e /\ \A d \in Ids : d # next_id => added'[d] = added[d]
    BY <1>0, <2>1, <2>2 DEF TypeOK
  <2>4. \A j \in Slots : FiringOf(j)' <=> FiringOf(j)
    BY <2>2 DEF FiringOf
  <2>5. e.id = next_id /\ e.start = start /\ e.repeat = repeat /\ start \in Nat /\ Day \in Nat
    BY SchedulerAssumption DEF Times
  <2> HIDE DEF e
  <2> SUFFICES ASSUME NEW id \in Cared'
               PROVE  \/ \E j \in Slots : IF FiringOf(j)' THEN InCall(id, j)'
                                          ELSE Waiting(slots, id, j, Len(calls[id]))'
                      \/ Done(slots, id)'
    BY DEF Waits
  <2>6. CASE id = next_id
    <3>1. ~FiringOf(i)'
      BY <2>1, <2>4, <2>6 DEF Cared
    <3>2. Len(calls'[id]) = 0
      BY <2>2, <2>6
    <3>3. Waiting(slots, id, i, Len(calls[id]))'
      BY <2>3, <2>5, <2>6, <3>2 DEF Waiting
    <3> QED
      BY <3>1, <3>3
  <2>7. CASE id # next_id
    <3>1. id \in Cared /\ added'[id] = added[id] /\ calls' = calls
      BY <2>1, <2>2, <2>3, <2>7 DEF Cared
    <3>2. \A j \in Slots, d \in Nat : Waiting(slots, id, j, d) => slots'[j] = slots[j]
      BY <2>1, <2>3 DEF Waiting
    <3>3. ASSUME NEW j \in Slots, IF FiringOf(j) THEN InCall(id, j) ELSE Waiting(slots, id, j, Len(calls[id]))
          PROVE  IF FiringOf(j)' THEN InCall(id, j)' ELSE Waiting(slots, id, j, Len(calls[id]))'
      BY <2>4, <3>1, <3>2, <3>3 DEF InCall, Waiting
    <3>4. Done(slots, id) => Done(slots, id)'
      BY <2>3, <2>5, <2>7, <3>1 DEF Done
    <3> QED
      BY <1>0, <3>1, <3>3, <3>4 DEF Waits
  <2> QED
    BY <2>6, <2>7
<1>2. ASSUME NEW old \in Ids, scheduler_remove(old) PROVE Waits'
  <2>1. PICK i \in Slots : slots[i].entry.id = old /\ slots' = [slots EXCEPT ![i].used = FALSE]
    BY <1>2 DEF scheduler_remove
  <2>2. UNCHANGED <<tick, added, calls, usurpers>> /\ removed' = removed \cup {old}
    BY <1>2 DEF scheduler_remove
  <2>3. /\ \A j \in Slots : j # i => slots'[j] = slots[j]
        /\ \A j \in Slots : slots'[j].used => slots[j].used /\ slots'[j].entry = slots[j].entry
    BY <1>0, <2>1 DEF TypeOK
  <2>4. \A j \in Slots : FiringOf(j)' <=> FiringOf(j)
    BY <2>2 DEF FiringOf
  <2> SUFFICES ASSUME NEW id \in Cared'
               PROVE  \/ \E j \in Slots : IF FiringOf(j)' THEN InCall(id, j)'
                                          ELSE Waiting(slots, id, j, Len(calls[id]))'
                      \/ Done(slots, id)'
    BY DEF Waits
  <2>5. id \in Cared /\ id # old
    BY <2>2 DEF Cared
  <2>6. \A j \in Slots, d \in Nat : Waiting(slots, id, j, d) => slots'[j] = slots[j]
    BY <2>1, <2>3, <2>5 DEF Waiting
  <2>7. ASSUME NEW j \in Slots, IF FiringOf(j) THEN InCall(id, j) ELSE Waiting(slots, id, j, Len(calls[id]))
        PROVE  IF FiringOf(j)' THEN InCall(id, j)' ELSE Waiting(slots, id, j, Len(calls[id]))'
    BY <2>2, <2>4, <2>6, <2>7 DEF InCall, Waiting
  <2>8. Done(slots, id) => Done(slots, id)'
    BY <2>2, <2>3 DEF Done
  <2> QED
    BY <1>0, <2>5, <2>7, <2>8 DEF Waits
<1>3. ASSUME scheduler_clear PROVE Waits'
  <2>1. /\ UNCHANGED <<tick, added, calls, usurpers>> /\ \A j \in Slots : ~slots'[j].used
        /\ removed' = removed \cup {slots[j].entry.id : j \in {k \in Slots : slots[k].used}}
    BY <1>0, <1>3 DEF scheduler_clear, TypeOK
  <2> SUFFICES ASSUME NEW id \in Cared' PROVE Done(slots, id)'
    BY DEF Waits
  <2>2. id \in Cared /\ \A j \in Slots : slots[j].used => slots[j].entry.id # id
    BY <2>1 DEF Cared
  <2>3. Done(slots, id)
    BY <1>0, <2>2 DEF Waits, InCall, Waiting
  <2> QED
    BY <2>1, <2>3 DEF Done
<1>4. ASSUME NEW t \in Tickers, scheduler_tick(t) PROVE Waits'
  <2>1. \A i \in Slots : ~ FiringOf(i)
    BY <1>4 DEF OneTicker, scheduler_tick, FiringOf
  <2>2. AtRest(slots)
    BY <1>0, <2>1 DEF Waits, AtRest
  <2> QED
    BY <1>0, <1>4, <2>2, ScanWaits DEF scheduler_tick
<1>5. ASSUME NEW t \in Tickers, CallbackReturns(t) PROVE Waits'
  <2> DEFINE i == tick[t].slot
             table == [slots EXCEPT ![i] = AfterFiring(@)]
  <2>1. i \in 0..Capacity
    BY <1>0 DEF TypeOK
  <2>2. Scan(t, table, i + 1, tick[t].now) /\ UNCHANGED <<next_id, now, added, removed, usurpers>>
    BY <1>5 DEF CallbackReturns
  <2>3. i + 1 \in Nat /\ i + 1 > 0
    BY <2>1, SchedulerAssumption
  <2>4. \A j \in Slots : slots[j] \in SlotRecords /\ (slots[j].used => slots[j].entry \in Entries)
    BY <1>0 DEF Numbered
  <2>5. table \in [Slots -> SlotRecords]
    BY <1>0, <2>4, AfterFiringNumbered DEF Numbered
  <2>6. \A j \in Slots : table[j].used =>
           slots[j].used /\ table[j].entry \in Entries /\ table[j].entry.id = slots[j].entry.id
    BY <1>0, <2>4, AfterFiringNumbered DEF Numbered
  <2>7. Numbered(table)
    BY <1>0, <2>5, <2>6 DEF Numbered
  <2>8. tick[t].running
    BY <1>5 DEF CallbackReturns
  <2>9. AtRest(table)
    BY <1>0, <2>8, ReturnRests
  <2> HIDE DEF table, i
  <2> QED
    BY <1>0, <2>2, <2>3, <2>7, <2>9, ScanWaits
<1>6. CASE ClockAdvances
  BY <1>0, <1>6 DEF ClockAdvances, Waits, Cared, FiringOf, InCall, Waiting, Done
<1>7. CASE UNCHANGED vars
  BY <1>0, <1>7 DEF vars, Waits, Cared, FiringOf, InCall, Waiting, Done
<1> QED
  BY <1>1, <1>2, <1>3, <1>4, <1>5, <1>6, <1>7 DEF Next

\* If one thread ticks, no day of an entry is passed over: an entry that nobody removed
\* waits for the day after those it was called for, or was one-shot and is done.
THEOREM OneTickerSkipsNone == ASSUME OneTicker PROVE Spec => []NoneSkipped
<1>1. Init => DayInv
  BY CallInit DEF Init, DayInv, Waits, Cared
<1>2. DayInv => NoneSkipped
  <2> SUFFICES ASSUME DayInv, NEW id \in Ids \ (removed \cup usurpers), added[id] # NoEntry
               PROVE  \/ \E i \in Slots : slots[i].used /\ slots[i].entry.id = id /\ WaitsFor(i)
                      \/ ~added[id].repeat /\ calls[id] = <<added[id].start>>
    BY DEF NoneSkipped
  <2>1. id \in Cared /\ Len(calls[id]) \in Nat
    BY DaysTyped DEF Cared, DayInv, CallInv, TableInv
  <2>2. ASSUME NEW i \in Slots, IF FiringOf(i) THEN InCall(id, i) ELSE Waiting(slots, id, i, Len(calls[id]))
        PROVE  slots[i].used /\ slots[i].entry.id = id /\ WaitsFor(i)
    <3>1. CASE FiringOf(i)
      BY <2>2, <3>1 DEF InCall, Waiting, WaitsFor
    <3>2. CASE ~FiringOf(i)
      <4>1. Len(calls[id]) - 0 = Len(calls[id])
        BY <2>1
      <4>2. /\ slots[i].used /\ slots[i].entry.id = id
            /\ slots[i].entry.start = added[id].start + Day * Len(calls[id])
        BY <2>2, <3>2 DEF Waiting
      <4> QED
        BY <3>2, <4>1, <4>2 DEF WaitsFor
    <3> QED
      BY <3>1, <3>2
  <2> QED
    BY <2>1, <2>2 DEF DayInv, Waits, Done
<1>3. DayInv /\ [Next]_vars => DayInv'
  BY DayNext
<1> QED
  BY <1>1, <1>2, <1>3, PTL DEF Spec
=============================================================================
