----------------------------- MODULE Scheduler -----------------------------
(***************************************************************************)
(* The stream scheduler: a table of entries under a mutex, edited by any   *)
(* thread and driven by threads that call scheduler_tick.  A tick gives    *)
(* the mutex back while the callback runs, so whatever the table is then   *)
(* is what the rest of the tick finds.                                     *)
(*                                                                         *)
(* An action is what a thread does in one hold of the mutex.  The callback *)
(* is counted from the moment the tick lets go of the mutex to call it.    *)
(***************************************************************************)
EXTENDS Integers, Sequences, FiniteSets

CONSTANTS
    Capacity,           \* SCHEDULER_MAX_ENTRIES
    Tickers,            \* threads that call scheduler_tick
    Day,                \* DAY_US, in steps of the clock
    MaxTime,            \* the clock stops here
    MaxAdds             \* entries added in one behaviour

ASSUME SchedulerAssumption ==
    /\ {Capacity, Day} \subseteq Nat \ {0}
    /\ {MaxTime, MaxAdds} \subseteq Nat

Slots == 1..Capacity
Ids == 1..MaxAdds
Times == 0..MaxTime
Entries == [id : Ids, start : Nat, repeat : BOOLEAN, enabled : BOOLEAN]
NoEntry == [id |-> 0, start |-> 0, repeat |-> FALSE, enabled |-> FALSE]
Unused == [used |-> FALSE, fired |-> FALSE, entry |-> NoEntry]
Idle == [running |-> FALSE, slot |-> 0, now |-> 0]

VARIABLES
    slots,      \* the table
    next_id,
    now,        \* the wall clock the callers of scheduler_tick read
    tick,       \* per thread: the slot whose callback it is in, and its now_us
    added,      \* history: the entry scheduler_add was given under each id
    calls,      \* history: per id, the start times its callback was called for
    removed,    \* history: the ids removed or cleared
    usurpers    \* history: the ids added to a slot whose callback was running

vars == <<slots, next_id, now, tick, added, calls, removed, usurpers>>

Init ==
    /\ slots = [i \in Slots |-> Unused]
    /\ next_id = 1
    /\ now = 0
    /\ tick = [t \in Tickers |-> Idle]
    /\ added = [id \in Ids |-> NoEntry]
    /\ calls = [id \in Ids |-> <<>>]
    /\ removed = {} /\ usurpers = {}

\* A tick is in the callback of slot i.
FiringOf(i) == \E t \in Tickers : tick[t].running /\ tick[t].slot = i

-----------------------------------------------------------------------------
\* The first free slot; a full table refuses the entry and changes nothing.
scheduler_add(start, repeat, enabled) ==
    /\ next_id \in Ids
    /\ \E i \in Slots :
         /\ ~slots[i].used
         /\ \A j \in 1..(i - 1) : slots[j].used
         /\ LET e == [id |-> next_id, start |-> start, repeat |-> repeat, enabled |-> enabled] IN
            /\ slots' = [slots EXCEPT ![i] = [used |-> TRUE, fired |-> FALSE, entry |-> e]]
            /\ added' = [added EXCEPT ![next_id] = e]
            /\ usurpers' = IF FiringOf(i) THEN usurpers \cup {next_id} ELSE usurpers
    /\ next_id' = next_id + 1
    /\ UNCHANGED <<now, tick, calls, removed>>

scheduler_remove(id) ==
    /\ \E i \in Slots :
         /\ slots[i].used /\ slots[i].entry.id = id
         /\ slots' = [slots EXCEPT ![i].used = FALSE]
    /\ removed' = removed \cup {id}
    /\ UNCHANGED <<next_id, now, tick, added, calls, usurpers>>

scheduler_clear ==
    /\ slots' = [i \in Slots |-> [slots[i] EXCEPT !.used = FALSE, !.fired = FALSE]]
    /\ removed' = removed \cup {slots[i].entry.id : i \in {j \in Slots : slots[j].used}}
    /\ UNCHANGED <<next_id, now, tick, added, calls, usurpers>>

\* Variant: the test of start_us is off by one.
DueLate(s, time) == s.used /\ ~s.fired /\ s.entry.enabled /\ s.entry.start < time

\* The slot fires at this time.
Due(s, time) == s.used /\ ~s.fired /\ s.entry.enabled /\ s.entry.start <= time

\* Variant: a one-shot entry stays in the table.
AfterFiringKept(s) ==
    IF s.entry.repeat THEN [s EXCEPT !.entry.start = @ + Day] ELSE s

\* Variant: a repeating entry that is a day late jumps to the day after.
AfterFiringJump(s) ==
    IF s.entry.repeat THEN [s EXCEPT !.entry.start = @ + 2 * Day]
    ELSE [s EXCEPT !.fired = TRUE, !.used = FALSE]

\* What the tick does to the slot after its callback, whoever is in it now.
AfterFiring(s) ==
    IF ~s.used THEN s
    ELSE IF s.entry.repeat THEN [s EXCEPT !.entry.start = @ + Day]
    ELSE [s EXCEPT !.fired = TRUE, !.used = FALSE]

\* The scan of the table from slot `first' on: up to the next slot that fires,
\* or to the end of the table and of the tick.
Scan(t, table, first, time) ==
    LET due == {i \in first..Capacity : Due(table[i], time)} IN
    /\ slots' = table
    /\ IF due = {}
       THEN /\ tick' = [tick EXCEPT ![t] = Idle]
            /\ UNCHANGED calls
       ELSE \E i \in due :
            /\ \A j \in due : i <= j
            /\ tick' = [tick EXCEPT ![t] = [running |-> TRUE, slot |-> i, now |-> time]]
            /\ calls' = [calls EXCEPT ![table[i].entry.id] = Append(@, table[i].entry.start)]

scheduler_tick(t) ==
    /\ ~tick[t].running
    /\ Scan(t, slots, 1, now)
    /\ UNCHANGED <<next_id, now, added, removed, usurpers>>

\* The callback returns: the tick takes the mutex again and goes on.
CallbackReturns(t) ==
    /\ tick[t].running
    /\ LET i == tick[t].slot
       IN  Scan(t, [slots EXCEPT ![i] = AfterFiring(@)], i + 1, tick[t].now)
    /\ UNCHANGED <<next_id, now, added, removed, usurpers>>

ClockAdvances ==
    /\ now < MaxTime
    /\ now' = now + 1
    /\ UNCHANGED <<slots, next_id, tick, added, calls, removed, usurpers>>

Next ==
    \/ \E start \in Times, repeat \in BOOLEAN, enabled \in BOOLEAN :
         scheduler_add(start, repeat, enabled)
    \/ \E id \in Ids : scheduler_remove(id)
    \/ scheduler_clear
    \/ \E t \in Tickers : scheduler_tick(t) \/ CallbackReturns(t)
    \/ ClockAdvances

Spec == Init /\ [][Next]_vars

\* Callers drive the scheduler by calling scheduler_tick periodically, and
\* callbacks return.
Fairness ==
    \A t \in Tickers : WF_vars(scheduler_tick(t)) /\ WF_vars(CallbackReturns(t))
FairSpec == Spec /\ Fairness

-----------------------------------------------------------------------------
\* The table, the ticks and the histories have the shape the structures declare.
TypeOK ==
    /\ slots \in [Slots -> [used : BOOLEAN, fired : BOOLEAN, entry : Entries \cup {NoEntry}]]
    /\ next_id \in 1..(MaxAdds + 1)
    /\ now \in Times
    /\ tick \in [Tickers -> [running : BOOLEAN, slot : 0..Capacity, now : Times]]
    /\ added \in [Ids -> Entries \cup {NoEntry}]
    /\ calls \in [Ids -> Seq(Nat)]
    /\ removed \subseteq Ids /\ usurpers \subseteq Ids

\* The id given by scheduler_add names one slot of the table for as long as the
\* entry is in it, whatever was removed, cleared or fired meanwhile, so a
\* removal or a look-up finds the entry it was meant for.
UniqueIds ==
    \A i, j \in Slots :
        slots[i].used /\ slots[j].used /\ slots[i].entry.id = slots[j].entry.id => i = j

\* The callback is called at most once for a one-shot entry, and at most once
\* for each day of a repeating one.
FiresOnce ==
    \A id \in Ids : \A j, k \in 1..Len(calls[id]) : calls[id][j] = calls[id][k] => j = k

\* The day an entry waits for: the one after those it was called for, or the
\* last of these while its callback runs.
WaitsFor(i) ==
    LET id == slots[i].entry.id
        days == Len(calls[id]) - (IF FiringOf(i) THEN 1 ELSE 0)
    IN  slots[i].entry.start = added[id].start + Day * days

\* No day of an entry is passed over: an entry that was never removed is in the
\* table and waits for the day after those it was called for, or is a one-shot
\* entry that was called.  Only one that was put in the place of an entry whose
\* callback was running is taken for that one when the callback returns.
NoneSkipped ==
    \A id \in Ids \ (removed \cup usurpers) :
        added[id] # NoEntry =>
            \/ \E i \in Slots : slots[i].used /\ slots[i].entry.id = id /\ WaitsFor(i)
            \/ ~added[id].repeat /\ calls[id] = <<added[id].start>>

\* An enabled entry whose time has come is called for that time or removed, unless
\* it was put in the place of an entry whose callback was running.
DueFires ==
    \A id \in Ids, time \in Times :
        (time <= now /\ \E i \in Slots :
            LET e == slots[i].entry
            IN  slots[i].used /\ e.enabled /\ e.id = id /\ e.start = time)
            ~> (id \in removed \cup usurpers \/ \E k \in 1..Len(calls[id]) : calls[id][k] = time)
=============================================================================
