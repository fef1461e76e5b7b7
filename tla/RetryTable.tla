----------------------------- MODULE RetryTable -----------------------------
(***************************************************************************)
(* The retry table: a request that was sent is tried again, at growing     *)
(* intervals, until its owner removes it or it has used up its attempts.   *)
(* tick() walks over the slots and calls back into the owner, which may    *)
(* change the table that is being walked over.                             *)
(*                                                                         *)
(* A slot keeps how long it is until the next try instead of the time of   *)
(* it.                                                                     *)
(***************************************************************************)
EXTENDS Integers, FiniteSets

CONSTANTS
    Requests,       \* request ids, each used once
    MaxSlots,       \* RM_MAX_SLOTS
    MaxBackoff,     \* RM_MAX_BACKOFF_US, in steps of the clock
    BaseDelays,     \* values of base_delay_us
    Budgets,        \* values of max_attempts
    Replies         \* what the callback may do: "wait", "remove", "replace"

RetryAssumption ==
    /\ {MaxSlots, MaxBackoff} \subseteq Nat \ {0}
    /\ BaseDelays \subseteq Nat /\ Budgets \subseteq Nat \ {0}
    /\ Replies \subseteq {"wait", "remove", "replace"}

Slots == 1..MaxSlots

VARIABLES
    table,      \* entries and count
    owed,       \* tries each request was granted and did not get yet
    status,     \* what became of each request: "new", "pending", "removed", "expired"
    meddled     \* history: a callback changed the table

vars == <<table, owed, status, meddled>>

\* A cleared slot, as memset leaves it.
Cleared == [in_use |-> FALSE, id |-> "none", attempts |-> 0, max |-> 0, base |-> 0, wait |-> 0]

Init ==
    /\ table = [entries |-> [i \in Slots |-> Cleared], count |-> 0]
    /\ owed = [r \in Requests |-> 0]
    /\ status = [r \in Requests |-> "new"]
    /\ meddled = FALSE

-----------------------------------------------------------------------------
\* The delay after some attempts; only a delay that was doubled is capped.
Delay(base, attempts) ==
    LET delay == base * 2 ^ (attempts - 1)
    IN  IF attempts > 1 /\ delay >= MaxBackoff THEN MaxBackoff ELSE delay

\* Variants of the code stand before the definition they change.  A budget of n
\* allows n - 1 attempts.
HasMoreEarly(e) == e.attempts + 2 < e.max

\* rm_entry_advance returns whether attempts are left after this one.
HasMore(e) == e.attempts + 1 < e.max

\* The first free slot.
FreeSlot(t) == CHOOSE i \in Slots : ~t.entries[i].in_use /\ \A j \in 1..(i - 1) : t.entries[j].in_use

rm_table_add(t, r, base, max) ==
    IF t.count >= MaxSlots \/ \A i \in Slots : t.entries[i].in_use THEN t
    ELSE [entries |-> [t.entries EXCEPT ![FreeSlot(t)] =
                          [in_use |-> TRUE, id |-> r, attempts |-> 0, max |-> max,
                           base |-> base, wait |-> base]],
          count |-> t.count + 1]

Holds(t, r) == \E i \in Slots : t.entries[i].in_use /\ t.entries[i].id = r

\* Clearing a slot, in remove() and when its budget is exhausted.
Clear(t, i) == [entries |-> [t.entries EXCEPT ![i] = Cleared], count |-> t.count - 1]

\* The owner's callback for slot i: it waits for an answer, or the try was
\* answered and it removes the request, and may register another one at once.
\* fresh: a request it may register.
Callback(t, i, reply, fresh) ==
    CASE reply = "wait" -> t
      [] reply = "remove" -> Clear(t, i)
      [] reply = "replace" -> rm_table_add(Clear(t, i), fresh.id, fresh.base, fresh.max)

\* What tick() then does to the slot, whatever is in it now.
Advance(t, i) ==
    LET e == t.entries[i] IN
    IF HasMore(e)
    THEN [t EXCEPT !.entries[i] = [e EXCEPT !.attempts = @ + 1,
                                           !.wait = Delay(e.base, e.attempts + 1)]]
    ELSE Clear(t, i)

Due(t, i) == t.entries[i].in_use /\ t.entries[i].wait = 0

-----------------------------------------------------------------------------
\* The owner sends a request.
Register(r) ==
    /\ status[r] = "new"
    /\ \E base \in BaseDelays, max \in Budgets :
        /\ table' = rm_table_add(table, r, base, max)
        /\ owed' = [owed EXCEPT ![r] = max]
    /\ Holds(table', r)
    /\ status' = [status EXCEPT ![r] = "pending"]
    /\ UNCHANGED meddled

\* An answer arrives between two ticks.
Answer(r) ==
    /\ \E i \in Slots : table.entries[i].in_use /\ table.entries[i].id = r
                        /\ table' = Clear(table, i)
    /\ status' = [status EXCEPT ![r] = "removed"]
    /\ UNCHANGED <<owed, meddled>>

\* One pass of the loop of rm_table_tick, over slot i.  p.fired and p.answered: the
\* requests called back, and those their owner then removed; p.added: the request
\* that took the place of one; p.fresh: the one that would.
Visit(p, i, reply) ==
    IF ~Due(p.table, i) THEN p
    ELSE LET id == p.table.entries[i].id IN
         [table |-> Advance(Callback(p.table, i, reply, p.fresh), i),
          fired |-> p.fired \union {id},
          answered |-> IF reply = "wait" THEN p.answered ELSE p.answered \union {id},
          added |-> IF reply = "replace" THEN {p.fresh.id} ELSE p.added,
          fresh |-> p.fresh]

\* The loop as a whole: p[k] is where it is after k slots.
Pass(replies, fresh) ==
    LET p[k \in 0..MaxSlots] ==
          IF k = 0
          THEN [table |-> table, fired |-> {}, answered |-> {}, added |-> {}, fresh |-> fresh]
          ELSE Visit(p[k - 1], k, replies[k])
    IN  p[MaxSlots]

\* The owner's replies to one tick, and the request it may register.  Two bounds: it
\* only has other replies than "wait" for slots that were due when the tick began,
\* and it registers one request at most.
Answers ==
    {a \in [Slots -> Replies] : /\ \A i \in Slots : a[i] # "wait" => Due(table, i)
                               /\ Cardinality({i \in Slots : a[i] = "replace"}) <= 1}

Fresh(answers) ==
    IF \A i \in Slots : answers[i] # "replace" THEN {Cleared}
    ELSE [id : {r \in Requests : status[r] = "new"}, base : BaseDelays, max : Budgets]

SomeDue == \E i \in Slots : Due(table, i)

rm_table_tick ==
    /\ SomeDue
    /\ \E replies \in Answers : \E fresh \in Fresh(replies) :
        LET p == Pass(replies, fresh) IN
        /\ table' = p.table
        /\ owed' = [q \in Requests |-> IF q \in p.fired THEN owed[q] - 1
                                       ELSE IF q \in p.added THEN fresh.max ELSE owed[q]]
        /\ status' = [q \in Requests |-> IF q \in p.answered THEN "removed"
                                         ELSE IF Holds(p.table, q) THEN "pending"
                                         ELSE IF q \in p.fired \union p.added THEN "expired"
                                         ELSE status[q]]
        /\ meddled' = (meddled \/ p.answered # {})

\* Time passes.
ClockTick ==
    /\ \E i \in Slots : table.entries[i].wait > 0
    /\ table' = [table EXCEPT !.entries = [i \in Slots |->
                    LET e == table.entries[i]
                    IN  IF e.wait > 0 THEN [e EXCEPT !.wait = @ - 1] ELSE e]]
    /\ UNCHANGED <<owed, status, meddled>>

Next == (\E r \in Requests : Register(r) \/ Answer(r)) \/ rm_table_tick \/ ClockTick

Spec == Init /\ [][Next]_vars

-----------------------------------------------------------------------------
TypeOK ==
    /\ \A i \in Slots :
        LET e == table.entries[i] IN
        \/ e = Cleared
        \/ /\ e.in_use /\ e.id \in Requests /\ e.base \in BaseDelays /\ e.max \in Budgets
           /\ e.attempts \in 0..(e.max - 1) /\ e.wait \in Nat
    /\ table.count \in Int
    /\ owed \in [Requests -> Int]
    /\ status \in [Requests -> {"new", "pending", "removed", "expired"}]
    /\ meddled \in BOOLEAN

InUse == {i \in Slots : table.entries[i].in_use}

\* A request is given up only after the callback was called max_attempts times for
\* it, and what is left of its budget is what the slot says; a slot whose request
\* the callback replaced was charged for tries that the new one did not get.
BudgetIsSpent ==
    \/ meddled
    \/ /\ \A r \in Requests : status[r] = "expired" => owed[r] = 0
       /\ \A i \in InUse :
            LET e == table.entries[i] IN owed[e.id] = e.max - e.attempts
=============================================================================
