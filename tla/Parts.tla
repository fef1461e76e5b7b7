------------------------------- MODULE Parts -------------------------------
(* The libraries that keep their own state and call nothing of each other,  *)
(* side by side.  A behaviour is about the one Init chooses, and the others *)
(* stay as they were created.                                               *)
EXTENDS Scheduler

CONSTANTS
    RbCapacity, SeqNumbers, HoldTimeout, MaxPackets, RbInFlight, RbLosses, MaxRepeats,
    Requests, MaxSlots, MaxBackoff, BaseDelays, Budgets, Replies,
    MaxInFlight, MaxLosses,
    FrameTimes, Duration, Memory, Wrap,
    Threads, MaxSaves, MaxRestarts

VARIABLES
    which,
    rb, delivered, wire, sent, lost, repeated, late,
    table, owed, status, meddled,
    state, inbox, losses,
    queue, total, oldest, newest, adding, raced, disorder,
    names, tmp, data, seq, pc, fd, arg, saves, restarts, saved, result, spoilt

R == INSTANCE ReorderBuffer WITH
        Capacity <- RbCapacity, Timeout <- HoldTimeout, MaxInFlight <- RbInFlight,
        MaxLosses <- RbLosses, losses <- lost

T == INSTANCE RetryTable

H == INSTANCE SessionHandshake

P == INSTANCE ReplayBuffer WITH Times <- FrameTimes, pc <- adding

C == INSTANCE SessionCheckpoint

ASSUME PartsAssumption ==
    R!ReorderAssumption /\ T!RetryAssumption /\ H!ChannelBounds /\ P!ReplayAssumption

Libraries == {"scheduler", "reorder", "retry", "handshake", "replay", "checkpoint"}

AllInit ==
    /\ which \in Libraries
    /\ Init /\ R!Init /\ T!Init /\ H!Init /\ P!Init /\ C!Init

reorderVars == <<rb, delivered, wire, sent, lost, repeated, late>>
retryVars == <<table, owed, status, meddled>>
handshakeVars == <<state, inbox, losses>>
replayVars == <<queue, total, oldest, newest, adding, raced, disorder>>
checkpointVars == <<names, tmp, data, seq, pc, fd, arg, saves, restarts, saved,
                    result, spoilt>>

AllNext ==
    /\ UNCHANGED which
    /\ IF which = "scheduler"  THEN Next   ELSE UNCHANGED vars
    /\ IF which = "reorder"    THEN R!Next ELSE UNCHANGED reorderVars
    /\ IF which = "retry"      THEN T!Next ELSE UNCHANGED retryVars
    /\ IF which = "handshake"  THEN H!Next ELSE UNCHANGED handshakeVars
    /\ IF which = "replay"     THEN P!Next ELSE UNCHANGED replayVars
    /\ IF which = "checkpoint" THEN C!Next ELSE UNCHANGED checkpointVars

allVars == <<which, vars, reorderVars, retryVars, handshakeVars, replayVars,
             checkpointVars>>

\* Each of these holds trivially of a part that stays as it was created.
AllSpec == AllInit /\ [][AllNext]_allVars /\ Fairness /\ R!Fairness

----------------------------------------------------------------------------
(* The properties of the instances.                                         *)

DeliveredOnce == R!DeliveredOnce
NoGaps == R!NoGaps
HeldIsDelivered == R!HeldIsDelivered
BudgetIsSpent == T!BudgetIsSpent
LockStep == H!LockStep
MemoryIsCounted == P!MemoryIsCounted
SaveIsComplete == P!SaveIsComplete
YoungStay == P!YoungStay
KillSafe == C!KillSafe
LoadIsRecent == C!LoadIsRecent
=============================================================================
