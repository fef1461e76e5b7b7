---------------------------- MODULE ReplayBuffer ----------------------------
(* The replay buffer of recording/replay_buffer.cpp: the video frames and   *)
(* audio chunks of the last seconds, trimmed by age and by memory each time *)
(* one is added, and saved on demand.  Adding video holds the video mutex,  *)
(* adding audio the audio mutex, but both trim both queues and the common   *)
(* counters; saving and clearing hold both.                                 *)
(*                                                                          *)
(* A frame is its timestamp and has size 1.  Ages are unsigned differences. *)
(* Two adds at a time race: what the queues hold then is undefined, and the *)
(* model goes no further.  Allocations and the muxer do not fail here.      *)
EXTENDS Integers, Sequences

CONSTANTS
    Times,    \* the timestamps
    Duration, \* duration_seconds
    Memory,   \* max_memory_mb, in frames
    Wrap      \* ages and memory are counted modulo Wrap

\* Neither the timestamps nor the memory limit come near the 64 bits of a counter.
ReplayAssumption ==
    /\ {Duration, Memory, Wrap} \subseteq Nat /\ Times \subseteq 0..(Wrap - 1)
    /\ Memory + 1 < Wrap

Producers == {"video", "audio"}

VARIABLES
    queue,    \* video_frames and audio_chunks
    total,    \* total_memory_bytes, in frames
    oldest, newest,
    pc,       \* [Producers -> where its add is]; its mutex is held unless "idle"
    raced,    \* history: two adds ran at a time
    disorder  \* history: a timestamp was less than one added before

vars == <<queue, total, oldest, newest, pc, raced, disorder>>

Nothing == [video |-> <<>>, audio |-> <<>>]

Init ==
    /\ queue = Nothing
    /\ total = 0
    /\ oldest = 0 /\ newest = 0
    /\ pc = [p \in Producers |-> "idle"]
    /\ raced = FALSE /\ disorder = FALSE

Minus(a, b) == (a + Wrap - b) % Wrap
Held == Len(queue.video) + Len(queue.audio)
Least(a, b) == IF a <= b THEN a ELSE b
Drop(q, k) == SubSeq(q, k + 1, Len(q))

\* The first lines of the two add functions: the frame is in, not yet trimmed.
Add(p, t) ==
    /\ ~raced
    /\ pc[p] = "idle"
    /\ pc' = [pc EXCEPT ![p] = "age"]
    /\ raced' = \E q \in Producers : pc[q] # "idle"
    /\ queue' = [queue EXCEPT ![p] = Append(@, t)]
    /\ total' = (total + 1) % Wrap
    /\ newest' = t
    /\ disorder' = (disorder \/ t < newest)
    /\ UNCHANGED oldest

\* Variant: the test of the age is off by one.
OldAtLimit(t) == Minus(newest, t) >= Duration

\* The loops of cleanup_old_frames stop at the first frame young enough.
Old(t) == Minus(newest, t) > Duration
Young(q) ==
    LET young == {k \in 1..Len(q) : ~Old(q[k])} IN
    IF young = {} THEN <<>>
    ELSE Drop(q, (CHOOSE k \in young : \A j \in young : k <= j) - 1)

cleanup_old_frames(p) ==
    /\ ~raced
    /\ pc[p] = "age"
    /\ queue' = [q \in Producers |-> Young(queue[q])]
    /\ total' = Minus(total, Held - Len(queue'.video) - Len(queue'.audio))
    /\ oldest' = CASE queue'.video # <<>> -> queue'.video[1]
                   [] queue'.video = <<>> /\ queue'.audio # <<>> -> queue'.audio[1]
                   [] OTHER -> oldest
    /\ pc' = [pc EXCEPT ![p] = "limit"]
    /\ UNCHANGED <<newest, raced, disorder>>

\* Variant: only video is given up.
enforce_video_limit(p) ==
    LET over == IF total > Memory THEN total - Memory ELSE 0
        v == Least(over, Len(queue.video))
    IN  /\ ~raced
        /\ pc[p] = "limit"
        /\ queue' = [queue EXCEPT !.video = Drop(@, v)]
        /\ total' = Minus(total, v)
        /\ pc' = [pc EXCEPT ![p] = "idle"]
        /\ UNCHANGED <<oldest, newest, raced, disorder>>

\* The oldest video goes first, then the oldest audio.
enforce_memory_limit(p) ==
    LET over == IF total > Memory THEN total - Memory ELSE 0
        v == Least(over, Len(queue.video))
        a == Least(over - v, Len(queue.audio))
    IN  /\ ~raced
        /\ pc[p] = "limit"
        /\ queue' = [video |-> Drop(queue.video, v), audio |-> Drop(queue.audio, a)]
        /\ total' = Minus(total, v + a)
        /\ pc' = [pc EXCEPT ![p] = "idle"]
        /\ UNCHANGED <<oldest, newest, raced, disorder>>

\* Both mutexes are free.
NoAdd == \A p \in Producers : pc[p] = "idle"

\* Variant: 0 seconds are not special.
CutoffPlain(seconds) == Minus(newest, seconds)

\* Of 0 seconds: everything from the oldest on.
Cutoff(seconds) == Minus(newest, IF seconds = 0 THEN Minus(newest, oldest) ELSE seconds)

\* What a save, which needs both mutexes, writes, by its place in the queue, in
\* whose order it is written; it changes nothing.
replay_buffer_save(seconds) ==
    {k \in 1..Len(queue.video) : queue.video[k] >= Cutoff(seconds)}

replay_buffer_clear ==
    /\ ~raced
    /\ NoAdd
    /\ queue' = Nothing
    /\ total' = 0
    /\ oldest' = 0 /\ newest' = 0
    /\ UNCHANGED <<pc, raced, disorder>>

Next ==
    \/ \E p \in Producers :
        \/ \E t \in Times : Add(p, t)
        \/ cleanup_old_frames(p)
        \/ enforce_memory_limit(p)
    \/ replay_buffer_clear

Spec == Init /\ [][Next]_vars

----------------------------------------------------------------------------
(* Properties                                                               *)

\* Between adds the memory counter is what the queues hold, and that is no
\* more than the limit and reaches no further back than the duration.
MemoryIsCounted ==
    ~raced /\ NoAdd =>
        /\ total = Held
        /\ Held <= Memory
        /\ disorder \/ \A p \in Producers : \A k \in 1..Len(queue[p]) :
                          newest - queue[p][k] <= Duration

\* A save writes exactly the frames of the seconds asked for, of 0 all of
\* them, as long as timestamps do not run backwards and it asks for no more
\* than has passed since time 0: an older cutoff wraps and nothing is written.
SaveIsComplete ==
    ~raced /\ ~disorder /\ NoAdd =>
        /\ replay_buffer_save(0) = 1..Len(queue.video)
        /\ \A d \in 1..newest :
              replay_buffer_save(d) =
                 {k \in 1..Len(queue.video) : newest - queue.video[k] <= d}

\* A frame that is young enough is given up only for want of memory or by a
\* clear, unless some timestamp ran backwards: a chunk older than the oldest
\* frame makes the unsigned age enormous and empties the video queue.
YoungStay ==
    [][\/ disorder \/ raced \/ raced'
       \/ total > Memory /\ \E p \in Producers : pc[p] = "limit"
       \/ queue' = Nothing /\ newest' = 0
       \/ \A k \in 1..Len(queue.video) :
             newest - queue.video[k] <= Duration =>
                \E j \in 1..Len(queue'.video) : queue'.video[j] = queue.video[k]]_vars
=============================================================================
