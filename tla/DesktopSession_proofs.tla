------------------------ MODULE DesktopSession_proofs ------------------------
(***************************************************************************)
(* The safety of the desktop client's sessions, for any number of          *)
(* connections, failed allocations and killed threads.                     *)
(*                                                                         *)
(* What makes it work is that a user who is not hasty leaves at most one   *)
(* thread: every worker that has begun and not ended is the connector's    *)
(* thread_, works on the connector's session_, and that session is live.   *)
(* The "finished" signals of earlier threads, which would clear thread_,   *)
(* are all gone when the next thread starts.                               *)
(***************************************************************************)
EXTENDS DesktopSession, TLAPS

Signals == {"over", "stopped", "finished"}
Thread == [pc : PCs, session : Sessions \union {None}, quit : BOOLEAN]

\* A signal waits in the GUI thread's event queue.
Pending(S) == \E k \in 1..Len(events) : events[k] \in S

Running(t) == worker[t].pc = "started" \/ InRun(t)

\* connectToHost has not used its session yet.
Room == gui = "connecting" => created < MaxSessions

\* The threads of sessions that were not created yet have not begun.
Unborn ==
    /\ thread_ <= created
    /\ \A t \in Sessions : t > created => worker[t].pc = "none"

Alone == \A t \in Sessions : worker[t].pc \notin {"none", "finished"} => t = thread_

RunsOwn ==
    \A t \in Sessions :
        /\ Running(t) => session_ \in live
        /\ InRun(t) => worker[t].session = session_

EndedIsSignalled == Pending({"finished"}) /\ thread_ # None => worker[thread_].pc = "finished"

ConnectsAlone == gui = "connecting" => events = <<>> /\ thread_ = None

\* The flag of the window while sessions come and go.
Flag ==
    /\ \A t \in Sessions : Running(t) => m_connected /\ ~ Pending({"over", "stopped"})
    /\ (m_connected /\ gui = "idle") =>
          \/ Pending({"over", "stopped"})
          \/ \E t \in Sessions : Running(t) \/ worker[t].pc = "done"

Calm == Alone /\ RunsOwn /\ EndedIsSignalled /\ ConnectsAlone

IInv ==
    /\ TypeOK
    /\ Room
    /\ Unborn
    /\ NoSessionLeaks
    /\ ~ hasty => Calm
    /\ (~ hasty /\ failures = 0) => Flag

LEMMA TypeOKParts ==
    ASSUME TypeOK
    PROVE  /\ session_ \in Sessions \union {None} /\ thread_ \in Sessions \union {None}
           /\ events \in Seq(Signals) /\ worker \in [Sessions -> Thread]
           /\ created \in Nat /\ None \notin Sessions
           /\ \A t \in Sessions : worker[t] \in Thread
BY DEF TypeOK, Signals, Thread, Sessions, None

\* What the queue operations do to the signals that wait.
LEMMA QueueLaws ==
    /\ \A e \in Seq(Signals), s \in Signals :
          /\ Append(e, s) \in Seq(Signals)
          /\ \A S : (\E k \in 1..Len(Append(e, s)) : Append(e, s)[k] \in S)
                        <=> (s \in S \/ \E k \in 1..Len(e) : e[k] \in S)
    /\ \A e \in Seq(Signals) : e # <<>> =>
          /\ Tail(e) \in Seq(Signals) /\ Head(e) \in Signals
          /\ \A S : (\E k \in 1..Len(e) : e[k] \in S)
                        <=> (Head(e) \in S \/ \E k \in 1..Len(Tail(e)) : Tail(e)[k] \in S)
<1>1. ASSUME NEW e \in Seq(Signals), NEW s \in Signals
      PROVE  /\ Append(e, s) \in Seq(Signals)
             /\ \A S : (\E k \in 1..Len(Append(e, s)) : Append(e, s)[k] \in S)
                           <=> (s \in S \/ \E k \in 1..Len(e) : e[k] \in S)
  <2>1. /\ Append(e, s) \in Seq(Signals) /\ Len(Append(e, s)) = Len(e) + 1 /\ Len(e) \in Nat
        /\ Append(e, s)[Len(e) + 1] = s
        /\ \A k \in 1..Len(e) : Append(e, s)[k] = e[k]
    OBVIOUS
  <2> QED
    BY <2>1
<1>2. ASSUME NEW e \in Seq(Signals), e # <<>>
      PROVE  /\ Tail(e) \in Seq(Signals) /\ Head(e) \in Signals
             /\ \A S : (\E k \in 1..Len(e) : e[k] \in S)
                           <=> (Head(e) \in S \/ \E k \in 1..Len(Tail(e)) : Tail(e)[k] \in S)
  <2>1. /\ Tail(e) \in Seq(Signals) /\ Len(Tail(e)) = Len(e) - 1 /\ Len(e) \in Nat \ {0}
        /\ Head(e) = e[1] /\ e[1] \in Signals
        /\ \A k \in 1..Len(Tail(e)) : Tail(e)[k] = e[k + 1]
    BY <1>2
  <2>2. ASSUME NEW S, NEW k \in 1..Len(e), e[k] \in S
        PROVE  Head(e) \in S \/ \E j \in 1..Len(Tail(e)) : Tail(e)[j] \in S
    <3>1. CASE k = 1
      BY <2>1, <2>2, <3>1
    <3>2. CASE k # 1
      <4>1. k - 1 \in 1..Len(Tail(e)) /\ Tail(e)[k - 1] = e[k]
        BY <2>1, <3>2
      <4> QED
        BY <2>2, <4>1
    <3> QED
      BY <3>1, <3>2
  <2>3. ASSUME NEW S, Head(e) \in S \/ \E j \in 1..Len(Tail(e)) : Tail(e)[j] \in S
        PROVE  \E k \in 1..Len(e) : e[k] \in S
    <3>1. CASE Head(e) \in S
      BY <2>1, <3>1
    <3>2. ASSUME NEW j \in 1..Len(Tail(e)), Tail(e)[j] \in S
          PROVE  \E k \in 1..Len(e) : e[k] \in S
      <4>1. j + 1 \in 1..Len(e) /\ e[j + 1] = Tail(e)[j]
        BY <2>1
      <4> QED
        BY <3>2, <4>1
    <3> QED
      BY <2>3, <3>1, <3>2
  <2> QED
    BY <2>1, <2>2, <2>3
<1> QED
  BY <1>1, <1>2

LEMMA AppendPending ==
    ASSUME TypeOK, NEW s \in Signals, events' = Append(events, s), NEW CONSTANT S
    PROVE  Pending(S)' <=> (s \in S \/ Pending(S))
<1>1. Pending(S)' <=> \E k \in 1..Len(Append(events, s)) : Append(events, s)[k] \in S
  BY DEF Pending
<1>2. events \in Seq(Signals)
  BY TypeOKParts
<1>3. (\E k \in 1..Len(Append(events, s)) : Append(events, s)[k] \in S)
         <=> (s \in S \/ \E k \in 1..Len(events) : events[k] \in S)
  BY <1>2, QueueLaws
<1> QED
  BY <1>1, <1>3 DEF Pending

LEMMA InitIInv == Init => IInv
<1> SUFFICES ASSUME Init PROVE IInv
  OBVIOUS
<1>1. NoThread \in Thread
  BY DEF NoThread, Thread, PCs
<1>2. \A t \in Sessions : worker[t].pc = "none"
  BY DEF Init, NoThread
<1>3. TypeOK
  <2>1. worker \in [Sessions -> Thread]
    BY <1>1 DEF Init
  <2>2. /\ m_connected \in BOOLEAN /\ hasty \in BOOLEAN /\ gui = "idle"
        /\ {session_, thread_} \subseteq Sessions \union {None}
        /\ live \subseteq Sessions /\ stop_requested \subseteq Sessions
    BY DEF Init
  <2>3. events \in Seq({"over", "stopped", "finished"})
    BY DEF Init
  <2>4. /\ created \in 0..MaxSessions /\ failures \in 0..MaxFailures
        /\ terminations \in 0..MaxTerminations
    BY BoundsAssumption DEF Init
  <2> QED
    BY <2>1, <2>2, <2>3, <2>4 DEF TypeOK, Thread
<1>4. ~ Pending({"finished"}) /\ ~ Pending({"over", "stopped"})
  BY DEF Init, Pending
<1>5. thread_ <= created
  BY DEF Init, None
<1>6. Calm /\ Flag
  BY <1>2, <1>4 DEF Init, Calm, Alone, RunsOwn, EndedIsSignalled, ConnectsAlone, Flag,
     Running, InRun
<1> QED
  BY <1>2, <1>3, <1>5, <1>6 DEF Init, IInv, Room, Unborn, NoSessionLeaks

-----------------------------------------------------------------------------
\* Type correctness.

LEMMA OpenType ==
    ASSUME TypeOK, created < MaxSessions, NEW alive \in SUBSET Sessions, Open(alive)
    PROVE  /\ m_connected' \in BOOLEAN /\ gui' = "idle"
           /\ session_' \in Sessions \union {None} /\ thread_' \in Sessions \union {None}
           /\ live' \subseteq Sessions /\ worker' \in [Sessions -> Thread]
           /\ created' \in 0..MaxSessions /\ failures' \in 0..MaxFailures
<1> DEFINE n == created + 1
<1>0. n \in Sessions /\ n \in 0..MaxSessions /\ created' = n
  BY BoundsAssumption DEF TypeOK, Sessions, Open
<1>1. m_connected' \in BOOLEAN /\ gui' = "idle"
  BY DEF Open
<1> HIDE DEF n
<1>2. \/ /\ session_' = n /\ thread_' = n /\ live' = alive \union {n}
         /\ worker' = [worker EXCEPT ![n].pc = "started"] /\ failures' = failures
      \/ /\ failures < MaxFailures /\ failures' = failures + 1
         /\ session_' = None /\ live' = alive
         /\ thread_' = thread_ /\ worker' = worker
  BY DEF Open, n
<1>3. [worker EXCEPT ![n].pc = "started"] \in [Sessions -> Thread]
  BY <1>0, TypeOKParts DEF Thread, PCs
<1>4. failures' \in 0..MaxFailures
  BY <1>2, BoundsAssumption DEF TypeOK
<1> QED
  BY <1>0, <1>1, <1>2, <1>3, <1>4, TypeOKParts

LEMMA WorkerStepType ==
    ASSUME TypeOK, NEW t \in Sessions, NEW w \in Thread, NEW signals \in Seq(Signals),
           WorkerStep(t, w, signals)
    PROVE  TypeOK'
<1>1. worker' \in [Sessions -> Thread]
  BY TypeOKParts DEF WorkerStep
<1>2. events' \in Seq(Signals)
  BY TypeOKParts DEF WorkerStep
<1> QED
  BY <1>1, <1>2 DEF WorkerStep, TypeOK, Thread, Signals

LEMMA TypeStep == TypeOK /\ Room /\ [Next]_vars => TypeOK' /\ Room'
<1> SUFFICES ASSUME TypeOK, Room, [Next]_vars PROVE TypeOK' /\ Room'
  OBVIOUS
<1> USE TypeOKParts
<1>1. CASE connectToPeer \/ connectToAddress
  <2>1. created < MaxSessions /\ connectToHost /\ hasty' \in BOOLEAN
    BY <1>1 DEF connectToPeer, connectToAddress, MayConnect, TypeOK
  <2>2. CASE session_ # None /\ BeginStop("connecting")
    BY <2>1, <2>2 DEF BeginStop, TypeOK, Room
  <2>3. CASE session_ = None /\ Open(live) /\ UNCHANGED <<events, stop_requested, terminations>>
    <3>1. live \in SUBSET Sessions
      BY DEF TypeOK
    <3> QED
      BY <2>1, <2>3, <3>1, OpenType DEF TypeOK, Room, Thread, Signals
  <2> QED
    BY <2>1, <2>2, <2>3 DEF connectToHost
<1>2. CASE disconnect
  BY <1>2 DEF disconnect, BeginStop, TypeOK, Room
<1>3. CASE EndStop
  <2>1. CASE gui = "disconnecting" /\ FinishStop
    BY <1>3, <2>1 DEF EndStop, FinishStop, TypeOK, Room
  <2>2. CASE gui = "connecting" /\ Open(live \ {session_})
    <3>1. live \ {session_} \in SUBSET Sessions
      BY DEF TypeOK
    <3> QED
      BY <1>3, <2>2, <3>1, OpenType DEF EndStop, TypeOK, Room, Thread, Signals
  <2> QED
    BY <1>3, <2>1, <2>2 DEF EndStop, FinishStop
<1>4. CASE Terminate
  <2>1. thread_ \in Sessions
    BY <1>4 DEF Terminate, Joined
  <2>2. worker' \in [Sessions -> Thread]
    BY <1>4, <2>1 DEF Terminate, Thread, PCs
  <2>3. events' \in Seq(Signals)
    BY <1>4 DEF Terminate, Signals
  <2>4. terminations' \in 0..MaxTerminations
    BY <1>4, BoundsAssumption DEF Terminate, TypeOK
  <2> QED
    BY <1>4, <2>2, <2>3, <2>4 DEF Terminate, TypeOK, Room, Thread, Signals
<1>5. CASE HandleEvent
  <2>1. events' \in Seq(Signals)
    BY <1>5 DEF HandleEvent
  <2> QED
    BY <1>5, <2>1 DEF HandleEvent, TypeOK, Room, Signals
<1>6. ASSUME NEW t \in Sessions, Work(t) PROVE TypeOK' /\ Room'
  <2>0. worker[t] \in Thread
    OBVIOUS
  <2>1. CASE Quit(t)
    <3>1. thread_ \in Sessions
      BY <2>1 DEF Quit
    <3>2. worker' \in [Sessions -> Thread]
      BY <2>0, <2>1, <3>1 DEF Quit, Thread, PCs
    <3> QED
      BY <2>1, <3>2 DEF Quit, TypeOK, Room, Thread
  <2>2. CASE ~ Quit(t)
    <3>1. PICK w \in Thread, signals \in Seq(Signals) : WorkerStep(t, w, signals)
      <4>1. \A p \in PCs, q \in Sessions \union {None} :
               /\ [worker[t] EXCEPT !.pc = p] \in Thread
               /\ [worker[t] EXCEPT !.pc = p, !.session = q] \in Thread
        BY <2>0 DEF Thread
      <4>2. /\ <<>> \in Seq(Signals) /\ <<"over">> \in Seq(Signals)
            /\ <<"stopped">> \in Seq(Signals) /\ <<"finished">> \in Seq(Signals)
        BY DEF Signals
      <4>3. CASE Start(t)
        BY <4>1, <4>2, <4>3 DEF Start, PCs
      <4>4. CASE InitDecoder(t)
        BY <4>1, <4>2, <4>4 DEF InitDecoder, PCs
      <4>5. CASE Leave(t) \/ Stopped(t) \/ Finish(t)
        BY <4>1, <4>2, <4>5 DEF Leave, Stopped, Finish, PCs
      <4> QED
        BY <1>6, <2>2, <4>3, <4>4, <4>5 DEF Work
    <3> QED
      BY <3>1, WorkerStepType DEF WorkerStep, Room
  <2> QED
    BY <2>1, <2>2
<1>7. CASE UNCHANGED vars
  BY <1>7 DEF vars, TypeOK, Room
<1> QED
  BY <1>1, <1>2, <1>3, <1>4, <1>5, <1>6, <1>7 DEF Next, User

-----------------------------------------------------------------------------
\* The GUI thread.

\* No thread runs and none of their signals waits: a new session may begin.
Quiet == events = <<>> /\ thread_ = None /\ Alone

LEMMA OpenKeeps ==
    ASSUME TypeOK, Unborn, created < MaxSessions, Open({}), UNCHANGED events
    PROVE  /\ Unborn' /\ NoSessionLeaks'
           /\ Quiet => Calm'
           /\ (Quiet /\ failures' = 0) => Flag'
<1> DEFINE n == created + 1
<1>0. /\ n \in Sessions /\ created' = n /\ created \in Nat /\ None \notin Sessions
      /\ n # None /\ worker[n].pc = "none" /\ failures \in Nat
      /\ \A t \in Sessions : t \in Nat
  BY BoundsAssumption DEF TypeOK, Sessions, Open, Unborn, None
<1>1. m_connected' = TRUE /\ gui' = "idle"
  BY DEF Open
<1>2. n > created
  BY <1>0
<1>3. Quiet => \A t \in Sessions : ~ Running(t) /\ worker[t].pc \in {"none", "finished"}
  BY <1>0 DEF Quiet, Alone, Running, InRun
<1>4. Quiet => ~ Pending({"finished"})' /\ ~ Pending({"over", "stopped"})'
  BY DEF Quiet, Pending
<1>5. \/ /\ session_' = n /\ thread_' = n /\ live' = {n}
         /\ worker' = [worker EXCEPT ![n].pc = "started"]
      \/ /\ failures' = failures + 1 /\ live' = {}
         /\ thread_' = thread_ /\ worker' = worker
  BY DEF Open
<1> HIDE DEF n
<1>6. CASE /\ session_' = n /\ thread_' = n /\ live' = {n}
           /\ worker' = [worker EXCEPT ![n].pc = "started"]
  <2>1. /\ worker'[n].pc = "started"
        /\ \A t \in Sessions : t # n => worker'[t] = worker[t]
    BY <1>0, <1>6, TypeOKParts DEF Thread
  <2>2. Unborn'
    <3>1. thread_' <= created'
      BY <1>0, <1>6 DEF n
    <3>2. \A t \in Sessions : t > created' => t > created /\ t # n
      BY <1>0 DEF n
    <3> QED
      BY <2>1, <3>1, <3>2 DEF Unborn
  <2>3. NoSessionLeaks'
    BY <1>6 DEF NoSessionLeaks
  <2>4. Quiet => \A t \in Sessions : Running(t)' => t = n
    BY <1>3, <2>1 DEF Running, InRun
  <2>5. Quiet => \A t \in Sessions : ~ InRun(t)'
    BY <1>3, <2>1 DEF InRun, Running
  <2>6. Quiet => Calm'
    BY <1>1, <1>3, <1>4, <1>6, <2>1, <2>4, <2>5
       DEF Calm, Alone, RunsOwn, EndedIsSignalled, ConnectsAlone
  <2>7. Quiet => Flag'
    BY <1>0, <1>1, <1>4, <2>1 DEF Flag, Running
  <2> QED
    BY <2>2, <2>3, <2>6, <2>7
<1>7. CASE /\ failures' = failures + 1 /\ live' = {}
           /\ thread_' = thread_ /\ worker' = worker
  <2>1. failures' # 0
    BY <1>0, <1>7
  <2>2. Unborn' /\ NoSessionLeaks'
    <3>1. thread_ \in Nat
      BY <1>0, TypeOKParts DEF None
    <3> QED
      BY <1>0, <1>7, <3>1 DEF Unborn, NoSessionLeaks, n
  <2>3. Quiet => Calm'
    BY <1>1, <1>3, <1>4, <1>7 DEF Calm, Quiet, Alone, RunsOwn, EndedIsSignalled, ConnectsAlone,
       Running, InRun
  <2> QED
    BY <2>1, <2>2, <2>3
<1> QED
  BY <1>5, <1>6, <1>7

\* Of the sessions that were allocated, only the connector's is left.
LEMMA LiveLeft ==
    ASSUME TypeOK, NoSessionLeaks
    PROVE  live \ {session_} = {} /\ (session_ = None => live = {})
BY TypeOKParts DEF NoSessionLeaks, TypeOK

LEMMA ConnectKeeps ==
    ASSUME IInv, connectToPeer \/ connectToAddress
    PROVE  IInv'
<1>1. /\ created < MaxSessions /\ connectToHost /\ gui = "idle"
      /\ ~ hasty' => ~ hasty /\ events = <<>> /\ thread_ = None
  BY DEF connectToPeer, connectToAddress, MayConnect, Settled, IInv, TypeOK
<1>2. TypeOK' /\ Room'
  BY TypeStep DEF IInv, Next, User
<1>3. ~ hasty' => Quiet
  BY <1>1 DEF IInv, Calm, Quiet
<1>4. CASE session_ # None /\ BeginStop("connecting")
  <2>1. Unborn' /\ NoSessionLeaks'
    BY <1>4 DEF BeginStop, IInv, Unborn, NoSessionLeaks
  <2>2. Quiet => Calm'
    BY <1>4, TypeOKParts DEF BeginStop, IInv, Quiet, Calm, Alone, RunsOwn, EndedIsSignalled,
       ConnectsAlone, Pending, Running, InRun
  <2>3. Quiet => Flag'
    BY <1>4, TypeOKParts DEF BeginStop, IInv, Quiet, Alone, Flag, Running, InRun
  <2> QED
    BY <1>2, <1>3, <2>1, <2>2, <2>3 DEF IInv
<1>5. CASE session_ = None /\ Open(live) /\ UNCHANGED events
  BY <1>1, <1>2, <1>3, <1>5, LiveLeft, OpenKeeps DEF IInv
<1> QED
  BY <1>1, <1>4, <1>5 DEF connectToHost

LEMMA DisconnectKeeps ==
    ASSUME IInv, disconnect
    PROVE  IInv'
<1>1. TypeOK' /\ Room'
  BY TypeStep DEF IInv, Next, User
<1>2. hasty' = hasty /\ gui = "idle"
  BY DEF disconnect
<1>3. CASE session_ # None /\ BeginStop("disconnecting")
  BY <1>1, <1>2, <1>3 DEF BeginStop, IInv, Unborn, NoSessionLeaks, Calm, Alone, RunsOwn,
     EndedIsSignalled, ConnectsAlone, Flag, Pending, Running, InRun
<1>4. CASE /\ session_ = None /\ m_connected' = FALSE
           /\ UNCHANGED <<session_, thread_, gui, events, live, stop_requested, worker,
                          created, failures, terminations>>
  <2>1. Unborn' /\ NoSessionLeaks' /\ (~ hasty' => Calm')
    BY <1>2, <1>4 DEF IInv, Unborn, NoSessionLeaks, Calm, Alone, RunsOwn,
       EndedIsSignalled, ConnectsAlone, Pending, Running, InRun
  <2>2. ~ hasty => \A t \in Sessions : ~ Running(t)
    BY <1>4, LiveLeft DEF IInv, Calm, RunsOwn
  <2>3. (~ hasty' /\ failures' = 0) => Flag'
    BY <1>2, <1>4, <2>2 DEF Flag, Running, InRun
  <2> QED
    BY <1>1, <2>1, <2>3 DEF IInv
<1> QED
  BY <1>3, <1>4 DEF disconnect

\* disconnect() has waited for the thread, so what it frees is not in use.
LEMMA EndStopKeeps ==
    ASSUME IInv, EndStop
    PROVE  IInv'
<1>1. TypeOK' /\ Room'
  BY TypeStep DEF IInv, Next
<1>2. hasty' = hasty /\ UNCHANGED events /\ Joined
  BY DEF EndStop
<1>3. CASE /\ gui = "disconnecting"
           /\ gui' = "idle" /\ m_connected' = FALSE
           /\ session_' = None /\ live' = live \ {session_}
           /\ UNCHANGED <<thread_, worker, created, failures>>
  <2>1. Unborn' /\ NoSessionLeaks'
    BY <1>3, LiveLeft DEF IInv, Unborn, NoSessionLeaks
  <2>2. ~ hasty => \A t \in Sessions : worker[t].pc \in {"none", "finished"}
    BY <1>2, TypeOKParts DEF IInv, Calm, Alone, Joined
  <2>3. ~ hasty => Calm'
    BY <1>2, <1>3, <2>2 DEF IInv, Calm, Alone, RunsOwn, EndedIsSignalled, ConnectsAlone,
       Pending, Running, InRun
  <2>4. ~ hasty => Flag'
    BY <1>3, <2>2 DEF Flag, Running, InRun
  <2> QED
    BY <1>1, <1>2, <2>1, <2>3, <2>4 DEF IInv
<1>4. CASE gui = "connecting" /\ Open(live \ {session_})
  <2>1. Open({}) /\ created < MaxSessions
    BY <1>4, LiveLeft DEF IInv, Room
  <2>2. ~ hasty => Quiet
    BY <1>4 DEF IInv, Calm, ConnectsAlone, Quiet
  <2> QED
    BY <1>1, <1>2, <2>1, <2>2, OpenKeeps DEF IInv
<1> QED
  BY <1>3, <1>4 DEF EndStop, FinishStop

LEMMA TerminateKeeps ==
    ASSUME IInv, Terminate
    PROVE  IInv'
<1>1. TypeOK' /\ Room'
  BY TypeStep DEF IInv, Next
<1>2. /\ hasty' = hasty /\ thread_ \in Sessions /\ thread_ # None
      /\ gui # "idle" /\ UNCHANGED <<session_, thread_, gui, live, created, failures>>
      /\ worker' = [worker EXCEPT ![thread_].pc = "finished"]
  BY TypeOKParts DEF IInv, Terminate, Joined
<1>3. /\ worker'[thread_].pc = "finished"
      /\ \A t \in Sessions : t # thread_ => worker'[t] = worker[t]
  BY <1>2, TypeOKParts DEF IInv, Thread
<1>4. Unborn' /\ NoSessionLeaks'
  <2>1. \A t \in Sessions : t > created => t # thread_
    BY <1>2, TypeOKParts DEF IInv, Unborn, Sessions
  <2> QED
    BY <1>2, <1>3, <2>1 DEF IInv, Unborn, NoSessionLeaks
<1>5. ~ hasty => \A t \in Sessions : worker'[t].pc \in {"none", "finished"}
  BY <1>3 DEF IInv, Calm, Alone
<1>6. ~ hasty => Calm'
  BY <1>2, <1>3, <1>5 DEF IInv, Calm, Alone, RunsOwn, EndedIsSignalled, ConnectsAlone, Running, InRun
<1>7. ~ hasty => Flag'
  BY <1>2, <1>5 DEF Flag, Running, InRun
<1> QED
  BY <1>1, <1>2, <1>4, <1>6, <1>7 DEF IInv

LEMMA HandleEventKeeps ==
    ASSUME IInv, HandleEvent
    PROVE  IInv'
<1>1. TypeOK' /\ Room'
  BY TypeStep DEF IInv, Next
<1>2. /\ hasty' = hasty /\ gui = "idle" /\ events # <<>> /\ events' = Tail(events)
      /\ m_connected' = (m_connected /\ Head(events) \notin {"over", "stopped"})
      /\ thread_' = IF Head(events) = "finished" THEN None ELSE thread_
      /\ UNCHANGED <<session_, gui, live, worker, created, failures>>
  BY DEF HandleEvent
<1>3. \A S : Pending(S) <=> (Head(events) \in S \/ Pending(S)')
  BY <1>2, QueueLaws, TypeOKParts DEF IInv, Pending
<1>4. Unborn' /\ NoSessionLeaks'
  BY <1>2, TypeOKParts DEF IInv, Unborn, NoSessionLeaks, None
<1>5. ~ hasty => Alone'
  <2>1. CASE Head(events) = "finished"
    <3>1. ~ hasty /\ thread_ # None => worker[thread_].pc = "finished"
      BY <1>3, <2>1 DEF IInv, Calm, EndedIsSignalled
    <3>2. ~ hasty => \A t \in Sessions : worker[t].pc \in {"none", "finished"}
      BY <3>1, TypeOKParts DEF IInv, Calm, Alone
    <3> QED
      BY <1>2, <3>2 DEF Alone
  <2>2. CASE Head(events) # "finished"
    BY <1>2, <2>2 DEF IInv, Calm, Alone
  <2> QED
    BY <2>1, <2>2
<1>6. ~ hasty => Calm'
  BY <1>2, <1>3, <1>5 DEF IInv, Calm, RunsOwn, EndedIsSignalled, ConnectsAlone, Running, InRun
<1>7. (~ hasty /\ failures = 0) => Flag'
  BY <1>2, <1>3 DEF IInv, Flag, Running, InRun
<1> QED
  BY <1>1, <1>2, <1>4, <1>6, <1>7 DEF IInv

-----------------------------------------------------------------------------
\* The worker threads.

\* A thread that has begun and not ended has the desktop to itself.
LEMMA WorkerAlone ==
    ASSUME TypeOK, Calm, NEW t \in Sessions, worker[t].pc \notin {"none", "finished"}
    PROVE  /\ t = thread_ /\ thread_ # None /\ gui # "connecting" /\ ~ Pending({"finished"})
           /\ \A u \in Sessions : u # t => ~ Running(u) /\ worker[u].pc # "done"
BY TypeOKParts DEF Calm, Alone, EndedIsSignalled, ConnectsAlone, Running, InRun

\* What is left to show of a step of thread t: only it moves, to the place next, for
\* the session it works on, and it sends at most one signal.
LEMMA WorkerKeeps ==
    ASSUME IInv, NEW t \in Sessions, worker[t].pc \notin {"none", "finished"},
           UNCHANGED <<m_connected, session_, thread_, gui, live, created, failures, hasty>>,
           TypeOK', Room', worker'[t].pc # "none",
           \A u \in Sessions : u # t => worker'[u].pc = worker[u].pc
                                     /\ worker'[u].session = worker[u].session,
           \/ events' = events
           \/ \E s \in Signals : /\ events' = Append(events, s)
                                 /\ s = "finished" => worker'[t].pc = "finished",
           Calm /\ Running(t)' => Running(t) /\ events' = events,
           Calm /\ InRun(t)' => worker'[t].session = session_,
           (Calm /\ worker[t].pc \in {"started", "init", "loop", "done"}) =>
               \/ worker'[t].pc \in {"init", "loop"}
               \/ \E s \in {"over", "stopped"} : events' = Append(events, s)
    PROVE  IInv'
<1>1. Unborn' /\ NoSessionLeaks'
  BY DEF IInv, Unborn, NoSessionLeaks
<1>2. Pending({"over", "stopped"}) => Pending({"over", "stopped"})'
  <2>1. CASE events' = events
    BY <2>1 DEF Pending
  <2>2. ASSUME NEW s \in Signals, events' = Append(events, s)
        PROVE  Pending({"over", "stopped"}) => Pending({"over", "stopped"})'
    BY <2>2, AppendPending DEF IInv
  <2> QED
    BY <2>1, <2>2
<1>3. ASSUME ~ hasty PROVE Calm'
  <2>0. Calm /\ TypeOK
    BY <1>3 DEF IInv
  <2>1. /\ t = thread_ /\ gui # "connecting" /\ ~ Pending({"finished"})
        /\ \A u \in Sessions : u # t => ~ Running(u)
    BY <2>0, WorkerAlone
  <2>2. Alone'
    BY <2>0, <2>1 DEF Calm, Alone
  <2>3. RunsOwn'
    BY <2>0, <2>1 DEF Calm, RunsOwn, Running, InRun
  <2>4. EndedIsSignalled'
    <3>1. CASE events' = events
      BY <2>1, <3>1 DEF EndedIsSignalled, Pending
    <3>2. ASSUME NEW s \in Signals, events' = Append(events, s),
                 s = "finished" => worker'[t].pc = "finished"
          PROVE  EndedIsSignalled'
      <4>1. Pending({"finished"})' <=> (s = "finished" \/ Pending({"finished"}))
        BY <2>0, <3>2, AppendPending
      <4> QED
        BY <2>1, <3>2, <4>1 DEF EndedIsSignalled
    <3> QED
      BY <3>1, <3>2
  <2> QED
    BY <2>1, <2>2, <2>3, <2>4 DEF Calm, ConnectsAlone
<1>4. ASSUME ~ hasty, failures = 0 PROVE Flag'
  <2>0. Calm /\ Flag /\ TypeOK
    BY <1>4 DEF IInv
  <2>1. \A u \in Sessions : u # t => ~ Running(u) /\ worker[u].pc # "done"
    BY <2>0, WorkerAlone
  <2>2. ASSUME NEW u \in Sessions, Running(u)'
        PROVE  m_connected' /\ ~ Pending({"over", "stopped"})'
    <3>1. u = t
      BY <2>1, <2>2 DEF Running, InRun
    <3> QED
      BY <2>0, <2>2, <3>1 DEF Flag, Pending
  <2>3. ASSUME m_connected', gui' = "idle"
        PROVE  \/ Pending({"over", "stopped"})'
               \/ \E u \in Sessions : Running(u)' \/ worker'[u].pc = "done"
    <3>1. CASE Pending({"over", "stopped"})
      BY <1>2, <3>1
    <3>2. CASE ~ Pending({"over", "stopped"})
      <4>1. worker[t].pc \in {"started", "init", "loop", "done"}
        BY <2>0, <2>1, <2>3, <3>2 DEF Flag, Running, InRun
      <4>2. CASE worker'[t].pc \in {"init", "loop"}
        BY <4>2 DEF Running, InRun
      <4>3. CASE \E s \in {"over", "stopped"} : events' = Append(events, s)
        BY <2>0, <4>3, AppendPending DEF Signals
      <4> QED
        BY <2>0, <4>1, <4>2, <4>3
    <3> QED
      BY <3>1, <3>2
  <2> QED
    BY <2>2, <2>3 DEF Flag
<1> QED
  BY <1>1, <1>3, <1>4 DEF IInv

LEMMA WorkKeeps ==
    ASSUME IInv, NEW t \in Sessions, Work(t)
    PROVE  IInv'
<1> DEFINE w == worker[t]
<1>0. TypeOK' /\ Room' /\ TypeOK /\ w \in Thread
  BY TypeStep, TypeOKParts DEF IInv, Next
<1>1. CASE Start(t)
  <2>1. /\ w.pc = "started"
        /\ worker' = [worker EXCEPT ![t] = [w EXCEPT
                         !.pc = IF session_ = None THEN "done" ELSE "init", !.session = session_]]
        /\ events' = events
    BY <1>0, <1>1, TypeOKParts DEF Start, WorkerStep
  <2>2. /\ worker'[t].pc = IF session_ = None THEN "done" ELSE "init"
        /\ worker'[t].session = session_
        /\ \A u \in Sessions : u # t => worker'[u] = worker[u]
    BY <1>0, <2>1, TypeOKParts DEF Thread
  <2>3. Calm => session_ # None
    BY <1>0, <2>1, LiveLeft DEF IInv, Calm, RunsOwn, Running
  <2> QED
    BY <1>0, <1>1, <2>1, <2>2, <2>3, WorkerKeeps DEF Start, WorkerStep, Running
<1>2. ASSUME NEW next \in {"loop", "done", "quitting", "finished"}, NEW s \in Signals,
             w.pc \in {"init", "loop", "done", "exec"},
             \/ next = "loop" /\ w.pc = "init" /\ WorkerStep(t, [w EXCEPT !.pc = next], <<>>)
             \/ /\ next # "loop" /\ WorkerStep(t, [w EXCEPT !.pc = next], <<s>>)
                /\ s = "finished" <=> next = "finished"
                /\ next = "finished" => w.pc = "exec"
      PROVE  IInv'
  <2>1. /\ worker' = [worker EXCEPT ![t] = [w EXCEPT !.pc = next]]
        /\ UNCHANGED <<m_connected, session_, thread_, gui, live, created, failures, hasty>>
    BY <1>2 DEF WorkerStep
  <2>2. /\ worker'[t].pc = next /\ worker'[t].session = w.session
        /\ \A u \in Sessions : u # t => worker'[u] = worker[u]
    BY <1>0, <2>1, TypeOKParts DEF Thread
  <2>3. IF next = "loop" THEN events' = events ELSE events' = Append(events, s)
    BY <1>0, <1>2, TypeOKParts DEF WorkerStep
  <2>4. Calm /\ InRun(t) => w.session = session_
    BY DEF Calm, RunsOwn
  <2> QED
    BY <1>0, <1>2, <2>1, <2>2, <2>3, <2>4, WorkerKeeps DEF Running, InRun, Signals
<1>3. CASE Quit(t)
  <2>1. /\ w.pc = "quitting" /\ thread_ \in Sessions
        /\ worker' = [worker EXCEPT ![t].pc = "exec", ![thread_].quit = TRUE]
        /\ UNCHANGED <<m_connected, session_, thread_, gui, events, live, created, failures, hasty>>
    BY <1>0, <1>3, TypeOKParts DEF Quit
  <2>2. /\ worker'[t].pc = "exec"
        /\ \A u \in Sessions : u # t => worker'[u].pc = worker[u].pc
                                      /\ worker'[u].session = worker[u].session
    BY <1>0, <2>1, TypeOKParts DEF Thread
  <2> QED
    BY <1>0, <2>1, <2>2, WorkerKeeps DEF Running, InRun
<1>4. CASE InitDecoder(t)
  BY <1>2, <1>4 DEF InitDecoder, Signals
<1>5. CASE Leave(t)
  BY <1>2, <1>5 DEF Leave, Signals
<1>6. CASE Stopped(t)
  BY <1>2, <1>6 DEF Stopped, Signals
<1>7. CASE Finish(t)
  BY <1>2, <1>7 DEF Finish, Signals
<1> QED
  BY <1>1, <1>3, <1>4, <1>5, <1>6, <1>7 DEF Work

-----------------------------------------------------------------------------
LEMMA NextIInv == IInv /\ [Next]_vars => IInv'
<1> SUFFICES ASSUME IInv, [Next]_vars PROVE IInv'
  OBVIOUS
<1>1. CASE UNCHANGED vars
  BY <1>1 DEF vars, IInv, TypeOK, Room, Unborn, NoSessionLeaks, Calm, Alone, RunsOwn,
     EndedIsSignalled, ConnectsAlone, Flag, Pending, Running, InRun
<1> QED
  BY <1>1, ConnectKeeps, DisconnectKeeps, EndStopKeeps, TerminateKeeps, HandleEventKeeps,
     WorkKeeps DEF Next, User

LEMMA Invariance == Spec => []IInv
BY InitIInv, NextIInv, PTL DEF Spec

\* rs_client_session_run never works on a session that was freed, as long as the
\* user lets an old session end before beginning the next one.
THEOREM NothingDangles == Spec => []NoDanglingUse
<1>1. IInv => NoDanglingUse
  <2> SUFFICES ASSUME IInv, ~ hasty, NEW t \in Sessions, InRun(t)
               PROVE  worker[t].session \in live
    BY DEF NoDanglingUse
  <2> QED
    BY DEF IInv, Calm, RunsOwn, Running
<1> QED
  BY <1>1, Invariance, PTL

\* The window says "connected" exactly while a session is being received, once the
\* signals are handled, for a user who is not hasty and if no allocation failed.
THEOREM WindowTellsTheTruth == Spec => []WindowIsRight
<1>1. IInv => WindowIsRight
  <2> SUFFICES ASSUME IInv, ~ hasty, failures = 0, gui = "idle", events = <<>>,
                      \A t \in Sessions : worker[t].pc # "done"
               PROVE  m_connected <=> \E t \in Sessions : worker[t].pc = "started" \/ InRun(t)
    BY DEF WindowIsRight
  <2>1. ~ Pending({"over", "stopped"})
    BY DEF Pending
  <2> QED
    BY <2>1 DEF IInv, Flag, Running
<1> QED
  BY <1>1, Invariance, PTL

\* Every session that is allocated stays the connector's until it is freed,
\* whatever the user does and whichever threads are killed.
THEOREM SessionsDoNotLeak == Spec => []NoSessionLeaks
<1>1. IInv => NoSessionLeaks
  BY DEF IInv
<1> QED
  BY <1>1, Invariance, PTL
=============================================================================
