--------------------------- MODULE DesktopSession ---------------------------
(***************************************************************************)
(* The desktop client's sessions: RootStreamClient and                     *)
(* StreamBackendConnector on the GUI thread, and one worker thread for     *)
(* each session, which executes rs_client_session_run.  A worker tells the *)
(* GUI what happens through signals, which wait in the GUI thread's event  *)
(* queue until the GUI is idle.                                            *)
(*                                                                         *)
(* What one turn of the receive loop does is PeerLink's and                *)
(* VideoReassembly's; here a worker is in it or not.                       *)
(***************************************************************************)
EXTENDS Integers, FiniteSets, Sequences

CONSTANTS
    MaxSessions,    \* calls of connectToHost in one behaviour
    MaxFailures,    \* allocations of a session that may fail
    MaxTerminations \* waits that may run into the 2 s limit

ASSUME BoundsAssumption ==
    {MaxSessions, MaxFailures, MaxTerminations} \subseteq Nat

Sessions == 1..MaxSessions
None == 0           \* a null pointer

VARIABLES
    m_connected,    \* RootStreamClient's flag: what the user sees
    session_,       \* StreamBackendConnector's session
    thread_,        \* StreamBackendConnector's thread
    gui,            \* idle, or in disconnect(), which waits for the thread
    events,         \* the GUI thread's queued signals
    live,           \* sessions allocated and not freed
    stop_requested, \* sessions told to stop
    worker,         \* the worker threads
    created, failures, terminations,
    hasty           \* history: a connection was begun before the last one was over

vars == <<m_connected, session_, thread_, gui, events, live, stop_requested, worker,
          created, failures, terminations, hasty>>

\* pc: where the thread is.  session: the session its run() works on.
\* quit: its event loop has been told to end.
NoThread == [pc |-> "none", session |-> None, quit |-> FALSE]

Init ==
    /\ m_connected = FALSE
    /\ session_ = None /\ thread_ = None
    /\ gui = "idle"
    /\ events = <<>>
    /\ live = {} /\ stop_requested = {}
    /\ worker = [t \in Sessions |-> NoThread]
    /\ created = 0 /\ failures = 0 /\ terminations = 0
    /\ hasty = FALSE

-----------------------------------------------------------------------------
\* The GUI thread.

\* The rest of connectToHost, once no session is left, and of connectToPeer:
\* the user is told of a connection whether or not there is a session.
Open(alive) ==
    LET n == created + 1 IN
    /\ created' = n
    /\ m_connected' = TRUE
    /\ gui' = "idle"
    /\ \/ /\ session_' = n /\ thread_' = n
          /\ live' = alive \union {n}
          /\ worker' = [worker EXCEPT ![n].pc = "started"]
          /\ UNCHANGED failures
       \/ /\ failures < MaxFailures
          /\ failures' = failures + 1
          /\ session_' = None /\ live' = alive
          /\ UNCHANGED <<thread_, worker>>

\* disconnect() with a session: ask it to stop, then wait for its thread.
BeginStop(reason) ==
    /\ stop_requested' = stop_requested \union {session_}
    /\ gui' = reason
    /\ UNCHANGED <<m_connected, session_, thread_, events, live, worker, created, failures,
                   terminations>>

\* Nothing of an earlier session is left, neither its thread nor a signal.
Settled == events = <<>> /\ thread_ = None

\* Bounded by the number of sessions.
MayConnect ==
    /\ gui = "idle" /\ created < MaxSessions
    /\ hasty' = (hasty \/ ~Settled)

connectToHost ==
    \/ /\ session_ # None
       /\ BeginStop("connecting")
    \/ /\ session_ = None
       /\ Open(live)
       /\ UNCHANGED <<events, stop_requested, terminations>>

connectToPeer == MayConnect /\ ~m_connected /\ connectToHost

connectToAddress == MayConnect /\ connectToHost

disconnect ==
    /\ gui = "idle" /\ m_connected
    /\ \/ /\ session_ # None
          /\ BeginStop("disconnecting")
       \/ /\ session_ = None
          /\ m_connected' = FALSE
          /\ UNCHANGED <<session_, thread_, gui, events, live, stop_requested, worker,
                         created, failures, terminations>>
    /\ UNCHANGED hasty

\* Variant: the flag is left to the worker's signals.
FinishStopQuietly ==
    \/ /\ gui = "disconnecting"
       /\ gui' = "idle" /\ session_' = None /\ live' = live \ {session_}
       /\ UNCHANGED <<m_connected, thread_, worker, created, failures>>
    \/ /\ gui = "connecting"
       /\ Open(live \ {session_})

\* Variant: the session is only freed when the user disconnects.
FinishStopLeaks ==
    \/ /\ gui = "disconnecting"
       /\ gui' = "idle" /\ m_connected' = FALSE
       /\ session_' = None /\ live' = live \ {session_}
       /\ UNCHANGED <<thread_, worker, created, failures>>
    \/ /\ gui = "connecting"
       /\ Open(live)

\* The rest of disconnect(), and of what called it.
FinishStop ==
    \/ /\ gui = "disconnecting"
       /\ gui' = "idle" /\ m_connected' = FALSE
       /\ session_' = None /\ live' = live \ {session_}
       /\ UNCHANGED <<thread_, worker, created, failures>>
    \/ /\ gui = "connecting"
       /\ Open(live \ {session_})

\* Variant: the thread is not waited for.
Unjoined == TRUE

\* The thread ended, or there is none to wait for.
Joined == thread_ # None => worker[thread_].pc = "finished"

EndStop ==
    /\ gui # "idle" /\ Joined
    /\ FinishStop
    /\ UNCHANGED <<events, stop_requested, terminations, hasty>>

\* It did not end within the limit: disconnect() kills it, wherever it is.
Terminate ==
    /\ gui # "idle" /\ ~Joined
    /\ terminations < MaxTerminations
    /\ terminations' = terminations + 1
    /\ worker' = [worker EXCEPT ![thread_].pc = "finished"]
    /\ events' = Append(events, "finished")
    /\ UNCHANGED <<m_connected, session_, thread_, gui, live, stop_requested, created,
                   failures, hasty>>

\* onSessionStateChanged, onSessionStopped and the handler of QThread::finished.
\* None of them looks at the session the signal is about.
HandleEvent ==
    /\ gui = "idle" /\ events # <<>>
    /\ events' = Tail(events)
    /\ m_connected' = (m_connected /\ Head(events) \notin {"over", "stopped"})
    /\ thread_' = IF Head(events) = "finished" THEN None ELSE thread_
    /\ UNCHANGED <<session_, gui, live, stop_requested, worker, created, failures,
                   terminations, hasty>>

-----------------------------------------------------------------------------
\* Thread t.

WorkerStep(t, w, signals) ==
    /\ worker' = [worker EXCEPT ![t] = w]
    /\ events' = events \o signals
    /\ UNCHANGED <<m_connected, session_, thread_, gui, live, stop_requested, created,
                   failures, terminations, hasty>>

\* The thread takes the connector's session; run() of a null one returns.
Start(t) ==
    /\ worker[t].pc = "started"
    /\ WorkerStep(t, [worker[t] EXCEPT !.pc = IF session_ = None THEN "done" ELSE "init",
                                       !.session = session_], <<>>)

\* run() prepares its decoder and goes into the receive loop, or reports an error.
InitDecoder(t) ==
    /\ worker[t].pc = "init"
    /\ \/ WorkerStep(t, [worker[t] EXCEPT !.pc = "loop"], <<>>)
       \/ WorkerStep(t, [worker[t] EXCEPT !.pc = "done"], <<"over">>)

\* Variant: the loop is only left when the host hangs up.
LeaveNever(t) == FALSE

\* The loop's condition, the cleanup behind it and the last state signal.
Leave(t) ==
    /\ worker[t].pc = "loop" /\ worker[t].session \in stop_requested
    /\ WorkerStep(t, [worker[t] EXCEPT !.pc = "done"], <<"over">>)

Stopped(t) ==
    /\ worker[t].pc = "done"
    /\ WorkerStep(t, [worker[t] EXCEPT !.pc = "quitting"], <<"stopped">>)

\* Variant: the event loop is not told to end.
QuitNothing(t) ==
    /\ worker[t].pc = "quitting" /\ thread_ # None
    /\ WorkerStep(t, [worker[t] EXCEPT !.pc = "exec"], <<>>)

\* The thread tells whichever thread the connector holds to leave its event loop.
\* Without one the code calls through a null pointer; here the thread goes no further.
Quit(t) ==
    /\ worker[t].pc = "quitting" /\ thread_ # None
    /\ worker' = [worker EXCEPT ![t].pc = "exec", ![thread_].quit = TRUE]
    /\ UNCHANGED <<m_connected, session_, thread_, gui, events, live, stop_requested,
                   created, failures, terminations, hasty>>

Finish(t) ==
    /\ worker[t].pc = "exec" /\ worker[t].quit
    /\ WorkerStep(t, [worker[t] EXCEPT !.pc = "finished"], <<"finished">>)

Work(t) == Start(t) \/ InitDecoder(t) \/ Leave(t) \/ Stopped(t) \/ Quit(t) \/ Finish(t)

User == connectToPeer \/ connectToAddress \/ disconnect

Next == User \/ EndStop \/ Terminate \/ HandleEvent \/ \E t \in Sessions : Work(t)

Spec == Init /\ [][Next]_vars

\* Every thread is scheduled, and so is the GUI's event loop; nobody has to click,
\* and no wait has to run into its limit.
FairSpec ==
    /\ Spec
    /\ WF_vars(EndStop) /\ WF_vars(HandleEvent)
    /\ \A t \in Sessions : WF_vars(Work(t))

-----------------------------------------------------------------------------
PCs == {"none", "started", "init", "loop", "done", "quitting", "exec", "finished"}

TypeOK ==
    /\ m_connected \in BOOLEAN
    /\ {session_, thread_} \subseteq Sessions \union {None}
    /\ gui \in {"idle", "connecting", "disconnecting"}
    /\ events \in Seq({"over", "stopped", "finished"})
    /\ live \subseteq Sessions /\ stop_requested \subseteq Sessions
    /\ worker \in [Sessions -> [pc : PCs, session : Sessions \union {None}, quit : BOOLEAN]]
    /\ created \in 0..MaxSessions
    /\ failures \in 0..MaxFailures /\ terminations \in 0..MaxTerminations
    /\ hasty \in BOOLEAN

InRun(t) == worker[t].pc \in {"init", "loop"}

\* rootstream_client_session.h:203-209, stream_backend_connector.h: disconnect()
\* stops the session and joins the thread, so run() never works on a session that
\* was freed, as long as the user lets an old session end before the next one.
NoDanglingUse == ~hasty => \A t \in Sessions : InRun(t) => worker[t].session \in live

\* Once every signal is handled, the window says "connected" exactly while a
\* session is being received, with the exceptions of a hasty user and of a session
\* that could not be created.
WindowIsRight ==
    (~hasty /\ failures = 0 /\ gui = "idle" /\ events = <<>> /\ \A t \in Sessions : worker[t].pc # "done")
        => (m_connected <=> \E t \in Sessions : worker[t].pc = "started" \/ InRun(t))

\* A session that was allocated is the connector's, so it will be freed, whenever
\* the user connects and whichever threads are killed.
NoSessionLeaks == live \subseteq {session_}

\* disconnect() returns.
DisconnectReturns == gui # "idle" ~> gui = "idle"

\* A thread whose session was stopped ends.
StoppedThreadsEnd ==
    \A t \in Sessions : (~hasty /\ InRun(t) /\ worker[t].session \in stop_requested)
                            ~> (hasty \/ worker[t].pc = "finished")

-----------------------------------------------------------------------------
\* What the headers say of any user.

\* include/rootstream_client_session.h:205: destroy is safe while run() executes.
RunKeepsItsSession == \A t \in Sessions : InRun(t) => worker[t].session \in live
=============================================================================
