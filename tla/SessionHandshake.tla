-------------------------- MODULE SessionHandshake --------------------------
(***************************************************************************)
(* The session handshake of src/session_hs: one finite-state machine per   *)
(* side (hs_state.c), driven by the messages a side sends as well as by    *)
(* the ones it receives, over a channel that may lose or repeat a message. *)
(* The driver that owns the two machines and the channel is external: the  *)
(* repository has only its tests.                                          *)
(***************************************************************************)
EXTENDS Naturals, Sequences

CONSTANTS
    MaxInFlight,   \* messages one inbox can hold
    MaxLosses      \* messages the channel may lose in one behaviour

ChannelBounds == MaxInFlight \in Nat \ {0} /\ MaxLosses \in Nat

VARIABLES
    state,      \* role -> state of its hs_fsm_t
    inbox,      \* role -> messages in flight to it
    losses      \* messages lost so far

vars == <<state, inbox, losses>>

Roles == {"client", "server"}
Other(r) == IF r = "client" THEN "server" ELSE "client"

ClientPath == <<"INIT", "HELLO_SENT", "AUTH", "AUTH_SENT", "CONFIG_WAIT", "READY">>
ServerPath == <<"INIT", "HELLO_RCVD", "AUTH_WAIT", "AUTH_VERIFY", "CONFIG_SENT", "READY">>
Path(r) == IF r = "client" THEN ClientPath ELSE ServerPath

Terminal == {"ERROR", "CLOSED"}
States(r) == {Path(r)[i] : i \in 1..6} \union Terminal

\* The message that takes the machine from the i-th state of its path to the next.
Script == <<"HELLO", "HELLO_ACK", "AUTH", "AUTH_ACK", "CONFIG">>
Messages == {Script[i] : i \in 1..5} \union {"READY", "ERROR", "BYE"}

\* The messages each side originates (the directions of hs_msg_type_t).
Originates(r) ==
    {"READY", "ERROR", "BYE"} \union
        (IF r = "client" THEN {"HELLO", "AUTH"} ELSE {"HELLO_ACK", "AUTH_ACK", "CONFIG"})

hs_fsm_is_terminal(s) == s \in Terminal

\* Variants of the code, for the runs that show a property can fail, stand before
\* the definition they change.  A repeated message is taken for the next one.
AcceptsRepeated(r, s, m) ==
    /\ ~ hs_fsm_is_terminal(s)
    /\ \/ m \in {"ERROR", "BYE"}
       \/ \E i \in 1..5 : s = Path(r)[i] /\ m \in {Script[j] : j \in 1..i}

\* hs_fsm_process returns 0.
Accepts(r, s, m) ==
    /\ ~ hs_fsm_is_terminal(s)
    /\ \/ m \in {"ERROR", "BYE"}
       \/ \E i \in 1..5 : s = Path(r)[i] /\ m = Script[i]

\* The state hs_fsm_process leaves behind when it accepts m.
StateAfter(r, s, m) ==
    CASE m = "ERROR" -> "ERROR"
      [] m = "BYE"   -> "CLOSED"
      [] OTHER       -> Path(r)[CHOOSE i \in 2..6 : s = Path(r)[i-1]]

Init ==
    /\ state = [r \in Roles |-> "INIT"]
    /\ inbox = [r \in Roles |-> <<>>]
    /\ losses = 0

hs_fsm_process(r, m) ==
    state' = IF Accepts(r, state[r], m)
             THEN [state EXCEPT ![r] = StateAfter(r, @, m)]
             ELSE state

\* A side feeds its own machine the message it is about to send and sends it
\* only when the machine accepts.
Send(r, m) ==
    /\ m \in Originates(r)
    /\ Accepts(r, state[r], m)
    /\ Len(inbox[Other(r)]) < MaxInFlight
    /\ hs_fsm_process(r, m)
    /\ inbox' = [inbox EXCEPT ![Other(r)] = Append(@, m)]
    /\ UNCHANGED losses

Receive(r) ==
    /\ inbox[r] # <<>>
    /\ hs_fsm_process(r, Head(inbox[r]))
    /\ inbox' = [inbox EXCEPT ![r] = Tail(@)]
    /\ UNCHANGED losses

hs_fsm_set_error(r) ==
    /\ state' = [state EXCEPT ![r] = "ERROR"]
    /\ UNCHANGED <<inbox, losses>>

hs_fsm_close(r) ==
    /\ state' = [state EXCEPT ![r] = "CLOSED"]
    /\ UNCHANGED <<inbox, losses>>

Lose(r) ==
    /\ losses < MaxLosses
    /\ inbox[r] # <<>>
    /\ inbox' = [inbox EXCEPT ![r] = Tail(@)]
    /\ losses' = losses + 1
    /\ UNCHANGED state

Duplicate(r) ==
    /\ inbox[r] # <<>>
    /\ Len(inbox[r]) < MaxInFlight
    /\ inbox' = [inbox EXCEPT ![r] = Append(@, Head(@))]
    /\ UNCHANGED <<state, losses>>

Next == \E r \in Roles :
    \/ \E m \in Messages : Send(r, m)
    \/ Receive(r)
    \/ hs_fsm_set_error(r)
    \/ hs_fsm_close(r)
    \/ Lose(r)
    \/ Duplicate(r)

Spec == Init /\ [][Next]_vars

-----------------------------------------------------------------------------
TypeOK ==
    /\ state \in [Roles -> UNION {States(r) : r \in Roles}]
    /\ \A r \in Roles : state[r] \in States(r)
    /\ inbox \in [Roles -> Seq(Messages)]
    /\ losses \in 0..MaxLosses

\* How far along its path a side has come; a terminal side counts as finished.
Progress(r) ==
    IF state[r] \in Terminal THEN 6 ELSE CHOOSE i \in 1..6 : state[r] = Path(r)[i]

\* The two machines never drift apart: a side that is ahead is ahead only by
\* messages it sent itself, which is one message for the client and at most two,
\* AUTH_ACK and CONFIG, for the server.  The state diagram of hs_state.h:5-21 has
\* the two columns in step; a lost or repeated message must not break that.
LockStep ==
    \A r \in Roles : state[r] \notin Terminal =>
        \A i \in Progress(Other(r))..(Progress(r) - 1) : Script[i] \in Originates(r)

\* A client that may start to render has a server that has committed to the
\* configuration it sent (hs_state.c:68-73 against 109-114).
ClientReadyOnlyAfterServer ==
    state["client"] = "READY" => state["server"] \in {"READY"} \union Terminal
=============================================================================
