--------------------------- MODULE Sessions_proofs ---------------------------
(***************************************************************************)
(* The two libraries with a protocol: the session handshake and the        *)
(* session checkpoints.                                                    *)
(*                                                                         *)
(* For a channel of any length that loses and repeats any number of        *)
(* messages the two machines of src/session_hs stay in step, because a     *)
(* message in flight is behind its sender: a side that receives it cannot  *)
(* get past the side that sent it.                                         *)
(*                                                                         *)
(* For any number of threads, saves and kills a checkpoint that was saved  *)
(* is never lost to a kill and a load returns what is recent, because a    *)
(* file is written under the temporary name only, which one save uses at a *)
(* time, and gets its own name when it is complete.                        *)
(***************************************************************************)
EXTENDS Parts, TLAPS

-----------------------------------------------------------------------------
(* The handshake.                                                          *)

Chan == Seq(H!Messages)

Shape ==
    /\ state \in [H!Roles -> UNION {H!States(r) : r \in H!Roles}]
    /\ \A r \in H!Roles : state[r] \in H!States(r)
    /\ inbox \in [H!Roles -> Chan]

\* The sender of a message of the script has taken the step the message is about.
Behind(r, m) ==
    \A i \in 1..5 : m = H!Script[i] =>
         H!Script[i] \in H!Originates(H!Other(r)) /\ H!Progress(H!Other(r)) > i

InFlight == \A r \in H!Roles : \A k \in 1..Len(inbox[r]) : Behind(r, inbox[r][k])

HandshakeInv == Shape /\ InFlight /\ H!LockStep

----------------------------------------------------------------------------
(* The paths and the script.                                                *)

LEMMA ScriptDistinct ==
    /\ \A i \in 1..5 : H!Script[i] \in H!Messages \ {"ERROR", "BYE"}
    /\ \A i, j \in 1..5 : H!Script[i] = H!Script[j] => i = j
BY DEF H!Script, H!Messages

LEMMA PathDistinct ==
    ASSUME NEW r \in H!Roles
    PROVE  /\ \A i \in 1..6 : H!Path(r)[i] \in H!States(r) \ H!Terminal
           /\ \A i, j \in 1..6 : H!Path(r)[i] = H!Path(r)[j] => i = j
BY DEF H!Roles, H!Path, H!ClientPath, H!ServerPath, H!States, H!Terminal

LEMMA OtherIsOther ==
    ASSUME NEW r \in H!Roles
    PROVE  H!Other(r) \in H!Roles /\ H!Other(r) # r /\ H!Other(H!Other(r)) = r
           /\ \A q \in H!Roles : q # r => q = H!Other(r)
BY DEF H!Roles, H!Other

\* Where a side is on its path.
LEMMA ProgressIs ==
    ASSUME NEW r \in H!Roles, state[r] \in H!States(r)
    PROVE  /\ H!Progress(r) \in 1..6
           /\ state[r] \in H!Terminal => H!Progress(r) = 6
           /\ \A i \in 1..6 : state[r] = H!Path(r)[i] => H!Progress(r) = i
<1>1. CASE state[r] \in H!Terminal
  BY <1>1, PathDistinct DEF H!Progress
<1>2. CASE state[r] \notin H!Terminal
  <2>1. PICK i \in 1..6 : state[r] = H!Path(r)[i]
    BY <1>2 DEF H!States
  <2>2. \A j \in 1..6 : state[r] = H!Path(r)[j] => j = i
    BY <2>1, PathDistinct
  <2> QED
    BY <1>2, <2>1, <2>2 DEF H!Progress
<1> QED
  BY <1>1, <1>2

\* The step of the path StateAfter looks up.
LEMMA NextOnPath ==
    ASSUME NEW r \in H!Roles, NEW i \in 1..5, state[r] = H!Path(r)[i]
    PROVE  (CHOOSE l \in 2..6 : state[r] = H!Path(r)[l-1]) = i + 1
<1>1. i + 1 \in 2..6 /\ (i + 1) - 1 = i
  OBVIOUS
<1>2. ASSUME NEW l \in 2..6, state[r] = H!Path(r)[l-1] PROVE l = i + 1
  <2>1. PICK a \in 1..6 : a = l - 1
    OBVIOUS
  <2>2. i \in 1..6 /\ H!Path(r)[a] = H!Path(r)[i]
    BY <1>2, <2>1
  <2>3. a = i
    BY <2>2, PathDistinct
  <2> QED
    BY <2>1, <2>3
<1> QED
  BY <1>1, <1>2

\* The machine takes one step of its path, ends, or refuses the message.
LEMMA ProcessCases ==
    ASSUME NEW r \in H!Roles, NEW m \in H!Messages, Shape, H!hs_fsm_process(r, m)
    PROVE  \/ state' = state
           \/ state' = [state EXCEPT ![r] = "ERROR"] \/ state' = [state EXCEPT ![r] = "CLOSED"]
           \/ \E i \in 1..5 : /\ m = H!Script[i] /\ state[r] = H!Path(r)[i]
                              /\ state' = [state EXCEPT ![r] = H!Path(r)[i + 1]]
<1>1. CASE ~ H!Accepts(r, state[r], m)
  BY <1>1 DEF H!hs_fsm_process
<1>2. CASE H!Accepts(r, state[r], m) /\ m \in {"ERROR", "BYE"}
  BY <1>2 DEF H!hs_fsm_process, H!StateAfter, Shape
<1>3. CASE H!Accepts(r, state[r], m) /\ m \notin {"ERROR", "BYE"}
  <2>1. PICK i \in 1..5 : state[r] = H!Path(r)[i] /\ m = H!Script[i]
    BY <1>3 DEF H!Accepts
  <2>2. state' = [state EXCEPT ![r] = H!Path(r)[i + 1]]
    BY <1>3, <2>1, NextOnPath DEF H!hs_fsm_process, H!StateAfter, Shape
  <2> QED
    BY <2>1, <2>2
<1> QED
  BY <1>1, <1>2, <1>3

----------------------------------------------------------------------------
(* Steps of one machine.                                                    *)

\* A step of r that ends it, or that the side opposite is already past or r
\* itself originates, keeps the machines in step and every message in flight
\* behind its sender.
LEMMA StepKeeps ==
    ASSUME NEW r \in H!Roles, HandshakeInv,
           \/ state' = state
           \/ state' = [state EXCEPT ![r] = "ERROR"] \/ state' = [state EXCEPT ![r] = "CLOSED"]
           \/ \E i \in 1..5 : /\ state[r] = H!Path(r)[i]
                              /\ H!Progress(H!Other(r)) > i \/ H!Script[i] \in H!Originates(r)
                              /\ state' = [state EXCEPT ![r] = H!Path(r)[i + 1]]
    PROVE  /\ state' \in [H!Roles -> UNION {H!States(q) : q \in H!Roles}]
           /\ \A q \in H!Roles : state'[q] \in H!States(q)
           /\ H!LockStep'
           /\ \A q \in H!Roles : \A m : Behind(q, m) => Behind(q, m)'
<1> USE DEF HandshakeInv, Shape
<1> DEFINE o == H!Other(r)
<1>0. o \in H!Roles /\ o # r /\ \A q \in H!Roles : q = r \/ q = o
  BY OtherIsOther
<1>1. CASE state' = state
  <2>1. H!LockStep'
    BY <1>1 DEF H!LockStep, H!Progress
  <2>2. ASSUME NEW q \in H!Roles, NEW m, Behind(q, m) PROVE Behind(q, m)'
    BY <1>1, <2>2 DEF Behind, H!Progress
  <2> QED
    BY <1>1, <2>1, <2>2
<1>2. CASE state' # state
  <2>1. /\ state' \in [H!Roles -> UNION {H!States(q) : q \in H!Roles}]
        /\ state'[o] = state[o] /\ state'[r] \in H!States(r)
    <3>1. \A i \in 1..5 : i + 1 \in 1..6
      OBVIOUS
    <3>2. "ERROR" \in H!States(r) /\ "CLOSED" \in H!States(r)
      BY DEF H!States, H!Terminal
    <3> QED
      BY <1>0, <1>2, <3>1, <3>2, PathDistinct
  <2>2. \A q \in H!Roles : state'[q] \in H!States(q)
    BY <1>0, <2>1
  <2>3. H!Progress(o)' = H!Progress(o) /\ H!Progress(o) \in 1..6 /\ H!Progress(r) \in 1..6
    BY <1>0, <2>1, ProgressIs DEF H!Progress
  <2>4. \/ state'[r] \in H!Terminal /\ H!Progress(r)' = 6
        \/ \E i \in 1..5 : /\ H!Progress(r) = i /\ H!Progress(r)' = i + 1
                           /\ state[r] \notin H!Terminal
                           /\ H!Progress(o) > i \/ H!Script[i] \in H!Originates(r)
    <3>1. CASE state'[r] \in H!Terminal
      BY <3>1 DEF H!Progress
    <3>2. CASE state'[r] \notin H!Terminal
      <4>1. PICK i \in 1..5 : /\ state[r] = H!Path(r)[i]
                              /\ H!Progress(o) > i \/ H!Script[i] \in H!Originates(r)
                              /\ state' = [state EXCEPT ![r] = H!Path(r)[i + 1]]
        BY <1>2, <3>2 DEF H!Terminal
      <4>2. state'[r] = H!Path(r)[i + 1] /\ i + 1 \in 1..6 /\ i \in 1..6
        BY <4>1
      <4>3. H!Progress(r) = i /\ state[r] \notin H!Terminal
        BY <4>1, <4>2, ProgressIs, PathDistinct
      <4>4. H!Progress(r)' = i + 1
        <5>1. \A j \in 1..6 : state'[r] = H!Path(r)[j] => j = i + 1
          BY <4>2, PathDistinct
        <5> QED
          BY <3>2, <4>2, <5>1 DEF H!Progress
      <4> QED
        BY <4>1, <4>3, <4>4
    <3> QED
      BY <3>1, <3>2
  <2>5. H!Progress(r)' >= H!Progress(r) /\ H!Progress(r)' \in 1..6
    BY <2>3, <2>4
  <2>6. H!LockStep'
    <3>1. state'[o] \notin H!Terminal =>
            \A i \in H!Progress(r)'..(H!Progress(o)' - 1) : H!Script[i] \in H!Originates(o)
      <4>1. state[o] \notin H!Terminal =>
              \A i \in H!Progress(r)..(H!Progress(o) - 1) : H!Script[i] \in H!Originates(o)
        BY <1>0, OtherIsOther DEF H!LockStep
      <4>2. \A i \in H!Progress(r)'..(H!Progress(o)' - 1) : i \in H!Progress(r)..(H!Progress(o) - 1)
        BY <2>3, <2>5
      <4> QED
        BY <2>1, <4>1, <4>2
    <3>2. state'[r] \notin H!Terminal =>
            \A i \in H!Progress(o)'..(H!Progress(r)' - 1) : H!Script[i] \in H!Originates(r)
      <4> SUFFICES ASSUME state'[r] \notin H!Terminal, NEW i \in H!Progress(o)..(H!Progress(r)' - 1)
                   PROVE  H!Script[i] \in H!Originates(r)
        BY <2>3
      <4>1. PICK j \in 1..5 : /\ H!Progress(r) = j /\ H!Progress(r)' = j + 1
                              /\ state[r] \notin H!Terminal
                              /\ H!Progress(o) > j \/ H!Script[j] \in H!Originates(r)
        BY <2>4
      <4>2. i = j \/ i \in H!Progress(o)..(H!Progress(r) - 1)
        BY <2>3, <4>1
      <4>3. i = j => H!Progress(o) <= j
        BY <2>3, <4>1
      <4>4. i \in H!Progress(o)..(H!Progress(r) - 1) => H!Script[i] \in H!Originates(r)
        BY <4>1 DEF H!LockStep
      <4> QED
        BY <2>3, <4>1, <4>2, <4>3, <4>4
    <3> QED
      BY <1>0, <3>1, <3>2, OtherIsOther DEF H!LockStep
  <2>7. ASSUME NEW q \in H!Roles, NEW m, Behind(q, m) PROVE Behind(q, m)'
    <3>1. H!Progress(H!Other(q))' >= H!Progress(H!Other(q)) /\ H!Progress(H!Other(q))' \in 1..6
          /\ H!Progress(H!Other(q)) \in 1..6
      BY <1>0, <2>3, <2>5, OtherIsOther
    <3> QED
      BY <2>7, <3>1 DEF Behind
  <2> QED
    BY <2>1, <2>2, <2>6, <2>7
<1> QED
  BY <1>1, <1>2

----------------------------------------------------------------------------
(* Steps of the channel.                                                    *)

LEMMA InFlightKept ==
    ASSUME InFlight, \A q \in H!Roles : \A m : Behind(q, m) => Behind(q, m)',
           \A q \in H!Roles : \A k \in 1..Len(inbox'[q]) : \A m : m = inbox'[q][k] =>
                (\E l \in 1..Len(inbox[q]) : m = inbox[q][l]) \/ Behind(q, m)'
    PROVE  InFlight'
<1> SUFFICES ASSUME NEW q \in H!Roles, NEW k \in 1..Len(inbox'[q]), NEW m, m = inbox'[q][k]
             PROVE  Behind(q, m)'
  BY DEF InFlight
<1>1. CASE \E l \in 1..Len(inbox[q]) : m = inbox[q][l]
  <2>1. Behind(q, m)
    BY <1>1 DEF InFlight
  <2> QED
    BY <2>1
<1> QED
  BY <1>1

\* What stays in an inbox when its first message goes.
LEMMA TailKeeps ==
    ASSUME NEW s \in Chan, s # <<>>
    PROVE  /\ Tail(s) \in Chan /\ Head(s) \in H!Messages /\ Head(s) = s[1] /\ 1 \in 1..Len(s)
           /\ \A k \in 1..Len(Tail(s)) : k + 1 \in 1..Len(s) /\ Tail(s)[k] = s[k + 1]
BY DEF Chan

\* When the first message of an inbox goes, the others stay behind their sender.
LEMMA TailInFlight ==
    ASSUME HandshakeInv, NEW r \in H!Roles, inbox[r] # <<>>, inbox' = [inbox EXCEPT ![r] = Tail(@)],
           state' \in [H!Roles -> UNION {H!States(q) : q \in H!Roles}],
           \A q \in H!Roles : state'[q] \in H!States(q),
           H!LockStep',
           \A q \in H!Roles : \A x : Behind(q, x) => Behind(q, x)'
    PROVE  HandshakeInv'
<1>1. inbox[r] \in Chan
  BY DEF HandshakeInv, Shape
<1>2. inbox'[r] = Tail(inbox[r]) /\ \A q \in H!Roles : q # r => inbox'[q] = inbox[q]
  BY DEF HandshakeInv, Shape
<1>3. inbox' \in [H!Roles -> Chan]
  BY <1>1, TailKeeps DEF HandshakeInv, Shape
<1>4. ASSUME NEW k \in 1..Len(inbox'[r]), NEW x, x = inbox'[r][k]
      PROVE  \E l \in 1..Len(inbox[r]) : x = inbox[r][l]
  <2>1. k \in 1..Len(Tail(inbox[r])) /\ x = Tail(inbox[r])[k]
    BY <1>2, <1>4
  <2>2. k + 1 \in 1..Len(inbox[r]) /\ x = inbox[r][k + 1]
    BY <1>1, <2>1, TailKeeps
  <2> QED
    BY <2>2
<1>5. InFlight'
  BY <1>2, <1>4, InFlightKept DEF HandshakeInv
<1> QED
  BY <1>3, <1>5 DEF HandshakeInv, Shape

LEMMA AppendAdds ==
    ASSUME NEW s \in Chan, NEW m \in H!Messages
    PROVE  /\ Append(s, m) \in Chan
           /\ \A k \in 1..Len(Append(s, m)) : (k \in 1..Len(s) /\ Append(s, m)[k] = s[k])
                                              \/ Append(s, m)[k] = m
BY DEF Chan

\* Every action is a step of one machine or of the channel alone.
LEMMA HandshakeNext ==
    ASSUME HandshakeInv, [H!Next]_(H!vars) PROVE HandshakeInv'
<1> USE DEF HandshakeInv
<1>1. CASE UNCHANGED H!vars
  <2>1. state' = state /\ inbox' = inbox
    BY <1>1 DEF H!vars
  <2>2. Shape' /\ H!LockStep'
    BY <2>1 DEF Shape, H!LockStep, H!Progress
  <2>3. InFlight'
    BY <2>1 DEF InFlight, Behind, H!Progress
  <2> QED
    BY <2>2, <2>3
<1>2. ASSUME NEW r \in H!Roles, NEW m \in H!Messages, H!Send(r, m) PROVE HandshakeInv'
  <2> DEFINE o == H!Other(r)
  <2>1. o \in H!Roles /\ H!Other(o) = r /\ o # r
    BY OtherIsOther
  <2>2. /\ state' \in [H!Roles -> UNION {H!States(q) : q \in H!Roles}]
        /\ \A q \in H!Roles : state'[q] \in H!States(q)
        /\ H!LockStep'
        /\ \A q \in H!Roles : \A x : Behind(q, x) => Behind(q, x)'
    <3>1. \/ state' = state
          \/ state' = [state EXCEPT ![r] = "ERROR"] \/ state' = [state EXCEPT ![r] = "CLOSED"]
          \/ \E i \in 1..5 : /\ m = H!Script[i] /\ state[r] = H!Path(r)[i]
                             /\ state' = [state EXCEPT ![r] = H!Path(r)[i + 1]]
      BY <1>2, ProcessCases DEF H!Send
    <3>2. m \in H!Originates(r)
      BY <1>2 DEF H!Send
    <3> QED
      BY <3>1, <3>2, StepKeeps
  <2>3. Behind(o, m)'
    <3> SUFFICES ASSUME NEW i \in 1..5, m = H!Script[i]
                 PROVE  H!Script[i] \in H!Originates(r) /\ H!Progress(r)' > i
      BY <2>1 DEF Behind
    <3>1. m \notin {"ERROR", "BYE"}
      BY ScriptDistinct
    <3>2. H!Accepts(r, state[r], m) /\ H!hs_fsm_process(r, m) /\ m \in H!Originates(r)
      BY <1>2 DEF H!Send
    <3>3. PICK j \in 1..5 : state[r] = H!Path(r)[j] /\ m = H!Script[j]
      BY <3>1, <3>2 DEF H!Accepts
    <3>4. j = i
      BY <3>3, ScriptDistinct
    <3>5. state'[r] = H!Path(r)[i + 1]
      <4>1. (CHOOSE l \in 2..6 : state[r] = H!Path(r)[l-1]) = i + 1
        BY <3>3, <3>4, NextOnPath
      <4> QED
        BY <3>1, <3>2, <4>1 DEF H!hs_fsm_process, H!StateAfter, Shape
    <3>6. H!Progress(r)' = i + 1
      <4>1. i + 1 \in 1..6
        OBVIOUS
      <4>2. state'[r] \notin H!Terminal /\ \A k \in 1..6 : state'[r] = H!Path(r)[k] => k = i + 1
        BY <3>5, <4>1, PathDistinct
      <4> QED
        BY <3>5, <4>1, <4>2 DEF H!Progress
    <3> QED
      BY <3>2, <3>6
  <2>4. inbox' = [inbox EXCEPT ![o] = Append(@, m)]
    BY <1>2 DEF H!Send
  <2>5. /\ inbox' \in [H!Roles -> Chan]
        /\ \A q \in H!Roles : \A k \in 1..Len(inbox'[q]) : \A x : x = inbox'[q][k] =>
              (\E l \in 1..Len(inbox[q]) : x = inbox[q][l]) \/ Behind(q, x)'
    <3>1. inbox[o] \in Chan
      BY <2>1 DEF Shape
    <3>2. inbox'[o] = Append(inbox[o], m) /\ \A q \in H!Roles : q # o => inbox'[q] = inbox[q]
      BY <2>1, <2>4 DEF Shape
    <3>3. inbox' \in [H!Roles -> Chan]
      BY <2>1, <2>4, <3>1, AppendAdds DEF Shape
    <3>4. ASSUME NEW k \in 1..Len(inbox'[o]), NEW x, x = inbox'[o][k]
          PROVE  (\E l \in 1..Len(inbox[o]) : x = inbox[o][l]) \/ Behind(o, x)'
      <4>1. (k \in 1..Len(inbox[o]) /\ x = inbox[o][k]) \/ x = m
        BY <3>1, <3>2, <3>4, AppendAdds
      <4> QED
        BY <2>3, <4>1
    <3>5. ASSUME NEW q \in H!Roles, NEW k \in 1..Len(inbox'[q]), NEW x, x = inbox'[q][k]
          PROVE  (\E l \in 1..Len(inbox[q]) : x = inbox[q][l]) \/ Behind(q, x)'
      <4>1. CASE q = o
        BY <3>4, <3>5, <4>1
      <4>2. CASE q # o
        <5>1. inbox'[q] = inbox[q]
          BY <3>2, <4>2
        <5> QED
          BY <3>5, <5>1
      <4> QED
        BY <4>1, <4>2
    <3> QED
      BY <3>3, <3>5
  <2> QED
    BY <2>2, <2>5, InFlightKept DEF Shape
<1>3. ASSUME NEW r \in H!Roles, H!Receive(r) PROVE HandshakeInv'
  <2> DEFINE m == Head(inbox[r])
  <2>1. inbox[r] \in Chan /\ inbox[r] # <<>>
    BY <1>3 DEF H!Receive, Shape
  <2>2. m \in H!Messages /\ Behind(r, m)
    BY <2>1, TailKeeps DEF InFlight
  <2>3. /\ state' \in [H!Roles -> UNION {H!States(q) : q \in H!Roles}]
        /\ \A q \in H!Roles : state'[q] \in H!States(q)
        /\ H!LockStep'
        /\ \A q \in H!Roles : \A x : Behind(q, x) => Behind(q, x)'
    <3>1. \/ state' = state
          \/ state' = [state EXCEPT ![r] = "ERROR"] \/ state' = [state EXCEPT ![r] = "CLOSED"]
          \/ \E i \in 1..5 : /\ m = H!Script[i] /\ state[r] = H!Path(r)[i]
                             /\ state' = [state EXCEPT ![r] = H!Path(r)[i + 1]]
      BY <1>3, <2>2, ProcessCases DEF H!Receive
    <3>2. \A i \in 1..5 : m = H!Script[i] => H!Progress(H!Other(r)) > i
      BY <2>2 DEF Behind
    <3> HIDE DEF m
    <3> QED
      BY <3>1, <3>2, StepKeeps
  <2>4. inbox' = [inbox EXCEPT ![r] = Tail(@)]
    BY <1>3 DEF H!Receive
  <2> QED
    BY <2>1, <2>3, <2>4, TailInFlight
<1>4. ASSUME NEW r \in H!Roles, H!hs_fsm_set_error(r) \/ H!hs_fsm_close(r) PROVE HandshakeInv'
  <2>1. state' = [state EXCEPT ![r] = "ERROR"] \/ state' = [state EXCEPT ![r] = "CLOSED"]
    BY <1>4 DEF H!hs_fsm_set_error, H!hs_fsm_close
  <2>2. inbox' = inbox
    BY <1>4 DEF H!hs_fsm_set_error, H!hs_fsm_close
  <2>3. /\ state' \in [H!Roles -> UNION {H!States(q) : q \in H!Roles}]
        /\ \A q \in H!Roles : state'[q] \in H!States(q)
        /\ H!LockStep'
        /\ \A q \in H!Roles : \A x : Behind(q, x) => Behind(q, x)'
    BY <2>1, StepKeeps
  <2> QED
    BY <2>2, <2>3, InFlightKept DEF Shape
<1>5. ASSUME NEW r \in H!Roles, H!Lose(r) PROVE HandshakeInv'
  <2>1. inbox[r] \in Chan /\ inbox[r] # <<>> /\ inbox' = [inbox EXCEPT ![r] = Tail(@)]
    BY <1>5 DEF H!Lose, Shape
  <2>2. state' = state
    BY <1>5 DEF H!Lose
  <2>3. /\ state' \in [H!Roles -> UNION {H!States(q) : q \in H!Roles}]
        /\ \A q \in H!Roles : state'[q] \in H!States(q)
        /\ H!LockStep'
        /\ \A q \in H!Roles : \A x : Behind(q, x) => Behind(q, x)'
    BY <2>2, StepKeeps
  <2> QED
    BY <2>1, <2>3, TailInFlight
<1>6. ASSUME NEW r \in H!Roles, H!Duplicate(r) PROVE HandshakeInv'
  <2>1. inbox[r] \in Chan /\ inbox[r] # <<>> /\ inbox' = [inbox EXCEPT ![r] = Append(@, Head(@))]
    BY <1>6 DEF H!Duplicate, Shape
  <2>2. state' = state
    BY <1>6 DEF H!Duplicate
  <2>3. /\ state' \in [H!Roles -> UNION {H!States(q) : q \in H!Roles}]
        /\ \A q \in H!Roles : state'[q] \in H!States(q)
        /\ H!LockStep'
        /\ \A q \in H!Roles : \A x : Behind(q, x) => Behind(q, x)'
    BY <2>2, StepKeeps
  <2>4. PICK m \in H!Messages : m = Head(inbox[r]) /\ m = inbox[r][1] /\ 1 \in 1..Len(inbox[r])
    BY <2>1, TailKeeps
  <2>5. inbox'[r] = Append(inbox[r], m) /\ \A q \in H!Roles : q # r => inbox'[q] = inbox[q]
    BY <2>1, <2>4 DEF Shape
  <2>6. inbox' \in [H!Roles -> Chan]
    BY <2>1, <2>4, AppendAdds DEF Shape
  <2>7. ASSUME NEW k \in 1..Len(inbox'[r]), NEW x, x = inbox'[r][k]
        PROVE  \E l \in 1..Len(inbox[r]) : x = inbox[r][l]
    BY <2>1, <2>4, <2>5, <2>7, AppendAdds
  <2> QED
    BY <2>3, <2>5, <2>6, <2>7, InFlightKept DEF Shape
<1> QED
  BY <1>1, <1>2, <1>3, <1>4, <1>5, <1>6 DEF H!Next

----------------------------------------------------------------------------

LEMMA HandshakeInvariance == H!Spec => []HandshakeInv
<1>1. H!Init => HandshakeInv
  <2> SUFFICES ASSUME H!Init PROVE HandshakeInv
    OBVIOUS
  <2>1. \A r \in H!Roles : /\ state[r] = H!Path(r)[1] /\ state[r] \in H!States(r)
                           /\ state[r] \notin H!Terminal
    <3>1. \A r \in H!Roles : state[r] = H!Path(r)[1]
      BY DEF H!Init, H!Path, H!ClientPath, H!ServerPath, H!Roles
    <3> QED
      BY <3>1, PathDistinct
  <2>2. \A r \in H!Roles : H!Progress(r) = 1
    BY <2>1, ProgressIs
  <2>3. Shape /\ InFlight
    <3>1. <<>> \in Chan /\ Len(<<>>) = 0
      BY DEF Chan
    <3>2. \A r \in H!Roles : inbox[r] = <<>>
      BY DEF H!Init
    <3>3. InFlight
      BY <3>1, <3>2 DEF InFlight
    <3>4. Shape
      BY <2>1, <3>1 DEF H!Init, Shape
    <3> QED
      BY <3>3, <3>4
  <2>4. H!LockStep
    BY <2>2, OtherIsOther DEF H!LockStep
  <2> QED
    BY <2>3, <2>4 DEF HandshakeInv
<1>2. HandshakeInv /\ [H!Next]_(H!vars) => HandshakeInv'
  BY HandshakeNext
<1> QED
  BY <1>1, <1>2, PTL DEF H!Spec

\* The two machines never drift apart: whoever is ahead is ahead by messages it sent
\* itself, whatever is lost, repeated or refused (hs_fsm_process, hs_state.c:32-139).
LEMMA HandshakeInStep == H!Spec => []H!LockStep
<1>1. HandshakeInv => H!LockStep
  BY DEF HandshakeInv
<1> QED
  BY <1>1, HandshakeInvariance, PTL

\* A client that may start to render has a server that committed to the
\* configuration it sent (hs_state.c:68-73 against 109-114): it follows from the
\* above, since the last message of the script is the server's.
LEMMA HandshakeReady == H!Spec => []H!ClientReadyOnlyAfterServer
<1>1. HandshakeInv => H!ClientReadyOnlyAfterServer
  <2> SUFFICES ASSUME HandshakeInv, state["client"] = "READY", state["server"] \notin H!Terminal
               PROVE  state["server"] = "READY"
    BY DEF H!ClientReadyOnlyAfterServer
  <2>1. "client" \in H!Roles /\ "server" \in H!Roles /\ H!Other("client") = "server"
    BY DEF H!Roles, H!Other
  <2>2. H!Progress("client") = 6 /\ state["client"] \notin H!Terminal
    <3>1. state["client"] = H!Path("client")[6]
      BY DEF H!Path, H!ClientPath
    <3> QED
      BY <2>1, <3>1, ProgressIs, PathDistinct DEF HandshakeInv, Shape
  <2>3. PICK i \in 1..6 : state["server"] = H!Path("server")[i] /\ H!Progress("server") = i
    <3>1. PICK i \in 1..6 : state["server"] = H!Path("server")[i]
      BY <2>1 DEF HandshakeInv, Shape, H!States
    <3> QED
      BY <2>1, <3>1, ProgressIs DEF HandshakeInv, Shape
  <2>4. i = 6
    <3>1. H!Script[5] \notin H!Originates("client")
      BY DEF H!Script, H!Originates
    <3>2. \A j \in H!Progress("server")..5 : H!Script[j] \in H!Originates("client")
      BY <2>1, <2>2 DEF HandshakeInv, H!LockStep
    <3> QED
      BY <2>3, <3>1, <3>2
  <2> QED
    BY <2>3, <2>4 DEF H!Path, H!ServerPath
<1> QED
  BY <1>1, HandshakeInvariance, PTL

-----------------------------------------------------------------------------
(* The checkpoints.                                                        *)

Contents == Seq(Nat)

Files ==
    /\ data \in Contents
    /\ tmp \in 0..Len(data)
    /\ {saves, saved} \subseteq Nat
    /\ pc \in [Threads -> {"idle", "write", "rename", "read"}]
    /\ DOMAIN fd = Threads
    /\ arg \in [Threads -> Nat]
    /\ DOMAIN names \subseteq Nat /\ seq \in Nat

\* A named file is complete, and it is not the one being written.
NamedAreWhole ==
    \A s \in DOMAIN names :
        names[s] \in 1..Len(data) /\ data[names[s]] # C!Empty /\ names[s] # tmp

\* One save at a time, which writes the temporary file and names it when written.
OneWriter ==
    /\ \A t \in C!Saving : tmp # C!None /\ fd[t] = tmp /\ arg[t] # C!None
    /\ \A t \in C!Saving : pc[t] = "rename" => data[tmp] = arg[t]
    /\ \A t, u \in C!Saving : t = u

Order == NamedAreWhole /\ OneWriter /\ (saved # C!None => DOMAIN names # {})

CheckpointInv == Files /\ (spoilt = {} => Order)

LEMMA SavingIs ==
    ASSUME NEW t PROVE t \in C!Saving <=> t \in Threads /\ pc[t] \in {"write", "rename"}
BY DEF C!Saving

LEMMA CheckpointInit == C!Init => CheckpointInv
<1> SUFFICES ASSUME C!Init PROVE CheckpointInv
  OBVIOUS
<1>1. <<>> \in Contents /\ Len(<<>>) = 0
  BY DEF Contents
<1>2. Files
  BY <1>1 DEF C!Init, Files, C!None
<1>3. Order
  BY DEF C!Init, Order, NamedAreWhole, OneWriter, C!Saving, C!None
<1> QED
  BY <1>2, <1>3 DEF CheckpointInv

\* fopen gives an empty file that no checkpoint is named after.
LEMMA OpenKeeps ==
    ASSUME CheckpointInv, NEW t \in Threads, C!OpenTmp(t) PROVE CheckpointInv'
<1> USE DEF CheckpointInv, Files, C!None
<1>1. /\ data' \in Contents /\ Len(data') >= Len(data)
      /\ tmp' \in 1..Len(data') /\ (tmp = 0 => tmp' = Len(data) + 1) /\ (tmp # 0 => tmp' = tmp)
      /\ \A k \in 1..Len(data) : k # tmp => data'[k] = data[k]
  <2>1. CASE tmp = 0
    BY <2>1 DEF C!OpenTmp, C!Truncated, Contents, C!Empty
  <2>2. CASE tmp # 0
    <3>1. data' = [data EXCEPT ![tmp] = 0] /\ tmp' = tmp
      BY <2>2 DEF C!OpenTmp, C!Truncated, C!Empty
    <3> QED
      BY <2>2, <3>1 DEF Contents
  <2> QED
    BY <2>1, <2>2
<1>2. /\ pc' = [pc EXCEPT ![t] = "write"] /\ fd' = [fd EXCEPT ![t] = tmp']
      /\ arg' = [arg EXCEPT ![t] = saves'] /\ saves' = saves + 1
      /\ names' = names /\ seq' = seq /\ saved' = saved
  BY DEF C!OpenTmp, C!Goto
<1>3. Files'
  BY <1>1, <1>2
<1>4. ASSUME spoilt' = {} PROVE Order'
  <2>1. spoilt = {} /\ C!Saving = {}
    BY <1>4 DEF C!OpenTmp
  <2>2. NamedAreWhole'
    BY <1>1, <1>2, <2>1 DEF Order, NamedAreWhole
  <2>3. \A u \in C!Saving' : u = t
    BY <1>2, <2>1 DEF C!Saving
  <2>4. OneWriter'
    BY <1>1, <1>2, <2>3 DEF OneWriter
  <2> QED
    BY <1>2, <2>1, <2>2, <2>4 DEF Order
<1> QED
  BY <1>3, <1>4

LEMMA WriteKeeps ==
    ASSUME CheckpointInv, NEW t \in Threads, C!WriteTmp(t) PROVE CheckpointInv'
<1> USE DEF CheckpointInv, Files, C!None
<1>1. /\ pc' = [pc EXCEPT ![t] = "rename"] /\ fd' = [fd EXCEPT ![t] = fd[t]]
      /\ arg' = [arg EXCEPT ![t] = arg[t]] /\ pc[t] = "write"
      /\ names' = names /\ seq' = seq /\ saved' = saved /\ tmp' = tmp /\ saves' = saves
  BY DEF C!WriteTmp, C!Goto
<1>2. DOMAIN fd' = Threads /\ (\A u \in Threads : fd'[u] = fd[u]) /\ arg' = arg
  BY <1>1
<1>3. data' \in Contents /\ Len(data') = Len(data)
  <2>1. CASE data' = data
    BY <2>1
  <2>2. CASE data' = [data EXCEPT ![fd[t]] = arg[t]]
    <3>1. arg[t] \in Nat
      OBVIOUS
    <3>2. data \in [1..Len(data) -> Nat] /\ Len(data) \in Nat
      BY DEF Contents
    <3>3. data' \in [1..Len(data) -> Nat]
      BY <2>2, <3>1, <3>2
    <3> QED
      BY <3>2, <3>3 DEF Contents
  <2> QED
    BY <2>1, <2>2 DEF C!WriteTmp
<1>4. Files'
  BY <1>1, <1>2, <1>3
<1>5. ASSUME spoilt' = {} PROVE Order'
  <2>1. spoilt = {} /\ data' = [data EXCEPT ![fd[t]] = arg[t]]
    BY <1>5 DEF C!WriteTmp
  <2>2. t \in C!Saving /\ fd[t] = tmp /\ tmp # 0 /\ arg[t] # 0 /\ \A u \in C!Saving : u = t
    BY <1>1, <2>1 DEF Order, OneWriter, C!Saving
  <2>3. \A k \in 1..Len(data) : k # tmp => data'[k] = data[k]
    BY <2>1, <2>2 DEF Contents
  <2>4. data'[tmp] = arg[t]
    BY <2>1, <2>2 DEF Contents
  <2>5. NamedAreWhole'
    BY <1>1, <1>3, <2>1, <2>3 DEF Order, NamedAreWhole
  <2>6. C!Saving' = {t}
    BY <1>1, <2>2 DEF C!Saving
  <2>7. OneWriter'
    BY <1>1, <1>2, <2>2, <2>4, <2>6 DEF OneWriter
  <2> QED
    BY <1>1, <2>1, <2>5, <2>7 DEF Order
<1> QED
  BY <1>4, <1>5

\* The complete file gets the name; the temporary name is free again.
LEMMA RenameKeeps ==
    ASSUME CheckpointInv, NEW t \in Threads, C!RenameTmp(t) PROVE CheckpointInv'
<1> USE DEF CheckpointInv, Files, C!None
<1>1. /\ pc' = [pc EXCEPT ![t] = "idle"] /\ fd' = [fd EXCEPT ![t] = 0]
      /\ arg' = [arg EXCEPT ![t] = 0] /\ pc[t] = "rename"
      /\ seq' = seq + 1 /\ tmp' = 0 /\ saves' = saves /\ data' = data /\ spoilt' = spoilt
  BY DEF C!RenameTmp, C!Return, C!Goto
<1>2. \/ tmp # 0 /\ names' = C!Named(seq) /\ saved' = arg[t]
      \/ names' = names /\ saved' = saved
  BY DEF C!RenameTmp
<1>3. DOMAIN names' \subseteq Nat /\ saved' \in Nat
  BY <1>2 DEF C!Named
<1>4. Files'
  BY <1>1, <1>3
<1>5. ASSUME spoilt' = {} PROVE Order'
  <2>1. Order
    BY <1>1, <1>5
  <2>2. t \in C!Saving /\ tmp # 0 /\ data[tmp] = arg[t] /\ arg[t] # 0 /\ \A u \in C!Saving : u = t
    BY <1>1, <2>1 DEF Order, OneWriter, C!Saving
  <2>3. NamedAreWhole'
    <3>1. CASE names' = C!Named(seq)
      BY <1>1, <2>1, <2>2, <3>1 DEF Order, NamedAreWhole, C!Named, C!Empty
    <3>2. CASE names' = names
      BY <1>1, <2>1, <3>2 DEF Order, NamedAreWhole
    <3> QED
      BY <1>2, <3>1, <3>2
  <2>4. C!Saving' = {}
    BY <1>1, <2>2 DEF C!Saving
  <2>5. OneWriter'
    BY <2>4 DEF OneWriter
  <2>6. saved' # 0 => DOMAIN names' # {}
    BY <1>2, <2>1 DEF Order, C!Named
  <2> QED
    BY <2>3, <2>5, <2>6 DEF Order
<1> QED
  BY <1>4, <1>5

\* Loads and deletions leave the files being written alone.
LEMMA OthersKeep ==
    ASSUME CheckpointInv, NEW t \in Threads, C!FindBest(t) \/ C!ReadBest(t) \/ C!checkpoint_delete(t)
    PROVE  CheckpointInv'
<1> USE DEF CheckpointInv, Files, C!None
<1>1. tmp' = tmp /\ data' = data /\ seq' = seq /\ saves' = saves /\ spoilt' = spoilt
  BY DEF C!FindBest, C!ReadBest, C!checkpoint_delete
<1>2. CASE C!FindBest(t) \/ C!ReadBest(t)
  <2>1. /\ pc[t] \in {"idle", "read"} /\ names' = names /\ saved' = saved
        /\ \E place \in {"idle", "read"} : pc' = [pc EXCEPT ![t] = place]
        /\ \E file : fd' = [fd EXCEPT ![t] = file]
        /\ \E snapshot : arg' = [arg EXCEPT ![t] = snapshot]
    BY <1>2 DEF C!FindBest, C!ReadBest, C!Return, C!Goto
  <2>2. C!Saving' = C!Saving /\ \A u \in C!Saving : fd'[u] = fd[u] /\ arg'[u] = arg[u] /\ pc'[u] = pc[u]
    BY <2>1 DEF C!Saving
  <2>3. /\ DOMAIN fd' = Threads /\ arg' \in [Threads -> Nat]
        /\ pc' \in [Threads -> {"idle", "write", "rename", "read"}]
    BY <1>2, <2>1 DEF C!FindBest, C!ReadBest, C!Return, C!Goto
  <2>4. Files'
    BY <1>1, <2>1, <2>3
  <2>5. Order => Order'
    BY <1>1, <2>1, <2>2 DEF Order, NamedAreWhole, OneWriter
  <2> QED
    BY <1>1, <2>4, <2>5
<1>3. CASE C!checkpoint_delete(t)
  <2>1. names' = [s \in {} |-> C!None] /\ saved' = 0 /\ UNCHANGED <<pc, fd, arg>>
    BY <1>3 DEF C!checkpoint_delete
  <2>2. DOMAIN names' = {}
    BY <2>1
  <2>3. Files'
    BY <1>1, <2>1, <2>2
  <2>4. Order => Order'
    BY <1>1, <2>1, <2>2 DEF Order, NamedAreWhole, OneWriter, C!Saving
  <2> QED
    BY <1>1, <2>3, <2>4
<1> QED
  BY <1>2, <1>3

LEMMA RestartKeeps ==
    ASSUME CheckpointInv, C!Restart PROVE CheckpointInv'
<1> USE DEF CheckpointInv, Files, C!None
<1>1. /\ tmp' = tmp /\ data' = data /\ saves' = saves /\ spoilt' = spoilt /\ names' = names
      /\ saved' = saved /\ seq' = 1
      /\ pc' = [u \in Threads |-> "idle"] /\ fd' = [u \in Threads |-> 0] /\ arg' = [u \in Threads |-> 0]
  BY DEF C!Restart
<1>2. Files'
  BY <1>1
<1>3. Order => Order'
  BY <1>1 DEF Order, NamedAreWhole, OneWriter, C!Saving
<1> QED
  BY <1>1, <1>2, <1>3

LEMMA CheckpointNext == CheckpointInv /\ [C!Next]_(C!vars) => CheckpointInv'
<1> SUFFICES ASSUME CheckpointInv, [C!Next]_(C!vars) PROVE CheckpointInv'
  OBVIOUS
<1>1. CASE UNCHANGED C!vars
  BY <1>1 DEF C!vars, CheckpointInv, Files, Order, NamedAreWhole, OneWriter, C!Saving
<1>2. CASE C!Next
  BY <1>2, OpenKeeps, WriteKeeps, RenameKeeps, OthersKeep, RestartKeeps DEF C!Next
<1> QED
  BY <1>1, <1>2

\* However many threads save, load and delete, and wherever the process is killed:
\* a checkpoint whose save returned 0 stays (checkpoint_save, session_checkpoint.c).
LEMMA CheckpointSafe == C!Spec => []C!KillSafe
<1>1. CheckpointInv => C!KillSafe
  BY DEF CheckpointInv, Order, NamedAreWhole, C!KillSafe
<1> QED
  BY <1>1, CheckpointInit, CheckpointNext, PTL DEF C!Spec

-----------------------------------------------------------------------------
\* What a load finds while the process lives.

Top(s) == s \in DOMAIN names /\ \A r \in DOMAIN names : r <= s

\* Numbers are given out in order, and the highest one left is of the last save.
Latest ==
    /\ \A s \in DOMAIN names : s < seq
    /\ DOMAIN names # {} => \E s \in DOMAIN names : Top(s)
    /\ \A s \in DOMAIN names : Top(s) => data[names[s]] = saved

\* A number that a load found is not given out again, so its file is what it was
\* or gone.
Reads ==
    \A t \in Threads : pc[t] = "read" =>
        /\ fd[t] \in Nat /\ fd[t] < seq
        /\ fd[t] \in DOMAIN names => data[names[fd[t]]] >= arg[t]

Recent == Latest /\ Reads /\ result.got >= result.want

RecentInv ==
    /\ CheckpointInv
    /\ restarts \in Nat
    /\ restarts = 0 /\ spoilt = {} => Recent

LEMMA RecentInit == C!Init => RecentInv
<1> SUFFICES ASSUME C!Init PROVE RecentInv
  OBVIOUS
<1>1. Recent
  BY DEF C!Init, Recent, Latest, Reads, Top, C!None
<1> QED
  BY <1>1, CheckpointInit DEF RecentInv, C!Init, C!None

\* Named files stay and the numbers too.
LEMMA SameNames ==
    ASSUME Recent, UNCHANGED <<names, seq, saved>>,
           \A s \in DOMAIN names : data'[names[s]] = data[names[s]],
           \A u \in Threads : pc'[u] = "read" => pc[u] = "read" /\ fd'[u] = fd[u] /\ arg'[u] = arg[u]
    PROVE  Latest' /\ Reads'
<1>1. Latest'
  BY DEF Recent, Latest, Top
<1>2. Reads'
  BY DEF Recent, Reads
<1> QED
  BY <1>1, <1>2

LEMMA OpenIsRecent ==
    ASSUME CheckpointInv, Recent, spoilt' = {}, NEW t \in Threads, C!OpenTmp(t) PROVE Recent'
<1> USE DEF CheckpointInv, Files, C!None
<1>1. /\ pc' = [pc EXCEPT ![t] = "write"] /\ fd' = [fd EXCEPT ![t] = tmp']
      /\ arg' = [arg EXCEPT ![t] = saves'] /\ UNCHANGED <<names, seq, saved, result>>
      /\ spoilt = {} /\ data' = C!Truncated
  BY DEF C!OpenTmp, C!Goto
<1>2. \A s \in DOMAIN names : names[s] \in 1..Len(data) /\ names[s] # tmp
  BY <1>1 DEF Order, NamedAreWhole
<1>3. \A s \in DOMAIN names : data'[names[s]] = data[names[s]]
  BY <1>1, <1>2 DEF C!Truncated, Contents
<1>4. \A u \in Threads : pc'[u] = "read" => pc[u] = "read" /\ fd'[u] = fd[u] /\ arg'[u] = arg[u]
  BY <1>1
<1>5. Latest' /\ Reads'
  BY <1>1, <1>3, <1>4, SameNames
<1> QED
  BY <1>1, <1>5 DEF Recent

LEMMA WriteIsRecent ==
    ASSUME CheckpointInv, Recent, spoilt' = {}, NEW t \in Threads, C!WriteTmp(t) PROVE Recent'
<1> USE DEF CheckpointInv, Files, C!None
<1>1. /\ pc' = [pc EXCEPT ![t] = "rename"] /\ fd' = [fd EXCEPT ![t] = fd[t]]
      /\ arg' = [arg EXCEPT ![t] = arg[t]] /\ UNCHANGED <<names, seq, saved, result>>
      /\ spoilt = {} /\ data' = [data EXCEPT ![fd[t]] = arg[t]] /\ pc[t] = "write"
  BY DEF C!WriteTmp, C!Goto
<1>2. fd[t] = tmp
  BY <1>1 DEF Order, OneWriter, C!Saving
<1>3. \A s \in DOMAIN names : names[s] # tmp
  BY <1>1 DEF Order, NamedAreWhole
<1>4. \A s \in DOMAIN names : data'[names[s]] = data[names[s]]
  BY <1>1, <1>2, <1>3 DEF Contents
<1>5. \A u \in Threads : pc'[u] = "read" => pc[u] = "read" /\ fd'[u] = fd[u] /\ arg'[u] = arg[u]
  BY <1>1
<1>6. Latest' /\ Reads'
  BY <1>1, <1>4, <1>5, SameNames
<1> QED
  BY <1>1, <1>6 DEF Recent

\* The new number is above all that were found.
LEMMA RenameIsRecent ==
    ASSUME CheckpointInv, Recent, spoilt' = {}, NEW t \in Threads, C!RenameTmp(t) PROVE Recent'
<1> USE DEF CheckpointInv, Files, C!None
<1>1. /\ pc' = [pc EXCEPT ![t] = "idle"] /\ fd' = [fd EXCEPT ![t] = 0]
      /\ arg' = [arg EXCEPT ![t] = 0] /\ UNCHANGED <<data, result, spoilt>>
      /\ pc[t] = "rename" /\ seq' = seq + 1 /\ seq \in Nat
  BY DEF C!RenameTmp, C!Return, C!Goto
<1>2. \A u \in Threads : pc'[u] = "read" => pc[u] = "read" /\ fd'[u] = fd[u] /\ arg'[u] = arg[u]
  BY <1>1
<1>3. CASE names' = names /\ saved' = saved
  <2>1. Latest'
    BY <1>1, <1>3 DEF Recent, Latest, Top
  <2>2. Reads'
    BY <1>1, <1>2, <1>3 DEF Recent, Reads
  <2> QED
    BY <1>1, <2>1, <2>2 DEF Recent
<1>4. CASE names' = C!Named(seq) /\ saved' = arg[t]
  <2>1. data[tmp] = arg[t]
    BY <1>1 DEF Order, OneWriter, C!Saving
  <2>2. /\ DOMAIN names' = DOMAIN names \cup {seq} /\ names'[seq] = tmp
        /\ \A s \in DOMAIN names : s < seq /\ s \in Nat /\ names'[s] = names[s]
    BY <1>4 DEF C!Named, Recent, Latest
  <2>3. \A s \in DOMAIN names' : Top(s)' <=> s = seq
    BY <1>1, <2>2 DEF Top
  <2>4. Latest'
    BY <1>1, <1>4, <2>1, <2>2, <2>3 DEF Latest
  <2>5. Reads'
    BY <1>1, <1>2, <2>2 DEF Recent, Reads
  <2> QED
    BY <1>1, <2>4, <2>5 DEF Recent
<1> QED
  BY <1>3, <1>4 DEF C!RenameTmp

LEMMA LoadIsOfTop ==
    ASSUME CheckpointInv, Recent, NEW t \in Threads, C!FindBest(t) PROVE Recent'
<1> USE DEF CheckpointInv, Files, C!None
<1> DEFINE s == C!Highest(DOMAIN names)
<1>1. /\ pc' = [pc EXCEPT ![t] = "read"] /\ fd' = [fd EXCEPT ![t] = s]
      /\ arg' = [arg EXCEPT ![t] = saved] /\ UNCHANGED <<names, data, seq, saved, result>>
      /\ DOMAIN names # {}
  BY DEF C!FindBest, C!Goto
<1>2. Top(s)
  BY <1>1 DEF Recent, Latest, Top, C!Highest
<1> HIDE DEF s
<1>3. s \in Nat /\ s < seq /\ data[names[s]] = saved
  BY <1>2 DEF Recent, Latest, Top
<1>4. Latest'
  BY <1>1 DEF Recent, Latest, Top
<1>5. ASSUME NEW u \in Threads, pc'[u] = "read"
      PROVE  /\ fd'[u] \in Nat /\ fd'[u] < seq
             /\ fd'[u] \in DOMAIN names => data[names[fd'[u]]] >= arg'[u]
  <2>1. CASE u = t
    BY <1>1, <1>3, <2>1
  <2>2. CASE u # t
    BY <1>1, <1>5, <2>2 DEF Recent, Reads
  <2> QED
    BY <2>1, <2>2
<1>6. Reads'
  BY <1>1, <1>5 DEF Reads
<1> QED
  BY <1>1, <1>4, <1>6 DEF Recent

LEMMA ReadIsRecent ==
    ASSUME CheckpointInv, Recent, NEW t \in Threads, C!ReadBest(t) PROVE Recent'
<1> USE DEF CheckpointInv, Files, C!None
<1>1. /\ pc' = [pc EXCEPT ![t] = "idle"] /\ fd' = [fd EXCEPT ![t] = 0]
      /\ arg' = [arg EXCEPT ![t] = 0] /\ UNCHANGED <<names, data, seq, saved>>
      /\ pc[t] = "read"
      /\ result' = IF fd[t] \in DOMAIN names
                   THEN [got |-> data[names[fd[t]]], want |-> arg[t]] ELSE result
  BY DEF C!ReadBest, C!Return, C!Goto
<1>2. \A u \in Threads : pc'[u] = "read" => pc[u] = "read" /\ fd'[u] = fd[u] /\ arg'[u] = arg[u]
  BY <1>1
<1>3. Latest' /\ Reads'
  BY <1>1, <1>2, SameNames
<1>4. fd[t] \in DOMAIN names => data[names[fd[t]]] >= arg[t]
  BY <1>1 DEF Recent, Reads
<1>5. result'.got >= result'.want
  BY <1>1, <1>4 DEF Recent
<1> QED
  BY <1>3, <1>5 DEF Recent

LEMMA DeleteIsRecent ==
    ASSUME CheckpointInv, Recent, NEW t \in Threads, C!checkpoint_delete(t) PROVE Recent'
<1>1. UNCHANGED <<data, seq, pc, fd, arg, result>> /\ DOMAIN names' = {}
  BY DEF C!checkpoint_delete
<1>2. Latest'
  BY <1>1 DEF Latest, Top
<1>3. Reads'
  BY <1>1 DEF Recent, Reads
<1> QED
  BY <1>1, <1>2, <1>3 DEF Recent

LEMMA RecentNext == RecentInv /\ [C!Next]_(C!vars) => RecentInv'
<1> SUFFICES ASSUME RecentInv, [C!Next]_(C!vars) PROVE RecentInv'
  OBVIOUS
<1>1. CheckpointInv /\ CheckpointInv' /\ restarts \in Nat
  BY CheckpointNext DEF RecentInv
<1>2. CASE UNCHANGED C!vars
  BY <1>1, <1>2 DEF C!vars, RecentInv, Recent, Latest, Reads, Top
<1>3. CASE C!Restart
  BY <1>1, <1>3 DEF C!Restart, RecentInv
<1>4. ASSUME NEW t \in Threads,
             \/ C!OpenTmp(t) \/ C!WriteTmp(t) \/ C!RenameTmp(t)
             \/ C!FindBest(t) \/ C!ReadBest(t) \/ C!checkpoint_delete(t)
      PROVE  RecentInv'
  <2>1. restarts' = restarts /\ (spoilt' = {} => spoilt = {})
    BY <1>4 DEF C!OpenTmp, C!WriteTmp, C!RenameTmp, C!FindBest, C!ReadBest, C!checkpoint_delete
  <2>2. ASSUME restarts' = 0, spoilt' = {} PROVE Recent'
    <3>1. Recent
      BY <2>1, <2>2 DEF RecentInv
    <3> QED
      BY <1>1, <1>4, <2>2, <3>1, OpenIsRecent, WriteIsRecent, RenameIsRecent, LoadIsOfTop,
         ReadIsRecent, DeleteIsRecent
  <2> QED
    BY <1>1, <2>1, <2>2 DEF RecentInv
<1> QED
  BY <1>2, <1>3, <1>4 DEF C!Next

\* As long as the process lives, what a load returns is at least as recent as the
\* last snapshot saved when it began, whatever is saved and deleted while it lists
\* the directory and opens the file (checkpoint_load, session_checkpoint.c).
LEMMA CheckpointRecent == C!Spec => []C!LoadIsRecent
<1>1. RecentInv => C!LoadIsRecent
  BY DEF RecentInv, Recent, C!LoadIsRecent
<1> QED
  BY <1>1, RecentInit, RecentNext, PTL DEF C!Spec

-----------------------------------------------------------------------------
(* The parts side by side.                                                 *)

\* The behaviours of a part that stays as it was created, or is the one that moves.
LEMMA HandshakeMoves == AllSpec => H!Spec
<1>1. AllInit => H!Init
  BY DEF AllInit
<1>2. [AllNext]_allVars => [H!Next]_(H!vars)
  BY DEF AllNext, allVars, handshakeVars, H!vars
<1> QED
  BY <1>1, <1>2, PTL DEF AllSpec, H!Spec

LEMMA CheckpointMoves == AllSpec => C!Spec
<1>1. AllInit => C!Init
  BY DEF AllInit
<1>2. [AllNext]_allVars => [C!Next]_(C!vars)
  BY DEF AllNext, allVars, checkpointVars, C!vars
<1> QED
  BY <1>1, <1>2, PTL DEF AllSpec, C!Spec

\* LockStep: the two machines never drift apart. Whoever is ahead is ahead by messages
\* it sent itself, whatever is lost, repeated or refused (hs_fsm_process,
\* hs_state.c:32-139).
THEOREM StaysInStep == AllSpec => []LockStep
<1>1. H!Spec => []LockStep
  BY HandshakeInStep DEF LockStep
<1> QED
  BY <1>1, HandshakeMoves, PTL

\* A client that may start to render has a server that committed to the
\* configuration it sent (hs_state.c:68-73 against 109-114): it follows from the
\* above, since the last message of the script is the server's.
THEOREM ClientReadyAfterServer == AllSpec => []H!ClientReadyOnlyAfterServer
BY HandshakeReady, HandshakeMoves, PTL

\* KillSafe: however many threads save, load and delete, and wherever the process is
\* killed, a checkpoint whose save returned 0 stays (checkpoint_save,
\* session_checkpoint.c).
THEOREM KillsAreSafe == AllSpec => []KillSafe
<1>1. C!Spec => []KillSafe
  BY CheckpointSafe DEF KillSafe
<1> QED
  BY <1>1, CheckpointMoves, PTL

\* LoadIsRecent: as long as the process lives, what a load returns is at least as
\* recent as the last snapshot saved when it began, whatever is saved and deleted
\* while it lists the directory and opens the file (checkpoint_load,
\* session_checkpoint.c).
THEOREM LoadsAreRecent == AllSpec => []LoadIsRecent
<1>1. C!Spec => []LoadIsRecent
  BY CheckpointRecent DEF LoadIsRecent
<1> QED
  BY <1>1, CheckpointMoves, PTL
=============================================================================
