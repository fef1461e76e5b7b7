# RootStream in TLA+

RootStream captures a desktop on one machine, the *host*, and streams it to another, the *client*, over UDP
with a TCP fallback. This directory holds TLA+ modules translated from its sources, TLC configurations that
check them on small instances, and proofs that TLAPS checks for every instance. Paths are relative to the
repository's `src/`, or to the repository where they begin with `clients/`, `include/` or `docs/`.

The modules follow the code and not its documents. Where the two disagree, the module does what the code
does, and section 6 says so.

## 1. The system

| Part | State it keeps | Operations | What is hard, and what makes it correct |
|---|---|---|---|
| Connection to a peer, `network.c` | a `peer_t`: state, session, streaming flag, time stamps, transport | handshake, receive, tick, encrypted send, connect, control commands | Both ends run the same code and neither knows what the other has received. A peer is connected only with a session; a live peer is not dropped and a dead one is; a stream has a timeout that watches it |
| Reconnection, `network_reconnect.c` | attempts, back-off, time of the next attempt | try, reset, cleanup | Called from the receive loop, from a failed send and from the tick. The back-off stays in its bounds, a link comes back after losses and crashes |
| TCP fallback, `network_tcp.c` | one descriptor per peer | connect, send, receive, health | Any call may find the connection dead and set the peer back; a connect waits five seconds in the middle of a loop |
| Table of peers, `network.c`, `client_session.c`, KDE client | an array of 16 entries, and what each entry has allocated | add, find, hear of, remove; five loops over the array | Removing an entry frees what it owns and shifts those behind it, in the middle of loops. Each allocation has one owner, each due peer gets its turn, the frame to decode is not freed |
| Service loops, `service.c`, `client_session.c`, `main.c` | the run flags | one turn: receive, tick, health check, stream | Two timeouts of different length act on one peer in one turn |
| Host, `main.c`, `service.c`, `core.c`, the capture, encoder, audio and input back-ends, `recording.c` | what the process holds; the back-ends in use; the forced-key flag; the recording | start through chains of fall-backs, capture, encode, record, serve, stop, clean up | Every step of every init function may fail, encodes fail before or after they take the flag, two slots of the context are shared by devices and codecs. What was acquired is released, recordings and requests get their key picture |
| Video path, `network.c:103-162` and `605-713` | the host's frame counter; one reassembly buffer per peer | cut a frame, send a chunk, assemble, decode, time out | Bytes are counted, positions are not; the buffer is reused, grown and freed in between. No frame is mixed with another |
| Desktop sessions, `client_session.c` and `clients/kde-plasma-client/src/{rootstreamclient,stream_backend_connector}.cpp` | the window's flag, the session, the thread, queued signals | connect, disconnect, the worker's life, signal handlers | GUI thread, worker threads and a queue between them. A session is freed once, after its thread |
| Session handshake, `session_hs/` | a state per side | process a message, fail, close | The two machines stay in step over a channel that loses and repeats |
| Reorder buffer, `reorder/` | slots, next sequence number, count | insert, flush | Wrapping numbers, slots shared modulo the capacity, a pass that changes what it walks over |
| Retry table, `retry_mgr/` | slots, count | add, remove, tick | The tick calls the owner, who changes the table under it |
| Scheduler, `scheduler/` | a table under a mutex | add, remove, clear, tick | The tick gives up the mutex during callbacks |
| Replay buffer, `recording/replay_buffer.cpp` | two queues, common counters, two mutexes | add video, add audio, save, clear | Each add holds one mutex and trims both queues; ages are unsigned differences |
| Checkpoints, `session/session_checkpoint.c` | files, and the next sequence number | save, load, delete | A kill between any two file operations; two threads and one temporary name; numbers that start again |

The parts interact in few places. The service loops call `rootstream_net_recv`, `rootstream_net_tick` and the
send functions in turn and in one thread per process, so a step of one process is a whole handler; the
network, the clock and the user act between any two of them. The desktop client puts that loop on a thread of
its own and talks to it through a stop flag and through Qt signals. Each turn of the loop walks the table of
peers, and whatever it calls may remove an entry, wait, or free a buffer. The host wraps the loop in its
back-ends, with which it shares one context structure. The last six parts are libraries with one owner.

Everything else in the repository is listed under `components` in `PROJECT.json`, with the reason why it is
not modelled; section 7 sums those up.

## 2. Modules

| Module | What it models | Checked by | Proofs |
|---|---|---|---|
| `PeerLink` | connection, reconnection, TCP fallback, service loops: one host, one client | `MCPeerLink` | `PeerLink_proofs` |
| `PeerTable` | several peers in the array of one process, and the loops over it | `MCPeerTable` | `PeerTable_proofs` |
| `HostService` | one run of the host, from its command line to its clean-up | `MCHostService` | `HostService_proofs` |
| `FrameDelivery` | abstract: what the video path promises | through `VideoReassembly` | |
| `VideoReassembly` | the chunk protocol; implements `FrameDelivery` | `MCVideoReassembly` | `VideoReassembly_proofs` |
| `DesktopSession` | GUI thread, worker threads, signals | `MCDesktopSession` | `DesktopSession_proofs` |
| `SessionHandshake` | two `hs_fsm_t` and a channel | `MCParts` | `Sessions_proofs` |
| `ReorderBuffer` | the buffer, its sender, a network, a clock | `MCParts` | `Buffers_proofs` |
| `RetryTable` | the table, its owner, a clock | `MCParts` | `Buffers_proofs` |
| `Scheduler` | the table, threads that edit it, threads that tick | `MCParts` | `Scheduler_proofs` |
| `ReplayBuffer` | the queues, a video and an audio thread | `MCParts` | `Buffers_proofs` |
| `SessionCheckpoint` | the files of one session, threads that save and load, kills | `MCParts`, `MCSessionCheckpoint` | `Sessions_proofs` |
| `Parts` | the last six side by side | `MCParts` | `Buffers_proofs`, `Sessions_proofs` |

`Parts` holds one instance of each of the six libraries. They share no state, so a behaviour is about the one
that its variable `which` names and the others stay as they were created: the state space is the sum of the six
and not their product. `MCParts` gives it values.

**Variants.** Some modules hold operators commented as *variants*, each right before the definition it
changes: the form a plausible mistake would give that definition. They are used by no specification.
`PROJECT.json` lists, for every property of every passing run, a variant with which TLC finds the property
violated, so that each property is known to say something of the code.

**PeerLink.** Each process owns one table entry for the other. The functions of `network.c` are operators
that take the entry and return the entry they leave behind, the packets they send and whether they succeeded
(`Result`), so the calls nest as they do in C: `rootstream_net_recv` runs the reconnection pass, processes one
packet and then reads TCP. One action is one call of the loop (`Recv`, `Tick`, `Health`, `Stream`), of the user
(`Connect`, `Command`), or of the environment (`ClockTick`, `Lose`, `NetChange`, `Crash`, `Restart`). The network
is a set of packets per direction: reordering is built in, repetition, loss and a bound on delay are constants.
Time is kept as ages that stop counting where the code stops telling them apart. `rootstream_net_tick` reads the
clock once and the handshake it resends reads it again; the unsigned difference wraps if a millisecond passes in
between, which is the choice `late`. A packet's content is its kind; encryption is whether the entry has a
session, since `crypto_encrypt_packet` refuses others, and refuses an empty payload.

**PeerTable.** The other half of `network.c`: which entry a packet or a loop is about, and what becomes of the
memory behind it. The functions are operators from tables to tables, or to sets of tables where the wire or the
clock decides; what `PeerLink` computes is a choice here. The loops (`Revive`, `TcpPass`, `Tick`, `Clear`) take
one entry per action at the index `i`, as the C loops do, over the table as the entry before left it. Allocations
are numbers; `frame` is the pointer that the receive loop leaves for the decode step. `late` records that TCP was
waited for or read since the last UDP packet, and `due`, `tried` which entries the reconnection pass found and took.

**HostService.** Each back-end is data: the resources that its init function acquires in their order, and for each
step that may fail how many of them the error branch releases. `BackendStarts`, `BackendFails` and `BackendAbsent`
then serve all three fallback chains. `slot` keeps what the two descriptors of the virtual input devices hold: the
Opus encoder stores its pointer in one (`opus_codec.c:86`), the ALSA and Pulse captures in the other
(`audio_capture.c:155`). `RoutedTo` is the dispatch on the encoder's type, which takes every encoder but NVENC for
VA-API. `num` is the encoders' own position in the key picture period, `lost` records a failed encode that took a
forced or scheduled key picture with it, `foreign` a use of a context or descriptor of somebody else.

**VideoReassembly.** The host cuts frames into chunks, the network holds a set of them, the client's `Receive` is
the `PKT_VIDEO` case followed by the loop's hand-over to the decoder. The buffer is kept by chunk position: which
frame's bytes are there, or garbage. `Timeout` is the branch of `rootstream_net_tick` that frees the buffer and
not the counters. `damaged`, `interrupted` and `repeated` are history: the frames that lost a chunk, that were
being assembled at a timeout, of which a chunk came twice.

**DesktopSession.** The GUI thread acts in whole event handlers, except that `disconnect()` blocks: `BeginStop`,
then `EndStop` when the thread is gone or `Terminate` when the wait runs into its limit. A worker goes through
`Start`, `InitDecoder`, `Leave`, `Stopped`, `Quit` and `Finish`, each up to the next point where it emits a signal
or looks at state it shares with the GUI. Queued signals are handled in order, by handlers that do not know which
session they are about. `hasty` records whether a connection was begun before the one before it was over.

**SessionHandshake.** Two machines follow `hs_fsm_process`; `Send` is the layer that feeds a machine the message
it originates and puts it on the channel, as the unit test does, since no other caller exists.

**ReorderBuffer.** A packet is its number, the code sees it modulo `SeqNumbers`. Slots keep how long a packet has
been held. A flush is one action; its pass over the array is a recursive function of the slot it has come to (`Pass`).

**RetryTable.** `rm_table_tick` is one action, a recursive function of the slot it has come to; in each the owner
replies "wait", "remove", or "replace" (removes the request and registers another at once, which lands in the slot that
the tick is about to go on with). `meddled` records that a callback changed the table.

**Scheduler.** An action is what a thread does in one hold of the mutex. A tick that fires gives the mutex back,
so `scheduler_tick` and `CallbackReturns` are two actions with edits of the table in between. `usurpers` records
the entries put into a slot whose callback was running.

**ReplayBuffer.** A frame is its timestamp and counts as one unit of memory. An add is three actions, the append,
`cleanup_old_frames` and `enforce_memory_limit`, since only one of the two mutexes is held; when two adds overlap
the queues are raced on, and a behaviour ends there (`raced`). A save holds both mutexes and changes nothing, so
it is an operator, the places in the queue whose frames it writes, that the property evaluates in every state.

**SessionCheckpoint.** Files are inodes under names: a name that is renamed or written through an open descriptor
keeps its inode, which is what makes rename safe and the shared temporary name unsafe. A save is three actions, a
load two, and `Restart` may come between any of them. `spoilt` records a disk that was full and saves that
overlapped.


## 3. Runs

| Run | Question | Bounds that matter |
|---|---|---|
| `peer_link` | Is every state of the connection sound over a network that reorders and repeats, with a user who dials again and sends every command? | one client, all commands, timeouts of 1 and 2 ticks; every age beyond the last threshold is one value, so longer runs add nothing |
| `peer_link_outage` | The same while `sendto` fails at times and a TCP listener may answer or die | back-off 2 to 3, so that doubling meets the cap in the middle; two attempts, so that `FAILED` is reached |
| `peer_link_recovery` | Does the link come back after two losses and a crash, is a dead client dropped, and does nothing time out on an intact network? | a packet arrives within two ticks; a timeout of 5 ticks, so that it cannot be met by delay alone |
| `pause_undone` | Does a pause hold? (no) | no loss, one command |
| `peers` | Do the loops treat each peer once and free each allocation once, while they remove entries of the table they walk over? | two addresses, three entries, three allocations: one key may have two entries, one of them heard of by packet only, and the clean-up of three leaves one |
| `host` | Does a host on any machine release what it acquires, keep requests and key pictures, and stop? | any failure at any step of any chain; one record, one request, a key picture every second picture |
| `video_unordered` | Is what is decoded whole and decoded once on any network? | three frames of one, two and three chunks, a loss, a repetition, a timeout |
| `video_ordered` | Does the path implement `FrameDelivery`, and is an intact frame shown? | two losses and a failed send over three frames |
| `desktop_session` | Is a session freed once and by its owner, is the window right, does everything end? | four sessions, one failed allocation, one killed thread |
| `desktop_dangling` | Is `run()` safe from `destroy` for every user? (no) | three sessions |
| `parts` | Six questions, one per library | scheduler: two slots, two entries added, two days. Reorder buffer: two slots, four numbers, five packets, so that both wrap; a loss, a repetition. Retry table: two slots, three requests, delays below, at and above the cap. Handshake: one loss, any repetition, two messages in flight each way. Replay buffer: times beyond the duration, one more frame than there is memory for. Checkpoints: two threads, three saves, one kill |
| `checkpoint_stale` | Does a load return what was saved last? (no, after a restart) | one thread, three saves, one kill |

What the properties say:

- **PeerLink.** `ConnectedHasSession`: nothing is encrypted for a peer without a session although reconnection
  connects without a handshake. `StreamsAreWatched`: the host streams only to a peer its timeout applies to, which
  skips peers never heard of. `UnaddedPeersAreHeard`: an entry that can never reconnect was made by the peer's own
  packet. `BackoffBounded`: wait, back-off and attempts agree, whichever of three callers tried last.
  `LosslessLinkHolds`: as long as nothing is lost no timer fires for a live peer; the keepalive never leaves the
  process (section 6), so it holds only because handshakes are answered by handshakes. `DeadClientIsDropped`,
  `LinkRecovers`: a client that is gone is dropped; one that added the host and had its first handshake answered
  finds it again.
- **PeerTable.** `OwnedOnce`: no two fields of the table share an allocation, none is dangling, every live one can be
  reached. `EveryPeerIsTried`: the reconnection pass takes each due peer once, although it removes some on its way; it
  counts down, and that is why. `DecodedFrameIsAlive`: nobody freed or replaced the buffer between its completion and
  the decoder, unless TCP was waited for. `ClearLeavesEveryOther`: what the clean-up loop of the KDE client leaves
  behind, which counts up.
- **HostService.** `FailedBackendsHoldNothing`: whatever failed in a chain, nothing of it is left but VA-API's display.
  `CleanupReleases`: wherever the run is left, the clean-up releases everything but the named leaks.
  `RecordingStartsWithKey`, `RequestIsKept`: a recording begins with a key picture and a requested one is made, unless
  a failed encode took it. `ForeignOnlyByFallback`: with audio off, both devices and a hardware encoder, the host
  touches nothing that is not its own. `SignalStops`: a signal ends it.
- **VideoReassembly.** `FramesAreWhole`, `ShownOnce`: no frame given to the decoder has a hole or another frame's
  bytes, and none is decoded twice, but for frames interrupted by a timeout or hit by a repeated chunk, and the
  damage stays with those. `BufferCovers`: what was written is within the buffer. `Delivers`: refinement of
  `FrameDelivery`. `EveryFrameIsShown`: a frame is lost only by its own chunks.
- **DesktopSession.** `NoDanglingUse`, `NoSessionLeaks`, `WindowIsRight`, `DisconnectReturns`, `StoppedThreadsEnd`.
  The first, third and last exempt a hasty user, the third also a session that could not be created.
- **SessionHandshake.** `LockStep`: one side is ahead only by messages it sent itself.
- **ReorderBuffer.** `DeliveredOnce`, `HeldIsDelivered`, and `NoGaps`: until a packet is held too long, delivery is
  exactly the sequence sent.
- **RetryTable.** `BudgetIsSpent`: a request is given up when its tries are used up and not before, as long as no
  callback changed the table.
- **Scheduler.** `FiresOnce`, `NoneSkipped`, `DueFires`; the last two exempt `usurpers`. One thread ticks.
- **ReplayBuffer.** `MemoryIsCounted`: the counter is what the queues hold, after adds under either mutex.
  `SaveIsComplete`: a save of so many seconds writes exactly their frames, unless it reaches back beyond time 0, where
  the cutoff wraps. `YoungStay`: a frame young enough is dropped for want of memory only, unless a timestamp ran
  backwards.
- **SessionCheckpoint.** `KillSafe`: after a save that returned 0 every checkpoint a load may choose is whole, wherever
  the process is killed. `LoadIsRecent`: within a process, a load returns at least what was saved before it began.

Deadlock is checked except where the system may stop: the host after its run, the video path after its last frame,
the libraries when there is nothing left to do, the desktop client when nobody clicks.

**Bounds** are constants (`MaxLosses`, `MaxCrashes`, `MaxSessions`, ...) and appear in guards. `ReorderBuffer!Send`
also keeps the sender less than a round of sequence numbers ahead of what is held or in flight: with 65536 numbers
and a timeout of 80 ms it cannot come that far. `RetryTable!Answers` lets one tick register one request at most.
`PeerTable`'s `MaxAllocs` stops allocation, as `malloc` would by failing; with three at a time an entry can own a
record, a connection and a buffer, or two peers compete.

**Fairness.** In `PeerLink` every running process keeps looping and the clock moves on; nothing is assumed of
users, losses or restarts. For the host that assumes capture and encoding succeed again and again: an iteration in
which one fails skips the receive, the tick and the health check (`service.c:469-487`). In `HostService` the one
thread runs on (`WF_vars(Run)`); which step fails, and whether a signal comes, is open. In `VideoReassembly` the host's
send loop ends and the client's loop reads what arrives. In `DesktopSession` threads and the GUI's event loop are
scheduled; nobody has to click and no wait has to time out. In `ReorderBuffer` the owner flushes while something is
held, and time passes; its fairness is written with the action's guard instead of ENABLED. In `Scheduler` ticks are
called again and again, callbacks return, and the clock may stop. `Parts` takes over the last two; for a library that
the behaviour is not about they hold trivially, and so do its liveness properties.

## 4. Proofs

Each theorem holds for every value of the constants that satisfies the named assumptions of its module. Those say
that bounds are natural numbers and capacities positive; in `PeerLink` also that the tick's timeout is not longer
than the health check's and the first back-off not longer than the cap; in `PeerTable` that a peer's home address
has that peer's key; in `ReorderBuffer` that the slots divide the sequence numbers and are at most half of them (64 and
65536 in the code); in `ReplayBuffer` that timestamps and the memory limit stay below `Wrap`, 2^64 in the code. Three
theorems are about some of the environments only, and say so: `FiresOnce` and `NoneSkipped` for `OneTicker`, `Delivers`
for `Faithful`, `LosslessLinkHolds` for `Undisturbed`. The theorems are about `Spec`, without fairness, so they hold of
every fair behaviour too. For the libraries they are about `AllSpec` of `Parts`, which the run `parts` checks; a library
that a behaviour is not about stutters. None of the properties is inductive by itself; each module strengthens its own.

- **`PeerLink_proofs`**: `TypeOK`, `ConnectedHasSession`, `StreamsAreWatched`, `UnaddedPeersAreHeard`, `BackoffBounded`.
  A peer becomes connected in the reconnection code, which does not look at the session. The invariant says of each
  entry (`Sound`) that session and reconnect record are made together, that what is not heard of does not stream, and
  that wait, back-off and attempts agree (`Paced`). The source's functions are operators on the entry, so there is one
  lemma per function (`HandshakeSound`, `TryReconnectSound`, `SendSound`, `ReceiveHandshakeSound`, ...), and an action
  follows from the lemma of the function it calls. And `LosslessLinkHolds`, while packets arrive in time, `sendto`
  works, nobody dials twice or pauses, and the timeout is 3 ticks or more (`Undisturbed`; with 2 it is false). There is
  always a handshake on the way to or from a connected peer, young enough for the time since it was last heard of
  (`Fed`): nothing fresh is overtaken, since the clock waits for what is due. No timer has touched any entry (`Calm`).
- **`PeerTable_proofs`**: `TypeOK` and all four properties, for any number of peers. Most functions are `Mild`: they keep
  each entry's record and buffer and touch the state of one entry. A packet, an addition and a removal are not, and
  have lemmas of their own that a table stays `Good`, that is, owns each allocation once. Over them the invariant
  places the loops: the index of the clean-up and the length of the table add up to a constant (`Places`); what was
  tried and what is due below the index is what was due (`Turns`); a frame that waits for the decoder belongs to a
  peer heard of in this turn, which the tick does not drop (`FrameIsHeld`).
- **`VideoReassembly_proofs`**: `FramesAreWhole`, `ShownOnce`, `BufferCovers`, for any frames, chunk size and network. The
  code counts bytes; the invariant names the set of positions they are the bytes of (`Counted`), which the chunks
  still under way do not touch, and uses that the chunks of a frame add up to it only all together. `ChunksAgree`
  and `ClientAgrees` tie chunks and buffer to the frame they claim to be of, `ShownIsGone` says that nothing of a
  decoded frame is left. And the refinement `Delivers`, over a network that keeps the order and repeats nothing, to a
  peer that is not timed out (`Faithful`, as in the run `video_ordered`): the chunk that completes a frame is a `Show`
  of `FrameDelivery`, `Begin` is an `Offer`, every other step a stutter (`ReceiveShows`), because what is being assembled is
  never ahead of what is in flight (`InOrder`).
- **`DesktopSession_proofs`**: `NoDanglingUse`, `WindowIsRight`, `NoSessionLeaks`. For a user who is not hasty at most one
  thread lives, the connector's own (`Alone`), on the connector's session (`RunsOwn`), and the finished-signals of
  earlier threads are handled before the next begins (`EndedIsSignalled`, `ConnectsAlone`). `Flag` says which signal or
  thread will put the window right. `NoSessionLeaks` needs nothing of the user.
- **`HostService_proofs`**: `RequestIsKept` and `RecordingStartsWithKey`, the latter because until the first record is
  written the next picture is a key picture, or a failure was counted (`KeyIsNext`, `NothingYet`). And what a run holds:
  everything is main's, the Opus encoder's, of a back-end in use, or VA-API's display (`HeldIsUsed`), since a chain is
  gone down only before anything of its kind is in use (`UsingFits`) and every error branch releases what was acquired
  before it (`FailuresLeaveNothing`); `MainKnows` says by what the clean-up finds main's own things. From these
  `FailedBackendsHoldNothing`, `CleanupReleases` and the action property `ForeignOnlyByFallback`.
- **`Scheduler_proofs`**: `TypeOK` and `UniqueIds` for any number of threads, `FiresOnce` and `NoneSkipped` when one
  ticks (`OneTicker`). Numbers in the table are below `next_id` (`Numbered`), the calls for an id ascend (`Ascending`) and lie before the entry's own
  time, or at it while its callback runs (`Passed`). A second ticking thread breaks exactly that last part. An entry
  is as many days past its first time as it was called for (`Waiting`, `AtRest`), one less while its callback runs
  (`InCall`).
- **`Sessions_proofs`**: `LockStep` and `ClientReadyOnlyAfterServer`, for a channel of any length that loses and repeats
  any number of messages. Every message in flight is behind its sender (`InFlight`), so receiving it cannot take a side
  past the other. `KillSafe`, for any number of threads, saves and kills: files under their own names are complete
  (`NamedAreWhole`), since one save at a time writes under the temporary name (`OneWriter`); both fail for overlapping
  saves, which the property exempts. And `LoadIsRecent`: numbers ascend and the highest one left is of the last save
  (`Latest`), and a number a load has found is not given out again (`Reads`); a restart breaks the first.
- **`Buffers_proofs`**: the reorder buffer, the retry table and the replay buffer, for any capacity. Their loops are
  recursive functions of the slot reached. What a loop keeps is proved of the set of slots it holds at, by induction
  over a set of numbers (`LeastElement`, `UpTo`); that the functions obey their equations follows from the existence of
  the course they take (`RoundsExist`, `CourseExists`).
  - `DeliveredOnce`: of a packet that was not repeated there is one copy in the slots, the deliveries and the network
    together (`Once`, `ReorderInv`), and a flush moves copies only. `NoGaps`: until a packet is given up, `next_seq` is
    the number of packets delivered modulo `SeqNumbers`, and nothing held or in flight is a round ahead (`InTurn`), so
    that a number stands for one packet (`SameRemainder`) and a run delivers exactly the next ones (`RunInTurn`).
  - `BudgetIsSpent`: as long as no callback changes the table, each request has one slot, and the attempts in the slot
    and what the request is owed add up to its budget (`Charged`). A tick that is answered by "wait" only gives each
    slot that is due one try (`Waited`).
  - `MemoryIsCounted`, `SaveIsComplete` and the action property `YoungStay`: unless two adds overlap, the counter is the
    length of both queues (`Counted`); unless a timestamp ran backwards, the queues ascend up to `newest` (`Rising`) and
    outside the clean-up hold nothing older than the duration (`Trimmed`), so the clean-up drops old frames only.

`UniqueIds` and `ClientReadyOnlyAfterServer` are theorems and not properties of a run.

Not proved, and only model-checked: liveness (`LinkRecovers`, `DeadClientIsDropped`, `EveryFrameIsShown`,
`DisconnectReturns`, `StoppedThreadsEnd`, `SignalStops`, `HeldIsDelivered`, `DueFires`), which this prover cannot do. All
invariants, action properties and refinements of the passing runs are theorems.

## 5. What the models leave out

Contents of packets and frames, encryption as such, addresses and their resolution (a choice), the framing of the
TCP byte stream, statistics counters, logging. `PeerLink` has one peer per process and follows its packets, `PeerTable`
has several and leaves to chance what the packets do to one of them. The desktop session is modelled from an opened
link on: `rs_client_session_run` itself opens no socket and adds no peer, the KDE client does that in another context.
TCP has no listener in this repository; what one would answer is a choice of the environment. `HostService` leaves
out the tray's loop, pictures and samples; which driver works is a choice. `ReplayBuffer` leaves out failed
allocations and the muxer, `SessionCheckpoint` the encoding of a snapshot.

## 6. Where code and documents differ

Three disagreements are runs of their own, with findings in `PROJECT.json`:

- `pause_undone`: a handshake in flight makes a paused host stream again, and handshakes keep coming.
- `desktop_dangling`: the finished-handler of an old thread erases the pointer to the new one, and the next
  disconnect frees a session that is in use.
- `checkpoint_stale`: numbers start at 1 in every process and a load takes the highest one in the directory, so the
  first checkpoints saved after a restart are shadowed by older ones.

The others are built into the properties as exceptions, or follow from the models, and are listed here.

Connection and reconnection:

- `network.c:841`: the tick sends a PING with a null payload, which `crypto_encrypt_packet` refuses; no PING leaves
  the process, against `docs/PROTOCOL.md:145`.
- `network.c:564`: "Send handshake response if we haven't already", but every handshake is answered, so two
  connected peers answer each other for ever.
- `network.c:1271`: the dial overwrites `HANDSHAKE_SENT` by `CONNECTING`, which no timer looks at; a lost answer
  leaves the client there (`docs/microtasks.md:207` has the reconnect after 5 s). Hence the exception in `LinkRecovers`.
- `network_reconnect.c:82`: a UDP handshake that `sendto` accepts counts as a reconnection, so `PEER_FAILED`
  (`include/rootstream.h:374`) is never reached for a host that is gone.
- `network_reconnect.c:119`: `peer_reconnect_reset` has no caller.

Table of peers:

- `rootstreamclient.cpp:203`: the clean-up counts up while `rootstream_remove_peer` shifts the rest down, so every other
  peer stays.
- `network.c:832`: the tick frees the buffer of a peer that is quiet, and a TCP connect that waits five seconds in the
  same turn makes every peer quiet, the one whose frame is about to be decoded among them. Hence `late`.
- `network_tcp.c:117`: a new TCP connection overwrites the pointer to the old one, whose descriptor is lost. Hence the
  remark in `OwnedOnce`.
- `network.c:469`: entries made by a handshake are never removed, and sixteen of them fill the table.

Host:

- `vaapi_encoder.c:710-742`: the contexts of the software encoders are flushed and cleaned up as VA-API's.
- `opus_codec.c:86`, `audio_capture.c:155`: the Opus encoder and the audio captures keep their pointers where the input
  devices keep their descriptors, which the clean-up writes to and closes. Hence `ForeignOnlyByFallback`.
- `main.c:33`: a signal that comes before `service_run_host` has installed its handler sets a flag that nothing reads
  (`service.c:467` reads another), and is forgotten. Hence `handler` in `Signal`.
- `vaapi_encoder.c:494`: an encode that fails late has taken the keyframe request with it. Hence `lost`.
- `service.c:483`: after a failed encode the loop starts over without receiving, so a host whose encoder fails for
  good hears nothing.
- VA-API's display is not closed when `vaInitialize` fails, and the X11 and dummy captures forget the DRM descriptor.
  Hence the named leaks in `CleanupReleases`.

Video and desktop client:

- `network.c:651`: a repeated chunk counts as a missing one; `network.c:832`: a timeout frees the buffer and leaves the
  counters. Hence `repeated` and `interrupted` in `FramesAreWhole`, against `docs/PROTOCOL.md:91`.
- `rootstreamclient.cpp:152`: the window is connected even if the session could not be created, and
  `rootstreamclient.cpp:253`: an old session's signals change the new one's window. Hence the exceptions in
  `WindowIsRight`.

Libraries:

- `reorder_buffer.c:101`: a packet older than what was delivered is delivered after it and moves `next_seq` on;
  `reorder_buffer.c:64`: a packet repeated after its delivery is taken for a new one. Hence `late` and `repeated`.
- `rm_table.c:82`: a request removed by its callback is counted out twice and one registered in its place is charged
  a try, hence `meddled`; `rm_entry.c:36`: the first delay is not capped.
- `scheduler.c:110`: an entry put in the place of one whose callback runs is marked as fired, hence `usurpers`;
  `scheduler.c:106`: two threads that tick fire one entry twice, hence one ticking thread.
- `replay_buffer.cpp:229`: the cutoff of a save longer than the newest timestamp wraps, and nothing is written;
  `replay_buffer.cpp:62` and `74`: audio older than the oldest video empties the video queue, hence `disorder`;
  `replay_buffer.cpp:169`: video and audio adds change each other's queue under different mutexes, hence `raced`.
- `session_checkpoint.c`: `fclose` is not checked, so a save to a full disk returns 0 and leaves an empty file as the
  newest, and overlapping saves of a session truncate each other's temporary file, although
  `session_checkpoint.h:11` calls the manager thread-safe; hence `spoilt`. The pruning that `session_checkpoint.h:59-61`
  describes is nowhere done.

Discovery, which is not modelled: `discovery.c:357` never iterates the Avahi poll, against
`docs/IMPLEMENTATION_STATUS.md:68`.

## 7. Not modelled

Coverage by lines is small. Of some 84000 lines of implementation most are drivers, renderers, user interface, web
and mobile front ends, codec wrappers and estimators over floating-point numbers, in which there is no state whose
order matters beyond "acquired and released". What interacts, the connection, the table, the host's life, the video
path and the desktop sessions, is modelled, and so are the libraries in which threads, callbacks, kills or wrapping
numbers meet. By group:

- **Other programs** in the repository: the web dashboard and its server, the Android and iOS front ends, VR. Their
  request handling is a stub or they wrap another service.
- **Drivers and media**: decoders, playback, rendering, filters, capture and encoder internals. `HostService` and
  `DesktopSession` have when they are made, may fail and are freed.
- **Libraries that nothing calls** but their tests: relay, fan-out, flow control, event bus, signal router, hot reload,
  jitter buffer, FEC, chunk headers, the network optimiser. Their hazard, if any, is one that `RetryTable`, `Scheduler`
  or `ReorderBuffer` shows: a table that is changed under the one who walks over it, a number that wraps.
- **Sequential tables and arithmetic**: pools, registries, statistics, rate and clock estimators, configuration.
- **Cryptography**: keys, files and libsodium. What the connection needs of it is in `PeerLink`.
- **Recording manager**: it writes the container header before a stream exists and cannot start a recording; only
  the frame recording of the host is live, and that is in `HostService`.

Worth doing next: the event bus and the signal router, whose callbacks may subscribe and unsubscribe.
