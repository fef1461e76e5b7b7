-------------------------- MODULE HostService_proofs --------------------------
(***************************************************************************)
(* For every distance of key pictures and any number of requests, records  *)
(* and failures: what the force flag and the picture count promise the     *)
(* viewers of the stream and of the recording; what a failed back-end and  *)
(* a finished run leave behind; when a foreign context is used.            *)
(***************************************************************************)
EXTENDS HostService, TLAPS

Kept == asked \in [count : Nat, open : BOOLEAN] /\ RequestIsKept

\* A keyframe request waits in the flag until a key picture was made, or a failed
\* encode lost it (rootstream_encode_frame, vaapi_encoder.c and nvenc_encoder.c).
THEOREM RequestsAreKept == Spec => []RequestIsKept
<1>1. Init => Kept
  BY DEF Init, Kept, RequestIsKept
<1>2. Kept /\ [Next]_vars => Kept'
  <2> SUFFICES ASSUME Kept, [Next]_vars PROVE Kept'
    OBVIOUS
  <2>1. CASE UNCHANGED loopVars
    BY <2>1 DEF loopVars, Kept, RequestIsKept
  <2>2. CASE EncodeOk
    <3>1. asked' = [asked EXCEPT !.open = asked.open /\ out' # "key"]
      BY <2>2 DEF EncodeOk
    <3>2. asked' \in [count : Nat, open : BOOLEAN] /\ (asked'.open => asked.open /\ out' # "key")
      BY <3>1 DEF Kept
    <3>3. (force => out' = "key") /\ lost' = lost
      BY <2>2 DEF EncodeOk
    <3> QED
      BY <3>2, <3>3 DEF Kept, RequestIsKept
  <2>3. CASE EncodeFailsLate
    BY <2>3 DEF EncodeFailsLate, Kept, RequestIsKept
  <2>4. CASE RecordFrame
    BY <2>4 DEF RecordFrame, Kept, RequestIsKept
  <2>5. CASE Serve
    <3>1. \/ asked' = asked /\ force' = force
          \/ asked' = [count |-> asked.count + 1, open |-> TRUE] /\ force' = TRUE
      BY <2>5 DEF Serve
    <3>2. lost' = lost
      BY <2>5 DEF Serve
    <3>3. asked' \in [count : Nat, open : BOOLEAN]
      <4>1. asked.count + 1 \in Nat
        BY DEF Kept
      <4>2. [count |-> asked.count + 1, open |-> TRUE] \in [count : Nat, open : BOOLEAN]
        BY <4>1
      <4>3. asked \in [count : Nat, open : BOOLEAN]
        BY DEF Kept
      <4> QED
        BY <3>1, <4>2, <4>3
    <3>4. (asked' = asked /\ force' = force) \/ force'
      BY <3>1
    <3> QED
      BY <3>2, <3>3, <3>4 DEF Kept, RequestIsKept
  <2>6. CASE UNCHANGED vars
    BY <2>6 DEF vars, Kept, RequestIsKept
  <2>7. Next => \/ UNCHANGED loopVars
                \/ EncodeOk \/ EncodeFailsLate \/ RecordFrame \/ Serve
    BY DEF Next, Run, SelectDisplay, OpenSocket, StartRecording, InstallHandlers, BackendStarts,
           BackendFails, BackendAbsent, AudioDisabled, InitInput, StartOpus, AllocBuffer, Capture,
           LeaveLoop, EncodeFailsEarly, EncodeForeign, Sound, CloseRecording, Cleanup, Signal
  <2> QED
    BY <2>1, <2>2, <2>3, <2>4, <2>5, <2>6, <2>7
<1>3. Kept => RequestIsKept
  BY DEF Kept
<1> QED
  BY <1>1, <1>2, <1>3, PTL DEF Spec

----------------------------------------------------------------------------
(* The first record of a recording.                                         *)

Starting == {"display", "socket", "recording", "service", "input", "opus", "buffer"} \cup Kinds

\* The first record will be a key picture: the count stands at one, or it is made.
KeyIsNext ==
    \/ pc \in {"loop", "encode"} /\ num = 0
    \/ pc = "record" /\ out = "key"

\* Nothing is written, or what will be written first is a key picture.
NothingYet ==
    file = <<>> =>
        CASE pc \in Starting -> num = 0
          [] pc \in {"loop", "encode", "record", "sound", "serve"} ->
                "recording" \notin held \/ MaxRecords = 0 \/ lost \/ KeyIsNext
          [] OTHER -> TRUE

Inv ==
    /\ file \in Seq({"key", "delta", "torn", "gap"})
    /\ out \in Pictures
    /\ pc \in Starting => file = <<>>
    /\ NothingYet
    /\ RecordingStartsWithKey

\* A step of the loop that records nothing.
LEMMA OtherStepsKeep ==
    ASSUME Inv, file' = file, out' = out,
           \/ pc \in Starting /\ num' = num /\ pc' \in Starting \cup {"loop", "close", "cleanup", "crashed"}
           \/ pc' \in {"close", "cleanup", "done", "crashed"}
           \/ /\ pc \in {"loop", "sound", "serve"} /\ num' = num /\ held' = held
              /\ pc' \in {"encode", "sound", "serve", "loop"}
              /\ pc = "loop" => pc' = "encode"
              /\ pc # "loop" => pc' # "encode"
           \/ pc = "encode" /\ pc' = "loop" /\ held' = held /\ num' = num,
           lost => lost'
    PROVE  Inv'
<1>1. file' \in Seq({"key", "delta", "torn", "gap"}) /\ out' \in Pictures /\ RecordingStartsWithKey'
  BY DEF Inv, RecordingStartsWithKey
<1>2. (pc \in Starting => file = <<>>)' /\ NothingYet'
  BY DEF Inv, NothingYet, Starting, Kinds, KeyIsNext
<1> QED
  BY <1>1, <1>2 DEF Inv

LEMMA StartingStep ==
    ASSUME Inv,
           \/ SelectDisplay \/ OpenSocket \/ StartRecording \/ InstallHandlers
           \/ \E k \in Kinds : BackendStarts(k) \/ BackendFails(k) \/ BackendAbsent(k)
           \/ AudioDisabled \/ InitInput \/ StartOpus \/ AllocBuffer
    PROVE  Inv'
<1>1. /\ pc \in Starting /\ UNCHANGED loopVars
      /\ pc' \in Starting \cup {"loop", "close", "cleanup", "crashed"}
  <2>1. CASE SelectDisplay \/ OpenSocket \/ StartRecording \/ InstallHandlers
    BY <2>1 DEF SelectDisplay, OpenSocket, StartRecording, InstallHandlers, Starting, Kinds
  <2>2. CASE AudioDisabled \/ InitInput \/ StartOpus \/ AllocBuffer
    BY <2>2 DEF AudioDisabled, InitInput, StartOpus, AllocBuffer, Starting, Kinds
  <2>3. ASSUME NEW k \in Kinds, BackendStarts(k) \/ BackendFails(k) \/ BackendAbsent(k)
        PROVE  /\ pc = k /\ UNCHANGED loopVars
               /\ pc' \in {k, Onward[k], Exhausted[k]}
    BY <2>3 DEF BackendStarts, BackendFails, BackendAbsent, NextCandidate
  <2>4. \A k \in Kinds : {k, Onward[k], Exhausted[k]} \subseteq Starting \cup {"loop", "close"}
    BY DEF Kinds, Onward, Exhausted, Starting
  <2>5. Kinds \subseteq Starting
    BY DEF Starting
  <2> QED
    BY <2>1, <2>2, <2>3, <2>4, <2>5
<1> QED
  BY <1>1, OtherStepsKeep DEF loopVars

LEMMA EncodeStep ==
    ASSUME Inv, EncodeOk \/ EncodeFailsLate PROVE Inv'
<1>1. CASE EncodeOk
  <2>1. /\ pc = "encode" /\ pc' = "record" /\ file' = file /\ lost' = lost /\ held' = held
        /\ out' = (IF force \/ num = 0 THEN "key" ELSE "delta")
    BY <1>1 DEF EncodeOk
  <2>2. out' \in Pictures /\ (num = 0 => out' = "key")
    BY <2>1 DEF Pictures
  <2>3. (pc \in Starting => file = <<>>)' /\ NothingYet'
    BY <2>1, <2>2 DEF Inv, NothingYet, Starting, Kinds, KeyIsNext
  <2> QED
    BY <2>1, <2>2, <2>3 DEF Inv, RecordingStartsWithKey
<1>2. CASE EncodeFailsLate
  <2>1. /\ pc = "encode" /\ pc' = "loop" /\ file' = file /\ held' = held /\ out' = out
        /\ lost => lost'
        /\ num = 0 => num' = 0 \/ lost'
    BY <1>2 DEF EncodeFailsLate
  <2>2. (pc \in Starting => file = <<>>)' /\ NothingYet'
    BY <2>1 DEF Inv, NothingYet, Starting, Kinds, KeyIsNext
  <2> QED
    BY <2>1, <2>2 DEF Inv, RecordingStartsWithKey
<1> QED
  BY <1>1, <1>2

LEMMA RecordStep ==
    ASSUME Inv, RecordFrame PROVE Inv'
<1> DEFINE Records == {"key", "delta", "torn", "gap"}
<1>1. pc = "record" /\ pc' = "sound" /\ held' = held /\ lost' = lost /\ out' = out
  BY DEF RecordFrame
<1>2. CASE ~("recording" \in held /\ Len(file) < MaxRecords)
  <2>1. file' = file
    BY <1>2 DEF RecordFrame
  <2>2. file = <<>> => "recording" \notin held \/ MaxRecords = 0
    BY <1>2, BoundsAssumption
  <2>3. (pc \in Starting => file = <<>>)' /\ NothingYet'
    BY <1>1, <2>1, <2>2 DEF Inv, NothingYet, Starting, Kinds
  <2> QED
    BY <1>1, <2>1, <2>3 DEF Inv, RecordingStartsWithKey
<1>3. CASE "recording" \in held /\ Len(file) < MaxRecords
  <2>1. PICK r \in {out, "gap", "torn"} : file' = Append(file, r)
    BY <1>3 DEF RecordFrame
  <2>2. file \in Seq(Records) /\ r \in Records
    BY <2>1 DEF Inv, Pictures
  <2>3. file' \in Seq(Records) /\ Len(file') > 0 /\ file' # <<>>
    BY <2>1, <2>2
  <2>4. CASE file = <<>>
    <3>1. MaxRecords # 0
      BY <1>3, <2>4
    <3>2. lost \/ out = "key"
      BY <1>1, <1>3, <2>4, <3>1 DEF Inv, NothingYet, KeyIsNext, Starting, Kinds
    <3>3. file'[1] = r
      BY <2>1, <2>4
    <3>4. RecordingStartsWithKey'
      BY <1>1, <2>1, <3>2, <3>3 DEF RecordingStartsWithKey, Pictures
    <3> QED
      BY <1>1, <2>3, <3>4 DEF Inv, NothingYet, Starting, Kinds
  <2>5. CASE file # <<>>
    <3>1. Len(file) > 0 /\ file'[1] = file[1]
      BY <2>1, <2>2, <2>5
    <3>2. RecordingStartsWithKey'
      BY <1>1, <3>1 DEF Inv, RecordingStartsWithKey
    <3> QED
      BY <1>1, <2>3, <3>2 DEF Inv, NothingYet, Starting, Kinds
  <2> QED
    BY <2>4, <2>5
<1> QED
  BY <1>2, <1>3

\* Whatever fails and whichever encoder was found: a recording starts with a picture
\* that can be decoded by itself, unless the disk or a failed encode took that one
\* (recording_write_frame, recording.c:89-117).
THEOREM RecordingsStartWithKey == Spec => []RecordingStartsWithKey
<1>1. Init => Inv
  BY DEF Init, Inv, NothingYet, RecordingStartsWithKey, Pictures, Starting
<1>2. Inv /\ [Next]_vars => Inv'
  <2> SUFFICES ASSUME Inv, [Next]_vars PROVE Inv'
    OBVIOUS
  <2>1. CASE UNCHANGED vars
    BY <2>1 DEF vars, Inv, NothingYet, KeyIsNext, RecordingStartsWithKey
  <2>2. CASE \/ SelectDisplay \/ OpenSocket \/ StartRecording \/ InstallHandlers
             \/ \E k \in Kinds : BackendStarts(k) \/ BackendFails(k) \/ BackendAbsent(k)
             \/ AudioDisabled \/ InitInput \/ StartOpus \/ AllocBuffer
    BY <2>2, StartingStep
  <2>3. CASE Capture \/ LeaveLoop
    <3>1. /\ pc = "loop" /\ UNCHANGED loopVars
          /\ (pc' = "encode" /\ held' = held) \/ pc' = "close"
      BY <2>3 DEF Capture, LeaveLoop
    <3> QED
      BY <3>1, OtherStepsKeep DEF loopVars
  <2>4. CASE EncodeOk \/ EncodeFailsLate
    BY <2>4, EncodeStep
  <2>5. CASE EncodeFailsEarly \/ EncodeForeign
    <3>1. pc = "encode" /\ UNCHANGED loopVars /\ held' = held /\ pc' \in {"loop", "crashed"}
      BY <2>5 DEF EncodeFailsEarly, EncodeForeign
    <3> QED
      BY <3>1, OtherStepsKeep DEF loopVars
  <2>6. CASE RecordFrame
    BY <2>6, RecordStep
  <2>7. CASE Sound \/ Serve
    <3>1. /\ file' = file /\ out' = out /\ num' = num /\ lost' = lost /\ held' = held
          /\ \/ pc = "sound" /\ pc' \in {"serve", "crashed"}
             \/ pc = "serve" /\ pc' = "loop"
      BY <2>7 DEF Sound, Serve, loopVars
    <3> QED
      BY <3>1, OtherStepsKeep
  <2>8. CASE CloseRecording \/ Cleanup
    <3>1. UNCHANGED loopVars /\ pc' \in {"cleanup", "done", "crashed"}
      BY <2>8 DEF CloseRecording, Cleanup
    <3> QED
      BY <3>1, OtherStepsKeep DEF loopVars
  <2>9. CASE Signal
    BY <2>9 DEF Signal, loopVars, startVars, Inv, NothingYet, KeyIsNext, RecordingStartsWithKey
  <2> QED
    BY <2>1, <2>2, <2>3, <2>4, <2>5, <2>6, <2>7, <2>8, <2>9 DEF Next, Run
<1>3. Inv => RecordingStartsWithKey
  BY DEF Inv
<1> QED
  BY <1>1, <1>2, <1>3, PTL DEF Spec

----------------------------------------------------------------------------
(* What the process holds.                                                  *)

OfKind == [capture |-> {"drm", "x11", "dummy"},
           encoder |-> {"nvenc", "vaapi", "ffmpeg", "raw"},
           audio   |-> {"alsa", "pulse", "pipewire", "silent"}]

Pieces == [capture |-> {"x_display", "frame"},
           encoder |-> {"nv_ctx", "cuda_lib", "cuda_ctx", "nvenc_lib", "nv_session", "nv_input",
                        "nv_registered", "nv_bitstream", "render_fd", "va_ctx", "va_display",
                        "va_config", "va_surfaces", "va_context", "va_coded", "ff_ctx", "ff_codec",
                        "ff_frame", "ff_packet", "ff_sws", "raw_ctx"},
           audio   |-> {"alsa_ctx", "alsa_pcm", "pulse_ctx", "pulse_stream", "pw_ctx", "pw_buffer",
                        "pw_loop", "pw_context", "pw_core", "pw_stream"}]

\* A backend is of one kind, and so is what it acquires.
LEMMA BackendsIs ==
    Backends = {"drm", "x11", "dummy", "nvenc", "vaapi", "ffmpeg", "raw",
                "alsa", "pulse", "pipewire", "silent"}
BY DEF Backends, Backend

LEMMA CandidatesAre ==
    ASSUME NEW k \in Kinds, NEW i \in 1..Len(Chain[k])
    PROVE  Chain[k][i] \in OfKind[k] /\ Chain[k][i] \in Backends
<1>1. CASE k = "capture"
  BY <1>1, BackendsIs DEF Chain, OfKind
<1>2. CASE k = "encoder"
  BY <1>2, BackendsIs DEF Chain, OfKind
<1>3. CASE k = "audio"
  BY <1>3, BackendsIs DEF Chain, OfKind
<1> QED
  BY <1>1, <1>2, <1>3 DEF Kinds

LEMMA PiecesAreOfKind ==
    ASSUME NEW k \in Kinds, NEW b \in OfKind[k]
    PROVE  ResourcesOf(b) \subseteq Pieces[k]
<1> USE DEF ResourcesOf, All, First, Backend, Pieces
<1>1. CASE k = "capture"
  <2>1. b \in {"drm", "x11", "dummy"}
    BY <1>1 DEF OfKind
  <2>2. CASE b = "drm"
    BY <1>1, <2>2 DEF Drm
  <2>3. CASE b = "x11"
    BY <1>1, <2>3 DEF X11
  <2>4. CASE b = "dummy"
    BY <1>1, <2>4 DEF Dummy
  <2> QED
    BY <2>1, <2>2, <2>3, <2>4
<1>2. CASE k = "encoder"
  <2>1. b \in {"nvenc", "vaapi", "ffmpeg", "raw"}
    BY <1>2 DEF OfKind
  <2>2. CASE b = "nvenc"
    BY <1>2, <2>2 DEF Nvenc
  <2>3. CASE b = "vaapi"
    BY <1>2, <2>3 DEF Vaapi
  <2>4. CASE b = "ffmpeg"
    BY <1>2, <2>4 DEF Ffmpeg
  <2>5. CASE b = "raw"
    BY <1>2, <2>5 DEF RawVideo
  <2> QED
    BY <2>1, <2>2, <2>3, <2>4, <2>5
<1>3. CASE k = "audio"
  <2>1. b \in {"alsa", "pulse", "pipewire", "silent"}
    BY <1>3 DEF OfKind
  <2>2. CASE b = "alsa"
    BY <1>3, <2>2 DEF Alsa
  <2>3. CASE b = "pulse"
    BY <1>3, <2>3 DEF Pulse
  <2>4. CASE b = "pipewire"
    BY <1>3, <2>4 DEF PipeWire
  <2>5. CASE b = "silent"
    BY <1>3, <2>5 DEF Silent
  <2> QED
    BY <2>1, <2>2, <2>3, <2>4, <2>5
<1> QED
  BY <1>1, <1>2, <1>3 DEF Kinds

\* Each error branch releases what was acquired before it; VA-API's forgets its display.
LEMMA FailuresLeaveNothing ==
    ASSUME NEW b \in Backends, NEW f \in Backend[b].failures
    PROVE  LeftBy(b, f) \subseteq {"va_display"}
<1>1. CASE f[1] = f[2]
  BY <1>1 DEF LeftBy
<1>2. CASE f[1] # f[2]
  <2>1. b = "vaapi" /\ f = <<3, 2>>
    BY <1>2, BackendsIs DEF Backend, Each, Drm, X11, Dummy, Nvenc, Vaapi, Ffmpeg, RawVideo, Alsa, Pulse,
          PipeWire, Silent
  <2>2. First(Vaapi.acquires, 3) = {"render_fd", "va_ctx", "va_display"}
    BY DEF First, Vaapi
  <2>3. First(Vaapi.acquires, 2) = {"render_fd", "va_ctx"}
    BY DEF First, Vaapi
  <2> QED
    BY <2>1, <2>2, <2>3 DEF LeftBy, Backend
<1> QED
  BY <1>1, <1>2

LEMMA PiecesDiffer ==
    /\ \A j, k \in Kinds : j # k => Pieces[j] \cap Pieces[k] = {}
    /\ \A k \in Kinds : Pieces[k] \cap (MainOwns \cup {"opus"}) = {}
    /\ "va_display" \notin Pieces["capture"] \cup Pieces["audio"] \cup MainOwns
BY DEF Pieces, Kinds, MainOwns

\* What is in use of a kind.
InUse(k) == IF using[k] = "none" THEN {} ELSE ResourcesOf(using[k])

Before == {"display", "socket", "recording", "service"}

\* A chain is gone down before anything of its kind is in use.
UsingFits ==
    /\ using \in [Kinds -> Backends \cup {"none"}]
    /\ \A k \in Kinds : using[k] \in OfKind[k] \cup {"none"}
    /\ next \in Nat \ {0}
    /\ pc \in Kinds => next <= Len(Chain[pc])
    /\ pc \in Before \cup {"input"} => next = 1
    /\ pc \in Before \cup {"capture"} => using["capture"] = "none"
    /\ pc \in Before \cup {"capture", "encoder"} => using["encoder"] = "none"
    /\ pc \in Before \cup {"capture", "encoder", "input", "audio"} => using["audio"] = "none"
    /\ pc = "opus" => using["audio"] # "none" /\ cfg.audio

\* Everything held is main's, the Opus encoder, of a backend in use, or VA-API's display.
HeldIsUsed ==
    \A r \in held : \/ r \in MainOwns \cup {"opus", "va_display"}
                    \/ \E k \in Kinds : r \in InUse(k)

Looping == {"loop", "encode", "record", "sound", "serve"}

\* Where the things that main owns can be held, and what the code has of them to
\* release them by.
MainKnows ==
    /\ "drm_fd" \in held => fd \/ (handler # "main" /\ using["capture"] # "drm")
    /\ pc = "display" => "drm_fd" \notin held
    /\ handler \in {"main", "service"}
    /\ handler = "main" =>
        using["capture"] = "none" /\ using["encoder"] = "none" /\ pc \in Before \cup {"cleanup", "done"}
    /\ pc \in {"display", "socket", "recording", "cleanup", "done"} => "recording" \notin held
    /\ "enc_buf" \in held => pc \in Looping \cup {"crashed"}
    /\ "opus" \in held => cfg.audio
    /\ pc \in Before \cup {"capture", "encoder", "input"} => held \cap Slots = {}
    /\ ~cfg.audio => \A d \in Slots : d \in held => slot[d] = "device"

Released ==
    pc = "done" => \/ held \subseteq Leaks
                   \/ using["encoder"] # "none" /\ ~Own

HoldInv == UsingFits /\ HeldIsUsed /\ MainKnows /\ Released

LEMMA HoldInit == Init => HoldInv
BY DEF Init, HoldInv, UsingFits, HeldIsUsed, MainKnows, Released, Kinds, Before, Slots

\* Nothing of a backend that is not in use, but VA-API's display.
LEMMA HoldMeans == HoldInv => FailedBackendsHoldNothing
<1> SUFFICES ASSUME HoldInv, NEW k \in Kinds, NEW i \in 1..Len(Chain[k]), Chain[k][i] # using[k],
                    NEW r \in held \cap ResourcesOf(Chain[k][i]), r # "va_display"
             PROVE  using[k] # "none" /\ r \in ResourcesOf(using[k])
  BY DEF FailedBackendsHoldNothing
<1>1. r \in Pieces[k]
  BY CandidatesAre, PiecesAreOfKind
<1>2. r \notin MainOwns \cup {"opus"}
  BY <1>1, PiecesDiffer
<1>3. PICK j \in Kinds : r \in InUse(j)
  BY <1>2 DEF HoldInv, HeldIsUsed
<1>4. r \in Pieces[j] /\ using[j] # "none" /\ r \in ResourcesOf(using[j])
  BY <1>3, PiecesAreOfKind DEF InUse, HoldInv, UsingFits
<1>5. j = k
  BY <1>1, <1>4, PiecesDiffer
<1> QED
  BY <1>4, <1>5

\* A step that neither starts nor stops a backend.
LEMMA SameUsing ==
    ASSUME HoldInv, using' = using, held' \subseteq held \cup MainOwns \cup {"opus", "va_display"}
    PROVE  HeldIsUsed'
BY DEF HoldInv, HeldIsUsed, InUse

LEMMA HoldStart ==
    ASSUME HoldInv, SelectDisplay \/ OpenSocket \/ StartRecording \/ InstallHandlers PROVE HoldInv'
<1>1. /\ using' = using /\ next' = next /\ cfg' = cfg /\ slot' = slot /\ pc \in Before
      /\ pc' \in Before \cup {"capture", "cleanup"}
      /\ held' \subseteq held \cup {"drm_fd", "socket", "recording"} /\ held \subseteq held'
  BY DEF SelectDisplay, OpenSocket, StartRecording, InstallHandlers, startVars, Before
<1>2. HeldIsUsed'
  BY <1>1, SameUsing DEF MainOwns
<1>3. UsingFits'
  <2>1. Len(Chain["capture"]) = 3
    BY DEF Chain
  <2> QED
    BY <1>1, <2>1 DEF HoldInv, UsingFits, Before, Kinds
<1>4. MainKnows' /\ Released'
  <2>1. CASE SelectDisplay
    BY <1>1, <2>1 DEF SelectDisplay, signalVars, HoldInv, UsingFits, MainKnows, Released, Before, Looping, Slots
  <2>2. CASE OpenSocket
    BY <1>1, <2>2 DEF OpenSocket, startVars, signalVars, HoldInv, UsingFits, MainKnows, Released, Before,
          Looping, Slots
  <2>3. CASE StartRecording
    BY <1>1, <2>3 DEF StartRecording, startVars, signalVars, HoldInv, UsingFits, MainKnows, Released, Before,
          Looping, Slots
  <2>4. CASE InstallHandlers
    BY <1>1, <2>4 DEF InstallHandlers, startVars, signalVars, HoldInv, UsingFits, MainKnows, Released, Before,
          Looping, Slots
  <2> QED
    BY <2>1, <2>2, <2>3, <2>4
<1> QED
  BY <1>2, <1>3, <1>4 DEF HoldInv

LEMMA HoldBackendStarts ==
    ASSUME HoldInv, NEW k \in Kinds, BackendStarts(k) PROVE HoldInv'
<1> DEFINE b == Candidate(k)
<1>1. /\ pc = k /\ (k = "audio" => cfg.audio) /\ (b = "drm" => fd)
      /\ held' = held \cup ResourcesOf(b) /\ using' = [using EXCEPT ![k] = b]
      /\ fd' = (fd /\ b \notin {"x11", "dummy"}) /\ next' = 1 /\ pc' = Onward[k]
      /\ slot' = IF b \in {"alsa", "pulse"} THEN [slot EXCEPT !.mouse = "audio"] ELSE slot
      /\ cfg' = cfg /\ handler' = handler
  BY DEF BackendStarts, signalVars
<1>2. next \in 1..Len(Chain[k])
  <2>1. Len(Chain[k]) \in Nat
    BY DEF Chain, Kinds
  <2> QED
    BY <1>1, <2>1 DEF HoldInv, UsingFits
<1>3. b \in OfKind[k] /\ b \in Backends
  BY <1>2, CandidatesAre DEF Candidate
<1>4. using[k] = "none" /\ b # "none"
  BY <1>1, <1>3, BackendsIs DEF HoldInv, UsingFits, Kinds
<1>5. using'[k] = b /\ \A j \in Kinds : j # k => using'[j] = using[j]
  BY <1>1 DEF HoldInv, UsingFits
<1>6. InUse(k)' = ResourcesOf(b) /\ \A j \in Kinds : j # k => InUse(j)' = InUse(j)
  BY <1>4, <1>5 DEF InUse
<1>7. HeldIsUsed'
  <2> SUFFICES ASSUME NEW r \in held', r \notin MainOwns \cup {"opus", "va_display"}
               PROVE  \E j \in Kinds : r \in InUse(j)'
    BY DEF HeldIsUsed
  <2>1. CASE r \in ResourcesOf(b)
    BY <1>6, <2>1
  <2>2. CASE r \in held
    <3>1. PICK j \in Kinds : r \in InUse(j)
      BY <2>2 DEF HoldInv, HeldIsUsed
    <3>2. j # k
      BY <1>4, <3>1 DEF InUse
    <3> QED
      BY <1>6, <3>1, <3>2
  <2> QED
    BY <1>1, <2>1, <2>2
<1>8. k \in {"capture", "encoder", "audio"}
  BY DEF Kinds
<1>9. UsingFits'
  <2>1. Len(Chain["encoder"]) = 4
    BY DEF Chain
  <2>2. pc' = CASE k = "capture" -> "encoder" [] k = "encoder" -> "input" [] OTHER -> "opus"
    BY <1>1, <1>8 DEF Onward
  <2>3. using' \in [Kinds -> Backends \cup {"none"}] /\ \A j \in Kinds : using'[j] \in OfKind[j] \cup {"none"}
    BY <1>1, <1>3, <1>5 DEF HoldInv, UsingFits
  <2>4. using'["encoder"] = IF k = "encoder" THEN b ELSE using["encoder"]
    BY <1>5 DEF Kinds
  <2> QED
    <3>1. CASE k = "capture"
      <4>1. pc' = "encoder" /\ next' = 1 /\ pc = "capture"
        BY <1>1, <2>2, <3>1
      <4>2. using'["encoder"] = using["encoder"] /\ using'["audio"] = using["audio"]
        BY <1>5, <3>1 DEF Kinds
      <4>3. using["encoder"] = "none" /\ using["audio"] = "none"
        BY <4>1 DEF HoldInv, UsingFits
      <4>4. pc' \notin Before \cup {"input", "capture", "opus"}
        BY <4>1 DEF Before
      <4>5. next' \in Nat \ {0} /\ next' <= Len(Chain[pc'])
        BY <2>1, <4>1
      <4> QED
        BY <2>3, <4>2, <4>3, <4>4, <4>5 DEF UsingFits
    <3>2. CASE k = "encoder"
      BY <1>1, <1>5, <2>1, <2>2, <2>3, <3>2 DEF HoldInv, UsingFits, Kinds, Before
    <3>3. CASE k = "audio"
      BY <1>1, <1>4, <1>5, <2>1, <2>2, <2>3, <3>3 DEF HoldInv, UsingFits, Kinds, Before
    <3> QED
      BY <1>8, <3>1, <3>2, <3>3
<1>10. held' \cap (MainOwns \cup {"opus"}) = held \cap (MainOwns \cup {"opus"})
  BY <1>1, <1>3, PiecesAreOfKind, PiecesDiffer
<1>11. MainKnows' /\ Released'
  <2>1. \A r \in {"drm_fd", "recording", "enc_buf", "kbd", "mouse", "opus"} : r \in held' <=> r \in held
    BY <1>10 DEF MainOwns
  <2>2. handler # "main" /\ pc' \in {"encoder", "input", "opus"}
    BY <1>1, <1>8 DEF HoldInv, MainKnows, Before, Onward
  <2>3. ~cfg.audio => slot' = slot
    BY <1>1, <1>3, <1>8 DEF OfKind
  <2>4. "drm_fd" \in held' => fd' \/ using'["capture"] # "drm"
    <3>1. CASE k = "capture"
      BY <1>1, <1>3, <1>5, <2>1, <3>1 DEF OfKind, HoldInv, MainKnows
    <3>2. CASE k # "capture"
      <4>1. using'["capture"] = using["capture"]
        BY <1>5, <3>2 DEF Kinds
      <4>2. b \notin {"x11", "dummy"}
        BY <1>3, <1>8, <3>2 DEF OfKind
      <4>3. fd' <=> fd
        BY <1>1, <4>2
      <4> QED
        BY <2>1, <4>1, <4>3 DEF HoldInv, MainKnows
    <3> QED
      BY <3>1, <3>2
  <2>5. "enc_buf" \notin held
    BY <1>1, <1>8 DEF HoldInv, MainKnows, Looping
  <2>6. pc' \in {"encoder", "input"} => pc \in {"capture", "encoder"}
    BY <1>1, <1>8 DEF Onward
  <2> QED
    BY <1>1, <2>1, <2>2, <2>3, <2>4, <2>5, <2>6 DEF HoldInv, MainKnows, Released, Slots, Before, Looping
<1> QED
  BY <1>7, <1>9, <1>11 DEF HoldInv

LEMMA HoldBackendFails ==
    ASSUME HoldInv, NEW k \in Kinds, BackendFails(k) \/ BackendAbsent(k) PROVE HoldInv'
<1> DEFINE b == Candidate(k)
<1>1. next \in 1..Len(Chain[k]) /\ pc = k /\ Len(Chain[k]) \in Nat
  <2>1. Len(Chain[k]) \in Nat
    BY DEF Chain, Kinds
  <2> QED
    <3>1. pc = k
      BY DEF BackendFails, BackendAbsent
    <3>2. next \in Nat \ {0} /\ next <= Len(Chain[k])
      BY <3>1 DEF HoldInv, UsingFits
    <3> QED
      BY <2>1, <3>1, <3>2
<1>2. b \in OfKind[k] /\ b \in Backends
  BY <1>1, CandidatesAre DEF Candidate
<1>3. held \subseteq held' /\ held' \subseteq held \cup {"va_display"}
  <2>1. CASE BackendFails(k)
    BY <1>2, <2>1, FailuresLeaveNothing DEF BackendFails
  <2>2. CASE BackendAbsent(k)
    BY <2>2 DEF BackendAbsent
  <2> QED
    BY <2>1, <2>2
<1>4. /\ using' = using /\ slot' = slot /\ cfg' = cfg /\ handler' = handler
      /\ fd' = fd \/ b \in {"x11", "dummy"}
      /\ NextCandidate(k)
  BY DEF BackendFails, BackendAbsent, signalVars
<1>5. HeldIsUsed'
  BY <1>3, <1>4, SameUsing
<1>6. \/ pc' = pc /\ next' = next + 1 /\ next < Len(Chain[k])
      \/ pc' = Exhausted[k] /\ next' = 1
  BY <1>4 DEF NextCandidate
<1>7. Exhausted[k] \in {"close", "buffer"}
  BY DEF Exhausted, Kinds
<1>8. UsingFits'
  <2>1. next' \in Nat \ {0} /\ (pc' \in Kinds => next' <= Len(Chain[pc']))
    BY <1>1, <1>6, <1>7 DEF Kinds
  <2> QED
    BY <1>1, <1>4, <1>6, <1>7, <2>1 DEF HoldInv, UsingFits, Before, Kinds
<1>9. MainKnows' /\ Released'
  <2>1. \A r \in {"drm_fd", "recording", "enc_buf", "kbd", "mouse", "opus"} : r \in held' <=> r \in held
    BY <1>3
  <2>2. pc \in Kinds /\ pc' \in Kinds \cup {"close", "buffer"} /\ handler # "main"
    BY <1>1, <1>6, <1>7 DEF HoldInv, MainKnows, Before, Kinds
  <2>3. fd' = fd \/ using["capture"] = "none"
    <3>1. CASE k = "capture"
      BY <1>1, <3>1 DEF HoldInv, UsingFits
    <3>2. CASE k # "capture"
      BY <1>2, <1>4, <3>2 DEF OfKind, Kinds
    <3> QED
      BY <3>1, <3>2
  <2>4. pc' \in Kinds => pc' = pc
    BY <1>6, <1>7 DEF Kinds
  <2> QED
    BY <1>4, <2>1, <2>2, <2>3, <2>4 DEF HoldInv, MainKnows, Released, Slots, Before, Kinds, Looping
<1> QED
  BY <1>5, <1>8, <1>9 DEF HoldInv

LEMMA HoldInput ==
    ASSUME HoldInv, AudioDisabled \/ InitInput \/ AllocBuffer PROVE HoldInv'
<1>1. /\ using' = using /\ next' = next /\ cfg' = cfg /\ fd' = fd /\ handler' = handler
      /\ pc \in {"input", "audio", "buffer"} /\ pc' \in {"audio", "buffer", "loop", "close"}
      /\ pc' = "audio" => pc = "input"
      /\ held \subseteq held' /\ held' \subseteq held \cup {"kbd", "mouse", "xdotool", "enc_buf"}
      /\ "enc_buf" \in held' => "enc_buf" \in held \/ pc' = "loop"
  BY DEF AudioDisabled, InitInput, AllocBuffer, startVars, signalVars
<1>2. HeldIsUsed'
  BY <1>1, SameUsing DEF MainOwns
<1>3. UsingFits'
  <2>1. Len(Chain["audio"]) = 4
    BY DEF Chain
  <2>2. pc' \in Kinds => pc' = "audio" /\ pc = "input"
    BY <1>1 DEF Kinds
  <2>3. pc' \notin Before \cup {"input", "capture", "encoder", "opus"}
    BY <1>1 DEF Before
  <2>4. pc' = "audio" => next = 1 /\ using["audio"] = "none"
    BY <1>1 DEF HoldInv, UsingFits
  <2>5. /\ using' \in [Kinds -> Backends \cup {"none"}] /\ next' \in Nat \ {0}
        /\ \A k \in Kinds : using'[k] \in OfKind[k] \cup {"none"}
    BY <1>1 DEF HoldInv, UsingFits
  <2>6. ASSUME pc' \in Kinds PROVE next' <= Len(Chain[pc'])
    <3>1. pc' = "audio" /\ next' = 1
      BY <1>1, <2>2, <2>4, <2>6
    <3>2. Chain[pc'] = Chain["audio"]
      BY <3>1
    <3>3. Len(Chain[pc']) = 4
      BY <2>1, <3>2
    <3> QED
      BY <3>1, <3>3
  <2> QED
    BY <1>1, <2>3, <2>4, <2>5, <2>6 DEF UsingFits
<1>4. ~cfg.audio => \A d \in Slots : d \in held' => slot'[d] = "device"
  <2>1. CASE InitInput
    <3>1. held \cap Slots = {}
      BY <2>1 DEF InitInput, HoldInv, MainKnows
    <3> QED
      BY <2>1, <3>1 DEF InitInput, Slots
  <2>2. CASE AudioDisabled \/ AllocBuffer
    BY <2>2 DEF AudioDisabled, AllocBuffer, startVars, HoldInv, MainKnows, Slots
  <2> QED
    BY <2>1, <2>2
<1>5. MainKnows' /\ Released'
  BY <1>1, <1>4 DEF HoldInv, MainKnows, Released, Looping, Before
<1> QED
  BY <1>2, <1>3, <1>5 DEF HoldInv

LEMMA HoldOpus ==
    ASSUME HoldInv, StartOpus PROVE HoldInv'
<1>1. /\ pc = "opus" /\ pc' \in {"buffer", "crashed"} /\ next' = next /\ cfg' = cfg /\ fd' = fd
      /\ handler' = handler
  BY DEF StartOpus, signalVars
<1>2. using["audio"] \in OfKind["audio"] /\ cfg.audio
  BY <1>1 DEF HoldInv, UsingFits, Kinds
<1>3. CASE using' = using /\ held' \subseteq held \cup {"opus"}
  <2>1. HeldIsUsed'
    BY <1>3, SameUsing
  <2>2. UsingFits'
    BY <1>1, <1>3 DEF HoldInv, UsingFits, Before, Kinds
  <2>3. MainKnows' /\ Released'
    BY <1>1, <1>2, <1>3 DEF HoldInv, MainKnows, Released, Before, Looping
  <2> QED
    BY <2>1, <2>2, <2>3 DEF HoldInv
<1>4. CASE /\ using' = [using EXCEPT !["audio"] = "none"]
           /\ held' = held \ ResourcesOf(using["audio"])
  <2>1. /\ using'["audio"] = "none" /\ using'["capture"] = using["capture"]
        /\ using'["encoder"] = using["encoder"] /\ using' \in [Kinds -> Backends \cup {"none"}]
    BY <1>4 DEF HoldInv, UsingFits, Kinds
  <2>2. HeldIsUsed'
    <3> SUFFICES ASSUME NEW r \in held', r \notin MainOwns \cup {"opus", "va_display"}
                 PROVE  \E j \in Kinds : r \in InUse(j)'
      BY DEF HeldIsUsed
    <3>1. PICK j \in Kinds : r \in InUse(j)
      BY <1>4 DEF HoldInv, HeldIsUsed
    <3>2. j # "audio"
      BY <1>4, <3>1 DEF InUse
    <3> QED
      BY <2>1, <3>1, <3>2 DEF InUse, Kinds
  <2>3. UsingFits'
    BY <1>1, <2>1 DEF HoldInv, UsingFits, Before, Kinds
  <2>4. MainKnows' /\ Released'
    BY <1>1, <1>2, <1>4, <2>1 DEF HoldInv, MainKnows, Released, Before, Looping
  <2> QED
    BY <2>2, <2>3, <2>4 DEF HoldInv
<1> QED
  BY <1>3, <1>4 DEF StartOpus

LEMMA HoldLoop ==
    ASSUME HoldInv,
           \/ Capture \/ EncodeOk \/ EncodeFailsEarly \/ EncodeFailsLate \/ EncodeForeign \/ RecordFrame
           \/ Sound \/ Serve \/ LeaveLoop \/ CloseRecording
    PROVE  HoldInv'
<1>1. /\ UNCHANGED startVars /\ handler' = handler /\ held' \subseteq held
      /\ pc \in Looping \cup {"close"} /\ pc' \in Looping \cup {"crashed", "close", "cleanup"}
      /\ pc' = "close" => "enc_buf" \notin held'
      /\ pc' = "cleanup" => "recording" \notin held' /\ pc = "close"
  BY DEF Capture, EncodeOk, EncodeFailsEarly, EncodeFailsLate, EncodeForeign, RecordFrame, Sound, Serve,
         LeaveLoop, CloseRecording, Looping, startVars, loopVars, signalVars
<1>2. HeldIsUsed'
  BY <1>1, SameUsing DEF startVars
<1>3. UsingFits'
  BY <1>1 DEF startVars, HoldInv, UsingFits, Before, Looping, Kinds
<1>4. MainKnows' /\ Released'
  BY <1>1 DEF startVars, HoldInv, MainKnows, Released, Before, Looping
<1> QED
  BY <1>2, <1>3, <1>4 DEF HoldInv

LEMMA HoldCleanup ==
    ASSUME HoldInv, Cleanup PROVE HoldInv'
<1>1. /\ pc = "cleanup" /\ pc' \in {"done", "crashed"} /\ next' = next /\ cfg' = cfg /\ using' = using
      /\ handler' = handler /\ fd' = (fd /\ using["capture"] \notin {"none", "drm"})
      /\ held' = held \ (CaptureReleases \cup EncoderReleases \cup InputReleases \cup {"socket"})
  BY DEF Cleanup, signalVars
<1>2. HeldIsUsed'
  BY <1>1, SameUsing
<1>3. UsingFits'
  BY <1>1 DEF HoldInv, UsingFits, Before, Kinds
<1>4. MainKnows'
  <2>1. "drm_fd" \in held' => fd' \/ (handler # "main" /\ using["capture"] # "drm")
    BY <1>1 DEF HoldInv, MainKnows, CaptureReleases
  <2>2. ~cfg.audio => held' \cap Slots = {}
    BY <1>1 DEF HoldInv, MainKnows, InputReleases
  <2>3. pc' = "crashed" => using["encoder"] # "none"
    BY DEF Cleanup
  <2>4. held' \subseteq held
    BY <1>1
  <2> QED
    BY <1>1, <2>1, <2>2, <2>3, <2>4 DEF HoldInv, MainKnows, Before, Looping
<1>5. Released'
  <2> SUFFICES ASSUME pc' = "done", using["encoder"] = "none" \/ Own, NEW r \in held'
               PROVE  r \in Leaks'
    BY <1>1 DEF Released, Own
  <2>1. Leaks' = Leaks
    BY <1>1 DEF Leaks
  <2>2. r \in held /\ r \notin CaptureReleases \cup EncoderReleases \cup InputReleases \cup {"socket"}
    BY <1>1
  <2>3. CASE \E k \in Kinds : r \in InUse(k)
    BY <2>1, <2>2, <2>3 DEF InUse, Kinds, CaptureReleases, EncoderReleases, Leaks
  <2>4. CASE r = "drm_fd"
    BY <1>1, <2>1, <2>2, <2>4 DEF HoldInv, MainKnows, CaptureReleases, Leaks
  <2>5. CASE r \in Slots
    BY <1>1, <2>1, <2>2, <2>5 DEF HoldInv, MainKnows, InputReleases, Leaks, Slots
  <2>6. CASE r \in {"va_display", "opus", "xdotool"}
    BY <2>1, <2>2, <2>6 DEF HoldInv, MainKnows, Leaks
  <2>7. r \notin {"recording", "enc_buf", "socket"}
    BY <1>1, <2>2 DEF HoldInv, MainKnows, Looping
  <2> QED
    BY <2>2, <2>3, <2>4, <2>5, <2>6, <2>7 DEF HoldInv, HeldIsUsed, MainOwns, Slots
<1> QED
  BY <1>2, <1>3, <1>4, <1>5 DEF HoldInv

LEMMA HoldNext == HoldInv /\ [Next]_vars => HoldInv'
<1> SUFFICES ASSUME HoldInv, [Next]_vars PROVE HoldInv'
  OBVIOUS
<1>1. CASE Signal \/ UNCHANGED vars
  BY <1>1 DEF Signal, vars, startVars, loopVars, HoldInv, UsingFits, HeldIsUsed, InUse, MainKnows,
        Released, Leaks, Own, Ended
<1>2. CASE UNCHANGED vars \/ Run
  BY <1>2, HoldStart, HoldBackendStarts, HoldBackendFails, HoldInput, HoldOpus, HoldLoop, HoldCleanup,
     <1>1 DEF Run
<1> QED
  BY <1>1, <1>2 DEF Next

\* Going down a chain of backends leaves nothing of those that failed but VA-API's
\* display (the init functions' error branches, vaapi_encoder.c:256-439 and others).
THEOREM FailedBackendsLeaveNothing == Spec => []FailedBackendsHoldNothing
BY HoldInit, HoldNext, HoldMeans, PTL DEF Spec

\* Wherever the run is left, everything but the named leaks is released
\* (rootstream_cleanup, core.c:83-107).
THEOREM CleanUpReleases == Spec => []CleanupReleases
<1>1. HoldInv => CleanupReleases
  BY DEF HoldInv, Released, CleanupReleases
<1> QED
  BY <1>1, HoldInit, HoldNext, PTL DEF Spec

\* With audio off and both virtual devices there, what is injected goes to the devices,
\* and a context that is used or closed is the code's own, unless the encoder is one
\* that the code takes for VA-API's (rootstream_encode_frame_ex, vaapi_encoder.c).
THEOREM ForeignUseIsFallback == Spec => ForeignOnlyByFallback
<1>1. HoldInv /\ [Next]_vars => [foreign' /\ ~foreign => \/ ~Own
                                                         \/ cfg.audio
                                                         \/ ~({"kbd", "mouse"} \subseteq held)]_vars
  <2> SUFFICES ASSUME HoldInv, [Next]_vars, foreign', ~foreign, Own, ~cfg.audio,
                      {"kbd", "mouse"} \subseteq held
               PROVE  FALSE
    OBVIOUS
  <2>1. \A d \in Slots : slot[d] = "device"
    BY DEF HoldInv, MainKnows, Slots
  <2>2. CASE Serve
    BY <2>1, <2>2 DEF Serve
  <2>3. CASE Cleanup
    BY <2>1, <2>3 DEF Cleanup
  <2>4. CASE EncodeForeign
    BY <2>4 DEF EncodeForeign
  <2>5. CASE foreign' = foreign
    BY <2>5
  <2>6. Next => Serve \/ Cleanup \/ EncodeForeign \/ foreign' = foreign
    BY DEF Next, Run, SelectDisplay, OpenSocket, StartRecording, InstallHandlers, BackendStarts,
           BackendFails, BackendAbsent, AudioDisabled, InitInput, StartOpus, AllocBuffer, Capture,
           LeaveLoop, EncodeOk, EncodeFailsEarly, EncodeFailsLate, RecordFrame, Sound, CloseRecording,
           Signal
  <2>7. UNCHANGED vars => foreign' = foreign
    BY DEF vars
  <2> QED
    BY <2>2, <2>3, <2>4, <2>5, <2>6, <2>7
<1> QED
  BY <1>1, HoldInit, HoldNext, PTL DEF Spec, ForeignOnlyByFallback
=============================================================================
