---------------------------- MODULE HostService ----------------------------
(* One run of the streaming host: run_host_mode (main.c) selects a display, *)
(* opens the socket and the recording, service_run_host (service.c) finds a *)
(* capture, an encoder, an input and an audio backend, each through a       *)
(* fallback chain, and then captures, encodes, records, sends and receives  *)
(* in one loop until a signal stops it; rootstream_cleanup (core.c)         *)
(* releases what the run acquired.                                          *)
(*                                                                          *)
(* Every backend is a plan: what each step of its init function acquires    *)
(* and what the error branch of that step releases.  A picture is only its  *)
(* kind, "key" or "delta".  The context's two descriptors of virtual input  *)
(* devices are kept as what the slot really holds, because the Opus encoder *)
(* and the ALSA and PulseAudio captures store their pointers there.         *)
EXTENDS Naturals, Sequences, FiniteSets

CONSTANTS
    MaxRecords,   \* bound: records written to the recording file
    MaxRequests,  \* bound: keyframe requests received
    Gop           \* pictures from one scheduled key picture to the next

ASSUME BoundsAssumption == MaxRecords \in Nat /\ MaxRequests \in Nat
ASSUME GopAssumption == Gop \in Nat \ {0}

VARIABLES
    cfg,       \* what the command line, the settings and the machine are
    pc,        \* where the run is
    held,      \* the resources the process holds
    fd,        \* display.fd is the descriptor main opened
    using,     \* the backend of each kind in use, "none" before its init
    next,      \* position in the fallback chain being tried
    slot,      \* what uinput_kbd_fd and uinput_mouse_fd hold
    handler,   \* whose signal handler is installed
    stop,      \* service_running was cleared
    force,     \* encoder.force_keyframe
    num,       \* pictures since the last scheduled key picture
    out,       \* the picture in enc_buf
    file,      \* what became of each record: its picture, "torn" or "gap"
    asked,     \* history: [count, open: a request no key picture followed]
    lost,      \* history: a failed encode took a key picture with it
    foreign    \* history: a context or descriptor of another owner was used

vars == <<cfg, pc, held, fd, using, next, slot, handler, stop, force, num,
          out, file, asked, lost, foreign>>

----------------------------------------------------------------------------
(* Backends                                                                 *)

Kinds == {"capture", "encoder", "audio"}
Chain == [capture |-> <<"drm", "x11", "dummy">>,
          encoder |-> <<"nvenc", "vaapi", "ffmpeg", "raw">>,
          audio   |-> <<"alsa", "pulse", "pipewire", "silent">>]

First(r, n) == {r[i] : i \in 1..n}
All(r) == First(r, Len(r))

\* The backends: what the steps of its init acquire, in their order, and which
\* of its failures there are: how many resources it had when a step failed, and
\* how many of them, from the first, the error branch releases.
Each(ns) == {<<n, n>> : n \in ns}

Drm   == [acquires |-> <<"frame">>, failures |-> Each({0})]
X11   == [acquires |-> <<"x_display", "frame">>, failures |-> Each({0, 1})]
Dummy == [acquires |-> <<"frame">>, failures |-> Each({0})]

Nvenc == [acquires |-> <<"nv_ctx", "cuda_lib", "cuda_ctx", "nvenc_lib", "nv_session",
                         "nv_input", "nv_registered", "nv_bitstream">>,
          failures |-> Each(0..7)]

\* A vaInitialize that fails leaves the display behind.
Vaapi == [acquires |-> <<"render_fd", "va_ctx", "va_display", "va_config",
                         "va_surfaces", "va_context", "va_coded">>,
          failures |-> Each(0..6) \cup {<<3, 2>>}]

Ffmpeg == [acquires |-> <<"ff_ctx", "ff_codec", "ff_frame", "ff_packet", "ff_sws">>,
           failures |-> Each(0..4)]
RawVideo == [acquires |-> <<"raw_ctx">>, failures |-> Each({0})]

Alsa   == [acquires |-> <<"alsa_ctx", "alsa_pcm">>, failures |-> Each(0..2)]
Pulse  == [acquires |-> <<"pulse_ctx", "pulse_stream">>, failures |-> Each({0, 1})]
Silent == [acquires |-> <<>>, failures |-> {}]
PipeWire ==
    [acquires |-> <<"pw_ctx", "pw_buffer", "pw_loop", "pw_context", "pw_core", "pw_stream">>,
     failures |-> Each(0..6)]

Backend == [drm |-> Drm, x11 |-> X11, dummy |-> Dummy,
            nvenc |-> Nvenc, vaapi |-> Vaapi, ffmpeg |-> Ffmpeg, raw |-> RawVideo,
            alsa |-> Alsa, pulse |-> Pulse, pipewire |-> PipeWire, silent |-> Silent]
Backends == DOMAIN Backend
ResourcesOf(b) == All(Backend[b].acquires)

\* Variants of the code stand before the definition they change.  The error
\* branches release the structure only.
LeftButContext(b, f) == First(Backend[b].acquires, f[1]) \ First(Backend[b].acquires, 1)

\* What a failed init leaves behind.
LeftBy(b, f) == First(Backend[b].acquires, f[1]) \ First(Backend[b].acquires, f[2])

\* rootstream_encode_frame_ex and rootstream_encoder_cleanup look at
\* encoder.type only to tell NVENC from the rest: any other context is taken
\* for a vaapi_ctx_t.
RoutedTo(e) == IF e = "nvenc" THEN "nvenc" ELSE "vaapi"

MainOwns == {"drm_fd", "socket", "recording", "enc_buf", "kbd", "mouse", "xdotool"}
AllResources == MainOwns \cup UNION {ResourcesOf(b) : b \in Backends}

----------------------------------------------------------------------------
(* State                                                                    *)

Slots == {"kbd", "mouse"}
SlotValues == {"none", "device", "stale", "opus", "audio", "zero"}
Pictures == {"key", "delta"}
Ended == {"done", "crashed"}
Places == {"display", "socket", "recording", "service", "input", "opus", "buffer",
           "loop", "encode", "record", "sound", "serve", "close", "cleanup"}
          \cup Kinds \cup Ended

Configs == [display: BOOLEAN,  \* a DRM display was found
            audio: BOOLEAN,    \* settings.audio_enabled
            record: BOOLEAN,   \* a recording file was given
            fits: BOOLEAN]     \* a pointer survives being stored in an int

Init ==
    /\ cfg \in Configs
    /\ cfg.audio \/ cfg.fits  \* pointers are stored with audio only
    /\ pc = "display"
    /\ held = {}
    /\ fd = FALSE
    /\ using = [k \in Kinds |-> "none"]
    /\ next = 1
    /\ slot = [d \in Slots |-> "none"]
    /\ handler = "main"
    /\ stop = FALSE
    /\ force = FALSE
    /\ num = 0
    /\ out = "delta"
    /\ file = <<>>
    /\ asked = [count |-> 0, open |-> FALSE]
    /\ lost = FALSE
    /\ foreign = FALSE

startVars == <<cfg, fd, using, next, slot>>
loopVars == <<force, num, out, file, asked, lost>>
signalVars == <<handler, stop>>

----------------------------------------------------------------------------
(* Starting: run_host_mode, then the fallback chains of service_run_host    *)

SelectDisplay ==
    /\ pc = "display"
    /\ \/ /\ fd' = cfg.display
          /\ held' = IF cfg.display THEN held \cup {"drm_fd"} ELSE held
          /\ pc' = "socket"
       \/ /\ cfg.display  \* the index is out of range: every descriptor closed
          /\ pc' = "cleanup"
          /\ UNCHANGED <<fd, held>>
    /\ UNCHANGED <<cfg, using, next, slot, loopVars, signalVars, foreign>>

OpenSocket ==
    /\ pc = "socket"
    /\ \/ /\ held' = held \cup {"socket"}
          /\ pc' = "recording"
       \/ /\ pc' = "cleanup"
          /\ UNCHANGED held
    /\ UNCHANGED <<startVars, loopVars, signalVars, foreign>>

StartRecording ==
    /\ pc = "recording"
    /\ \/ /\ held' = IF cfg.record THEN held \cup {"recording"} ELSE held
          /\ pc' = "service"
       \/ /\ cfg.record  \* no file, or its header cannot be written
          /\ pc' = "cleanup"
          /\ UNCHANGED held
    /\ UNCHANGED <<startVars, loopVars, signalVars, foreign>>

InstallHandlers ==
    /\ pc = "service"
    /\ handler' = "service"
    /\ pc' = "capture"
    /\ UNCHANGED <<held, startVars, loopVars, stop, foreign>>

Candidate(k) == Chain[k][next]

\* Where the run goes on from a chain: with a backend, and with none left.
Onward == [capture |-> "encoder", encoder |-> "input", audio |-> "opus"]
Exhausted == [capture |-> "close", encoder |-> "close", audio |-> "buffer"]

BackendStarts(k) ==
    LET b == Candidate(k) IN
    /\ pc = k
    /\ k = "audio" => cfg.audio
    /\ b = "drm" => fd
    /\ held' = held \cup ResourcesOf(b)
    /\ using' = [using EXCEPT ![k] = b]
    /\ fd' = (fd /\ b \notin {"x11", "dummy"})
    /\ slot' = IF b \in {"alsa", "pulse"} THEN [slot EXCEPT !.mouse = "audio"]
                                          ELSE slot
    /\ next' = 1
    /\ pc' = Onward[k]
    /\ UNCHANGED <<cfg, loopVars, signalVars, foreign>>

NextCandidate(k) ==
    IF next < Len(Chain[k]) THEN next' = next + 1 /\ pc' = pc
                            ELSE next' = 1 /\ pc' = Exhausted[k]

\* x11 forgets the display's descriptor before the allocation that may fail,
\* dummy before its only one.
BackendFails(k) ==
    LET b == Candidate(k) IN
    /\ pc = k
    /\ k = "audio" => cfg.audio
    /\ \E f \in Backend[b].failures : held' = held \cup LeftBy(b, f)
    /\ fd' \in CASE b = "x11" -> {fd, FALSE} [] b = "dummy" -> {FALSE} [] OTHER -> {fd}
    /\ NextCandidate(k)
    /\ UNCHANGED <<cfg, using, slot, loopVars, signalVars, foreign>>

\* is_available_fn says no; VA-API's leaves its display behind when
\* vaInitialize fails.
BackendAbsent(k) ==
    LET b == Candidate(k) IN
    /\ pc = k
    /\ k = "audio" => cfg.audio
    /\ b \notin {"drm", "x11", "dummy", "raw", "silent"}
    /\ \E leak \in {{}, {"va_display"}} :
        /\ leak # {} => b = "vaapi"
        /\ held' = held \cup leak
    /\ NextCandidate(k)
    /\ UNCHANGED <<cfg, fd, using, slot, loopVars, signalVars, foreign>>

\* Variant: the Opus encoder is made in any case.
AudioDisabledLate ==
    /\ pc = "audio"
    /\ ~cfg.audio
    /\ slot' = [slot EXCEPT !.kbd = "opus"]
    /\ pc' = "buffer"
    /\ UNCHANGED <<held, cfg, fd, using, next, loopVars, signalVars, foreign>>

AudioDisabled ==
    /\ pc = "audio"
    /\ ~cfg.audio
    /\ pc' = "buffer"
    /\ UNCHANGED <<held, startVars, loopVars, signalVars, foreign>>

\* uinput, else xdotool, else logging.  When the mouse cannot be created the
\* keyboard is closed and its number stays in the context.
InitInput ==
    /\ pc = "input"
    /\ \/ /\ slot' = [d \in Slots |-> "device"]
          /\ held' = held \cup {"kbd", "mouse"}
       \/ /\ slot' \in {slot, [slot EXCEPT !.kbd = "stale"]}
          /\ \E fallback \in {{"xdotool"}, {}} : held' = held \cup fallback
    /\ pc' = "audio"
    /\ UNCHANGED <<cfg, fd, using, next, loopVars, signalVars, foreign>>

InSlot(a) == a \in {"alsa", "pulse"}

StartOpus ==
    LET a == using.audio IN
    /\ pc = "opus"
    /\ \/ /\ slot' = [slot EXCEPT !.kbd = "opus"]
          /\ held' = held \cup {"opus"}
          /\ pc' = "buffer"
          /\ UNCHANGED using
       \/ /\ cfg.fits \/ ~InSlot(a)
          /\ slot' = IF InSlot(a) THEN [slot EXCEPT !.mouse = "zero"] ELSE slot
          /\ held' = held \ ResourcesOf(a)
          /\ using' = [using EXCEPT !.audio = "none"]
          /\ pc' = "buffer"
       \/ /\ ~cfg.fits /\ InSlot(a)
          /\ pc' = "crashed"
          /\ UNCHANGED <<slot, held, using>>
    /\ UNCHANGED <<cfg, fd, next, loopVars, signalVars, foreign>>

AllocBuffer ==
    /\ pc = "buffer"
    /\ \/ /\ held' = held \cup {"enc_buf"}
          /\ pc' = "loop"
       \/ /\ pc' = "close"
          /\ UNCHANGED held
    /\ UNCHANGED <<startVars, loopVars, signalVars, foreign>>

----------------------------------------------------------------------------
(* The loop of service_run_host                                             *)

\* Variant: the loop is not left on a signal, only between other things.
CaptureAnyway ==
    /\ pc = "loop"
    /\ pc' = "encode"
    /\ UNCHANGED <<held, startVars, loopVars, signalVars, foreign>>

\* A failing capture sleeps and tries again, which changes nothing here.
Capture ==
    /\ pc = "loop"
    /\ ~stop
    /\ pc' = "encode"
    /\ UNCHANGED <<held, startVars, loopVars, signalVars, foreign>>

LeaveLoop ==
    /\ pc = "loop"
    /\ stop
    /\ held' = held \ {"enc_buf"}
    /\ pc' = "close"
    /\ UNCHANGED <<startVars, loopVars, signalVars, foreign>>

Own == RoutedTo(using.encoder) = using.encoder

\* The encoders' own count of pictures.  NVENC may take a forced key picture
\* for the start of a new period.
VaapiCounts == {(num + 1) % Gop}
NvencCounts == {(num + 1) % Gop} \cup IF force THEN {1 % Gop} ELSE {}

EncodeOk ==
    /\ pc = "encode" /\ Own
    /\ out' = IF force \/ num = 0 THEN "key" ELSE "delta"
    /\ num' \in IF using.encoder = "nvenc" THEN NvencCounts ELSE VaapiCounts
    /\ force' = FALSE
    /\ asked' = [asked EXCEPT !.open = asked.open /\ out' # "key"]
    /\ pc' = "record"
    /\ UNCHANGED <<held, startVars, file, lost, signalVars, foreign>>

\* Variant: the force flag is taken before the surface is ready.
EncodeFailsEarlyClears ==
    /\ pc = "encode" /\ Own
    /\ force' = FALSE
    /\ pc' = "loop"
    /\ UNCHANGED <<held, startVars, num, out, file, asked, lost, signalVars, foreign>>

\* Before the force flag is read: surface, mapping, upload.
EncodeFailsEarly ==
    /\ pc = "encode" /\ Own
    /\ pc' = "loop"
    /\ UNCHANGED <<held, startVars, loopVars, signalVars, foreign>>

\* Variant: VA-API counts pictures that failed.
EncodeFailsLateCounts ==
    /\ pc = "encode" /\ Own
    /\ force' = FALSE
    /\ num' \in {num, (num + 1) % Gop}
    /\ lost' = (lost \/ force \/ (num = 0 /\ using.encoder = "nvenc"))
    /\ pc' = "loop"
    /\ UNCHANGED <<held, startVars, out, file, asked, signalVars, foreign>>

\* After it was cleared.  VA-API advances its frame number only on success;
\* NVENC may have coded the picture before its bitstream could not be read.
EncodeFailsLate ==
    /\ pc = "encode" /\ Own
    /\ force' = FALSE
    /\ num' \in IF using.encoder = "nvenc" THEN {num, (num + 1) % Gop} ELSE {num}
    /\ lost' = (lost \/ force \/ (num = 0 /\ using.encoder = "nvenc"))
    /\ pc' = "loop"
    /\ UNCHANGED <<held, startVars, out, file, asked, signalVars, foreign>>

\* VA-API's code on another encoder's context: the process dies, or the
\* library refuses the display it finds there.
EncodeForeign ==
    /\ pc = "encode" /\ ~Own
    /\ foreign' = TRUE
    /\ pc' \in {"loop", "crashed"}
    /\ UNCHANGED <<held, startVars, loopVars, signalVars>>

\* recording_write_frame: header, then data.  The record is whole, absent, or
\* cut short, and later records follow it all the same.
RecordFrame ==
    /\ pc = "record"
    /\ IF "recording" \in held /\ Len(file) < MaxRecords
       THEN \E r \in {out, "gap", "torn"} : file' = Append(file, r)
       ELSE UNCHANGED file
    /\ pc' = "sound"
    /\ UNCHANGED <<held, startVars, force, num, out, asked, lost, signalVars, foreign>>

\* Captures through the mouse slot and encodes through the keyboard slot.
Sound ==
    /\ pc = "sound"
    /\ \/ /\ using.audio # "none" => cfg.fits \/ ~InSlot(using.audio)
          /\ pc' = "serve"
       \/ /\ using.audio # "none" /\ ~cfg.fits
          /\ pc' = "crashed"
    /\ UNCHANGED <<held, startVars, loopVars, signalVars, foreign>>

\* The tail of the loop: the peers' packets.  A keyframe request sets the
\* flag; an input event is written to the descriptor its slot holds.
Serve ==
    /\ pc = "serve"
    /\ \/ UNCHANGED <<force, asked, foreign>>
       \/ /\ asked.count < MaxRequests
          /\ force' = TRUE
          /\ asked' = [count |-> asked.count + 1, open |-> TRUE]
          /\ UNCHANGED foreign
       \/ \E d \in Slots :
          /\ foreign' = (foreign \/ slot[d] \notin {"device", "none"})
          /\ UNCHANGED <<force, asked>>
    /\ pc' = "loop"
    /\ UNCHANGED <<held, startVars, num, out, file, lost, signalVars>>

----------------------------------------------------------------------------
(* The end: recording_cleanup and rootstream_cleanup                        *)

CloseRecording ==
    /\ pc = "close"
    /\ held' = held \ {"recording"}
    /\ pc' = "cleanup"
    /\ UNCHANGED <<startVars, loopVars, signalVars, foreign>>

\* What rootstream_capture_cleanup releases, with the backend or by default DRM.
CaptureReleases ==
    LET b == using.capture IN
    (IF b = "none" THEN {"frame"} ELSE ResourcesOf(b))
    \cup (IF b \in {"none", "drm"} /\ fd THEN {"drm_fd"} ELSE {})

\* Variant: of every context only the structure.
StructureReleases ==
    IF using.encoder = "none" THEN {} ELSE {Backend[using.encoder].acquires[1]}

\* What rootstream_encoder_cleanup releases: all of its own context, of a
\* foreign one only the structure.
EncoderReleases ==
    LET b == using.encoder IN
    IF b = "none" THEN {} ELSE IF Own THEN ResourcesOf(b) ELSE {Backend[b].acquires[1]}

\* What rootstream_input_cleanup releases.
InputReleases == {d \in Slots : slot[d] = "device"}

Cleanup ==
    /\ pc = "cleanup"
    /\ held' = held \ (CaptureReleases \cup EncoderReleases \cup InputReleases
                       \cup {"socket"})
    /\ foreign' = (foreign \/ (using.encoder # "none" /\ ~Own)
                           \/ \E d \in Slots : slot[d] \notin {"device", "none"})
    /\ slot' = [d \in Slots |-> "none"]
    /\ fd' = (fd /\ using.capture \notin {"none", "drm"})
    /\ pc' \in {"done"} \cup (IF using.encoder # "none" /\ ~Own THEN {"crashed"} ELSE {})
    /\ UNCHANGED <<cfg, using, next, loopVars, signalVars>>

\* SIGINT or SIGTERM.  main's handler, there from the start, clears a flag
\* that nothing reads: only the service's handler has an effect.
Signal ==
    /\ pc \notin Ended
    /\ handler = "service"
    /\ ~stop
    /\ stop' = TRUE
    /\ UNCHANGED <<pc, held, startVars, handler, loopVars, foreign>>

Run ==
    \/ SelectDisplay \/ OpenSocket \/ StartRecording \/ InstallHandlers
    \/ \E k \in Kinds : BackendStarts(k) \/ BackendFails(k) \/ BackendAbsent(k)
    \/ AudioDisabled \/ InitInput \/ StartOpus \/ AllocBuffer
    \/ Capture \/ LeaveLoop
    \/ EncodeOk \/ EncodeFailsEarly \/ EncodeFailsLate \/ EncodeForeign
    \/ RecordFrame \/ Sound \/ Serve
    \/ CloseRecording \/ Cleanup

Next == Run \/ Signal

Spec == Init /\ [][Next]_vars

\* One thread runs it and does not stop by itself.
FairSpec == Spec /\ WF_vars(Run)

----------------------------------------------------------------------------
(* Properties                                                               *)

TypeOK ==
    /\ cfg \in Configs
    /\ pc \in Places
    /\ held \subseteq AllResources \cup {"opus"}
    /\ fd \in BOOLEAN
    /\ using \in [Kinds -> Backends \cup {"none"}]
    /\ next \in 1..4
    /\ slot \in [Slots -> SlotValues]
    /\ handler \in {"main", "service"}
    /\ stop \in BOOLEAN
    /\ force \in BOOLEAN
    /\ num \in 0..(Gop - 1)
    /\ out \in Pictures
    /\ file \in Seq(Pictures \cup {"torn", "gap"})
    /\ Len(file) <= MaxRecords
    /\ asked \in [count : 0..MaxRequests, open : BOOLEAN]
    /\ lost \in BOOLEAN
    /\ foreign \in BOOLEAN

\* Going down a fallback chain leaves nothing of the backends that were tried
\* and failed: whatever step failed, its error branch released what the steps
\* before it had acquired.  The one exception is VA-API's display, which a
\* failed vaInitialize leaves behind.
FailedBackendsHoldNothing ==
    \A k \in Kinds : \A i \in 1..Len(Chain[k]) :
        LET b == Chain[k][i] IN
        b # using[k] =>
            held \cap ResourcesOf(b)
                \subseteq {"va_display"} \cup
                          (IF using[k] = "none" THEN {} ELSE ResourcesOf(using[k]))

\* What the shared slots, the forgotten display descriptor and the backends
\* without a cleanup cost: resources the process still holds when it ends.
Leaks ==
    {"va_display", "xdotool"}
    \cup (IF handler = "service" /\ using.capture # "drm" THEN {"drm_fd"} ELSE {})
    \cup (IF cfg.audio THEN {"kbd", "mouse", "opus"} ELSE {})
    \cup (IF using.audio = "none" THEN {} ELSE ResourcesOf(using.audio))

\* However far the start came and wherever the loop was left, a host that used
\* only its own contexts ends with everything released but those leaks.
CleanupReleases ==
    pc = "done" /\ (using.encoder = "none" \/ Own) => held \subseteq Leaks

\* With audio off, both virtual devices created and a hardware encoder found,
\* the host never uses a context or a descriptor that is not its own: what it
\* injects goes to the devices, what it encodes with and closes is its own.
ForeignOnlyByFallback ==
    [][foreign' /\ ~foreign => \/ ~Own
                               \/ cfg.audio
                               \/ ~({"kbd", "mouse"} \subseteq held)]_vars

\* A recording can be decoded from its start: unless the disk refused the
\* first record or a failed encode took a key picture, it begins with one.
RecordingStartsWithKey ==
    Len(file) > 0 /\ file[1] \in Pictures /\ ~lost => file[1] = "key"

\* A keyframe request is not forgotten: until a key picture was made the flag
\* stays set, unless an encode failed after it had taken the flag.
RequestIsKept == asked.open => force \/ lost

\* Once service_run_host has its handler, a signal ends the host, cleaned up,
\* whatever backends it runs on; one that came before is never seen.
SignalStops == stop ~> pc \in Ended
=============================================================================
