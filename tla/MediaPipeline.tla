--------------------------- MODULE MediaPipeline ---------------------------
(***************************************************************************)
(* The packet path of one recording session: VideoThread and one           *)
(* AudioThread per track produce encoded packets, hold them in the pre-mux *)
(* buffers until every track's codec private data is known, then feed one  *)
(* bounded queue that MuxThread writes into one Matroska file per segment. *)
(*                                                                         *)
(* Shared state and its locks are SessionState (session_internal.h); the   *)
(* threads are video_thread.cpp, audio_thread.cpp and mux_thread.cpp.      *)
(* Payload bytes, wall-clock time and pausing (which only produces fewer   *)
(* packets) are abstracted: a packet is its stream, its position in the    *)
(* stream, its PTS and its keyframe flag, and every timed wait may run out *)
(* at any moment at which the code would still be waiting.                 *)
(***************************************************************************)
EXTENDS Integers, Sequences, FiniteSets, AvEpochAlign

CONSTANTS
  Tracks,             \* audio tracks of the session
  MaxVideo,           \* bound: frames submitted to the encoder
  MaxAudio,           \* bound: packets one audio track encodes
  MaxRequests,        \* bound: RequestSplit calls of the user
  FrameNs,            \* frame interval; also the audio packet interval
  EncoderDepth,       \* frames the encoder may hold (1 = synchronous mode)
  VideoPremuxLimit,   \* kVideoPremuxLimit
  AudioPremuxLimit,   \* kAudioPremuxLimit
  QueueLimit,         \* mux_queue_packet_limit
  SizeSplitPackets,   \* split.size_bytes in packets, 0 = disabled
  AutoSplitNs,        \* split.duration_ms in ns, 0 = disabled
  VideoEpoch,         \* tick at which the first frame is observed
  SessionStart,       \* session_start_qpc_100ns
  MaxShiftNs,         \* kMaxAudioEpochShiftNs
  AudioEpochs,        \* [Tracks -> what a packet measures]: ticks, 0 = none
  Faults              \* which environment faults may happen

FaultKinds == {"prepare", "encode", "capture", "header", "open", "write",
               "convert", "finalize", "source_lost"}

ASSUME BoundsAssumption ==
  /\ MaxVideo \in Nat /\ MaxAudio \in Nat /\ MaxRequests \in Nat
  /\ FrameNs \in Nat \ {0} /\ EncoderDepth \in Nat \ {0}
  /\ VideoPremuxLimit \in Nat \ {0} /\ AudioPremuxLimit \in Nat \ {0}
  /\ QueueLimit \in Nat \ {0}
  /\ SizeSplitPackets \in Nat /\ AutoSplitNs \in Nat
ASSUME EpochAssumption ==
  /\ VideoEpoch \in Nat \ {0} /\ SessionStart \in Nat /\ MaxShiftNs \in Nat
  /\ AudioEpochs \in [Tracks -> SUBSET Nat]
ASSUME TracksAssumption == IsFiniteSet(Tracks) /\ "video" \notin Tracks
ASSUME FaultsAssumption == Faults \subseteq FaultKinds

VARIABLES
  \* --- SessionState ---
  stop_requested, failure, stop_notify,
  video_ready, audio_track_ready,
  video_premux, audio_premux, mux_queue,
  split_seq,            \* the sequence half of split_request
  size_split_armed, video_epoch, audio_epoch,
  \* --- VideoThread ---
  vpc, frame_idx, in_flight, vheld,
  split_armed, split_forced_pts, split_last_seq,
  current_segment_index, next_auto_threshold,
  \* --- AudioThread, one per track ---
  apc, audio_idx, aflush,
  \* --- MuxThread ---
  mpc, seg, audio_shift, audio_shift_resolved, segment_pending_audio,
  write_error, video_eos, audio_eos, trimmed,
  \* --- what reached the disk, and history for the properties ---
  written, reports, requests, vsent, asent, untimed

session  == <<stop_requested, failure, stop_notify>>
headers  == <<video_ready, audio_track_ready>>
premux   == <<video_premux, audio_premux>>
epochs   == <<video_epoch, audio_epoch>>
splitReq == <<split_seq, size_split_armed, requests>>
splitArm == <<split_armed, split_forced_pts, split_last_seq,
              current_segment_index, next_auto_threshold>>
video    == <<vpc, frame_idx, in_flight, vheld>>
audio    == <<apc, audio_idx, aflush, untimed>>
shifts   == <<audio_shift, audio_shift_resolved>>
segment  == <<seg, shifts, segment_pending_audio, write_error, trimmed>>
eos      == <<video_eos, audio_eos>>
output   == <<written, reports>>
sent     == <<vsent, asent>>

vars == <<session, headers, premux, mux_queue, splitReq, epochs, video,
          splitArm, audio, mpc, segment, eos, output, sent>>

Phases == {"Prepare", "VideoCapture", "VideoEncode", "AudioCapture",
           "AudioEncode", "Mux"}

VideoPacket == [kind : {"video"}, id : Nat, pts : Nat, key : BOOLEAN]
AudioPacket == [kind : {"audio"}, track : Tracks, id : Nat, pts : Nat]
Sentinel    == [kind : {"split"}, index : Nat]
                 \cup [kind : {"video_eos"}]
                 \cup [kind : {"audio_eos"}, track : Tracks]
MuxItem     == VideoPacket \cup AudioPacket \cup Sentinel

-----------------------------------------------------------------------------
(* SessionState helpers *)

\* Mutant: the video header is not waited for.
BothReadyAudioOnly == \A t \in Tracks : audio_track_ready[t]

BothReady == video_ready /\ \A t \in Tracks : audio_track_ready[t]

\* Mutant: the bound admits one packet too many.
FullOffByOne == Len(mux_queue) > QueueLimit

Full == Len(mux_queue) >= QueueLimit

HasFailure == failure # "None"

\* RequestCleanStop: the flag first, then notify_all on the condition
\* variables, without holding any of their mutexes.
RequestCleanStop ==
  /\ stop_requested' = TRUE
  /\ stop_notify' = TRUE

\* RecordFailure: the first error wins, every error stops the session.
RecordFailure(phase) ==
  /\ failure' = IF failure = "None" THEN phase ELSE failure
  /\ RequestCleanStop

\* premux_mutex is free unless MuxThread is between evaluating its wait
\* predicate and blocking, or draining the pre-mux buffers.
PremuxUnlocked == mpc \notin {"blocking", "premux"}

\* The notify_all half of RequestCleanStop: it reaches MuxThread only if that
\* thread is already blocked in premux_cv.wait.
NotifyWaiters ==
  /\ stop_notify
  /\ stop_notify' = FALSE
  /\ mpc' = IF mpc = "blocked" THEN "check" ELSE mpc
  /\ UNCHANGED <<stop_requested, failure, headers, premux, mux_queue, splitReq,
                 epochs, video, splitArm, audio, segment, eos, output, sent>>

-----------------------------------------------------------------------------
(* The user of the session *)

\* RecorderSession::Stop reaching the running session (the first one: a
\* repeated stop only repeats the notification).
CallerStop ==
  /\ ~stop_requested
  /\ RequestCleanStop
  /\ UNCHANGED <<failure, headers, premux, mux_queue, splitReq, epochs, video,
                 splitArm, audio, mpc, segment, eos, output, sent>>

\* RecorderSession::RequestSplit: advance the request sequence.
RequestSplit ==
  /\ requests < MaxRequests
  /\ requests' = requests + 1
  /\ split_seq' = split_seq + 1
  /\ UNCHANGED <<session, headers, premux, mux_queue, size_split_armed, epochs,
                 video, splitArm, audio, mpc, segment, eos, output, sent>>

-----------------------------------------------------------------------------
(* VideoThread *)

\* Everything VideoThread leaves alone in every step.
VideoFrame ==
  /\ UNCHANGED <<audio_track_ready, audio_premux, splitReq, audio_epoch, audio,
                 segment, eos, output, asent>>

\* Failures before the encode loop return without an end-of-stream sentinel.
VideoPrepare ==
  /\ vpc = "prepare"
  /\ \/ vpc' = "run" /\ UNCHANGED session
     \/ /\ "prepare" \in Faults
        /\ vpc' = "done"
        /\ \E phase \in {"Prepare", "VideoCapture", "VideoEncode"} :
             RecordFailure(phase)
  /\ UNCHANGED <<video_ready, video_premux, mux_queue, video_epoch, frame_idx,
                 in_flight, vheld, splitArm, mpc, vsent>>
  /\ VideoFrame

\* In the encode loop and not blocked on the queue bound.
VideoInLoop == vpc = "run" /\ vheld = <<>>

\* The first captured frame publishes the video epoch.  stop_requested is only
\* polled at the top of an iteration, so what the iteration still does may
\* follow a stop.
VideoFirstFrame ==
  /\ VideoInLoop /\ video_epoch = 0
  /\ video_epoch' = VideoEpoch
  /\ UNCHANGED <<session, video_ready, video_premux, mux_queue, video, splitArm,
                 mpc, vsent>>
  /\ VideoFrame

\* maybeArmSplit(pts): one boundary may be pending; a request or the duration
\* threshold arms it and the frame submitted now carries the forced IDR.
SplitWanted(pts) ==
  \/ split_seq # split_last_seq
  \/ AutoSplitNs > 0 /\ pts >= next_auto_threshold

MaybeArmSplit(pts) ==
  IF ~split_armed /\ SplitWanted(pts)
  THEN /\ split_last_seq' = split_seq
       /\ split_armed' = TRUE
       /\ split_forced_pts' = pts
       /\ UNCHANGED <<current_segment_index, next_auto_threshold>>
  ELSE UNCHANGED splitArm

\* One tick of the encode loop: arm, then submit.  Besides the forced IDR the
\* GOP cadence makes a keyframe of the first frame and of any later one.
VideoSubmit ==
  LET pts == frame_idx * FrameNs IN
  /\ VideoInLoop /\ video_epoch # 0
  /\ frame_idx < MaxVideo /\ Len(in_flight) < EncoderDepth
  /\ MaybeArmSplit(pts)
  /\ \E key \in BOOLEAN :
       /\ (frame_idx = 0 \/ (~split_armed /\ SplitWanted(pts))) => key
       /\ in_flight' = Append(in_flight,
            [kind |-> "video", id |-> frame_idx, pts |-> pts, key |-> key])
  /\ frame_idx' = frame_idx + 1
  /\ UNCHANGED <<session, video_ready, video_premux, mux_queue, video_epoch,
                 vpc, vheld, mpc, vsent>>
  /\ VideoFrame

\* EncodeFrame, ReapCompleted or the conversion fails: leave the encode loop.
VideoEncodeFail ==
  /\ VideoInLoop /\ "encode" \in Faults
  /\ RecordFailure("VideoEncode")
  /\ vpc' = "flush"
  /\ UNCHANGED <<video_ready, video_premux, mux_queue, video_epoch, frame_idx,
                 in_flight, vheld, splitArm, mpc, vsent>>
  /\ VideoFrame

\* Acquiring or compositing a frame fails: the failure's stop flag ends the
\* loop at its next test, so the iteration may still submit and route.  After
\* another failure it would only repeat the notification.
VideoCaptureFail ==
  /\ VideoInLoop /\ ~HasFailure /\ "capture" \in Faults
  /\ RecordFailure("VideoCapture")
  /\ UNCHANGED <<video_ready, video_premux, mux_queue, video_epoch, video,
                 splitArm, mpc, vsent>>
  /\ VideoFrame

\* The capture source is gone: a clean stop, not a failure.
VideoSourceLost ==
  /\ VideoInLoop /\ ~stop_requested /\ "source_lost" \in Faults
  /\ RequestCleanStop
  /\ UNCHANGED <<failure, video_ready, video_premux, mux_queue, video_epoch,
                 video, splitArm, mpc, vsent>>
  /\ VideoFrame

VideoLeaveLoop ==
  /\ VideoInLoop /\ stop_requested
  /\ vpc' = "flush"
  /\ UNCHANGED <<session, video_ready, video_premux, mux_queue, video_epoch,
                 frame_idx, in_flight, vheld, splitArm, mpc, vsent>>
  /\ VideoFrame

\* captureCodecPrivateFromKeyframe on the packet about to be routed; its
\* notify_all is under premux_mutex, so a blocked MuxThread always sees it.
HeaderAfter(pkt) ==
  IF pkt.key /\ ~video_ready
  THEN {TRUE} \cup (IF "header" \in Faults THEN {FALSE} ELSE {})
  ELSE {video_ready}

WakeMux(ready) ==
  mpc' = IF mpc = "blocked" /\ ready # video_ready THEN "check" ELSE mpc

\* reapAndRoute takes a batch off the encoder; when routing one packet fails,
\* the packets reaped together with it are gone too.
Suffixes(q) == {SubSeq(q, n, Len(q)) : n \in 1 .. Len(q) + 1}

\* The oldest finished packet is routed: into the pre-mux buffer while some
\* header is missing, else towards the queue (vheld waits for room there).
\* `overflow` says what a full pre-mux buffer does.
VideoRouteStep(overflow) ==
  /\ PremuxUnlocked /\ in_flight # <<>> /\ vheld = <<>>
  /\ \E ready \in HeaderAfter(Head(in_flight)) :
       LET both == ready /\ \A t \in Tracks : audio_track_ready[t] IN
       /\ video_ready' = ready
       /\ WakeMux(ready)
       /\ \/ /\ both
             /\ vheld' = <<Head(in_flight)>>
             /\ in_flight' = Tail(in_flight)
             /\ UNCHANGED <<session, vpc, video_premux, vsent>>
          \/ /\ ~both /\ Len(video_premux) < VideoPremuxLimit
             /\ video_premux' = Append(video_premux, Head(in_flight))
             /\ vsent' = Append(vsent, Head(in_flight).id)
             /\ in_flight' = Tail(in_flight)
             /\ UNCHANGED <<session, vpc, vheld>>
          \/ /\ ~both /\ Len(video_premux) >= VideoPremuxLimit
             /\ overflow
             /\ UNCHANGED <<video_premux, vsent, vheld>>
  /\ UNCHANGED <<mux_queue, video_epoch, frame_idx, splitArm>>
  /\ VideoFrame

\* routePacket in the live loop: overflow fails the session.
VideoRoute ==
  /\ vpc = "run"
  /\ VideoRouteStep(/\ RecordFailure("Mux") /\ vpc' = "flush"
                    /\ in_flight' \in Suffixes(Tail(in_flight)))

\* The flush drain: overflow skips the packet.
VideoFlushRoute ==
  /\ vpc = "flush"
  /\ VideoRouteStep(in_flight' = Tail(in_flight) /\ UNCHANGED <<session, vpc>>)

\* Encoder::Flush was cut short: the frames it still held are lost.
VideoFlushCut ==
  /\ vpc = "flush" /\ "encode" \in Faults
  /\ in_flight # <<>> /\ vheld = <<>>
  /\ in_flight' = <<>>
  /\ UNCHANGED <<session, video_ready, video_premux, mux_queue, video_epoch,
                 vpc, frame_idx, vheld, splitArm, mpc, vsent>>
  /\ VideoFrame

\* Mutant: the boundary does not wait for the forced keyframe.
SentinelAnyPacket(pkt) == split_armed /\ pkt.pts >= split_forced_pts

\* ShouldEmitSplitSentinel
ShouldEmitSplitSentinel(pkt) ==
  split_armed /\ pkt.key /\ pkt.pts >= split_forced_pts

\* Room in the queue: push the packet, in the live loop right behind the
\* sentinel of the boundary it opens.  Both pushes are under mux_mutex.
VideoPush ==
  /\ vpc \in {"run", "flush"} /\ vheld # <<>> /\ ~Full
  /\ IF vpc = "run" /\ ShouldEmitSplitSentinel(vheld[1])
     THEN /\ current_segment_index' = current_segment_index + 1
          /\ next_auto_threshold' = IF AutoSplitNs > 0
                                    THEN vheld[1].pts + AutoSplitNs
                                    ELSE next_auto_threshold
          /\ split_armed' = FALSE
          /\ mux_queue' = mux_queue \o
               <<[kind |-> "split", index |-> current_segment_index + 1], vheld[1]>>
          /\ UNCHANGED <<split_forced_pts, split_last_seq>>
     ELSE /\ mux_queue' = Append(mux_queue, vheld[1])
          /\ UNCHANGED splitArm
  /\ vsent' = Append(vsent, vheld[1].id)
  /\ vheld' = <<>>
  /\ UNCHANGED <<session, video_ready, video_premux, video_epoch, vpc, frame_idx,
                 in_flight, mpc>>
  /\ VideoFrame

\* Mutant: a full queue costs the packet in hand and the encode loop goes on.
VideoNoRoomGoesOn ==
  /\ vpc \in {"run", "flush"} /\ vheld # <<>> /\ Full
  /\ vheld' = <<>>
  /\ UNCHANGED <<session, video_ready, video_premux, mux_queue, video_epoch, vpc,
                 frame_idx, in_flight, splitArm, mpc, vsent>>
  /\ VideoFrame

\* No room: Failed (someone recorded a cause), Stopping or TimedOut.  The
\* packet is dropped and the live loop, respectively the drain, is left.
VideoNoRoom ==
  /\ vpc \in {"run", "flush"} /\ vheld # <<>> /\ Full
  /\ IF HasFailure \/ stop_requested THEN UNCHANGED session
                                     ELSE RecordFailure("Mux")
  /\ vheld' = <<>>
  /\ IF vpc = "run" THEN vpc' = "flush" /\ in_flight' \in Suffixes(in_flight)
                    ELSE vpc' = "eos" /\ in_flight' = <<>>
  /\ UNCHANGED <<video_ready, video_premux, mux_queue, video_epoch, frame_idx,
                 splitArm, mpc, vsent>>
  /\ VideoFrame

\* Mutant: the thread returns from the flush without its sentinel.
VideoFlushedNoEos ==
  /\ vpc = "flush" /\ in_flight = <<>> /\ vheld = <<>>
  /\ vpc' = "done"
  /\ UNCHANGED <<session, video_ready, video_premux, mux_queue, video_epoch,
                 frame_idx, in_flight, vheld, splitArm, mpc, vsent>>
  /\ VideoFrame

VideoFlushed ==
  /\ vpc = "flush" /\ in_flight = <<>> /\ vheld = <<>>
  /\ vpc' = "eos"
  /\ UNCHANGED <<session, video_ready, video_premux, mux_queue, video_epoch,
                 frame_idx, in_flight, vheld, splitArm, mpc, vsent>>
  /\ VideoFrame

\* The end-of-stream sentinel bypasses the queue bound.
VideoEos ==
  /\ vpc = "eos"
  /\ vpc' = "done"
  /\ mux_queue' = Append(mux_queue, [kind |-> "video_eos"])
  /\ UNCHANGED <<session, video_ready, video_premux, video_epoch, frame_idx,
                 in_flight, vheld, splitArm, mpc, vsent>>
  /\ VideoFrame

VideoNext ==
  \/ VideoPrepare \/ VideoFirstFrame \/ VideoSubmit \/ VideoEncodeFail
  \/ VideoCaptureFail \/ VideoSourceLost \/ VideoLeaveLoop \/ VideoRoute \/ VideoFlushRoute
  \/ VideoFlushCut \/ VideoPush \/ VideoNoRoom \/ VideoFlushed \/ VideoEos

-----------------------------------------------------------------------------
(* AudioThread *)

AudioFrame ==
  /\ UNCHANGED <<video_ready, video_premux, splitReq, video_epoch, video,
                 splitArm, segment, eos, output, vsent>>

NextAudioPacket(t) ==
  [kind |-> "audio", track |-> t, id |-> audio_idx[t],
   pts |-> audio_idx[t] * FrameNs]

\* Source and encoder initialisation, then the track's codec private data is
\* published under premux_mutex.  A failure returns without a sentinel.
AudioPrepare(t) ==
  /\ apc[t] = "prepare"
  /\ \/ /\ PremuxUnlocked
        /\ audio_track_ready' = [audio_track_ready EXCEPT ![t] = TRUE]
        /\ apc' = [apc EXCEPT ![t] = "run"]
        /\ mpc' = IF mpc = "blocked" THEN "check" ELSE mpc
        /\ UNCHANGED session
     \/ /\ "prepare" \in Faults
        /\ \E phase \in {"Prepare", "AudioCapture", "AudioEncode"} :
             RecordFailure(phase)
        /\ apc' = [apc EXCEPT ![t] = "done"]
        /\ UNCHANGED <<audio_track_ready, mpc>>
  /\ UNCHANGED <<audio_premux, mux_queue, audio_epoch, audio_idx, aflush,
                 untimed, asent>>
  /\ AudioFrame

\* routeAudioPackets on the next packet, up to the wait for queue room.
\* A pre-mux overflow fails the session and the rest is left to the flush.
AudioRouteStep(t) ==
  /\ PremuxUnlocked /\ audio_idx[t] < MaxAudio
  /\ \/ /\ BothReady
        /\ apc' = [apc EXCEPT ![t] = "wait"]
        /\ UNCHANGED <<session, audio_premux, audio_idx, asent>>
     \/ /\ ~BothReady /\ Len(audio_premux) < AudioPremuxLimit
        /\ audio_premux' = Append(audio_premux, NextAudioPacket(t))
        /\ asent' = [asent EXCEPT ![t] = Append(@, audio_idx[t])]
        /\ audio_idx' = [audio_idx EXCEPT ![t] = @ + 1]
        /\ UNCHANGED <<session, apc>>
     \/ /\ ~BothReady /\ Len(audio_premux) >= AudioPremuxLimit
        /\ RecordFailure("Mux")
        /\ audio_idx' = [audio_idx EXCEPT ![t] = @ + 1]
        /\ apc' = [apc EXCEPT ![t] = "flush"]
        /\ UNCHANGED <<audio_premux, asent>>
  /\ UNCHANGED <<audio_track_ready, mux_queue, mpc>>
  /\ AudioFrame

\* Mutant: the epoch is published with the second packet.
AudioCaptureLateEpoch(t) ==
  /\ apc[t] = "run"
  /\ \E e \in AudioEpochs[t] :
       /\ audio_epoch' = [audio_epoch EXCEPT ![t] =
                            IF @ = 0 /\ audio_idx[t] > 0 THEN e ELSE @]
       /\ untimed' = [untimed EXCEPT ![t] = @ \/ (audio_epoch[t] = 0 /\ e = 0)]
  /\ AudioRouteStep(t)
  /\ UNCHANGED aflush

\* A captured (or silence-filled) packet.  publishAudioEpoch runs before the
\* packet is encoded and routed; the first measurement stands.  A captured
\* packet may carry no timestamp: it is routed and publishes nothing
\* (untimed), and a later one still may.
AudioCapture(t) ==
  /\ apc[t] = "run"
  /\ \E e \in AudioEpochs[t] :
       /\ audio_epoch' = [audio_epoch EXCEPT ![t] = IF @ = 0 THEN e ELSE @]
       /\ untimed' = [untimed EXCEPT ![t] = @ \/ (audio_epoch[t] = 0 /\ e = 0)]
  /\ AudioRouteStep(t)
  /\ UNCHANGED aflush

\* The source handed over a packet without bytes.
AudioCaptureFail(t) ==
  /\ apc[t] = "run" /\ "capture" \in Faults
  /\ RecordFailure("AudioCapture")
  /\ apc' = [apc EXCEPT ![t] = "flush"]
  /\ UNCHANGED <<audio_track_ready, audio_premux, mux_queue, audio_epoch,
                 audio_idx, aflush, untimed, mpc, asent>>
  /\ AudioFrame

AudioLeaveLoop(t) ==
  /\ apc[t] = "run" /\ stop_requested
  /\ apc' = [apc EXCEPT ![t] = "flush"]
  /\ UNCHANGED <<session, audio_track_ready, audio_premux, mux_queue,
                 audio_epoch, audio_idx, aflush, untimed, mpc, asent>>
  /\ AudioFrame

\* What the mixer, the resampler and the encoder still held, routed by the
\* same routeAudioPackets.
AudioFlushRoute(t) ==
  /\ apc[t] = "flush"
  /\ aflush' = [aflush EXCEPT ![t] = TRUE]
  /\ untimed' = [untimed EXCEPT ![t] = @ \/ audio_epoch[t] = 0]
  /\ AudioRouteStep(t)
  /\ UNCHANGED audio_epoch

AudioPush(t) ==
  /\ apc[t] = "wait" /\ ~Full
  /\ mux_queue' = Append(mux_queue, NextAudioPacket(t))
  /\ asent' = [asent EXCEPT ![t] = Append(@, audio_idx[t])]
  /\ audio_idx' = [audio_idx EXCEPT ![t] = @ + 1]
  /\ apc' = [apc EXCEPT ![t] = IF aflush[t] THEN "flush" ELSE "run"]
  /\ UNCHANGED <<session, audio_track_ready, audio_premux, audio_epoch, aflush,
                 untimed, mpc>>
  /\ AudioFrame

AudioNoRoom(t) ==
  /\ apc[t] = "wait" /\ Full
  /\ IF HasFailure \/ stop_requested THEN UNCHANGED session
                                     ELSE RecordFailure("Mux")
  /\ audio_idx' = [audio_idx EXCEPT ![t] = @ + 1]
  /\ apc' = [apc EXCEPT ![t] = "flush"]
  /\ UNCHANGED <<audio_track_ready, audio_premux, mux_queue, audio_epoch, aflush,
                 untimed, mpc, asent>>
  /\ AudioFrame

AudioEos(t) ==
  /\ apc[t] = "flush"
  /\ apc' = [apc EXCEPT ![t] = "done"]
  /\ mux_queue' = Append(mux_queue, [kind |-> "audio_eos", track |-> t])
  /\ UNCHANGED <<session, audio_track_ready, audio_premux, audio_epoch,
                 audio_idx, aflush, untimed, mpc, asent>>
  /\ AudioFrame

AudioNext(t) ==
  \/ AudioPrepare(t) \/ AudioCapture(t) \/ AudioCaptureFail(t)
  \/ AudioLeaveLoop(t) \/ AudioFlushRoute(t) \/ AudioPush(t)
  \/ AudioNoRoom(t) \/ AudioEos(t)

-----------------------------------------------------------------------------
(* MuxThread.  Its session-level hold pending_audio (audio that arrives while  *)
(* resolve_epoch still reads 0) has no counterpart: the headers MuxThread      *)
(* waits for come from a video packet, and VideoThread publishes the epoch     *)
(* before its first packet, so resolve_epoch succeeds on MuxThread's first     *)
(* packet (VideoEpochBeforeMux).                                               *)

MuxFrame ==
  /\ UNCHANGED <<headers, epochs, requests, video, splitArm, audio, sent>>

\* Step 1: premux_cv.wait(lk, headers ready \/ stop).  "blocking" is the
\* moment between a false predicate and the block itself, "blocked" the wait.
MuxCheckHeaders ==
  /\ mpc = "check"
  /\ mpc' = CASE BothReady                    -> "open"
              [] ~BothReady /\ stop_requested -> "done"
              [] OTHER                        -> "blocking"
  /\ UNCHANGED <<session, premux, mux_queue, split_seq, size_split_armed,
                 segment, eos, output>>
  /\ MuxFrame

MuxBlock ==
  /\ mpc = "blocking"
  /\ mpc' = "blocked"
  /\ UNCHANGED <<session, premux, mux_queue, split_seq, size_split_armed,
                 segment, eos, output>>
  /\ MuxFrame

\* Mutants: the index is advanced twice; the first file is reopened.
OpenedSkipsIndex(index) ==
  [writer |-> "open", index |-> index * 2, epoch_set |-> FALSE, epoch |-> 0]
OpenedSameFile(index) ==
  [writer |-> "open", index |-> 0, epoch_set |-> FALSE, epoch |-> 0]

\* open_segment: a fresh SegmentState with a writer on a path no file has.
Opened(index) ==
  [writer |-> "open", index |-> index, epoch_set |-> FALSE, epoch |-> 0]

\* "path": no free path could be derived, seg is left as it was; "open": the
\* writer could not open the file.
OpenOutcomes == {"ok"} \cup (IF "open" \in Faults THEN {"path", "open"} ELSE {})

\* Building the container headers and opening segment 0; a failure returns.
MuxOpenFirst ==
  /\ mpc = "open"
  /\ \/ /\ seg' = Opened(0) /\ mpc' = "premux"
        /\ UNCHANGED session
     \/ /\ OpenOutcomes # {"ok"}
        /\ RecordFailure("Mux") /\ mpc' = "done"
        /\ UNCHANGED seg
  /\ UNCHANGED <<premux, mux_queue, split_seq, size_split_armed, shifts,
                 segment_pending_audio, write_error, trimmed, eos, output>>
  /\ MuxFrame

\* seg.writer->Push: written, or the disk fails and so does every later call.
WriterPush(track, id, local, key) ==
  \/ /\ written' = Append(written, [seg |-> seg.index, track |-> track,
                                    id |-> id, pts |-> local, key |-> key])
     /\ UNCHANGED write_error
  \/ /\ "write" \in Faults
     /\ write_error' = TRUE
     /\ UNCHANGED written

\* audio_shift_for: resolved on the track's first packet, then kept.
MeasuredShift(t) ==
  AudioTimelineShiftNs(
    IF IsPlausibleAudioEpoch(audio_epoch[t], video_epoch, MaxShiftNs)
    THEN audio_epoch[t] ELSE SessionStart, video_epoch, MaxShiftNs)

AudioShiftFor(t) ==
  IF audio_shift_resolved[t] THEN audio_shift[t] ELSE MeasuredShift(t)

\* push_audio; `held` is what segment_pending_audio holds besides this packet.
\* A deferred packet keeps the shifted PTS it was given here.
PushAudio(pkt, held) ==
  LET shift == AudioShiftFor(pkt.track)
      pts   == pkt.pts + shift
      place == IF PredatesVideo(pkt.pts, shift) THEN "Predates"
               ELSE PlaceOnSegmentTimeline(pts, seg.epoch_set, seg.epoch)
      live  == ~write_error /\ seg.writer # "none"
  IN /\ UNCHANGED seg
     /\ IF live
        THEN /\ audio_shift' = [audio_shift EXCEPT ![pkt.track] = shift]
             /\ audio_shift_resolved' =
                  [audio_shift_resolved EXCEPT ![pkt.track] = TRUE]
        ELSE UNCHANGED shifts
     /\ segment_pending_audio' =
          IF live /\ place = "Defer" THEN Append(held, [pkt EXCEPT !.pts = pts])
                                     ELSE held
     /\ trimmed' = IF live /\ place = "Trim" THEN trimmed + 1 ELSE trimmed
     /\ IF live /\ place = "Write"
        THEN WriterPush(pkt.track, pkt.id, pts - seg.epoch, TRUE)
        ELSE UNCHANGED <<written, write_error>>

\* push_video.  The first video packet of a segment sets its epoch.
PushVideo(pkt) ==
  LET epoch == IF seg.epoch_set THEN seg.epoch ELSE pkt.pts
      place == PlaceOnSegmentTimeline(pkt.pts, TRUE, epoch)
  IN IF write_error \/ seg.writer = "none"
     THEN UNCHANGED <<session, seg, write_error, written>>
     ELSE /\ seg' = [seg EXCEPT !.epoch_set = TRUE, !.epoch = epoch]
          /\ \/ /\ place # "Write" \/ "convert" \in Faults
                /\ write_error' = TRUE
                /\ RecordFailure("Mux")
                /\ UNCHANGED written
             \/ /\ place = "Write"
                /\ WriterPush("video", pkt.id, pkt.pts - epoch, pkt.key)
                /\ UNCHANGED session

\* drain_segment_pending_audio runs after every push_video and before a
\* segment is finalized: nothing else happens until the hold is empty.
MuxBusy ==
  seg.epoch_set /\ segment_pending_audio # <<>> /\ ~write_error

\* Mutant: the hold is drained from its end.
MuxDrainHeldLast ==
  LET n == Len(segment_pending_audio) IN
  /\ mpc \in {"premux", "pop", "final"} /\ MuxBusy
  /\ PushAudio(segment_pending_audio[n], SubSeq(segment_pending_audio, 1, n - 1))
  /\ UNCHANGED <<session, premux, mux_queue, split_seq, size_split_armed, mpc,
                 eos, reports>>
  /\ MuxFrame

MuxDrainHeld ==
  /\ mpc \in {"premux", "pop", "final"} /\ MuxBusy
  /\ PushAudio(Head(segment_pending_audio), Tail(segment_pending_audio))
  /\ UNCHANGED <<session, premux, mux_queue, split_seq, size_split_armed, mpc,
                 eos, reports>>
  /\ MuxFrame

\* handle_payload for media packets, pre-mux buffers and queue alike.
HandleVideo(pkt) ==
  /\ PushVideo(pkt)
  /\ UNCHANGED <<shifts, segment_pending_audio, trimmed, reports>>

HandleAudio(pkt) ==
  /\ PushAudio(pkt, segment_pending_audio)
  /\ UNCHANGED <<session, reports>>

\* 2a. The pre-mux buffers, video first, all under premux_mutex.
MuxPremuxVideo ==
  /\ mpc = "premux" /\ ~MuxBusy /\ video_premux # <<>>
  /\ video_premux' = Tail(video_premux)
  /\ HandleVideo(Head(video_premux))
  /\ UNCHANGED <<audio_premux, mux_queue, split_seq, size_split_armed, mpc, eos>>
  /\ MuxFrame

MuxPremuxAudio ==
  /\ mpc = "premux" /\ ~MuxBusy /\ video_premux = <<>> /\ audio_premux # <<>>
  /\ audio_premux' = Tail(audio_premux)
  /\ HandleAudio(Head(audio_premux))
  /\ UNCHANGED <<video_premux, mux_queue, split_seq, size_split_armed, mpc, eos>>
  /\ MuxFrame

MuxPremuxDone ==
  /\ mpc = "premux" /\ ~MuxBusy /\ video_premux = <<>> /\ audio_premux = <<>>
  /\ mpc' = "top"
  /\ UNCHANGED <<session, premux, mux_queue, split_seq, size_split_armed,
                 segment, eos, output>>
  /\ MuxFrame

\* 2b. The loop condition and the failure checks around the 5 ms wait.
\* Mutants: a stop ends the loop; the audio sentinels are not waited for.
AllEosOrStop == stop_requested \/ (video_eos /\ \A t \in Tracks : audio_eos[t])
AllEosVideoOnly == video_eos

AllEos == video_eos /\ \A t \in Tracks : audio_eos[t]

MuxTop ==
  /\ mpc = "top"
  /\ mpc' = IF AllEos \/ HasFailure \/ write_error THEN "final" ELSE "pop"
  /\ UNCHANGED <<session, premux, mux_queue, split_seq, size_split_armed,
                 segment, eos, output>>
  /\ MuxFrame

\* One item is popped under mux_mutex and handled; the inner loop of 2b and
\* the final drain of 2c are the same.
MuxPop(kind) ==
  /\ mpc \in {"pop", "final"} /\ ~MuxBusy
  /\ mux_queue # <<>> /\ Head(mux_queue).kind = kind
  /\ mux_queue' = Tail(mux_queue)
  /\ UNCHANGED <<premux, split_seq, mpc>>
  /\ MuxFrame

MuxPopVideo ==
  /\ MuxPop("video")
  /\ HandleVideo(Head(mux_queue))
  /\ UNCHANGED <<size_split_armed, eos>>

MuxPopAudio ==
  /\ MuxPop("audio")
  /\ HandleAudio(Head(mux_queue))
  /\ UNCHANGED <<size_split_armed, eos>>

MuxPopVideoEos ==
  /\ MuxPop("video_eos")
  /\ video_eos' = TRUE
  /\ UNCHANGED <<session, size_split_armed, segment, audio_eos, output>>

MuxPopAudioEos ==
  /\ MuxPop("audio_eos")
  /\ audio_eos' = [audio_eos EXCEPT ![Head(mux_queue).track] = TRUE]
  /\ UNCHANGED <<session, size_split_armed, segment, video_eos, output>>

\* finalize_segment: nothing to do without a writer; a writer that failed to
\* write also fails to finalize.
FinalizeOutcomes ==
  CASE seg.writer = "none"                 -> {TRUE}
    [] seg.writer # "none" /\ write_error  -> {FALSE}
    [] OTHER -> IF "finalize" \in Faults THEN BOOLEAN ELSE {TRUE}

\* Mutant: a file that failed to finalize is not reported.
ReportSuccessOnly(ok, session_end) ==
  reports' = IF seg.writer = "none" \/ ~ok THEN reports
             ELSE Append(reports, [index |-> seg.index, succeeded |-> ok,
                                   session_end |-> session_end])

Report(ok, session_end) ==
  reports' = IF seg.writer = "none" THEN reports
             ELSE Append(reports, [index |-> seg.index, succeeded |-> ok,
                                   session_end |-> session_end])

\* begin_new_segment: finalize the current file, re-arm the size split, open
\* the next file.
BeginNewSegment(index) ==
  \/ /\ FALSE \in FinalizeOutcomes
     /\ Report(FALSE, FALSE)
     /\ write_error' = TRUE
     /\ seg' = [seg EXCEPT !.writer = "none"]
     /\ UNCHANGED <<session, size_split_armed>>
  \/ /\ TRUE \in FinalizeOutcomes
     /\ Report(TRUE, FALSE)
     /\ size_split_armed' = FALSE
     /\ \/ seg' = Opened(index) /\ UNCHANGED session
        \/ /\ "path" \in OpenOutcomes
           /\ seg' = [seg EXCEPT !.writer = "none"]
           /\ RecordFailure("Mux")
        \/ /\ "open" \in OpenOutcomes
           /\ seg' = [Opened(index) EXCEPT !.writer = "none"]
           /\ RecordFailure("Mux")
     /\ UNCHANGED write_error

MuxPopSplit ==
  /\ MuxPop("split")
  /\ IF write_error
     THEN UNCHANGED <<session, size_split_armed, seg, write_error, reports>>
     ELSE BeginNewSegment(Head(mux_queue).index)
  /\ UNCHANGED <<shifts, segment_pending_audio, trimmed, eos, written>>

\* sample_mux_diagnostics once the queue is empty: the segment's committed
\* bytes (they trail the packets pushed) may have crossed the size threshold.
SegmentPackets == Len(SelectSeq(written, LAMBDA w : w.seg = seg.index))

SizeReached ==
  /\ SizeSplitPackets > 0 /\ seg.writer # "none"
  /\ SegmentPackets >= SizeSplitPackets

MuxQueueEmpty ==
  /\ mpc = "pop" /\ ~MuxBusy /\ mux_queue = <<>>
  /\ mpc' = "top"
  /\ \/ UNCHANGED <<split_seq, size_split_armed>>
     \/ /\ SizeReached /\ ~size_split_armed
        /\ size_split_armed' = TRUE
        /\ split_seq' = split_seq + 1
  /\ UNCHANGED <<session, premux, mux_queue, segment, eos, output>>
  /\ MuxFrame

\* 2c is over.  Audio left without a segment epoch is counted as trimmed (with
\* one it was drained, or dropped by a write error); the last segment is
\* finalized and an unreported write error becomes the session's failure.
MuxFinish ==
  /\ mpc = "final" /\ ~MuxBusy /\ mux_queue = <<>>
  /\ trimmed' = IF seg.epoch_set THEN trimmed
                ELSE trimmed + Len(segment_pending_audio)
  /\ segment_pending_audio' = <<>>
  /\ \E ok \in FinalizeOutcomes :
       /\ Report(ok, TRUE)
       /\ write_error' = (write_error \/ ~ok)
       /\ IF (write_error \/ ~ok) /\ ~HasFailure
          THEN RecordFailure("Mux") ELSE UNCHANGED session
  /\ seg' = [seg EXCEPT !.writer = "none"]
  /\ mpc' = "done"
  /\ UNCHANGED <<premux, mux_queue, split_seq, size_split_armed, shifts, eos,
                 written>>
  /\ MuxFrame

MuxNext ==
  \/ MuxCheckHeaders \/ MuxBlock \/ MuxOpenFirst
  \/ MuxPremuxVideo \/ MuxPremuxAudio \/ MuxPremuxDone \/ MuxDrainHeld
  \/ MuxTop \/ MuxPopVideo \/ MuxPopAudio \/ MuxPopVideoEos
  \/ MuxPopAudioEos \/ MuxPopSplit \/ MuxQueueEmpty \/ MuxFinish

-----------------------------------------------------------------------------
(* The session: Record() starts every worker on a freshly reset state *)

Init ==
  /\ stop_requested = FALSE /\ failure = "None" /\ stop_notify = FALSE
  /\ video_ready = FALSE /\ audio_track_ready = [t \in Tracks |-> FALSE]
  /\ video_premux = <<>> /\ audio_premux = <<>> /\ mux_queue = <<>>
  /\ split_seq = 0 /\ size_split_armed = FALSE /\ requests = 0
  /\ video_epoch = 0 /\ audio_epoch = [t \in Tracks |-> 0]
  /\ vpc = "prepare" /\ frame_idx = 0 /\ in_flight = <<>> /\ vheld = <<>>
  /\ split_armed = FALSE /\ split_forced_pts = 0 /\ split_last_seq = 0
  /\ current_segment_index = 0
  /\ next_auto_threshold = AutoSplitNs
  /\ apc = [t \in Tracks |-> "prepare"]
  /\ audio_idx = [t \in Tracks |-> 0] /\ aflush = [t \in Tracks |-> FALSE]
  /\ untimed = [t \in Tracks |-> FALSE]
  /\ mpc = "check"
  /\ seg = [writer |-> "none", index |-> 0, epoch_set |-> FALSE, epoch |-> 0]
  /\ audio_shift = [t \in Tracks |-> 0]
  /\ audio_shift_resolved = [t \in Tracks |-> FALSE]
  /\ segment_pending_audio = <<>>
  /\ write_error = FALSE /\ video_eos = FALSE
  /\ audio_eos = [t \in Tracks |-> FALSE] /\ trimmed = 0
  /\ written = <<>> /\ reports = <<>>
  /\ vsent = <<>> /\ asent = [t \in Tracks |-> <<>>]

ProducersDone == vpc = "done" /\ \A t \in Tracks : apc[t] = "done"

\* Record() joins the workers that ended; a MuxThread still blocked is
\* abandoned once the finalize wait sees no progress.
Terminated ==
  /\ ProducersDone /\ ~stop_notify /\ mpc \in {"done", "blocked"}
  /\ UNCHANGED vars

Next ==
  \/ NotifyWaiters \/ CallerStop \/ RequestSplit
  \/ VideoNext
  \/ \E t \in Tracks : AudioNext(t)
  \/ MuxNext
  \/ Terminated

Spec == Init /\ [][Next]_vars

\* The threads are scheduled and every wait of a producer is timed, so each
\* thread that can move eventually does.  The user need not stop, request a
\* split or meet a fault.
Fairness ==
  /\ WF_vars(NotifyWaiters) /\ WF_vars(VideoNext) /\ WF_vars(MuxNext)
  /\ \A t \in Tracks : WF_vars(AudioNext(t))

LiveSpec == Spec /\ Fairness
=============================================================================
