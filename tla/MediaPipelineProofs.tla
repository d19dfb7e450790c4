------------------------ MODULE MediaPipelineProofs ------------------------
(***************************************************************************)
(* Invariants of MediaPipeline, proved for any number of audio tracks,     *)
(* packets, split requests, faults and any limits.                         *)
(***************************************************************************)
EXTENDS MediaPipelineProps, SequenceTheorems, FiniteSetTheorems, TLAPS

USE DEF session, headers, premux, epochs, splitReq, splitArm, video, audio,
        shifts, segment, eos, output, sent

-----------------------------------------------------------------------------
(* Type correctness *)

LEMMA GrowType ==
  ASSUME NEW S, NEW s \in Seq(S), NEW e \in S
  PROVE  Append(s, e) \in Seq(S)
BY AppendProperties

LEMMA ShrinkType ==
  ASSUME NEW S, NEW s \in Seq(S), s # <<>>
  PROVE  Head(s) \in S /\ Tail(s) \in Seq(S) /\ s[1] \in S
<1>1. Len(s) \in Nat \ {0} BY EmptySeq
<1> QED BY <1>1, HeadTailProperties, ElementOfSeq

LEMMA SuffixType ==
  ASSUME NEW S, NEW s \in Seq(S), NEW u \in Suffixes(s)
  PROVE  u \in Seq(S)
<1>1. PICK n \in 1 .. Len(s) + 1 : u = SubSeq(s, n, Len(s)) BY DEF Suffixes
<1>2. Len(s) \in Nat /\ \A i \in n .. Len(s) : s[i] \in S BY LenProperties, ElementOfSeq
<1> QED BY <1>1, <1>2, SubSeqProperties

\* What an item of the queue is, by its kind.
LEMMA ItemKind ==
  ASSUME NEW x \in MuxItem
  PROVE  /\ x.kind = "video" => x \in VideoPacket
         /\ x.kind = "audio" => x \in AudioPacket
         /\ x.kind = "split" => x.index \in Nat
         /\ x.kind = "audio_eos" => x.track \in Tracks /\ x = [kind |-> "audio_eos", track |-> x.track]
         /\ x.kind = "video_eos" => x = [kind |-> "video_eos"]
         /\ x.kind \in {"video", "audio", "split", "video_eos", "audio_eos"}
BY DEF MuxItem, VideoPacket, AudioPacket, Sentinel

LEMMA InitType == Init => TypeOK
<1> SUFFICES ASSUME Init PROVE TypeOK OBVIOUS
<1> USE BoundsAssumption DEF BoundsAssumption
<1>1. SessionType BY DEF Init, SessionType
<1>2. BufferType BY EmptySeq DEF Init, BufferType
<1>3. VideoType BY EmptySeq DEF Init, VideoType
<1>4. AudioType BY EmptySeq DEF Init, AudioType
<1>5. MuxType
  <2>1. /\ segment_pending_audio \in Seq(AudioPacket) /\ written \in Seq(WrittenPacket)
        /\ reports \in Seq(SegmentReport)
    BY EmptySeq DEF Init
  <2>2. seg \in SegmentState BY DEF Init, SegmentState
  <2>3. /\ audio_shift \in [Tracks -> Int] /\ audio_shift_resolved \in [Tracks -> BOOLEAN]
        /\ audio_eos \in [Tracks -> BOOLEAN]
    BY DEF Init
  <2> QED BY <2>1, <2>2, <2>3 DEF Init, MuxType
<1> QED BY <1>1, <1>2, <1>3, <1>4, <1>5 DEF TypeOK

\* The flags of the session after a step that stops it, fails it or leaves it.
SessionStep ==
  \/ UNCHANGED session
  \/ stop_requested' = TRUE /\ stop_notify' = TRUE /\ UNCHANGED failure
  \/ \E phase \in Phases : RecordFailure(phase)

LEMMA SessionStepType ==
  ASSUME TypeOK, SessionStep
  PROVE  /\ stop_requested' \in BOOLEAN /\ stop_notify' \in BOOLEAN
         /\ failure' \in {"None"} \cup Phases
         /\ HasFailure => HasFailure'
BY DEF TypeOK, SessionType, SessionStep, RecordFailure, RequestCleanStop, HasFailure, Phases

\* The parts of the type that a step of VideoThread cannot touch.
LEMMA VideoFrameType ==
  ASSUME TypeOK, VideoFrame, SessionStep,
         video_ready' \in BOOLEAN, video_epoch' \in Nat,
         mpc' = mpc \/ mpc' = "check",
         video_premux' \in Seq(VideoPacket), mux_queue' \in Seq(MuxItem),
         VideoType'
  PROVE  TypeOK'
<1>1. SessionType' BY SessionStepType DEF TypeOK, SessionType, VideoFrame
<1>2. BufferType' BY DEF TypeOK, BufferType, VideoFrame
<1>3. AudioType' BY DEF TypeOK, AudioType, VideoFrame
<1>4. MuxType' BY DEF TypeOK, MuxType, VideoFrame
<1> QED BY <1>1, <1>2, <1>3, <1>4 DEF TypeOK

LEMMA VideoTypeStep == TypeOK /\ VideoNext => TypeOK'
<1> SUFFICES ASSUME TypeOK, VideoNext PROVE TypeOK' OBVIOUS
<1>0. VideoFrame
  BY DEF VideoNext, VideoPrepare, VideoFirstFrame, VideoSubmit, VideoEncodeFail, VideoCaptureFail,
         VideoSourceLost, VideoLeaveLoop, VideoRoute, VideoFlushRoute, VideoRouteStep, VideoFlushCut,
         VideoPush, VideoNoRoom, VideoFlushed, VideoEos
<1>1. /\ video_ready \in BOOLEAN /\ video_epoch \in Nat /\ video_premux \in Seq(VideoPacket)
      /\ mux_queue \in Seq(MuxItem) /\ VideoType
      /\ in_flight \in Seq(VideoPacket) /\ vheld \in Seq(VideoPacket) /\ frame_idx \in Nat
      /\ split_seq \in Nat /\ vsent \in Seq(Nat)
  BY DEF TypeOK, SessionType, BufferType, VideoType
<1>2. CASE VideoPrepare \/ VideoEncodeFail \/ VideoCaptureFail \/ VideoSourceLost \/ VideoLeaveLoop
  <2>1. SessionStep
    BY <1>2 DEF VideoPrepare, VideoEncodeFail, VideoCaptureFail, VideoSourceLost, VideoLeaveLoop,
                SessionStep, RequestCleanStop, Phases
  <2>2. /\ UNCHANGED <<video_ready, video_epoch, mpc, video_premux, mux_queue, frame_idx, in_flight,
                       vheld, splitArm, vsent>>
        /\ vpc' \in {vpc, "run", "done", "flush"}
    BY <1>2 DEF VideoPrepare, VideoEncodeFail, VideoCaptureFail, VideoSourceLost, VideoLeaveLoop
  <2>3. VideoType' BY <1>1, <2>2 DEF VideoType
  <2> QED BY <1>0, <1>1, <2>1, <2>2, <2>3, VideoFrameType
<1>3. CASE VideoFirstFrame
  <2>1. /\ video_epoch' = VideoEpoch
        /\ UNCHANGED <<session, video_ready, video_premux, mux_queue, video, splitArm, mpc, vsent>>
    BY <1>3 DEF VideoFirstFrame
  <2>2. VideoType' BY <1>1, <2>1 DEF VideoType
  <2>3. video_epoch' \in Nat BY <2>1, EpochAssumption DEF EpochAssumption
  <2> QED BY <1>0, <1>1, <2>1, <2>2, <2>3, VideoFrameType DEF SessionStep
<1>4. CASE VideoSubmit
  <2>1. PICK key \in BOOLEAN : in_flight' = Append(in_flight,
           [kind |-> "video", id |-> frame_idx, pts |-> frame_idx * FrameNs, key |-> key])
    BY <1>4 DEF VideoSubmit
  <2>2. frame_idx * FrameNs \in Nat BY <1>1, BoundsAssumption DEF BoundsAssumption
  <2>3. [kind |-> "video", id |-> frame_idx, pts |-> frame_idx * FrameNs, key |-> key] \in VideoPacket
    BY <1>1, <2>2 DEF VideoPacket
  <2>4. in_flight' \in Seq(VideoPacket) BY <1>1, <2>1, <2>3, GrowType
  <2>5. /\ frame_idx' = frame_idx + 1 /\ MaybeArmSplit(frame_idx * FrameNs)
        /\ UNCHANGED <<session, video_ready, video_premux, mux_queue, video_epoch, vpc, vheld, mpc, vsent>>
    BY <1>4 DEF VideoSubmit
  <2>6. VideoType'
    <3>1. /\ split_armed' \in BOOLEAN /\ split_forced_pts' \in Nat /\ split_last_seq' \in Nat
          /\ UNCHANGED <<current_segment_index, next_auto_threshold>>
      BY <1>1, <2>2, <2>5 DEF VideoType, MaybeArmSplit
    <3> QED BY <1>1, <2>4, <2>5, <3>1 DEF VideoType
  <2> QED BY <1>0, <1>1, <2>5, <2>6, VideoFrameType DEF SessionStep
<1>5. CASE VideoRoute \/ VideoFlushRoute
  <2> DEFINE p == Head(in_flight)
  <2>1. p \in VideoPacket /\ Tail(in_flight) \in Seq(VideoPacket) /\ p.id \in Nat /\ p.key \in BOOLEAN
    <3>1. in_flight # <<>> BY <1>5 DEF VideoRoute, VideoFlushRoute, VideoRouteStep
    <3>2. p \in VideoPacket /\ Tail(in_flight) \in Seq(VideoPacket) BY <1>1, <3>1, ShrinkType
    <3> HIDE DEF p
    <3> QED BY <3>2 DEF VideoPacket
  <2>2. PICK ready \in HeaderAfter(p) : video_ready' = ready /\ WakeMux(ready)
    BY <1>5 DEF VideoRoute, VideoFlushRoute, VideoRouteStep
  <2>3. video_ready' \in BOOLEAN BY <1>1, <2>2 DEF HeaderAfter
  <2>4. mpc' = mpc \/ mpc' = "check" BY <2>2 DEF WakeMux
  <2>5. /\ UNCHANGED <<mux_queue, video_epoch, frame_idx, splitArm>>
        /\ vheld' = vheld \/ vheld' = <<p>>
        /\ video_premux' = video_premux \/ video_premux' = Append(video_premux, p)
        /\ vsent' = vsent \/ vsent' = Append(vsent, p.id)
        /\ in_flight' \in {Tail(in_flight)} \cup Suffixes(Tail(in_flight))
        /\ vpc' \in {vpc, "flush"}
    BY <1>5 DEF VideoRoute, VideoFlushRoute, VideoRouteStep
  <2>6. SessionStep BY <1>5 DEF VideoRoute, VideoFlushRoute, VideoRouteStep, SessionStep, Phases
  <2> HIDE DEF p
  <2>7. video_premux' \in Seq(VideoPacket) /\ vsent' \in Seq(Nat) BY <1>1, <2>1, <2>5, GrowType
  <2>8. vheld' \in Seq(VideoPacket)
    <3>1. <<p>> \in Seq(VideoPacket) BY <2>1
    <3> QED BY <1>1, <2>5, <3>1
  <2>9. in_flight' \in Seq(VideoPacket) BY <2>1, <2>5, SuffixType
  <2>10. VideoType' BY <1>1, <2>5, <2>7, <2>8, <2>9 DEF VideoType
  <2> QED BY <1>0, <1>1, <2>3, <2>4, <2>5, <2>6, <2>7, <2>10, VideoFrameType
<1>6. CASE VideoPush
  <2> DEFINE p == vheld[1]
  <2>1. p \in VideoPacket /\ p.id \in Nat /\ p.pts \in Nat
    <3>1. vheld # <<>> BY <1>6 DEF VideoPush
    <3>2. p \in VideoPacket BY <1>1, <3>1, ShrinkType
    <3> HIDE DEF p
    <3> QED BY <3>2 DEF VideoPacket
  <2>2. /\ vsent' = Append(vsent, p.id) /\ vheld' = <<>>
        /\ UNCHANGED <<session, video_ready, video_premux, video_epoch, vpc, frame_idx, in_flight, mpc>>
        /\ \/ mux_queue' = Append(mux_queue, p) /\ UNCHANGED splitArm
           \/ /\ mux_queue' = mux_queue \o <<[kind |-> "split", index |-> current_segment_index + 1], p>>
              /\ current_segment_index' = current_segment_index + 1
              /\ next_auto_threshold' = IF AutoSplitNs > 0 THEN p.pts + AutoSplitNs ELSE next_auto_threshold
              /\ split_armed' = FALSE /\ UNCHANGED <<split_forced_pts, split_last_seq>>
    BY <1>6 DEF VideoPush
  <2> HIDE DEF p
  <2>3. p \in MuxItem BY <2>1 DEF MuxItem
  <2>4. [kind |-> "split", index |-> current_segment_index + 1] \in MuxItem
    BY <1>1 DEF VideoType, MuxItem, Sentinel
  <2>5. mux_queue' \in Seq(MuxItem)
    <3>1. <<[kind |-> "split", index |-> current_segment_index + 1], p>> \in Seq(MuxItem) BY <2>3, <2>4
    <3> QED BY <1>1, <2>2, <2>3, <3>1, GrowType, ConcatProperties
  <2>6. vsent' \in Seq(Nat) /\ vheld' \in Seq(VideoPacket) BY <1>1, <2>1, <2>2, GrowType, EmptySeq
  <2>7. VideoType'
    <3>1. /\ split_armed' \in BOOLEAN /\ split_forced_pts' \in Nat /\ split_last_seq' \in Nat
          /\ current_segment_index' \in Nat /\ next_auto_threshold' \in Nat
      <4>1. AutoSplitNs \in Nat BY BoundsAssumption DEF BoundsAssumption
      <4>2. CASE UNCHANGED splitArm BY <1>1, <4>2 DEF VideoType
      <4>3. CASE /\ current_segment_index' = current_segment_index + 1
                 /\ next_auto_threshold' = IF AutoSplitNs > 0 THEN p.pts + AutoSplitNs ELSE next_auto_threshold
                 /\ split_armed' = FALSE /\ UNCHANGED <<split_forced_pts, split_last_seq>>
        <5>1. current_segment_index' \in Nat /\ next_auto_threshold' \in Nat
          BY <1>1, <2>1, <4>1, <4>3 DEF VideoType
        <5> QED BY <1>1, <4>3, <5>1 DEF VideoType
      <4> QED BY <2>2, <4>2, <4>3
    <3> QED BY <1>1, <2>2, <2>6, <3>1 DEF VideoType
  <2> QED BY <1>0, <1>1, <2>2, <2>5, <2>7, VideoFrameType DEF SessionStep
<1>7. CASE VideoNoRoom \/ VideoFlushCut \/ VideoFlushed
  <2>1. SessionStep BY <1>7 DEF VideoNoRoom, VideoFlushCut, VideoFlushed, SessionStep, Phases
  <2>2. /\ UNCHANGED <<video_ready, video_premux, mux_queue, video_epoch, frame_idx, splitArm, mpc, vsent>>
        /\ vheld' \in {vheld, <<>>} /\ vpc' \in {vpc, "flush", "eos"}
        /\ in_flight' \in {in_flight, <<>>} \cup Suffixes(in_flight)
    BY <1>7 DEF VideoNoRoom, VideoFlushCut, VideoFlushed
  <2>3. in_flight' \in Seq(VideoPacket) /\ vheld' \in Seq(VideoPacket) BY <1>1, <2>2, SuffixType, EmptySeq
  <2>4. VideoType' BY <1>1, <2>2, <2>3 DEF VideoType
  <2> QED BY <1>0, <1>1, <2>1, <2>2, <2>4, VideoFrameType
<1>8. CASE VideoEos
  <2>1. /\ vpc' = "done" /\ mux_queue' = Append(mux_queue, [kind |-> "video_eos"])
        /\ UNCHANGED <<session, video_ready, video_premux, video_epoch, frame_idx, in_flight, vheld,
                       splitArm, mpc, vsent>>
    BY <1>8 DEF VideoEos
  <2>2. [kind |-> "video_eos"] \in MuxItem BY DEF MuxItem, Sentinel
  <2>3. mux_queue' \in Seq(MuxItem) BY <1>1, <2>1, <2>2, GrowType
  <2>4. VideoType' BY <1>1, <2>1 DEF VideoType
  <2> QED BY <1>0, <1>1, <2>1, <2>3, <2>4, VideoFrameType DEF SessionStep
<1> QED BY <1>2, <1>3, <1>4, <1>5, <1>6, <1>7, <1>8 DEF VideoNext

LEMMA AudioFrameType ==
  ASSUME TypeOK, AudioFrame, SessionStep,
         audio_track_ready' \in [Tracks -> BOOLEAN], audio_epoch' \in [Tracks -> Nat],
         mpc' = mpc \/ mpc' = "check",
         audio_premux' \in Seq(AudioPacket), mux_queue' \in Seq(MuxItem),
         AudioType'
  PROVE  TypeOK'
<1>1. SessionType' BY SessionStepType DEF TypeOK, SessionType, AudioFrame
<1>2. BufferType' BY DEF TypeOK, BufferType, AudioFrame
<1>3. VideoType' BY DEF TypeOK, VideoType, AudioFrame
<1>4. MuxType' BY DEF TypeOK, MuxType, AudioFrame
<1> QED BY <1>1, <1>2, <1>3, <1>4 DEF TypeOK

LEMMA NextAudioPacketType ==
  ASSUME TypeOK, NEW t \in Tracks
  PROVE  /\ NextAudioPacket(t) \in AudioPacket /\ NextAudioPacket(t) \in MuxItem
         /\ NextAudioPacket(t).kind = "audio" /\ NextAudioPacket(t).track = t
         /\ NextAudioPacket(t).id = audio_idx[t] /\ audio_idx[t] \in Nat
<1>1. audio_idx[t] \in Nat BY DEF TypeOK, AudioType
<1>2. audio_idx[t] * FrameNs \in Nat BY <1>1, BoundsAssumption DEF BoundsAssumption
<1>3. NextAudioPacket(t) \in AudioPacket BY <1>1, <1>2 DEF NextAudioPacket, AudioPacket
<1>4. NextAudioPacket(t) \in MuxItem BY <1>3 DEF MuxItem
<1> QED BY <1>1, <1>3, <1>4 DEF NextAudioPacket

\* What a track may do to the state of its own thread.
LEMMA AudioOwnType ==
  ASSUME TypeOK, NEW t \in Tracks,
         NEW pc \in {"prepare", "run", "wait", "flush", "done"}, apc' = [apc EXCEPT ![t] = pc] \/ UNCHANGED apc,
         audio_idx' = [audio_idx EXCEPT ![t] = @ + 1] \/ UNCHANGED audio_idx,
         aflush' = [aflush EXCEPT ![t] = TRUE] \/ UNCHANGED aflush,
         NEW late \in BOOLEAN, untimed' = [untimed EXCEPT ![t] = @ \/ late] \/ UNCHANGED untimed,
         asent' = [asent EXCEPT ![t] = Append(@, audio_idx[t])] \/ UNCHANGED asent
  PROVE  AudioType'
<1>1. AudioType /\ audio_idx[t] \in Nat /\ asent[t] \in Seq(Nat) BY DEF TypeOK, AudioType
<1>2. Append(asent[t], audio_idx[t]) \in Seq(Nat) BY <1>1, GrowType
<1>3. apc' \in [Tracks -> {"prepare", "run", "wait", "flush", "done"}] BY <1>1 DEF AudioType
<1>4. audio_idx' \in [Tracks -> Nat]
  <2>1. audio_idx[t] + 1 \in Nat BY <1>1
  <2> QED BY <1>1, <2>1 DEF AudioType
<1>5. aflush' \in [Tracks -> BOOLEAN] BY <1>1 DEF AudioType
<1>6. asent' \in [Tracks -> Seq(Nat)] BY <1>1, <1>2 DEF AudioType
<1>7. untimed' \in [Tracks -> BOOLEAN] BY <1>1 DEF AudioType
<1> QED BY <1>3, <1>4, <1>5, <1>6, <1>7 DEF AudioType

\* A step of AudioThread, as what it may do to each variable.
AudioEffect(t) ==
  /\ AudioFrame /\ SessionStep
  /\ audio_track_ready' = [audio_track_ready EXCEPT ![t] = TRUE] \/ UNCHANGED audio_track_ready
  /\ \/ UNCHANGED audio_epoch
     \/ \E e \in AudioEpochs[t] : audio_epoch' = [audio_epoch EXCEPT ![t] = IF @ = 0 THEN e ELSE @]
  /\ mpc' = mpc \/ mpc' = "check"
  /\ \E pc \in {"prepare", "run", "wait", "flush", "done"} :
       apc' = [apc EXCEPT ![t] = pc] \/ UNCHANGED apc
  /\ audio_idx' = [audio_idx EXCEPT ![t] = @ + 1] \/ UNCHANGED audio_idx
  /\ aflush' = [aflush EXCEPT ![t] = TRUE] \/ UNCHANGED aflush
  /\ \E late \in BOOLEAN : untimed' = [untimed EXCEPT ![t] = @ \/ late] \/ UNCHANGED untimed
  /\ asent' = [asent EXCEPT ![t] = Append(@, audio_idx[t])] \/ UNCHANGED asent
  /\ audio_premux' = Append(audio_premux, NextAudioPacket(t)) \/ UNCHANGED audio_premux
  /\ \/ UNCHANGED mux_queue
     \/ mux_queue' = Append(mux_queue, NextAudioPacket(t)) /\ ~Full
     \/ mux_queue' = Append(mux_queue, [kind |-> "audio_eos", track |-> t])

LEMMA AudioEffects ==
  ASSUME NEW t \in Tracks, AudioNext(t)
  PROVE  AudioEffect(t)
<1>1. CASE AudioPrepare(t) BY <1>1 DEF AudioPrepare, AudioEffect, SessionStep, Phases
<1>2. CASE AudioCapture(t)
  <2>1. AudioRouteStep(t) BY <1>2 DEF AudioCapture
  <2>2. SessionStep BY <2>1 DEF AudioRouteStep, SessionStep, Phases
  <2> QED BY <1>2, <2>1, <2>2 DEF AudioCapture, AudioRouteStep, AudioEffect
<1>3. CASE AudioFlushRoute(t)
  <2>1. AudioRouteStep(t) BY <1>3 DEF AudioFlushRoute
  <2>2. SessionStep BY <2>1 DEF AudioRouteStep, SessionStep, Phases
  <2> QED BY <1>3, <2>1, <2>2 DEF AudioFlushRoute, AudioRouteStep, AudioEffect
<1>4. CASE AudioCaptureFail(t) BY <1>4 DEF AudioCaptureFail, AudioEffect, SessionStep, Phases
<1>5. CASE AudioLeaveLoop(t) BY <1>5 DEF AudioLeaveLoop, AudioEffect, SessionStep
<1>6. CASE AudioPush(t)
  <2>1. \E pc \in {"prepare", "run", "wait", "flush", "done"} : apc' = [apc EXCEPT ![t] = pc]
    BY <1>6 DEF AudioPush
  <2> QED BY <1>6, <2>1 DEF AudioPush, AudioEffect, SessionStep
<1>7. CASE AudioNoRoom(t) BY <1>7 DEF AudioNoRoom, AudioEffect, SessionStep, Phases
<1>8. CASE AudioEos(t) BY <1>8 DEF AudioEos, AudioEffect, SessionStep
<1> QED BY <1>1, <1>2, <1>3, <1>4, <1>5, <1>6, <1>7, <1>8 DEF AudioNext

LEMMA AudioTypeStep ==
  ASSUME TypeOK, NEW t \in Tracks, AudioNext(t)
  PROVE  TypeOK'
<1>1. AudioEffect(t) BY AudioEffects
<1>2. /\ audio_track_ready \in [Tracks -> BOOLEAN] /\ audio_epoch \in [Tracks -> Nat]
      /\ audio_premux \in Seq(AudioPacket) /\ mux_queue \in Seq(MuxItem)
  BY DEF TypeOK, SessionType, BufferType
<1>3. audio_track_ready' \in [Tracks -> BOOLEAN] BY <1>1, <1>2 DEF AudioEffect
<1>4. audio_epoch' \in [Tracks -> Nat]
  <2>1. AudioEpochs[t] \subseteq Nat BY EpochAssumption DEF EpochAssumption
  <2>2. CASE UNCHANGED audio_epoch BY <1>2, <2>2
  <2>3. ASSUME NEW e \in AudioEpochs[t], audio_epoch' = [audio_epoch EXCEPT ![t] = IF @ = 0 THEN e ELSE @]
        PROVE  audio_epoch' \in [Tracks -> Nat]
    BY <1>2, <2>1, <2>3
  <2> QED BY <1>1, <2>2, <2>3 DEF AudioEffect
<1>5. AudioType'
  <2>1. PICK pc \in {"prepare", "run", "wait", "flush", "done"} :
          apc' = [apc EXCEPT ![t] = pc] \/ UNCHANGED apc
    BY <1>1 DEF AudioEffect
  <2>2. PICK late \in BOOLEAN : untimed' = [untimed EXCEPT ![t] = @ \/ late] \/ UNCHANGED untimed
    BY <1>1 DEF AudioEffect
  <2>3. /\ audio_idx' = [audio_idx EXCEPT ![t] = @ + 1] \/ UNCHANGED audio_idx
        /\ aflush' = [aflush EXCEPT ![t] = TRUE] \/ UNCHANGED aflush
        /\ asent' = [asent EXCEPT ![t] = Append(@, audio_idx[t])] \/ UNCHANGED asent
    BY <1>1 DEF AudioEffect
  <2> QED BY <2>1, <2>2, <2>3, AudioOwnType
<1>6. /\ audio_premux' = Append(audio_premux, NextAudioPacket(t)) \/ UNCHANGED audio_premux
      /\ \/ UNCHANGED mux_queue
         \/ mux_queue' = Append(mux_queue, NextAudioPacket(t))
         \/ mux_queue' = Append(mux_queue, [kind |-> "audio_eos", track |-> t])
  BY <1>1 DEF AudioEffect
<1>7. audio_premux' \in Seq(AudioPacket) BY <1>2, <1>6, NextAudioPacketType, GrowType
<1>8. mux_queue' \in Seq(MuxItem)
  <2>1. [kind |-> "audio_eos", track |-> t] \in MuxItem BY DEF MuxItem, Sentinel
  <2> QED BY <1>2, <1>6, <2>1, NextAudioPacketType, GrowType
<1>9. AudioFrame /\ SessionStep /\ (mpc' = mpc \/ mpc' = "check") BY <1>1 DEF AudioEffect
<1> QED BY <1>3, <1>4, <1>5, <1>7, <1>8, <1>9, AudioFrameType

LEMMA MuxFrameType ==
  ASSUME TypeOK, MuxFrame, SessionStep,
         split_seq' \in Nat, size_split_armed' \in BOOLEAN,
         video_premux' \in Seq(VideoPacket), audio_premux' \in Seq(AudioPacket), mux_queue' \in Seq(MuxItem),
         MuxType'
  PROVE  TypeOK'
<1>1. SessionType' BY SessionStepType DEF TypeOK, SessionType, MuxFrame
<1>2. BufferType' BY DEF TypeOK, BufferType
<1>3. VideoType' BY DEF TypeOK, VideoType, MuxFrame
<1>4. AudioType' BY DEF TypeOK, AudioType, MuxFrame
<1> QED BY <1>1, <1>2, <1>3, <1>4 DEF TypeOK

LEMMA ShiftType ==
  ASSUME NEW a \in Int, NEW v \in Int, NEW m \in Int
  PROVE  AudioTimelineShiftNs(a, v, m) \in Int
<1>1. (a - v) * TickNs \in Int BY DEF TickNs
<1> QED BY <1>1 DEF AudioTimelineShiftNs

LEMMA MeasuredType ==
  ASSUME TypeOK, NEW t \in Tracks
  PROVE  AudioShiftFor(t) \in Int
<1>1. audio_shift[t] \in Int /\ audio_epoch[t] \in Nat /\ video_epoch \in Nat
  BY DEF TypeOK, MuxType, SessionType
<1>2. SessionStart \in Nat /\ MaxShiftNs \in Nat BY EpochAssumption DEF EpochAssumption
<1>3. MeasuredShift(t) \in Int
  <2> DEFINE e == IF IsPlausibleAudioEpoch(audio_epoch[t], video_epoch, MaxShiftNs)
                  THEN audio_epoch[t] ELSE SessionStart
  <2>1. e \in Int BY <1>1, <1>2
  <2> HIDE DEF e
  <2>2. AudioTimelineShiftNs(e, video_epoch, MaxShiftNs) \in Int BY <1>1, <1>2, <2>1, ShiftType
  <2> QED BY <2>2 DEF MeasuredShift, e
<1> QED BY <1>1, <1>3 DEF AudioShiftFor

\* A write puts one packet into the open segment or fails for good.
Wrote(track, id, local, key) ==
  \/ /\ written' = Append(written, [seg |-> seg.index, track |-> track, id |-> id, pts |-> local, key |-> key])
     /\ UNCHANGED write_error
  \/ write_error' = TRUE /\ UNCHANGED written

LEMMA WroteType ==
  ASSUME TypeOK, NEW track \in {"video"} \cup Tracks, NEW id \in Nat, NEW local \in Nat, NEW key \in BOOLEAN,
         Wrote(track, id, local, key)
  PROVE  written' \in Seq(WrittenPacket) /\ write_error' \in BOOLEAN
<1>1. written \in Seq(WrittenPacket) /\ seg.index \in Nat /\ write_error \in BOOLEAN
  BY DEF TypeOK, MuxType, SegmentState
<1>2. [seg |-> seg.index, track |-> track, id |-> id, pts |-> local, key |-> key] \in WrittenPacket
  BY <1>1 DEF WrittenPacket
<1>3. CASE UNCHANGED written BY <1>1, <1>3 DEF Wrote
<1>4. CASE written' = Append(written, [seg |-> seg.index, track |-> track, id |-> id, pts |-> local, key |-> key])
  BY <1>1, <1>2, <1>4, GrowType DEF Wrote
<1> QED BY <1>3, <1>4 DEF Wrote

\* push_audio as what it may do: nothing without a live writer; else the shift of
\* the track is kept and the packet is written, held, trimmed or dropped.
LEMMA PushAudioEffect ==
  ASSUME TypeOK, NEW pkt \in AudioPacket, NEW held \in Seq(AudioPacket), PushAudio(pkt, held)
  PROVE  /\ seg' = seg
         /\ segment_pending_audio' \in Seq(AudioPacket) /\ trimmed' \in Nat
         /\ written' \in Seq(WrittenPacket) /\ write_error' \in BOOLEAN
         /\ audio_shift' \in [Tracks -> Int] /\ audio_shift_resolved' \in [Tracks -> BOOLEAN]
         /\ \/ UNCHANGED shifts
            \/ /\ audio_shift' = [audio_shift EXCEPT ![pkt.track] = AudioShiftFor(pkt.track)]
               /\ audio_shift_resolved' = [audio_shift_resolved EXCEPT ![pkt.track] = TRUE]
         /\ \/ UNCHANGED <<written, write_error>>
            \/ /\ ~write_error /\ seg.writer # "none"
               /\ \E local \in Nat : Wrote(pkt.track, pkt.id, local, TRUE)
         /\ \/ segment_pending_audio' = held
            \/ \E q \in AudioPacket : q.track = pkt.track /\ q.id = pkt.id /\ segment_pending_audio' = Append(held, q)
<1> DEFINE shift == AudioShiftFor(pkt.track)
<1> DEFINE pts == pkt.pts + shift
<1> DEFINE place == IF PredatesVideo(pkt.pts, shift) THEN "Predates"
                    ELSE PlaceOnSegmentTimeline(pts, seg.epoch_set, seg.epoch)
<1> DEFINE live == ~write_error /\ seg.writer # "none"
<1>1. /\ pkt.track \in Tracks /\ pkt.id \in Nat /\ pkt.pts \in Nat /\ pkt.kind = "audio"
      /\ trimmed \in Nat /\ seg.epoch \in Nat /\ seg.epoch_set \in BOOLEAN
      /\ audio_shift \in [Tracks -> Int] /\ audio_shift_resolved \in [Tracks -> BOOLEAN]
      /\ written \in Seq(WrittenPacket) /\ write_error \in BOOLEAN
  BY DEF AudioPacket, TypeOK, MuxType, SegmentState
<1>2. shift \in Int /\ pts \in Int BY <1>1, MeasuredType
<1>3. /\ UNCHANGED seg
      /\ IF live
         THEN /\ audio_shift' = [audio_shift EXCEPT ![pkt.track] = shift]
              /\ audio_shift_resolved' = [audio_shift_resolved EXCEPT ![pkt.track] = TRUE]
         ELSE UNCHANGED shifts
      /\ segment_pending_audio' = IF live /\ place = "Defer" THEN Append(held, [pkt EXCEPT !.pts = pts]) ELSE held
      /\ trimmed' = IF live /\ place = "Trim" THEN trimmed + 1 ELSE trimmed
      /\ IF live /\ place = "Write" THEN WriterPush(pkt.track, pkt.id, pts - seg.epoch, TRUE)
                                    ELSE UNCHANGED <<written, write_error>>
  BY DEF PushAudio
<1>4. place # "Predates" => pts \in Nat BY <1>1, <1>2 DEF PredatesVideo, PlaceOnSegmentTimeline
<1>5. place = "Write" => pts - seg.epoch \in Nat BY <1>1, <1>2, <1>4 DEF PlaceOnSegmentTimeline
<1>6. place = "Defer" => /\ [pkt EXCEPT !.pts = pts] \in AudioPacket
                         /\ [pkt EXCEPT !.pts = pts].track = pkt.track
                         /\ [pkt EXCEPT !.pts = pts].id = pkt.id
  <2> SUFFICES ASSUME pts \in Nat PROVE /\ [pkt EXCEPT !.pts = pts] \in AudioPacket
                                        /\ [pkt EXCEPT !.pts = pts].track = pkt.track
                                        /\ [pkt EXCEPT !.pts = pts].id = pkt.id
    BY <1>4
  <2> HIDE DEF pts
  <2> QED BY DEF AudioPacket
<1> HIDE DEF shift, pts, place
<1>7. \/ segment_pending_audio' = held
      \/ \E q \in AudioPacket : q.track = pkt.track /\ q.id = pkt.id /\ segment_pending_audio' = Append(held, q)
  BY <1>3, <1>6
<1>8. segment_pending_audio' \in Seq(AudioPacket) BY <1>7, GrowType
<1>9. trimmed' \in Nat BY <1>1, <1>3
<1>10. \/ UNCHANGED <<written, write_error>>
       \/ live /\ \E local \in Nat : Wrote(pkt.track, pkt.id, local, TRUE)
  BY <1>3, <1>5 DEF WriterPush, Wrote
<1>11. written' \in Seq(WrittenPacket) /\ write_error' \in BOOLEAN BY <1>1, <1>10, WroteType
<1>12. audio_shift' \in [Tracks -> Int] /\ audio_shift_resolved' \in [Tracks -> BOOLEAN] BY <1>1, <1>2, <1>3
<1> QED BY <1>3, <1>7, <1>8, <1>9, <1>10, <1>11, <1>12 DEF shift

\* push_video as what it may do.
LEMMA PushVideoEffect ==
  ASSUME TypeOK, NEW pkt \in VideoPacket, PushVideo(pkt)
  PROVE  /\ SessionStep /\ seg' \in SegmentState /\ written' \in Seq(WrittenPacket) /\ write_error' \in BOOLEAN
         /\ \/ UNCHANGED <<session, seg, write_error, written>> /\ (write_error \/ seg.writer = "none")
            \/ /\ ~write_error /\ seg.writer # "none"
               /\ seg' = [seg EXCEPT !.epoch_set = TRUE, !.epoch = IF seg.epoch_set THEN seg.epoch ELSE pkt.pts]
               /\ \/ write_error' = TRUE /\ UNCHANGED written
                  \/ UNCHANGED session /\ \E local \in Nat : /\ Wrote("video", pkt.id, local, pkt.key)
                                                             /\ ~seg.epoch_set => local = 0
<1> DEFINE epoch == IF seg.epoch_set THEN seg.epoch ELSE pkt.pts
<1> DEFINE place == PlaceOnSegmentTimeline(pkt.pts, TRUE, epoch)
<1>1. /\ pkt.id \in Nat /\ pkt.pts \in Nat /\ pkt.key \in BOOLEAN /\ seg \in SegmentState
      /\ written \in Seq(WrittenPacket) /\ write_error \in BOOLEAN
  BY DEF VideoPacket, TypeOK, MuxType
<1>2. epoch \in Nat BY <1>1 DEF SegmentState
<1>3. CASE write_error \/ seg.writer = "none"
  <2>1. UNCHANGED <<session, seg, write_error, written>> BY <1>3 DEF PushVideo
  <2> QED BY <1>1, <1>3, <2>1 DEF SessionStep
<1>4. CASE ~(write_error \/ seg.writer = "none")
  <2>1. /\ seg' = [seg EXCEPT !.epoch_set = TRUE, !.epoch = epoch]
        /\ \/ /\ write_error' = TRUE /\ RecordFailure("Mux") /\ UNCHANGED written
           \/ /\ place = "Write"
              /\ WriterPush("video", pkt.id, pkt.pts - epoch, pkt.key)
              /\ UNCHANGED session
    BY <1>4 DEF PushVideo
  <2>2. place = "Write" => pkt.pts - epoch \in Nat BY <1>1, <1>2 DEF PlaceOnSegmentTimeline
  <2>3. ~seg.epoch_set => pkt.pts - epoch = 0 BY <1>1
  <2> HIDE DEF epoch, place
  <2>4. seg' \in SegmentState BY <1>1, <1>2, <2>1 DEF SegmentState
  <2>5. SessionStep BY <2>1 DEF SessionStep, Phases
  <2>6. CASE write_error' = TRUE /\ UNCHANGED written
    BY <1>1, <1>4, <2>1, <2>4, <2>5, <2>6 DEF epoch
  <2>7. CASE place = "Write" /\ WriterPush("video", pkt.id, pkt.pts - epoch, pkt.key) /\ UNCHANGED session
    <3>1. /\ pkt.pts - epoch \in Nat /\ (~seg.epoch_set => pkt.pts - epoch = 0)
          /\ Wrote("video", pkt.id, pkt.pts - epoch, pkt.key)
      BY <2>2, <2>3, <2>7 DEF WriterPush, Wrote
    <3>2. written' \in Seq(WrittenPacket) /\ write_error' \in BOOLEAN BY <1>1, <3>1, WroteType
    <3> QED BY <1>4, <2>1, <2>4, <2>5, <2>7, <3>1, <3>2 DEF epoch
  <2> QED BY <2>1, <2>6, <2>7
<1> QED BY <1>3, <1>4

LEMMA ReportType ==
  ASSUME TypeOK, NEW ok \in BOOLEAN, NEW last \in BOOLEAN, Report(ok, last)
  PROVE  reports' \in Seq(SegmentReport)
<1>1. reports \in Seq(SegmentReport) /\ seg.index \in Nat BY DEF TypeOK, MuxType, SegmentState
<1>2. [index |-> seg.index, succeeded |-> ok, session_end |-> last] \in SegmentReport BY <1>1 DEF SegmentReport
<1> QED BY <1>1, <1>2, GrowType DEF Report

LEMMA OpenedType ==
  ASSUME TypeOK, NEW index \in Nat
  PROVE  /\ Opened(index) \in SegmentState /\ [Opened(index) EXCEPT !.writer = "none"] \in SegmentState
         /\ [seg EXCEPT !.writer = "none"] \in SegmentState
<1>1. seg \in SegmentState BY DEF TypeOK, MuxType
<1> QED BY <1>1 DEF Opened, SegmentState

LEMMA BeginNewSegmentType ==
  ASSUME TypeOK, NEW index \in Nat, BeginNewSegment(index)
  PROVE  /\ SessionStep /\ size_split_armed' \in BOOLEAN /\ write_error' \in BOOLEAN
         /\ seg' \in SegmentState /\ reports' \in Seq(SegmentReport)
<1>1. size_split_armed \in BOOLEAN /\ write_error \in BOOLEAN BY DEF TypeOK, SessionType, MuxType
<1>2. CASE /\ Report(FALSE, FALSE) /\ write_error' = TRUE /\ seg' = [seg EXCEPT !.writer = "none"]
           /\ UNCHANGED <<session, size_split_armed>>
  BY <1>1, <1>2, ReportType, OpenedType DEF SessionStep
<1>3. CASE /\ Report(TRUE, FALSE) /\ size_split_armed' = FALSE /\ UNCHANGED write_error
           /\ \/ seg' = Opened(index) /\ UNCHANGED session
              \/ seg' = [seg EXCEPT !.writer = "none"] /\ RecordFailure("Mux")
              \/ seg' = [Opened(index) EXCEPT !.writer = "none"] /\ RecordFailure("Mux")
  <2>1. SessionStep BY <1>3 DEF SessionStep, Phases
  <2>2. seg' \in SegmentState BY <1>3, OpenedType
  <2>3. reports' \in Seq(SegmentReport) BY <1>3, ReportType
  <2> QED BY <1>1, <1>3, <2>1, <2>2, <2>3
<1> QED BY <1>2, <1>3 DEF BeginNewSegment

LEMMA MuxTypeStep == TypeOK /\ MuxNext => TypeOK'
<1> SUFFICES ASSUME TypeOK, MuxNext PROVE TypeOK' OBVIOUS
<1>0. MuxFrame
  BY DEF MuxNext, MuxCheckHeaders, MuxBlock, MuxOpenFirst, MuxPremuxVideo, MuxPremuxAudio, MuxPremuxDone,
         MuxDrainHeld, MuxTop, MuxPopVideo, MuxPopAudio, MuxPopVideoEos, MuxPopAudioEos, MuxPopSplit,
         MuxQueueEmpty, MuxFinish, MuxPop
<1>1. /\ split_seq \in Nat /\ size_split_armed \in BOOLEAN
      /\ video_premux \in Seq(VideoPacket) /\ audio_premux \in Seq(AudioPacket) /\ mux_queue \in Seq(MuxItem)
      /\ MuxType
  BY DEF TypeOK, SessionType, BufferType
<1>2. /\ seg \in SegmentState /\ segment_pending_audio \in Seq(AudioPacket) /\ trimmed \in Nat
      /\ reports \in Seq(SegmentReport) /\ write_error \in BOOLEAN
  BY <1>1 DEF MuxType
<1>3. CASE MuxCheckHeaders \/ MuxBlock \/ MuxPremuxDone \/ MuxTop \/ MuxQueueEmpty
  <2>1. /\ UNCHANGED <<session, premux, mux_queue, segment, eos, output>>
        /\ split_seq' \in {split_seq, split_seq + 1}
        /\ size_split_armed' = size_split_armed \/ size_split_armed' = TRUE
    BY <1>3 DEF MuxCheckHeaders, MuxBlock, MuxPremuxDone, MuxTop, MuxQueueEmpty
  <2>2. mpc' \in {"open", "done", "blocking", "blocked", "top", "final", "pop"}
    BY <1>3 DEF MuxCheckHeaders, MuxBlock, MuxPremuxDone, MuxTop, MuxQueueEmpty
  <2>3. MuxType' BY <1>1, <2>1, <2>2 DEF MuxType
  <2>4. split_seq' \in Nat BY <1>1, <2>1
  <2>5. size_split_armed' \in BOOLEAN BY <1>1, <2>1, Zenon
  <2>6. SessionStep BY <2>1 DEF SessionStep
  <2>7. UNCHANGED <<premux, mux_queue>> BY <2>1
  <2> QED BY <1>0, <1>1, <2>3, <2>4, <2>5, <2>6, <2>7, MuxFrameType
<1>4. CASE MuxOpenFirst
  <2>1. /\ UNCHANGED <<premux, mux_queue, split_seq, size_split_armed, shifts, segment_pending_audio,
                       write_error, trimmed, eos, output>>
        /\ SessionStep /\ mpc' \in {"premux", "done"} /\ seg' \in {seg, Opened(0)}
    BY <1>4 DEF MuxOpenFirst, SessionStep, Phases
  <2>2. seg' \in SegmentState BY <1>2, <2>1, OpenedType
  <2>3. MuxType' BY <1>1, <2>1, <2>2 DEF MuxType
  <2> QED BY <1>0, <1>1, <2>1, <2>3, MuxFrameType
<1>5. CASE MuxPremuxVideo
  <2>1. /\ video_premux # <<>> /\ video_premux' = Tail(video_premux) /\ PushVideo(Head(video_premux))
        /\ UNCHANGED <<audio_premux, mux_queue, split_seq, size_split_armed, mpc, eos,
                       shifts, segment_pending_audio, trimmed, reports>>
    BY <1>5 DEF MuxPremuxVideo, HandleVideo
  <2>2. Head(video_premux) \in VideoPacket /\ video_premux' \in Seq(VideoPacket) BY <1>1, <2>1, ShrinkType
  <2>3. SessionStep /\ seg' \in SegmentState /\ written' \in Seq(WrittenPacket) /\ write_error' \in BOOLEAN
    BY <2>1, <2>2, PushVideoEffect
  <2>4. MuxType' BY <1>1, <2>1, <2>3 DEF MuxType
  <2>5. UNCHANGED <<audio_premux, mux_queue, split_seq, size_split_armed>> BY <2>1
  <2> QED BY <1>0, <1>1, <2>2, <2>3, <2>4, <2>5, MuxFrameType
<1>6. CASE MuxPopVideo
  <2>1. /\ mux_queue # <<>> /\ mux_queue' = Tail(mux_queue) /\ PushVideo(Head(mux_queue))
        /\ Head(mux_queue).kind = "video"
        /\ UNCHANGED <<premux, split_seq, size_split_armed, mpc, eos,
                       shifts, segment_pending_audio, trimmed, reports>>
    BY <1>6 DEF MuxPopVideo, MuxPop, HandleVideo
  <2>2. Head(mux_queue) \in VideoPacket /\ mux_queue' \in Seq(MuxItem)
    BY <1>1, <2>1, ShrinkType, ItemKind
  <2>3. SessionStep /\ seg' \in SegmentState /\ written' \in Seq(WrittenPacket) /\ write_error' \in BOOLEAN
    BY <2>1, <2>2, PushVideoEffect
  <2>4. MuxType' BY <1>1, <2>1, <2>3 DEF MuxType
  <2> QED BY <1>0, <1>1, <2>1, <2>2, <2>3, <2>4, MuxFrameType
<1>7. CASE MuxPremuxAudio \/ MuxPopAudio \/ MuxDrainHeld
  <2>1. \E pkt \in AudioPacket, held \in Seq(AudioPacket) : PushAudio(pkt, held)
    <3>1. CASE MuxPremuxAudio
      <4>1. /\ audio_premux # <<>> /\ PushAudio(Head(audio_premux), segment_pending_audio)
        BY <3>1 DEF MuxPremuxAudio, HandleAudio
      <4> QED BY <1>1, <1>2, <4>1, ShrinkType
    <3>2. CASE MuxPopAudio
      <4>1. /\ mux_queue # <<>> /\ Head(mux_queue).kind = "audio"
            /\ PushAudio(Head(mux_queue), segment_pending_audio)
        BY <3>2 DEF MuxPopAudio, MuxPop, HandleAudio
      <4> QED BY <1>1, <1>2, <4>1, ShrinkType, ItemKind
    <3>3. CASE MuxDrainHeld
      <4>1. /\ segment_pending_audio # <<>>
            /\ PushAudio(Head(segment_pending_audio), Tail(segment_pending_audio))
        BY <3>3 DEF MuxDrainHeld, MuxBusy
      <4> QED BY <1>2, <4>1, ShrinkType
    <3> QED BY <1>7, <3>1, <3>2, <3>3
  <2>2. /\ seg' = seg
        /\ segment_pending_audio' \in Seq(AudioPacket) /\ trimmed' \in Nat
        /\ written' \in Seq(WrittenPacket) /\ write_error' \in BOOLEAN
        /\ audio_shift' \in [Tracks -> Int] /\ audio_shift_resolved' \in [Tracks -> BOOLEAN]
    BY <2>1, PushAudioEffect
  <2>3. /\ UNCHANGED <<session, video_premux, split_seq, size_split_armed, mpc, eos, reports>>
        /\ mux_queue' = mux_queue \/ (mux_queue # <<>> /\ mux_queue' = Tail(mux_queue))
        /\ audio_premux' = audio_premux \/ (audio_premux # <<>> /\ audio_premux' = Tail(audio_premux))
    BY <1>7 DEF MuxPremuxAudio, MuxPopAudio, MuxDrainHeld, MuxPop, HandleAudio
  <2>4. mux_queue' \in Seq(MuxItem) /\ audio_premux' \in Seq(AudioPacket) BY <1>1, <2>3, ShrinkType
  <2>5. MuxType' BY <1>1, <2>2, <2>3 DEF MuxType
  <2> QED BY <1>0, <1>1, <2>3, <2>4, <2>5, MuxFrameType DEF SessionStep
<1>8. CASE MuxPopVideoEos \/ MuxPopAudioEos
  <2>1. /\ UNCHANGED <<session, premux, split_seq, size_split_armed, segment, mpc, output>>
        /\ mux_queue # <<>> /\ mux_queue' = Tail(mux_queue)
        /\ video_eos' = video_eos \/ video_eos' = TRUE
        /\ audio_eos' = audio_eos \/ audio_eos' = [audio_eos EXCEPT ![Head(mux_queue).track] = TRUE]
    BY <1>8 DEF MuxPopVideoEos, MuxPopAudioEos, MuxPop
  <2>2. mux_queue' \in Seq(MuxItem) BY <1>1, <2>1, ShrinkType
  <2>3. video_eos' \in BOOLEAN /\ audio_eos' \in [Tracks -> BOOLEAN] BY <1>1, <2>1 DEF MuxType
  <2>4. MuxType' BY <1>1, <2>1, <2>3 DEF MuxType
  <2> QED BY <1>0, <1>1, <2>1, <2>2, <2>4, MuxFrameType DEF SessionStep
<1>9. CASE MuxPopSplit
  <2>1. /\ UNCHANGED <<premux, split_seq, mpc, shifts, segment_pending_audio, trimmed, eos, written>>
        /\ mux_queue # <<>> /\ mux_queue' = Tail(mux_queue) /\ Head(mux_queue).kind = "split"
        /\ \/ UNCHANGED <<session, size_split_armed, seg, write_error, reports>>
           \/ BeginNewSegment(Head(mux_queue).index)
    BY <1>9 DEF MuxPopSplit, MuxPop
  <2>2. mux_queue' \in Seq(MuxItem) /\ Head(mux_queue).index \in Nat BY <1>1, <2>1, ShrinkType, ItemKind
  <2>3. /\ SessionStep /\ size_split_armed' \in BOOLEAN /\ write_error' \in BOOLEAN
        /\ seg' \in SegmentState /\ reports' \in Seq(SegmentReport)
    <3>1. CASE UNCHANGED <<session, size_split_armed, seg, write_error, reports>>
      BY <1>1, <1>2, <3>1 DEF SessionStep
    <3>2. CASE BeginNewSegment(Head(mux_queue).index) BY <2>2, <3>2, BeginNewSegmentType
    <3> QED BY <2>1, <3>1, <3>2
  <2>4. MuxType' BY <1>1, <2>1, <2>3 DEF MuxType
  <2> QED BY <1>0, <1>1, <2>1, <2>2, <2>3, <2>4, MuxFrameType
<1>10. CASE MuxFinish
  <2>1. PICK ok \in FinalizeOutcomes :
             /\ Report(ok, TRUE)
             /\ write_error' = (write_error \/ ~ok)
             /\ IF (write_error \/ ~ok) /\ ~HasFailure THEN RecordFailure("Mux") ELSE UNCHANGED session
    BY <1>10 DEF MuxFinish
  <2>2. ok \in BOOLEAN BY DEF FinalizeOutcomes
  <2>3. /\ trimmed' \in {trimmed, trimmed + Len(segment_pending_audio)}
        /\ segment_pending_audio' = <<>> /\ seg' = [seg EXCEPT !.writer = "none"] /\ mpc' = "done"
        /\ UNCHANGED <<premux, mux_queue, split_seq, size_split_armed, shifts, eos, written>>
    BY <1>10 DEF MuxFinish
  <2>4. trimmed' \in Nat
    <3>1. Len(segment_pending_audio) \in Nat BY <1>2, LenProperties
    <3> QED BY <1>2, <2>3, <3>1
  <2>5. write_error' \in BOOLEAN BY <2>1, <2>2, <1>2
  <2>6. SessionStep BY <2>1 DEF SessionStep, Phases
  <2>7. reports' \in Seq(SegmentReport) BY <2>1, <2>2, ReportType
  <2>8. seg' \in SegmentState BY <2>3, OpenedType
  <2>9. segment_pending_audio' \in Seq(AudioPacket) BY <2>3, EmptySeq
  <2>10. MuxType' BY <1>1, <2>3, <2>4, <2>5, <2>7, <2>8, <2>9 DEF MuxType
  <2> QED BY <1>0, <1>1, <2>3, <2>6, <2>10, MuxFrameType
<1> QED BY <1>3, <1>4, <1>5, <1>6, <1>7, <1>8, <1>9, <1>10 DEF MuxNext

LEMMA NextType == TypeOK /\ [Next]_vars => TypeOK'
<1> SUFFICES ASSUME TypeOK, [Next]_vars PROVE TypeOK' OBVIOUS
<1>1. CASE NotifyWaiters \/ CallerStop \/ RequestSplit \/ UNCHANGED vars
  <2>1. /\ UNCHANGED <<headers, premux, mux_queue, size_split_armed, epochs, video, splitArm, audio, segment,
                       eos, output, sent>>
        /\ mpc' \in {mpc, "check"} /\ stop_requested' \in {stop_requested, TRUE}
        /\ stop_notify' \in {stop_notify, TRUE, FALSE} /\ failure' = failure
        /\ split_seq' \in {split_seq, split_seq + 1} /\ requests' \in {requests, requests + 1}
    BY <1>1 DEF NotifyWaiters, CallerStop, RequestSplit, vars, RequestCleanStop
  <2>2. SessionType'
    <3>1. SessionType BY DEF TypeOK
    <3>2. split_seq' \in Nat /\ requests' \in Nat BY <2>1, <3>1 DEF SessionType
    <3> QED BY <2>1, <3>1, <3>2 DEF SessionType
  <2>3. BufferType' BY <2>1 DEF TypeOK, BufferType
  <2>4. VideoType' BY <2>1 DEF TypeOK, VideoType
  <2>5. AudioType' BY <2>1 DEF TypeOK, AudioType
  <2>6. MuxType' BY <2>1 DEF TypeOK, MuxType
  <2> QED BY <2>2, <2>3, <2>4, <2>5, <2>6 DEF TypeOK
<1> QED BY <1>1, VideoTypeStep, AudioTypeStep, MuxTypeStep DEF Next, Terminated

\* Every variable keeps its type for any number of tracks, packets and faults: no
\* shift and no rebasing makes a timestamp negative, whatever epochs the tracks
\* measured, because a sample before the picture is dropped first.
THEOREM TypeCorrect == Spec => []TypeOK
BY InitType, NextType, PTL DEF Spec

-----------------------------------------------------------------------------
(* No producer ends silently *)

On(s, x) == \E i \in 1 .. Len(s) : s[i] = x

LEMMA OnGrow ==
  ASSUME NEW S, NEW s \in Seq(S), NEW e \in S, NEW x
  PROVE  On(Append(s, e), x) <=> On(s, x) \/ x = e
<1> DEFINE t == Append(s, e)
<1>1. /\ Len(s) \in Nat /\ Len(t) = Len(s) + 1 /\ t[Len(s) + 1] = e
      /\ \A i \in 1 .. Len(s) : t[i] = s[i]
  BY AppendProperties, LenProperties
<1> HIDE DEF t
<1>2. \A i \in 1 .. Len(t) : i \in 1 .. Len(s) \/ i = Len(s) + 1 BY <1>1
<1>3. \A i \in 1 .. Len(s) : i \in 1 .. Len(t) BY <1>1
<1>4. Len(s) + 1 \in 1 .. Len(t) BY <1>1
<1>5. On(t, x) <=> On(s, x) \/ x = e BY <1>1, <1>2, <1>3, <1>4 DEF On
<1> QED BY <1>5 DEF t

LEMMA TwoIsAppends ==
  ASSUME NEW S, NEW s \in Seq(S), NEW a \in S, NEW b \in S
  PROVE  s \o <<a, b>> = Append(Append(s, a), b)
<1>1. <<a, b>> \in Seq(S) /\ Len(<<a, b>>) = 2 /\ <<a, b>>[1] = a /\ <<a, b>>[2] = b OBVIOUS
<1> DEFINE e == <<a, b>>
<1> DEFINE u == Append(s, a)
<1> DEFINE v == Append(u, b)
<1> DEFINE w == s \o e
<1>2. /\ u \in Seq(S) /\ Len(s) \in Nat /\ Len(u) = Len(s) + 1 /\ u[Len(s) + 1] = a
      /\ \A i \in 1 .. Len(s) : u[i] = s[i]
  BY AppendProperties, LenProperties
<1>3. e \in Seq(S) /\ Len(e) = 2 /\ e[1] = a /\ e[2] = b BY <1>1
<1> HIDE DEF u, e
<1>4. /\ v \in Seq(S) /\ Len(v) = Len(u) + 1 /\ v[Len(u) + 1] = b
      /\ \A i \in 1 .. Len(u) : v[i] = u[i]
  BY <1>2, AppendProperties
<1>5. /\ w \in Seq(S) /\ Len(w) = Len(s) + Len(e)
      /\ \A i \in 1 .. Len(s) + Len(e) : w[i] = IF i <= Len(s) THEN s[i] ELSE e[i - Len(s)]
  BY <1>3, ConcatProperties
<1> HIDE DEF v, w
<1>6. Len(v) = Len(w) BY <1>2, <1>3, <1>4, <1>5
<1>7. \A i \in 1 .. Len(v) : v[i] = w[i]
  <2> SUFFICES ASSUME NEW i \in 1 .. Len(v) PROVE v[i] = w[i] OBVIOUS
  <2>1. i \in 1 .. Len(s) \/ i = Len(s) + 1 \/ i = Len(s) + 2 BY <1>2, <1>4
  <2>2. CASE i \in 1 .. Len(s) BY <1>2, <1>3, <1>4, <1>5, <2>2
  <2>3. CASE i = Len(s) + 1
    <3>1. i - Len(s) = 1 /\ ~(i <= Len(s)) /\ i \in 1 .. Len(s) + Len(e) /\ i \in 1 .. Len(u)
      BY <1>2, <1>3, <2>3
    <3>2. w[i] = a BY <1>3, <1>5, <3>1
    <3>3. v[i] = a BY <1>2, <1>4, <2>3, <3>1
    <3> QED BY <3>2, <3>3
  <2>4. CASE i = Len(s) + 2
    <3>1. i - Len(s) = 2 /\ ~(i <= Len(s)) /\ i \in 1 .. Len(s) + Len(e) /\ i = Len(u) + 1
      BY <1>2, <1>3, <2>4
    <3>2. w[i] = b BY <1>3, <1>5, <3>1
    <3> QED BY <1>4, <3>1, <3>2
  <2> QED BY <2>1, <2>2, <2>3, <2>4
<1>8. v = w BY <1>4, <1>5, <1>6, <1>7, SeqEqual
<1> QED BY <1>8 DEF v, w, u, e

LEMMA OnTwo ==
  ASSUME NEW S, NEW s \in Seq(S), NEW a \in S, NEW b \in S, NEW x
  PROVE  On(s \o <<a, b>>, x) <=> On(s, x) \/ x = a \/ x = b
<1> DEFINE u == Append(s, a)
<1>1. u \in Seq(S) /\ (On(u, x) <=> On(s, x) \/ x = a) BY GrowType, OnGrow
<1>2. s \o <<a, b>> = Append(u, b) BY TwoIsAppends
<1> HIDE DEF u
<1>3. On(Append(u, b), x) <=> On(u, x) \/ x = b BY <1>1, OnGrow
<1> QED BY <1>1, <1>2, <1>3

LEMMA OnTail ==
  ASSUME NEW S, NEW s \in Seq(S), s # <<>>, NEW x
  PROVE  On(s, x) <=> On(Tail(s), x) \/ x = Head(s)
<1> DEFINE t == Tail(s)
<1>1. /\ Len(s) \in Nat \ {0} /\ Len(t) = Len(s) - 1 /\ Head(s) = s[1]
      /\ \A i \in 1 .. Len(t) : t[i] = s[i + 1]
  BY HeadTailProperties, EmptySeq
<1> HIDE DEF t
<1>2. \A i \in 1 .. Len(s) : i = 1 \/ (i - 1 \in 1 .. Len(t) /\ t[i - 1] = s[i])
  <2> SUFFICES ASSUME NEW i \in 1 .. Len(s), i # 1 PROVE i - 1 \in 1 .. Len(t) /\ t[i - 1] = s[i] OBVIOUS
  <2>1. i - 1 \in 1 .. Len(t) /\ (i - 1) + 1 = i BY <1>1
  <2> QED BY <1>1, <2>1
<1>3. \A i \in 1 .. Len(t) : i + 1 \in 1 .. Len(s) BY <1>1
<1>4. 1 \in 1 .. Len(s) BY <1>1
<1>5. On(s, x) <=> On(t, x) \/ x = Head(s) BY <1>1, <1>2, <1>3, <1>4 DEF On
<1> QED BY <1>5 DEF t

Popped == mux_queue # <<>> /\ mux_queue' = Tail(mux_queue)

\* VideoThread changes the queue by one packet, by a sentinel and the packet
\* behind it, or by its end-of-stream sentinel.
VideoQueue ==
  \/ UNCHANGED <<mux_queue, current_segment_index>>
  \/ \E p \in VideoPacket : vheld # <<>> /\ p = vheld[1] /\ ~Full /\ mux_queue' = Append(mux_queue, p)
                            /\ UNCHANGED current_segment_index
  \/ \E p \in VideoPacket :
       /\ vheld # <<>> /\ p = vheld[1] /\ ~Full /\ p.key
       /\ mux_queue' = mux_queue \o <<[kind |-> "split", index |-> current_segment_index + 1], p>>
       /\ current_segment_index' = current_segment_index + 1
  \/ /\ mux_queue' = Append(mux_queue, [kind |-> "video_eos"])
     /\ vpc = "eos" /\ vpc' = "done" /\ UNCHANGED current_segment_index

LEMMA VideoQueueStep ==
  ASSUME TypeOK, VideoNext
  PROVE  /\ VideoQueue /\ (HasFailure => HasFailure')
         /\ vpc' = "done" => \/ vpc = "done" \/ HasFailure'
                             \/ mux_queue' = Append(mux_queue, [kind |-> "video_eos"])
         /\ vpc = "done" => vpc' = "done" /\ UNCHANGED mux_queue
         /\ UNCHANGED <<apc, video_eos, audio_eos, asent, audio_premux, audio_epoch, untimed, segment, output>>
<1>0. failure \in {"None"} \cup Phases /\ vheld \in Seq(VideoPacket) BY DEF TypeOK, SessionType, VideoType
<1>1. UNCHANGED <<apc, video_eos, audio_eos, asent, audio_premux, audio_epoch, untimed, segment, output>>
  BY DEF VideoNext, VideoPrepare, VideoFirstFrame, VideoSubmit, VideoEncodeFail, VideoCaptureFail,
         VideoSourceLost, VideoLeaveLoop, VideoRoute, VideoFlushRoute, VideoRouteStep, VideoFlushCut,
         VideoPush, VideoNoRoom, VideoFlushed, VideoEos, VideoFrame
<1>2. CASE VideoPrepare
  BY <1>0, <1>1, <1>2 DEF VideoPrepare, VideoQueue, HasFailure, RecordFailure, Phases
<1>3. CASE \/ VideoFirstFrame \/ VideoSubmit \/ VideoEncodeFail \/ VideoCaptureFail \/ VideoSourceLost
           \/ VideoLeaveLoop \/ VideoFlushCut \/ VideoNoRoom \/ VideoFlushed
  <2>1. UNCHANGED <<mux_queue, current_segment_index>> /\ vpc # "done" /\ vpc' # "done"
    BY <1>3 DEF VideoFirstFrame, VideoSubmit, MaybeArmSplit, VideoEncodeFail, VideoCaptureFail, VideoSourceLost,
                VideoLeaveLoop, VideoFlushCut, VideoNoRoom, VideoFlushed, VideoInLoop
  <2>2. HasFailure => HasFailure'
    BY <1>0, <1>3 DEF VideoFirstFrame, VideoSubmit, VideoEncodeFail, VideoCaptureFail, VideoSourceLost,
                VideoLeaveLoop, VideoFlushCut, VideoNoRoom, VideoFlushed, RecordFailure, HasFailure, Phases
  <2> QED BY <1>1, <2>1, <2>2 DEF VideoQueue
<1>4. CASE VideoRoute \/ VideoFlushRoute
  <2>1. UNCHANGED <<mux_queue, current_segment_index>> /\ vpc # "done" /\ vpc' # "done"
    BY <1>4 DEF VideoRoute, VideoFlushRoute, VideoRouteStep
  <2>2. HasFailure => HasFailure'
    BY <1>0, <1>4 DEF VideoRoute, VideoFlushRoute, VideoRouteStep, RecordFailure, HasFailure, Phases
  <2> QED BY <1>1, <2>1, <2>2 DEF VideoQueue
<1>5. CASE VideoPush
  <2>1. vheld # <<>> /\ vheld[1] \in VideoPacket /\ ~Full BY <1>0, <1>5, ShrinkType DEF VideoPush
  <2>2. VideoQueue BY <1>5, <2>1 DEF VideoPush, VideoQueue, ShouldEmitSplitSentinel
  <2>3. vpc # "done" /\ vpc' = vpc /\ UNCHANGED failure BY <1>5 DEF VideoPush
  <2> QED BY <1>1, <2>2, <2>3 DEF HasFailure
<1>6. CASE VideoEos
  BY <1>1, <1>6 DEF VideoEos, VideoQueue, HasFailure
<1> QED BY <1>2, <1>3, <1>4, <1>5, <1>6 DEF VideoNext

LEMMA AudioQueueStep ==
  ASSUME TypeOK, NEW t \in Tracks, AudioNext(t)
  PROVE  /\ HasFailure => HasFailure'
         /\ UNCHANGED <<vpc, video_eos, audio_eos>>
         /\ \A u \in Tracks : u # t => apc'[u] = apc[u]
         /\ apc[t] = "done" => FALSE
         /\ apc'[t] = "done" => HasFailure' \/ mux_queue' = Append(mux_queue, [kind |-> "audio_eos", track |-> t])
         /\ mux_queue' = Append(mux_queue, [kind |-> "audio_eos", track |-> t]) => apc'[t] = "done"
<1>0. failure \in {"None"} \cup Phases /\ apc \in [Tracks -> {"prepare", "run", "wait", "flush", "done"}]
  BY DEF TypeOK, SessionType, AudioType
<1>1. AudioEffect(t) BY AudioEffects
<1>2. HasFailure => HasFailure' BY <1>1, SessionStepType DEF AudioEffect
<1>3. UNCHANGED <<vpc, video_eos, audio_eos>> BY <1>1 DEF AudioEffect, AudioFrame
<1>4. \A u \in Tracks : u # t => apc'[u] = apc[u] BY <1>0, <1>1 DEF AudioEffect
<1>5. apc[t] # "done"
  BY DEF AudioNext, AudioPrepare, AudioCapture, AudioCaptureFail, AudioLeaveLoop, AudioFlushRoute, AudioPush,
         AudioNoRoom, AudioEos
<1>6. mux_queue \in Seq(MuxItem) /\ [kind |-> "audio_eos", track |-> t] \in MuxItem
  BY DEF TypeOK, BufferType, MuxItem, Sentinel
<1>7. mux_queue # Append(mux_queue, [kind |-> "audio_eos", track |-> t])
  <2>1. Len(Append(mux_queue, [kind |-> "audio_eos", track |-> t])) = Len(mux_queue) + 1 /\ Len(mux_queue) \in Nat
    BY <1>6, AppendProperties, LenProperties
  <2> QED BY <2>1
<1>8. CASE AudioEos(t)
  <2>1. apc'[t] = "done" BY <1>0, <1>8 DEF AudioEos
  <2>2. mux_queue' = Append(mux_queue, [kind |-> "audio_eos", track |-> t]) BY <1>8 DEF AudioEos
  <2> QED BY <1>2, <1>3, <1>4, <1>5, <2>1, <2>2
<1>9. CASE AudioPush(t)
  <2>1. apc'[t] # "done" BY <1>0, <1>9 DEF AudioPush
  <2>2. mux_queue' = Append(mux_queue, NextAudioPacket(t)) BY <1>9 DEF AudioPush
  <2>3. NextAudioPacket(t) \in MuxItem /\ NextAudioPacket(t) # [kind |-> "audio_eos", track |-> t]
    BY NextAudioPacketType
  <2>4. mux_queue' # Append(mux_queue, [kind |-> "audio_eos", track |-> t])
    BY <1>6, <2>2, <2>3, AppendInjective
  <2> QED BY <1>2, <1>3, <1>4, <1>5, <2>1, <2>4
<1>10. CASE ~AudioEos(t) /\ ~AudioPush(t)
  <2>1. UNCHANGED mux_queue
    BY <1>10 DEF AudioNext, AudioPrepare, AudioCapture, AudioCaptureFail, AudioLeaveLoop, AudioFlushRoute,
                 AudioNoRoom, AudioRouteStep
  <2>2. apc'[t] = "done" => HasFailure'
    <3>1. CASE AudioPrepare(t) BY <1>0, <3>1 DEF AudioPrepare, RecordFailure, HasFailure, Phases
    <3>2. CASE ~AudioPrepare(t)
      <4>1. apc' = apc \/ apc' = [apc EXCEPT ![t] = "wait"] \/ apc' = [apc EXCEPT ![t] = "flush"]
        BY <1>10, <3>2 DEF AudioNext, AudioCapture, AudioCaptureFail, AudioLeaveLoop, AudioFlushRoute,
                 AudioNoRoom, AudioRouteStep
      <4> QED BY <1>0, <1>5, <4>1
    <3> QED BY <3>1, <3>2
  <2> QED BY <1>2, <1>3, <1>4, <1>5, <1>7, <2>1, <2>2
<1> QED BY <1>8, <1>9, <1>10

LEMMA MuxQueueStep ==
  ASSUME TypeOK, MuxNext
  PROVE  /\ HasFailure => HasFailure'
         /\ UNCHANGED <<vpc, apc>>
         /\ video_eos => video_eos'
         /\ \A t \in Tracks : audio_eos[t] => audio_eos'[t]
         /\ UNCHANGED mux_queue \/ Popped
         /\ Popped /\ Head(mux_queue).kind = "video_eos" => video_eos'
         /\ Popped /\ Head(mux_queue).kind = "audio_eos" => audio_eos'[Head(mux_queue).track]
<1>1. /\ mux_queue \in Seq(MuxItem) /\ audio_eos \in [Tracks -> BOOLEAN] BY DEF TypeOK, BufferType, MuxType
<1>2. UNCHANGED <<vpc, apc>>
  BY DEF MuxNext, MuxCheckHeaders, MuxBlock, MuxOpenFirst, MuxPremuxVideo, MuxPremuxAudio, MuxPremuxDone,
         MuxDrainHeld, MuxTop, MuxPopVideo, MuxPopAudio, MuxPopVideoEos, MuxPopAudioEos, MuxPopSplit,
         MuxQueueEmpty, MuxFinish, MuxPop, MuxFrame
<1>3. HasFailure => HasFailure'
  <2>1. failure \in {"None"} \cup Phases BY DEF TypeOK, SessionType
  <2>2. UNCHANGED failure \/ RecordFailure("Mux")
    BY DEF MuxNext, MuxCheckHeaders, MuxBlock, MuxOpenFirst, MuxPremuxVideo, MuxPremuxAudio, MuxPremuxDone,
         MuxDrainHeld, MuxTop, MuxPopVideo, MuxPopAudio, MuxPopVideoEos, MuxPopAudioEos, MuxPopSplit,
         MuxQueueEmpty, MuxFinish, HandleVideo, HandleAudio, PushVideo, BeginNewSegment
  <2> QED BY <2>1, <2>2 DEF RecordFailure, HasFailure
<1>4. mux_queue # <<>> => Tail(mux_queue) # mux_queue
  <2> SUFFICES ASSUME mux_queue # <<>> PROVE Tail(mux_queue) # mux_queue OBVIOUS
  <2>1. Len(Tail(mux_queue)) = Len(mux_queue) - 1 /\ Len(mux_queue) \in Nat BY <1>1, HeadTailProperties, LenProperties
  <2>2. \A n \in Nat : n - 1 # n OBVIOUS
  <2>3. Len(Tail(mux_queue)) # Len(mux_queue) BY <2>1, <2>2, Zenon
  <2> QED BY <2>3, Zenon
<1>5. CASE \/ MuxCheckHeaders \/ MuxBlock \/ MuxOpenFirst \/ MuxPremuxVideo \/ MuxPremuxAudio \/ MuxPremuxDone
           \/ MuxDrainHeld \/ MuxTop \/ MuxQueueEmpty \/ MuxFinish
  <2>1. UNCHANGED <<mux_queue, eos>>
    BY <1>5 DEF MuxCheckHeaders, MuxBlock, MuxOpenFirst, MuxPremuxVideo, MuxPremuxAudio, MuxPremuxDone,
         MuxDrainHeld, MuxTop, MuxQueueEmpty, MuxFinish
  <2> QED BY <1>2, <1>3, <1>4, <2>1 DEF Popped
<1>6. CASE MuxPopVideo \/ MuxPopAudio \/ MuxPopSplit
  <2>1. UNCHANGED eos /\ Popped /\ Head(mux_queue).kind \in {"video", "audio", "split"}
    BY <1>6 DEF MuxPopVideo, MuxPopAudio, MuxPopSplit, MuxPop, Popped
  <2> QED BY <1>2, <1>3, <2>1
<1>7. CASE MuxPopVideoEos
  <2>1. video_eos' = TRUE /\ UNCHANGED audio_eos /\ Popped /\ Head(mux_queue).kind = "video_eos"
    BY <1>7 DEF MuxPopVideoEos, MuxPop, Popped
  <2> QED BY <1>2, <1>3, <2>1
<1>8. CASE MuxPopAudioEos
  <2>1. /\ UNCHANGED video_eos /\ Popped /\ Head(mux_queue).kind = "audio_eos"
        /\ audio_eos' = [audio_eos EXCEPT ![Head(mux_queue).track] = TRUE]
    BY <1>8 DEF MuxPopAudioEos, MuxPop, Popped
  <2>2. Head(mux_queue).track \in Tracks BY <1>1, <2>1, ShrinkType, ItemKind DEF Popped
  <2>3. audio_eos'[Head(mux_queue).track] = TRUE /\ \A t \in Tracks : audio_eos[t] => audio_eos'[t]
    BY <1>1, <2>1, <2>2
  <2> QED BY <1>2, <1>3, <2>1, <2>3
<1> QED BY <1>5, <1>6, <1>7, <1>8 DEF MuxNext

\* What is in the queue stays until it is popped.
LEMMA QueueKeeps ==
  ASSUME TypeOK, NEW x, InQueue(x),
         \/ UNCHANGED mux_queue
         \/ \E a \in MuxItem : mux_queue' = Append(mux_queue, a)
         \/ \E a, b \in MuxItem : mux_queue' = mux_queue \o <<a, b>>
         \/ Popped /\ Head(mux_queue) # x
  PROVE  InQueue(x)'
<1>1. mux_queue \in Seq(MuxItem) /\ On(mux_queue, x) BY DEF TypeOK, BufferType, InQueue, On
<1>2. On(mux_queue', x)
  <2>1. CASE UNCHANGED mux_queue BY <1>1, <2>1
  <2>2. CASE \E a \in MuxItem : mux_queue' = Append(mux_queue, a) BY <1>1, <2>2, OnGrow
  <2>3. CASE \E a, b \in MuxItem : mux_queue' = mux_queue \o <<a, b>>
    <3>1. PICK a \in MuxItem, b \in MuxItem : mux_queue' = mux_queue \o <<a, b>> BY <2>3
    <3>2. On(mux_queue \o <<a, b>>, x) BY <1>1, OnTwo
    <3> QED BY <3>1, <3>2
  <2>4. CASE Popped /\ Head(mux_queue) # x BY <1>1, <2>4, OnTail DEF Popped
  <2> QED BY <2>1, <2>2, <2>3, <2>4
<1> QED BY <1>2 DEF InQueue, On

LEMMA NextExit == TypeOK /\ NoSilentExit /\ [Next]_vars => NoSilentExit'
<1> SUFFICES ASSUME TypeOK, NoSilentExit, [Next]_vars PROVE NoSilentExit' OBVIOUS
<1> DEFINE V == [kind |-> "video_eos"]
<1> DEFINE A(t) == [kind |-> "audio_eos", track |-> t]
<1>1. mux_queue \in Seq(MuxItem) /\ V \in MuxItem /\ \A t \in Tracks : A(t) \in MuxItem
  BY DEF TypeOK, BufferType, MuxItem, Sentinel
<1>2. CASE VideoNext
  <2>1. /\ HasFailure => HasFailure'
        /\ vpc' = "done" => vpc = "done" \/ HasFailure' \/ mux_queue' = Append(mux_queue, V)
        /\ UNCHANGED <<apc, video_eos, audio_eos>> /\ VideoQueue
    BY <1>2, VideoQueueStep
  <2>2. \A x : InQueue(x) => InQueue(x)'
    <3> SUFFICES ASSUME NEW x, InQueue(x) PROVE InQueue(x)' OBVIOUS
    <3>1. \A p \in VideoPacket : p \in MuxItem BY DEF MuxItem
    <3>2. [kind |-> "split", index |-> current_segment_index + 1] \in MuxItem
      BY DEF TypeOK, VideoType, MuxItem, Sentinel
    <3> QED BY <1>1, <2>1, <3>1, <3>2, QueueKeeps DEF VideoQueue
  <2>3. mux_queue' = Append(mux_queue, V) => InQueue(V)'
    <3>1. On(Append(mux_queue, V), V) BY <1>1, OnGrow
    <3> QED BY <3>1 DEF InQueue, On
  <2> QED BY <2>1, <2>2, <2>3 DEF NoSilentExit
<1>3. ASSUME NEW t \in Tracks, AudioNext(t) PROVE NoSilentExit'
  <2>1. AudioEffect(t) BY <1>3, AudioEffects
  <2>2. \A x : InQueue(x) => InQueue(x)'
    <3> SUFFICES ASSUME NEW x, InQueue(x) PROVE InQueue(x)' OBVIOUS
    <3> QED BY <1>1, <2>1, QueueKeeps, NextAudioPacketType DEF AudioEffect
  <2>3. mux_queue' = Append(mux_queue, A(t)) => InQueue(A(t))'
    <3>1. On(Append(mux_queue, A(t)), A(t)) BY <1>1, OnGrow
    <3> QED BY <3>1 DEF InQueue, On
  <2>4. /\ HasFailure => HasFailure'
        /\ UNCHANGED <<vpc, video_eos, audio_eos>>
        /\ \A u \in Tracks : u # t => apc'[u] = apc[u]
        /\ apc'[t] = "done" => HasFailure' \/ mux_queue' = Append(mux_queue, A(t))
    BY <1>3, AudioQueueStep
  <2>5. \A u \in Tracks : apc'[u] = "done" => HasFailure' \/ audio_eos'[u] \/ InQueue(A(u))'
    BY <2>2, <2>3, <2>4 DEF NoSilentExit
  <2>6. vpc' = "done" => HasFailure' \/ video_eos' \/ InQueue(V)' BY <2>2, <2>4 DEF NoSilentExit
  <2> QED BY <2>5, <2>6 DEF NoSilentExit
<1>4. CASE MuxNext
  <2>1. /\ HasFailure => HasFailure'
        /\ UNCHANGED <<vpc, apc>>
        /\ video_eos => video_eos'
        /\ \A t \in Tracks : audio_eos[t] => audio_eos'[t]
        /\ UNCHANGED mux_queue \/ Popped
        /\ Popped /\ Head(mux_queue).kind = "video_eos" => video_eos'
        /\ Popped /\ Head(mux_queue).kind = "audio_eos" => audio_eos'[Head(mux_queue).track]
    BY <1>4, MuxQueueStep
  <2>2. \A x : InQueue(x) => InQueue(x)' \/ (Popped /\ Head(mux_queue) = x)
    BY <2>1, QueueKeeps
  <2>3. InQueue(V) => InQueue(V)' \/ video_eos' BY <2>1, <2>2
  <2>4. \A t \in Tracks : InQueue(A(t)) => InQueue(A(t))' \/ audio_eos'[t] BY <2>1, <2>2
  <2> QED BY <2>1, <2>3, <2>4 DEF NoSilentExit
<1>5. CASE NotifyWaiters \/ CallerStop \/ RequestSplit \/ UNCHANGED vars
  <2>1. UNCHANGED <<failure, vpc, apc, video_eos, audio_eos, mux_queue>>
    BY <1>5 DEF NotifyWaiters, CallerStop, RequestSplit, vars
  <2> QED BY <2>1 DEF NoSilentExit, HasFailure, InQueue
<1> QED BY <1>2, <1>3, <1>4, <1>5 DEF Next, Terminated

\* A producer that ended has delivered its end-of-stream sentinel or recorded
\* the failure that makes MuxThread stop waiting, for any number of tracks.
THEOREM ProducersAnnounceEnd == Spec => []NoSilentExit
<1>1. Init => NoSilentExit BY DEF Init, NoSilentExit
<1>2. TypeOK /\ NoSilentExit /\ [Next]_vars => NoSilentExit' BY NextExit
<1> QED BY <1>1, <1>2, TypeCorrect, PTL DEF Spec

-----------------------------------------------------------------------------
(* The bound of the queue *)

MediaIdx(s) == {i \in 1 .. Len(s) : s[i].kind \in {"video", "audio"}}

LEMMA MediaCount ==
  ASSUME NEW S, NEW s \in Seq(S)
  PROVE  /\ IsFiniteSet(MediaIdx(s)) /\ Cardinality(MediaIdx(s)) \in Nat
         /\ Cardinality(MediaIdx(s)) <= Len(s)
<1>1. Len(s) \in Nat BY LenProperties
<1>2. IsFiniteSet(1 .. Len(s)) /\ Cardinality(1 .. Len(s)) = Len(s)
  <2>1. 1 \in Int /\ Len(s) \in Int BY <1>1
  <2>2. IsFiniteSet(1 .. Len(s)) /\ Cardinality(1 .. Len(s)) = IF 1 > Len(s) THEN 0 ELSE Len(s) - 1 + 1
    BY <2>1, FS_Interval
  <2> QED BY <1>1, <2>2
<1>3. MediaIdx(s) \in SUBSET (1 .. Len(s)) BY DEF MediaIdx
<1>4. IsFiniteSet(MediaIdx(s)) /\ Cardinality(MediaIdx(s)) <= Cardinality(1 .. Len(s)) BY <1>2, <1>3, FS_Subset
<1> QED BY <1>2, <1>4, FS_CardinalityType

LEMMA MediaGrow ==
  ASSUME NEW S, NEW s \in Seq(S), NEW e \in S
  PROVE  /\ Cardinality(MediaIdx(Append(s, e))) <= Cardinality(MediaIdx(s)) + 1
         /\ e.kind \notin {"video", "audio"} => MediaIdx(Append(s, e)) = MediaIdx(s)
<1> DEFINE t == Append(s, e)
<1>1. /\ Len(s) \in Nat /\ Len(t) = Len(s) + 1 /\ t[Len(s) + 1] = e
      /\ \A i \in 1 .. Len(s) : t[i] = s[i]
  BY AppendProperties, LenProperties
<1> HIDE DEF t
<1>2. \A i \in 1 .. Len(t) : i \in 1 .. Len(s) \/ i = Len(s) + 1 BY <1>1
<1>3. \A i \in 1 .. Len(s) : i \in 1 .. Len(t) BY <1>1
<1>4. MediaIdx(t) \in SUBSET (MediaIdx(s) \cup {Len(s) + 1}) BY <1>1, <1>2 DEF MediaIdx
<1>5. e.kind \notin {"video", "audio"} => MediaIdx(t) = MediaIdx(s) BY <1>1, <1>2, <1>3 DEF MediaIdx
<1>6. IsFiniteSet(MediaIdx(s)) /\ Cardinality(MediaIdx(s)) \in Nat BY MediaCount
<1>7. /\ IsFiniteSet(MediaIdx(s) \cup {Len(s) + 1})
      /\ Cardinality(MediaIdx(s) \cup {Len(s) + 1}) =
           IF Len(s) + 1 \in MediaIdx(s) THEN Cardinality(MediaIdx(s)) ELSE Cardinality(MediaIdx(s)) + 1
  BY <1>6, FS_AddElement
<1>8. /\ IsFiniteSet(MediaIdx(t))
      /\ Cardinality(MediaIdx(t)) <= Cardinality(MediaIdx(s) \cup {Len(s) + 1})
  BY <1>4, <1>7, FS_Subset
<1>9. Cardinality(MediaIdx(t)) \in Nat BY <1>8, FS_CardinalityType
<1>10. Cardinality(MediaIdx(t)) <= Cardinality(MediaIdx(s)) + 1 BY <1>6, <1>7, <1>8, <1>9
<1> QED BY <1>5, <1>10 DEF t

LEMMA MediaPop ==
  ASSUME NEW S, NEW s \in Seq(S), s # <<>>
  PROVE  Cardinality(MediaIdx(Tail(s))) <= Cardinality(MediaIdx(s))
<1> DEFINE t == Tail(s)
<1> DEFINE f == [i \in MediaIdx(t) |-> i + 1]
<1>1. /\ Len(s) \in Nat \ {0} /\ Len(t) = Len(s) - 1
      /\ \A i \in 1 .. Len(t) : t[i] = s[i + 1]
  BY HeadTailProperties, EmptySeq
<1> HIDE DEF t
<1>2. \A i \in MediaIdx(t) : i \in Int /\ i + 1 \in MediaIdx(s)
  <2> SUFFICES ASSUME NEW i \in MediaIdx(t) PROVE i \in Int /\ i + 1 \in MediaIdx(s) OBVIOUS
  <2>1. i \in 1 .. Len(t) /\ t[i].kind \in {"video", "audio"} BY DEF MediaIdx
  <2>2. i \in Int /\ i + 1 \in 1 .. Len(s) /\ s[i + 1] = t[i] BY <1>1, <2>1
  <2> QED BY <2>1, <2>2 DEF MediaIdx
<1>3. f \in [MediaIdx(t) -> MediaIdx(s)] BY <1>2
<1>4. IsInjective(f)
  <2> SUFFICES ASSUME NEW a \in MediaIdx(t), NEW b \in MediaIdx(t), f[a] = f[b] PROVE a = b BY DEF IsInjective
  <2>1. a + 1 = b + 1 OBVIOUS
  <2> QED BY <1>2, <2>1
<1>5. f \in Injection(MediaIdx(t), MediaIdx(s)) BY <1>3, <1>4 DEF Injection
<1>6. IsFiniteSet(MediaIdx(s)) BY MediaCount
<1>7. Cardinality(MediaIdx(t)) <= Cardinality(MediaIdx(s)) BY <1>5, <1>6, FS_Injection
<1> QED BY <1>7 DEF t

Done == {t \in Tracks : apc[t] = "done"}
VideoDone == IF vpc = "done" THEN 1 ELSE 0

\* What exceeds the bound is the split sentinel and the end-of-stream sentinels
\* of the producers that ended.
RoomInv ==
  /\ Cardinality(MediaIdx(mux_queue)) <= QueueLimit
  /\ Len(mux_queue) <= QueueLimit + 1 + VideoDone + Cardinality(Done)

LEMMA DoneCount ==
  /\ IsFiniteSet(Done) /\ Cardinality(Done) \in Nat /\ Cardinality(Done) <= Cardinality(Tracks)
  /\ Cardinality(Tracks) \in Nat
<1>1. Done \in SUBSET Tracks BY DEF Done
<1> QED BY <1>1, TracksAssumption, FS_Subset, FS_CardinalityType DEF TracksAssumption

\* The media packets and the length of the queue after each change.
LEMMA RoomAfter ==
  ASSUME TypeOK, RoomInv
  PROVE  /\ \A e \in MuxItem : ~Full => /\ Cardinality(MediaIdx(Append(mux_queue, e))) <= QueueLimit
                                        /\ Len(Append(mux_queue, e)) <= QueueLimit + 1
         /\ \A a, b \in MuxItem : ~Full /\ a.kind = "split" =>
              /\ Cardinality(MediaIdx(mux_queue \o <<a, b>>)) <= QueueLimit
              /\ Len(mux_queue \o <<a, b>>) <= QueueLimit + 1
         /\ \A e \in MuxItem : e.kind \in {"video_eos", "audio_eos"} =>
              /\ Cardinality(MediaIdx(Append(mux_queue, e))) <= QueueLimit
              /\ Len(Append(mux_queue, e)) = Len(mux_queue) + 1
         /\ mux_queue # <<>> => /\ Cardinality(MediaIdx(Tail(mux_queue))) <= QueueLimit
                                /\ Len(Tail(mux_queue)) = Len(mux_queue) - 1
<1>1. /\ mux_queue \in Seq(MuxItem) /\ Len(mux_queue) \in Nat /\ QueueLimit \in Nat
      /\ Cardinality(MediaIdx(mux_queue)) \in Nat /\ Cardinality(MediaIdx(mux_queue)) <= Len(mux_queue)
  BY MediaCount, LenProperties, BoundsAssumption DEF TypeOK, BufferType, BoundsAssumption
<1>2. ASSUME NEW e \in MuxItem
      PROVE  /\ Len(Append(mux_queue, e)) = Len(mux_queue) + 1 /\ Append(mux_queue, e) \in Seq(MuxItem)
             /\ Cardinality(MediaIdx(Append(mux_queue, e))) \in Nat
             /\ Cardinality(MediaIdx(Append(mux_queue, e))) <= Cardinality(MediaIdx(mux_queue)) + 1
  BY <1>1, AppendProperties, MediaCount, MediaGrow
<1>3. ASSUME NEW e \in MuxItem, ~Full
      PROVE  /\ Cardinality(MediaIdx(Append(mux_queue, e))) <= QueueLimit
             /\ Len(Append(mux_queue, e)) <= QueueLimit + 1
  <2> DEFINE c == Cardinality(MediaIdx(Append(mux_queue, e)))
  <2> DEFINE l == Len(Append(mux_queue, e))
  <2>1. /\ c \in Nat /\ c <= Cardinality(MediaIdx(mux_queue)) + 1
        /\ l = Len(mux_queue) + 1 /\ ~(Len(mux_queue) >= QueueLimit)
    BY <1>2, <1>3 DEF Full
  <2> HIDE DEF c, l
  <2>2. c <= QueueLimit /\ l <= QueueLimit + 1 BY <1>1, <2>1
  <2> QED BY <2>2 DEF c, l
<1>4. ASSUME NEW a \in MuxItem, NEW b \in MuxItem, ~Full, a.kind = "split"
      PROVE  /\ Cardinality(MediaIdx(mux_queue \o <<a, b>>)) <= QueueLimit
             /\ Len(mux_queue \o <<a, b>>) <= QueueLimit + 1
  <2> DEFINE u == Append(mux_queue, a)
  <2> DEFINE v == Append(u, b)
  <2>1. v = mux_queue \o <<a, b>> BY <1>1, TwoIsAppends
  <2>2. u \in Seq(MuxItem) /\ Len(u) = Len(mux_queue) + 1 BY <1>2
  <2>3. MediaIdx(u) = MediaIdx(mux_queue) BY <1>1, <1>4, MediaGrow
  <2> HIDE DEF u
  <2>4. Cardinality(MediaIdx(v)) <= Cardinality(MediaIdx(u)) + 1 BY <2>2, MediaGrow
  <2>5. v \in Seq(MuxItem) /\ Len(v) = Len(u) + 1 BY <2>2, AppendProperties
  <2>6. Cardinality(MediaIdx(v)) \in Nat BY <2>5, MediaCount
  <2> DEFINE c == Cardinality(MediaIdx(v))
  <2>7. /\ c \in Nat /\ c <= Cardinality(MediaIdx(mux_queue)) + 1 /\ Len(v) = Len(mux_queue) + 2
        /\ ~(Len(mux_queue) >= QueueLimit)
    BY <1>1, <1>4, <2>2, <2>3, <2>4, <2>5, <2>6 DEF Full
  <2> HIDE DEF c, v
  <2>8. c <= QueueLimit /\ Len(v) <= QueueLimit + 1 BY <1>1, <2>7
  <2> QED BY <2>1, <2>8 DEF c
<1>5. ASSUME NEW e \in MuxItem, e.kind \in {"video_eos", "audio_eos"}
      PROVE  /\ Cardinality(MediaIdx(Append(mux_queue, e))) <= QueueLimit
             /\ Len(Append(mux_queue, e)) = Len(mux_queue) + 1
  <2>1. MediaIdx(Append(mux_queue, e)) = MediaIdx(mux_queue) BY <1>1, <1>5, MediaGrow
  <2> QED BY <1>2, <2>1 DEF RoomInv
<1>6. ASSUME mux_queue # <<>>
      PROVE  /\ Cardinality(MediaIdx(Tail(mux_queue))) <= QueueLimit
             /\ Len(Tail(mux_queue)) = Len(mux_queue) - 1
  <2>1. Tail(mux_queue) \in Seq(MuxItem) /\ Len(Tail(mux_queue)) = Len(mux_queue) - 1
    BY <1>1, <1>6, HeadTailProperties
  <2>2. Cardinality(MediaIdx(Tail(mux_queue))) <= Cardinality(MediaIdx(mux_queue)) BY <1>1, <1>6, MediaPop
  <2> DEFINE c == Cardinality(MediaIdx(Tail(mux_queue)))
  <2>3. c \in Nat /\ c <= Cardinality(MediaIdx(mux_queue)) BY <2>1, <2>2, MediaCount
  <2> HIDE DEF c
  <2>4. c <= QueueLimit BY <1>1, <2>3 DEF RoomInv
  <2> QED BY <2>1, <2>4 DEF c
<1> QED BY <1>3, <1>4, <1>5, <1>6

LEMMA NextRoom == TypeOK /\ RoomInv /\ [Next]_vars => RoomInv'
<1> SUFFICES ASSUME TypeOK, RoomInv, [Next]_vars PROVE RoomInv' OBVIOUS
<1> DEFINE V == [kind |-> "video_eos"]
<1> DEFINE A(t) == [kind |-> "audio_eos", track |-> t]
<1>1. /\ mux_queue \in Seq(MuxItem) /\ Len(mux_queue) \in Nat /\ QueueLimit \in Nat
      /\ V \in MuxItem /\ V.kind = "video_eos"
      /\ \A t \in Tracks : A(t) \in MuxItem /\ A(t).kind = "audio_eos"
      /\ VideoDone \in {0, 1} /\ VideoDone' \in {0, 1}
  BY LenProperties, BoundsAssumption
     DEF TypeOK, BufferType, MuxItem, Sentinel, BoundsAssumption, VideoDone
<1> HIDE DEF V, A
<1>2. /\ IsFiniteSet(Done) /\ Cardinality(Done) \in Nat BY DoneCount
<1>3. CASE VideoNext
  <2>1. /\ VideoQueue /\ UNCHANGED apc
        /\ vpc = "done" => vpc' = "done" /\ UNCHANGED mux_queue
    BY <1>3, VideoQueueStep
  <2>2. Done' = Done BY <2>1 DEF Done
  <2>3. VideoDone <= VideoDone' BY <2>1 DEF VideoDone
  <2>4. CASE UNCHANGED mux_queue BY <1>1, <1>2, <2>2, <2>3, <2>4 DEF RoomInv
  <2>5. ASSUME NEW p \in VideoPacket, ~Full, mux_queue' = Append(mux_queue, p) PROVE RoomInv'
    <3>1. p \in MuxItem BY DEF MuxItem
    <3>2. Cardinality(MediaIdx(mux_queue')) <= QueueLimit /\ Len(mux_queue') <= QueueLimit + 1
      BY <2>5, <3>1, RoomAfter
    <3> DEFINE l == Len(mux_queue')
    <3>3. mux_queue' \in Seq(MuxItem) BY <1>1, <2>5, <3>1, GrowType
    <3>4. l \in Nat /\ l <= QueueLimit + 1 BY <3>2, <3>3, LenProperties
    <3> HIDE DEF l
    <3>5. l <= QueueLimit + 1 + VideoDone' + Cardinality(Done) BY <1>1, <1>2, <3>4
    <3> QED BY <2>2, <3>2, <3>5 DEF RoomInv, l
  <2>6. ASSUME NEW p \in VideoPacket, ~Full,
               mux_queue' = mux_queue \o <<[kind |-> "split", index |-> current_segment_index + 1], p>>
        PROVE  RoomInv'
    <3> DEFINE a == [kind |-> "split", index |-> current_segment_index + 1]
    <3>1. p \in MuxItem /\ a \in MuxItem /\ a.kind = "split" BY DEF TypeOK, VideoType, MuxItem, Sentinel
    <3>2. mux_queue' = mux_queue \o <<a, p>> BY <2>6
    <3> HIDE DEF a
    <3>3. Cardinality(MediaIdx(mux_queue')) <= QueueLimit /\ Len(mux_queue') <= QueueLimit + 1
      BY <2>6, <3>1, <3>2, RoomAfter
    <3> DEFINE l == Len(mux_queue')
    <3>4. mux_queue' \in Seq(MuxItem)
      <4>1. Append(mux_queue, a) \in Seq(MuxItem) BY <1>1, <3>1, GrowType
      <4>2. Append(Append(mux_queue, a), p) \in Seq(MuxItem) BY <3>1, <4>1, GrowType
      <4> QED BY <1>1, <3>1, <3>2, <4>2, TwoIsAppends
    <3>5. l \in Nat /\ l <= QueueLimit + 1 BY <3>3, <3>4, LenProperties
    <3> HIDE DEF l
    <3>6. l <= QueueLimit + 1 + VideoDone' + Cardinality(Done) BY <1>1, <1>2, <3>5
    <3> QED BY <2>2, <3>3, <3>6 DEF RoomInv, l
  <2>7. CASE mux_queue' = Append(mux_queue, V) /\ vpc = "eos" /\ vpc' = "done"
    <3>1. Cardinality(MediaIdx(mux_queue')) <= QueueLimit /\ Len(mux_queue') = Len(mux_queue) + 1
      BY <1>1, <2>7, RoomAfter
    <3>2. VideoDone = 0 /\ VideoDone' = 1 BY <2>7 DEF VideoDone
    <3>3. Len(mux_queue) <= QueueLimit + 1 + Cardinality(Done) BY <1>1, <1>2, <3>2 DEF RoomInv
    <3>4. Len(mux_queue) + 1 <= QueueLimit + 1 + VideoDone' + Cardinality(Done) BY <1>1, <1>2, <3>2, <3>3
    <3> QED BY <2>2, <3>1, <3>4 DEF RoomInv
  <2> QED BY <2>1, <2>4, <2>5, <2>6, <2>7 DEF VideoQueue, V
<1>4. ASSUME NEW t \in Tracks, AudioNext(t) PROVE RoomInv'
  <2>1. AudioEffect(t) BY <1>4, AudioEffects
  <2>2. /\ vpc' = vpc /\ apc[t] # "done"
        /\ \A u \in Tracks : u # t => apc'[u] = apc[u]
        /\ mux_queue' = Append(mux_queue, A(t)) => apc'[t] = "done"
    BY <1>4, AudioQueueStep DEF A
  <2>3. VideoDone' = VideoDone BY <2>2 DEF VideoDone
  <2>4. /\ t \notin Done /\ (Done' = Done \/ Done' = Done \cup {t})
        /\ apc'[t] = "done" => Done' = Done \cup {t}
    BY <2>2 DEF Done
  <2>5. Cardinality(Done \cup {t}) = Cardinality(Done) + 1 BY <1>2, <2>4, FS_AddElement
  <2>6. Cardinality(Done') \in Nat /\ Cardinality(Done) <= Cardinality(Done') BY <1>2, <2>4, <2>5
  <2>7. CASE UNCHANGED mux_queue BY <1>1, <1>2, <2>3, <2>6, <2>7 DEF RoomInv
  <2>8. CASE mux_queue' = Append(mux_queue, NextAudioPacket(t)) /\ ~Full
    <3>1. NextAudioPacket(t) \in MuxItem BY NextAudioPacketType
    <3>2. Cardinality(MediaIdx(mux_queue')) <= QueueLimit /\ Len(mux_queue') <= QueueLimit + 1
      BY <2>8, <3>1, RoomAfter
    <3> DEFINE l == Len(mux_queue')
    <3>3. mux_queue' \in Seq(MuxItem) BY <1>1, <2>8, <3>1, GrowType
    <3>4. l \in Nat /\ l <= QueueLimit + 1 BY <3>2, <3>3, LenProperties
    <3> HIDE DEF l
    <3>5. l <= QueueLimit + 1 + VideoDone' + Cardinality(Done') BY <1>1, <2>6, <3>4
    <3> QED BY <3>2, <3>5 DEF RoomInv, l
  <2>9. CASE mux_queue' = Append(mux_queue, A(t))
    <3>1. Cardinality(MediaIdx(mux_queue')) <= QueueLimit /\ Len(mux_queue') = Len(mux_queue) + 1
      BY <1>1, <2>9, RoomAfter
    <3>2. Cardinality(Done') = Cardinality(Done) + 1 BY <2>2, <2>4, <2>5, <2>9
    <3>3. Len(mux_queue) + 1 <= QueueLimit + 1 + VideoDone' + Cardinality(Done')
      BY <1>1, <1>2, <2>3, <3>2 DEF RoomInv
    <3> QED BY <3>1, <3>3 DEF RoomInv
  <2> QED BY <2>1, <2>7, <2>8, <2>9 DEF AudioEffect, A
<1>5. CASE MuxNext
  <2>1. UNCHANGED <<vpc, apc>> /\ (UNCHANGED mux_queue \/ Popped) BY <1>5, MuxQueueStep
  <2>2. Done' = Done /\ VideoDone' = VideoDone BY <2>1 DEF Done, VideoDone
  <2>3. CASE UNCHANGED mux_queue BY <2>2, <2>3 DEF RoomInv
  <2>4. CASE Popped
    <3>1. Cardinality(MediaIdx(mux_queue')) <= QueueLimit /\ Len(mux_queue') = Len(mux_queue) - 1
      BY <2>4, RoomAfter DEF Popped
    <3>2. Len(mux_queue) - 1 <= QueueLimit + 1 + VideoDone + Cardinality(Done) BY <1>1, <1>2 DEF RoomInv
    <3> QED BY <2>2, <3>1, <3>2 DEF RoomInv
  <2> QED BY <2>1, <2>3, <2>4
<1>6. CASE NotifyWaiters \/ CallerStop \/ RequestSplit \/ UNCHANGED vars
  <2>1. UNCHANGED <<vpc, apc, mux_queue>> BY <1>6 DEF NotifyWaiters, CallerStop, RequestSplit, vars
  <2> QED BY <2>1 DEF RoomInv, Done, VideoDone
<1> QED BY <1>3, <1>4, <1>5, <1>6 DEF Next, Terminated

\* For every limit and every number of producers the queue holds at most
\* mux_queue_packet_limit media packets, although each producer tests the bound
\* for itself; what exceeds it is one split sentinel and one end-of-stream
\* sentinel per producer, never a backlog.
THEOREM QueueStaysBounded == Spec => []QueueBounded
<1>1. Init => RoomInv
  <2> SUFFICES ASSUME Init PROVE RoomInv OBVIOUS
  <2>1. mux_queue = <<>> /\ vpc = "prepare" BY DEF Init
  <2>2. MediaIdx(<<>>) = {} /\ Len(<<>>) = 0 BY DEF MediaIdx
  <2>3. QueueLimit \in Nat BY BoundsAssumption DEF BoundsAssumption
  <2>4. VideoDone = 0 BY <2>1 DEF VideoDone
  <2>5. Cardinality(MediaIdx(mux_queue)) = 0 BY <2>1, <2>2, FS_EmptySet
  <2>6. Len(mux_queue) = 0 BY <2>1, <2>2
  <2> QED BY <2>3, <2>4, <2>5, <2>6, DoneCount DEF RoomInv
<1>2. TypeOK /\ RoomInv => QueueBounded
  <2> SUFFICES ASSUME TypeOK, RoomInv PROVE QueueBounded OBVIOUS
  <2>0. Len(mux_queue) \in Nat BY LenProperties DEF TypeOK, BufferType
  <2>1. VideoDone \in {0, 1} /\ QueueLimit \in Nat BY BoundsAssumption DEF BoundsAssumption, VideoDone
  <2>2. QueueLimit + 1 + VideoDone + Cardinality(Done) <= QueueLimit + 2 + Cardinality(Tracks)
    BY <2>1, DoneCount
  <2> QED BY <2>0, <2>1, <2>2, DoneCount DEF RoomInv, QueueBounded, MediaIdx
<1>3. TypeOK /\ RoomInv /\ [Next]_vars => RoomInv' BY NextRoom
<1> QED BY <1>1, <1>2, <1>3, TypeCorrect, PTL DEF Spec

-----------------------------------------------------------------------------
(* The video epoch is published before MuxThread handles a packet *)

\* A packet exists only once the epoch is published, the video header comes
\* from a packet, and MuxThread goes on only with the header.
EpochInv ==
  /\ in_flight # <<>> \/ vheld # <<>> \/ video_ready => video_epoch # 0
  /\ mpc \in {"open", "premux", "top", "pop", "final"} => video_ready

LEMMA InitEpoch == Init => EpochInv
BY DEF Init, EpochInv

LEMMA VideoEpochStep == EpochInv /\ VideoNext => EpochInv'
<1> SUFFICES ASSUME EpochInv, VideoNext PROVE EpochInv'
  OBVIOUS
<1>1. CASE \/ VideoPrepare \/ VideoEncodeFail \/ VideoCaptureFail
          \/ VideoSourceLost \/ VideoLeaveLoop
  BY <1>1 DEF VideoPrepare, VideoEncodeFail, VideoCaptureFail, VideoSourceLost,
              VideoLeaveLoop, EpochInv
<1>2. CASE VideoFirstFrame
  BY <1>2, EpochAssumption DEF VideoFirstFrame, EpochAssumption, EpochInv
<1>3. CASE VideoSubmit
  BY <1>3 DEF VideoSubmit, EpochInv
<1>4. CASE VideoRoute \/ VideoFlushRoute
  <2>1. /\ video_epoch # 0 /\ video_epoch' = video_epoch
        /\ video_ready' \in HeaderAfter(Head(in_flight))
        /\ mpc' = mpc \/ mpc' = "check"
    BY <1>4 DEF VideoRoute, VideoFlushRoute, VideoRouteStep, WakeMux, EpochInv
  <2>2. video_ready => video_ready'
    BY <2>1 DEF HeaderAfter
  <2> QED
    BY <2>1, <2>2 DEF EpochInv
<1>5. CASE VideoFlushCut \/ VideoFlushed \/ VideoEos
  BY <1>5 DEF VideoFlushCut, VideoFlushed, VideoEos, EpochInv
<1>6. CASE VideoPush \/ VideoNoRoom
  BY <1>6 DEF VideoPush, VideoNoRoom, EpochInv
<1> QED
  BY <1>1, <1>2, <1>3, <1>4, <1>5, <1>6 DEF VideoNext

LEMMA AudioEpochStep ==
  ASSUME EpochInv, NEW t \in Tracks, AudioNext(t)
  PROVE  EpochInv'
<1>1. /\ UNCHANGED <<in_flight, vheld, video_ready, video_epoch>>
      /\ mpc' = mpc \/ mpc' = "check"
  BY DEF AudioNext, AudioFrame, AudioRouteStep, AudioPrepare, AudioCapture,
         AudioCaptureFail, AudioLeaveLoop, AudioFlushRoute, AudioPush,
         AudioNoRoom, AudioEos
<1> QED
  BY <1>1 DEF EpochInv

LEMMA MuxEpochStep == EpochInv /\ MuxNext => EpochInv'
<1> SUFFICES ASSUME EpochInv, MuxNext PROVE EpochInv'
  OBVIOUS
<1>1. UNCHANGED <<in_flight, vheld, video_ready, video_epoch>>
  BY DEF MuxNext, MuxFrame, MuxCheckHeaders, MuxBlock, MuxOpenFirst,
         MuxPremuxVideo, MuxPremuxAudio, MuxPremuxDone, MuxDrainHeld, MuxTop,
         MuxPopVideo, MuxPopAudio, MuxPopVideoEos, MuxPopAudioEos, MuxPopSplit,
         MuxQueueEmpty, MuxFinish, MuxPop
<1>2. CASE MuxCheckHeaders
  BY <1>1, <1>2 DEF MuxCheckHeaders, BothReady, EpochInv
<1>3. CASE MuxBlock \/ MuxFinish
  BY <1>1, <1>3 DEF MuxBlock, MuxFinish, EpochInv
<1>4. CASE \/ MuxOpenFirst \/ MuxPremuxVideo \/ MuxPremuxAudio \/ MuxPremuxDone
           \/ MuxDrainHeld \/ MuxTop \/ MuxPopVideo \/ MuxPopAudio
           \/ MuxPopVideoEos \/ MuxPopAudioEos \/ MuxPopSplit \/ MuxQueueEmpty
  <2>1. mpc \in {"open", "premux", "top", "pop", "final"}
    BY <1>4 DEF MuxOpenFirst, MuxPremuxVideo, MuxPremuxAudio, MuxPremuxDone,
                MuxDrainHeld, MuxTop, MuxPopVideo, MuxPopAudio, MuxPopVideoEos,
                MuxPopAudioEos, MuxPopSplit, MuxQueueEmpty, MuxPop
  <2> QED
    BY <1>1, <2>1 DEF EpochInv
<1> QED
  BY <1>2, <1>3, <1>4 DEF MuxNext

LEMMA NextEpoch == EpochInv /\ [Next]_vars => EpochInv'
<1> SUFFICES ASSUME EpochInv, [Next]_vars PROVE EpochInv' OBVIOUS
<1>1. CASE NotifyWaiters \/ CallerStop \/ RequestSplit
  BY <1>1 DEF NotifyWaiters, CallerStop, RequestSplit, EpochInv
<1>2. CASE UNCHANGED vars BY <1>2 DEF vars, EpochInv
<1> QED BY <1>1, <1>2, VideoEpochStep, AudioEpochStep, MuxEpochStep DEF Next, Terminated

\* MuxThread never handles a packet before the video epoch is published, so
\* its hold for audio without an epoch is dead code.
THEOREM EpochBeforeMux == Spec => []VideoEpochBeforeMux
<1>1. EpochInv => VideoEpochBeforeMux BY DEF EpochInv, VideoEpochBeforeMux
<1> QED BY <1>1, InitEpoch, NextEpoch, PTL DEF Spec

-----------------------------------------------------------------------------
(* The shift of a track is the measured one *)

\* A packet of track t is in s.
Has(s, t) == \E i \in 1 .. Len(s) : s[i].kind = "audio" /\ s[i].track = t

\* The epoch of the track is published and stands, or the track began untimed.
Timed(t) == audio_epoch[t] # 0 \/ untimed[t]

\* Some packet of the track left AudioThread, or is about to.
Started(t) ==
  \/ Has(audio_premux, t) \/ Has(mux_queue, t) \/ Has(segment_pending_audio, t)
  \/ audio_shift_resolved[t] \/ apc[t] = "wait"

TimedInv ==
  /\ video_epoch \in {0, VideoEpoch}
  /\ \A t \in Tracks : Started(t) => Timed(t)

LEMMA HasGrow ==
  ASSUME NEW S, NEW s \in Seq(S), NEW e \in S, NEW t
  PROVE  Has(Append(s, e), t) <=> Has(s, t) \/ (e.kind = "audio" /\ e.track = t)
<1> DEFINE u == Append(s, e)
<1>1. /\ Len(s) \in Nat /\ Len(u) = Len(s) + 1 /\ u[Len(s) + 1] = e
      /\ \A i \in 1 .. Len(s) : u[i] = s[i]
  BY AppendProperties, LenProperties
<1> HIDE DEF u
<1>2. \A i \in 1 .. Len(u) : i \in 1 .. Len(s) \/ i = Len(s) + 1 BY <1>1
<1>3. \A i \in 1 .. Len(s) : i \in 1 .. Len(u) BY <1>1
<1>4. Len(s) + 1 \in 1 .. Len(u) BY <1>1
<1>5. Has(u, t) <=> Has(s, t) \/ (e.kind = "audio" /\ e.track = t) BY <1>1, <1>2, <1>3, <1>4 DEF Has
<1> QED BY <1>5 DEF u

LEMMA HasTail ==
  ASSUME NEW S, NEW s \in Seq(S), s # <<>>
  PROVE  /\ \A t : Has(Tail(s), t) => Has(s, t)
         /\ Head(s).kind = "audio" => Has(s, Head(s).track)
<1> DEFINE u == Tail(s)
<1>1. /\ Len(s) \in Nat \ {0} /\ Len(u) = Len(s) - 1 /\ Head(s) = s[1]
      /\ \A i \in 1 .. Len(u) : u[i] = s[i + 1]
  BY HeadTailProperties, EmptySeq
<1> HIDE DEF u
<1>2. \A i \in 1 .. Len(u) : i + 1 \in 1 .. Len(s) BY <1>1
<1>3. 1 \in 1 .. Len(s) BY <1>1
<1>4. \A t : Has(u, t) => Has(s, t) BY <1>1, <1>2 DEF Has
<1>5. Head(s).kind = "audio" => Has(s, Head(s).track) BY <1>1, <1>3 DEF Has
<1> QED BY <1>4, <1>5 DEF u

LEMMA VideoTimedStep ==
  ASSUME TypeOK, TimedInv, ShiftIsMeasured, VideoNext
  PROVE  TimedInv' /\ ShiftIsMeasured'
<1>1. VideoQueue /\ UNCHANGED <<apc, audio_premux, audio_epoch, untimed, segment>> BY VideoQueueStep
<1>2. video_epoch' \in {0, VideoEpoch}
  BY DEF TimedInv, VideoNext, VideoPrepare, VideoFirstFrame, VideoSubmit, VideoEncodeFail, VideoCaptureFail,
         VideoSourceLost, VideoLeaveLoop, VideoRoute, VideoFlushRoute, VideoRouteStep, VideoFlushCut,
         VideoPush, VideoNoRoom, VideoFlushed, VideoEos
<1>3. mux_queue \in Seq(MuxItem) BY DEF TypeOK, BufferType
<1>4. \A p \in VideoPacket : p \in MuxItem /\ p.kind = "video" BY DEF MuxItem, VideoPacket
<1>5. \A t \in Tracks : Has(mux_queue', t) => Has(mux_queue, t)
  <2> SUFFICES ASSUME NEW t \in Tracks, Has(mux_queue', t) PROVE Has(mux_queue, t) OBVIOUS
  <2>1. CASE UNCHANGED mux_queue BY <2>1
  <2>2. ASSUME NEW p \in VideoPacket, mux_queue' = Append(mux_queue, p) PROVE Has(mux_queue, t)
    BY <1>3, <1>4, <2>2, HasGrow
  <2>3. ASSUME NEW p \in VideoPacket,
               mux_queue' = mux_queue \o <<[kind |-> "split", index |-> current_segment_index + 1], p>>
        PROVE  Has(mux_queue, t)
    <3> DEFINE a == [kind |-> "split", index |-> current_segment_index + 1]
    <3>1. a \in MuxItem /\ a.kind = "split" BY DEF TypeOK, VideoType, MuxItem, Sentinel
    <3>2. mux_queue' = mux_queue \o <<a, p>> BY <2>3
    <3> HIDE DEF a
    <3> DEFINE u == Append(mux_queue, a)
    <3>3. u \in Seq(MuxItem) /\ (Has(u, t) => Has(mux_queue, t)) BY <1>3, <3>1, GrowType, HasGrow
    <3>4. mux_queue' = Append(u, p) BY <1>3, <1>4, <3>1, <3>2, TwoIsAppends
    <3> HIDE DEF u
    <3> QED BY <1>4, <3>3, <3>4, HasGrow
  <2>4. CASE mux_queue' = Append(mux_queue, [kind |-> "video_eos"])
    <3>1. [kind |-> "video_eos"] \in MuxItem /\ [kind |-> "video_eos"].kind = "video_eos" BY DEF MuxItem, Sentinel
    <3> QED BY <1>3, <2>4, <3>1, HasGrow
  <2> QED BY <1>1, <2>1, <2>2, <2>3, <2>4 DEF VideoQueue
<1>6. \A t \in Tracks : (Started(t)' => Started(t)) /\ (Timed(t)' <=> Timed(t))
  BY <1>1, <1>5 DEF Started, Timed
<1>7. TimedInv' BY <1>1, <1>2, <1>6 DEF TimedInv
<1>8. ShiftIsMeasured' BY <1>1 DEF ShiftIsMeasured
<1> QED BY <1>7, <1>8

LEMMA AudioTimedStep ==
  ASSUME TypeOK, TimedInv, ShiftIsMeasured, NEW t \in Tracks, AudioNext(t)
  PROVE  TimedInv' /\ ShiftIsMeasured'
<1>1. AudioEffect(t) BY AudioEffects
<1>2. /\ audio_epoch \in [Tracks -> Nat] /\ audio_premux \in Seq(AudioPacket) /\ mux_queue \in Seq(MuxItem)
      /\ apc \in [Tracks -> {"prepare", "run", "wait", "flush", "done"}] /\ untimed \in [Tracks -> BOOLEAN]
  BY DEF TypeOK, SessionType, BufferType, AudioType
<1>3. UNCHANGED <<video_epoch, segment>> BY <1>1 DEF AudioEffect, AudioFrame
<1>4. \A u \in Tracks : u # t => apc'[u] = apc[u] /\ untimed'[u] = untimed[u] /\ audio_epoch'[u] = audio_epoch[u]
  BY <1>1, <1>2 DEF AudioEffect
<1> DEFINE p == NextAudioPacket(t)
<1>5. p \in AudioPacket /\ p \in MuxItem /\ p.kind = "audio" /\ p.track = t BY NextAudioPacketType
<1>6. \A u \in Tracks : u # t => /\ Has(audio_premux', u) => Has(audio_premux, u)
                                 /\ Has(mux_queue', u) => Has(mux_queue, u)
  <2> DEFINE e == [kind |-> "audio_eos", track |-> t]
  <2>1. e \in MuxItem /\ e.kind = "audio_eos" BY DEF MuxItem, Sentinel
  <2>2. /\ audio_premux' = audio_premux \/ audio_premux' = Append(audio_premux, p)
        /\ mux_queue' = mux_queue \/ mux_queue' = Append(mux_queue, p) \/ mux_queue' = Append(mux_queue, e)
    BY <1>1 DEF AudioEffect
  <2> HIDE DEF p, e
  <2> SUFFICES ASSUME NEW u \in Tracks, u # t
               PROVE  /\ Has(audio_premux', u) => Has(audio_premux, u)
                      /\ Has(mux_queue', u) => Has(mux_queue, u)
    OBVIOUS
  <2>3. Has(audio_premux', u) => Has(audio_premux, u) BY <1>2, <1>5, <2>2, HasGrow
  <2>4. CASE mux_queue' = mux_queue BY <2>3, <2>4
  <2>5. CASE mux_queue' = Append(mux_queue, p) BY <1>2, <1>5, <2>3, <2>5, HasGrow
  <2>6. CASE mux_queue' = Append(mux_queue, e) BY <1>2, <2>1, <2>3, <2>6, HasGrow
  <2> QED BY <2>2, <2>4, <2>5, <2>6
<1>7. \A u \in Tracks : u # t => (Started(u)' => Started(u)) /\ (Timed(u)' <=> Timed(u))
  BY <1>3, <1>4, <1>6 DEF Started, Timed
<1>8. CASE AudioPrepare(t)
  <2>1. /\ apc[t] = "prepare" /\ apc'[t] \in {"run", "done"}
        /\ UNCHANGED <<audio_premux, mux_queue, audio_epoch, untimed>>
    BY <1>2, <1>8 DEF AudioPrepare
  <2>2. (Started(t)' => Started(t)) /\ (Timed(t) => Timed(t)') BY <1>3, <2>1 DEF Started, Timed
  <2>3. TimedInv' BY <1>3, <1>4, <1>7, <2>2 DEF TimedInv
  <2>4. ShiftIsMeasured' BY <1>3, <2>1 DEF ShiftIsMeasured
  <2> QED BY <2>3, <2>4
<1>9. CASE AudioCapture(t)
  <2>1. PICK e \in AudioEpochs[t] :
          /\ audio_epoch' = [audio_epoch EXCEPT ![t] = IF @ = 0 THEN e ELSE @]
          /\ untimed' = [untimed EXCEPT ![t] = @ \/ (audio_epoch[t] = 0 /\ e = 0)]
    BY <1>9 DEF AudioCapture
  <2>2. /\ audio_epoch'[t] = IF audio_epoch[t] = 0 THEN e ELSE audio_epoch[t]
        /\ untimed'[t] = (untimed[t] \/ (audio_epoch[t] = 0 /\ e = 0))
    BY <1>2, <2>1
  <2>3. Timed(t)' BY <2>2 DEF Timed
  <2>4. TimedInv' BY <1>3, <1>4, <1>7, <2>3 DEF TimedInv
  <2>5. ASSUME audio_shift_resolved[t]
        PROVE  \/ audio_shift[t] = ShiftOf(audio_epoch'[t])
               \/ untimed'[t] /\ audio_shift[t] = ShiftOf(0)
    <3>1. Timed(t) BY <2>5 DEF TimedInv, Started
    <3>2. CASE audio_epoch[t] # 0 BY <2>2, <2>5, <3>2 DEF ShiftIsMeasured
    <3>3. CASE audio_epoch[t] = 0
      <4>1. untimed[t] /\ audio_shift[t] = ShiftOf(0) BY <2>5, <3>1, <3>3 DEF Timed, ShiftIsMeasured
      <4> QED BY <2>2, <4>1
    <3> QED BY <3>2, <3>3
  <2>6. ShiftIsMeasured' BY <1>3, <1>4, <2>5 DEF ShiftIsMeasured
  <2> QED BY <2>4, <2>6
<1>10. CASE AudioFlushRoute(t)
  <2>1. /\ UNCHANGED audio_epoch
        /\ untimed' = [untimed EXCEPT ![t] = @ \/ audio_epoch[t] = 0]
    BY <1>10 DEF AudioFlushRoute
  <2>2. untimed'[t] = (untimed[t] \/ audio_epoch[t] = 0) BY <1>2, <2>1
  <2>3. Timed(t)' BY <2>1, <2>2 DEF Timed
  <2>4. TimedInv' BY <1>3, <1>4, <1>7, <2>3 DEF TimedInv
  <2>5. \A u \in Tracks : untimed[u] => untimed'[u] BY <1>4, <2>2
  <2>6. ShiftIsMeasured' BY <1>3, <2>1, <2>5 DEF ShiftIsMeasured
  <2> QED BY <2>4, <2>6
<1>11. CASE AudioCaptureFail(t) \/ AudioLeaveLoop(t) \/ AudioPush(t) \/ AudioNoRoom(t) \/ AudioEos(t)
  <2>1. UNCHANGED <<audio_epoch, untimed>>
    BY <1>11 DEF AudioCaptureFail, AudioLeaveLoop, AudioPush, AudioNoRoom, AudioEos
  <2>2. Started(t)' => Started(t)
    <3>1. CASE AudioPush(t)
      BY <3>1 DEF AudioPush, Started
    <3>2. CASE AudioCaptureFail(t) \/ AudioLeaveLoop(t) \/ AudioNoRoom(t)
      <4>1. apc'[t] = "flush" /\ UNCHANGED <<audio_premux, mux_queue>>
        BY <1>2, <3>2 DEF AudioCaptureFail, AudioLeaveLoop, AudioNoRoom
      <4> QED BY <1>3, <4>1 DEF Started
    <3>3. CASE AudioEos(t)
      <4> DEFINE e == [kind |-> "audio_eos", track |-> t]
      <4>1. apc'[t] = "done" /\ UNCHANGED audio_premux /\ mux_queue' = Append(mux_queue, e)
        BY <1>2, <3>3 DEF AudioEos
      <4>2. e \in MuxItem /\ e.kind = "audio_eos" BY DEF MuxItem, Sentinel
      <4> HIDE DEF e
      <4>3. Has(mux_queue', t) => Has(mux_queue, t) BY <1>2, <4>1, <4>2, HasGrow
      <4> QED BY <1>3, <4>1, <4>3 DEF Started
    <3> QED BY <1>11, <3>1, <3>2, <3>3
  <2>3. TimedInv' BY <1>3, <1>7, <2>1, <2>2 DEF TimedInv, Timed
  <2>4. ShiftIsMeasured' BY <1>3, <2>1 DEF ShiftIsMeasured
  <2> QED BY <2>3, <2>4
<1> QED BY <1>8, <1>9, <1>10, <1>11 DEF AudioNext

\* push_audio on a packet of a track that had started.
LEMMA PushAudioTimed ==
  ASSUME TypeOK, EpochInv, TimedInv, ShiftIsMeasured, MuxFrame,
         mpc \in {"premux", "pop", "final"},
         NEW pkt \in AudioPacket, NEW held \in Seq(AudioPacket), PushAudio(pkt, held),
         Timed(pkt.track),
         \A t \in Tracks : Has(held, t) => Has(segment_pending_audio, t),
         \A t \in Tracks : Has(audio_premux', t) => Has(audio_premux, t),
         \A t \in Tracks : Has(mux_queue', t) => Has(mux_queue, t)
  PROVE  TimedInv' /\ ShiftIsMeasured'
<1>1. UNCHANGED <<video_epoch, audio_epoch, apc, untimed>> BY DEF MuxFrame
<1>2. video_epoch = VideoEpoch BY DEF EpochInv, TimedInv
<1>3. /\ pkt.track \in Tracks /\ audio_shift \in [Tracks -> Int] /\ audio_shift_resolved \in [Tracks -> BOOLEAN]
  BY DEF AudioPacket, TypeOK, MuxType
<1>4. /\ \/ UNCHANGED shifts
         \/ /\ audio_shift' = [audio_shift EXCEPT ![pkt.track] = AudioShiftFor(pkt.track)]
            /\ audio_shift_resolved' = [audio_shift_resolved EXCEPT ![pkt.track] = TRUE]
      /\ \/ segment_pending_audio' = held
         \/ \E q \in AudioPacket : q.track = pkt.track /\ q.id = pkt.id /\ segment_pending_audio' = Append(held, q)
  BY PushAudioEffect
<1>5. \A t \in Tracks : t # pkt.track =>
        (Has(segment_pending_audio', t) => Has(segment_pending_audio, t))
  <2>1. CASE segment_pending_audio' = held BY <2>1
  <2>2. ASSUME NEW q \in AudioPacket, q.track = pkt.track, segment_pending_audio' = Append(held, q)
        PROVE  \A t \in Tracks : t # pkt.track => (Has(segment_pending_audio', t) => Has(segment_pending_audio, t))
    BY <2>2, HasGrow
  <2> QED BY <1>4, <2>1, <2>2
<1>6. \A t \in Tracks : t # pkt.track => (audio_shift_resolved'[t] <=> audio_shift_resolved[t])
  BY <1>3, <1>4
<1>7. \A t \in Tracks : Timed(t)' <=> Timed(t) BY <1>1 DEF Timed
<1>8. \A t \in Tracks : Started(t)' => Started(t) \/ t = pkt.track BY <1>1, <1>5, <1>6 DEF Started
<1>9. TimedInv' BY <1>1, <1>7, <1>8 DEF TimedInv
<1>10. ShiftIsMeasured'
  <2>1. CASE UNCHANGED shifts BY <1>1, <2>1 DEF ShiftIsMeasured
  <2>2. CASE /\ audio_shift' = [audio_shift EXCEPT ![pkt.track] = AudioShiftFor(pkt.track)]
             /\ audio_shift_resolved' = [audio_shift_resolved EXCEPT ![pkt.track] = TRUE]
    <3> SUFFICES ASSUME NEW t \in Tracks, audio_shift_resolved'[t]
                 PROVE  \/ audio_shift'[t] = ShiftOf(audio_epoch[t])
                        \/ untimed[t] /\ audio_shift'[t] = ShiftOf(0)
      BY <1>1 DEF ShiftIsMeasured
    <3>1. CASE t # pkt.track BY <1>3, <1>6, <2>2, <3>1 DEF ShiftIsMeasured
    <3>2. CASE t = pkt.track
      <4>1. audio_shift'[t] = AudioShiftFor(t) BY <1>3, <2>2, <3>2
      <4>2. CASE audio_shift_resolved[t] BY <4>1, <4>2 DEF AudioShiftFor, ShiftIsMeasured
      <4>3. CASE ~audio_shift_resolved[t] BY <1>2, <4>1, <4>3 DEF AudioShiftFor, MeasuredShift, ShiftOf
      <4> QED BY <4>2, <4>3
    <3> QED BY <3>1, <3>2
  <2> QED BY <1>4, <2>1, <2>2
<1> QED BY <1>9, <1>10

LEMMA MuxTimedStep ==
  ASSUME TypeOK, EpochInv, TimedInv, ShiftIsMeasured, MuxNext
  PROVE  TimedInv' /\ ShiftIsMeasured'
<1>0. MuxFrame
  BY DEF MuxNext, MuxCheckHeaders, MuxBlock, MuxOpenFirst, MuxPremuxVideo, MuxPremuxAudio, MuxPremuxDone,
         MuxDrainHeld, MuxTop, MuxPopVideo, MuxPopAudio, MuxPopVideoEos, MuxPopAudioEos, MuxPopSplit,
         MuxQueueEmpty, MuxFinish, MuxPop
<1>1. /\ audio_premux \in Seq(AudioPacket) /\ mux_queue \in Seq(MuxItem) /\ segment_pending_audio \in Seq(AudioPacket)
  BY DEF TypeOK, BufferType, MuxType
<1>2. UNCHANGED mux_queue \/ Popped BY MuxQueueStep
<1>3. \A t \in Tracks : Has(mux_queue', t) => Has(mux_queue, t) BY <1>1, <1>2, HasTail DEF Popped
<1>4. CASE MuxPremuxAudio
  <2>1. /\ mpc = "premux" /\ audio_premux # <<>> /\ audio_premux' = Tail(audio_premux)
        /\ PushAudio(Head(audio_premux), segment_pending_audio)
    BY <1>4 DEF MuxPremuxAudio, HandleAudio
  <2>2. Head(audio_premux) \in AudioPacket BY <1>1, <2>1, ShrinkType
  <2>3. Head(audio_premux).kind = "audio" /\ Head(audio_premux).track \in Tracks BY <2>2 DEF AudioPacket
  <2>4. /\ Has(audio_premux, Head(audio_premux).track)
        /\ \A t \in Tracks : Has(audio_premux', t) => Has(audio_premux, t)
    BY <1>1, <2>1, <2>3, HasTail
  <2>5. Timed(Head(audio_premux).track) BY <2>3, <2>4 DEF TimedInv, Started
  <2> QED BY <1>0, <1>1, <1>3, <2>1, <2>2, <2>4, <2>5, PushAudioTimed
<1>5. CASE MuxPopAudio
  <2>1. /\ mpc \in {"pop", "final"} /\ mux_queue # <<>> /\ UNCHANGED audio_premux
        /\ Head(mux_queue).kind = "audio" /\ PushAudio(Head(mux_queue), segment_pending_audio)
    BY <1>5 DEF MuxPopAudio, MuxPop, HandleAudio
  <2>2. Head(mux_queue) \in AudioPacket BY <1>1, <2>1, ShrinkType, ItemKind
  <2>3. Head(mux_queue).track \in Tracks BY <2>2 DEF AudioPacket
  <2>4. Has(mux_queue, Head(mux_queue).track) BY <1>1, <2>1, HasTail
  <2>5. Timed(Head(mux_queue).track) BY <2>3, <2>4 DEF TimedInv, Started
  <2> QED BY <1>0, <1>1, <1>3, <2>1, <2>2, <2>5, PushAudioTimed
<1>6. CASE MuxDrainHeld
  <2>1. /\ mpc \in {"premux", "pop", "final"} /\ segment_pending_audio # <<>> /\ UNCHANGED audio_premux
        /\ PushAudio(Head(segment_pending_audio), Tail(segment_pending_audio))
    BY <1>6 DEF MuxDrainHeld, MuxBusy
  <2>2. Head(segment_pending_audio) \in AudioPacket /\ Tail(segment_pending_audio) \in Seq(AudioPacket)
    BY <1>1, <2>1, ShrinkType
  <2>3. Head(segment_pending_audio).kind = "audio" /\ Head(segment_pending_audio).track \in Tracks
    BY <2>2 DEF AudioPacket
  <2>4. /\ Has(segment_pending_audio, Head(segment_pending_audio).track)
        /\ \A t \in Tracks : Has(Tail(segment_pending_audio), t) => Has(segment_pending_audio, t)
    BY <1>1, <2>1, <2>3, HasTail
  <2>5. Timed(Head(segment_pending_audio).track) BY <2>3, <2>4 DEF TimedInv, Started
  <2> QED BY <1>0, <1>3, <2>1, <2>2, <2>4, <2>5, PushAudioTimed
<1>7. CASE ~MuxPremuxAudio /\ ~MuxPopAudio /\ ~MuxDrainHeld
  <2>1. UNCHANGED <<audio_premux, shifts>> /\ (UNCHANGED segment_pending_audio \/ segment_pending_audio' = <<>>)
    BY <1>7 DEF MuxNext, MuxCheckHeaders, MuxBlock, MuxOpenFirst, MuxPremuxVideo, MuxPremuxDone,
         MuxTop, MuxPopVideo, MuxPopVideoEos, MuxPopAudioEos, MuxPopSplit,
         MuxQueueEmpty, MuxFinish, MuxPop, HandleVideo
  <2>2. \A t \in Tracks : ~Has(<<>>, t) BY DEF Has
  <2>3. UNCHANGED <<video_epoch, audio_epoch, apc, untimed>> BY <1>0 DEF MuxFrame
  <2>4. \A t \in Tracks : Has(segment_pending_audio', t) => Has(segment_pending_audio, t) BY <2>1, <2>2
  <2>5. \A t \in Tracks : (Started(t)' => Started(t)) /\ (Timed(t)' <=> Timed(t))
    BY <1>3, <2>1, <2>3, <2>4 DEF Started, Timed
  <2>6. TimedInv' BY <2>3, <2>5 DEF TimedInv
  <2>7. ShiftIsMeasured' BY <2>1, <2>3 DEF ShiftIsMeasured
  <2> QED BY <2>6, <2>7
<1> QED BY <1>4, <1>5, <1>6, <1>7

\* Whenever MuxThread resolves the shift of a track, the epoch it reads is the one
\* the track keeps, for any number of tracks and any measurements: the only track
\* that may stay where the session start puts it although it published an epoch is
\* one that began with packets without a timestamp.
THEOREM ShiftsAreMeasured == Spec => []ShiftIsMeasured
<1>1. Init => EpochInv /\ TimedInv /\ ShiftIsMeasured
  <2> SUFFICES ASSUME Init PROVE EpochInv /\ TimedInv /\ ShiftIsMeasured OBVIOUS
  <2>1. \A t \in Tracks : ~Has(<<>>, t) BY DEF Has
  <2>2. /\ audio_premux = <<>> /\ mux_queue = <<>> /\ segment_pending_audio = <<>>
        /\ \A t \in Tracks : ~audio_shift_resolved[t] /\ apc[t] = "prepare"
        /\ video_epoch = 0
    BY DEF Init
  <2>3. \A t \in Tracks : ~Started(t) BY <2>1, <2>2 DEF Started
  <2> QED BY <2>2, <2>3, InitEpoch DEF TimedInv, ShiftIsMeasured
<1>2. TypeOK /\ EpochInv /\ TimedInv /\ ShiftIsMeasured /\ [Next]_vars => EpochInv' /\ TimedInv' /\ ShiftIsMeasured'
  <2> SUFFICES ASSUME TypeOK, EpochInv, TimedInv, ShiftIsMeasured, [Next]_vars
               PROVE EpochInv' /\ TimedInv' /\ ShiftIsMeasured'
    OBVIOUS
  <2>1. CASE NotifyWaiters \/ CallerStop \/ RequestSplit \/ UNCHANGED vars
    <3>1. UNCHANGED <<epochs, audio_premux, mux_queue, segment_pending_audio, shifts, apc, untimed>>
      BY <2>1 DEF NotifyWaiters, CallerStop, RequestSplit, vars
    <3>2. TimedInv' /\ ShiftIsMeasured' BY <3>1 DEF TimedInv, Started, Timed, ShiftIsMeasured
    <3>3. EpochInv' BY NextEpoch
    <3> QED BY <3>2, <3>3
  <2>2. EpochInv' BY NextEpoch
  <2> QED BY <2>1, <2>2, VideoTimedStep, AudioTimedStep, MuxTimedStep DEF Next, Terminated
<1> QED BY <1>1, <1>2, TypeCorrect, PTL DEF Spec

\* The clamp never bends a plausible measurement, and bounds every other.
LEMMA ClampIsExact ==
  ASSUME NEW a \in Nat, NEW v \in Nat, NEW m \in Nat
  PROVE  /\ AudioTimelineShiftNs(a, v, m) \in -m .. m
         /\ IsPlausibleAudioEpoch(a, v, m) => AudioTimelineShiftNs(a, v, m) = (a - v) * TickNs
<1> DEFINE shift == (a - v) * TickNs
<1>1. shift \in Int BY DEF TickNs
<1>2. /\ shift > m => AudioTimelineShiftNs(a, v, m) = m
      /\ ~(shift > m) /\ shift < -m => AudioTimelineShiftNs(a, v, m) = -m
      /\ ~(shift > m) /\ ~(shift < -m) => AudioTimelineShiftNs(a, v, m) = shift
  BY <1>1 DEF AudioTimelineShiftNs
<1>3. IsPlausibleAudioEpoch(a, v, m) => shift <= m /\ shift >= -m BY DEF IsPlausibleAudioEpoch
<1> HIDE DEF shift
<1>4. AudioTimelineShiftNs(a, v, m) \in -m .. m BY <1>1, <1>2
<1>5. IsPlausibleAudioEpoch(a, v, m) => AudioTimelineShiftNs(a, v, m) = shift BY <1>1, <1>2, <1>3
<1> QED BY <1>4, <1>5 DEF shift

\* What the shifts mean for the picture and for each other.
Measured(t) ==
  /\ audio_shift_resolved[t] /\ ~untimed[t]
  /\ IsPlausibleAudioEpoch(audio_epoch[t], VideoEpoch, MaxShiftNs)

TracksAligned ==
  /\ \A t \in Tracks : audio_shift_resolved[t] => audio_shift[t] \in -MaxShiftNs .. MaxShiftNs
  /\ \A t \in Tracks : Measured(t) => audio_shift[t] = (audio_epoch[t] - VideoEpoch) * TickNs
  /\ \A t, u \in Tracks : Measured(t) /\ Measured(u) =>
       audio_shift[t] - audio_shift[u] = (audio_epoch[t] - audio_epoch[u]) * TickNs

\* A track with a plausible epoch starts exactly as far from the picture, and two
\* such tracks exactly as far from each other, as they were captured, unless a
\* track began with packets without a timestamp; and no track at all is moved
\* further than the clamp of AudioTimelineShiftNs allows.
THEOREM TracksStayAligned == Spec => []TracksAligned
<1>1. TypeOK /\ ShiftIsMeasured => TracksAligned
  <2> SUFFICES ASSUME TypeOK, ShiftIsMeasured PROVE TracksAligned OBVIOUS
  <2>1. audio_epoch \in [Tracks -> Nat] /\ VideoEpoch \in Nat /\ SessionStart \in Nat /\ MaxShiftNs \in Nat
    BY EpochAssumption DEF EpochAssumption, TypeOK, SessionType
  <2>2. \A e \in Nat : ShiftOf(e) \in -MaxShiftNs .. MaxShiftNs
    <3> SUFFICES ASSUME NEW e \in Nat PROVE ShiftOf(e) \in -MaxShiftNs .. MaxShiftNs OBVIOUS
    <3>1. CASE IsPlausibleAudioEpoch(e, VideoEpoch, MaxShiftNs) BY <2>1, <3>1, ClampIsExact DEF ShiftOf
    <3>2. CASE ~IsPlausibleAudioEpoch(e, VideoEpoch, MaxShiftNs) BY <2>1, <3>2, ClampIsExact DEF ShiftOf
    <3> QED BY <3>1, <3>2
  <2>3. \A t \in Tracks : audio_shift_resolved[t] => audio_shift[t] \in -MaxShiftNs .. MaxShiftNs
    BY <2>1, <2>2 DEF ShiftIsMeasured
  <2>4. ASSUME NEW t \in Tracks, Measured(t)
        PROVE  audio_shift[t] = (audio_epoch[t] - VideoEpoch) * TickNs
    <3>1. audio_epoch[t] \in Nat BY <2>1
    <3>2. audio_shift[t] = ShiftOf(audio_epoch[t]) BY <2>4 DEF Measured, ShiftIsMeasured
    <3> QED BY <2>1, <2>4, <3>1, <3>2, ClampIsExact DEF Measured, ShiftOf
  <2>5. ASSUME NEW t \in Tracks, NEW u \in Tracks, Measured(t), Measured(u)
        PROVE  audio_shift[t] - audio_shift[u] = (audio_epoch[t] - audio_epoch[u]) * TickNs
    <3>1. /\ audio_shift[t] = (audio_epoch[t] - VideoEpoch) * TickNs
          /\ audio_shift[u] = (audio_epoch[u] - VideoEpoch) * TickNs
      BY <2>4, <2>5
    <3>2. audio_epoch[t] \in Nat /\ audio_epoch[u] \in Nat BY <2>1
    <3> QED BY <2>1, <3>1, <3>2 DEF TickNs
  <2> QED BY <2>3, <2>4, <2>5 DEF TracksAligned
<1> QED BY <1>1, TypeCorrect, ShiftsAreMeasured, PTL
=============================================================================
