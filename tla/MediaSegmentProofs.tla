------------------------- MODULE MediaSegmentProofs -------------------------
(***************************************************************************)
(* The files MuxThread writes, one per segment: every file is reported     *)
(* once, a reported file is closed, the files match the boundaries that    *)
(* VideoThread decided, and each one starts with a keyframe.  And what is  *)
(* in them: each stream in the order it was captured, video without a gap, *)
(* every frame of a successful session, and an exact account of the audio. *)
(* Proved for any number of tracks, packets, splits and faults and for any *)
(* limits.                                                                 *)
(***************************************************************************)
EXTENDS MediaPipelineProofs

USE DEF session, headers, premux, epochs, splitReq, splitArm, video, audio,
        shifts, segment, eos, output, sent

-----------------------------------------------------------------------------
(* The split sentinels of a queue *)

Ordered(q) == \A i, j \in 1 .. Len(q) :
  q[i].kind = "split" /\ q[j].kind = "split" /\ i < j => q[i].index < q[j].index

Between(q, lo, hi) == \A i \in 1 .. Len(q) :
  q[i].kind = "split" => lo < q[i].index /\ q[i].index <= hi

\* Each sentinel has the keyframe it was made for right behind it.
Paired(q) == \A i \in 1 .. Len(q) :
  q[i].kind = "split" => /\ i + 1 \in 1 .. Len(q)
                         /\ q[i + 1].kind = "video" /\ q[i + 1].key

Boundary(n) == [kind |-> "split", index |-> n]

LEMMA SplitGrow ==
  ASSUME NEW q \in Seq(MuxItem), NEW e \in MuxItem, e.kind # "split"
  PROVE  /\ Ordered(q) => Ordered(Append(q, e))
         /\ \A lo, hi : Between(q, lo, hi) => Between(Append(q, e), lo, hi)
         /\ Paired(q) => Paired(Append(q, e))
<1> DEFINE t == Append(q, e)
<1>1. /\ Len(q) \in Nat /\ Len(t) = Len(q) + 1 /\ t[Len(q) + 1] = e
      /\ \A i \in 1 .. Len(q) : t[i] = q[i]
  BY AppendProperties, LenProperties
<1> HIDE DEF t
<1>2. \A i \in 1 .. Len(t) : t[i].kind = "split" => i \in 1 .. Len(q) /\ t[i] = q[i] BY <1>1
<1>3. \A i \in 1 .. Len(q) : i \in 1 .. Len(t) BY <1>1
<1>4. Ordered(q) => Ordered(t) BY <1>2 DEF Ordered
<1>5. \A lo, hi : Between(q, lo, hi) => Between(t, lo, hi) BY <1>2 DEF Between
<1>6. Paired(q) => Paired(t) BY <1>1, <1>2, <1>3 DEF Paired
<1> QED BY <1>4, <1>5, <1>6 DEF t

LEMMA SplitTwo ==
  ASSUME NEW q \in Seq(MuxItem), NEW b \in MuxItem, b.kind = "video", b.key,
         NEW lo \in Nat, NEW hi \in Nat, lo <= hi, Ordered(q), Between(q, lo, hi)
  PROVE  /\ Ordered(q \o <<Boundary(hi + 1), b>>)
         /\ Between(q \o <<Boundary(hi + 1), b>>, lo, hi + 1)
         /\ Paired(q) => Paired(q \o <<Boundary(hi + 1), b>>)
<1> DEFINE a == Boundary(hi + 1)
<1>1. a \in MuxItem /\ a.kind = "split" /\ a.index = hi + 1 BY DEF Boundary, MuxItem, Sentinel
<1> HIDE DEF a
<1> DEFINE u == Append(q, a)
<1> DEFINE t == Append(u, b)
<1>2. q \o <<a, b>> = t BY <1>1, TwoIsAppends
<1>3. /\ u \in Seq(MuxItem) /\ Len(q) \in Nat /\ Len(u) = Len(q) + 1 /\ u[Len(q) + 1] = a
      /\ \A i \in 1 .. Len(q) : u[i] = q[i]
  BY <1>1, AppendProperties, LenProperties
<1> HIDE DEF u
<1>4. /\ Len(t) = Len(u) + 1 /\ t[Len(u) + 1] = b
      /\ \A i \in 1 .. Len(u) : t[i] = u[i]
  BY <1>3, AppendProperties
<1> HIDE DEF t
<1>5. /\ \A i \in 1 .. Len(q) : t[i] = q[i] /\ i \in 1 .. Len(t)
      /\ t[Len(q) + 1] = a /\ t[Len(q) + 2] = b /\ Len(t) = Len(q) + 2
  BY <1>3, <1>4
<1>6. \A i \in 1 .. Len(t) : t[i].kind = "split" => i \in 1 .. Len(q) \/ i = Len(q) + 1
  <2> SUFFICES ASSUME NEW i \in 1 .. Len(t), t[i].kind = "split", i \notin 1 .. Len(q), i # Len(q) + 1 PROVE FALSE
    OBVIOUS
  <2>1. i = Len(q) + 2 BY <1>3, <1>5
  <2> QED BY <1>5, <2>1
<1>7. \A i \in 1 .. Len(q) : q[i].kind = "split" => q[i].index \in Nat
  <2>1. \A i \in 1 .. Len(q) : q[i] \in MuxItem BY ElementOfSeq
  <2> QED BY <2>1, ItemKind
<1>8. Ordered(t)
  <2> SUFFICES ASSUME NEW i \in 1 .. Len(t), NEW j \in 1 .. Len(t), t[i].kind = "split", t[j].kind = "split", i < j
               PROVE  t[i].index < t[j].index
    BY DEF Ordered
  <2>1. i \in 1 .. Len(q) BY <1>3, <1>5, <1>6
  <2>2. t[i] = q[i] /\ q[i].index \in Nat /\ q[i].index <= hi BY <1>5, <1>7, <2>1 DEF Between
  <2>3. CASE j \in 1 .. Len(q) BY <1>5, <2>1, <2>3 DEF Ordered
  <2>4. CASE j = Len(q) + 1 BY <1>1, <1>5, <2>2, <2>4
  <2> QED BY <1>6, <2>3, <2>4
<1>9. Between(t, lo, hi + 1)
  <2> SUFFICES ASSUME NEW i \in 1 .. Len(t), t[i].kind = "split" PROVE lo < t[i].index /\ t[i].index <= hi + 1
    BY DEF Between
  <2>1. CASE i \in 1 .. Len(q) BY <1>5, <1>7, <2>1 DEF Between
  <2>2. CASE i = Len(q) + 1 BY <1>1, <1>5, <2>2
  <2> QED BY <1>6, <2>1, <2>2
<1>10. Paired(q) => Paired(t)
  <2> SUFFICES ASSUME Paired(q), NEW i \in 1 .. Len(t), t[i].kind = "split"
               PROVE  i + 1 \in 1 .. Len(t) /\ t[i + 1].kind = "video" /\ t[i + 1].key
    BY DEF Paired
  <2>1. CASE i \in 1 .. Len(q) BY <1>5, <2>1 DEF Paired
  <2>2. CASE i = Len(q) + 1
    <3>1. i + 1 = Len(q) + 2 /\ i + 1 \in 1 .. Len(t) BY <1>3, <1>5, <2>2
    <3> QED BY <1>5, <3>1
  <2> QED BY <1>6, <2>1, <2>2
<1> QED BY <1>2, <1>8, <1>9, <1>10 DEF a

LEMMA SplitPop ==
  ASSUME NEW q \in Seq(MuxItem), q # <<>>
  PROVE  /\ Ordered(q) => Ordered(Tail(q))
         /\ \A lo, hi : Between(q, lo, hi) => Between(Tail(q), lo, hi)
         /\ Paired(q) => Paired(Tail(q))
         /\ Head(q).kind = "split" =>
              /\ \A lo, hi : Between(q, lo, hi) => lo < Head(q).index /\ Head(q).index <= hi
              /\ \A lo, hi : Ordered(q) /\ Between(q, lo, hi) => Between(Tail(q), Head(q).index, hi)
              /\ Paired(q) => Tail(q) # <<>> /\ Head(Tail(q)).kind = "video" /\ Head(Tail(q)).key
<1> DEFINE t == Tail(q)
<1>1. /\ Len(q) \in Nat \ {0} /\ Len(t) = Len(q) - 1 /\ Head(q) = q[1] /\ t \in Seq(MuxItem)
      /\ \A i \in 1 .. Len(t) : t[i] = q[i + 1]
  BY HeadTailProperties, EmptySeq
<1> HIDE DEF t
<1>2. 1 \in 1 .. Len(q) /\ \A i \in 1 .. Len(t) : i \in Int /\ i + 1 \in 1 .. Len(q) /\ 1 < i + 1 BY <1>1
<1>3. Ordered(q) => Ordered(t)
  <2> SUFFICES ASSUME Ordered(q), NEW i \in 1 .. Len(t), NEW j \in 1 .. Len(t),
                      t[i].kind = "split", t[j].kind = "split", i < j
               PROVE  t[i].index < t[j].index
    BY DEF Ordered
  <2>1. i + 1 < j + 1 BY <1>2
  <2> QED BY <1>1, <1>2, <2>1 DEF Ordered
<1>4. \A lo, hi : Between(q, lo, hi) => Between(t, lo, hi) BY <1>1, <1>2 DEF Between
<1>5. Paired(q) => Paired(t)
  <2> SUFFICES ASSUME Paired(q), NEW i \in 1 .. Len(t), t[i].kind = "split"
               PROVE  i + 1 \in 1 .. Len(t) /\ t[i + 1].kind = "video" /\ t[i + 1].key
    BY DEF Paired
  <2>1. /\ (i + 1) + 1 \in 1 .. Len(q) /\ q[(i + 1) + 1].kind = "video" /\ q[(i + 1) + 1].key
    BY <1>1, <1>2 DEF Paired
  <2>2. i + 1 \in 1 .. Len(t) BY <1>1, <1>2, <2>1
  <2> QED BY <1>1, <2>1, <2>2
<1>6. Head(q).kind = "split" => \A lo, hi : Between(q, lo, hi) => lo < Head(q).index /\ Head(q).index <= hi
  BY <1>1, <1>2 DEF Between
<1>7. Head(q).kind = "split" => \A lo, hi : Ordered(q) /\ Between(q, lo, hi) => Between(t, Head(q).index, hi)
  BY <1>1, <1>2 DEF Between, Ordered
<1>8. Head(q).kind = "split" /\ Paired(q) => t # <<>> /\ Head(t).kind = "video" /\ Head(t).key
  <2> SUFFICES ASSUME Head(q).kind = "split", Paired(q) PROVE t # <<>> /\ Head(t).kind = "video" /\ Head(t).key
    OBVIOUS
  <2>1. 1 + 1 \in 1 .. Len(q) /\ q[1 + 1].kind = "video" /\ q[1 + 1].key BY <1>1, <1>2 DEF Paired
  <2>2. 1 \in 1 .. Len(t) BY <1>1, <2>1
  <2>3. t[1] = q[1 + 1] BY <1>1, <2>2
  <2>4. t # <<>> BY <2>2
  <2>5. Head(t) = t[1] BY <1>1, <2>4, HeadTailProperties
  <2> QED BY <2>1, <2>3, <2>4, <2>5
<1> QED BY <1>3, <1>4, <1>5, <1>6, <1>7, <1>8 DEF t

-----------------------------------------------------------------------------
(* What a step may do to the files and the queue *)

\* A step of a producer or of the user.
OutsideMux ==
  /\ UNCHANGED <<seg, reports, written, write_error, video_eos, audio_eos>>
  /\ HasFailure => HasFailure'
  /\ mpc' = mpc \/ (mpc = "blocked" /\ mpc' = "check")
  /\ vpc = "done" => vpc' = "done"
  /\ \/ UNCHANGED <<mux_queue, current_segment_index>>
     \/ \E e \in MuxItem : /\ e.kind # "split" /\ (e.kind = "video_eos" => vpc' = "done")
                           /\ mux_queue' = Append(mux_queue, e) /\ UNCHANGED current_segment_index
     \/ \E p \in VideoPacket : /\ vpc # "done" /\ p.key
                               /\ mux_queue' = mux_queue \o <<Boundary(current_segment_index + 1), p>>
                               /\ current_segment_index' = current_segment_index + 1

LEMMA VideoOutside == ASSUME TypeOK, VideoNext PROVE OutsideMux
<1>1. /\ VideoQueue /\ (HasFailure => HasFailure')
      /\ UNCHANGED <<video_eos, audio_eos, segment, output>>
  BY VideoQueueStep
<1>2. vpc # "done"
  BY DEF VideoNext, VideoPrepare, VideoFirstFrame, VideoSubmit, VideoEncodeFail, VideoCaptureFail,
         VideoSourceLost, VideoLeaveLoop, VideoRoute, VideoFlushRoute, VideoRouteStep, VideoFlushCut,
         VideoPush, VideoNoRoom, VideoFlushed, VideoEos, VideoInLoop
<1>3. mpc' = mpc \/ (mpc = "blocked" /\ mpc' = "check")
  BY DEF VideoNext, VideoPrepare, VideoFirstFrame, VideoSubmit, VideoEncodeFail, VideoCaptureFail,
         VideoSourceLost, VideoLeaveLoop, VideoRoute, VideoFlushRoute, VideoRouteStep, VideoFlushCut,
         VideoPush, VideoNoRoom, VideoFlushed, VideoEos, WakeMux
<1>4. CASE UNCHANGED <<mux_queue, current_segment_index>> BY <1>1, <1>2, <1>3, <1>4 DEF OutsideMux
<1>5. ASSUME NEW p \in VideoPacket, mux_queue' = Append(mux_queue, p), UNCHANGED current_segment_index
      PROVE  OutsideMux
  <2>1. p \in MuxItem /\ p.kind = "video" BY DEF MuxItem, VideoPacket
  <2> QED BY <1>1, <1>2, <1>3, <1>5, <2>1 DEF OutsideMux
<1>6. ASSUME NEW p \in VideoPacket, p.key, current_segment_index' = current_segment_index + 1,
             mux_queue' = mux_queue \o <<[kind |-> "split", index |-> current_segment_index + 1], p>>
      PROVE  OutsideMux
  <2>1. mux_queue' = mux_queue \o <<Boundary(current_segment_index + 1), p>> BY <1>6 DEF Boundary
  <2> QED BY <1>1, <1>2, <1>3, <1>6, <2>1 DEF OutsideMux
<1>7. CASE mux_queue' = Append(mux_queue, [kind |-> "video_eos"]) /\ vpc' = "done" /\ UNCHANGED current_segment_index
  <2>1. [kind |-> "video_eos"] \in MuxItem /\ [kind |-> "video_eos"].kind # "split" BY DEF MuxItem, Sentinel
  <2> QED BY <1>1, <1>2, <1>3, <1>7, <2>1 DEF OutsideMux
<1> QED BY <1>1, <1>4, <1>5, <1>6, <1>7 DEF VideoQueue

LEMMA AudioOutside == ASSUME TypeOK, NEW t \in Tracks, AudioNext(t) PROVE OutsideMux
<1>1. AudioEffect(t) BY AudioEffects
<1>2. HasFailure => HasFailure' BY <1>1, SessionStepType DEF AudioEffect
<1>3. UNCHANGED <<vpc, current_segment_index, video_eos, audio_eos, segment, output>>
  BY <1>1 DEF AudioEffect, AudioFrame
<1>4. mpc' = mpc \/ (mpc = "blocked" /\ mpc' = "check")
  BY DEF AudioNext, AudioPrepare, AudioCapture, AudioCaptureFail, AudioLeaveLoop, AudioFlushRoute, AudioPush,
         AudioNoRoom, AudioEos, AudioRouteStep
<1>5. \/ UNCHANGED mux_queue
      \/ \E e \in MuxItem : e.kind \in {"audio", "audio_eos"} /\ mux_queue' = Append(mux_queue, e)
  <2>1. [kind |-> "audio_eos", track |-> t] \in MuxItem BY DEF MuxItem, Sentinel
  <2> QED BY <1>1, <2>1, NextAudioPacketType DEF AudioEffect
<1> QED BY <1>2, <1>3, <1>4, <1>5 DEF OutsideMux

LEMMA OtherOutside ==
  ASSUME TypeOK, NotifyWaiters \/ CallerStop \/ RequestSplit \/ UNCHANGED vars PROVE OutsideMux
BY DEF NotifyWaiters, CallerStop, RequestSplit, RequestCleanStop, vars, OutsideMux, HasFailure

Writing == {"premux", "top", "pop", "final"}

\* MuxThread leaves the files alone.  A keyframe or a boundary is passed over
\* only when there is no file to write to.
MuxIdles ==
  /\ UNCHANGED <<seg, reports, written, write_error>>
  /\ \/ UNCHANGED mux_queue
     \/ /\ Popped /\ mpc' = mpc /\ mpc \in {"pop", "final"}
        /\ Head(mux_queue).kind = "video" => write_error \/ seg.writer = "none"
        /\ Head(mux_queue).kind = "split" => write_error
  /\ \/ mpc' = mpc
     \/ mpc \in {"check", "blocking"} /\ mpc' \in {"open", "blocking", "blocked", "done"}
     \/ mpc = "open" /\ mpc' = "done" /\ HasFailure'
     \/ mpc = "premux" /\ mpc' = "top"
     \/ mpc = "top" /\ mpc' = "pop"
     \/ mpc = "top" /\ mpc' = "final" /\ (AllEos \/ HasFailure \/ write_error)
     \/ mpc = "pop" /\ mpc' = "top" /\ mux_queue = <<>>

\* One packet goes into the open file, or the write fails.
Puts(x) ==
  /\ ~write_error /\ seg.writer = "open" /\ x \in WrittenPacket /\ x.seg = seg.index
  /\ \/ written' = Append(written, x) /\ UNCHANGED write_error
     \/ write_error' = TRUE /\ UNCHANGED written
  /\ UNCHANGED <<reports, mpc>> /\ mpc \in {"premux", "pop", "final"}

MuxPutsAudio ==
  /\ \E x \in WrittenPacket : x.track # "video" /\ Puts(x)
  /\ UNCHANGED seg
  /\ UNCHANGED mux_queue \/ (Popped /\ Head(mux_queue).kind = "audio")

MuxPutsVideo ==
  /\ \E x \in WrittenPacket : /\ x.track = "video" /\ Puts(x) /\ (~seg.epoch_set => x.pts = 0)
                              /\ \/ mpc = "premux" /\ UNCHANGED mux_queue
                                 \/ /\ mpc # "premux" /\ Popped /\ Head(mux_queue).kind = "video"
                                    /\ x.key = Head(mux_queue).key
  /\ seg'.writer = "open" /\ seg'.index = seg.index /\ seg'.epoch_set = TRUE

MuxOpens ==
  /\ mpc = "open" /\ mpc' = "premux" /\ seg' = Opened(0)
  /\ UNCHANGED <<reports, written, write_error, mux_queue>>

MuxRolls ==
  /\ mpc \in {"pop", "final"} /\ Popped /\ Head(mux_queue).kind = "split" /\ ~write_error
  /\ BeginNewSegment(Head(mux_queue).index)
  /\ UNCHANGED <<mpc, written>>

MuxEnds ==
  /\ mpc = "final" /\ mpc' = "done" /\ mux_queue = <<>>
  /\ \E ok \in BOOLEAN : /\ Report(ok, TRUE) /\ write_error' = (write_error \/ ~ok)
                         /\ write_error' => HasFailure'
  /\ seg' = [seg EXCEPT !.writer = "none"]
  /\ UNCHANGED <<mux_queue, written>>

LEMMA PutsVideo ==
  ASSUME TypeOK, NEW pkt \in VideoPacket, PushVideo(pkt), UNCHANGED <<reports, mpc>>,
         mpc \in {"premux", "pop", "final"},
         \/ mpc = "premux" /\ UNCHANGED mux_queue
         \/ mpc # "premux" /\ Popped /\ Head(mux_queue) = pkt
  PROVE  MuxIdles \/ MuxPutsVideo
<1>1. /\ pkt.kind = "video" /\ pkt.id \in Nat /\ pkt.key \in BOOLEAN
      /\ seg \in SegmentState /\ seg.writer \in {"none", "open"} /\ seg.index \in Nat /\ write_error \in BOOLEAN
  BY DEF VideoPacket, TypeOK, MuxType, SegmentState
<1>2. CASE UNCHANGED <<session, seg, write_error, written>> /\ (write_error \/ seg.writer = "none")
  BY <1>1, <1>2 DEF MuxIdles
<1>3. CASE /\ ~write_error /\ seg.writer # "none"
           /\ seg' = [seg EXCEPT !.epoch_set = TRUE, !.epoch = IF seg.epoch_set THEN seg.epoch ELSE pkt.pts]
           /\ \/ write_error' = TRUE /\ UNCHANGED written
              \/ UNCHANGED session /\ \E local \in Nat : /\ Wrote("video", pkt.id, local, pkt.key)
                                                         /\ ~seg.epoch_set => local = 0
  <2>1. seg'.writer = "open" /\ seg'.index = seg.index /\ seg'.epoch_set = TRUE
    BY <1>1, <1>3 DEF SegmentState
  <2>2. \E local \in Nat : Wrote("video", pkt.id, local, pkt.key) /\ (~seg.epoch_set => local = 0)
    <3>1. CASE write_error' = TRUE /\ UNCHANGED written
      <4>1. 0 \in Nat /\ Wrote("video", pkt.id, 0, pkt.key) BY <3>1 DEF Wrote
      <4> QED BY <4>1
    <3> QED BY <1>3, <3>1
  <2>3. PICK local \in Nat : Wrote("video", pkt.id, local, pkt.key) /\ (~seg.epoch_set => local = 0) BY <2>2
  <2> DEFINE x == [seg |-> seg.index, track |-> "video", id |-> pkt.id, pts |-> local, key |-> pkt.key]
  <2>4. /\ x \in WrittenPacket /\ x.track = "video" /\ x.seg = seg.index /\ x.pts = local /\ x.key = pkt.key
    BY <1>1 DEF WrittenPacket
  <2>5. \/ written' = Append(written, x) /\ UNCHANGED write_error
        \/ write_error' = TRUE /\ UNCHANGED written
    BY <2>3 DEF Wrote
  <2> HIDE DEF x
  <2>6. Puts(x) BY <1>1, <1>3, <2>4, <2>5 DEF Puts
  <2> QED BY <1>1, <2>1, <2>3, <2>4, <2>6 DEF MuxPutsVideo
<1> QED BY <1>2, <1>3, PushVideoEffect

LEMMA PutsAudio ==
  ASSUME TypeOK, NEW pkt \in AudioPacket, NEW held \in Seq(AudioPacket), PushAudio(pkt, held),
         UNCHANGED <<reports, mpc>>, mpc \in {"premux", "pop", "final"},
         \/ UNCHANGED mux_queue
         \/ mpc # "premux" /\ Popped /\ Head(mux_queue).kind = "audio"
  PROVE  MuxIdles \/ MuxPutsAudio
<1>1. /\ pkt.track \in Tracks /\ pkt.track # "video" /\ pkt.id \in Nat
      /\ seg.writer \in {"none", "open"} /\ seg.index \in Nat
  BY TracksAssumption DEF TracksAssumption, AudioPacket, TypeOK, MuxType, SegmentState
<1>2. /\ seg' = seg
      /\ \/ UNCHANGED <<written, write_error>>
         \/ /\ ~write_error /\ seg.writer # "none"
            /\ \E local \in Nat : Wrote(pkt.track, pkt.id, local, TRUE)
  BY PushAudioEffect
<1>3. CASE UNCHANGED <<written, write_error>> BY <1>2, <1>3 DEF MuxIdles
<1>4. ASSUME ~write_error, seg.writer # "none", NEW local \in Nat, Wrote(pkt.track, pkt.id, local, TRUE)
      PROVE  MuxPutsAudio
  <2> DEFINE x == [seg |-> seg.index, track |-> pkt.track, id |-> pkt.id, pts |-> local, key |-> TRUE]
  <2>1. /\ x \in WrittenPacket /\ x.track # "video" /\ x.seg = seg.index BY <1>1 DEF WrittenPacket
  <2>2. \/ written' = Append(written, x) /\ UNCHANGED write_error
        \/ write_error' = TRUE /\ UNCHANGED written
    BY <1>4 DEF Wrote
  <2> HIDE DEF x
  <2>3. Puts(x) BY <1>1, <1>4, <2>1, <2>2 DEF Puts
  <2> QED BY <1>2, <2>1, <2>3 DEF MuxPutsAudio
<1> QED BY <1>2, <1>3, <1>4

LEMMA MuxSteps ==
  ASSUME TypeOK, MuxNext
  PROVE  MuxIdles \/ MuxPutsAudio \/ MuxPutsVideo \/ MuxOpens \/ MuxRolls \/ MuxEnds
<1>1. /\ video_premux \in Seq(VideoPacket) /\ audio_premux \in Seq(AudioPacket) /\ mux_queue \in Seq(MuxItem)
      /\ segment_pending_audio \in Seq(AudioPacket)
  BY DEF TypeOK, BufferType, MuxType
<1>2. CASE MuxCheckHeaders \/ MuxBlock BY <1>2 DEF MuxCheckHeaders, MuxBlock, MuxIdles
<1>3. CASE MuxPremuxDone \/ MuxTop \/ MuxQueueEmpty BY <1>3 DEF MuxPremuxDone, MuxTop, MuxQueueEmpty, MuxIdles
<1>4. CASE MuxOpenFirst
  <2>1. CASE seg' = Opened(0) /\ mpc' = "premux" BY <1>4, <2>1 DEF MuxOpenFirst, MuxOpens
  <2>2. CASE RecordFailure("Mux") /\ mpc' = "done" /\ UNCHANGED seg
    <3>1. HasFailure' BY <2>2 DEF RecordFailure, HasFailure
    <3> QED BY <1>4, <2>2, <3>1 DEF MuxOpenFirst, MuxIdles
  <2> QED BY <1>4, <2>1, <2>2 DEF MuxOpenFirst
<1>5. CASE MuxPremuxVideo
  <2>1. /\ mpc = "premux" /\ UNCHANGED <<mux_queue, reports, mpc>> /\ video_premux # <<>>
        /\ PushVideo(Head(video_premux))
    BY <1>5 DEF MuxPremuxVideo, HandleVideo
  <2>2. Head(video_premux) \in VideoPacket BY <1>1, <2>1, ShrinkType
  <2> QED BY <2>1, <2>2, PutsVideo
<1>6. CASE MuxPopVideo
  <2>1. /\ mpc \in {"pop", "final"} /\ Popped /\ UNCHANGED <<reports, mpc>> /\ PushVideo(Head(mux_queue))
        /\ Head(mux_queue).kind = "video"
    BY <1>6 DEF MuxPopVideo, MuxPop, HandleVideo, Popped
  <2>2. Head(mux_queue) \in VideoPacket BY <1>1, <2>1, ShrinkType, ItemKind DEF Popped
  <2> QED BY <2>1, <2>2, PutsVideo
<1>7. CASE MuxPremuxAudio
  <2>1. /\ mpc = "premux" /\ UNCHANGED <<mux_queue, reports, mpc>> /\ audio_premux # <<>>
        /\ PushAudio(Head(audio_premux), segment_pending_audio)
    BY <1>7 DEF MuxPremuxAudio, HandleAudio
  <2>2. Head(audio_premux) \in AudioPacket BY <1>1, <2>1, ShrinkType
  <2> QED BY <1>1, <2>1, <2>2, PutsAudio
<1>8. CASE MuxPopAudio
  <2>1. /\ mpc \in {"pop", "final"} /\ Popped /\ UNCHANGED <<reports, mpc>> /\ Head(mux_queue).kind = "audio"
        /\ PushAudio(Head(mux_queue), segment_pending_audio)
    BY <1>8 DEF MuxPopAudio, MuxPop, HandleAudio, Popped
  <2>2. Head(mux_queue) \in AudioPacket BY <1>1, <2>1, ShrinkType, ItemKind DEF Popped
  <2> QED BY <1>1, <2>1, <2>2, PutsAudio
<1>9. CASE MuxDrainHeld
  <2>1. /\ mpc \in {"premux", "pop", "final"} /\ UNCHANGED <<mux_queue, reports, mpc>> /\ segment_pending_audio # <<>>
        /\ PushAudio(Head(segment_pending_audio), Tail(segment_pending_audio))
    BY <1>9 DEF MuxDrainHeld, MuxBusy
  <2>2. Head(segment_pending_audio) \in AudioPacket /\ Tail(segment_pending_audio) \in Seq(AudioPacket)
    BY <1>1, <2>1, ShrinkType
  <2> QED BY <2>1, <2>2, PutsAudio
<1>10. CASE MuxPopVideoEos \/ MuxPopAudioEos
  <2>1. /\ mpc \in {"pop", "final"} /\ Popped /\ UNCHANGED <<seg, written, write_error, reports, mpc>>
        /\ Head(mux_queue).kind \in {"video_eos", "audio_eos"}
    BY <1>10 DEF MuxPopVideoEos, MuxPopAudioEos, MuxPop, Popped
  <2> QED BY <2>1 DEF MuxIdles
<1>11. CASE MuxPopSplit
  <2>1. /\ mpc \in {"pop", "final"} /\ Popped /\ UNCHANGED <<written, mpc>> /\ Head(mux_queue).kind = "split"
        /\ IF write_error
           THEN UNCHANGED <<session, size_split_armed, seg, write_error, reports>>
           ELSE BeginNewSegment(Head(mux_queue).index)
    BY <1>11 DEF MuxPopSplit, MuxPop, Popped
  <2>2. CASE write_error BY <2>1, <2>2 DEF MuxIdles
  <2>3. CASE ~write_error BY <2>1, <2>3 DEF MuxRolls
  <2> QED BY <2>2, <2>3
<1>12. CASE MuxFinish
  <2>1. /\ mpc = "final" /\ mpc' = "done" /\ mux_queue = <<>> /\ UNCHANGED <<mux_queue, written>>
        /\ seg' = [seg EXCEPT !.writer = "none"]
    BY <1>12 DEF MuxFinish
  <2>2. PICK ok \in FinalizeOutcomes :
             /\ Report(ok, TRUE)
             /\ write_error' = (write_error \/ ~ok)
             /\ IF (write_error \/ ~ok) /\ ~HasFailure THEN RecordFailure("Mux") ELSE UNCHANGED session
    BY <1>12 DEF MuxFinish
  <2>3. ok \in BOOLEAN BY DEF FinalizeOutcomes
  <2>4. write_error' => HasFailure' BY <2>2 DEF RecordFailure, HasFailure
  <2> QED BY <2>1, <2>2, <2>3, <2>4 DEF MuxEnds
<1> QED BY <1>2, <1>3, <1>4, <1>5, <1>6, <1>7, <1>8, <1>9, <1>10, <1>11, <1>12 DEF MuxNext

-----------------------------------------------------------------------------
(* Every file is reported, once, and closed by its report *)

Increasing(rs) == \A r, s \in 1 .. Len(rs) : r < s => rs[r].index < rs[s].index
UpTo(rs, n)    == \A r \in 1 .. Len(rs) : rs[r].index <= n
Below(rs, n)   == \A r \in 1 .. Len(rs) : rs[r].index < n
Reported(rs, n) == \E r \in 1 .. Len(rs) : rs[r].index = n

\* Before the first file is opened there is nothing; MuxThread returns with no
\* file open.
PhaseInv ==
  /\ mpc \in {"check", "blocking", "blocked", "open"} =>
       reports = <<>> /\ written = <<>> /\ seg.writer = "none" /\ seg.index = 0
  /\ mpc = "done" => seg.writer = "none"

\* The boundaries on their way are numbered upwards from the current file, the
\* reports up to it.
NumberInv ==
  /\ Ordered(mux_queue) /\ Between(mux_queue, seg.index, current_segment_index)
  /\ seg.index <= current_segment_index
  /\ Increasing(reports) /\ UpTo(reports, seg.index)
  /\ seg.writer = "open" => Below(reports, seg.index)

\* A packet on disk lies in the open file or in a reported one.
FileInv ==
  \A w \in 1 .. Len(written) :
    (seg.writer = "open" /\ written[w].seg = seg.index) \/ Reported(reports, written[w].seg)

FilesInv == PhaseInv /\ NumberInv /\ FileInv

LEMMA ReportIndex ==
  ASSUME NEW rs \in Seq(SegmentReport)
  PROVE  Len(rs) \in Nat /\ \A i \in 1 .. Len(rs) : rs[i].index \in Nat
<1>1. Len(rs) \in Nat /\ \A i \in 1 .. Len(rs) : rs[i] \in SegmentReport BY ElementOfSeq, LenProperties
<1>2. \A x \in SegmentReport : x.index \in Nat BY DEF SegmentReport
<1> QED BY <1>1, <1>2

LEMMA ReportGrow ==
  ASSUME NEW rs \in Seq(SegmentReport), NEW x \in SegmentReport, Increasing(rs), Below(rs, x.index)
  PROVE  /\ Increasing(Append(rs, x)) /\ UpTo(Append(rs, x), x.index)
         /\ Reported(Append(rs, x), x.index)
         /\ \A n : Reported(rs, n) => Reported(Append(rs, x), n)
<1> DEFINE t == Append(rs, x)
<1>1. /\ Len(rs) \in Nat /\ Len(t) = Len(rs) + 1 /\ t[Len(rs) + 1] = x
      /\ \A i \in 1 .. Len(rs) : t[i] = rs[i]
  BY AppendProperties, LenProperties
<1> HIDE DEF t
<1>2. \A i \in 1 .. Len(rs) : rs[i].index \in Nat BY ReportIndex
<1>3. x.index \in Nat BY DEF SegmentReport
<1>4. \A i \in 1 .. Len(t) : i \in 1 .. Len(rs) \/ i = Len(rs) + 1 BY <1>1
<1>5. \A i \in 1 .. Len(rs) : i \in 1 .. Len(t) BY <1>1
<1>6. Len(rs) + 1 \in 1 .. Len(t) BY <1>1
<1>7. Increasing(t)
  <2> SUFFICES ASSUME NEW r \in 1 .. Len(t), NEW s \in 1 .. Len(t), r < s PROVE t[r].index < t[s].index
    BY DEF Increasing
  <2>1. r \in 1 .. Len(rs) BY <1>1
  <2>2. CASE s \in 1 .. Len(rs) BY <1>1, <2>1, <2>2 DEF Increasing
  <2>3. CASE s = Len(rs) + 1 BY <1>1, <2>1, <2>3 DEF Below
  <2> QED BY <1>4, <2>2, <2>3
<1>8. UpTo(t, x.index)
  <2> SUFFICES ASSUME NEW r \in 1 .. Len(t) PROVE t[r].index <= x.index BY DEF UpTo
  <2>1. CASE r \in 1 .. Len(rs)
    <3>1. t[r] = rs[r] /\ rs[r].index < x.index BY <1>1, <2>1 DEF Below
    <3> QED BY <1>2, <1>3, <2>1, <3>1
  <2>2. CASE r = Len(rs) + 1 BY <1>1, <1>3, <2>2
  <2> QED BY <1>4, <2>1, <2>2
<1>9. Reported(t, x.index) BY <1>1, <1>6 DEF Reported
<1>10. \A n : Reported(rs, n) => Reported(t, n) BY <1>1, <1>5 DEF Reported
<1> QED BY <1>7, <1>8, <1>9, <1>10 DEF t

\* Report keeps the numbering and closes the open file.
LEMMA ReportKeeps ==
  ASSUME TypeOK, NumberInv, FileInv, NEW ok \in BOOLEAN, NEW last \in BOOLEAN, Report(ok, last)
  PROVE  /\ Increasing(reports') /\ UpTo(reports', seg.index)
         /\ \A w \in 1 .. Len(written) : Reported(reports', written[w].seg)
<1>1. reports \in Seq(SegmentReport) /\ seg.index \in Nat /\ seg.writer \in {"none", "open"}
  BY DEF TypeOK, MuxType, SegmentState
<1>2. CASE seg.writer = "none" BY <1>2 DEF Report, NumberInv, FileInv
<1>3. CASE seg.writer = "open"
  <2> DEFINE x == [index |-> seg.index, succeeded |-> ok, session_end |-> last]
  <2>1. x \in SegmentReport /\ x.index = seg.index BY <1>1 DEF SegmentReport
  <2>2. reports' = Append(reports, x) BY <1>3 DEF Report
  <2> HIDE DEF x
  <2>3. Increasing(reports) /\ Below(reports, x.index) BY <1>3, <2>1 DEF NumberInv
  <2>4. /\ Increasing(reports') /\ UpTo(reports', seg.index) /\ Reported(reports', seg.index)
        /\ \A n : Reported(reports, n) => Reported(reports', n)
    BY <1>1, <2>1, <2>2, <2>3, ReportGrow
  <2> QED BY <2>4 DEF FileInv
<1> QED BY <1>1, <1>2, <1>3

LEMMA QueueGrows ==
  ASSUME TypeOK, NumberInv, OutsideMux
  PROVE  /\ Ordered(mux_queue') /\ Between(mux_queue', seg.index, current_segment_index')
         /\ current_segment_index <= current_segment_index'
         /\ Paired(mux_queue) => Paired(mux_queue')
<1>1. mux_queue \in Seq(MuxItem) /\ current_segment_index \in Nat /\ seg.index \in Nat
  BY DEF TypeOK, BufferType, VideoType, MuxType, SegmentState
<1>2. CASE UNCHANGED <<mux_queue, current_segment_index>> BY <1>1, <1>2 DEF NumberInv
<1>3. ASSUME NEW e \in MuxItem, e.kind # "split", mux_queue' = Append(mux_queue, e), UNCHANGED current_segment_index
      PROVE  /\ Ordered(mux_queue') /\ Between(mux_queue', seg.index, current_segment_index')
             /\ current_segment_index <= current_segment_index'
             /\ Paired(mux_queue) => Paired(mux_queue')
  BY <1>1, <1>3, SplitGrow DEF NumberInv
<1>4. ASSUME NEW p \in VideoPacket, p.key, current_segment_index' = current_segment_index + 1,
             mux_queue' = mux_queue \o <<Boundary(current_segment_index + 1), p>>
      PROVE  /\ Ordered(mux_queue') /\ Between(mux_queue', seg.index, current_segment_index')
             /\ current_segment_index <= current_segment_index'
             /\ Paired(mux_queue) => Paired(mux_queue')
  <2>1. p \in MuxItem /\ p.kind = "video" BY DEF MuxItem, VideoPacket
  <2> QED BY <1>1, <1>4, <2>1, SplitTwo DEF NumberInv
<1> QED BY <1>2, <1>3, <1>4 DEF OutsideMux

LEMMA OutsideFiles == TypeOK /\ FilesInv /\ OutsideMux => FilesInv'
<1> SUFFICES ASSUME TypeOK, FilesInv, OutsideMux PROVE FilesInv' OBVIOUS
<1>1. /\ UNCHANGED <<seg, reports, written>> /\ (mpc' = mpc \/ (mpc = "blocked" /\ mpc' = "check")) BY DEF OutsideMux
<1>2. seg.index \in Nat /\ current_segment_index \in Nat /\ current_segment_index' \in Nat
  <2>1. seg.index \in Nat /\ current_segment_index \in Nat BY DEF TypeOK, MuxType, VideoType, SegmentState
  <2>2. current_segment_index' \in {current_segment_index, current_segment_index + 1} BY DEF OutsideMux
  <2> QED BY <2>1, <2>2
<1>3. /\ Ordered(mux_queue') /\ Between(mux_queue', seg.index, current_segment_index')
      /\ current_segment_index <= current_segment_index'
  BY QueueGrows DEF FilesInv
<1>4. PhaseInv' BY <1>1 DEF FilesInv, PhaseInv
<1>5. NumberInv'
  <2>1. seg.index <= current_segment_index' BY <1>2, <1>3 DEF FilesInv, NumberInv
  <2> QED BY <1>1, <1>3, <2>1 DEF FilesInv, NumberInv
<1>6. FileInv' BY <1>1 DEF FilesInv, FileInv
<1> QED BY <1>4, <1>5, <1>6 DEF FilesInv

\* Popping keeps the numbering, and the item popped is numbered between the
\* current file and VideoThread's count.
LEMMA QueuePops ==
  ASSUME TypeOK, NumberInv, UNCHANGED mux_queue \/ Popped
  PROVE  /\ Ordered(mux_queue') /\ Between(mux_queue', seg.index, current_segment_index)
         /\ Paired(mux_queue) => Paired(mux_queue')
<1>1. mux_queue \in Seq(MuxItem) BY DEF TypeOK, BufferType
<1>2. CASE UNCHANGED mux_queue BY <1>2 DEF NumberInv
<1>3. CASE Popped BY <1>1, <1>3, SplitPop DEF NumberInv, Popped
<1> QED BY <1>2, <1>3

LEMMA MuxFiles == TypeOK /\ FilesInv /\ MuxNext => FilesInv'
<1> SUFFICES ASSUME TypeOK, FilesInv, MuxNext PROVE FilesInv' OBVIOUS
<1>0. PhaseInv /\ NumberInv /\ FileInv BY DEF FilesInv
<1>1. /\ mux_queue \in Seq(MuxItem) /\ written \in Seq(WrittenPacket) /\ reports \in Seq(SegmentReport)
      /\ seg \in SegmentState /\ seg.index \in Nat /\ seg.writer \in {"none", "open"}
      /\ current_segment_index \in Nat
  BY DEF TypeOK, BufferType, MuxType, VideoType, SegmentState
<1>2. UNCHANGED current_segment_index
  BY DEF MuxNext, MuxCheckHeaders, MuxBlock, MuxOpenFirst, MuxPremuxVideo, MuxPremuxAudio, MuxPremuxDone,
         MuxDrainHeld, MuxTop, MuxPopVideo, MuxPopAudio, MuxPopVideoEos, MuxPopAudioEos, MuxPopSplit,
         MuxQueueEmpty, MuxFinish, MuxPop, MuxFrame
<1>3. CASE MuxIdles
  <2>1. UNCHANGED <<seg, reports, written>> /\ (UNCHANGED mux_queue \/ Popped) BY <1>3 DEF MuxIdles
  <2>2. PhaseInv' BY <1>0, <1>3 DEF MuxIdles, PhaseInv
  <2>3. NumberInv' BY <1>0, <1>2, <2>1, QueuePops DEF NumberInv
  <2>4. FileInv' BY <1>0, <2>1 DEF FileInv
  <2> QED BY <2>2, <2>3, <2>4 DEF FilesInv
<1>4. CASE MuxPutsAudio \/ MuxPutsVideo
  <2>1. PICK x \in WrittenPacket : Puts(x) BY <1>4 DEF MuxPutsAudio, MuxPutsVideo
  <2>2. /\ seg'.writer = "open" /\ seg'.index = seg.index /\ (UNCHANGED mux_queue \/ Popped) /\ seg.writer = "open"
        /\ UNCHANGED <<reports, mpc>> /\ mpc \in {"premux", "pop", "final"}
    BY <1>4, <2>1 DEF MuxPutsAudio, MuxPutsVideo, Puts
  <2>3. PhaseInv' BY <2>2 DEF PhaseInv
  <2>4. NumberInv' BY <1>0, <1>2, <2>2, QueuePops DEF NumberInv
  <2>5. FileInv'
    <3>1. CASE UNCHANGED written BY <1>0, <2>2, <3>1 DEF FileInv
    <3>2. CASE written' = Append(written, x)
      <4>1. /\ Len(written) \in Nat /\ Len(written') = Len(written) + 1 /\ written'[Len(written) + 1] = x
            /\ \A i \in 1 .. Len(written) : written'[i] = written[i]
        BY <1>1, <3>2, AppendProperties, LenProperties
      <4>2. \A w \in 1 .. Len(written') : w \in 1 .. Len(written) \/ w = Len(written) + 1 BY <4>1
      <4>3. x.seg = seg.index BY <2>1 DEF Puts
      <4> QED BY <1>0, <2>2, <4>1, <4>2, <4>3 DEF FileInv
    <3> QED BY <2>1, <3>1, <3>2 DEF Puts
  <2> QED BY <2>3, <2>4, <2>5 DEF FilesInv
<1>5. CASE MuxOpens
  <2>1. /\ mpc = "open" /\ mpc' = "premux" /\ seg'.writer = "open" /\ seg'.index = 0
        /\ UNCHANGED <<reports, written, mux_queue>>
    BY <1>5 DEF MuxOpens, Opened
  <2>2. seg.index = 0 /\ reports = <<>> /\ written = <<>> BY <1>0, <2>1 DEF PhaseInv
  <2>3. PhaseInv' BY <2>1 DEF PhaseInv
  <2>4. Below(reports, 0) BY <2>2 DEF Below
  <2>5. NumberInv' BY <1>0, <1>2, <2>1, <2>2, <2>4 DEF NumberInv
  <2>6. FileInv' BY <2>1, <2>2 DEF FileInv
  <2> QED BY <2>3, <2>5, <2>6 DEF FilesInv
<1>6. CASE MuxRolls
  <2> DEFINE n == Head(mux_queue).index
  <2>1. /\ mpc \in {"pop", "final"} /\ UNCHANGED <<mpc, written>> /\ Popped /\ Head(mux_queue).kind = "split"
        /\ BeginNewSegment(n)
    BY <1>6 DEF MuxRolls
  <2>2. n \in Nat BY <1>1, <2>1, ShrinkType, ItemKind DEF Popped
  <2>3. /\ seg.index < n /\ n <= current_segment_index
        /\ Ordered(mux_queue') /\ Between(mux_queue', seg.index, current_segment_index)
        /\ Between(mux_queue', n, current_segment_index)
    BY <1>0, <1>1, <2>1, SplitPop DEF NumberInv, Popped
  <2> HIDE DEF n
  <2>4. \E ok \in BOOLEAN : Report(ok, FALSE) BY <2>1 DEF BeginNewSegment
  <2>5. /\ Increasing(reports') /\ UpTo(reports', seg.index)
        /\ \A w \in 1 .. Len(written) : Reported(reports', written[w].seg)
    BY <1>0, <2>4, ReportKeeps
  <2>6. reports' \in Seq(SegmentReport) BY <2>4, ReportType
  <2>7. \/ seg'.writer = "none" /\ seg'.index \in {seg.index, n}
        \/ seg'.writer = "open" /\ seg'.index = n
    <3>1. \/ seg' = [seg EXCEPT !.writer = "none"] \/ seg' = Opened(n) \/ seg' = [Opened(n) EXCEPT !.writer = "none"]
      BY <2>1 DEF BeginNewSegment
    <3>2. CASE seg' = [seg EXCEPT !.writer = "none"] BY <1>1, <3>2 DEF SegmentState
    <3>3. CASE seg' = Opened(n) BY <3>3 DEF Opened
    <3>4. CASE seg' = [Opened(n) EXCEPT !.writer = "none"] BY <3>4 DEF Opened
    <3> QED BY <3>1, <3>2, <3>3, <3>4
  <2>8. UpTo(reports', n) /\ Below(reports', n)
    <3>1. \A r \in 1 .. Len(reports') : reports'[r].index \in Nat BY <2>6, ReportIndex
    <3> QED BY <1>1, <2>2, <2>3, <2>5, <3>1 DEF UpTo, Below
  <2>9. PhaseInv' BY <2>1 DEF PhaseInv
  <2>10. NumberInv'
    <3>1. CASE seg'.writer = "none" /\ seg'.index = seg.index
      BY <1>0, <1>2, <2>3, <2>5, <3>1 DEF NumberInv
    <3>2. CASE seg'.index = n
      BY <1>2, <2>3, <2>5, <2>8, <3>2 DEF NumberInv
    <3> QED BY <2>7, <3>1, <3>2
  <2>11. FileInv' BY <2>1, <2>5 DEF FileInv
  <2> QED BY <2>9, <2>10, <2>11 DEF FilesInv
<1>7. CASE MuxEnds
  <2>1. /\ mpc' = "done" /\ seg'.writer = "none" /\ seg'.index = seg.index /\ UNCHANGED <<mux_queue, written>>
        /\ \E ok \in BOOLEAN : Report(ok, TRUE)
    BY <1>1, <1>7 DEF MuxEnds, SegmentState
  <2>2. /\ Increasing(reports') /\ UpTo(reports', seg.index)
        /\ \A w \in 1 .. Len(written) : Reported(reports', written[w].seg)
    BY <1>0, <2>1, ReportKeeps
  <2>3. PhaseInv' BY <2>1 DEF PhaseInv
  <2>4. NumberInv' BY <1>0, <1>2, <2>1, <2>2 DEF NumberInv
  <2>5. FileInv' BY <2>1, <2>2 DEF FileInv
  <2> QED BY <2>3, <2>4, <2>5 DEF FilesInv
<1> QED BY <1>3, <1>4, <1>5, <1>6, <1>7, MuxSteps

LEMMA InitFiles == Init => FilesInv
<1> SUFFICES ASSUME Init PROVE FilesInv OBVIOUS
<1>1. /\ mpc = "check" /\ reports = <<>> /\ written = <<>> /\ mux_queue = <<>> /\ current_segment_index = 0
      /\ seg.writer = "none" /\ seg.index = 0
  BY DEF Init
<1>2. PhaseInv BY <1>1 DEF PhaseInv
<1>3. NumberInv BY <1>1 DEF NumberInv, Ordered, Between, Increasing, UpTo
<1>4. FileInv BY <1>1 DEF FileInv
<1> QED BY <1>2, <1>3, <1>4 DEF FilesInv

LEMMA NextFiles == TypeOK /\ FilesInv /\ [Next]_vars => FilesInv'
BY OutsideFiles, MuxFiles, VideoOutside, AudioOutside, OtherOutside DEF Next, Terminated

\* When MuxThread returns, every file it wrote into has been reported, exactly
\* once, whichever faults happened and however many boundaries there were.
THEOREM FilesAreReported == Spec => []WrittenSegmentsReported
<1>1. TypeOK /\ FilesInv => WrittenSegmentsReported
  <2> SUFFICES ASSUME TypeOK, FilesInv, mpc = "done" PROVE WrittenSegmentsReported BY DEF WrittenSegmentsReported
  <2>1. \A w \in 1 .. Len(written) : Reported(reports, written[w].seg) BY DEF FilesInv, PhaseInv, FileInv
  <2>2. Increasing(reports) BY DEF FilesInv, NumberInv
  <2>3. reports \in Seq(SegmentReport) /\ Len(reports) \in Nat BY LenProperties DEF TypeOK, MuxType
  <2>4. \A r \in 1 .. Len(reports) : reports[r].index \in Nat BY <2>3, ReportIndex
  <2>5. \A r, s \in 1 .. Len(reports) : reports[r].index = reports[s].index => r = s
    <3> SUFFICES ASSUME NEW r \in 1 .. Len(reports), NEW s \in 1 .. Len(reports),
                        reports[r].index = reports[s].index, r # s
                 PROVE  FALSE
      OBVIOUS
    <3>1. r < s \/ s < r OBVIOUS
    <3>2. reports[r].index < reports[s].index \/ reports[s].index < reports[r].index BY <2>2, <3>1 DEF Increasing
    <3> QED BY <2>4, <3>2
  <2> QED BY <2>1, <2>5 DEF WrittenSegmentsReported, Reported
<1> QED BY <1>1, InitFiles, NextFiles, TypeCorrect, PTL DEF Spec

\* No step writes into a file that has been reported, for every value of the
\* bounds: what the callback hands on (to publication) is final.
THEOREM ReportsCloseFiles == Spec => ClosedSegmentsStayClosed
<1>1. ASSUME TypeOK, FilesInv, [Next]_vars, written' # written
      PROVE  \A r \in 1 .. Len(reports) : reports[r].index # written'[Len(written')].seg
  <2>1. MuxNext
    <3>1. OutsideMux => UNCHANGED written BY DEF OutsideMux
    <3> QED BY <1>1, <3>1, VideoOutside, AudioOutside, OtherOutside DEF Next, Terminated
  <2>2. PICK x \in WrittenPacket : Puts(x)
    <3>1. MuxPutsAudio \/ MuxPutsVideo BY <1>1, <2>1, MuxSteps DEF MuxIdles, MuxOpens, MuxRolls, MuxEnds
    <3> QED BY <3>1 DEF MuxPutsAudio, MuxPutsVideo
  <2>3. written' = Append(written, x) /\ x.seg = seg.index /\ seg.writer = "open" BY <1>1, <2>2 DEF Puts
  <2>4. written'[Len(written')] = x
    <3>1. written \in Seq(WrittenPacket) BY <1>1 DEF TypeOK, MuxType
    <3>2. Len(written') = Len(written) + 1 /\ written'[Len(written) + 1] = x BY <2>3, <3>1, AppendProperties
    <3> QED BY <3>2
  <2>5. Below(reports, seg.index) BY <1>1, <2>3 DEF FilesInv, NumberInv
  <2>6. \A r \in 1 .. Len(reports) : reports[r].index \in Nat
    <3>1. reports \in Seq(SegmentReport) BY <1>1 DEF TypeOK, MuxType
    <3> QED BY <3>1, ReportIndex
  <2>7. seg.index \in Nat BY <1>1 DEF TypeOK, MuxType, SegmentState
  <2> QED BY <2>3, <2>4, <2>5, <2>6, <2>7 DEF Below
<1>2. TypeOK /\ FilesInv /\ [Next]_vars =>
        [written' # written => \A r \in 1 .. Len(reports) : reports[r].index # written'[Len(written')].seg]_vars
  BY <1>1
<1> QED BY <1>2, InitFiles, NextFiles, TypeCorrect, PTL DEF Spec, ClosedSegmentsStayClosed

-----------------------------------------------------------------------------
(* The files match the boundaries *)

Clean == ~HasFailure /\ ~write_error

\* The reports of a session in progress.
PlainReports(rs) == \A i \in 1 .. Len(rs) :
  rs[i] = [index |-> i - 1, succeeded |-> TRUE, session_end |-> FALSE]

\* The end-of-stream sentinel is VideoThread's last word.
EndInv == video_eos \/ On(mux_queue, [kind |-> "video_eos"]) => vpc = "done"

\* As long as nothing failed: every file before the open one is reported, every
\* boundary behind it is still in the queue, MuxThread drains only what is left
\* once every producer has ended, and it returns after VideoThread.
BoundaryInv ==
  /\ Clean /\ mpc \in Writing =>
       seg.writer = "open" /\ Len(reports) = seg.index /\ PlainReports(reports)
  /\ Clean /\ mpc # "done" =>
       \A n \in Nat : seg.index < n /\ n <= current_segment_index => On(mux_queue, Boundary(n))
  /\ Clean /\ mpc = "final" => AllEos
  /\ Completed => vpc = "done"

LEMMA PlainGrow ==
  ASSUME NEW rs \in Seq(SegmentReport), PlainReports(rs), NEW last \in BOOLEAN
  PROVE  LET x == [index |-> Len(rs), succeeded |-> TRUE, session_end |-> last]
         IN  /\ Len(Append(rs, x)) = Len(rs) + 1
             /\ Append(rs, x)[Len(rs) + 1] = x
             /\ \A i \in 1 .. Len(rs) :
                  Append(rs, x)[i] = [index |-> i - 1, succeeded |-> TRUE, session_end |-> FALSE]
             /\ ~last => PlainReports(Append(rs, x))
<1> DEFINE x == [index |-> Len(rs), succeeded |-> TRUE, session_end |-> last]
<1> DEFINE t == Append(rs, x)
<1>0. Len(rs) \in Nat BY LenProperties
<1>1. x \in SegmentReport BY <1>0 DEF SegmentReport
<1>2. /\ Len(t) = Len(rs) + 1 /\ t[Len(rs) + 1] = x
      /\ \A i \in 1 .. Len(rs) : t[i] = rs[i]
  <2> HIDE DEF x
  <2> QED BY <1>1, AppendProperties
<1>3. ~last => x = [index |-> (Len(rs) + 1) - 1, succeeded |-> TRUE, session_end |-> FALSE]
  <2>1. (Len(rs) + 1) - 1 = Len(rs) BY <1>0
  <2>2. ~last => last = FALSE OBVIOUS
  <2> QED BY <2>1, <2>2, Zenon
<1> HIDE DEF t, x
<1>4. \A i \in 1 .. Len(t) : i \in 1 .. Len(rs) \/ i = Len(rs) + 1 BY <1>0, <1>2
<1>5. \A i \in 1 .. Len(rs) : t[i] = [index |-> i - 1, succeeded |-> TRUE, session_end |-> FALSE]
  BY <1>2 DEF PlainReports
<1>6. ~last => PlainReports(t) BY <1>2, <1>3, <1>4, <1>5 DEF PlainReports
<1> QED BY <1>2, <1>5, <1>6 DEF t, x

LEMMA OutsideEnd == TypeOK /\ EndInv /\ OutsideMux => EndInv'
<1> SUFFICES ASSUME TypeOK, EndInv, OutsideMux PROVE EndInv' OBVIOUS
<1> DEFINE V == [kind |-> "video_eos"]
<1>1. mux_queue \in Seq(MuxItem) /\ UNCHANGED video_eos /\ (vpc = "done" => vpc' = "done") /\ V.kind = "video_eos"
  BY DEF TypeOK, BufferType, OutsideMux
<1>2. EndInv <=> (video_eos \/ On(mux_queue, V) => vpc = "done") BY DEF EndInv
<1> HIDE DEF V
<1>3. CASE UNCHANGED <<mux_queue, current_segment_index>> BY <1>1, <1>3 DEF EndInv
<1>4. ASSUME NEW e \in MuxItem, e.kind = "video_eos" => vpc' = "done", mux_queue' = Append(mux_queue, e)
      PROVE  EndInv'
  <2>1. On(mux_queue', V) => On(mux_queue, V) \/ V = e BY <1>1, <1>4, OnGrow
  <2>2. On(mux_queue', V) => vpc' = "done" BY <1>1, <1>2, <1>4, <2>1
  <2> QED BY <1>1, <1>2, <2>2 DEF EndInv, V
<1>5. ASSUME NEW p \in VideoPacket, mux_queue' = mux_queue \o <<Boundary(current_segment_index + 1), p>>
      PROVE  EndInv'
  <2> DEFINE a == Boundary(current_segment_index + 1)
  <2>1. a \in MuxItem /\ a.kind = "split" BY DEF Boundary, TypeOK, VideoType, MuxItem, Sentinel
  <2>2. p \in MuxItem /\ p.kind = "video" BY DEF MuxItem, VideoPacket
  <2> HIDE DEF a
  <2>3. mux_queue' = mux_queue \o <<a, p>> BY <1>5 DEF a
  <2>4. On(mux_queue', V) => On(mux_queue, V) \/ V = a \/ V = p BY <1>1, <2>1, <2>2, <2>3, OnTwo
  <2>5. On(mux_queue', V) => vpc' = "done" BY <1>1, <1>2, <2>1, <2>2, <2>4
  <2> QED BY <1>1, <1>2, <2>5 DEF EndInv, V
<1> QED BY <1>3, <1>4, <1>5 DEF OutsideMux

LEMMA MuxEnd == TypeOK /\ EndInv /\ MuxNext => EndInv'
<1> SUFFICES ASSUME TypeOK, EndInv, MuxNext PROVE EndInv' OBVIOUS
<1> DEFINE V == [kind |-> "video_eos"]
<1>1. mux_queue \in Seq(MuxItem) BY DEF TypeOK, BufferType
<1>2. UNCHANGED vpc /\ (UNCHANGED mux_queue \/ Popped) BY MuxQueueStep
<1>3. UNCHANGED video_eos \/ MuxPopVideoEos
  BY DEF MuxNext, MuxCheckHeaders, MuxBlock, MuxOpenFirst, MuxPremuxVideo, MuxPremuxAudio, MuxPremuxDone,
         MuxDrainHeld, MuxTop, MuxPopVideo, MuxPopAudio, MuxPopAudioEos, MuxPopSplit,
         MuxQueueEmpty, MuxFinish
<1>4. On(mux_queue', V) => On(mux_queue, V) BY <1>1, <1>2, OnTail DEF Popped
<1>5. CASE MuxPopVideoEos
  <2>1. mux_queue # <<>> /\ Head(mux_queue).kind = "video_eos" BY <1>5 DEF MuxPopVideoEos, MuxPop
  <2>2. Head(mux_queue) \in MuxItem BY <1>1, <2>1, ShrinkType
  <2>3. Head(mux_queue) = V BY <2>1, <2>2, ItemKind
  <2>4. On(mux_queue, V) BY <1>1, <2>1, <2>3, OnTail
  <2> QED BY <1>2, <2>4 DEF EndInv
<1> QED BY <1>2, <1>3, <1>4, <1>5 DEF EndInv

LEMMA OutsideBoundary ==
  ASSUME TypeOK, BoundaryInv, SegmentsMatchBoundaries, OutsideMux
  PROVE  BoundaryInv' /\ SegmentsMatchBoundaries'
<1>1. /\ UNCHANGED <<seg, reports, written, write_error, video_eos, audio_eos>>
      /\ HasFailure => HasFailure'
      /\ mpc' = mpc \/ (mpc = "blocked" /\ mpc' = "check")
      /\ vpc = "done" => vpc' = "done"
  BY DEF OutsideMux
<1>2. mux_queue \in Seq(MuxItem) /\ current_segment_index \in Nat BY DEF TypeOK, BufferType, VideoType
<1>3. (Clean' => Clean) /\ (Completed' => Completed) /\ (AllEos => AllEos')
  BY <1>1 DEF Clean, Completed, AllEos
<1>4. vpc = "done" => UNCHANGED current_segment_index BY DEF OutsideMux
<1>5. SegmentsMatchBoundaries' BY <1>1, <1>3, <1>4 DEF SegmentsMatchBoundaries, BoundaryInv
<1>6. ASSUME Clean', mpc' # "done", NEW n \in Nat, seg.index < n, n <= current_segment_index'
      PROVE  On(mux_queue', Boundary(n))
  <2>0. n <= current_segment_index => On(mux_queue, Boundary(n)) BY <1>1, <1>3, <1>6 DEF BoundaryInv
  <2>1. CASE UNCHANGED <<mux_queue, current_segment_index>> BY <1>6, <2>0, <2>1
  <2>2. ASSUME NEW e \in MuxItem, mux_queue' = Append(mux_queue, e), UNCHANGED current_segment_index
        PROVE  On(mux_queue', Boundary(n))
    BY <1>2, <1>6, <2>0, <2>2, OnGrow
  <2>3. ASSUME NEW p \in VideoPacket, current_segment_index' = current_segment_index + 1,
               mux_queue' = mux_queue \o <<Boundary(current_segment_index + 1), p>>
        PROVE  On(mux_queue', Boundary(n))
    <3>1. Boundary(current_segment_index + 1) \in MuxItem /\ p \in MuxItem
      BY <1>2 DEF Boundary, MuxItem, Sentinel
    <3>2. n <= current_segment_index \/ n = current_segment_index + 1 BY <1>2, <1>6, <2>3
    <3> QED BY <1>2, <2>0, <2>3, <3>1, <3>2, OnTwo
  <2> QED BY <2>1, <2>2, <2>3 DEF OutsideMux
<1>7. Clean' /\ mpc' \in Writing => seg'.writer = "open" /\ Len(reports') = seg'.index /\ PlainReports(reports')
  BY <1>1, <1>3 DEF BoundaryInv, Writing
<1>8. Clean' /\ mpc' = "final" => AllEos' BY <1>1, <1>3 DEF BoundaryInv
<1>9. Completed' => vpc' = "done" BY <1>1, <1>3 DEF BoundaryInv
<1>10. BoundaryInv' BY <1>1, <1>6, <1>7, <1>8, <1>9 DEF BoundaryInv
<1> QED BY <1>5, <1>10

LEMMA MuxBoundary ==
  ASSUME TypeOK, FilesInv, EndInv, BoundaryInv, SegmentsMatchBoundaries, MuxNext
  PROVE  BoundaryInv' /\ SegmentsMatchBoundaries'
<1>0. PhaseInv /\ NumberInv BY DEF FilesInv
<1>1. /\ mux_queue \in Seq(MuxItem) /\ reports \in Seq(SegmentReport) /\ Len(reports) \in Nat
      /\ seg \in SegmentState /\ seg.index \in Nat /\ seg.writer \in {"none", "open"}
      /\ current_segment_index \in Nat /\ write_error \in BOOLEAN
  BY LenProperties DEF TypeOK, BufferType, MuxType, VideoType, SegmentState
<1>2. UNCHANGED <<current_segment_index, vpc>>
  BY DEF MuxNext, MuxCheckHeaders, MuxBlock, MuxOpenFirst, MuxPremuxVideo, MuxPremuxAudio, MuxPremuxDone,
         MuxDrainHeld, MuxTop, MuxPopVideo, MuxPopAudio, MuxPopVideoEos, MuxPopAudioEos, MuxPopSplit,
         MuxQueueEmpty, MuxFinish, MuxPop, MuxFrame
<1>3. (HasFailure => HasFailure') /\ (AllEos => AllEos') BY MuxQueueStep DEF AllEos
<1>4. CASE MuxIdles
  <2>1. UNCHANGED <<seg, reports, write_error>> BY <1>4 DEF MuxIdles
  <2>2. Clean' => Clean BY <1>3, <2>1 DEF Clean
  <2>3. ASSUME Clean', mpc' # "done", NEW n \in Nat, seg.index < n, n <= current_segment_index
        PROVE  On(mux_queue', Boundary(n))
    <3>1. mpc # "done" BY <1>4, <2>3 DEF MuxIdles
    <3>2. On(mux_queue, Boundary(n)) /\ ~write_error BY <2>2, <2>3, <3>1 DEF BoundaryInv, Clean
    <3>3. CASE UNCHANGED mux_queue BY <3>2, <3>3
    <3>4. CASE Popped /\ Head(mux_queue).kind # "split"
      <4>1. Head(mux_queue) # Boundary(n) BY <3>4 DEF Boundary
      <4> QED BY <1>1, <3>2, <3>4, <4>1, OnTail DEF Popped
    <3> QED BY <1>4, <3>2, <3>3, <3>4 DEF MuxIdles
  <2>4. Clean' /\ mpc' \in Writing => seg.writer = "open" /\ Len(reports) = seg.index /\ PlainReports(reports)
    <3>1. mpc' \in Writing => mpc \in Writing BY <1>4 DEF MuxIdles, Writing
    <3> QED BY <2>2, <3>1 DEF BoundaryInv
  <2>5. Clean' /\ mpc' = "final" => AllEos'
    <3>1. mpc' = "final" => mpc = "final" \/ AllEos \/ HasFailure \/ write_error BY <1>4 DEF MuxIdles
    <3> QED BY <1>3, <2>2, <3>1 DEF BoundaryInv, Clean
  <2>6. Completed' => Completed
    <3>1. mpc' = "done" => mpc = "done" \/ mpc \in {"check", "blocking", "open"} BY <1>4 DEF MuxIdles
    <3> QED BY <1>0, <1>3, <2>1, <3>1 DEF Completed, PhaseInv
  <2>7. SegmentsMatchBoundaries' BY <1>2, <2>1, <2>6 DEF SegmentsMatchBoundaries
  <2>8. BoundaryInv' BY <1>2, <2>1, <2>3, <2>4, <2>5, <2>6 DEF BoundaryInv
  <2> QED BY <2>7, <2>8
<1>5. CASE MuxPutsAudio \/ MuxPutsVideo
  <2>1. /\ UNCHANGED <<reports, mpc>> /\ mpc \in {"premux", "pop", "final"} /\ ~write_error
        /\ seg.writer = "open" /\ seg'.writer = "open" /\ seg'.index = seg.index
        /\ UNCHANGED mux_queue \/ (Popped /\ Head(mux_queue).kind # "split")
    BY <1>5 DEF MuxPutsAudio, MuxPutsVideo, Puts
  <2>2. Clean' => Clean BY <1>3, <2>1 DEF Clean
  <2>3. ASSUME Clean', NEW n \in Nat, seg.index < n, n <= current_segment_index
        PROVE  On(mux_queue', Boundary(n))
    <3>1. On(mux_queue, Boundary(n)) BY <2>1, <2>2, <2>3 DEF BoundaryInv
    <3>2. CASE UNCHANGED mux_queue BY <3>1, <3>2
    <3>3. CASE Popped /\ Head(mux_queue).kind # "split"
      <4>1. Head(mux_queue) # Boundary(n) BY <3>3 DEF Boundary
      <4> QED BY <1>1, <3>1, <3>3, <4>1, OnTail DEF Popped
    <3> QED BY <2>1, <3>2, <3>3
  <2>4. ~Completed' BY <2>1 DEF Completed
  <2>5. Clean' => Len(reports) = seg.index /\ PlainReports(reports) BY <2>1, <2>2 DEF BoundaryInv, Writing
  <2>6. Clean' /\ mpc = "final" => AllEos' BY <1>3, <2>2 DEF BoundaryInv
  <2>7. BoundaryInv' BY <1>2, <2>1, <2>3, <2>4, <2>5, <2>6 DEF BoundaryInv
  <2> QED BY <2>4, <2>7 DEF SegmentsMatchBoundaries
<1>6. CASE MuxOpens
  <2>1. /\ mpc = "open" /\ mpc' = "premux" /\ seg'.writer = "open" /\ seg'.index = 0
        /\ UNCHANGED <<reports, write_error, mux_queue>>
    BY <1>6 DEF MuxOpens, Opened
  <2>2. seg.index = 0 /\ reports = <<>> BY <1>0, <2>1 DEF PhaseInv
  <2>3. Clean' => Clean BY <1>3, <2>1 DEF Clean
  <2>4. Len(reports) = 0 /\ PlainReports(reports) BY <2>2 DEF PlainReports
  <2>5. ~Completed' BY <2>1 DEF Completed
  <2>6. BoundaryInv' BY <1>2, <2>1, <2>2, <2>3, <2>4, <2>5 DEF BoundaryInv
  <2> QED BY <2>5, <2>6 DEF SegmentsMatchBoundaries
<1>7. CASE MuxRolls
  <2> DEFINE n == Head(mux_queue).index
  <2>1. /\ mpc \in {"pop", "final"} /\ UNCHANGED mpc /\ Popped /\ Head(mux_queue).kind = "split" /\ ~write_error
        /\ BeginNewSegment(n)
    BY <1>7 DEF MuxRolls
  <2>2. Head(mux_queue) \in MuxItem /\ n \in Nat BY <1>1, <2>1, ShrinkType, ItemKind DEF Popped
  <2>3. seg.index < n /\ n <= current_segment_index /\ Between(mux_queue', n, current_segment_index)
    BY <1>0, <1>1, <2>1, SplitPop DEF NumberInv, Popped
  <2>4. ~Completed' BY <2>1 DEF Completed
  <2>5. CASE ~Clean' BY <2>4, <2>5 DEF BoundaryInv, SegmentsMatchBoundaries
  <2>6. CASE Clean'
    <3>1. Clean BY <1>3, <2>1, <2>6 DEF Clean
    <3>2. Report(TRUE, FALSE) /\ seg' = Opened(n)
      BY <2>1, <2>6 DEF BeginNewSegment, Clean, RecordFailure, HasFailure
    <3>3. seg.writer = "open" /\ Len(reports) = seg.index /\ PlainReports(reports)
      BY <2>1, <3>1 DEF BoundaryInv, Writing
    <3>4. \A k \in Nat : seg.index < k /\ k <= current_segment_index => On(mux_queue, Boundary(k))
      BY <2>1, <3>1 DEF BoundaryInv
    <3>5. n = seg.index + 1
      <4> SUFFICES ASSUME seg.index + 1 < n PROVE FALSE BY <1>1, <2>2, <2>3
      <4> DEFINE k == seg.index + 1
      <4>1. k \in Nat /\ seg.index < k /\ k <= current_segment_index /\ k < n BY <1>1, <2>2, <2>3
      <4> HIDE DEF k
      <4>2. On(mux_queue, Boundary(k)) BY <3>4, <4>1
      <4>3. Boundary(k).kind = "split" /\ Boundary(k).index = k BY DEF Boundary
      <4>4. Boundary(k) # Head(mux_queue) BY <2>2, <4>1, <4>3
      <4>5. On(mux_queue', Boundary(k)) BY <1>1, <2>1, <4>2, <4>4, OnTail DEF Popped
      <4>6. n < k BY <2>3, <4>3, <4>5 DEF On, Between
      <4> QED BY <2>2, <4>1, <4>6
    <3> HIDE DEF n
    <3>6. reports' = Append(reports, [index |-> Len(reports), succeeded |-> TRUE, session_end |-> FALSE])
      BY <3>2, <3>3 DEF Report
    <3>7. Len(reports') = Len(reports) + 1 /\ PlainReports(reports') BY <1>1, <3>3, <3>6, PlainGrow
    <3>8. seg'.writer = "open" /\ seg'.index = n BY <3>2 DEF Opened
    <3>9. ASSUME NEW k \in Nat, n < k, k <= current_segment_index PROVE On(mux_queue', Boundary(k))
      <4>1. On(mux_queue, Boundary(k)) BY <1>1, <2>2, <2>3, <3>4, <3>9
      <4>2. Boundary(k) # Head(mux_queue) BY <2>2, <3>9 DEF Boundary, n
      <4> QED BY <1>1, <2>1, <4>1, <4>2, OnTail DEF Popped
    <3>10. mpc' = "final" => AllEos' BY <1>3, <2>1, <3>1 DEF BoundaryInv
    <3>11. Len(reports') = seg'.index BY <1>1, <3>3, <3>5, <3>7, <3>8
    <3>12. BoundaryInv' BY <1>2, <2>4, <3>7, <3>8, <3>9, <3>10, <3>11 DEF BoundaryInv
    <3> QED BY <2>4, <3>12 DEF SegmentsMatchBoundaries
  <2> QED BY <2>5, <2>6
<1>8. CASE MuxEnds
  <2>1. mpc = "final" /\ mpc' = "done" /\ mux_queue = <<>> BY <1>8 DEF MuxEnds
  <2>2. PICK ok \in BOOLEAN : Report(ok, TRUE) /\ write_error' = (write_error \/ ~ok) /\ (write_error' => HasFailure')
    BY <1>8 DEF MuxEnds
  <2>3. ASSUME ~HasFailure' PROVE vpc' = "done" /\ SegmentsMatchBoundaries'
    <3>1. Clean /\ ok = TRUE BY <1>3, <2>2, <2>3 DEF Clean
    <3>2. video_eos BY <2>1, <3>1 DEF BoundaryInv, AllEos
    <3>3. vpc' = "done" BY <1>2, <3>2 DEF EndInv
    <3>4. seg.writer = "open" /\ Len(reports) = seg.index /\ PlainReports(reports)
      BY <2>1, <3>1 DEF BoundaryInv, Writing
    <3>5. seg.index = current_segment_index
      <4> SUFFICES ASSUME seg.index < current_segment_index PROVE FALSE BY <1>0, <1>1 DEF NumberInv
      <4>1. On(mux_queue, Boundary(current_segment_index)) BY <1>1, <2>1, <3>1 DEF BoundaryInv
      <4> QED BY <2>1, <4>1 DEF On
    <3> DEFINE x == [index |-> Len(reports), succeeded |-> TRUE, session_end |-> TRUE]
    <3>6. reports' = Append(reports, x) BY <2>2, <3>1, <3>4 DEF Report
    <3>7. /\ Len(reports') = Len(reports) + 1 /\ reports'[Len(reports) + 1] = x
          /\ \A i \in 1 .. Len(reports) : reports'[i] = [index |-> i - 1, succeeded |-> TRUE, session_end |-> FALSE]
      BY <1>1, <3>4, <3>6, PlainGrow
    <3>8. Len(reports') = current_segment_index' + 1 BY <1>2, <3>4, <3>5, <3>7
    <3>9. ASSUME NEW i \in 1 .. Len(reports')
          PROVE  reports'[i] = [index |-> i - 1, succeeded |-> TRUE, session_end |-> (i = Len(reports'))]
      <4>1. CASE i \in 1 .. Len(reports)
        <5>1. (i = Len(reports')) = FALSE BY <1>1, <3>7, <4>1
        <5> QED BY <3>7, <4>1, <5>1
      <4>2. CASE i = Len(reports) + 1
        <5>1. i - 1 = Len(reports) /\ (i = Len(reports')) = TRUE BY <1>1, <3>7, <4>2
        <5> QED BY <3>7, <4>2, <5>1
      <4> QED BY <1>1, <3>7, <4>1, <4>2
    <3> QED BY <3>3, <3>8, <3>9 DEF SegmentsMatchBoundaries
  <2>4. SegmentsMatchBoundaries' BY <2>3 DEF SegmentsMatchBoundaries, Completed
  <2>5. BoundaryInv' BY <2>1, <2>3 DEF BoundaryInv, Writing, Completed
  <2> QED BY <2>4, <2>5
<1> QED BY <1>4, <1>5, <1>6, <1>7, <1>8, MuxSteps

LEMMA InitBoundary == Init => EndInv /\ BoundaryInv /\ SegmentsMatchBoundaries
<1> SUFFICES ASSUME Init PROVE EndInv /\ BoundaryInv /\ SegmentsMatchBoundaries OBVIOUS
<1>1. /\ mpc = "check" /\ mux_queue = <<>> /\ video_eos = FALSE /\ current_segment_index = 0 /\ seg.index = 0
  BY DEF Init
<1>2. EndInv BY <1>1 DEF EndInv, On
<1>3. BoundaryInv BY <1>1 DEF BoundaryInv, Writing, Completed
<1> QED BY <1>1, <1>2, <1>3 DEF SegmentsMatchBoundaries, Completed

LEMMA NextBoundary ==
  TypeOK /\ FilesInv /\ EndInv /\ BoundaryInv /\ SegmentsMatchBoundaries /\ [Next]_vars =>
    EndInv' /\ BoundaryInv' /\ SegmentsMatchBoundaries'
<1> SUFFICES ASSUME TypeOK, FilesInv, EndInv, BoundaryInv, SegmentsMatchBoundaries, [Next]_vars
             PROVE  EndInv' /\ BoundaryInv' /\ SegmentsMatchBoundaries'
  OBVIOUS
<1>1. CASE MuxNext BY <1>1, MuxEnd, MuxBoundary
<1>2. CASE OutsideMux BY <1>2, OutsideEnd, OutsideBoundary
<1> QED BY <1>1, <1>2, VideoOutside, AudioOutside, OtherOutside DEF Next, Terminated

\* In a session that ends without a failure MuxThread finalized exactly one
\* file per boundary of VideoThread plus the last, in order and without holes,
\* for any number of splits by user, duration and size in any interleaving.
THEOREM FilesMatchBoundaries == Spec => []SegmentsMatchBoundaries
BY InitFiles, NextFiles, InitBoundary, NextBoundary, TypeCorrect, PTL DEF Spec

-----------------------------------------------------------------------------
(* Every file starts with a keyframe *)

HasVideo(ws, n) == \E w \in 1 .. Len(ws) : ws[w].track = "video" /\ ws[w].seg = n

\* A file opened at a boundary gets that boundary's keyframe next; the epoch of
\* a file is set exactly when its first video packet has been written.
KeyInv ==
  /\ Paired(mux_queue)
  /\ seg.writer = "open" /\ seg.index > 0 /\ ~seg.epoch_set /\ ~write_error =>
       /\ mpc \in {"pop", "final"} /\ mux_queue # <<>>
       /\ Head(mux_queue).kind = "video" /\ Head(mux_queue).key
  /\ seg.writer = "open" /\ seg.epoch_set /\ ~write_error => HasVideo(written, seg.index)
  /\ seg.writer = "open" /\ ~seg.epoch_set => ~HasVideo(written, seg.index)

SelfContained(ws) ==
  \A i \in 1 .. Len(ws) :
    /\ ws[i].track = "video" /\ ws[i].seg > 0
    /\ \A j \in 1 .. i - 1 : ws[j].track = "video" => ws[j].seg # ws[i].seg
    => ws[i].key /\ ws[i].pts = 0

LEMMA WrittenGrow ==
  ASSUME NEW ws \in Seq(WrittenPacket), NEW x \in WrittenPacket
  PROVE  /\ \A n : HasVideo(Append(ws, x), n) <=> HasVideo(ws, n) \/ (x.track = "video" /\ x.seg = n)
         /\ SelfContained(ws) /\ (x.track # "video" \/ ~(x.seg > 0) \/ HasVideo(ws, x.seg) \/ (x.key /\ x.pts = 0))
            => SelfContained(Append(ws, x))
<1> DEFINE t == Append(ws, x)
<1>1. /\ Len(ws) \in Nat /\ Len(t) = Len(ws) + 1 /\ t[Len(ws) + 1] = x
      /\ \A i \in 1 .. Len(ws) : t[i] = ws[i]
  BY AppendProperties, LenProperties
<1> HIDE DEF t
<1>2. \A i \in 1 .. Len(t) : i \in 1 .. Len(ws) \/ i = Len(ws) + 1 BY <1>1
<1>3. \A i \in 1 .. Len(ws) : i \in 1 .. Len(t) BY <1>1
<1>4. Len(ws) + 1 \in 1 .. Len(t) BY <1>1
<1>5. \A n : HasVideo(t, n) <=> HasVideo(ws, n) \/ (x.track = "video" /\ x.seg = n)
  BY <1>1, <1>2, <1>3, <1>4 DEF HasVideo
<1>6. ASSUME SelfContained(ws), x.track # "video" \/ ~(x.seg > 0) \/ HasVideo(ws, x.seg) \/ (x.key /\ x.pts = 0)
      PROVE  SelfContained(t)
  <2> SUFFICES ASSUME NEW i \in 1 .. Len(t), t[i].track = "video", t[i].seg > 0,
                      \A j \in 1 .. i - 1 : t[j].track = "video" => t[j].seg # t[i].seg
               PROVE  t[i].key /\ t[i].pts = 0
    BY DEF SelfContained
  <2>1. CASE i \in 1 .. Len(ws)
    <3>1. \A j \in 1 .. i - 1 : j \in 1 .. Len(ws) /\ t[j] = ws[j] BY <1>1, <2>1
    <3>2. t[i] = ws[i] BY <1>1, <2>1
    <3> QED BY <1>6, <2>1, <3>1, <3>2 DEF SelfContained
  <2>2. CASE i = Len(ws) + 1
    <3>1. t[i] = x BY <1>1, <2>2
    <3>2. \A j \in 1 .. Len(ws) : j \in 1 .. i - 1 /\ t[j] = ws[j] BY <1>1, <2>2
    <3>3. ~HasVideo(ws, x.seg) BY <3>1, <3>2 DEF HasVideo
    <3> QED BY <1>6, <3>1, <3>3
  <2> QED BY <1>2, <2>1, <2>2
<1> QED BY <1>5, <1>6 DEF t

LEMMA OutsideKey ==
  ASSUME TypeOK, FilesInv, KeyInv, OutsideMux
  PROVE  KeyInv'
<1>1. /\ UNCHANGED <<seg, written, write_error>> /\ (mpc' = mpc \/ (mpc = "blocked" /\ mpc' = "check"))
      /\ mux_queue \in Seq(MuxItem)
  BY DEF OutsideMux, TypeOK, BufferType
<1>2. Paired(mux_queue') BY QueueGrows DEF FilesInv, KeyInv
<1>3. mux_queue # <<>> => mux_queue' # <<>> /\ Head(mux_queue') = Head(mux_queue)
  <2> SUFFICES ASSUME mux_queue # <<>> PROVE mux_queue' # <<>> /\ Head(mux_queue') = Head(mux_queue) OBVIOUS
  <2>1. ASSUME NEW q \in Seq(MuxItem), q # <<>>, NEW e \in MuxItem
        PROVE  Append(q, e) # <<>> /\ Head(Append(q, e)) = Head(q)
    BY <2>1, HeadTailAppend
  <2>2. CASE UNCHANGED <<mux_queue, current_segment_index>> BY <2>2
  <2>3. ASSUME NEW e \in MuxItem, mux_queue' = Append(mux_queue, e)
        PROVE  mux_queue' # <<>> /\ Head(mux_queue') = Head(mux_queue)
    BY <1>1, <2>1, <2>3
  <2>4. ASSUME NEW p \in VideoPacket, mux_queue' = mux_queue \o <<Boundary(current_segment_index + 1), p>>
        PROVE  mux_queue' # <<>> /\ Head(mux_queue') = Head(mux_queue)
    <3> DEFINE a == Boundary(current_segment_index + 1)
    <3>1. a \in MuxItem /\ p \in MuxItem BY DEF Boundary, TypeOK, VideoType, MuxItem, Sentinel
    <3>2. mux_queue' = mux_queue \o <<a, p>> BY <2>4
    <3> HIDE DEF a
    <3> DEFINE u == Append(mux_queue, a)
    <3>3. u \in Seq(MuxItem) /\ u # <<>> /\ Head(u) = Head(mux_queue) BY <1>1, <2>1, <3>1, GrowType
    <3>4. mux_queue' = Append(u, p) BY <1>1, <3>1, <3>2, TwoIsAppends
    <3> HIDE DEF u
    <3> QED BY <2>1, <3>1, <3>3, <3>4
  <2> QED BY <2>2, <2>3, <2>4 DEF OutsideMux
<1> QED BY <1>1, <1>2, <1>3 DEF KeyInv

LEMMA MuxKey ==
  ASSUME TypeOK, FilesInv, KeyInv, SelfContained(written), MuxNext
  PROVE  KeyInv' /\ SelfContained(written')
<1>0. PhaseInv /\ NumberInv /\ FileInv BY DEF FilesInv
<1>1. /\ mux_queue \in Seq(MuxItem) /\ written \in Seq(WrittenPacket) /\ reports \in Seq(SegmentReport)
      /\ seg \in SegmentState /\ seg.index \in Nat /\ seg.writer \in {"none", "open"} /\ seg.epoch_set \in BOOLEAN
  BY DEF TypeOK, BufferType, MuxType, SegmentState
<1>2. Paired(mux_queue')
  <2>1. UNCHANGED mux_queue \/ Popped BY MuxQueueStep
  <2> QED BY <1>0, <2>1, QueuePops DEF KeyInv
<1>3. CASE MuxIdles
  <2>1. UNCHANGED <<seg, written, write_error>> BY <1>3 DEF MuxIdles
  <2>2. ASSUME seg.writer = "open", seg.index > 0, ~seg.epoch_set, ~write_error
        PROVE  mpc' = mpc /\ UNCHANGED mux_queue
    <3>1. /\ mpc \in {"pop", "final"} /\ mux_queue # <<>>
          /\ Head(mux_queue).kind = "video"
      BY <2>2 DEF KeyInv
    <3> QED BY <1>3, <2>2, <3>1 DEF MuxIdles
  <2>3. KeyInv' BY <1>2, <2>1, <2>2 DEF KeyInv
  <2> QED BY <2>1, <2>3
<1>4. CASE MuxPutsAudio
  <2>1. PICK x \in WrittenPacket : x.track # "video" /\ Puts(x) BY <1>4 DEF MuxPutsAudio
  <2>2. /\ UNCHANGED <<seg, mpc>> /\ ~write_error
        /\ written' = written \/ written' = Append(written, x)
        /\ UNCHANGED mux_queue \/ (Popped /\ Head(mux_queue).kind = "audio")
    BY <1>4, <2>1 DEF MuxPutsAudio, Puts
  <2>3. \A n : HasVideo(written', n) <=> HasVideo(written, n)
    <3>1. CASE written' = written BY <3>1
    <3>2. CASE written' = Append(written, x)
      <4>1. \A n : HasVideo(Append(written, x), n) <=>
                     HasVideo(written, n) \/ (x.track = "video" /\ x.seg = n)
        BY <1>1, WrittenGrow
      <4> QED BY <2>1, <3>2, <4>1
    <3> QED BY <2>2, <3>1, <3>2
  <2>4. SelfContained(written') BY <1>1, <2>1, <2>2, WrittenGrow
  <2>5. ASSUME seg.writer = "open", seg.index > 0, ~seg.epoch_set PROVE UNCHANGED mux_queue
    BY <2>2, <2>5 DEF KeyInv
  <2>6. KeyInv' BY <1>2, <2>2, <2>3, <2>5 DEF KeyInv
  <2> QED BY <2>4, <2>6
<1>5. CASE MuxPutsVideo
  <2>1. PICK x \in WrittenPacket : /\ x.track = "video" /\ Puts(x) /\ (~seg.epoch_set => x.pts = 0)
                                   /\ \/ mpc = "premux" /\ UNCHANGED mux_queue
                                      \/ /\ mpc # "premux" /\ Popped /\ Head(mux_queue).kind = "video"
                                         /\ x.key = Head(mux_queue).key
    BY <1>5 DEF MuxPutsVideo
  <2>2. /\ seg'.writer = "open" /\ seg'.index = seg.index /\ seg'.epoch_set = TRUE
        /\ ~write_error /\ seg.writer = "open" /\ x.seg = seg.index
        /\ \/ written' = Append(written, x) /\ UNCHANGED write_error
           \/ write_error' = TRUE /\ UNCHANGED written
    BY <1>5, <2>1 DEF MuxPutsVideo, Puts
  <2>3. x.track # "video" \/ ~(x.seg > 0) \/ HasVideo(written, x.seg) \/ (x.key /\ x.pts = 0)
    <3>1. CASE seg.epoch_set BY <2>2, <3>1 DEF KeyInv
    <3>2. CASE ~seg.epoch_set /\ seg.index > 0
      <4>1. mpc \in {"pop", "final"} /\ Head(mux_queue).key BY <2>2, <3>2 DEF KeyInv
      <4> QED BY <2>1, <3>2, <4>1
    <3> QED BY <2>2, <3>1, <3>2
  <2>4. CASE UNCHANGED written /\ write_error' = TRUE BY <1>2, <2>2, <2>4 DEF KeyInv
  <2>5. CASE written' = Append(written, x)
    <3>1. HasVideo(written', seg.index) /\ SelfContained(written') BY <1>1, <2>1, <2>2, <2>3, <2>5, WrittenGrow
    <3> QED BY <1>2, <2>2, <3>1 DEF KeyInv
  <2> QED BY <2>2, <2>4, <2>5
<1>6. CASE MuxOpens
  <2>1. /\ mpc = "open" /\ seg'.writer = "open" /\ seg'.index = 0 /\ seg'.epoch_set = FALSE /\ UNCHANGED written
    BY <1>6 DEF MuxOpens, Opened
  <2>2. written = <<>> BY <1>0, <2>1 DEF PhaseInv
  <2>3. ~HasVideo(<<>>, 0) BY DEF HasVideo
  <2>4. ~(seg'.index > 0) BY <2>1
  <2> QED BY <1>2, <2>1, <2>2, <2>3, <2>4 DEF KeyInv
<1>7. CASE MuxRolls
  <2> DEFINE n == Head(mux_queue).index
  <2>1. /\ mpc \in {"pop", "final"} /\ UNCHANGED <<mpc, written>> /\ Popped /\ Head(mux_queue).kind = "split"
        /\ BeginNewSegment(n)
    BY <1>7 DEF MuxRolls
  <2>2. n \in Nat /\ seg.index < n
    BY <1>0, <1>1, <2>1, ShrinkType, ItemKind, SplitPop DEF NumberInv, Popped
  <2>3. mux_queue' # <<>> /\ Head(mux_queue').kind = "video" /\ Head(mux_queue').key
    BY <1>1, <2>1, SplitPop DEF KeyInv, Popped
  <2> HIDE DEF n
  <2>4. seg'.writer = "none" \/ seg' = Opened(n)
    <3>1. seg' = [seg EXCEPT !.writer = "none"] \/ seg' = Opened(n) \/ seg' = [Opened(n) EXCEPT !.writer = "none"]
      BY <2>1 DEF BeginNewSegment
    <3>2. CASE seg' = [seg EXCEPT !.writer = "none"] BY <1>1, <3>2 DEF SegmentState
    <3>3. CASE seg' = [Opened(n) EXCEPT !.writer = "none"] BY <3>3 DEF Opened
    <3> QED BY <3>1, <3>2, <3>3
  <2>5. CASE seg'.writer = "none" BY <1>2, <2>1, <2>5 DEF KeyInv
  <2>6. CASE seg' = Opened(n)
    <3>1. seg'.index = n /\ seg'.epoch_set = FALSE BY <2>6 DEF Opened
    <3>2. ~HasVideo(written, n)
      <4> SUFFICES ASSUME NEW w \in 1 .. Len(written), written[w].seg = n PROVE FALSE BY DEF HasVideo
      <4>1. n = seg.index \/ Reported(reports, n) BY <1>0 DEF FileInv
      <4>2. ~Reported(reports, n)
        <5> SUFFICES ASSUME NEW r \in 1 .. Len(reports), reports[r].index = n PROVE FALSE BY DEF Reported
        <5>1. n <= seg.index BY <1>0 DEF NumberInv, UpTo
        <5> QED BY <1>1, <2>2, <5>1
      <4> QED BY <1>1, <2>2, <4>1, <4>2
    <3> QED BY <1>2, <2>1, <2>3, <3>1, <3>2 DEF KeyInv
  <2> QED BY <2>4, <2>5, <2>6
<1>8. CASE MuxEnds
  <2>1. seg'.writer = "none" /\ UNCHANGED written BY <1>1, <1>8 DEF MuxEnds, SegmentState
  <2> QED BY <1>2, <2>1 DEF KeyInv
<1> QED BY <1>3, <1>4, <1>5, <1>6, <1>7, <1>8, MuxSteps

\* The first video packet of every file behind a boundary is the forced keyframe
\* at local time 0, whatever the audio threads push in between and whichever
\* faults happen: each file of a split recording can be played on its own.
THEOREM FilesAreSelfContained == Spec => []SegmentsSelfContained
<1> DEFINE Inv == KeyInv /\ SelfContained(written)
<1>1. Init => Inv
  <2> SUFFICES ASSUME Init PROVE Inv OBVIOUS
  <2>1. mux_queue = <<>> /\ written = <<>> /\ seg.writer = "none" BY DEF Init
  <2> QED BY <2>1 DEF KeyInv, SelfContained, Paired
<1>2. TypeOK /\ FilesInv /\ Inv /\ [Next]_vars => Inv'
  <2> SUFFICES ASSUME TypeOK, FilesInv, Inv, [Next]_vars PROVE Inv' OBVIOUS
  <2>1. CASE MuxNext BY <2>1, MuxKey
  <2>2. CASE OutsideMux
    <3>1. UNCHANGED written BY <2>2 DEF OutsideMux
    <3> QED BY <2>2, <3>1, OutsideKey
  <2> QED BY <2>1, <2>2, VideoOutside, AudioOutside, OtherOutside DEF Next, Terminated
<1>3. Inv => SegmentsSelfContained BY DEF SelfContained, SegmentsSelfContained
<1> QED BY <1>1, <1>2, <1>3, InitFiles, NextFiles, TypeCorrect, PTL DEF Spec

-----------------------------------------------------------------------------
(* One stream of a buffer *)

\* x is a packet of stream s (a queue holds all streams and the sentinels).
Is(x, s) == IF s = "video" THEN x.kind = "video" ELSE x.kind = "audio" /\ x.track = s

Ids(q, s)     == {n \in Nat : \E i \in 1 .. Len(q) : Is(q[i], s) /\ q[i].id = n}
DiskIds(ws, s) == {n \in Nat : \E i \in 1 .. Len(ws) : ws[i].track = s /\ ws[i].id = n}
Elements(sq)  == {n \in Nat : \E k \in 1 .. Len(sq) : sq[k] = n}

Sorted(q, s) == \A i, j \in 1 .. Len(q) :
  i < j /\ Is(q[i], s) /\ Is(q[j], s) => q[i].id < q[j].id
DiskSorted(ws) == \A i, j \in 1 .. Len(ws) :
  i < j /\ ws[i].track = ws[j].track => ws[i].id < ws[j].id
Rising(sq) == \A k, l \in 1 .. Len(sq) : k < l => sq[k] < sq[l]

\* Every number of A is below every number of B.
Lt(A, B) == \A a \in A, b \in B : a < b

LEMMA PacketId ==
  ASSUME NEW x \in MuxItem, NEW s \in Streams, Is(x, s)
  PROVE  x.id \in Nat /\ x.kind \in {"video", "audio"}
<1>1. x \in VideoPacket \/ x \in AudioPacket BY ItemKind DEF Is
<1>2. CASE x \in VideoPacket BY <1>2 DEF VideoPacket
<1>3. CASE x \in AudioPacket BY <1>3 DEF AudioPacket
<1> QED BY <1>1, <1>2, <1>3

LEMMA PacketBuffer ==
  ASSUME NEW q, q \in Seq(VideoPacket) \/ q \in Seq(AudioPacket)
  PROVE  q \in Seq(MuxItem)
<1>1. VideoPacket \subseteq MuxItem /\ AudioPacket \subseteq MuxItem BY DEF MuxItem
<1> QED BY <1>1, SeqMonotonic

LEMMA IdsEmpty ==
  ASSUME NEW s
  PROVE  Ids(<<>>, s) = {} /\ Sorted(<<>>, s) /\ DiskIds(<<>>, s) = {} /\ DiskSorted(<<>>)
         /\ Elements(<<>>) = {} /\ Rising(<<>>)
BY DEF Ids, Sorted, DiskIds, DiskSorted, Elements, Rising

LEMMA IdsGrow ==
  ASSUME NEW q \in Seq(MuxItem), NEW e \in MuxItem, NEW s \in Streams
  PROVE  /\ Is(e, s) => Ids(Append(q, e), s) = Ids(q, s) \cup {e.id}
         /\ ~Is(e, s) => Ids(Append(q, e), s) = Ids(q, s)
         /\ Sorted(q, s) /\ (Is(e, s) => Lt(Ids(q, s), {e.id})) => Sorted(Append(q, e), s)
<1> DEFINE t == Append(q, e)
<1>1. /\ Len(q) \in Nat /\ Len(t) = Len(q) + 1 /\ t[Len(q) + 1] = e
      /\ \A i \in 1 .. Len(q) : t[i] = q[i] /\ q[i] \in MuxItem
  BY AppendProperties, LenProperties, ElementOfSeq
<1> HIDE DEF t
<1>2. \A i \in 1 .. Len(t) : i \in 1 .. Len(q) \/ i = Len(q) + 1 BY <1>1
<1>3. \A i \in 1 .. Len(q) : i \in 1 .. Len(t) BY <1>1
<1>4. Len(q) + 1 \in 1 .. Len(t) BY <1>1
<1>5. Is(e, s) => e.id \in Nat BY PacketId
<1>6. ASSUME Is(e, s) PROVE Ids(t, s) = Ids(q, s) \cup {e.id}
  <2>1. \A n \in Nat : n \in Ids(t, s) => n \in Ids(q, s) \/ n = e.id BY <1>1, <1>2 DEF Ids
  <2>2. \A n \in Nat : n \in Ids(q, s) => n \in Ids(t, s) BY <1>1, <1>3 DEF Ids
  <2>3. e.id \in Ids(t, s) BY <1>1, <1>4, <1>5, <1>6 DEF Ids
  <2>4. Ids(t, s) \subseteq Nat /\ Ids(q, s) \subseteq Nat BY DEF Ids
  <2> QED BY <2>1, <2>2, <2>3, <2>4
<1>7. ASSUME ~Is(e, s) PROVE Ids(t, s) = Ids(q, s)
  <2>1. \A n \in Nat : n \in Ids(t, s) <=> n \in Ids(q, s) BY <1>1, <1>2, <1>3, <1>7 DEF Ids
  <2>2. Ids(t, s) \subseteq Nat /\ Ids(q, s) \subseteq Nat BY DEF Ids
  <2> QED BY <2>1, <2>2
<1>8. ASSUME Sorted(q, s), Is(e, s) => Lt(Ids(q, s), {e.id}) PROVE Sorted(t, s)
  <2> SUFFICES ASSUME NEW i \in 1 .. Len(t), NEW j \in 1 .. Len(t), i < j, Is(t[i], s), Is(t[j], s)
               PROVE  t[i].id < t[j].id
    BY DEF Sorted
  <2>1. i \in 1 .. Len(q) /\ t[i] = q[i] BY <1>1
  <2>2. CASE j \in 1 .. Len(q)
    <3>1. t[j] = q[j] BY <1>1, <2>2
    <3> QED BY <1>8, <2>1, <2>2, <3>1 DEF Sorted
  <2>3. CASE j = Len(q) + 1
    <3>1. t[j] = e BY <1>1, <2>3
    <3>2. q[i].id \in Nat BY <1>1, <2>1, PacketId
    <3>3. q[i].id \in Ids(q, s) BY <2>1, <3>2 DEF Ids
    <3> QED BY <1>8, <2>1, <3>1, <3>3 DEF Lt
  <2> QED BY <1>2, <2>2, <2>3
<1> QED BY <1>6, <1>7, <1>8 DEF t

LEMMA IdsPop ==
  ASSUME NEW q \in Seq(MuxItem), q # <<>>, NEW s \in Streams
  PROVE  /\ Is(Head(q), s) => Ids(q, s) = Ids(Tail(q), s) \cup {Head(q).id}
         /\ ~Is(Head(q), s) => Ids(q, s) = Ids(Tail(q), s)
         /\ Sorted(q, s) => Sorted(Tail(q), s) /\ (Is(Head(q), s) => Lt({Head(q).id}, Ids(Tail(q), s)))
<1> DEFINE t == Tail(q)
<1>1. /\ Len(q) \in Nat \ {0} /\ Len(t) = Len(q) - 1 /\ Head(q) = q[1] /\ q[1] \in MuxItem
      /\ \A i \in 1 .. Len(t) : t[i] = q[i + 1]
  BY HeadTailProperties, EmptySeq, ElementOfSeq
<1> HIDE DEF t
<1>2. \A i \in 1 .. Len(q) : i = 1 \/ (i - 1 \in 1 .. Len(t) /\ t[i - 1] = q[i])
  <2> SUFFICES ASSUME NEW i \in 1 .. Len(q), i # 1 PROVE i - 1 \in 1 .. Len(t) /\ t[i - 1] = q[i] OBVIOUS
  <2>1. i - 1 \in 1 .. Len(t) /\ (i - 1) + 1 = i BY <1>1
  <2> QED BY <1>1, <2>1
<1>3. 1 \in 1 .. Len(q) /\ \A i \in 1 .. Len(t) : i \in Int /\ i + 1 \in 1 .. Len(q) /\ 1 < i + 1 BY <1>1
<1>4. Ids(t, s) \subseteq Nat /\ Ids(q, s) \subseteq Nat BY DEF Ids
<1>5. /\ Is(Head(q), s) => Ids(q, s) = Ids(t, s) \cup {Head(q).id}
      /\ ~Is(Head(q), s) => Ids(q, s) = Ids(t, s)
  <2>1. \A n \in Nat : n \in Ids(t, s) => n \in Ids(q, s) BY <1>1, <1>3 DEF Ids
  <2>2. \A n \in Nat : n \in Ids(q, s) => n \in Ids(t, s) \/ (Is(Head(q), s) /\ n = Head(q).id) BY <1>1, <1>2 DEF Ids
  <2>3. Is(Head(q), s) => Head(q).id \in Ids(q, s) BY <1>1, <1>3, PacketId DEF Ids
  <2>4. CASE Is(Head(q), s) BY <1>4, <2>1, <2>2, <2>3, <2>4
  <2>5. CASE ~Is(Head(q), s) BY <1>4, <2>1, <2>2, <2>5
  <2> QED BY <2>4, <2>5
<1>6. ASSUME Sorted(q, s) PROVE Sorted(t, s)
  <2> SUFFICES ASSUME NEW i \in 1 .. Len(t), NEW j \in 1 .. Len(t), i < j, Is(t[i], s), Is(t[j], s)
               PROVE  t[i].id < t[j].id
    BY DEF Sorted
  <2>1. i + 1 < j + 1 BY <1>3
  <2> QED BY <1>1, <1>3, <1>6, <2>1 DEF Sorted
<1>7. ASSUME Sorted(q, s), Is(Head(q), s) PROVE Lt({Head(q).id}, Ids(t, s))
  <2> SUFFICES ASSUME NEW n \in Ids(t, s) PROVE Head(q).id < n BY DEF Lt
  <2>1. PICK i \in 1 .. Len(t) : Is(t[i], s) /\ t[i].id = n BY DEF Ids
  <2> QED BY <1>1, <1>3, <1>7, <2>1 DEF Sorted
<1> QED BY <1>5, <1>6, <1>7 DEF t

LEMMA IdsSuffix ==
  ASSUME NEW q \in Seq(VideoPacket), NEW u \in Suffixes(q)
  PROVE  Ids(u, "video") \subseteq Ids(q, "video") /\ (Sorted(q, "video") => Sorted(u, "video"))
<1>1. PICK m \in 1 .. Len(q) + 1 : u = SubSeq(q, m, Len(q)) BY DEF Suffixes
<1>2. Len(q) \in Nat /\ \A i \in m .. Len(q) : q[i] \in VideoPacket BY LenProperties, ElementOfSeq
<1>3. /\ Len(u) = IF m <= Len(q) THEN Len(q) - m + 1 ELSE 0
      /\ \A i \in 1 .. Len(q) - m + 1 : u[i] = q[m + i - 1]
  BY <1>1, <1>2, SubSeqProperties
<1>4. \A i \in 1 .. Len(u) : m + i - 1 \in 1 .. Len(q) /\ u[i] = q[m + i - 1] BY <1>1, <1>2, <1>3
<1>5. Ids(u, "video") \subseteq Ids(q, "video") BY <1>4 DEF Ids
<1>6. ASSUME Sorted(q, "video") PROVE Sorted(u, "video")
  <2> SUFFICES ASSUME NEW i \in 1 .. Len(u), NEW j \in 1 .. Len(u), i < j, Is(u[i], "video"), Is(u[j], "video")
               PROVE  u[i].id < u[j].id
    BY DEF Sorted
  <2>1. m + i - 1 < m + j - 1 BY <1>2
  <2> QED BY <1>4, <1>6, <2>1 DEF Sorted
<1> QED BY <1>5, <1>6

LEMMA DiskGrow ==
  ASSUME NEW ws \in Seq(WrittenPacket), NEW x \in WrittenPacket
  PROVE  /\ DiskIds(Append(ws, x), x.track) = DiskIds(ws, x.track) \cup {x.id}
         /\ \A s : s # x.track => DiskIds(Append(ws, x), s) = DiskIds(ws, s)
         /\ DiskSorted(ws) /\ Lt(DiskIds(ws, x.track), {x.id}) => DiskSorted(Append(ws, x))
<1> DEFINE t == Append(ws, x)
<1>1. /\ Len(ws) \in Nat /\ Len(t) = Len(ws) + 1 /\ t[Len(ws) + 1] = x
      /\ \A i \in 1 .. Len(ws) : t[i] = ws[i] /\ ws[i] \in WrittenPacket
  BY AppendProperties, LenProperties, ElementOfSeq
<1> HIDE DEF t
<1>2. \A i \in 1 .. Len(t) : i \in 1 .. Len(ws) \/ i = Len(ws) + 1 BY <1>1
<1>3. \A i \in 1 .. Len(ws) : i \in 1 .. Len(t) BY <1>1
<1>4. Len(ws) + 1 \in 1 .. Len(t) BY <1>1
<1>5. \A y \in WrittenPacket : y.id \in Nat BY DEF WrittenPacket
<1>6. ASSUME NEW s
      PROVE  /\ x.track = s => DiskIds(t, s) = DiskIds(ws, s) \cup {x.id}
             /\ x.track # s => DiskIds(t, s) = DiskIds(ws, s)
  <2>1. \A n \in Nat : n \in DiskIds(t, s) => n \in DiskIds(ws, s) \/ (x.track = s /\ n = x.id) BY <1>1, <1>2 DEF DiskIds
  <2>2. \A n \in Nat : n \in DiskIds(ws, s) => n \in DiskIds(t, s) BY <1>1, <1>3 DEF DiskIds
  <2>3. x.track = s => x.id \in DiskIds(t, s) BY <1>1, <1>4, <1>5 DEF DiskIds
  <2>4. DiskIds(t, s) \subseteq Nat /\ DiskIds(ws, s) \subseteq Nat BY DEF DiskIds
  <2>5. CASE x.track = s BY <2>1, <2>2, <2>3, <2>4, <2>5
  <2>6. CASE x.track # s BY <2>1, <2>2, <2>4, <2>6
  <2> QED BY <2>5, <2>6
<1>7. ASSUME DiskSorted(ws), Lt(DiskIds(ws, x.track), {x.id}) PROVE DiskSorted(t)
  <2> SUFFICES ASSUME NEW i \in 1 .. Len(t), NEW j \in 1 .. Len(t), i < j, t[i].track = t[j].track
               PROVE  t[i].id < t[j].id
    BY DEF DiskSorted
  <2>1. i \in 1 .. Len(ws) /\ t[i] = ws[i] BY <1>1
  <2>2. CASE j \in 1 .. Len(ws)
    <3>1. t[j] = ws[j] BY <1>1, <2>2
    <3> QED BY <1>7, <2>1, <2>2, <3>1 DEF DiskSorted
  <2>3. CASE j = Len(ws) + 1
    <3>1. t[j] = x BY <1>1, <2>3
    <3>2. ws[i].id \in DiskIds(ws, x.track) BY <1>1, <1>5, <2>1, <3>1 DEF DiskIds
    <3> QED BY <1>7, <2>1, <3>1, <3>2 DEF Lt
  <2> QED BY <1>2, <2>2, <2>3
<1> QED BY <1>6, <1>7 DEF t

LEMMA ElementsGrow ==
  ASSUME NEW sq \in Seq(Nat), NEW n \in Nat
  PROVE  /\ Elements(Append(sq, n)) = Elements(sq) \cup {n}
         /\ Rising(sq) /\ Lt(Elements(sq), {n}) => Rising(Append(sq, n))
<1> DEFINE t == Append(sq, n)
<1>1. /\ Len(sq) \in Nat /\ Len(t) = Len(sq) + 1 /\ t[Len(sq) + 1] = n
      /\ \A i \in 1 .. Len(sq) : t[i] = sq[i] /\ sq[i] \in Nat
  BY AppendProperties, LenProperties, ElementOfSeq
<1> HIDE DEF t
<1>2. \A i \in 1 .. Len(t) : i \in 1 .. Len(sq) \/ i = Len(sq) + 1 BY <1>1
<1>3. \A i \in 1 .. Len(sq) : i \in 1 .. Len(t) BY <1>1
<1>4. Len(sq) + 1 \in 1 .. Len(t) BY <1>1
<1>5. Elements(t) = Elements(sq) \cup {n}
  <2>1. \A m \in Nat : m \in Elements(t) => m \in Elements(sq) \/ m = n BY <1>1, <1>2 DEF Elements
  <2>2. \A m \in Nat : m \in Elements(sq) => m \in Elements(t) BY <1>1, <1>3 DEF Elements
  <2>3. n \in Elements(t) BY <1>1, <1>4 DEF Elements
  <2>4. Elements(t) \subseteq Nat /\ Elements(sq) \subseteq Nat BY DEF Elements
  <2> QED BY <2>1, <2>2, <2>3, <2>4
<1>6. ASSUME Rising(sq), Lt(Elements(sq), {n}) PROVE Rising(t)
  <2> SUFFICES ASSUME NEW k \in 1 .. Len(t), NEW l \in 1 .. Len(t), k < l PROVE t[k] < t[l] BY DEF Rising
  <2>1. k \in 1 .. Len(sq) /\ t[k] = sq[k] /\ sq[k] \in Elements(sq) BY <1>1 DEF Elements
  <2>2. CASE l \in 1 .. Len(sq) BY <1>1, <1>6, <2>1, <2>2 DEF Rising
  <2>3. CASE l = Len(sq) + 1 BY <1>1, <1>6, <2>1, <2>3 DEF Lt
  <2> QED BY <1>2, <2>2, <2>3
<1> QED BY <1>5, <1>6 DEF t

-----------------------------------------------------------------------------
(* Where the packets of a stream are *)

DiskOf(s)  == DiskIds(written, s)
HeldOf(s)  == Ids(segment_pending_audio, s)
PreOf(s)   == IF s = "video" THEN Ids(video_premux, s) ELSE Ids(audio_premux, s)
QueueOf(s) == Ids(mux_queue, s)
SentOf(s)  == Elements(Sent(s))

Lost(D, H, P, Q, S) == S \ (D \cup H \cup P \cup Q)

\* The packets of a stream stand in line: first those on disk, then the held
\* ones, the pre-mux buffer and the queue.  What was lost had been at the head.
Line(D, H, P, Q, S) ==
  /\ Lt(D, H) /\ Lt(D, P) /\ Lt(D, Q) /\ Lt(H, P) /\ Lt(H, Q) /\ Lt(P, Q)
  /\ D \subseteq S /\ H \subseteq S /\ P \subseteq S /\ Q \subseteq S
  /\ Lt(Lost(D, H, P, Q, S), P \cup Q)

GoneOf(s) == Lost(DiskOf(s), HeldOf(s), PreOf(s), QueueOf(s), SentOf(s))

LineInv == \A s \in Streams : Line(DiskOf(s), HeldOf(s), PreOf(s), QueueOf(s), SentOf(s))

SortInv ==
  /\ DiskSorted(written)
  /\ \A s \in Streams : /\ Sorted(video_premux, s) /\ Sorted(audio_premux, s)
                        /\ Sorted(mux_queue, s) /\ Sorted(segment_pending_audio, s)
                        /\ Rising(Sent(s))

\* The packets still to be handed over are younger than those handed over.
FreshInv ==
  /\ Sorted(in_flight, "video")
  /\ Lt(SentOf("video"), Ids(vheld, "video")) /\ Lt(SentOf("video"), Ids(in_flight, "video"))
  /\ Lt(Ids(vheld, "video"), Ids(in_flight, "video"))
  /\ Lt(SentOf("video"), {frame_idx}) /\ Lt(Ids(vheld, "video"), {frame_idx})
  /\ Lt(Ids(in_flight, "video"), {frame_idx})
  /\ \A t \in Tracks : /\ Lt(SentOf(t), {audio_idx[t]}) /\ audio_idx[t] <= MaxAudio
                       /\ apc[t] = "wait" => audio_idx[t] < MaxAudio

\* A packet passes the pre-mux gate, and MuxThread its wait, only once every
\* header is known, and MuxThread empties the pre-mux buffers before the queue.
ReadyInv ==
  /\ (\E s \in Streams : QueueOf(s) # {}) => BothReady
  /\ vheld # <<>> => BothReady
  /\ (\E t \in Tracks : apc[t] = "wait") => BothReady
  /\ mpc = "open" \/ mpc \in Writing => BothReady
  /\ mpc \in {"top", "pop", "final"} => video_premux = <<>> /\ audio_premux = <<>>

OrderInv == LineInv /\ SortInv /\ FreshInv /\ ReadyInv

LEMMA LineAdd ==
  ASSUME NEW D, NEW H, NEW P, NEW Q, NEW S \in SUBSET Nat, Line(D, H, P, Q, S), NEW n \in Nat, Lt(S, {n})
  PROVE  /\ Line(D, H, P, Q \cup {n}, S \cup {n})
         /\ Q = {} => Line(D, H, P \cup {n}, Q, S \cup {n})
         /\ n \notin S
<1>1. /\ D \subseteq S /\ H \subseteq S /\ P \subseteq S /\ Q \subseteq S /\ n \notin S
      /\ \A a \in S : a < n
  BY DEF Line, Lt
<1>2. /\ Lost(D, H, P, Q \cup {n}, S \cup {n}) = Lost(D, H, P, Q, S)
      /\ Lost(D, H, P \cup {n}, Q, S \cup {n}) = Lost(D, H, P, Q, S)
  BY <1>1 DEF Lost
<1>3. \A a \in Lost(D, H, P, Q, S) : a < n BY <1>1 DEF Lost
<1>4. Line(D, H, P, Q \cup {n}, S \cup {n}) BY <1>1, <1>2, <1>3 DEF Line, Lt
<1>5. Q = {} => Line(D, H, P \cup {n}, Q, S \cup {n}) BY <1>1, <1>2, <1>3 DEF Line, Lt
<1> QED BY <1>1, <1>4, <1>5

\* One packet leaves the head of a buffer for the disk, for the hold, or for good.
Took(m, D, H, P, Q, D2, H2, P2, Q2) ==
  /\ D2 = D \/ D2 = D \cup {m}
  /\ \/ /\ P = P2 \cup {m} /\ Lt({m}, P2) /\ Q2 = Q
        /\ (H2 = H /\ (D2 = D \/ H = {})) \/ (H2 = H \cup {m} /\ D2 = D)
     \/ /\ P = {} /\ P2 = {} /\ Q = Q2 \cup {m} /\ Lt({m}, Q2)
        /\ (H2 = H /\ (D2 = D \/ H = {})) \/ (H2 = H \cup {m} /\ D2 = D)
     \/ H = H2 \cup {m} /\ Lt({m}, H2) /\ P2 = P /\ Q2 = Q

LineStep(m, D, H, P, Q, S, D2, H2, P2, Q2) ==
  S \subseteq Nat /\ Line(D, H, P, Q, S) /\ Took(m, D, H, P, Q, D2, H2, P2, Q2)

\* What was lost grows by m unless m is kept.
Loses(L, L2, m, D2, H2) ==
  /\ m \in D2 \/ m \in H2 => L2 = L
  /\ ~(m \in D2 \/ m \in H2) => L2 = L \cup {m}

LEMMA LineTake ==
  ASSUME NEW D, NEW H, NEW P, NEW Q, NEW S, NEW m, NEW D2, NEW H2, NEW P2, NEW Q2,
         LineStep(m, D, H, P, Q, S, D2, H2, P2, Q2)
  PROVE  /\ Line(D2, H2, P2, Q2, S) /\ m \in S /\ m \notin D /\ m \notin Lost(D, H, P, Q, S)
         /\ Lt(D, {m})
         /\ Loses(Lost(D, H, P, Q, S), Lost(D2, H2, P2, Q2, S), m, D2, H2)
<1> USE DEF LineStep, Took, Loses
<1>1. /\ D \subseteq S /\ H \subseteq S /\ P \subseteq S /\ Q \subseteq S
      /\ \A a \in S : a \in Nat /\ ~(a < a)
  BY DEF Line
<1>2. m \in S /\ Lt(D, {m}) BY DEF Line, Lt
<1>3. m \notin D BY <1>1, <1>2 DEF Lt
<1>4. CASE /\ P = P2 \cup {m} /\ Lt({m}, P2) /\ Q2 = Q
           /\ (H2 = H /\ (D2 = D \/ H = {})) \/ (H2 = H \cup {m} /\ D2 = D)
  <2>1. m \notin P2 /\ m \notin Q /\ m \notin H BY <1>1, <1>4 DEF Line, Lt
  <2>2. m \in D2 \/ m \in H2 => Lost(D2, H2, P2, Q2, S) = Lost(D, H, P, Q, S)
    BY <1>4, <2>1, <1>2 DEF Lost
  <2>3. ~(m \in D2 \/ m \in H2) => Lost(D2, H2, P2, Q2, S) = Lost(D, H, P, Q, S) \cup {m}
    BY <1>2, <1>3, <1>4, <2>1 DEF Lost
  <2>4. \A a \in P2 \cup Q2 : m < a BY <1>4 DEF Line, Lt
  <2>5. Lt(Lost(D2, H2, P2, Q2, S), P2 \cup Q2) BY <1>4, <2>2, <2>3, <2>4 DEF Line, Lt
  <2>6. /\ D2 \subseteq S /\ H2 \subseteq S /\ P2 \subseteq S /\ Q2 \subseteq S BY <1>1, <1>2, <1>4
  <2>7. Lt(D2, H2) /\ Lt(D2, P2) /\ Lt(D2, Q2) /\ Lt(H2, P2) /\ Lt(H2, Q2) /\ Lt(P2, Q2)
    BY <1>4 DEF Line, Lt
  <2>8. m \notin Lost(D, H, P, Q, S) BY <1>4 DEF Lost
  <2> QED BY <1>2, <1>3, <2>2, <2>3, <2>5, <2>6, <2>7, <2>8 DEF Line
<1>5. CASE /\ P = {} /\ P2 = {} /\ Q = Q2 \cup {m} /\ Lt({m}, Q2)
           /\ (H2 = H /\ (D2 = D \/ H = {})) \/ (H2 = H \cup {m} /\ D2 = D)
  <2>1. m \notin Q2 /\ m \notin H BY <1>1, <1>5 DEF Line, Lt
  <2>2. m \in D2 \/ m \in H2 => Lost(D2, H2, P2, Q2, S) = Lost(D, H, P, Q, S)
    BY <1>5, <2>1, <1>2 DEF Lost
  <2>3. ~(m \in D2 \/ m \in H2) => Lost(D2, H2, P2, Q2, S) = Lost(D, H, P, Q, S) \cup {m}
    BY <1>2, <1>3, <1>5, <2>1 DEF Lost
  <2>5. Lt(Lost(D2, H2, P2, Q2, S), P2 \cup Q2) BY <1>5, <2>2, <2>3 DEF Line, Lt
  <2>6. /\ D2 \subseteq S /\ H2 \subseteq S /\ P2 \subseteq S /\ Q2 \subseteq S BY <1>1, <1>2, <1>5
  <2>7. Lt(D2, H2) /\ Lt(D2, P2) /\ Lt(D2, Q2) /\ Lt(H2, P2) /\ Lt(H2, Q2) /\ Lt(P2, Q2)
    BY <1>5 DEF Line, Lt
  <2>8. m \notin Lost(D, H, P, Q, S) BY <1>5 DEF Lost
  <2> QED BY <1>2, <1>3, <2>2, <2>3, <2>5, <2>6, <2>7, <2>8 DEF Line
<1>6. CASE H = H2 \cup {m} /\ Lt({m}, H2) /\ P2 = P /\ Q2 = Q
  <2>1. m \notin H2 /\ m \notin P /\ m \notin Q BY <1>1, <1>6 DEF Line, Lt
  <2>2. m \in D2 \/ m \in H2 => Lost(D2, H2, P2, Q2, S) = Lost(D, H, P, Q, S)
    BY <1>6, <2>1, <1>2 DEF Lost
  <2>3. ~(m \in D2 \/ m \in H2) => Lost(D2, H2, P2, Q2, S) = Lost(D, H, P, Q, S) \cup {m}
    BY <1>2, <1>3, <1>6, <2>1 DEF Lost
  <2>4. \A a \in P2 \cup Q2 : m < a BY <1>6 DEF Line, Lt
  <2>5. Lt(Lost(D2, H2, P2, Q2, S), P2 \cup Q2) BY <1>6, <2>2, <2>3, <2>4 DEF Line, Lt
  <2>6. /\ D2 \subseteq S /\ H2 \subseteq S /\ P2 \subseteq S /\ Q2 \subseteq S BY <1>1, <1>2, <1>6
  <2>7. Lt(D2, H2) /\ Lt(D2, P2) /\ Lt(D2, Q2) /\ Lt(H2, P2) /\ Lt(H2, Q2) /\ Lt(P2, Q2)
    BY <1>6 DEF Line, Lt
  <2>8. m \notin Lost(D, H, P, Q, S) BY <1>6 DEF Lost
  <2> QED BY <1>2, <1>3, <2>2, <2>3, <2>5, <2>6, <2>7, <2>8 DEF Line
<1> QED BY <1>4, <1>5, <1>6

\* Stream s hands packet n over to the queue, or to its pre-mux buffer as long
\* as the queue has no packet of it.
Hands(s, n) ==
  /\ n \in Nat /\ Lt(SentOf(s), {n})
  /\ SentOf(s)' = SentOf(s) \cup {n} /\ Rising(Sent(s)')
  /\ \A u \in Streams : u # s => UNCHANGED <<Sent(u), PreOf(u), QueueOf(u)>>
  /\ \/ UNCHANGED PreOf(s) /\ QueueOf(s)' = QueueOf(s) \cup {n}
     \/ QueueOf(s) = {} /\ UNCHANGED QueueOf(s) /\ PreOf(s)' = PreOf(s) \cup {n}

HandsNothing == \A u \in Streams : UNCHANGED <<Sent(u), PreOf(u), QueueOf(u)>>

LEMMA ProducerLine ==
  ASSUME LineInv, UNCHANGED <<written, segment_pending_audio>>,
         HandsNothing \/ \E s \in Streams : \E n : Hands(s, n)
  PROVE  LineInv' /\ \A s \in Streams : GoneOf(s)' = GoneOf(s) /\ (Rising(Sent(s)) => Rising(Sent(s)'))
<1>1. \A s : DiskOf(s)' = DiskOf(s) /\ HeldOf(s)' = HeldOf(s) BY DEF DiskOf, HeldOf
<1>2. ASSUME NEW u \in Streams, UNCHANGED <<Sent(u), PreOf(u), QueueOf(u)>>
      PROVE  /\ Line(DiskOf(u), HeldOf(u), PreOf(u), QueueOf(u), SentOf(u))'
             /\ GoneOf(u)' = GoneOf(u) /\ (Rising(Sent(u)) => Rising(Sent(u)'))
  <2>1. SentOf(u)' = SentOf(u) BY <1>2 DEF SentOf
  <2>2. Line(DiskOf(u), HeldOf(u), PreOf(u), QueueOf(u), SentOf(u)) BY DEF LineInv
  <2> QED BY <1>1, <1>2, <2>1, <2>2 DEF GoneOf
<1>3. ASSUME NEW s \in Streams, NEW n, Hands(s, n)
      PROVE  /\ Line(DiskOf(s), HeldOf(s), PreOf(s), QueueOf(s), SentOf(s))'
             /\ GoneOf(s)' = GoneOf(s) /\ Rising(Sent(s)')
  <2>1. /\ n \in Nat /\ Lt(SentOf(s), {n}) /\ SentOf(s)' = SentOf(s) \cup {n} /\ Rising(Sent(s)')
        /\ \/ PreOf(s)' = PreOf(s) /\ QueueOf(s)' = QueueOf(s) \cup {n}
           \/ QueueOf(s) = {} /\ QueueOf(s)' = QueueOf(s) /\ PreOf(s)' = PreOf(s) \cup {n}
    BY <1>3 DEF Hands
  <2>2. Line(DiskOf(s), HeldOf(s), PreOf(s), QueueOf(s), SentOf(s)) /\ SentOf(s) \in SUBSET Nat
    BY DEF LineInv, SentOf, Elements
  <2> DEFINE D == DiskOf(s) H == HeldOf(s) P == PreOf(s) Q == QueueOf(s) S == SentOf(s)
  <2>3. /\ Line(D, H, P, Q \cup {n}, S \cup {n})
        /\ Lost(D, H, P, Q \cup {n}, S \cup {n}) = GoneOf(s)
        /\ Q = {} => /\ Line(D, H, P \cup {n}, Q, S \cup {n})
                     /\ Lost(D, H, P \cup {n}, Q, S \cup {n}) = GoneOf(s)
    <3>1. Line(D, H, P, Q, S) /\ S \in SUBSET Nat /\ Lt(S, {n}) /\ n \in Nat BY <2>1, <2>2
    <3>2. GoneOf(s) = Lost(D, H, P, Q, S) BY DEF GoneOf
    <3> HIDE DEF D, H, P, Q, S
    <3>3. /\ Line(D, H, P, Q \cup {n}, S \cup {n})
          /\ Q = {} => Line(D, H, P \cup {n}, Q, S \cup {n})
          /\ n \notin S
      BY <3>1, LineAdd
    <3>4. /\ Lost(D, H, P, Q \cup {n}, S \cup {n}) = Lost(D, H, P, Q, S)
          /\ Lost(D, H, P \cup {n}, Q, S \cup {n}) = Lost(D, H, P, Q, S)
      BY <3>3 DEF Lost
    <3> QED BY <3>2, <3>3, <3>4
  <2>4. CASE PreOf(s)' = PreOf(s) /\ QueueOf(s)' = QueueOf(s) \cup {n}
    BY <1>1, <2>1, <2>3, <2>4 DEF GoneOf
  <2>5. CASE QueueOf(s) = {} /\ QueueOf(s)' = QueueOf(s) /\ PreOf(s)' = PreOf(s) \cup {n}
    BY <1>1, <2>1, <2>3, <2>5 DEF GoneOf
  <2> QED BY <2>1, <2>4, <2>5
<1>4. CASE HandsNothing BY <1>2, <1>4 DEF HandsNothing, LineInv
<1>5. ASSUME NEW s \in Streams, NEW n, Hands(s, n)
      PROVE  LineInv' /\ \A u \in Streams : GoneOf(u)' = GoneOf(u) /\ (Rising(Sent(u)) => Rising(Sent(u)'))
  <2>1. \A u \in Streams : u # s => UNCHANGED <<Sent(u), PreOf(u), QueueOf(u)>> BY <1>5 DEF Hands
  <2> QED BY <1>2, <1>3, <1>5, <2>1 DEF LineInv
<1> QED BY <1>4, <1>5

-----------------------------------------------------------------------------
(* The producers keep the line *)

LEMMA StreamSent == ASSUME NEW t \in Tracks PROVE t \in Streams /\ t # "video" /\ Sent(t) = asent[t] /\ Sent("video") = vsent
BY TracksAssumption DEF TracksAssumption, Streams, Sent

LEMMA StreamPre ==
  ASSUME NEW t \in Tracks
  PROVE  PreOf(t) = Ids(audio_premux, t) /\ PreOf("video") = Ids(video_premux, "video")
BY TracksAssumption DEF TracksAssumption, PreOf

\* A step of VideoThread, as what it does to the packets on their way.
VideoOrder ==
  /\ UNCHANGED <<written, segment_pending_audio, audio_premux, asent, apc, audio_idx>>
  /\ BothReady => BothReady'
  /\ mpc' = mpc \/ (mpc = "blocked" /\ mpc' = "check")
  /\ \/ /\ UNCHANGED <<video_premux, vsent, vheld, in_flight, frame_idx>>
        /\ UNCHANGED mux_queue \/ mux_queue' = Append(mux_queue, [kind |-> "video_eos"])
     \/ /\ UNCHANGED <<video_premux, vsent, vheld, mux_queue>> /\ frame_idx' = frame_idx + 1
        /\ \E p \in VideoPacket : p.id = frame_idx /\ in_flight' = Append(in_flight, p)
     \/ /\ UNCHANGED <<video_premux, vsent, mux_queue, frame_idx>>
        /\ Ids(in_flight', "video") \subseteq Ids(in_flight, "video")
        /\ Sorted(in_flight, "video") => Sorted(in_flight', "video")
        /\ UNCHANGED vheld \/ vheld' = <<>>
     \/ /\ UNCHANGED <<video_premux, vsent, mux_queue, frame_idx>> /\ BothReady'
        /\ in_flight # <<>> /\ vheld' = <<Head(in_flight)>> /\ in_flight' = Tail(in_flight)
     \/ /\ UNCHANGED <<mux_queue, frame_idx, vheld>> /\ ~BothReady' /\ in_flight # <<>>
        /\ video_premux' = Append(video_premux, Head(in_flight)) /\ vsent' = Append(vsent, Head(in_flight).id)
        /\ in_flight' = Tail(in_flight)
     \/ /\ UNCHANGED <<video_premux, in_flight, frame_idx>> /\ vheld # <<>> /\ vheld' = <<>>
        /\ vsent' = Append(vsent, vheld[1].id)
        /\ \/ mux_queue' = Append(mux_queue, vheld[1])
           \/ mux_queue' = mux_queue \o <<Boundary(current_segment_index + 1), vheld[1]>>

\* What a step may drop of the frames in flight.
Shorter(q, u) == Ids(u, "video") \subseteq Ids(q, "video") /\ (Sorted(q, "video") => Sorted(u, "video"))

LEMMA ShorterCases ==
  ASSUME NEW q \in Seq(VideoPacket)
  PROVE  /\ Shorter(q, q) /\ Shorter(q, <<>>)
         /\ \A u \in Suffixes(q) : Shorter(q, u)
         /\ q # <<>> => Shorter(q, Tail(q)) /\ \A u \in Suffixes(Tail(q)) : Shorter(q, u)
<1>1. Shorter(q, q) BY DEF Shorter
<1>2. Shorter(q, <<>>)
  <2>1. Ids(<<>>, "video") = {} /\ Sorted(<<>>, "video") BY IdsEmpty
  <2> QED BY <2>1 DEF Shorter
<1>3. ASSUME NEW v \in Seq(VideoPacket), NEW u \in Suffixes(v) PROVE Shorter(v, u) BY <1>3, IdsSuffix DEF Shorter
<1>4. ASSUME q # <<>> PROVE Tail(q) \in Seq(VideoPacket) /\ Shorter(q, Tail(q))
  <2>1. q \in Seq(MuxItem) /\ "video" \in Streams BY PacketBuffer DEF Streams
  <2>2. /\ Is(Head(q), "video") => Ids(q, "video") = Ids(Tail(q), "video") \cup {Head(q).id}
        /\ ~Is(Head(q), "video") => Ids(q, "video") = Ids(Tail(q), "video")
        /\ Sorted(q, "video") => Sorted(Tail(q), "video")
    BY <1>4, <2>1, IdsPop
  <2>3. Ids(Tail(q), "video") \subseteq Ids(q, "video") BY <2>2
  <2> QED BY <1>4, <2>2, <2>3, ShrinkType DEF Shorter
<1>5. ASSUME q # <<>>, NEW u \in Suffixes(Tail(q)) PROVE Shorter(q, u)
  <2>1. Shorter(q, Tail(q)) /\ Shorter(Tail(q), u) BY <1>3, <1>4, <1>5
  <2> QED BY <2>1 DEF Shorter
<1> QED BY <1>1, <1>2, <1>3, <1>4, <1>5

LEMMA VideoOrders == ASSUME TypeOK, VideoNext PROVE VideoOrder
<1>0. in_flight \in Seq(VideoPacket) /\ video_ready \in BOOLEAN /\ frame_idx \in Nat
  BY DEF TypeOK, VideoType, SessionType
<1>1. /\ UNCHANGED <<written, segment_pending_audio, audio_premux, asent, apc, audio_idx, audio_track_ready>>
      /\ mpc' = mpc \/ (mpc = "blocked" /\ mpc' = "check")
  BY DEF VideoNext, VideoPrepare, VideoFirstFrame, VideoSubmit, VideoEncodeFail, VideoCaptureFail,
         VideoSourceLost, VideoLeaveLoop, VideoRoute, VideoFlushRoute, VideoRouteStep, VideoFlushCut,
         VideoPush, VideoNoRoom, VideoFlushed, VideoEos, VideoFrame, WakeMux
<1>2. video_ready => video_ready'
  <2>1. CASE VideoRoute \/ VideoFlushRoute
    <3>1. video_ready' \in HeaderAfter(Head(in_flight)) BY <2>1 DEF VideoRoute, VideoFlushRoute, VideoRouteStep
    <3> QED BY <1>0, <3>1 DEF HeaderAfter
  <2>2. CASE ~(VideoRoute \/ VideoFlushRoute)
    BY <2>2 DEF VideoNext, VideoPrepare, VideoFirstFrame, VideoSubmit, VideoEncodeFail, VideoCaptureFail,
         VideoSourceLost, VideoLeaveLoop, VideoFlushCut, VideoPush, VideoNoRoom, VideoFlushed, VideoEos
  <2> QED BY <2>1, <2>2
<1>3. BothReady => BothReady' BY <1>1, <1>2 DEF BothReady
<1>4. CASE \/ VideoPrepare \/ VideoFirstFrame \/ VideoEncodeFail \/ VideoCaptureFail \/ VideoSourceLost
           \/ VideoLeaveLoop \/ VideoFlushed \/ VideoEos
  <2>1. /\ UNCHANGED <<video_premux, vsent, vheld, in_flight, frame_idx>>
        /\ UNCHANGED mux_queue \/ mux_queue' = Append(mux_queue, [kind |-> "video_eos"])
    BY <1>4 DEF VideoPrepare, VideoFirstFrame, VideoEncodeFail, VideoCaptureFail, VideoSourceLost,
                VideoLeaveLoop, VideoFlushed, VideoEos
  <2> QED BY <1>1, <1>3, <2>1 DEF VideoOrder
<1>5. CASE VideoSubmit
  <2>1. PICK key \in BOOLEAN : in_flight' = Append(in_flight,
            [kind |-> "video", id |-> frame_idx, pts |-> frame_idx * FrameNs, key |-> key])
    BY <1>5 DEF VideoSubmit
  <2> DEFINE p == [kind |-> "video", id |-> frame_idx, pts |-> frame_idx * FrameNs, key |-> key]
  <2>2. frame_idx * FrameNs \in Nat BY <1>0, BoundsAssumption DEF BoundsAssumption
  <2>3. p \in VideoPacket /\ p.id = frame_idx BY <1>0, <2>2 DEF VideoPacket
  <2>4. in_flight' = Append(in_flight, p) BY <2>1
  <2>5. UNCHANGED <<video_premux, vsent, vheld, mux_queue>> /\ frame_idx' = frame_idx + 1
    BY <1>5 DEF VideoSubmit
  <2> HIDE DEF p
  <2> QED BY <1>1, <1>3, <2>3, <2>4, <2>5 DEF VideoOrder
<1>6. CASE VideoFlushCut \/ VideoNoRoom
  <2>1. UNCHANGED <<video_premux, vsent, mux_queue, frame_idx>> /\ (UNCHANGED vheld \/ vheld' = <<>>)
    BY <1>6 DEF VideoFlushCut, VideoNoRoom
  <2>2. in_flight' = <<>> \/ in_flight' \in Suffixes(in_flight) BY <1>6 DEF VideoFlushCut, VideoNoRoom
  <2>3. Shorter(in_flight, in_flight') BY <1>0, <2>2, ShorterCases
  <2> QED BY <1>1, <1>3, <2>1, <2>3 DEF VideoOrder, Shorter
<1>7. CASE VideoRoute \/ VideoFlushRoute
  <2>1. /\ UNCHANGED <<mux_queue, frame_idx>> /\ in_flight # <<>> /\ vheld = <<>>
        /\ \E ready : LET both == ready /\ \A t \in Tracks : audio_track_ready[t] IN
             /\ video_ready' = ready
             /\ \/ /\ both /\ vheld' = <<Head(in_flight)>> /\ in_flight' = Tail(in_flight)
                   /\ UNCHANGED <<video_premux, vsent>>
                \/ /\ ~both /\ video_premux' = Append(video_premux, Head(in_flight))
                   /\ vsent' = Append(vsent, Head(in_flight).id) /\ in_flight' = Tail(in_flight)
                   /\ UNCHANGED vheld
                \/ /\ in_flight' = Tail(in_flight) \/ in_flight' \in Suffixes(Tail(in_flight))
                   /\ UNCHANGED <<video_premux, vsent, vheld>>
    BY <1>7 DEF VideoRoute, VideoFlushRoute, VideoRouteStep
  <2>2. BothReady' <=> video_ready' /\ \A t \in Tracks : audio_track_ready[t] BY <1>1 DEF BothReady
  <2>3. CASE /\ BothReady' /\ vheld' = <<Head(in_flight)>> /\ in_flight' = Tail(in_flight)
             /\ UNCHANGED <<video_premux, vsent>>
    BY <1>1, <1>3, <2>1, <2>3 DEF VideoOrder
  <2>4. CASE /\ ~BothReady' /\ video_premux' = Append(video_premux, Head(in_flight))
             /\ vsent' = Append(vsent, Head(in_flight).id) /\ in_flight' = Tail(in_flight)
             /\ UNCHANGED vheld
    BY <1>1, <1>3, <2>1, <2>4 DEF VideoOrder
  <2>5. CASE /\ in_flight' = Tail(in_flight) \/ in_flight' \in Suffixes(Tail(in_flight))
             /\ UNCHANGED <<video_premux, vsent, vheld>>
    <3>1. Shorter(in_flight, in_flight') BY <1>0, <2>1, <2>5, ShorterCases
    <3> QED BY <1>1, <1>3, <2>1, <2>5, <3>1 DEF VideoOrder, Shorter
  <2> QED BY <2>1, <2>2, <2>3, <2>4, <2>5
<1>8. CASE VideoPush
  <2>1. /\ UNCHANGED <<video_premux, in_flight, frame_idx>> /\ vheld # <<>> /\ vheld' = <<>>
        /\ vsent' = Append(vsent, vheld[1].id)
        /\ \/ mux_queue' = Append(mux_queue, vheld[1])
           \/ mux_queue' = mux_queue \o <<Boundary(current_segment_index + 1), vheld[1]>>
    BY <1>8 DEF VideoPush, Boundary
  <2> QED BY <1>1, <1>3, <2>1 DEF VideoOrder
<1> QED BY <1>4, <1>5, <1>6, <1>7, <1>8 DEF VideoNext

LEMMA ReadyKeeps ==
  ASSUME ReadyInv, BothReady => BothReady', mpc' = mpc \/ mpc' = "check",
         \A s \in Streams : QueueOf(s)' # {} => QueueOf(s) # {} \/ BothReady',
         vheld' # <<>> => vheld # <<>> \/ BothReady',
         \A t \in Tracks : apc'[t] = "wait" => apc[t] = "wait" \/ BothReady',
         UNCHANGED <<video_premux, audio_premux>> \/ ~BothReady
  PROVE  ReadyInv'
<1>1. (\E s \in Streams : QueueOf(s)' # {}) => BothReady' BY DEF ReadyInv
<1>2. (\E t \in Tracks : apc'[t] = "wait") => BothReady' BY DEF ReadyInv
<1>3. vheld' # <<>> => BothReady' BY DEF ReadyInv
<1>4. mpc' = "open" \/ mpc' \in Writing => BothReady' BY DEF ReadyInv, Writing
<1>5. mpc' \in {"top", "pop", "final"} => video_premux' = <<>> /\ audio_premux' = <<>> BY DEF ReadyInv, Writing
<1> QED BY <1>1, <1>2, <1>3, <1>4, <1>5 DEF ReadyInv

\* One packet or sentinel e at the end of the queue.
LEMMA QueueOfGrow ==
  ASSUME TypeOK, LineInv, SortInv, NEW e \in MuxItem, NEW q,
         q = Append(mux_queue, e) \/ (\E n \in Nat : q = mux_queue \o <<Boundary(n), e>>),
         \A s \in Streams : Is(e, s) => Lt(SentOf(s), {e.id})
  PROVE  \A s \in Streams : /\ Sorted(q, s)
                            /\ Is(e, s) => Ids(q, s) = QueueOf(s) \cup {e.id}
                            /\ ~Is(e, s) => Ids(q, s) = QueueOf(s)
<1> SUFFICES ASSUME NEW s \in Streams
             PROVE  /\ Sorted(q, s)
                    /\ Is(e, s) => Ids(q, s) = QueueOf(s) \cup {e.id}
                    /\ ~Is(e, s) => Ids(q, s) = QueueOf(s)
  OBVIOUS
<1>1. mux_queue \in Seq(MuxItem) /\ Sorted(mux_queue, s) /\ QueueOf(s) = Ids(mux_queue, s)
  BY DEF TypeOK, BufferType, SortInv, QueueOf
<1>2. Is(e, s) => Lt(Ids(mux_queue, s), {e.id})
  <2>1. QueueOf(s) \subseteq SentOf(s) BY DEF LineInv, Line
  <2> QED BY <1>1, <2>1 DEF Lt
<1>3. CASE q = Append(mux_queue, e) BY <1>1, <1>2, <1>3, IdsGrow
<1>4. ASSUME NEW n \in Nat, q = mux_queue \o <<Boundary(n), e>>
      PROVE  /\ Sorted(q, s)
             /\ Is(e, s) => Ids(q, s) = QueueOf(s) \cup {e.id}
             /\ ~Is(e, s) => Ids(q, s) = QueueOf(s)
  <2> DEFINE a == Boundary(n)
  <2> DEFINE u == Append(mux_queue, a)
  <2>1. a \in MuxItem /\ a.kind = "split" BY DEF Boundary, MuxItem, Sentinel
  <2>2. q = Append(u, e) BY <1>1, <1>4, TwoIsAppends
  <2>3. ~Is(a, s) BY <2>1 DEF Is
  <2> HIDE DEF a
  <2>4. u \in Seq(MuxItem) BY <1>1, <2>1, GrowType
  <2>5. Ids(u, s) = Ids(mux_queue, s) /\ Sorted(u, s) BY <1>1, <2>1, <2>3, IdsGrow
  <2> HIDE DEF u
  <2>6. Is(e, s) => Lt(Ids(u, s), {e.id}) BY <1>2, <2>5
  <2> QED BY <1>1, <2>2, <2>4, <2>5, <2>6, IdsGrow
<1> QED BY <1>3, <1>4

LEMMA VideoIs ==
  ASSUME NEW p \in VideoPacket
  PROVE  p \in MuxItem /\ p.id \in Nat /\ \A s \in Streams : Is(p, s) <=> s = "video"
BY DEF VideoPacket, MuxItem, Is

LEMMA AudioIs ==
  ASSUME NEW p \in AudioPacket
  PROVE  /\ p \in MuxItem /\ p.id \in Nat /\ p.track \in Tracks /\ p.track \in Streams /\ p.track # "video"
         /\ \A s \in Streams : Is(p, s) <=> s = p.track
BY TracksAssumption DEF TracksAssumption, AudioPacket, MuxItem, Is, Streams

\* What is left of a handover of packet n of stream s.
LEMMA HandsOver ==
  ASSUME NEW s \in Streams, NEW n \in Nat, Sent(s) \in Seq(Nat), Rising(Sent(s)), Lt(SentOf(s), {n}),
         Sent(s)' = Append(Sent(s), n),
         \A u \in Streams : u # s => UNCHANGED <<Sent(u), PreOf(u), QueueOf(u)>>,
         \/ UNCHANGED PreOf(s) /\ QueueOf(s)' = QueueOf(s) \cup {n}
         \/ QueueOf(s) = {} /\ UNCHANGED QueueOf(s) /\ PreOf(s)' = PreOf(s) \cup {n}
  PROVE  Hands(s, n)
<1>1. /\ Elements(Sent(s)') = Elements(Sent(s)) \cup {n} /\ Rising(Sent(s)') BY ElementsGrow DEF SentOf
<1>2. SentOf(s)' = SentOf(s) \cup {n} BY <1>1 DEF SentOf
<1> QED BY <1>1, <1>2 DEF Hands

LEMMA VideoLine ==
  ASSUME TypeOK, OrderInv, VideoOrder
  PROVE  /\ HandsNothing \/ \E n : Hands("video", n)
         /\ FreshInv' /\ ReadyInv'
         /\ \A s \in Streams : /\ Sorted(video_premux', s) /\ Sorted(audio_premux', s)
                               /\ Sorted(mux_queue', s) /\ Sorted(segment_pending_audio', s)
<1> USE DEF OrderInv
<1>0. /\ mux_queue \in Seq(MuxItem) /\ video_premux \in Seq(MuxItem) /\ in_flight \in Seq(MuxItem)
      /\ vheld \in Seq(VideoPacket) /\ in_flight \in Seq(VideoPacket) /\ video_premux \in Seq(VideoPacket)
      /\ vsent \in Seq(Nat) /\ frame_idx \in Nat /\ current_segment_index \in Nat
      /\ "video" \in Streams
  BY PacketBuffer DEF TypeOK, BufferType, VideoType, Streams
<1>1. /\ UNCHANGED <<written, segment_pending_audio, audio_premux, asent, apc, audio_idx>>
      /\ BothReady => BothReady'
      /\ mpc' = mpc \/ mpc' = "check"
  BY DEF VideoOrder
<1>2. \A s \in Streams : /\ Sorted(video_premux, s) /\ Sorted(audio_premux', s)
                         /\ Sorted(mux_queue, s) /\ Sorted(segment_pending_audio', s) /\ Rising(Sent(s))
  BY <1>1 DEF SortInv
<1>3. \A u \in Streams : u # "video" => UNCHANGED <<Sent(u), PreOf(u)>> BY <1>1 DEF Sent, PreOf
<1>4. Sent("video") = vsent /\ Sent("video")' = vsent' /\ PreOf("video") = Ids(video_premux, "video")
      /\ PreOf("video")' = Ids(video_premux', "video")
  BY DEF Sent, PreOf
<1>5. /\ SentOf("video") \subseteq Nat /\ Ids(vheld, "video") \subseteq Nat /\ Ids(in_flight, "video") \subseteq Nat
      /\ PreOf("video") \subseteq SentOf("video")
  BY <1>0 DEF SentOf, Elements, Ids, LineInv, Line
<1>6. /\ \A t \in Tracks : SentOf(t)' = SentOf(t)
      /\ UNCHANGED vsent => UNCHANGED Sent("video") /\ SentOf("video")' = SentOf("video")
      /\ UNCHANGED video_premux => UNCHANGED PreOf("video")
      /\ UNCHANGED mux_queue => \A s \in Streams : QueueOf(s)' = QueueOf(s)
  BY <1>1, <1>4, StreamSent DEF SentOf, QueueOf, Sent
<1>7. \A t \in Tracks : /\ Lt(SentOf(t)', {audio_idx'[t]}) /\ audio_idx'[t] <= MaxAudio
                        /\ apc'[t] = "wait" => audio_idx'[t] < MaxAudio
  BY <1>1, <1>6 DEF FreshInv
<1>8. Ids(<<>>, "video") = {} BY IdsEmpty
<1>9. CASE /\ UNCHANGED <<video_premux, vsent, vheld, in_flight, frame_idx>>
           /\ UNCHANGED mux_queue \/ mux_queue' = Append(mux_queue, [kind |-> "video_eos"])
  <2>1. \A s \in Streams : QueueOf(s)' = QueueOf(s) /\ Sorted(mux_queue', s)
    <3>1. CASE UNCHANGED mux_queue BY <1>2, <1>6, <3>1
    <3>2. CASE mux_queue' = Append(mux_queue, [kind |-> "video_eos"])
      <4> DEFINE e == [kind |-> "video_eos"]
      <4>1. e \in MuxItem /\ \A s \in Streams : ~Is(e, s) BY DEF MuxItem, Sentinel, Is
      <4>2. mux_queue' = Append(mux_queue, e) BY <3>2
      <4> HIDE DEF e
      <4>3. \A s \in Streams : Sorted(mux_queue', s) /\ Ids(mux_queue', s) = QueueOf(s) BY <4>1, <4>2, QueueOfGrow
      <4> QED BY <4>3 DEF QueueOf
    <3> QED BY <1>9, <3>1, <3>2
  <2>2. HandsNothing BY <1>3, <1>6, <1>9, <2>1 DEF HandsNothing
  <2>3. FreshInv' BY <1>6, <1>7, <1>9 DEF FreshInv
  <2>4. ReadyInv' BY <1>1, <1>9, <2>1, ReadyKeeps
  <2> QED BY <1>2, <1>9, <2>1, <2>2, <2>3, <2>4
<1>10. CASE /\ UNCHANGED <<video_premux, vsent, vheld, mux_queue>> /\ frame_idx' = frame_idx + 1
            /\ \E p \in VideoPacket : p.id = frame_idx /\ in_flight' = Append(in_flight, p)
  <2>1. PICK p \in VideoPacket : p.id = frame_idx /\ in_flight' = Append(in_flight, p) BY <1>10
  <2>2. p \in MuxItem /\ Is(p, "video") BY <1>0, VideoIs
  <2>3. /\ Ids(in_flight', "video") = Ids(in_flight, "video") \cup {frame_idx}
        /\ Sorted(in_flight', "video")
    BY <1>0, <2>1, <2>2, IdsGrow DEF FreshInv
  <2>4. FreshInv'
    <3>1. \A a \in SentOf("video") \cup Ids(vheld, "video") \cup Ids(in_flight, "video") : a < frame_idx /\ a < frame_idx + 1
      BY <1>0, <1>5 DEF FreshInv, Lt
    <3>2. frame_idx < frame_idx + 1 BY <1>0
    <3> QED BY <1>6, <1>7, <1>10, <2>3, <3>1, <3>2 DEF FreshInv, Lt
  <2>5. ReadyInv' BY <1>1, <1>6, <1>10, ReadyKeeps
  <2>6. HandsNothing BY <1>3, <1>6, <1>10 DEF HandsNothing
  <2> QED BY <1>2, <1>10, <2>4, <2>5, <2>6
<1>11. CASE /\ UNCHANGED <<video_premux, vsent, mux_queue, frame_idx>>
            /\ Ids(in_flight', "video") \subseteq Ids(in_flight, "video")
            /\ Sorted(in_flight, "video") => Sorted(in_flight', "video")
            /\ UNCHANGED vheld \/ vheld' = <<>>
  <2>1. Ids(vheld', "video") \subseteq Ids(vheld, "video") BY <1>8, <1>11
  <2>2. FreshInv' BY <1>6, <1>7, <1>11, <2>1 DEF FreshInv, Lt
  <2>3. ReadyInv' BY <1>1, <1>6, <1>11, ReadyKeeps
  <2>4. HandsNothing BY <1>3, <1>6, <1>11 DEF HandsNothing
  <2> QED BY <1>2, <1>11, <2>2, <2>3, <2>4
<1>12. CASE /\ UNCHANGED <<video_premux, vsent, mux_queue, frame_idx>> /\ BothReady'
            /\ in_flight # <<>> /\ vheld' = <<Head(in_flight)>> /\ in_flight' = Tail(in_flight)
  <2> DEFINE h == Head(in_flight)
  <2>1. h \in VideoPacket BY <1>0, <1>12, ShrinkType
  <2>2. h \in MuxItem /\ Is(h, "video") BY <1>0, <2>1, VideoIs
  <2>3. /\ Ids(in_flight, "video") = Ids(in_flight', "video") \cup {h.id}
        /\ Sorted(in_flight', "video") /\ Lt({h.id}, Ids(in_flight', "video"))
    BY <1>0, <1>12, <2>2, IdsPop DEF FreshInv
  <2>4. vheld' = <<h>> BY <1>12
  <2> HIDE DEF h
  <2>5. Ids(vheld', "video") = {h.id}
    <3>1. <<h>> = Append(<<>>, h) OBVIOUS
    <3>2. <<>> \in Seq(MuxItem) BY EmptySeq
    <3>3. Ids(Append(<<>>, h), "video") = Ids(<<>>, "video") \cup {h.id} BY <1>0, <2>2, <3>2, IdsGrow
    <3> QED BY <1>8, <2>4, <3>1, <3>3
  <2>6. FreshInv' BY <1>6, <1>7, <1>12, <2>3, <2>5 DEF FreshInv, Lt
  <2>7. ReadyInv' BY <1>1, <1>6, <1>12, ReadyKeeps
  <2>8. HandsNothing BY <1>3, <1>6, <1>12 DEF HandsNothing
  <2> QED BY <1>2, <1>12, <2>6, <2>7, <2>8
<1>13. CASE /\ UNCHANGED <<mux_queue, frame_idx, vheld>> /\ ~BothReady' /\ in_flight # <<>>
            /\ video_premux' = Append(video_premux, Head(in_flight)) /\ vsent' = Append(vsent, Head(in_flight).id)
            /\ in_flight' = Tail(in_flight)
  <2> DEFINE h == Head(in_flight)
  <2>1. h \in VideoPacket BY <1>0, <1>13, ShrinkType
  <2>2. h \in MuxItem /\ h.id \in Nat /\ \A s \in Streams : Is(h, s) <=> s = "video" BY <2>1, VideoIs
  <2>3. /\ Ids(in_flight, "video") = Ids(in_flight', "video") \cup {h.id}
        /\ Sorted(in_flight', "video") /\ Lt({h.id}, Ids(in_flight', "video"))
    BY <1>0, <1>13, <2>2, IdsPop DEF FreshInv
  <2>4. video_premux' = Append(video_premux, h) /\ vsent' = Append(vsent, h.id) BY <1>13
  <2> HIDE DEF h
  <2>5. ~BothReady /\ vheld = <<>> /\ QueueOf("video") = {} BY <1>0, <1>1, <1>13 DEF ReadyInv
  <2>6. Lt(SentOf("video"), {h.id}) BY <2>3 DEF FreshInv, Lt
  <2>7. \A s \in Streams : Sorted(video_premux', s)
    <3> SUFFICES ASSUME NEW s \in Streams PROVE Sorted(video_premux', s) OBVIOUS
    <3>1. Is(h, s) => Lt(Ids(video_premux, s), {h.id}) BY <1>4, <1>5, <2>2, <2>6 DEF Lt
    <3> QED BY <1>0, <1>2, <2>2, <2>4, <3>1, IdsGrow
  <2>8. Ids(video_premux', "video") = Ids(video_premux, "video") \cup {h.id}
    BY <1>0, <2>2, <2>4, IdsGrow
  <2>9. \A s \in Streams : QueueOf(s)' = QueueOf(s) BY <1>6, <1>13
  <2>10. Hands("video", h.id)
    <3>1. Rising(Sent("video")) BY <1>0, <1>2
    <3>2. PreOf("video")' = PreOf("video") \cup {h.id} BY <1>4, <2>8
    <3>3. \A u \in Streams : u # "video" => UNCHANGED <<Sent(u), PreOf(u), QueueOf(u)>> BY <1>3, <2>9
    <3>4. Sent("video") \in Seq(Nat) /\ Sent("video")' = Append(Sent("video"), h.id) BY <1>0, <1>4, <2>4
    <3>5. UNCHANGED QueueOf("video") BY <1>0, <2>9
    <3> QED BY <1>0, <2>2, <2>5, <2>6, <3>1, <3>2, <3>3, <3>4, <3>5, HandsOver
  <2>11. SentOf("video")' = SentOf("video") \cup {h.id} BY <2>10 DEF Hands
  <2>12. FreshInv'
    <3>1. Lt(SentOf("video")', Ids(in_flight', "video")) BY <2>3, <2>11 DEF FreshInv, Lt
    <3>2. Lt(SentOf("video")', {frame_idx'}) BY <1>13, <2>3, <2>11 DEF FreshInv, Lt
    <3>3. Lt(Ids(in_flight', "video"), {frame_idx'}) BY <1>13, <2>3 DEF FreshInv, Lt
    <3>4. Ids(vheld', "video") = {} BY <1>8, <1>13, <2>5
    <3> QED BY <1>7, <2>3, <3>1, <3>2, <3>3, <3>4 DEF FreshInv, Lt
  <2>13. ReadyInv' BY <1>1, <1>13, <2>5, <2>9, ReadyKeeps
  <2> QED BY <1>2, <1>13, <2>7, <2>10, <2>12, <2>13
<1>14. CASE /\ UNCHANGED <<video_premux, in_flight, frame_idx>> /\ vheld # <<>> /\ vheld' = <<>>
            /\ vsent' = Append(vsent, vheld[1].id)
            /\ \/ mux_queue' = Append(mux_queue, vheld[1])
               \/ mux_queue' = mux_queue \o <<Boundary(current_segment_index + 1), vheld[1]>>
  <2> DEFINE h == vheld[1]
  <2>1. h \in VideoPacket BY <1>0, <1>14, ShrinkType
  <2>2. h \in MuxItem /\ h.id \in Nat /\ \A s \in Streams : Is(h, s) <=> s = "video" BY <2>1, VideoIs
  <2>3. h.id \in Ids(vheld, "video")
    <3>1. 1 \in 1 .. Len(vheld) BY <1>0, <1>14, EmptySeq
    <3> QED BY <1>0, <2>2, <3>1 DEF Ids
  <2>4. /\ vsent' = Append(vsent, h.id)
        /\ mux_queue' = Append(mux_queue, h) \/ \E n \in Nat : mux_queue' = mux_queue \o <<Boundary(n), h>>
    <3>1. current_segment_index + 1 \in Nat BY <1>0
    <3> QED BY <1>14, <3>1
  <2> HIDE DEF h
  <2>5. BothReady' BY <1>1, <1>14 DEF ReadyInv
  <2>6. Lt(SentOf("video"), {h.id}) BY <2>3 DEF FreshInv, Lt
  <2>7. \A s \in Streams : /\ Sorted(mux_queue', s)
                           /\ s = "video" => QueueOf(s)' = QueueOf(s) \cup {h.id}
                           /\ s # "video" => QueueOf(s)' = QueueOf(s)
    <3>1. \A s \in Streams : Is(h, s) => Lt(SentOf(s), {h.id}) BY <2>2, <2>6
    <3>2. \A s \in Streams : /\ Sorted(mux_queue', s)
                             /\ Is(h, s) => Ids(mux_queue', s) = QueueOf(s) \cup {h.id}
                             /\ ~Is(h, s) => Ids(mux_queue', s) = QueueOf(s)
      BY <2>2, <2>4, <3>1, QueueOfGrow
    <3> QED BY <2>2, <3>2 DEF QueueOf
  <2>8. Hands("video", h.id)
    <3>1. Rising(Sent("video")) BY <1>0, <1>2
    <3>2. UNCHANGED PreOf("video") BY <1>6, <1>14
    <3>3. \A u \in Streams : u # "video" => UNCHANGED <<Sent(u), PreOf(u), QueueOf(u)>> BY <1>3, <2>7
    <3>4. Sent("video") \in Seq(Nat) /\ Sent("video")' = Append(Sent("video"), h.id) BY <1>0, <1>4, <2>4
    <3>5. QueueOf("video")' = QueueOf("video") \cup {h.id} BY <1>0, <2>7
    <3> QED BY <1>0, <2>2, <2>6, <3>1, <3>2, <3>3, <3>4, <3>5, HandsOver
  <2>9. SentOf("video")' = SentOf("video") \cup {h.id} BY <2>8 DEF Hands
  <2>10. FreshInv'
    <3>1. Lt(SentOf("video")', Ids(in_flight', "video")) BY <1>14, <2>3, <2>9 DEF FreshInv, Lt
    <3>2. Lt(SentOf("video")', {frame_idx'}) BY <1>14, <2>3, <2>9 DEF FreshInv, Lt
    <3>3. Ids(vheld', "video") = {} BY <1>8, <1>14
    <3> QED BY <1>7, <1>14, <3>1, <3>2, <3>3 DEF FreshInv, Lt
  <2>11. ReadyInv' BY <1>1, <1>14, <2>5, ReadyKeeps
  <2> QED BY <1>2, <1>14, <2>7, <2>8, <2>10, <2>11
<1> QED BY <1>9, <1>10, <1>11, <1>12, <1>13, <1>14 DEF VideoOrder

\* A step of AudioThread t, as what it does to the packets on their way.
AudioOrder(t) ==
  /\ UNCHANGED <<written, segment_pending_audio, video_premux, vsent, vheld, in_flight, frame_idx>>
  /\ BothReady => BothReady'
  /\ mpc' = mpc \/ mpc' = "check"
  /\ \A u \in Tracks : u # t => apc'[u] = apc[u] /\ audio_idx'[u] = audio_idx[u] /\ asent'[u] = asent[u]
  /\ \/ /\ UNCHANGED <<audio_premux, asent, audio_idx>> /\ apc'[t] # "wait"
        /\ UNCHANGED mux_queue \/ mux_queue' = Append(mux_queue, [kind |-> "audio_eos", track |-> t])
     \/ /\ UNCHANGED <<audio_premux, asent, audio_idx, mux_queue>>
        /\ BothReady /\ audio_idx[t] < MaxAudio
     \/ /\ UNCHANGED <<audio_premux, asent, mux_queue>> /\ audio_idx'[t] = audio_idx[t] + 1
        /\ apc'[t] # "wait" /\ (audio_idx[t] < MaxAudio \/ apc[t] = "wait")
     \/ /\ audio_premux' = Append(audio_premux, NextAudioPacket(t)) /\ UNCHANGED mux_queue
        /\ asent'[t] = Append(asent[t], audio_idx[t]) /\ audio_idx'[t] = audio_idx[t] + 1
        /\ ~BothReady /\ audio_idx[t] < MaxAudio /\ apc'[t] # "wait"
     \/ /\ mux_queue' = Append(mux_queue, NextAudioPacket(t)) /\ UNCHANGED audio_premux
        /\ asent'[t] = Append(asent[t], audio_idx[t]) /\ audio_idx'[t] = audio_idx[t] + 1
        /\ apc[t] = "wait" /\ apc'[t] # "wait"

LEMMA AudioOrders == ASSUME TypeOK, NEW t \in Tracks, AudioNext(t) PROVE AudioOrder(t)
<1>1. /\ apc \in [Tracks -> {"prepare", "run", "wait", "flush", "done"}] /\ audio_idx \in [Tracks -> Nat]
      /\ asent \in [Tracks -> Seq(Nat)] /\ audio_track_ready \in [Tracks -> BOOLEAN]
  BY DEF TypeOK, AudioType, SessionType
<1>2. AudioEffect(t) BY AudioEffects
<1>3. /\ UNCHANGED <<written, segment_pending_audio, video_premux, vsent, vheld, in_flight, frame_idx>>
      /\ mpc' = mpc \/ mpc' = "check"
      /\ \A u \in Tracks : u # t => apc'[u] = apc[u] /\ audio_idx'[u] = audio_idx[u] /\ asent'[u] = asent[u]
  BY <1>1, <1>2 DEF AudioEffect, AudioFrame
<1>4. BothReady => BothReady'
  <2>1. UNCHANGED video_ready /\ \A u \in Tracks : audio_track_ready[u] => audio_track_ready'[u]
    BY <1>1, <1>2 DEF AudioEffect, AudioFrame
  <2> QED BY <2>1 DEF BothReady
<1>5. CASE AudioPrepare(t) \/ AudioCaptureFail(t) \/ AudioLeaveLoop(t) \/ AudioEos(t)
  <2>1. /\ UNCHANGED <<audio_premux, asent, audio_idx>> /\ apc'[t] # "wait"
        /\ UNCHANGED mux_queue \/ mux_queue' = Append(mux_queue, [kind |-> "audio_eos", track |-> t])
    BY <1>1, <1>5 DEF AudioPrepare, AudioCaptureFail, AudioLeaveLoop, AudioEos
  <2> QED BY <1>3, <1>4, <2>1 DEF AudioOrder
<1>6. CASE AudioCapture(t) \/ AudioFlushRoute(t)
  <2>1. AudioRouteStep(t) /\ apc[t] # "wait" BY <1>6 DEF AudioCapture, AudioFlushRoute
  <2>2. audio_idx[t] < MaxAudio /\ UNCHANGED mux_queue BY <2>1 DEF AudioRouteStep
  <2>3. CASE BothReady /\ UNCHANGED <<audio_premux, audio_idx, asent>>
    BY <1>3, <1>4, <2>2, <2>3 DEF AudioOrder
  <2>4. CASE /\ ~BothReady /\ audio_premux' = Append(audio_premux, NextAudioPacket(t))
             /\ asent' = [asent EXCEPT ![t] = Append(@, audio_idx[t])]
             /\ audio_idx' = [audio_idx EXCEPT ![t] = @ + 1] /\ UNCHANGED apc
    <3>1. /\ asent'[t] = Append(asent[t], audio_idx[t]) /\ audio_idx'[t] = audio_idx[t] + 1
          /\ apc'[t] # "wait"
      BY <1>1, <2>1, <2>4
    <3> QED BY <1>3, <1>4, <2>2, <2>4, <3>1 DEF AudioOrder
  <2>5. CASE /\ audio_idx' = [audio_idx EXCEPT ![t] = @ + 1] /\ apc' = [apc EXCEPT ![t] = "flush"]
             /\ UNCHANGED <<audio_premux, asent>>
    <3>1. audio_idx'[t] = audio_idx[t] + 1 /\ apc'[t] # "wait" BY <1>1, <2>5
    <3> QED BY <1>3, <1>4, <2>2, <2>5, <3>1 DEF AudioOrder
  <2> QED BY <2>1, <2>3, <2>4, <2>5 DEF AudioRouteStep
<1>7. CASE AudioPush(t)
  <2>1. /\ mux_queue' = Append(mux_queue, NextAudioPacket(t)) /\ UNCHANGED audio_premux
        /\ asent'[t] = Append(asent[t], audio_idx[t]) /\ audio_idx'[t] = audio_idx[t] + 1
        /\ apc[t] = "wait" /\ apc'[t] # "wait"
    BY <1>1, <1>7 DEF AudioPush
  <2> QED BY <1>3, <1>4, <2>1 DEF AudioOrder
<1>8. CASE AudioNoRoom(t)
  <2>1. /\ UNCHANGED <<audio_premux, asent, mux_queue>> /\ audio_idx'[t] = audio_idx[t] + 1
        /\ apc'[t] # "wait" /\ apc[t] = "wait"
    BY <1>1, <1>8 DEF AudioNoRoom
  <2> QED BY <1>3, <1>4, <2>1 DEF AudioOrder
<1> QED BY <1>5, <1>6, <1>7, <1>8 DEF AudioNext

LEMMA AudioLine ==
  ASSUME TypeOK, OrderInv, NEW t \in Tracks, AudioOrder(t)
  PROVE  /\ HandsNothing \/ \E n : Hands(t, n)
         /\ FreshInv' /\ ReadyInv'
         /\ \A s \in Streams : /\ Sorted(video_premux', s) /\ Sorted(audio_premux', s)
                               /\ Sorted(mux_queue', s) /\ Sorted(segment_pending_audio', s)
<1> USE DEF OrderInv
<1>0. /\ mux_queue \in Seq(MuxItem) /\ audio_premux \in Seq(MuxItem)
      /\ asent \in [Tracks -> Seq(Nat)] /\ audio_idx \in [Tracks -> Nat] /\ MaxAudio \in Nat
      /\ t \in Streams /\ t # "video"
  BY PacketBuffer, StreamSent, BoundsAssumption DEF BoundsAssumption, TypeOK, BufferType, AudioType
<1>1. /\ UNCHANGED <<written, segment_pending_audio, video_premux, vsent, vheld, in_flight, frame_idx>>
      /\ BothReady => BothReady'
      /\ mpc' = mpc \/ mpc' = "check"
      /\ \A u \in Tracks : u # t => apc'[u] = apc[u] /\ audio_idx'[u] = audio_idx[u] /\ asent'[u] = asent[u]
  BY DEF AudioOrder
<1>2. \A s \in Streams : /\ Sorted(video_premux', s) /\ Sorted(audio_premux, s)
                         /\ Sorted(mux_queue, s) /\ Sorted(segment_pending_audio', s) /\ Rising(Sent(s))
  BY <1>1 DEF SortInv
<1>3. \A u \in Streams : u # t => UNCHANGED Sent(u) BY <1>1 DEF Sent, Streams
<1>4. /\ Sent(t) = asent[t] /\ Sent(t)' = asent'[t] /\ PreOf(t) = Ids(audio_premux, t)
      /\ PreOf(t)' = Ids(audio_premux', t)
  BY <1>0 DEF Sent, PreOf
<1>5. /\ SentOf(t) \subseteq Nat /\ PreOf(t) \subseteq SentOf(t) /\ audio_idx[t] \in Nat
  BY <1>0 DEF SentOf, Elements, LineInv, Line
<1>6. /\ SentOf("video")' = SentOf("video")
      /\ \A u \in Tracks : u # t => SentOf(u)' = SentOf(u)
      /\ UNCHANGED asent => \A u \in Streams : UNCHANGED Sent(u)
      /\ UNCHANGED asent => UNCHANGED SentOf(t)
      /\ UNCHANGED audio_premux => \A u \in Streams : UNCHANGED PreOf(u)
      /\ UNCHANGED mux_queue => \A s \in Streams : QueueOf(s)' = QueueOf(s)
  BY <1>0, <1>1, <1>3, <1>4, StreamSent DEF SentOf, QueueOf, Sent, PreOf
<1>7. ASSUME Lt(SentOf(t)', {audio_idx'[t]}), audio_idx'[t] <= MaxAudio,
             apc'[t] = "wait" => audio_idx'[t] < MaxAudio
      PROVE  FreshInv'
  <2>1. \A u \in Tracks : /\ Lt(SentOf(u)', {audio_idx'[u]}) /\ audio_idx'[u] <= MaxAudio
                          /\ apc'[u] = "wait" => audio_idx'[u] < MaxAudio
    BY <1>1, <1>6, <1>7 DEF FreshInv
  <2> QED BY <1>1, <1>6, <2>1 DEF FreshInv
<1>8. Lt(SentOf(t), {audio_idx[t]}) /\ audio_idx[t] <= MaxAudio /\ (apc[t] = "wait" => audio_idx[t] < MaxAudio)
  BY DEF FreshInv
<1>9. audio_idx[t] < MaxAudio => audio_idx[t] + 1 <= MaxAudio BY <1>0, <1>5
<1>10. /\ Lt(SentOf(t), {audio_idx[t] + 1}) /\ Lt(SentOf(t) \cup {audio_idx[t]}, {audio_idx[t] + 1})
  <2>1. \A a \in SentOf(t) \cup {audio_idx[t]} : a < audio_idx[t] + 1 BY <1>5, <1>8 DEF Lt
  <2> QED BY <2>1 DEF Lt
<1>11. ASSUME apc'[t] = "wait" => apc[t] = "wait" \/ BothReady'
       PROVE  \A u \in Tracks : apc'[u] = "wait" => apc[u] = "wait" \/ BothReady'
  BY <1>1, <1>11
<1>12. CASE /\ UNCHANGED <<audio_premux, asent, audio_idx>> /\ apc'[t] # "wait"
            /\ UNCHANGED mux_queue \/ mux_queue' = Append(mux_queue, [kind |-> "audio_eos", track |-> t])
  <2>1. \A s \in Streams : QueueOf(s)' = QueueOf(s) /\ Sorted(mux_queue', s)
    <3>1. CASE UNCHANGED mux_queue BY <1>2, <1>6, <3>1
    <3>2. CASE mux_queue' = Append(mux_queue, [kind |-> "audio_eos", track |-> t])
      <4> DEFINE e == [kind |-> "audio_eos", track |-> t]
      <4>1. e \in MuxItem /\ \A s \in Streams : ~Is(e, s) BY DEF MuxItem, Sentinel, Is
      <4>2. mux_queue' = Append(mux_queue, e) BY <3>2
      <4> HIDE DEF e
      <4>3. \A s \in Streams : Sorted(mux_queue', s) /\ Ids(mux_queue', s) = QueueOf(s) BY <4>1, <4>2, QueueOfGrow
      <4> QED BY <4>3 DEF QueueOf
    <3> QED BY <1>12, <3>1, <3>2
  <2>2. HandsNothing BY <1>6, <1>12, <2>1 DEF HandsNothing
  <2>3. FreshInv' BY <1>6, <1>7, <1>8, <1>12
  <2>4. ReadyInv' BY <1>1, <1>11, <1>12, <2>1, ReadyKeeps
  <2> QED BY <1>2, <1>12, <2>1, <2>2, <2>3, <2>4
<1>13. CASE /\ UNCHANGED <<audio_premux, asent, audio_idx, mux_queue>>
            /\ BothReady /\ audio_idx[t] < MaxAudio
  <2>1. HandsNothing BY <1>6, <1>13 DEF HandsNothing
  <2>2. FreshInv' BY <1>6, <1>7, <1>8, <1>13
  <2>3. ReadyInv' BY <1>1, <1>6, <1>11, <1>13, ReadyKeeps
  <2> QED BY <1>2, <1>13, <2>1, <2>2, <2>3
<1>14. CASE /\ UNCHANGED <<audio_premux, asent, mux_queue>> /\ audio_idx'[t] = audio_idx[t] + 1
            /\ apc'[t] # "wait" /\ (audio_idx[t] < MaxAudio \/ apc[t] = "wait")
  <2>1. HandsNothing BY <1>6, <1>14 DEF HandsNothing
  <2>2. FreshInv' BY <1>6, <1>7, <1>8, <1>9, <1>10, <1>14
  <2>3. ReadyInv' BY <1>1, <1>6, <1>11, <1>14, ReadyKeeps
  <2> QED BY <1>2, <1>14, <2>1, <2>2, <2>3
<1> DEFINE p == NextAudioPacket(t)
<1>15. /\ p \in MuxItem /\ p.id = audio_idx[t] /\ \A s \in Streams : Is(p, s) <=> s = t
  <2>1. p \in AudioPacket /\ p.track = t /\ p.id = audio_idx[t] BY NextAudioPacketType DEF NextAudioPacket
  <2> HIDE DEF p
  <2> QED BY <2>1, AudioIs
<1> HIDE DEF p
<1>16. CASE /\ audio_premux' = Append(audio_premux, NextAudioPacket(t)) /\ UNCHANGED mux_queue
            /\ asent'[t] = Append(asent[t], audio_idx[t]) /\ audio_idx'[t] = audio_idx[t] + 1
            /\ ~BothReady /\ audio_idx[t] < MaxAudio /\ apc'[t] # "wait"
  <2>1. audio_premux' = Append(audio_premux, p) BY <1>16 DEF p
  <2>2. \A s \in Streams : QueueOf(s) = {} /\ QueueOf(s)' = QueueOf(s) BY <1>6, <1>16 DEF ReadyInv
  <2>3. \A s \in Streams : Sorted(audio_premux', s)
    <3> SUFFICES ASSUME NEW s \in Streams PROVE Sorted(audio_premux', s) OBVIOUS
    <3>1. Is(p, s) => Lt(Ids(audio_premux, s), {p.id}) BY <1>4, <1>5, <1>8, <1>15 DEF Lt
    <3> QED BY <1>0, <1>2, <1>15, <2>1, <3>1, IdsGrow
  <2>4. Ids(audio_premux', t) = Ids(audio_premux, t) \cup {audio_idx[t]}
    <3>1. Is(p, t) BY <1>0, <1>15
    <3>2. Ids(Append(audio_premux, p), t) = Ids(audio_premux, t) \cup {p.id} BY <1>0, <1>15, <3>1, IdsGrow
    <3> QED BY <1>15, <2>1, <3>2
  <2>5. \A u \in Streams : u # t => UNCHANGED PreOf(u)
    <3> SUFFICES ASSUME NEW u \in Streams, u # t PROVE UNCHANGED PreOf(u) OBVIOUS
    <3>1. Ids(audio_premux', u) = Ids(audio_premux, u) BY <1>0, <1>15, <2>1, IdsGrow
    <3> QED BY <1>1, <3>1 DEF PreOf
  <2>6. Hands(t, audio_idx[t])
    <3>1. Rising(Sent(t)) BY <1>0, <1>2
    <3>2. PreOf(t)' = PreOf(t) \cup {audio_idx[t]} BY <1>4, <2>4
    <3>3. \A u \in Streams : u # t => UNCHANGED <<Sent(u), PreOf(u), QueueOf(u)>> BY <1>3, <2>2, <2>5
    <3>4. Sent(t) \in Seq(Nat) /\ Sent(t)' = Append(Sent(t), audio_idx[t]) BY <1>0, <1>4, <1>16
    <3>5. QueueOf(t) = {} /\ UNCHANGED QueueOf(t) BY <1>0, <2>2
    <3> QED BY <1>0, <1>5, <1>8, <3>1, <3>2, <3>3, <3>4, <3>5, HandsOver
  <2>7. SentOf(t)' = SentOf(t) \cup {audio_idx[t]} BY <2>6 DEF Hands
  <2>8. FreshInv' BY <1>7, <1>9, <1>10, <1>16, <2>7
  <2>9. ReadyInv' BY <1>1, <1>11, <1>16, <2>2, ReadyKeeps
  <2> QED BY <1>2, <1>16, <2>3, <2>6, <2>8, <2>9
<1>17. CASE /\ mux_queue' = Append(mux_queue, NextAudioPacket(t)) /\ UNCHANGED audio_premux
            /\ asent'[t] = Append(asent[t], audio_idx[t]) /\ audio_idx'[t] = audio_idx[t] + 1
            /\ apc[t] = "wait" /\ apc'[t] # "wait"
  <2>1. mux_queue' = Append(mux_queue, p) BY <1>17 DEF p
  <2>2. BothReady' BY <1>1, <1>17 DEF ReadyInv
  <2>3. /\ QueueOf(t)' = QueueOf(t) \cup {audio_idx[t]}
        /\ \A s \in Streams : Sorted(mux_queue', s) /\ (s # t => QueueOf(s)' = QueueOf(s))
    <3>1. \A s \in Streams : Is(p, s) => Lt(SentOf(s), {p.id}) BY <1>8, <1>15
    <3>2. \A s \in Streams : /\ Sorted(mux_queue', s)
                             /\ Is(p, s) => Ids(mux_queue', s) = QueueOf(s) \cup {p.id}
                             /\ ~Is(p, s) => Ids(mux_queue', s) = QueueOf(s)
      BY <1>15, <2>1, <3>1, QueueOfGrow
    <3>3. Ids(mux_queue', t) = QueueOf(t) \cup {audio_idx[t]} BY <1>0, <1>15, <3>2
    <3>4. \A s \in Streams : s # t => Ids(mux_queue', s) = QueueOf(s) BY <1>15, <3>2
    <3> QED BY <3>2, <3>3, <3>4 DEF QueueOf
  <2>4. Hands(t, audio_idx[t])
    <3>1. Rising(Sent(t)) BY <1>0, <1>2
    <3>2. \A u \in Streams : UNCHANGED PreOf(u) BY <1>6, <1>17
    <3>3. \A u \in Streams : u # t => UNCHANGED <<Sent(u), PreOf(u), QueueOf(u)>> BY <1>3, <2>3, <3>2
    <3>4. Sent(t) \in Seq(Nat) /\ Sent(t)' = Append(Sent(t), audio_idx[t]) BY <1>0, <1>4, <1>17
    <3>5. UNCHANGED PreOf(t) BY <1>0, <3>2
    <3> QED BY <1>0, <1>5, <1>8, <2>3, <3>1, <3>3, <3>4, <3>5, HandsOver
  <2>5. SentOf(t)' = SentOf(t) \cup {audio_idx[t]} BY <2>4 DEF Hands
  <2>6. FreshInv' BY <1>7, <1>8, <1>9, <1>10, <1>17, <2>5
  <2>7. ReadyInv' BY <1>1, <1>11, <1>17, <2>2, ReadyKeeps
  <2> QED BY <1>2, <1>17, <2>3, <2>4, <2>6, <2>7
<1> QED BY <1>12, <1>13, <1>14, <1>16, <1>17 DEF AudioOrder

-----------------------------------------------------------------------------
(* MuxThread keeps the line *)

\* Packet id of stream s goes into the open file.
Stores(s, id) ==
  /\ \E x \in WrittenPacket : x.track = s /\ x.id = id /\ x.seg = seg.index /\ written' = Append(written, x)
  /\ UNCHANGED write_error

WriteFails == write_error' = TRUE /\ UNCHANGED written

\* One video packet is taken and written, or nothing is left to write to.
MuxVideo(p) ==
  /\ \/ /\ video_premux # <<>> /\ p = Head(video_premux) /\ video_premux' = Tail(video_premux)
        /\ UNCHANGED mux_queue
     \/ /\ mpc \in {"pop", "final"} /\ mux_queue # <<>> /\ p = Head(mux_queue) /\ mux_queue' = Tail(mux_queue)
        /\ UNCHANGED video_premux
  /\ UNCHANGED <<audio_premux, segment_pending_audio, trimmed, audio_shift, audio_shift_resolved, reports, mpc>>
  /\ mpc \in {"premux", "pop", "final"}
  /\ \/ (write_error \/ seg.writer = "none") /\ UNCHANGED <<seg, write_error, written>>
     \/ /\ ~write_error /\ seg.writer = "open" /\ seg'.writer = "open" /\ seg'.index = seg.index
        /\ Stores("video", p.id) \/ WriteFails

\* push_audio: the packet is dropped, trimmed, held or written.
AudioPlaced(p, held) ==
  \/ /\ write_error \/ seg.writer = "none"
     /\ UNCHANGED <<written, write_error, trimmed, audio_shift, audio_shift_resolved>>
     /\ segment_pending_audio' = held
  \/ /\ ~write_error /\ seg.writer = "open"
     /\ audio_shift' = [audio_shift EXCEPT ![p.track] = AudioShiftFor(p.track)]
     /\ audio_shift_resolved' = [audio_shift_resolved EXCEPT ![p.track] = TRUE]
     /\ \/ /\ AudioShiftFor(p.track) < 0 /\ segment_pending_audio' = held
           /\ UNCHANGED <<written, write_error, trimmed>>
        \/ trimmed' = trimmed + 1 /\ segment_pending_audio' = held /\ UNCHANGED <<written, write_error>>
        \/ /\ ~seg.epoch_set /\ UNCHANGED <<written, write_error, trimmed>>
           /\ \E q \in AudioPacket : q.track = p.track /\ q.id = p.id /\ segment_pending_audio' = Append(held, q)
        \/ /\ seg.epoch_set /\ segment_pending_audio' = held /\ UNCHANGED trimmed
           /\ Stores(p.track, p.id) \/ WriteFails

\* One audio packet is taken from the pre-mux buffer, the queue or the hold.
MuxAudio(p) ==
  /\ UNCHANGED <<seg, reports, mpc, video_premux>> /\ mpc \in {"premux", "pop", "final"}
  /\ \/ /\ audio_premux # <<>> /\ p = Head(audio_premux) /\ audio_premux' = Tail(audio_premux) /\ ~MuxBusy
        /\ UNCHANGED mux_queue /\ AudioPlaced(p, segment_pending_audio)
     \/ /\ mpc \in {"pop", "final"} /\ mux_queue # <<>> /\ p = Head(mux_queue) /\ mux_queue' = Tail(mux_queue)
        /\ UNCHANGED audio_premux /\ ~MuxBusy /\ AudioPlaced(p, segment_pending_audio)
     \/ /\ MuxBusy /\ segment_pending_audio # <<>> /\ p = Head(segment_pending_audio)
        /\ UNCHANGED <<audio_premux, mux_queue>> /\ AudioPlaced(p, Tail(segment_pending_audio))

\* No packet moves.
MuxStill ==
  /\ UNCHANGED <<written, segment_pending_audio, video_premux, audio_premux, trimmed, audio_shift, audio_shift_resolved>>
  /\ UNCHANGED mux_queue \/ (Popped /\ Head(mux_queue).kind \notin {"video", "audio"})

LEMMA PushesVideo ==
  ASSUME TypeOK, NEW p \in VideoPacket, PushVideo(p)
  PROVE  \/ (write_error \/ seg.writer = "none") /\ UNCHANGED <<seg, write_error, written>>
         \/ /\ ~write_error /\ seg.writer = "open" /\ seg'.writer = "open" /\ seg'.index = seg.index
            /\ Stores("video", p.id) \/ WriteFails
<1>1. /\ p.id \in Nat /\ p.key \in BOOLEAN /\ seg \in SegmentState /\ seg.writer \in {"none", "open"} /\ seg.index \in Nat
  BY DEF VideoPacket, TypeOK, MuxType, SegmentState
<1>2. CASE UNCHANGED <<session, seg, write_error, written>> /\ (write_error \/ seg.writer = "none")
  BY <1>2
<1>3. CASE /\ ~write_error /\ seg.writer # "none"
           /\ seg' = [seg EXCEPT !.epoch_set = TRUE, !.epoch = IF seg.epoch_set THEN seg.epoch ELSE p.pts]
           /\ \/ write_error' = TRUE /\ UNCHANGED written
              \/ UNCHANGED session /\ \E local \in Nat : /\ Wrote("video", p.id, local, p.key)
                                                         /\ ~seg.epoch_set => local = 0
  <2>1. seg.writer = "open" /\ seg'.writer = "open" /\ seg'.index = seg.index BY <1>1, <1>3 DEF SegmentState
  <2>2. Stores("video", p.id) \/ WriteFails
    <3>1. CASE write_error' = TRUE /\ UNCHANGED written BY <3>1 DEF WriteFails
    <3>2. ASSUME NEW local \in Nat, Wrote("video", p.id, local, p.key) PROVE Stores("video", p.id) \/ WriteFails
      <4> DEFINE x == [seg |-> seg.index, track |-> "video", id |-> p.id, pts |-> local, key |-> p.key]
      <4>1. x \in WrittenPacket /\ x.track = "video" /\ x.id = p.id /\ x.seg = seg.index BY <1>1 DEF WrittenPacket
      <4>2. (written' = Append(written, x) /\ UNCHANGED write_error) \/ WriteFails BY <3>2 DEF Wrote, WriteFails
      <4> HIDE DEF x
      <4> QED BY <4>1, <4>2 DEF Stores
    <3> QED BY <1>3, <3>1, <3>2
  <2> QED BY <1>3, <2>1, <2>2
<1> QED BY <1>2, <1>3, PushVideoEffect

LEMMA PlacesAudio ==
  ASSUME TypeOK, NEW p \in AudioPacket, NEW held \in Seq(AudioPacket), PushAudio(p, held)
  PROVE  AudioPlaced(p, held) /\ UNCHANGED seg
<1> DEFINE shift == AudioShiftFor(p.track)
<1> DEFINE pts == p.pts + shift
<1> DEFINE place == IF PredatesVideo(p.pts, shift) THEN "Predates"
                    ELSE PlaceOnSegmentTimeline(pts, seg.epoch_set, seg.epoch)
<1> DEFINE live == ~write_error /\ seg.writer # "none"
<1>1. /\ p.track \in Tracks /\ p.id \in Nat /\ p.pts \in Nat
      /\ seg.index \in Nat /\ seg.epoch \in Nat /\ seg.epoch_set \in BOOLEAN /\ seg.writer \in {"none", "open"}
  BY DEF AudioPacket, TypeOK, MuxType, SegmentState
<1>2. shift \in Int BY <1>1, MeasuredType
<1>3. /\ UNCHANGED seg
      /\ IF live
         THEN /\ audio_shift' = [audio_shift EXCEPT ![p.track] = shift]
              /\ audio_shift_resolved' = [audio_shift_resolved EXCEPT ![p.track] = TRUE]
         ELSE UNCHANGED <<audio_shift, audio_shift_resolved>>
      /\ segment_pending_audio' = IF live /\ place = "Defer" THEN Append(held, [p EXCEPT !.pts = pts]) ELSE held
      /\ trimmed' = IF live /\ place = "Trim" THEN trimmed + 1 ELSE trimmed
      /\ IF live /\ place = "Write" THEN WriterPush(p.track, p.id, pts - seg.epoch, TRUE)
                                    ELSE UNCHANGED <<written, write_error>>
  BY DEF PushAudio, shifts
<1>4. place \in {"Predates", "Defer", "Trim", "Write"} BY DEF PlaceOnSegmentTimeline
<1>5. place = "Predates" => shift < 0 BY <1>1, <1>2 DEF PredatesVideo, PlaceOnSegmentTimeline
<1>6. (place = "Defer" => ~seg.epoch_set) /\ (place \in {"Trim", "Write"} => seg.epoch_set)
  BY <1>1 DEF PlaceOnSegmentTimeline
<1>7. place = "Write" => pts - seg.epoch \in Nat
  BY <1>1, <1>2 DEF PredatesVideo, PlaceOnSegmentTimeline
<1>8. place = "Defer" => \E q \in AudioPacket : q.track = p.track /\ q.id = p.id /\ q = [p EXCEPT !.pts = pts]
  <2> SUFFICES ASSUME pts \in Nat
               PROVE  \E q \in AudioPacket : q.track = p.track /\ q.id = p.id /\ q = [p EXCEPT !.pts = pts]
    BY <1>1, <1>2 DEF PredatesVideo, PlaceOnSegmentTimeline
  <2> HIDE DEF pts
  <2>1. [p EXCEPT !.pts = pts] \in AudioPacket BY DEF AudioPacket
  <2>2. [p EXCEPT !.pts = pts].track = p.track /\ [p EXCEPT !.pts = pts].id = p.id BY DEF AudioPacket
  <2> QED BY <2>1, <2>2
<1>9. shift = AudioShiftFor(p.track) OBVIOUS
<1> HIDE DEF shift, pts, place
<1>10. CASE ~live BY <1>1, <1>3, <1>10 DEF AudioPlaced
<1>11. CASE live
  <2>1. /\ ~write_error /\ seg.writer = "open"
        /\ audio_shift' = [audio_shift EXCEPT ![p.track] = AudioShiftFor(p.track)]
        /\ audio_shift_resolved' = [audio_shift_resolved EXCEPT ![p.track] = TRUE]
    BY <1>1, <1>3, <1>9, <1>11
  <2>2. CASE place = "Predates"
    <3>1. /\ AudioShiftFor(p.track) < 0 /\ segment_pending_audio' = held /\ UNCHANGED <<written, write_error, trimmed>>
      BY <1>3, <1>5, <1>9, <2>2
    <3> QED BY <1>3, <2>1, <3>1 DEF AudioPlaced
  <2>3. CASE place = "Trim"
    <3>1. trimmed' = trimmed + 1 /\ segment_pending_audio' = held /\ UNCHANGED <<written, write_error>>
      BY <1>3, <1>11, <2>3
    <3> QED BY <1>3, <2>1, <3>1 DEF AudioPlaced
  <2>4. CASE place = "Defer"
    <3>1. /\ ~seg.epoch_set /\ UNCHANGED <<written, write_error, trimmed>>
          /\ \E q \in AudioPacket : q.track = p.track /\ q.id = p.id /\ segment_pending_audio' = Append(held, q)
      BY <1>3, <1>6, <1>8, <1>11, <2>4
    <3> QED BY <1>3, <2>1, <3>1 DEF AudioPlaced
  <2>5. CASE place = "Write"
    <3>1. seg.epoch_set /\ segment_pending_audio' = held /\ UNCHANGED trimmed BY <1>3, <1>6, <2>5
    <3>2. WriterPush(p.track, p.id, pts - seg.epoch, TRUE) /\ pts - seg.epoch \in Nat BY <1>3, <1>7, <1>11, <2>5
    <3> DEFINE x == [seg |-> seg.index, track |-> p.track, id |-> p.id, pts |-> pts - seg.epoch, key |-> TRUE]
    <3>3. x \in WrittenPacket /\ x.track = p.track /\ x.id = p.id /\ x.seg = seg.index BY <1>1, <3>2 DEF WrittenPacket
    <3>4. (written' = Append(written, x) /\ UNCHANGED write_error) \/ WriteFails BY <3>2 DEF WriterPush, WriteFails
    <3> HIDE DEF x
    <3>5. Stores(p.track, p.id) \/ WriteFails BY <3>3, <3>4 DEF Stores
    <3> QED BY <1>3, <2>1, <3>1, <3>5 DEF AudioPlaced
  <2> QED BY <1>4, <2>2, <2>3, <2>4, <2>5
<1> QED BY <1>3, <1>10, <1>11

LEMMA MuxPaths ==
  ASSUME TypeOK, MuxNext
  PROVE  /\ UNCHANGED <<in_flight, vheld, frame_idx, apc, audio_idx, vsent, asent, video_ready, audio_track_ready>>
         /\ MuxStill \/ (\E p \in VideoPacket : MuxVideo(p)) \/ (\E p \in AudioPacket : MuxAudio(p)) \/ MuxFinish
<1>1. /\ video_premux \in Seq(VideoPacket) /\ audio_premux \in Seq(AudioPacket) /\ mux_queue \in Seq(MuxItem)
      /\ segment_pending_audio \in Seq(AudioPacket)
  BY DEF TypeOK, BufferType, MuxType
<1>2. UNCHANGED <<in_flight, vheld, frame_idx, apc, audio_idx, vsent, asent, video_ready, audio_track_ready>>
  BY DEF MuxNext, MuxCheckHeaders, MuxBlock, MuxOpenFirst, MuxPremuxVideo, MuxPremuxAudio, MuxPremuxDone,
         MuxDrainHeld, MuxTop, MuxPopVideo, MuxPopAudio, MuxPopVideoEos, MuxPopAudioEos, MuxPopSplit,
         MuxQueueEmpty, MuxFinish, MuxPop, MuxFrame
<1>3. CASE MuxCheckHeaders \/ MuxBlock \/ MuxOpenFirst \/ MuxPremuxDone \/ MuxTop \/ MuxQueueEmpty
  <2>1. MuxStill BY <1>3 DEF MuxCheckHeaders, MuxBlock, MuxOpenFirst, MuxPremuxDone, MuxTop, MuxQueueEmpty, MuxStill
  <2> QED BY <1>2, <2>1
<1>4. CASE MuxPopVideoEos \/ MuxPopAudioEos \/ MuxPopSplit
  <2>1. /\ UNCHANGED <<written, segment_pending_audio, video_premux, audio_premux, trimmed, audio_shift, audio_shift_resolved>>
        /\ mux_queue # <<>> /\ mux_queue' = Tail(mux_queue) /\ Head(mux_queue).kind \notin {"video", "audio"}
    BY <1>4 DEF MuxPopVideoEos, MuxPopAudioEos, MuxPopSplit, MuxPop
  <2>2. MuxStill BY <2>1 DEF MuxStill, Popped
  <2> QED BY <1>2, <2>2
<1>5. CASE MuxPremuxVideo
  <2> DEFINE p == Head(video_premux)
  <2>1. p \in VideoPacket BY <1>1, <1>5, ShrinkType DEF MuxPremuxVideo
  <2>2. /\ video_premux # <<>> /\ video_premux' = Tail(video_premux) /\ mpc = "premux" /\ PushVideo(p)
        /\ UNCHANGED <<mux_queue, audio_premux, segment_pending_audio, trimmed, audio_shift, audio_shift_resolved, reports, mpc>>
    BY <1>5 DEF MuxPremuxVideo, HandleVideo
  <2>3. MuxVideo(p) BY <2>1, <2>2, PushesVideo DEF MuxVideo
  <2> QED BY <1>2, <2>1, <2>3
<1>6. CASE MuxPopVideo
  <2> DEFINE p == Head(mux_queue)
  <2>1. mux_queue # <<>> /\ p.kind = "video" BY <1>6 DEF MuxPopVideo, MuxPop
  <2>2. p \in VideoPacket BY <1>1, <2>1, ShrinkType, ItemKind
  <2>3. /\ mux_queue' = Tail(mux_queue) /\ mpc \in {"pop", "final"} /\ PushVideo(p)
        /\ UNCHANGED <<video_premux, audio_premux, segment_pending_audio, trimmed, audio_shift, audio_shift_resolved, reports, mpc>>
    BY <1>6 DEF MuxPopVideo, MuxPop, HandleVideo
  <2>4. MuxVideo(p) BY <2>1, <2>2, <2>3, PushesVideo DEF MuxVideo
  <2> QED BY <1>2, <2>2, <2>4
<1>7. CASE MuxPremuxAudio
  <2> DEFINE p == Head(audio_premux)
  <2>1. p \in AudioPacket BY <1>1, <1>7, ShrinkType DEF MuxPremuxAudio
  <2>2. /\ audio_premux # <<>> /\ audio_premux' = Tail(audio_premux) /\ mpc = "premux" /\ ~MuxBusy
        /\ PushAudio(p, segment_pending_audio) /\ UNCHANGED <<mux_queue, video_premux, reports, mpc>>
    BY <1>7 DEF MuxPremuxAudio, HandleAudio
  <2>3. AudioPlaced(p, segment_pending_audio) /\ UNCHANGED seg BY <1>1, <2>1, <2>2, PlacesAudio
  <2>4. MuxAudio(p) BY <2>2, <2>3 DEF MuxAudio
  <2> QED BY <1>2, <2>1, <2>4
<1>8. CASE MuxPopAudio
  <2> DEFINE p == Head(mux_queue)
  <2>1. mux_queue # <<>> /\ p.kind = "audio" BY <1>8 DEF MuxPopAudio, MuxPop
  <2>2. p \in AudioPacket BY <1>1, <2>1, ShrinkType, ItemKind
  <2>3. /\ mux_queue' = Tail(mux_queue) /\ mpc \in {"pop", "final"} /\ ~MuxBusy
        /\ PushAudio(p, segment_pending_audio) /\ UNCHANGED <<audio_premux, video_premux, reports, mpc>>
    BY <1>8 DEF MuxPopAudio, MuxPop, HandleAudio
  <2>4. AudioPlaced(p, segment_pending_audio) /\ UNCHANGED seg BY <1>1, <2>2, <2>3, PlacesAudio
  <2>5. MuxAudio(p) BY <2>1, <2>3, <2>4 DEF MuxAudio
  <2> QED BY <1>2, <2>2, <2>5
<1>9. CASE MuxDrainHeld
  <2> DEFINE p == Head(segment_pending_audio)
  <2>1. /\ MuxBusy /\ segment_pending_audio # <<>> /\ mpc \in {"premux", "pop", "final"}
        /\ PushAudio(p, Tail(segment_pending_audio)) /\ UNCHANGED <<audio_premux, video_premux, mux_queue, reports, mpc>>
    BY <1>9 DEF MuxDrainHeld, MuxBusy
  <2>2. p \in AudioPacket /\ Tail(segment_pending_audio) \in Seq(AudioPacket) BY <1>1, <2>1, ShrinkType
  <2>3. AudioPlaced(p, Tail(segment_pending_audio)) /\ UNCHANGED seg BY <2>1, <2>2, PlacesAudio
  <2>4. MuxAudio(p) BY <2>1, <2>3 DEF MuxAudio
  <2> QED BY <1>2, <2>2, <2>4
<1> QED BY <1>2, <1>3, <1>4, <1>5, <1>6, <1>7, <1>8, <1>9 DEF MuxNext

\* Packet m of stream s leaves the head of a buffer for the disk, for the hold
\* or for good.
Takes(s, m) ==
  /\ \A u \in Streams : UNCHANGED Sent(u)
  /\ \A u \in Streams : u # s => UNCHANGED <<DiskOf(u), HeldOf(u), PreOf(u), QueueOf(u)>>
  /\ Took(m, DiskOf(s), HeldOf(s), PreOf(s), QueueOf(s), DiskOf(s)', HeldOf(s)', PreOf(s)', QueueOf(s)')

LEMMA TakeLine ==
  ASSUME LineInv, NEW s \in Streams, NEW m, Takes(s, m)
  PROVE  /\ LineInv' /\ m \in SentOf(s) /\ m \notin DiskOf(s) /\ m \notin GoneOf(s) /\ Lt(DiskOf(s), {m})
         /\ Loses(GoneOf(s), GoneOf(s)', m, DiskOf(s)', HeldOf(s)')
         /\ \A u \in Streams : u # s => GoneOf(u)' = GoneOf(u)
<1>1. \A u \in Streams : SentOf(u)' = SentOf(u) BY DEF Takes, SentOf
<1>2. ASSUME NEW u \in Streams, u # s
      PROVE  Line(DiskOf(u), HeldOf(u), PreOf(u), QueueOf(u), SentOf(u))' /\ GoneOf(u)' = GoneOf(u)
  <2>1. UNCHANGED <<DiskOf(u), HeldOf(u), PreOf(u), QueueOf(u)>> /\ SentOf(u)' = SentOf(u) BY <1>1, <1>2 DEF Takes
  <2>2. Line(DiskOf(u), HeldOf(u), PreOf(u), QueueOf(u), SentOf(u)) BY DEF LineInv
  <2> QED BY <2>1, <2>2 DEF GoneOf
<1>3. /\ Line(DiskOf(s), HeldOf(s), PreOf(s), QueueOf(s), SentOf(s)) /\ SentOf(s) \in SUBSET Nat
      /\ SentOf(s)' = SentOf(s)
  BY <1>1 DEF LineInv, SentOf, Elements
<1>4. Took(m, DiskOf(s), HeldOf(s), PreOf(s), QueueOf(s), DiskOf(s)', HeldOf(s)', PreOf(s)', QueueOf(s)') BY DEF Takes
<1>5. LineStep(m, DiskOf(s), HeldOf(s), PreOf(s), QueueOf(s), SentOf(s), DiskOf(s)', HeldOf(s)', PreOf(s)', QueueOf(s)')
  BY <1>3, <1>4 DEF LineStep
<1>6. Line(DiskOf(s)', HeldOf(s)', PreOf(s)', QueueOf(s)', SentOf(s)) BY <1>5, LineTake
<1>7. m \in SentOf(s) /\ m \notin DiskOf(s) /\ m \notin GoneOf(s) /\ Lt(DiskOf(s), {m}) BY <1>5, LineTake DEF GoneOf
<1>8. Loses(GoneOf(s), GoneOf(s)', m, DiskOf(s)', HeldOf(s)') BY <1>3, <1>5, LineTake DEF GoneOf
<1>9. LineInv' BY <1>2, <1>3, <1>6 DEF LineInv
<1> QED BY <1>2, <1>7, <1>8, <1>9

\* The head of a buffer is a packet of stream s.
LEMMA StreamPop ==
  ASSUME NEW q \in Seq(MuxItem), q # <<>>, NEW s \in Streams,
         \A u \in Streams : (Is(Head(q), u) <=> u = s) /\ Sorted(q, u)
  PROVE  /\ Ids(q, s) = Ids(Tail(q), s) \cup {Head(q).id}
         /\ Lt({Head(q).id}, Ids(Tail(q), s))
         /\ \A u \in Streams : Sorted(Tail(q), u) /\ (u # s => Ids(Tail(q), u) = Ids(q, u))
<1>1. ASSUME NEW u \in Streams
      PROVE  /\ Is(Head(q), u) => Ids(q, u) = Ids(Tail(q), u) \cup {Head(q).id}
             /\ ~Is(Head(q), u) => Ids(q, u) = Ids(Tail(q), u)
             /\ Sorted(Tail(q), u) /\ (Is(Head(q), u) => Lt({Head(q).id}, Ids(Tail(q), u)))
  BY <1>1, IdsPop
<1>2. Is(Head(q), s) /\ \A u \in Streams : u # s => ~Is(Head(q), u) OBVIOUS
<1> QED BY <1>1, <1>2

\* What a write leaves on disk.
LEMMA DiskAfter ==
  ASSUME TypeOK, NEW s \in Streams, NEW n, Stores(s, n)
  PROVE  /\ DiskOf(s)' = DiskOf(s) \cup {n}
         /\ \A u \in Streams : u # s => UNCHANGED DiskOf(u)
         /\ DiskSorted(written) /\ Lt(DiskOf(s), {n}) => DiskSorted(written')
<1>1. PICK x \in WrittenPacket : x.track = s /\ x.id = n /\ written' = Append(written, x) BY DEF Stores
<1>2. written \in Seq(WrittenPacket) BY DEF TypeOK, MuxType
<1>3. /\ DiskIds(Append(written, x), x.track) = DiskIds(written, x.track) \cup {x.id}
      /\ \A u : u # x.track => DiskIds(Append(written, x), u) = DiskIds(written, u)
      /\ DiskSorted(written) /\ Lt(DiskIds(written, x.track), {x.id}) => DiskSorted(Append(written, x))
  BY <1>2, DiskGrow
<1> QED BY <1>1, <1>3 DEF DiskOf

LEMMA HeldIsAudio == ASSUME TypeOK PROVE HeldOf("video") = {}
<1>1. segment_pending_audio \in Seq(AudioPacket) BY DEF TypeOK, MuxType
<1>2. \A i \in 1 .. Len(segment_pending_audio) : segment_pending_audio[i] \in AudioPacket BY <1>1, ElementOfSeq
<1>3. \A x \in AudioPacket : ~Is(x, "video") BY DEF AudioPacket, Is
<1> QED BY <1>2, <1>3 DEF HeldOf, Ids

LEMMA VideoTakes ==
  ASSUME TypeOK, OrderInv, NEW p \in VideoPacket, MuxVideo(p), UNCHANGED <<vsent, asent>>
  PROVE  /\ Takes("video", p.id)
         /\ UNCHANGED written \/ Stores("video", p.id)
         /\ \A s \in Streams : /\ Sorted(video_premux', s) /\ Sorted(audio_premux', s)
                               /\ Sorted(mux_queue', s) /\ Sorted(segment_pending_audio', s)
<1> USE DEF OrderInv
<1>0. mux_queue \in Seq(MuxItem) /\ video_premux \in Seq(MuxItem) /\ "video" \in Streams
  BY PacketBuffer DEF TypeOK, BufferType, Streams
<1>1. /\ UNCHANGED <<audio_premux, segment_pending_audio>>
      /\ UNCHANGED written \/ Stores("video", p.id)
  BY DEF MuxVideo, WriteFails
<1>2. \A s \in Streams : /\ Sorted(video_premux, s) /\ Sorted(audio_premux', s)
                         /\ Sorted(mux_queue, s) /\ Sorted(segment_pending_audio', s)
  BY <1>1 DEF SortInv
<1>3. \A u \in Streams : Is(p, u) <=> u = "video" BY VideoIs
<1>4. HeldOf("video") = {} /\ \A u \in Streams : UNCHANGED <<Sent(u), HeldOf(u)>>
  BY <1>1, HeldIsAudio DEF HeldOf, Sent
<1>5. /\ UNCHANGED DiskOf("video") \/ DiskOf("video")' = DiskOf("video") \cup {p.id}
      /\ \A u \in Streams : u # "video" => UNCHANGED DiskOf(u)
  <2>1. CASE UNCHANGED written BY <2>1 DEF DiskOf
  <2>2. CASE Stores("video", p.id) BY <1>0, <2>2, DiskAfter
  <2> QED BY <1>1, <2>1, <2>2
<1>6. /\ PreOf("video") = Ids(video_premux, "video") /\ PreOf("video")' = Ids(video_premux', "video")
      /\ \A u \in Streams : u # "video" => UNCHANGED PreOf(u)
  BY <1>1 DEF PreOf
<1>7. CASE /\ video_premux # <<>> /\ p = Head(video_premux) /\ video_premux' = Tail(video_premux)
           /\ UNCHANGED mux_queue
  <2>1. /\ Ids(video_premux, "video") = Ids(video_premux', "video") \cup {p.id} /\ Lt({p.id}, Ids(video_premux', "video"))
        /\ \A u \in Streams : Sorted(video_premux', u)
    <3>1. \A u \in Streams : (Is(Head(video_premux), u) <=> u = "video") /\ Sorted(video_premux, u) BY <1>2, <1>3, <1>7
    <3>2. Ids(video_premux, "video") = Ids(Tail(video_premux), "video") \cup {Head(video_premux).id}
      BY <1>0, <1>7, <3>1, StreamPop
    <3>3. /\ Lt({Head(video_premux).id}, Ids(Tail(video_premux), "video"))
          /\ \A u \in Streams : Sorted(Tail(video_premux), u)
      BY <1>0, <1>7, <3>1, StreamPop
    <3> QED BY <1>7, <3>2, <3>3
  <2>2. \A u \in Streams : UNCHANGED QueueOf(u) BY <1>7 DEF QueueOf
  <2>3. UNCHANGED HeldOf("video") /\ UNCHANGED QueueOf("video") BY <1>0, <1>4, <2>2
  <2>4. Takes("video", p.id) BY <1>4, <1>5, <1>6, <2>1, <2>2, <2>3 DEF Takes, Took
  <2> QED BY <1>1, <1>2, <1>7, <2>1, <2>4
<1>8. CASE /\ mpc \in {"pop", "final"} /\ mux_queue # <<>> /\ p = Head(mux_queue) /\ mux_queue' = Tail(mux_queue)
           /\ UNCHANGED video_premux
  <2>1. /\ Ids(mux_queue, "video") = Ids(mux_queue', "video") \cup {p.id} /\ Lt({p.id}, Ids(mux_queue', "video"))
        /\ \A u \in Streams : Sorted(mux_queue', u) /\ (u # "video" => Ids(mux_queue', u) = Ids(mux_queue, u))
    <3>1. \A u \in Streams : (Is(Head(mux_queue), u) <=> u = "video") /\ Sorted(mux_queue, u) BY <1>2, <1>3, <1>8
    <3>2. Ids(mux_queue, "video") = Ids(Tail(mux_queue), "video") \cup {Head(mux_queue).id}
      BY <1>0, <1>8, <3>1, StreamPop
    <3>3. /\ Lt({Head(mux_queue).id}, Ids(Tail(mux_queue), "video"))
          /\ \A u \in Streams : Sorted(Tail(mux_queue), u) /\ (u # "video" => Ids(Tail(mux_queue), u) = Ids(mux_queue, u))
      BY <1>0, <1>8, <3>1, StreamPop
    <3> QED BY <1>8, <3>2, <3>3
  <2>2. PreOf("video") = {} /\ PreOf("video")' = {}
    <3>1. video_premux = <<>> BY <1>8 DEF ReadyInv
    <3>2. Ids(<<>>, "video") = {} BY IdsEmpty
    <3> QED BY <1>6, <1>8, <3>1, <3>2
  <2>3. /\ \A u \in Streams : u # "video" => UNCHANGED QueueOf(u)
        /\ QueueOf("video") = QueueOf("video")' \cup {p.id} /\ Lt({p.id}, QueueOf("video")')
    BY <2>1 DEF QueueOf
  <2>4. UNCHANGED HeldOf("video") BY <1>0, <1>4
  <2>5. Takes("video", p.id) BY <1>4, <1>5, <1>6, <2>2, <2>3, <2>4 DEF Takes, Took
  <2> QED BY <1>1, <1>2, <1>8, <2>1, <2>5
<1> QED BY <1>7, <1>8 DEF MuxVideo

\* What push_audio leaves on disk and in the hold.
LEMMA AudioEnds ==
  ASSUME TypeOK, NEW p \in AudioPacket, NEW held, AudioPlaced(p, held)
  PROVE  \/ Stores(p.track, p.id) /\ segment_pending_audio' = held /\ seg.epoch_set /\ ~write_error
         \/ UNCHANGED written /\ segment_pending_audio' = held
         \/ /\ UNCHANGED written /\ ~seg.epoch_set
            /\ \E q \in AudioPacket : q.track = p.track /\ q.id = p.id /\ segment_pending_audio' = Append(held, q)
BY DEF AudioPlaced, WriteFails

\* A packet that does not come from the hold meets an empty hold, or joins it.
LEMMA HeldAfter ==
  ASSUME TypeOK, OrderInv, NEW p \in AudioPacket, ~MuxBusy, AudioPlaced(p, segment_pending_audio),
         Lt(HeldOf(p.track), {p.id})
  PROVE  /\ UNCHANGED DiskOf(p.track) \/ DiskOf(p.track)' = DiskOf(p.track) \cup {p.id}
         /\ \A u \in Streams : u # p.track => UNCHANGED <<DiskOf(u), HeldOf(u)>>
         /\ \/ UNCHANGED HeldOf(p.track) /\ (UNCHANGED DiskOf(p.track) \/ HeldOf(p.track) = {})
            \/ HeldOf(p.track)' = HeldOf(p.track) \cup {p.id} /\ UNCHANGED DiskOf(p.track)
         /\ \A s \in Streams : Sorted(segment_pending_audio', s)
         /\ UNCHANGED written \/ Stores(p.track, p.id)
<1> DEFINE t == p.track
<1>1. p \in MuxItem /\ p.id \in Nat /\ t \in Streams BY AudioIs
<1>2. segment_pending_audio \in Seq(MuxItem) BY PacketBuffer DEF TypeOK, MuxType
<1>3. \A s \in Streams : Sorted(segment_pending_audio, s) BY DEF OrderInv, SortInv
<1>4. UNCHANGED written => \A u \in Streams : UNCHANGED DiskOf(u) BY DEF DiskOf
<1>5. UNCHANGED segment_pending_audio => \A u \in Streams : UNCHANGED HeldOf(u) BY DEF HeldOf
<1>6. CASE Stores(t, p.id) /\ UNCHANGED segment_pending_audio /\ seg.epoch_set /\ ~write_error
  <2>1. segment_pending_audio = <<>> BY <1>6 DEF MuxBusy
  <2>2. HeldOf(t) = {} BY <2>1, IdsEmpty DEF HeldOf
  <2>3. DiskOf(t)' = DiskOf(t) \cup {p.id} BY <1>1, <1>6, DiskAfter
  <2>4. \A u \in Streams : u # t => UNCHANGED DiskOf(u) BY <1>1, <1>6, DiskAfter
  <2> QED BY <1>1, <1>3, <1>5, <1>6, <2>2, <2>3, <2>4
<1>7. CASE UNCHANGED written /\ UNCHANGED segment_pending_audio BY <1>1, <1>3, <1>4, <1>5, <1>7
<1>8. ASSUME UNCHANGED written, NEW q \in AudioPacket, q.track = t, q.id = p.id,
             segment_pending_audio' = Append(segment_pending_audio, q)
      PROVE  /\ HeldOf(t)' = HeldOf(t) \cup {p.id} /\ \A s \in Streams : Sorted(segment_pending_audio', s)
             /\ \A u \in Streams : u # t => UNCHANGED HeldOf(u)
  <2>1. q \in MuxItem /\ \A s \in Streams : Is(q, s) <=> s = t BY <1>8, AudioIs
  <2>2. Is(q, t) BY <1>1, <2>1
  <2>3. Ids(Append(segment_pending_audio, q), t) = Ids(segment_pending_audio, t) \cup {q.id}
    BY <1>1, <1>2, <2>1, <2>2, IdsGrow
  <2>4. ASSUME NEW u \in Streams, u # t
        PROVE  Ids(Append(segment_pending_audio, q), u) = Ids(segment_pending_audio, u)
    BY <1>2, <2>1, <2>4, IdsGrow
  <2>5. ASSUME NEW s \in Streams PROVE Sorted(Append(segment_pending_audio, q), s)
    <3>1. Is(q, s) => Lt(Ids(segment_pending_audio, s), {q.id}) BY <1>8, <2>1 DEF HeldOf
    <3> QED BY <1>2, <1>3, <2>1, <3>1, IdsGrow
  <2> QED BY <1>8, <2>3, <2>4, <2>5 DEF HeldOf
<1>9. CASE \E q \in AudioPacket : /\ q.track = p.track /\ q.id = p.id
                                  /\ segment_pending_audio' = Append(segment_pending_audio, q) /\ UNCHANGED written
  BY <1>1, <1>4, <1>8, <1>9
<1> QED BY <1>6, <1>7, <1>9, AudioEnds

LEMMA AudioTakes ==
  ASSUME TypeOK, OrderInv, NEW p \in AudioPacket, MuxAudio(p), UNCHANGED <<vsent, asent>>
  PROVE  /\ Takes(p.track, p.id)
         /\ UNCHANGED written \/ Stores(p.track, p.id)
         /\ \A s \in Streams : /\ Sorted(video_premux', s) /\ Sorted(audio_premux', s)
                               /\ Sorted(mux_queue', s) /\ Sorted(segment_pending_audio', s)
<1> USE DEF OrderInv
<1> DEFINE t == p.track
<1>0. /\ mux_queue \in Seq(MuxItem) /\ audio_premux \in Seq(MuxItem) /\ segment_pending_audio \in Seq(MuxItem)
      /\ t \in Streams /\ t # "video" /\ \A u \in Streams : Is(p, u) <=> u = t
  BY PacketBuffer, AudioIs DEF TypeOK, BufferType, MuxType
<1>1. UNCHANGED video_premux /\ \A u \in Streams : UNCHANGED Sent(u) BY DEF MuxAudio, Sent
<1>2. \A s \in Streams : /\ Sorted(video_premux', s) /\ Sorted(audio_premux, s)
                         /\ Sorted(mux_queue, s) /\ Sorted(segment_pending_audio, s)
  BY <1>1 DEF SortInv
<1>3. PreOf(t) = Ids(audio_premux, t) /\ PreOf(t)' = Ids(audio_premux', t) BY <1>0 DEF PreOf
<1>4. Lt(HeldOf(t), PreOf(t)) /\ Lt(HeldOf(t), QueueOf(t)) BY <1>0 DEF LineInv, Line
<1> HIDE DEF t
<1>5. CASE /\ audio_premux # <<>> /\ p = Head(audio_premux) /\ audio_premux' = Tail(audio_premux) /\ ~MuxBusy
           /\ UNCHANGED mux_queue /\ AudioPlaced(p, segment_pending_audio)
  <2>1. \A u \in Streams : (Is(Head(audio_premux), u) <=> u = t) /\ Sorted(audio_premux, u) BY <1>0, <1>2, <1>5
  <2>2. Ids(audio_premux, t) = Ids(Tail(audio_premux), t) \cup {Head(audio_premux).id}
    BY <1>0, <1>5, <2>1, StreamPop
  <2>3. /\ Lt({Head(audio_premux).id}, Ids(Tail(audio_premux), t))
        /\ \A u \in Streams : Sorted(Tail(audio_premux), u) /\ (u # t => Ids(Tail(audio_premux), u) = Ids(audio_premux, u))
    BY <1>0, <1>5, <2>1, StreamPop
  <2>4. PreOf(t) = PreOf(t)' \cup {p.id} /\ Lt({p.id}, PreOf(t)') BY <1>3, <1>5, <2>2, <2>3
  <2>5. \A u \in Streams : u # t => UNCHANGED PreOf(u) BY <1>1, <1>5, <2>3 DEF PreOf
  <2>6. \A u \in Streams : UNCHANGED QueueOf(u) BY <1>5 DEF QueueOf
  <2>7. Lt(HeldOf(t), {p.id}) BY <1>4, <2>4 DEF Lt
  <2>8. /\ UNCHANGED DiskOf(t) \/ DiskOf(t)' = DiskOf(t) \cup {p.id}
        /\ \A u \in Streams : u # t => UNCHANGED <<DiskOf(u), HeldOf(u)>>
        /\ \/ UNCHANGED HeldOf(t) /\ (UNCHANGED DiskOf(t) \/ HeldOf(t) = {})
           \/ HeldOf(t)' = HeldOf(t) \cup {p.id} /\ UNCHANGED DiskOf(t)
        /\ \A s \in Streams : Sorted(segment_pending_audio', s)
        /\ UNCHANGED written \/ Stores(t, p.id)
    BY <1>5, <2>7, HeldAfter DEF t
  <2>9. UNCHANGED QueueOf(t) BY <1>0, <2>6
  <2>10. Takes(t, p.id) BY <1>1, <2>4, <2>5, <2>6, <2>8, <2>9 DEF Takes, Took
  <2> QED BY <1>2, <1>5, <2>3, <2>8, <2>10 DEF t
<1>6. CASE /\ mpc \in {"pop", "final"} /\ mux_queue # <<>> /\ p = Head(mux_queue) /\ mux_queue' = Tail(mux_queue)
           /\ UNCHANGED audio_premux /\ ~MuxBusy /\ AudioPlaced(p, segment_pending_audio)
  <2>1. \A u \in Streams : (Is(Head(mux_queue), u) <=> u = t) /\ Sorted(mux_queue, u) BY <1>0, <1>2, <1>6
  <2>2. Ids(mux_queue, t) = Ids(Tail(mux_queue), t) \cup {Head(mux_queue).id}
    BY <1>0, <1>6, <2>1, StreamPop
  <2>3. /\ Lt({Head(mux_queue).id}, Ids(Tail(mux_queue), t))
        /\ \A u \in Streams : Sorted(Tail(mux_queue), u) /\ (u # t => Ids(Tail(mux_queue), u) = Ids(mux_queue, u))
    BY <1>0, <1>6, <2>1, StreamPop
  <2>4. /\ QueueOf(t) = QueueOf(t)' \cup {p.id} /\ Lt({p.id}, QueueOf(t)')
        /\ \A u \in Streams : u # t => UNCHANGED QueueOf(u)
    BY <1>6, <2>2, <2>3 DEF QueueOf
  <2>5. \A u \in Streams : UNCHANGED PreOf(u) BY <1>1, <1>6 DEF PreOf
  <2>6. PreOf(t) = {} /\ PreOf(t)' = {}
    <3>1. audio_premux = <<>> BY <1>6 DEF ReadyInv
    <3>2. Ids(<<>>, t) = {} BY IdsEmpty
    <3> QED BY <1>3, <1>6, <3>1, <3>2
  <2>7. Lt(HeldOf(t), {p.id}) BY <1>4, <2>4 DEF Lt
  <2>8. /\ UNCHANGED DiskOf(t) \/ DiskOf(t)' = DiskOf(t) \cup {p.id}
        /\ \A u \in Streams : u # t => UNCHANGED <<DiskOf(u), HeldOf(u)>>
        /\ \/ UNCHANGED HeldOf(t) /\ (UNCHANGED DiskOf(t) \/ HeldOf(t) = {})
           \/ HeldOf(t)' = HeldOf(t) \cup {p.id} /\ UNCHANGED DiskOf(t)
        /\ \A s \in Streams : Sorted(segment_pending_audio', s)
        /\ UNCHANGED written \/ Stores(t, p.id)
    BY <1>6, <2>7, HeldAfter DEF t
  <2>9. Takes(t, p.id) BY <1>1, <2>4, <2>5, <2>6, <2>8 DEF Takes, Took
  <2> QED BY <1>2, <1>6, <2>3, <2>8, <2>9 DEF t
<1>7. CASE /\ MuxBusy /\ segment_pending_audio # <<>> /\ p = Head(segment_pending_audio)
           /\ UNCHANGED <<audio_premux, mux_queue>> /\ AudioPlaced(p, Tail(segment_pending_audio))
  <2>1. /\ segment_pending_audio' = Tail(segment_pending_audio)
        /\ UNCHANGED written \/ Stores(t, p.id)
    BY <1>7, AudioEnds DEF MuxBusy, t
  <2>2. \A u \in Streams : (Is(Head(segment_pending_audio), u) <=> u = t) /\ Sorted(segment_pending_audio, u)
    BY <1>0, <1>2, <1>7
  <2>3. Ids(segment_pending_audio, t) = Ids(Tail(segment_pending_audio), t) \cup {Head(segment_pending_audio).id}
    BY <1>0, <1>7, <2>2, StreamPop
  <2>4. /\ Lt({Head(segment_pending_audio).id}, Ids(Tail(segment_pending_audio), t))
        /\ \A u \in Streams : /\ Sorted(Tail(segment_pending_audio), u)
                              /\ u # t => Ids(Tail(segment_pending_audio), u) = Ids(segment_pending_audio, u)
    BY <1>0, <1>7, <2>2, StreamPop
  <2>5. /\ HeldOf(t) = HeldOf(t)' \cup {p.id} /\ Lt({p.id}, HeldOf(t)')
        /\ \A u \in Streams : u # t => UNCHANGED HeldOf(u)
    BY <1>7, <2>1, <2>3, <2>4 DEF HeldOf
  <2>6. \A u \in Streams : UNCHANGED <<PreOf(u), QueueOf(u)>> BY <1>1, <1>7 DEF PreOf, QueueOf
  <2>7. /\ UNCHANGED DiskOf(t) \/ DiskOf(t)' = DiskOf(t) \cup {p.id}
        /\ \A u \in Streams : u # t => UNCHANGED DiskOf(u)
    <3>1. CASE UNCHANGED written BY <3>1 DEF DiskOf
    <3>2. CASE Stores(t, p.id)
      <4>1. DiskOf(t)' = DiskOf(t) \cup {p.id} BY <1>0, <3>2, DiskAfter
      <4>2. \A u \in Streams : u # t => UNCHANGED DiskOf(u) BY <1>0, <3>2, DiskAfter
      <4> QED BY <4>1, <4>2
    <3> QED BY <2>1, <3>1, <3>2
  <2>8. UNCHANGED <<PreOf(t), QueueOf(t)>> BY <1>0, <2>6
  <2>9. Takes(t, p.id) BY <1>1, <2>5, <2>6, <2>7, <2>8 DEF Takes, Took
  <2> QED BY <1>2, <1>7, <2>1, <2>4, <2>9 DEF t
<1> QED BY <1>5, <1>6, <1>7 DEF MuxAudio

\* A sentinel leaves the queue, or nothing does.
LEMMA StillLine ==
  ASSUME TypeOK, SortInv, MuxStill, UNCHANGED <<vsent, asent>>
  PROVE  /\ HandsNothing
         /\ \A s \in Streams : /\ Sorted(video_premux', s) /\ Sorted(audio_premux', s)
                               /\ Sorted(mux_queue', s) /\ Sorted(segment_pending_audio', s)
<1>1. mux_queue \in Seq(MuxItem) BY DEF TypeOK, BufferType
<1>2. UNCHANGED <<segment_pending_audio, video_premux, audio_premux>> BY DEF MuxStill
<1>3. ASSUME NEW s \in Streams PROVE Ids(mux_queue', s) = Ids(mux_queue, s) /\ Sorted(mux_queue', s)
  <2>1. Sorted(mux_queue, s) BY DEF SortInv
  <2>2. CASE UNCHANGED mux_queue BY <2>1, <2>2
  <2>3. CASE Popped /\ Head(mux_queue).kind \notin {"video", "audio"}
    <3>1. ~Is(Head(mux_queue), s) BY <2>3 DEF Is
    <3>2. Ids(mux_queue, s) = Ids(Tail(mux_queue), s) /\ Sorted(Tail(mux_queue), s)
      BY <1>1, <2>1, <2>3, <3>1, IdsPop DEF Popped
    <3> QED BY <2>3, <3>2 DEF Popped
  <2> QED BY <2>2, <2>3 DEF MuxStill
<1>4. HandsNothing BY <1>2, <1>3 DEF HandsNothing, Sent, PreOf, QueueOf
<1> QED BY <1>2, <1>3, <1>4 DEF SortInv

\* The last step empties the hold.
LEMMA FinishLine ==
  ASSUME LineInv, SortInv, MuxFinish
  PROVE  /\ LineInv' /\ SortInv' /\ \A s \in Streams : GoneOf(s)' = GoneOf(s) \cup HeldOf(s)
         /\ \A s \in Streams : UNCHANGED <<DiskOf(s), PreOf(s), QueueOf(s), SentOf(s)>> /\ HeldOf(s)' = {}
<1>1. /\ segment_pending_audio' = <<>>
      /\ UNCHANGED <<video_premux, audio_premux, mux_queue, written, vsent, asent>>
  BY DEF MuxFinish, MuxFrame
<1>2. \A s \in Streams : UNCHANGED <<DiskOf(s), PreOf(s), QueueOf(s), SentOf(s), Sent(s)>>
  BY <1>1 DEF DiskOf, PreOf, QueueOf, SentOf, Sent
<1>3. \A s \in Streams : HeldOf(s)' = {} /\ Sorted(segment_pending_audio', s) BY <1>1, IdsEmpty DEF HeldOf
<1>4. SortInv' BY <1>1, <1>2, <1>3 DEF SortInv
<1>5. ASSUME NEW D, NEW H, NEW P, NEW Q, NEW S \in SUBSET Nat, Line(D, H, P, Q, S)
      PROVE  Line(D, {}, P, Q, S) /\ Lost(D, {}, P, Q, S) = Lost(D, H, P, Q, S) \cup H
  <2>1. /\ D \subseteq S /\ H \subseteq S /\ P \subseteq S /\ Q \subseteq S
        /\ Lt(D, H) /\ Lt(H, P) /\ Lt(H, Q)
    BY <1>5 DEF Line
  <2>2. \A a \in H : a \notin D /\ a \notin P /\ a \notin Q
    <3>1. \A a \in H : ~(a < a) BY <2>1
    <3> QED BY <2>1, <3>1 DEF Lt
  <2>3. Lost(D, {}, P, Q, S) = Lost(D, H, P, Q, S) \cup H BY <2>1, <2>2 DEF Lost
  <2>4. Lt(Lost(D, {}, P, Q, S), P \cup Q) BY <1>5, <2>1, <2>3 DEF Line, Lt
  <2> QED BY <1>5, <2>3, <2>4 DEF Line, Lt
<1>6. ASSUME NEW s \in Streams
      PROVE  /\ Line(DiskOf(s), HeldOf(s), PreOf(s), QueueOf(s), SentOf(s))'
             /\ GoneOf(s)' = GoneOf(s) \cup HeldOf(s)
  <2> DEFINE D == DiskOf(s) H == HeldOf(s) P == PreOf(s) Q == QueueOf(s) S == SentOf(s)
  <2>1. S \in SUBSET Nat /\ Line(D, H, P, Q, S) /\ GoneOf(s) = Lost(D, H, P, Q, S)
    BY DEF LineInv, SentOf, Elements, GoneOf
  <2>2. Line(D, {}, P, Q, S) /\ Lost(D, {}, P, Q, S) = Lost(D, H, P, Q, S) \cup H
    <3> HIDE DEF D, H, P, Q, S
    <3> QED BY <1>5, <2>1
  <2>3. DiskOf(s)' = D /\ HeldOf(s)' = {} /\ PreOf(s)' = P /\ QueueOf(s)' = Q /\ SentOf(s)' = S BY <1>2, <1>3
  <2>4. GoneOf(s)' = Lost(DiskOf(s)', HeldOf(s)', PreOf(s)', QueueOf(s)', SentOf(s)') BY DEF GoneOf
  <2> QED BY <2>1, <2>2, <2>3, <2>4
<1>7. LineInv' BY <1>6 DEF LineInv
<1> QED BY <1>2, <1>3, <1>4, <1>6, <1>7

\* MuxThread passes the header wait only with every header, and leaves the
\* pre-mux buffers empty.
LEMMA MuxReady ==
  ASSUME TypeOK, ReadyInv, MuxNext, \A s \in Streams : QueueOf(s)' # {} => QueueOf(s) # {}
  PROVE  ReadyInv'
<1>1. UNCHANGED <<vheld, apc, video_ready, audio_track_ready>> BY MuxPaths
<1>2. /\ mpc' = "open" => mpc = "open" \/ BothReady
      /\ mpc' \in Writing => mpc \in Writing \/ mpc = "open"
      /\ mpc' \in {"top", "pop", "final"} => /\ UNCHANGED <<video_premux, audio_premux>>
                                             /\ \/ mpc \in {"top", "pop", "final"}
                                                \/ video_premux = <<>> /\ audio_premux = <<>>
  <2>1. CASE MuxCheckHeaders \/ MuxBlock \/ MuxOpenFirst
    BY <2>1 DEF MuxCheckHeaders, MuxBlock, MuxOpenFirst, Writing
  <2>2. CASE MuxPremuxVideo \/ MuxPremuxAudio \/ MuxPremuxDone \/ MuxDrainHeld
    BY <2>2 DEF MuxPremuxVideo, MuxPremuxAudio, MuxPremuxDone, MuxDrainHeld, Writing
  <2>3. CASE MuxTop \/ MuxQueueEmpty \/ MuxFinish BY <2>3 DEF MuxTop, MuxQueueEmpty, MuxFinish, Writing
  <2>4. CASE MuxPopVideo \/ MuxPopAudio \/ MuxPopVideoEos \/ MuxPopAudioEos \/ MuxPopSplit
    BY <2>4 DEF MuxPopVideo, MuxPopAudio, MuxPopVideoEos, MuxPopAudioEos, MuxPopSplit, MuxPop, Writing
  <2> QED BY <2>1, <2>2, <2>3, <2>4 DEF MuxNext
<1>3. BothReady' = BothReady BY <1>1 DEF BothReady
<1>4. (\E s \in Streams : QueueOf(s)' # {}) => BothReady' BY <1>3 DEF ReadyInv
<1>5. (vheld' # <<>> => BothReady') /\ ((\E t \in Tracks : apc'[t] = "wait") => BothReady') BY <1>1, <1>3 DEF ReadyInv
<1>6. mpc' = "open" \/ mpc' \in Writing => BothReady' BY <1>2, <1>3 DEF ReadyInv
<1>7. mpc' \in {"top", "pop", "final"} => video_premux' = <<>> /\ audio_premux' = <<>> BY <1>2 DEF ReadyInv
<1> QED BY <1>4, <1>5, <1>6, <1>7 DEF ReadyInv

\* What a packet taken by MuxThread leaves in order.
LEMMA TakeOrder ==
  ASSUME TypeOK, OrderInv, NEW s \in Streams, NEW m, Takes(s, m), UNCHANGED written \/ Stores(s, m),
         \A u \in Streams : /\ Sorted(video_premux', u) /\ Sorted(audio_premux', u)
                            /\ Sorted(mux_queue', u) /\ Sorted(segment_pending_audio', u)
  PROVE  LineInv' /\ SortInv'
<1>1. LineInv' /\ Lt(DiskOf(s), {m}) BY TakeLine DEF OrderInv
<1>2. DiskSorted(written) /\ \A u \in Streams : Rising(Sent(u)) BY DEF OrderInv, SortInv
<1>3. DiskSorted(written')
  <2>1. CASE UNCHANGED written BY <1>2, <2>1
  <2>2. CASE Stores(s, m) BY <1>1, <1>2, <2>2, DiskAfter
  <2> QED BY <2>1, <2>2
<1>4. \A u \in Streams : Rising(Sent(u)') BY <1>2 DEF Takes
<1> QED BY <1>1, <1>3, <1>4 DEF SortInv

LEMMA MuxOrder == ASSUME TypeOK, OrderInv, MuxNext PROVE OrderInv'
<1>1. /\ UNCHANGED <<in_flight, vheld, frame_idx, apc, audio_idx, vsent, asent, video_ready, audio_track_ready>>
      /\ MuxStill \/ (\E p \in VideoPacket : MuxVideo(p)) \/ (\E p \in AudioPacket : MuxAudio(p)) \/ MuxFinish
  BY MuxPaths
<1>2. FreshInv'
  <2>1. \A s \in Streams : SentOf(s)' = SentOf(s) BY <1>1 DEF SentOf, Sent
  <2>2. "video" \in Streams /\ \A t \in Tracks : t \in Streams BY DEF Streams
  <2>3. SentOf("video")' = SentOf("video") /\ \A t \in Tracks : SentOf(t)' = SentOf(t) BY <2>1, <2>2
  <2> QED BY <1>1, <2>3 DEF OrderInv, FreshInv
<1>3. ReadyInv'
  <2>1. UNCHANGED mux_queue \/ Popped BY MuxQueueStep
  <2>2. mux_queue \in Seq(MuxItem) BY DEF TypeOK, BufferType
  <2>3. \A s \in Streams : Ids(mux_queue', s) # {} => Ids(mux_queue, s) # {}
    <3>1. CASE UNCHANGED mux_queue BY <3>1
    <3>2. CASE Popped
      <4>1. \A s \in Streams : Ids(Tail(mux_queue), s) \subseteq Ids(mux_queue, s) BY <2>2, <3>2, IdsPop DEF Popped
      <4> QED BY <3>2, <4>1 DEF Popped
    <3> QED BY <2>1, <3>1, <3>2
  <2>4. \A s \in Streams : QueueOf(s)' # {} => QueueOf(s) # {} BY <2>3 DEF QueueOf
  <2> QED BY <2>4, MuxReady DEF OrderInv
<1>4. LineInv' /\ SortInv'
  <2>1. CASE MuxStill
    <3>1. UNCHANGED <<written, segment_pending_audio>> BY <2>1 DEF MuxStill
    <3>2. /\ HandsNothing
          /\ \A s \in Streams : /\ Sorted(video_premux', s) /\ Sorted(audio_premux', s)
                                /\ Sorted(mux_queue', s) /\ Sorted(segment_pending_audio', s)
      BY <1>1, <2>1, StillLine DEF OrderInv
    <3>3. LineInv' /\ \A s \in Streams : Rising(Sent(s)) => Rising(Sent(s)') BY <3>1, <3>2, ProducerLine DEF OrderInv
    <3>4. DiskSorted(written') /\ \A s \in Streams : Rising(Sent(s)) BY <3>1 DEF OrderInv, SortInv
    <3> QED BY <3>2, <3>3, <3>4 DEF SortInv
  <2>2. ASSUME NEW p \in VideoPacket, MuxVideo(p) PROVE LineInv' /\ SortInv'
    <3>1. "video" \in Streams BY DEF Streams
    <3> QED BY <1>1, <2>2, <3>1, VideoTakes, TakeOrder
  <2>3. ASSUME NEW p \in AudioPacket, MuxAudio(p) PROVE LineInv' /\ SortInv'
    <3>1. p.track \in Streams BY AudioIs
    <3> QED BY <1>1, <2>3, <3>1, AudioTakes, TakeOrder
  <2>4. CASE MuxFinish BY <2>4, FinishLine DEF OrderInv
  <2> QED BY <1>1, <2>1, <2>2, <2>3, <2>4
<1> QED BY <1>2, <1>3, <1>4 DEF OrderInv

\* A step of a producer or of the user loses no packet.
LEMMA OutsideOrder ==
  ASSUME TypeOK, OrderInv,
         \/ VideoNext \/ \E t \in Tracks : AudioNext(t)
         \/ NotifyWaiters \/ CallerStop \/ RequestSplit \/ UNCHANGED vars
  PROVE  OrderInv' /\ \A s \in Streams : GoneOf(s)' = GoneOf(s)
<1>1. ASSUME UNCHANGED <<written, segment_pending_audio>>,
             HandsNothing \/ \E s \in Streams : \E n : Hands(s, n), FreshInv', ReadyInv',
             \A s \in Streams : /\ Sorted(video_premux', s) /\ Sorted(audio_premux', s)
                                /\ Sorted(mux_queue', s) /\ Sorted(segment_pending_audio', s)
      PROVE  OrderInv' /\ \A s \in Streams : GoneOf(s)' = GoneOf(s)
  <2>1. LineInv' /\ \A s \in Streams : GoneOf(s)' = GoneOf(s) /\ (Rising(Sent(s)) => Rising(Sent(s)'))
    BY <1>1, ProducerLine DEF OrderInv
  <2>2. DiskSorted(written') /\ \A s \in Streams : Rising(Sent(s)) BY <1>1 DEF OrderInv, SortInv
  <2>3. SortInv' BY <1>1, <2>1, <2>2 DEF SortInv
  <2> QED BY <1>1, <2>1, <2>3 DEF OrderInv
<1>2. CASE VideoNext
  <2>1. VideoOrder BY <1>2, VideoOrders
  <2>2. "video" \in Streams /\ UNCHANGED <<written, segment_pending_audio>> BY <2>1 DEF VideoOrder, Streams
  <2>3. /\ HandsNothing \/ \E n : Hands("video", n)
        /\ FreshInv' /\ ReadyInv'
        /\ \A s \in Streams : /\ Sorted(video_premux', s) /\ Sorted(audio_premux', s)
                              /\ Sorted(mux_queue', s) /\ Sorted(segment_pending_audio', s)
    BY <2>1, VideoLine
  <2> QED BY <1>1, <2>2, <2>3
<1>3. ASSUME NEW t \in Tracks, AudioNext(t) PROVE OrderInv' /\ \A s \in Streams : GoneOf(s)' = GoneOf(s)
  <2>1. AudioOrder(t) BY <1>3, AudioOrders
  <2>2. t \in Streams /\ UNCHANGED <<written, segment_pending_audio>> BY <2>1 DEF AudioOrder, Streams
  <2>3. /\ HandsNothing \/ \E n : Hands(t, n)
        /\ FreshInv' /\ ReadyInv'
        /\ \A s \in Streams : /\ Sorted(video_premux', s) /\ Sorted(audio_premux', s)
                              /\ Sorted(mux_queue', s) /\ Sorted(segment_pending_audio', s)
    BY <2>1, AudioLine
  <2> QED BY <1>1, <2>2, <2>3
<1>4. CASE NotifyWaiters \/ CallerStop \/ RequestSplit \/ UNCHANGED vars
  <2>1. /\ UNCHANGED <<written, segment_pending_audio, video_premux, audio_premux, mux_queue, vsent, asent,
                       in_flight, vheld, frame_idx, apc, audio_idx, video_ready, audio_track_ready>>
        /\ mpc' = mpc \/ mpc' = "check"
    BY <1>4 DEF NotifyWaiters, CallerStop, RequestSplit, vars
  <2>2. HandsNothing /\ \A s : SentOf(s)' = SentOf(s) BY <2>1 DEF HandsNothing, Sent, SentOf, PreOf, QueueOf
  <2>3. FreshInv' BY <2>1, <2>2 DEF OrderInv, FreshInv
  <2>4. BothReady' = BothReady /\ \A s \in Streams : QueueOf(s)' = QueueOf(s) BY <2>1 DEF BothReady, QueueOf
  <2>5. ReadyInv' BY <2>1, <2>4, ReadyKeeps DEF OrderInv
  <2>6. \A s \in Streams : /\ Sorted(video_premux', s) /\ Sorted(audio_premux', s)
                           /\ Sorted(mux_queue', s) /\ Sorted(segment_pending_audio', s)
    BY <2>1 DEF OrderInv, SortInv
  <2> QED BY <1>1, <2>1, <2>2, <2>3, <2>5, <2>6
<1> QED BY <1>2, <1>3, <1>4

LEMMA InitOrder == Init => OrderInv /\ \A s \in Streams : GoneOf(s) = {}
<1> SUFFICES ASSUME Init PROVE OrderInv /\ \A s \in Streams : GoneOf(s) = {} OBVIOUS
<1>1. /\ written = <<>> /\ segment_pending_audio = <<>> /\ video_premux = <<>> /\ audio_premux = <<>>
      /\ mux_queue = <<>> /\ vsent = <<>> /\ asent = [t \in Tracks |-> <<>>] /\ in_flight = <<>> /\ vheld = <<>>
      /\ frame_idx = 0 /\ apc = [t \in Tracks |-> "prepare"] /\ audio_idx = [t \in Tracks |-> 0] /\ mpc = "check"
  BY DEF Init
<1>2. \A s \in Streams : Sent(s) = <<>> BY <1>1 DEF Sent, Streams
<1>3. \A s \in Streams : /\ DiskOf(s) = {} /\ HeldOf(s) = {} /\ PreOf(s) = {} /\ QueueOf(s) = {} /\ SentOf(s) = {}
                         /\ Rising(Sent(s))
  BY <1>1, <1>2, IdsEmpty DEF DiskOf, HeldOf, PreOf, QueueOf, SentOf
<1>4. LineInv /\ \A s \in Streams : GoneOf(s) = {} BY <1>3 DEF LineInv, Line, Lost, Lt, GoneOf
<1>5. SortInv BY <1>1, <1>3, IdsEmpty DEF SortInv
<1>6. FreshInv
  <2>1. SentOf("video") = {} /\ \A t \in Tracks : SentOf(t) = {} BY <1>3 DEF Streams
  <2>2. Ids(in_flight, "video") = {} /\ Ids(vheld, "video") = {} /\ Sorted(in_flight, "video") BY <1>1, IdsEmpty
  <2>3. \A t \in Tracks : audio_idx[t] <= MaxAudio /\ apc[t] # "wait" BY <1>1, BoundsAssumption DEF BoundsAssumption
  <2> QED BY <2>1, <2>2, <2>3 DEF FreshInv, Lt
<1>7. ReadyInv BY <1>1, <1>3 DEF ReadyInv, Writing
<1> QED BY <1>4, <1>5, <1>6, <1>7 DEF OrderInv

LEMMA NextOrder == TypeOK /\ OrderInv /\ [Next]_vars => OrderInv'
BY MuxOrder, OutsideOrder DEF Next, Terminated

-----------------------------------------------------------------------------
(* What becomes of the frames submitted to the encoder *)

\* The oldest frame the encoder or the wait for room still has.
Oldest == frame_idx - Len(in_flight) - Len(vheld)

Leaving == vpc \in {"flush", "eos", "done"}

\* The encoder and the packet in hand are the youngest frames, at most
\* EncoderDepth of them; every older frame was handed over, but for those the
\* encoder held when VideoThread left its loop.
EncoderInv ==
  /\ Len(in_flight) + Len(vheld) <= EncoderDepth
  /\ \A j \in 1 .. Len(in_flight) : in_flight[j].id = Oldest + Len(vheld) + j - 1
  /\ vheld # <<>> => Len(vheld) = 1 /\ vheld[1].id = Oldest
  /\ \A m \in SentOf("video") : m < Oldest
  /\ \A n \in 0 .. frame_idx - 1 :
       n < Oldest => n \in SentOf("video") \/ (Leaving /\ n + EncoderDepth >= frame_idx)

\* u is what is left of q after dropping from its front.
Rest(q, u) ==
  /\ Len(u) <= Len(q)
  /\ \A j \in 1 .. Len(u) : u[j] = q[j + (Len(q) - Len(u))]

LEMMA RestCases ==
  ASSUME NEW q \in Seq(VideoPacket)
  PROVE  /\ Rest(q, <<>>)
         /\ \A u \in Suffixes(q) : u \in Seq(VideoPacket) /\ Rest(q, u)
         /\ q # <<>> => /\ Tail(q) \in Seq(VideoPacket) /\ Rest(q, Tail(q)) /\ Len(Tail(q)) = Len(q) - 1
                        /\ \A u \in Suffixes(Tail(q)) : Rest(q, u)
<1>0. Len(q) \in Nat BY LenProperties
<1>1. Rest(q, <<>>)
  <2>1. Len(<<>>) = 0 OBVIOUS
  <2> QED BY <1>0, <2>1 DEF Rest
<1>2. ASSUME NEW v \in Seq(VideoPacket), NEW u \in Suffixes(v) PROVE u \in Seq(VideoPacket) /\ Rest(v, u)
  <2>1. PICK m \in 1 .. Len(v) + 1 : u = SubSeq(v, m, Len(v)) BY <1>2 DEF Suffixes
  <2>2. Len(v) \in Nat /\ \A i \in m .. Len(v) : v[i] \in VideoPacket BY LenProperties, ElementOfSeq
  <2>3. /\ Len(u) = IF m <= Len(v) THEN Len(v) - m + 1 ELSE 0
        /\ \A i \in 1 .. Len(v) - m + 1 : u[i] = v[m + i - 1]
    BY <2>1, <2>2, SubSeqProperties
  <2>4. Len(u) = Len(v) - m + 1 BY <2>2, <2>3
  <2>5. \A i \in 1 .. Len(u) : m + i - 1 = i + (Len(v) - Len(u)) BY <2>2, <2>4
  <2>6. Len(u) <= Len(v) BY <2>2, <2>4
  <2>7. \A i \in 1 .. Len(u) : u[i] = v[i + (Len(v) - Len(u))] BY <2>3, <2>4, <2>5
  <2> QED BY <1>2, <2>6, <2>7, SuffixType DEF Rest
<1>3. ASSUME q # <<>>
      PROVE  /\ Tail(q) \in Seq(VideoPacket) /\ Rest(q, Tail(q)) /\ Len(Tail(q)) = Len(q) - 1
             /\ \A u \in Suffixes(Tail(q)) : Rest(q, u)
  <2> DEFINE v == Tail(q)
  <2>1. /\ v \in Seq(VideoPacket) /\ Len(v) = Len(q) - 1 /\ Len(v) \in Nat
        /\ \A i \in 1 .. Len(v) : v[i] = q[i + 1]
    BY <1>3, HeadTailProperties, LenProperties
  <2> HIDE DEF v
  <2>2. Rest(q, v) BY <1>0, <2>1 DEF Rest
  <2>3. ASSUME NEW u \in Suffixes(v) PROVE Rest(q, u)
    <3>1. u \in Seq(VideoPacket) /\ Rest(v, u) BY <1>2, <2>1
    <3>2. Len(u) \in Nat /\ Len(u) <= Len(v) BY <3>1, LenProperties DEF Rest
    <3>3. ASSUME NEW j \in 1 .. Len(u) PROVE u[j] = q[j + (Len(q) - Len(u))]
      <4>1. j + (Len(v) - Len(u)) \in 1 .. Len(v) BY <2>1, <3>2
      <4>2. u[j] = v[j + (Len(v) - Len(u))] BY <3>1 DEF Rest
      <4>3. (j + (Len(v) - Len(u))) + 1 = j + (Len(q) - Len(u)) BY <1>0, <2>1, <3>2
      <4> QED BY <2>1, <4>1, <4>2, <4>3
    <3> QED BY <1>0, <2>1, <3>2, <3>3 DEF Rest
  <2> QED BY <2>1, <2>2, <2>3 DEF v
<1> QED BY <1>1, <1>2, <1>3

\* A step of VideoThread, as what it does to the frames it has.
EncoderMove ==
  \/ UNCHANGED <<frame_idx, in_flight, vheld, vsent>> /\ (Leaving => Leaving')
  \/ /\ UNCHANGED <<vheld, vsent>> /\ vheld = <<>> /\ Len(in_flight) < EncoderDepth /\ ~Leaving
     /\ frame_idx' = frame_idx + 1
     /\ \E p \in VideoPacket : p.id = frame_idx /\ in_flight' = Append(in_flight, p)
  \/ UNCHANGED <<frame_idx, vsent>> /\ Leaving' /\ vheld' = <<>> /\ Rest(in_flight, in_flight')
  \/ /\ UNCHANGED <<frame_idx, vsent, vpc>> /\ vheld = <<>>
     /\ in_flight # <<>> /\ vheld' = <<Head(in_flight)>> /\ in_flight' = Tail(in_flight)
  \/ /\ UNCHANGED <<frame_idx, vheld, vpc>> /\ vheld = <<>>
     /\ in_flight # <<>> /\ vsent' = Append(vsent, Head(in_flight).id) /\ in_flight' = Tail(in_flight)
  \/ /\ UNCHANGED <<frame_idx, in_flight, vpc>> /\ vheld # <<>> /\ vheld' = <<>>
     /\ vsent' = Append(vsent, vheld[1].id)

LEMMA EncoderMoves == ASSUME TypeOK, VideoNext PROVE EncoderMove
<1>0. in_flight \in Seq(VideoPacket) /\ frame_idx \in Nat BY DEF TypeOK, VideoType
<1>1. CASE \/ VideoPrepare \/ VideoFirstFrame \/ VideoEncodeFail \/ VideoCaptureFail \/ VideoSourceLost
           \/ VideoLeaveLoop \/ VideoFlushed \/ VideoEos
  <2>1. UNCHANGED <<frame_idx, in_flight, vheld, vsent>>
    BY <1>1 DEF VideoPrepare, VideoFirstFrame, VideoEncodeFail, VideoCaptureFail, VideoSourceLost,
                VideoLeaveLoop, VideoFlushed, VideoEos
  <2>2. Leaving => Leaving'
    BY <1>1 DEF VideoPrepare, VideoFirstFrame, VideoEncodeFail, VideoCaptureFail, VideoSourceLost,
                VideoLeaveLoop, VideoFlushed, VideoEos, Leaving
  <2> QED BY <2>1, <2>2 DEF EncoderMove
<1>2. CASE VideoSubmit
  <2>1. PICK key \in BOOLEAN : in_flight' = Append(in_flight,
            [kind |-> "video", id |-> frame_idx, pts |-> frame_idx * FrameNs, key |-> key])
    BY <1>2 DEF VideoSubmit
  <2> DEFINE p == [kind |-> "video", id |-> frame_idx, pts |-> frame_idx * FrameNs, key |-> key]
  <2>2. frame_idx * FrameNs \in Nat BY <1>0, BoundsAssumption DEF BoundsAssumption
  <2>3. p \in VideoPacket /\ p.id = frame_idx BY <1>0, <2>2 DEF VideoPacket
  <2>4. in_flight' = Append(in_flight, p) BY <2>1
  <2>5. /\ UNCHANGED <<vheld, vsent>> /\ vheld = <<>> /\ Len(in_flight) < EncoderDepth /\ ~Leaving
        /\ frame_idx' = frame_idx + 1
    BY <1>2 DEF VideoSubmit, VideoInLoop, Leaving
  <2> HIDE DEF p
  <2> QED BY <2>3, <2>4, <2>5 DEF EncoderMove
<1>3. CASE VideoFlushCut \/ VideoNoRoom
  <2>1. UNCHANGED <<frame_idx, vsent>> /\ Leaving' /\ vheld' = <<>>
    BY <1>3 DEF VideoFlushCut, VideoNoRoom, Leaving
  <2>2. in_flight' = <<>> \/ in_flight' \in Suffixes(in_flight) BY <1>3 DEF VideoFlushCut, VideoNoRoom
  <2>3. Rest(in_flight, in_flight') BY <1>0, <2>2, RestCases
  <2> QED BY <2>1, <2>3 DEF EncoderMove
<1>4. CASE VideoRoute \/ VideoFlushRoute
  <2>1. /\ UNCHANGED frame_idx /\ in_flight # <<>> /\ vheld = <<>>
        /\ \/ /\ vheld' = <<Head(in_flight)>> /\ in_flight' = Tail(in_flight) /\ UNCHANGED <<vpc, vsent>>
           \/ /\ vsent' = Append(vsent, Head(in_flight).id) /\ in_flight' = Tail(in_flight)
              /\ UNCHANGED <<vpc, vheld>>
           \/ /\ in_flight' = Tail(in_flight) \/ in_flight' \in Suffixes(Tail(in_flight))
              /\ UNCHANGED <<vsent, vheld>> /\ Leaving'
    BY <1>4 DEF VideoRoute, VideoFlushRoute, VideoRouteStep, Leaving
  <2>2. CASE /\ in_flight' = Tail(in_flight) \/ in_flight' \in Suffixes(Tail(in_flight))
             /\ UNCHANGED <<vsent, vheld>> /\ Leaving'
    <3>1. Rest(in_flight, in_flight') BY <1>0, <2>1, <2>2, RestCases
    <3> QED BY <2>1, <2>2, <3>1 DEF EncoderMove
  <2> QED BY <2>1, <2>2 DEF EncoderMove
<1>5. CASE VideoPush BY <1>5 DEF VideoPush, EncoderMove
<1> QED BY <1>1, <1>2, <1>3, <1>4, <1>5 DEF VideoNext

LEMMA EncoderStep == ASSUME TypeOK, TypeOK', EncoderInv, EncoderMove PROVE EncoderInv'
<1> DEFINE L == Len(in_flight)
           V == Len(vheld)
<1>1. /\ in_flight \in Seq(VideoPacket) /\ vheld \in Seq(VideoPacket) /\ frame_idx \in Nat
      /\ L \in Nat /\ V \in Nat /\ vsent \in Seq(Nat) /\ EncoderDepth \in Nat
      /\ \A j \in 1 .. L : in_flight[j] \in VideoPacket /\ in_flight[j].id \in Nat
      /\ vheld # <<>> => vheld[1] \in VideoPacket /\ vheld[1].id \in Nat
  <2>1. in_flight \in Seq(VideoPacket) /\ vheld \in Seq(VideoPacket) /\ frame_idx \in Nat /\ vsent \in Seq(Nat)
    BY DEF TypeOK, VideoType
  <2>2. \A x \in VideoPacket : x.id \in Nat BY DEF VideoPacket
  <2> QED BY <2>1, <2>2, LenProperties, ElementOfSeq, ShrinkType, BoundsAssumption DEF BoundsAssumption
<1>2. /\ Oldest = frame_idx - L - V /\ Oldest \in Int
      /\ SentOf("video") = Elements(vsent) /\ SentOf("video")' = Elements(vsent') /\ Elements(vsent) \subseteq Nat
      /\ Oldest' = frame_idx' - Len(in_flight') - Len(vheld')
  BY <1>1 DEF Oldest, SentOf, Sent, Elements
<1>3. /\ L + V <= EncoderDepth
      /\ \A j \in 1 .. L : in_flight[j].id = Oldest + V + j - 1
      /\ vheld # <<>> => V = 1 /\ vheld[1].id = Oldest
      /\ \A m \in Elements(vsent) : m < Oldest
      /\ \A n \in 0 .. frame_idx - 1 :
           n < Oldest => n \in Elements(vsent) \/ (Leaving /\ n + EncoderDepth >= frame_idx)
  BY <1>2 DEF EncoderInv
<1>4. vheld = <<>> => V = 0 OBVIOUS
<1>5. in_flight # <<>> =>
        /\ Head(in_flight) = in_flight[1] /\ L >= 1 /\ Len(Tail(in_flight)) = L - 1
        /\ Tail(in_flight) \in Seq(VideoPacket)
        /\ \A j \in 1 .. L - 1 : Tail(in_flight)[j] = in_flight[j + 1]
  BY <1>1, HeadTailProperties, EmptySeq
<1> HIDE DEF L, V
<1>6. CASE UNCHANGED <<frame_idx, in_flight, vheld, vsent>> /\ (Leaving => Leaving')
  BY <1>6 DEF EncoderInv, Oldest, SentOf, Sent
<1>7. CASE /\ UNCHANGED <<vheld, vsent>> /\ vheld = <<>> /\ L < EncoderDepth /\ ~Leaving
           /\ frame_idx' = frame_idx + 1
           /\ \E p \in VideoPacket : p.id = frame_idx /\ in_flight' = Append(in_flight, p)
  <2>1. PICK p \in VideoPacket : p.id = frame_idx /\ in_flight' = Append(in_flight, p) BY <1>7
  <2>2. /\ Len(in_flight') = L + 1 /\ in_flight'[L + 1] = p
        /\ \A j \in 1 .. L : in_flight'[j] = in_flight[j]
    BY <1>1, <2>1, AppendProperties DEF L
  <2>3. Len(vheld') = 0 /\ V = 0 BY <1>4, <1>7
  <2>4. Oldest' = Oldest BY <1>1, <1>2, <1>7, <2>2, <2>3
  <2>5. ASSUME NEW j \in 1 .. Len(in_flight') PROVE in_flight'[j].id = Oldest' + Len(vheld') + j - 1
    <3>1. CASE j \in 1 .. L BY <1>1, <1>2, <1>3, <2>2, <2>3, <2>4, <3>1
    <3>2. CASE j = L + 1 BY <1>1, <1>2, <2>1, <2>2, <2>3, <2>4, <3>2
    <3> QED BY <1>1, <2>2, <3>1, <3>2
  <2>6. \A n \in 0 .. frame_idx' - 1 : n < Oldest' => n \in SentOf("video")'
    <3> SUFFICES ASSUME NEW n \in 0 .. frame_idx, n < Oldest PROVE n \in Elements(vsent)
      BY <1>1, <1>2, <1>7, <2>4
    <3>1. n \in 0 .. frame_idx - 1 BY <1>1, <1>2
    <3> QED BY <1>3, <1>7, <3>1
  <2>7. \A m \in SentOf("video")' : m < Oldest' BY <1>2, <1>3, <1>7, <2>4
  <2>8. Len(in_flight') + Len(vheld') <= EncoderDepth BY <1>1, <1>7, <2>2, <2>3
  <2> QED BY <1>7, <2>5, <2>6, <2>7, <2>8 DEF EncoderInv
<1>8. CASE UNCHANGED <<frame_idx, vsent>> /\ Leaving' /\ vheld' = <<>> /\ Rest(in_flight, in_flight')
  <2>1. /\ Len(in_flight') \in Nat /\ Len(in_flight') <= L /\ Len(vheld') = 0
        /\ \A j \in 1 .. Len(in_flight') : in_flight'[j] = in_flight[j + (L - Len(in_flight'))]
    <3>1. Len(in_flight') \in Nat BY LenProperties DEF TypeOK, VideoType
    <3> QED BY <1>8, <3>1 DEF Rest, L
  <2>2. Oldest' = frame_idx - Len(in_flight') BY <1>1, <1>2, <1>8, <2>1
  <2>3. ASSUME NEW j \in 1 .. Len(in_flight') PROVE in_flight'[j].id = Oldest' + Len(vheld') + j - 1
    <3>1. j + (L - Len(in_flight')) \in 1 .. L BY <1>1, <2>1
    <3>2. in_flight'[j].id = Oldest + V + (j + (L - Len(in_flight'))) - 1 BY <1>3, <2>1, <3>1
    <3>3. Oldest + V = frame_idx - L BY <1>1, <1>2
    <3>4. /\ L \in Nat /\ frame_idx \in Nat /\ Len(in_flight') \in Nat /\ Len(vheld') = 0
          /\ j \in Nat /\ Oldest \in Int /\ V \in Nat
      BY <1>1, <1>2, <2>1
    <3> QED BY <2>2, <3>2, <3>3, <3>4
  <2>4. Oldest <= Oldest' BY <1>1, <1>2, <2>1, <2>2
  <2>5. \A n \in 0 .. frame_idx' - 1 :
          n < Oldest' => n \in SentOf("video")' \/ (Leaving' /\ n + EncoderDepth >= frame_idx')
    <3> SUFFICES ASSUME NEW n \in 0 .. frame_idx - 1, ~(n + EncoderDepth >= frame_idx) PROVE n \in Elements(vsent)
      BY <1>2, <1>8
    <3>1. n < Oldest BY <1>1, <1>2, <1>3
    <3> QED BY <1>3, <3>1
  <2>6. \A m \in SentOf("video")' : m < Oldest' BY <1>1, <1>2, <1>3, <1>8, <2>2, <2>4
  <2>7. Len(in_flight') + Len(vheld') <= EncoderDepth BY <1>1, <1>3, <2>1
  <2> QED BY <1>8, <2>3, <2>5, <2>6, <2>7 DEF EncoderInv
<1>9. CASE /\ UNCHANGED <<frame_idx, vsent, vpc>> /\ vheld = <<>>
           /\ in_flight # <<>> /\ vheld' = <<Head(in_flight)>> /\ in_flight' = Tail(in_flight)
  <2>1. Len(vheld') = 1 /\ vheld'[1] = in_flight[1] /\ V = 0 /\ Len(in_flight') = L - 1 BY <1>4, <1>5, <1>9
  <2>2. Oldest' = Oldest
    <3>1. Oldest' = frame_idx - (L - 1) - 1 BY <1>2, <1>9, <2>1
    <3>2. Oldest = frame_idx - L - 0 BY <1>2, <2>1
    <3> QED BY <1>1, <3>1, <3>2
  <2>3. in_flight[1].id = Oldest BY <1>1, <1>2, <1>3, <1>5, <1>9, <2>1
  <2>4. ASSUME NEW j \in 1 .. Len(in_flight') PROVE in_flight'[j].id = Oldest' + Len(vheld') + j - 1
    <3>1. j + 1 \in 1 .. L /\ in_flight'[j] = in_flight[j + 1] BY <1>1, <1>5, <1>9, <2>1
    <3>2. in_flight'[j].id = Oldest + 0 + (j + 1) - 1 BY <1>3, <2>1, <3>1
    <3> QED BY <1>2, <2>1, <2>2, <3>2
  <2>5. /\ \A m \in SentOf("video")' : m < Oldest'
        /\ \A n \in 0 .. frame_idx' - 1 :
             n < Oldest' => n \in SentOf("video")' \/ (Leaving' /\ n + EncoderDepth >= frame_idx')
    BY <1>2, <1>3, <1>9, <2>2 DEF Leaving
  <2>6. Len(in_flight') + Len(vheld') <= EncoderDepth BY <1>1, <1>3, <1>5, <1>9, <2>1
  <2> QED BY <2>1, <2>2, <2>3, <2>4, <2>5, <2>6 DEF EncoderInv
<1>10. ASSUME NEW x \in Nat, x = Oldest, vsent' = Append(vsent, x), UNCHANGED <<frame_idx, vpc>>, Oldest' = Oldest + 1
       PROVE  /\ \A m \in SentOf("video")' : m < Oldest'
              /\ \A n \in 0 .. frame_idx' - 1 :
                   n < Oldest' => n \in SentOf("video")' \/ (Leaving' /\ n + EncoderDepth >= frame_idx')
  <2>1. Elements(vsent') = Elements(vsent) \cup {x} BY <1>1, <1>10, ElementsGrow
  <2>2. \A m \in Elements(vsent') : m < Oldest + 1 BY <1>2, <1>3, <1>10, <2>1
  <2>3. ASSUME NEW n \in 0 .. frame_idx - 1, n < Oldest + 1
        PROVE  n \in Elements(vsent') \/ (Leaving /\ n + EncoderDepth >= frame_idx)
    <3>1. CASE n = x BY <2>1, <3>1
    <3>2. CASE n # x
      <4>1. n < Oldest BY <1>1, <1>10, <2>3, <3>2
      <4> QED BY <1>3, <2>1, <4>1
    <3> QED BY <3>1, <3>2
  <2> QED BY <1>2, <1>10, <2>2, <2>3 DEF Leaving
<1>11. CASE /\ UNCHANGED <<frame_idx, vheld, vpc>> /\ vheld = <<>>
            /\ in_flight # <<>> /\ vsent' = Append(vsent, Head(in_flight).id) /\ in_flight' = Tail(in_flight)
  <2>1. Len(vheld') = 0 /\ V = 0 /\ Len(in_flight') = L - 1 BY <1>4, <1>5, <1>11
  <2>2. Oldest' = Oldest + 1
    <3>1. Oldest' = frame_idx - (L - 1) - 0 BY <1>2, <1>11, <2>1
    <3>2. Oldest = frame_idx - L - 0 BY <1>2, <2>1
    <3> QED BY <1>1, <3>1, <3>2
  <2>3. in_flight[1].id = Oldest /\ in_flight[1].id \in Nat BY <1>1, <1>2, <1>3, <1>5, <1>11, <2>1
  <2>4. ASSUME NEW j \in 1 .. Len(in_flight') PROVE in_flight'[j].id = Oldest' + Len(vheld') + j - 1
    <3>1. j + 1 \in 1 .. L /\ in_flight'[j] = in_flight[j + 1] BY <1>1, <1>5, <1>11, <2>1
    <3>2. in_flight'[j].id = Oldest + 0 + (j + 1) - 1 BY <1>3, <2>1, <3>1
    <3> QED BY <1>2, <2>1, <2>2, <3>2
  <2>5. /\ \A m \in SentOf("video")' : m < Oldest'
        /\ \A n \in 0 .. frame_idx' - 1 :
             n < Oldest' => n \in SentOf("video")' \/ (Leaving' /\ n + EncoderDepth >= frame_idx')
    BY <1>5, <1>10, <1>11, <2>2, <2>3
  <2>6. Len(in_flight') + Len(vheld') <= EncoderDepth BY <1>1, <1>3, <1>5, <1>11, <2>1
  <2> QED BY <1>11, <2>4, <2>5, <2>6 DEF EncoderInv
<1>12. CASE /\ UNCHANGED <<frame_idx, in_flight, vpc>> /\ vheld # <<>> /\ vheld' = <<>>
            /\ vsent' = Append(vsent, vheld[1].id)
  <2>1. Len(vheld') = 0 /\ V = 1 /\ vheld[1].id = Oldest /\ vheld[1].id \in Nat BY <1>1, <1>3, <1>12
  <2>2. Len(in_flight') = L BY <1>12 DEF L
  <2>3. Oldest' = Oldest + 1 BY <1>1, <1>2, <1>12, <2>1, <2>2
  <2>4. ASSUME NEW j \in 1 .. Len(in_flight') PROVE in_flight'[j].id = Oldest' + Len(vheld') + j - 1
    BY <1>2, <1>3, <1>12, <2>1, <2>2, <2>3
  <2>5. /\ \A m \in SentOf("video")' : m < Oldest'
        /\ \A n \in 0 .. frame_idx' - 1 :
             n < Oldest' => n \in SentOf("video")' \/ (Leaving' /\ n + EncoderDepth >= frame_idx')
    BY <1>10, <1>12, <2>1, <2>3
  <2>6. Len(in_flight') + Len(vheld') <= EncoderDepth BY <1>1, <1>3, <2>1, <2>2
  <2> QED BY <1>12, <2>4, <2>5, <2>6 DEF EncoderInv
<1> QED BY <1>6, <1>7, <1>8, <1>9, <1>11, <1>12 DEF EncoderMove, L

LEMMA NextEncoder == TypeOK /\ EncoderInv /\ [Next]_vars => EncoderInv'
<1> SUFFICES ASSUME TypeOK, EncoderInv, [Next]_vars PROVE EncoderInv' OBVIOUS
<1>1. CASE VideoNext BY <1>1, NextType, EncoderMoves, EncoderStep
<1>2. CASE ~VideoNext
  <2>1. UNCHANGED <<video, vsent>>
    <3>1. ASSUME NEW t \in Tracks, AudioNext(t) PROVE UNCHANGED <<video, vsent>>
      BY <3>1, AudioEffects DEF AudioEffect, AudioFrame
    <3>2. CASE MuxNext
      BY <3>2 DEF MuxNext, MuxCheckHeaders, MuxBlock, MuxOpenFirst, MuxPremuxVideo, MuxPremuxAudio, MuxPremuxDone,
         MuxDrainHeld, MuxTop, MuxPopVideo, MuxPopAudio, MuxPopVideoEos, MuxPopAudioEos, MuxPopSplit,
         MuxQueueEmpty, MuxFinish, MuxPop, MuxFrame
    <3>3. NotifyWaiters \/ CallerStop \/ RequestSplit \/ UNCHANGED vars => UNCHANGED <<video, vsent>>
      BY DEF NotifyWaiters, CallerStop, RequestSplit, vars
    <3> QED BY <1>2, <3>1, <3>2, <3>3 DEF Next, Terminated
  <2> QED BY <2>1 DEF EncoderInv, Oldest, Leaving, SentOf, Sent
<1> QED BY <1>1, <1>2

LEMMA InitEncoder == Init => EncoderInv
<1> SUFFICES ASSUME Init PROVE EncoderInv OBVIOUS
<1>1. frame_idx = 0 /\ in_flight = <<>> /\ vheld = <<>> /\ vsent = <<>> BY DEF Init
<1>2. SentOf("video") = {} BY <1>1, IdsEmpty DEF SentOf, Sent
<1>3. Len(<<>>) = 0 /\ EncoderDepth \in Nat BY BoundsAssumption DEF BoundsAssumption
<1> QED BY <1>1, <1>2, <1>3 DEF EncoderInv, Oldest

-----------------------------------------------------------------------------
(* The streams on disk are in order, and video has no gap inside a file *)

\* Frame n is in file k.
InFile(ws, k, n) == \E i \in 1 .. Len(ws) : ws[i].track = "video" /\ ws[i].seg = k /\ ws[i].id = n

\* A file was never opened and never will be: the open file and the boundaries
\* to come have higher numbers.
Hole ==
  \E n \in 0 .. current_segment_index :
    /\ ~Reported(reports, n) /\ Between(mux_queue, n, current_segment_index)
    /\ seg.writer = "open" => n < seg.index

\* Frames get lost only where there is no file to write to (or after a write
\* error, which writes nothing more), and the file written next is behind them.
GapInv ==
  /\ mpc \in {"check", "blocking", "blocked", "open"} => GoneOf("video") = {}
  /\ ~write_error /\ seg.writer = "none" /\ mpc \in Writing => Hole
  /\ ~write_error /\ GoneOf("video") # {} => Hole
  /\ ~write_error /\ seg.writer = "open" =>
       \A m \in GoneOf("video"), n \in Nat : InFile(written, seg.index, n) => m < n
  /\ \A m \in GoneOf("video"), k, n \in Nat : InFile(written, k, n) /\ m < n =>
       FileMissing(k) /\ \A l \in Nat : InFile(written, k, l) => m < l

LEMMA MissingReported == ASSUME NEW k PROVE FileMissing(k) <=> \E m \in 0 .. k - 1 : ~Reported(reports, m)
BY DEF FileMissing, Reported

LEMMA InFileGrow ==
  ASSUME NEW ws \in Seq(WrittenPacket), NEW x \in WrittenPacket
  PROVE  /\ x.track = "video" =>
              \A k, n \in Nat : InFile(Append(ws, x), k, n) <=> InFile(ws, k, n) \/ (k = x.seg /\ n = x.id)
         /\ x.track # "video" => \A k, n \in Nat : InFile(Append(ws, x), k, n) <=> InFile(ws, k, n)
<1> DEFINE t == Append(ws, x)
<1>1. /\ Len(ws) \in Nat /\ Len(t) = Len(ws) + 1 /\ t[Len(ws) + 1] = x
      /\ \A i \in 1 .. Len(ws) : t[i] = ws[i]
  BY AppendProperties, LenProperties
<1> HIDE DEF t
<1>2. \A i \in 1 .. Len(t) : i \in 1 .. Len(ws) \/ i = Len(ws) + 1 BY <1>1
<1>3. \A i \in 1 .. Len(ws) : i \in 1 .. Len(t) BY <1>1
<1>4. Len(ws) + 1 \in 1 .. Len(t) BY <1>1
<1>5. x.track = "video" => \A k, n \in Nat : InFile(t, k, n) <=> InFile(ws, k, n) \/ (k = x.seg /\ n = x.id)
  BY <1>1, <1>2, <1>3, <1>4 DEF InFile
<1>6. x.track # "video" => \A k, n \in Nat : InFile(t, k, n) <=> InFile(ws, k, n)
  BY <1>1, <1>2, <1>3, <1>4 DEF InFile
<1> QED BY <1>5, <1>6 DEF t

\* Nothing is in a file behind the current one.
LEMMA FilesSoFar ==
  ASSUME TypeOK, FilesInv, NEW k \in Nat, NEW n \in Nat, InFile(written, k, n)
  PROVE  k <= seg.index /\ n \in DiskOf("video")
<1>1. PICK i \in 1 .. Len(written) : written[i].track = "video" /\ written[i].seg = k /\ written[i].id = n BY DEF InFile
<1>2. n \in DiskOf("video") BY <1>1 DEF DiskOf, DiskIds
<1>3. (seg.writer = "open" /\ k = seg.index) \/ Reported(reports, k) BY <1>1 DEF FilesInv, FileInv
<1>4. UpTo(reports, seg.index) /\ seg.index \in Nat BY DEF FilesInv, NumberInv, TypeOK, MuxType, SegmentState
<1>5. Reported(reports, k) => k <= seg.index BY <1>4 DEF Reported, UpTo
<1> QED BY <1>2, <1>3, <1>4, <1>5

\* A report names the open file, so a missing file before it stays missing.
LEMMA ReportMissing ==
  ASSUME TypeOK, NEW ok \in BOOLEAN, NEW last \in BOOLEAN, Report(ok, last), NEW n, ~Reported(reports, n),
         seg.writer = "open" => n # seg.index
  PROVE  ~Reported(reports', n)
<1>1. reports \in Seq(SegmentReport) /\ seg.index \in Nat /\ seg.writer \in {"none", "open"}
  BY DEF TypeOK, MuxType, SegmentState
<1>2. CASE seg.writer = "none" BY <1>2 DEF Report
<1>3. CASE seg.writer = "open"
  <2> DEFINE x == [index |-> seg.index, succeeded |-> ok, session_end |-> last]
  <2>1. x \in SegmentReport /\ x.index = seg.index BY <1>1 DEF SegmentReport
  <2>2. reports' = Append(reports, x) BY <1>3 DEF Report
  <2> HIDE DEF x
  <2>3. /\ Len(reports) \in Nat /\ Len(reports') = Len(reports) + 1 /\ reports'[Len(reports) + 1] = x
        /\ \A i \in 1 .. Len(reports) : reports'[i] = reports[i]
    BY <1>1, <2>1, <2>2, AppendProperties, LenProperties
  <2>4. \A i \in 1 .. Len(reports') : i \in 1 .. Len(reports) \/ i = Len(reports) + 1 BY <2>3
  <2> QED BY <1>3, <2>1, <2>3, <2>4 DEF Reported
<1> QED BY <1>1, <1>2, <1>3

LEMMA HoleOutside == ASSUME TypeOK, NumberInv, OutsideMux, Hole PROVE Hole'
<1>1. PICK n \in 0 .. current_segment_index :
        /\ ~Reported(reports, n) /\ Between(mux_queue, n, current_segment_index)
        /\ seg.writer = "open" => n < seg.index
  BY DEF Hole
<1>2. mux_queue \in Seq(MuxItem) /\ current_segment_index \in Nat /\ n \in Nat /\ n <= current_segment_index
  BY DEF TypeOK, BufferType, VideoType
<1>3. UNCHANGED <<seg, reports>> BY DEF OutsideMux
<1>4. n \in 0 .. current_segment_index' /\ Between(mux_queue', n, current_segment_index')
  <2>1. CASE UNCHANGED <<mux_queue, current_segment_index>> BY <1>1, <2>1
  <2>2. ASSUME NEW e \in MuxItem, e.kind # "split", mux_queue' = Append(mux_queue, e), UNCHANGED current_segment_index
        PROVE  n \in 0 .. current_segment_index' /\ Between(mux_queue', n, current_segment_index')
    BY <1>1, <1>2, <2>2, SplitGrow
  <2>3. ASSUME NEW p \in VideoPacket, p.key, current_segment_index' = current_segment_index + 1,
               mux_queue' = mux_queue \o <<Boundary(current_segment_index + 1), p>>
        PROVE  n \in 0 .. current_segment_index' /\ Between(mux_queue', n, current_segment_index')
    <3>1. p \in MuxItem /\ p.kind = "video" BY DEF MuxItem, VideoPacket
    <3>2. Between(mux_queue', n, current_segment_index') BY <1>1, <1>2, <2>3, <3>1, SplitTwo DEF NumberInv
    <3> QED BY <1>2, <2>3, <3>2
  <2> QED BY <2>1, <2>2, <2>3 DEF OutsideMux
<1> QED BY <1>1, <1>3, <1>4 DEF Hole

\* A hole stays when the queue shrinks, the open file is reported and a later
\* one is opened.
LEMMA HoleMux ==
  ASSUME TypeOK, Hole, UNCHANGED current_segment_index, UNCHANGED mux_queue \/ Popped,
         UNCHANGED reports \/ \E ok, last \in BOOLEAN : Report(ok, last),
         \/ seg'.writer = "none"
         \/ seg'.writer = "open" /\ seg.writer = "open" /\ seg'.index = seg.index
         \/ Popped /\ Head(mux_queue).kind = "split" /\ seg'.index = Head(mux_queue).index
  PROVE  Hole'
<1>1. PICK n \in 0 .. current_segment_index :
        /\ ~Reported(reports, n) /\ Between(mux_queue, n, current_segment_index)
        /\ seg.writer = "open" => n < seg.index
  BY DEF Hole
<1>2. mux_queue \in Seq(MuxItem) /\ seg.index \in Nat /\ n \in Nat BY DEF TypeOK, BufferType, MuxType, SegmentState
<1>3. ~Reported(reports', n)
  <2>1. CASE UNCHANGED reports BY <1>1, <2>1
  <2>2. ASSUME NEW ok \in BOOLEAN, NEW last \in BOOLEAN, Report(ok, last) PROVE ~Reported(reports', n)
    <3>1. seg.writer = "open" => n # seg.index BY <1>1, <1>2
    <3> QED BY <1>1, <2>2, <3>1, ReportMissing
  <2> QED BY <2>1, <2>2
<1>4. Between(mux_queue', n, current_segment_index)
  <2>1. CASE UNCHANGED mux_queue BY <1>1, <2>1
  <2>2. CASE Popped BY <1>1, <1>2, <2>2, SplitPop DEF Popped
  <2> QED BY <2>1, <2>2
<1>5. seg'.writer = "open" => n < seg'.index
  <2>1. CASE seg.writer = "open" /\ seg'.index = seg.index BY <1>1, <2>1
  <2>2. CASE Popped /\ Head(mux_queue).kind = "split" /\ seg'.index = Head(mux_queue).index
    BY <1>1, <1>2, <2>2, SplitPop DEF Popped
  <2> QED BY <2>1, <2>2
<1> QED BY <1>1, <1>3, <1>4, <1>5 DEF Hole

LEMMA GapOutside ==
  ASSUME TypeOK, FilesInv, GapInv, OutsideMux, GoneOf("video")' = GoneOf("video")
  PROVE  GapInv'
<1>1. /\ UNCHANGED <<seg, reports, written, write_error>> /\ (mpc' = mpc \/ (mpc = "blocked" /\ mpc' = "check"))
  BY DEF OutsideMux
<1>2. Hole => Hole' BY HoleOutside DEF FilesInv
<1>3. \A k : FileMissing(k)' <=> FileMissing(k) BY <1>1 DEF FileMissing
<1>4. mpc' \in {"check", "blocking", "blocked", "open"} => GoneOf("video")' = {} BY <1>1 DEF GapInv
<1>5. ~write_error' /\ seg'.writer = "none" /\ mpc' \in Writing => Hole' BY <1>1, <1>2 DEF GapInv, Writing
<1>6. ~write_error' /\ GoneOf("video")' # {} => Hole' BY <1>1, <1>2 DEF GapInv
<1>7. ~write_error' /\ seg'.writer = "open" =>
        \A m \in GoneOf("video")', n \in Nat : InFile(written', seg'.index, n) => m < n
  BY <1>1 DEF GapInv
<1>8. \A m \in GoneOf("video")', k, n \in Nat : InFile(written', k, n) /\ m < n =>
        FileMissing(k)' /\ \A l \in Nat : InFile(written', k, l) => m < l
  BY <1>1, <1>3 DEF GapInv
<1> QED BY <1>4, <1>5, <1>6, <1>7, <1>8 DEF GapInv

\* A step of MuxThread that moves no frame.
SameVideo ==
  /\ GoneOf("video")' = GoneOf("video")
  /\ \A k, n \in Nat : InFile(written', k, n) <=> InFile(written, k, n)

LEMMA MuxSameVideo ==
  ASSUME TypeOK, OrderInv, MuxNext
  PROVE  SameVideo \/ \E p \in VideoPacket : MuxVideo(p)
<1>0. "video" \in Streams BY DEF Streams
<1>1. /\ UNCHANGED <<vsent, asent>>
      /\ MuxStill \/ (\E p \in VideoPacket : MuxVideo(p)) \/ (\E p \in AudioPacket : MuxAudio(p)) \/ MuxFinish
  BY MuxPaths
<1>2. CASE MuxStill
  <2>1. UNCHANGED <<written, segment_pending_audio>> BY <1>2 DEF MuxStill
  <2>2. HandsNothing BY <1>1, <1>2, StillLine DEF OrderInv
  <2>3. GoneOf("video")' = GoneOf("video") BY <1>0, <2>1, <2>2, ProducerLine DEF OrderInv
  <2> QED BY <2>1, <2>3 DEF SameVideo
<1>3. ASSUME NEW p \in AudioPacket, MuxAudio(p) PROVE SameVideo
  <2>1. p.track \in Streams /\ p.track # "video" BY AudioIs
  <2>2. Takes(p.track, p.id) /\ (UNCHANGED written \/ Stores(p.track, p.id)) BY <1>1, <1>3, AudioTakes
  <2>3. GoneOf("video")' = GoneOf("video") BY <1>0, <2>1, <2>2, TakeLine DEF OrderInv
  <2>4. CASE UNCHANGED written BY <2>3, <2>4 DEF SameVideo
  <2>5. CASE Stores(p.track, p.id)
    <3>1. PICK x \in WrittenPacket : x.track = p.track /\ written' = Append(written, x) BY <2>5 DEF Stores
    <3>2. written \in Seq(WrittenPacket) BY DEF TypeOK, MuxType
    <3>3. \A k, n \in Nat : InFile(Append(written, x), k, n) <=> InFile(written, k, n) BY <2>1, <3>1, <3>2, InFileGrow
    <3> QED BY <2>3, <3>1, <3>3 DEF SameVideo
  <2> QED BY <2>2, <2>4, <2>5
<1>4. CASE MuxFinish
  <2>1. GoneOf("video")' = GoneOf("video") \cup HeldOf("video") BY <1>0, <1>4, FinishLine DEF OrderInv
  <2>2. HeldOf("video") = {} BY HeldIsAudio
  <2>3. UNCHANGED written BY <1>4 DEF MuxFinish
  <2> QED BY <2>1, <2>2, <2>3 DEF SameVideo
<1> QED BY <1>1, <1>2, <1>3, <1>4

LEMMA GapMuxSame ==
  ASSUME TypeOK, FilesInv, GapInv, MuxNext, SameVideo
  PROVE  GapInv'
<1>0. PhaseInv /\ NumberInv /\ FileInv BY DEF FilesInv
<1>1. /\ mux_queue \in Seq(MuxItem) /\ seg \in SegmentState /\ seg.index \in Nat /\ seg.writer \in {"none", "open"}
      /\ current_segment_index \in Nat /\ write_error \in BOOLEAN
  BY DEF TypeOK, BufferType, MuxType, VideoType, SegmentState
<1>2. UNCHANGED current_segment_index
  BY DEF MuxNext, MuxCheckHeaders, MuxBlock, MuxOpenFirst, MuxPremuxVideo, MuxPremuxAudio, MuxPremuxDone,
         MuxDrainHeld, MuxTop, MuxPopVideo, MuxPopAudio, MuxPopVideoEos, MuxPopAudioEos, MuxPopSplit,
         MuxQueueEmpty, MuxFinish, MuxPop, MuxFrame
<1>3. /\ GoneOf("video")' = GoneOf("video")
      /\ \A k, n \in Nat : InFile(written', k, n) <=> InFile(written, k, n)
  BY DEF SameVideo
<1>4. ASSUME UNCHANGED reports \/ \E ok, last \in BOOLEAN : Report(ok, last)
      PROVE  \A m \in GoneOf("video")', k, n \in Nat : InFile(written', k, n) /\ m < n =>
               FileMissing(k)' /\ \A l \in Nat : InFile(written', k, l) => m < l
  <2> SUFFICES ASSUME NEW m \in GoneOf("video"), NEW k \in Nat, NEW n \in Nat, InFile(written, k, n), m < n
               PROVE  FileMissing(k)'
    BY <1>3 DEF GapInv
  <2>1. k <= seg.index BY FilesSoFar
  <2>2. PICK f \in 0 .. k - 1 : ~Reported(reports, f) BY MissingReported DEF GapInv
  <2>3. f # seg.index BY <1>1, <2>1
  <2>4. ~Reported(reports', f)
    <3>1. CASE UNCHANGED reports BY <2>2, <3>1
    <3>2. ASSUME NEW ok \in BOOLEAN, NEW last \in BOOLEAN, Report(ok, last) PROVE ~Reported(reports', f)
      BY <2>2, <2>3, <3>2, ReportMissing
    <3> QED BY <1>4, <3>1, <3>2
  <2> QED BY <2>4 DEF FileMissing, Reported
<1>5. ASSUME UNCHANGED reports, UNCHANGED mux_queue \/ Popped, ~write_error' => ~write_error,
             seg'.writer = seg.writer, seg'.index = seg.index, mpc' \in Writing => mpc \in Writing,
             mpc' \in {"check", "blocking", "blocked", "open"} => mpc \in {"check", "blocking", "blocked", "open"}
      PROVE  GapInv'
  <2>1. Hole => Hole' BY <1>1, <1>2, <1>5, HoleMux
  <2>2. mpc' \in {"check", "blocking", "blocked", "open"} => GoneOf("video")' = {} BY <1>3, <1>5 DEF GapInv
  <2>3. ~write_error' /\ seg'.writer = "none" /\ mpc' \in Writing => Hole' BY <1>5, <2>1 DEF GapInv
  <2>4. ~write_error' /\ GoneOf("video")' # {} => Hole' BY <1>3, <1>5, <2>1 DEF GapInv
  <2>5. ~write_error' /\ seg'.writer = "open" =>
          \A m \in GoneOf("video")', n \in Nat : InFile(written', seg'.index, n) => m < n
    BY <1>1, <1>3, <1>5 DEF GapInv
  <2> QED BY <1>4, <1>5, <2>2, <2>3, <2>4, <2>5 DEF GapInv
<1>6. CASE MuxIdles
  <2>1. /\ UNCHANGED <<seg, reports, write_error>> /\ (UNCHANGED mux_queue \/ Popped)
        /\ mpc' \in Writing => mpc \in Writing
        /\ mpc' \in {"check", "blocking", "blocked", "open"} => mpc \in {"check", "blocking", "blocked", "open"}
    BY <1>6 DEF MuxIdles, Writing
  <2> QED BY <1>5, <2>1
<1>7. CASE MuxPutsAudio \/ MuxPutsVideo
  <2>1. /\ UNCHANGED <<reports, mpc>> /\ ~write_error /\ seg'.writer = seg.writer /\ seg'.index = seg.index
        /\ UNCHANGED mux_queue \/ Popped
    BY <1>7 DEF MuxPutsAudio, MuxPutsVideo, Puts
  <2> QED BY <1>5, <2>1
<1>8. CASE MuxOpens
  <2>1. /\ mpc = "open" /\ mpc' = "premux" /\ seg'.writer = "open" /\ UNCHANGED reports
    BY <1>8 DEF MuxOpens, Opened
  <2>2. GoneOf("video") = {} BY <2>1 DEF GapInv
  <2> QED BY <1>3, <2>1, <2>2 DEF GapInv
<1>9. CASE MuxRolls
  <2> DEFINE n == Head(mux_queue).index
  <2>1. /\ mpc \in {"pop", "final"} /\ UNCHANGED mpc /\ Popped /\ Head(mux_queue).kind = "split" /\ ~write_error
        /\ BeginNewSegment(n)
    BY <1>9 DEF MuxRolls
  <2>2. n \in Nat BY <1>1, <2>1, ShrinkType, ItemKind DEF Popped
  <2>3. seg.index < n /\ n <= current_segment_index /\ Between(mux_queue', n, current_segment_index)
    BY <1>0, <1>1, <2>1, SplitPop DEF NumberInv, Popped
  <2>4. \E ok, last \in BOOLEAN : Report(ok, last) BY <2>1 DEF BeginNewSegment
  <2>5. CASE write_error' BY <1>3, <1>4, <2>1, <2>4, <2>5 DEF GapInv
  <2>6. CASE ~write_error'
    <3> HIDE DEF n
    <3>1. seg'.writer = "none" \/ (seg'.writer = "open" /\ seg'.index = n)
      <4>1. seg' \in {Opened(n), [seg EXCEPT !.writer = "none"], [Opened(n) EXCEPT !.writer = "none"]}
        BY <2>1, <2>6 DEF BeginNewSegment
      <4>2. Opened(n).writer = "open" /\ Opened(n).index = n /\ [Opened(n) EXCEPT !.writer = "none"].writer = "none"
        BY DEF Opened
      <4>3. [seg EXCEPT !.writer = "none"].writer = "none" BY <1>1 DEF SegmentState
      <4> QED BY <4>1, <4>2, <4>3
    <3>2. Hole => Hole' BY <1>2, <2>1, <2>4, <3>1, HoleMux DEF n
    <3>3. seg'.writer = "none" => Hole'
      <4>1. CASE seg.writer = "none" BY <2>1, <3>2, <4>1 DEF GapInv, Writing
      <4>2. CASE seg.writer = "open" /\ seg'.writer = "none"
        <5>1. UpTo(reports, seg.index) BY <1>0 DEF NumberInv
        <5>2. ~Reported(reports, n)
          <6>1. reports \in Seq(SegmentReport) BY DEF TypeOK, MuxType
          <6>2. \A i \in 1 .. Len(reports) : reports[i].index \in Nat BY <6>1, ReportIndex
          <6> QED BY <1>1, <2>2, <2>3, <5>1, <6>2 DEF UpTo, Reported
        <5>3. ~Reported(reports', n) BY <1>1, <2>2, <2>3, <2>4, <5>2, ReportMissing
        <5>4. n \in 0 .. current_segment_index BY <1>1, <2>2, <2>3
        <5> QED BY <1>2, <2>3, <4>2, <5>3, <5>4 DEF Hole
      <4> QED BY <1>1, <4>1, <4>2
    <3>4. ~write_error' /\ GoneOf("video")' # {} => Hole' BY <1>3, <2>1, <3>2 DEF GapInv
    <3>5. seg'.writer = "open" => \A l \in Nat : ~InFile(written', seg'.index, l)
      <4> SUFFICES ASSUME seg'.writer = "open", NEW l \in Nat, InFile(written', seg'.index, l) PROVE FALSE OBVIOUS
      <4>1. seg'.index = n BY <3>1
      <4>2. n <= seg.index BY <1>3, <2>2, <4>1, FilesSoFar
      <4> QED BY <1>1, <2>2, <2>3, <4>2
    <3>6. mpc' \notin {"check", "blocking", "blocked", "open"} BY <2>1
    <3>7. ~write_error' /\ seg'.writer = "open" =>
            \A m \in GoneOf("video")', l \in Nat : InFile(written', seg'.index, l) => m < l
      BY <3>5
    <3> QED BY <1>4, <2>4, <3>3, <3>4, <3>6, <3>7 DEF GapInv
  <2> QED BY <2>5, <2>6
<1>10. CASE MuxEnds
  <2>1. /\ mpc' = "done" /\ (\E ok, last \in BOOLEAN : Report(ok, last)) /\ (~write_error' => ~write_error)
        /\ seg'.writer = "none" /\ UNCHANGED mux_queue
    BY <1>1, <1>10 DEF MuxEnds, SegmentState
  <2>2. Hole => Hole' BY <1>2, <2>1, HoleMux
  <2>3. ~write_error' /\ GoneOf("video")' # {} => Hole' BY <1>3, <2>1, <2>2 DEF GapInv
  <2> QED BY <1>4, <2>1, <2>3 DEF GapInv, Writing
<1> QED BY <1>6, <1>7, <1>8, <1>9, <1>10, MuxSteps

LEMMA GapMuxVideo ==
  ASSUME TypeOK, OrderInv, FilesInv, GapInv, MuxNext, NEW p \in VideoPacket, MuxVideo(p)
  PROVE  GapInv'
<1>0. "video" \in Streams /\ p.id \in Nat BY VideoIs DEF Streams
<1>1. UNCHANGED <<vsent, asent>> BY MuxPaths
<1>2. Takes("video", p.id) /\ (UNCHANGED written \/ Stores("video", p.id)) BY <1>1, VideoTakes
<1>3. Stores("video", p.id) => DiskOf("video")' = DiskOf("video") \cup {p.id}
  <2>1. ASSUME Stores("video", p.id) PROVE DiskOf("video")' = DiskOf("video") \cup {p.id} BY <1>0, <2>1, DiskAfter
  <2> QED BY <2>1
<1>4. /\ Lt(DiskOf("video"), {p.id}) /\ p.id \in PreOf("video") \cup QueueOf("video")
      /\ Loses(GoneOf("video"), GoneOf("video")', p.id, DiskOf("video")', HeldOf("video")')
  <2>1. /\ Lt(DiskOf("video"), {p.id})
        /\ Loses(GoneOf("video"), GoneOf("video")', p.id, DiskOf("video")', HeldOf("video")')
    BY <1>0, <1>2, TakeLine DEF OrderInv
  <2>2. HeldOf("video") = {} BY HeldIsAudio
  <2>3. p.id \in PreOf("video") \cup QueueOf("video") BY <1>2, <2>2 DEF Takes, Took
  <2> QED BY <2>1, <2>3
<1>5. \A m \in GoneOf("video") : m < p.id
  <2>1. Lt(GoneOf("video"), PreOf("video") \cup QueueOf("video")) BY <1>0 DEF OrderInv, LineInv, Line, GoneOf
  <2> QED BY <1>4, <2>1 DEF Lt
<1>6. /\ UNCHANGED <<reports, mpc>> /\ mpc \in Writing /\ seg'.writer = seg.writer /\ seg'.index = seg.index
      /\ ~write_error' => ~write_error
      /\ UNCHANGED mux_queue \/ Popped
  BY DEF MuxVideo, Writing, Popped, Stores, WriteFails
<1>7. UNCHANGED current_segment_index
  BY DEF MuxNext, MuxCheckHeaders, MuxBlock, MuxOpenFirst, MuxPremuxVideo, MuxPremuxAudio, MuxPremuxDone,
         MuxDrainHeld, MuxTop, MuxPopVideo, MuxPopAudio, MuxPopVideoEos, MuxPopAudioEos, MuxPopSplit,
         MuxQueueEmpty, MuxFinish, MuxPop, MuxFrame
<1>8. seg.writer \in {"none", "open"} /\ seg.index \in Nat BY DEF TypeOK, MuxType, SegmentState
<1>9. Hole => Hole' BY <1>6, <1>7, <1>8, HoleMux
<1>10. ~write_error' /\ seg'.writer = "none" /\ mpc' \in Writing => Hole' BY <1>6, <1>9 DEF GapInv
<1>11. \A k : FileMissing(k)' <=> FileMissing(k) BY <1>6 DEF FileMissing
<1>12. mpc' \notin {"check", "blocking", "blocked", "open"} BY <1>6 DEF Writing
<1>13. CASE UNCHANGED written
  <2>1. GoneOf("video")' \subseteq GoneOf("video") \cup {p.id} BY <1>4 DEF Loses
  <2>2. ~write_error' => seg.writer = "none"
    <3>1. ~Stores("video", p.id)
      <4>1. Stores("video", p.id) => p.id \in DiskOf("video")' BY <1>3
      <4>2. DiskOf("video")' = DiskOf("video") BY <1>13 DEF DiskOf
      <4>3. p.id \notin DiskOf("video") BY <1>0, <1>4 DEF Lt
      <4> QED BY <4>1, <4>2, <4>3
    <3> QED BY <1>6, <3>1 DEF MuxVideo, WriteFails
  <2>3. ~write_error' /\ GoneOf("video")' # {} => Hole' BY <1>6, <1>9, <2>2 DEF GapInv
  <2>4. ~write_error' /\ seg'.writer = "open" =>
          \A m \in GoneOf("video")', n \in Nat : InFile(written', seg'.index, n) => m < n
    BY <1>6, <2>2
  <2>5. \A m \in GoneOf("video")', k, n \in Nat : InFile(written', k, n) /\ m < n =>
          FileMissing(k)' /\ \A l \in Nat : InFile(written', k, l) => m < l
    <3> SUFFICES ASSUME NEW m \in GoneOf("video")', NEW k \in Nat, NEW n \in Nat, InFile(written, k, n), m < n
                 PROVE  FileMissing(k) /\ \A l \in Nat : InFile(written, k, l) => m < l
      BY <1>11, <1>13
    <3>1. n < p.id BY <1>4, FilesSoFar DEF Lt
    <3>2. m # p.id BY <1>0, <3>1
    <3>3. m \in GoneOf("video") BY <2>1, <3>2
    <3> QED BY <3>3 DEF GapInv
  <2> QED BY <1>10, <1>12, <2>3, <2>4, <2>5 DEF GapInv
<1>14. CASE Stores("video", p.id)
  <2>1. GoneOf("video")' = GoneOf("video")
    <3>1. p.id \in DiskOf("video")' BY <1>14, <1>3
    <3> QED BY <1>4, <3>1 DEF Loses
  <2>2. PICK x \in WrittenPacket : x.track = "video" /\ x.id = p.id /\ x.seg = seg.index /\ written' = Append(written, x)
    BY <1>14 DEF Stores
  <2>3. written \in Seq(WrittenPacket) BY DEF TypeOK, MuxType
  <2>4. \A k, n \in Nat : InFile(Append(written, x), k, n) <=> InFile(written, k, n) \/ (k = x.seg /\ n = x.id)
    BY <2>2, <2>3, InFileGrow
  <2>5. \A k, n \in Nat : InFile(written', k, n) <=> InFile(written, k, n) \/ (k = seg.index /\ n = p.id)
    BY <2>2, <2>4
  <2>6. ~write_error /\ ~write_error' /\ seg.writer = "open"
    <3>1. written' # written
      <4>1. p.id \in DiskOf("video")' BY <1>14, <1>3
      <4>2. p.id \notin DiskOf("video") BY <1>0, <1>4 DEF Lt
      <4> QED BY <4>1, <4>2 DEF DiskOf
    <3> QED BY <1>14, <3>1 DEF MuxVideo, Stores
  <2>7. GoneOf("video")' # {} => Hole' BY <1>9, <2>1, <2>6 DEF GapInv
  <2>8. \A m \in GoneOf("video")', n \in Nat : InFile(written', seg'.index, n) => m < n
    BY <1>5, <1>6, <1>8, <2>1, <2>5, <2>6 DEF GapInv
  <2>9. GoneOf("video") # {} => FileMissing(seg.index)
    <3> SUFFICES ASSUME GoneOf("video") # {} PROVE FileMissing(seg.index) OBVIOUS
    <3>1. PICK f \in 0 .. current_segment_index : ~Reported(reports, f) /\ f < seg.index BY <2>6 DEF GapInv, Hole
    <3>2. f \in 0 .. seg.index - 1 BY <1>8, <3>1
    <3> QED BY <3>1, <3>2, MissingReported
  <2>10. \A m \in GoneOf("video")', k, n \in Nat : InFile(written', k, n) /\ m < n =>
          FileMissing(k)' /\ \A l \in Nat : InFile(written', k, l) => m < l
    <3> SUFFICES ASSUME NEW m \in GoneOf("video"), NEW k \in Nat, NEW n \in Nat, InFile(written', k, n), m < n
                 PROVE  FileMissing(k) /\ \A l \in Nat : InFile(written', k, l) => m < l
      BY <1>11, <2>1
    <3>1. CASE k = seg.index BY <1>6, <2>1, <2>8, <2>9, <3>1
    <3>2. CASE k # seg.index BY <2>5, <3>2 DEF GapInv
    <3> QED BY <3>1, <3>2
  <2> QED BY <1>10, <1>12, <2>7, <2>8, <2>10 DEF GapInv
<1> QED BY <1>2, <1>13, <1>14

LEMMA NextGap == TypeOK /\ OrderInv /\ FilesInv /\ GapInv /\ [Next]_vars => GapInv'
<1> SUFFICES ASSUME TypeOK, OrderInv, FilesInv, GapInv, [Next]_vars PROVE GapInv' OBVIOUS
<1>1. CASE MuxNext BY <1>1, MuxSameVideo, GapMuxSame, GapMuxVideo
<1>2. CASE ~MuxNext
  <2>1. OutsideMux BY <1>2, VideoOutside, AudioOutside, OtherOutside DEF Next, Terminated
  <2>2. "video" \in Streams BY DEF Streams
  <2>3. GoneOf("video")' = GoneOf("video") BY <1>2, <2>2, OutsideOrder DEF Next, Terminated
  <2> QED BY <2>1, <2>3, GapOutside
<1> QED BY <1>1, <1>2

LEMMA OrderGivesInOrder == ASSUME TypeOK, OrderInv PROVE InOrder
<1>1. \A s \in Streams : \A k, l \in 1 .. Len(Sent(s)) : k < l => Sent(s)[k] < Sent(s)[l]
  BY DEF OrderInv, SortInv, Rising
<1>2. \A i, j \in 1 .. Len(written) : i < j /\ written[i].track = written[j].track => written[i].id < written[j].id
  BY DEF OrderInv, SortInv, DiskSorted
<1>3. ASSUME NEW i \in 1 .. Len(written)
      PROVE  \E k \in 1 .. Len(Sent(written[i].track)) : Sent(written[i].track)[k] = written[i].id
  <2>1. written[i] \in WrittenPacket BY ElementOfSeq DEF TypeOK, MuxType
  <2>2. written[i].track \in Streams /\ written[i].id \in Nat BY <2>1 DEF WrittenPacket, Streams
  <2>3. written[i].id \in DiskOf(written[i].track) BY <2>2 DEF DiskOf, DiskIds
  <2>4. written[i].id \in SentOf(written[i].track) BY <2>2, <2>3 DEF OrderInv, LineInv, Line
  <2> QED BY <2>4 DEF SentOf, Elements
<1> QED BY <1>1, <1>2, <1>3 DEF InOrder

LEMMA GapGivesGapless == ASSUME TypeOK, OrderInv, GapInv, EncoderInv PROVE VideoGapless
<1> SUFFICES ASSUME NEW i \in 1 .. Len(written), NEW n \in 0 .. frame_idx - 1,
                    written[i].track = "video", n < written[i].id, ~OnDisk("video", n), ~DroppedAtStop(n)
             PROVE  /\ FileMissing(written[i].seg)
                    /\ \A j \in 1 .. Len(written) :
                         written[j].track = "video" /\ written[j].seg = written[i].seg => n < written[j].id
  BY DEF VideoGapless
<1>1. "video" \in Streams /\ n \in Nat /\ frame_idx \in Nat /\ written \in Seq(WrittenPacket)
  BY DEF Streams, TypeOK, VideoType, MuxType
<1>2. \A j \in 1 .. Len(written) : written[j].seg \in Nat /\ written[j].id \in Nat
  <2>1. \A j \in 1 .. Len(written) : written[j] \in WrittenPacket BY <1>1, ElementOfSeq
  <2>2. \A x \in WrittenPacket : x.seg \in Nat /\ x.id \in Nat BY DEF WrittenPacket
  <2> QED BY <2>1, <2>2
<1>3. written[i].id \in DiskOf("video") BY <1>2 DEF DiskOf, DiskIds
<1>4. n \in SentOf("video")
  <2>1. written[i].id \in SentOf("video") BY <1>1, <1>3 DEF OrderInv, LineInv, Line
  <2>2. Oldest \in Int /\ written[i].id < Oldest
    BY <1>1, <2>1, LenProperties DEF EncoderInv, Oldest, TypeOK, VideoType
  <2>3. n < Oldest BY <1>1, <1>2, <2>2
  <2>4. n \in SentOf("video") \/ (Leaving /\ n + EncoderDepth >= frame_idx) BY <2>3 DEF EncoderInv
  <2>5. (\E k \in 1 .. Len(vsent) : vsent[k] = n) => n \in SentOf("video") BY <1>1 DEF SentOf, Sent, Elements
  <2> QED BY <2>4, <2>5 DEF DroppedAtStop, Leaving
<1>5. n \notin DiskOf("video") BY DEF DiskOf, DiskIds, OnDisk
<1>6. n \notin PreOf("video") /\ n \notin QueueOf("video")
  <2>1. Lt(DiskOf("video"), PreOf("video")) /\ Lt(DiskOf("video"), QueueOf("video")) BY <1>1 DEF OrderInv, LineInv, Line
  <2>2. ~(written[i].id < n) BY <1>1, <1>2
  <2> QED BY <1>3, <2>1, <2>2 DEF Lt
<1>7. HeldOf("video") = {} BY HeldIsAudio
<1>8. n \in GoneOf("video") BY <1>4, <1>5, <1>6, <1>7 DEF GoneOf, Lost
<1>9. InFile(written, written[i].seg, written[i].id) BY DEF InFile
<1>10. FileMissing(written[i].seg) /\ \A l \in Nat : InFile(written, written[i].seg, l) => n < l
  BY <1>2, <1>8, <1>9 DEF GapInv
<1>11. \A j \in 1 .. Len(written) :
         written[j].track = "video" /\ written[j].seg = written[i].seg => InFile(written, written[i].seg, written[j].id)
  BY DEF InFile
<1> QED BY <1>2, <1>10, <1>11

LEMMA InitGap == Init => GapInv
<1> SUFFICES ASSUME Init PROVE GapInv OBVIOUS
<1>1. GoneOf("video") = {} BY InitOrder DEF Streams
<1>2. mpc = "check" BY DEF Init
<1> QED BY <1>1, <1>2 DEF GapInv, Writing

\* Through the pre-mux gate, the queue, the hold for the segment epoch, the
\* final drain and any number of segment changes, no packet overtakes another
\* of its stream and none is written twice; of all frames submitted to the
\* encoder, the only ones missing in front of a frame on disk lie before a file
\* whose predecessor could not be opened, or were in the encoder when a full
\* queue made a stopping VideoThread drop packets: for any number of tracks and
\* packets, any limits and any faults.
THEOREM PacketsStayInOrder == Spec => []PacketsInOrder
<1>1. TypeOK /\ OrderInv /\ GapInv /\ EncoderInv => PacketsInOrder BY OrderGivesInOrder, GapGivesGapless DEF PacketsInOrder
<1>2. Init => OrderInv BY InitOrder
<1> QED BY <1>1, <1>2, InitFiles, InitGap, InitEncoder, NextFiles, NextOrder, NextGap, NextEncoder, TypeCorrect, PTL DEF Spec

-----------------------------------------------------------------------------
(* A successful session has every packet that was handed over *)

\* As long as nothing failed no packet that was handed over is lost, and a
\* session reported as a success has them all on disk.
CompleteInv ==
  /\ Clean => GoneOf("video") = {}
  /\ Completed => SentOf("video") \subseteq DiskOf("video")

\* MuxThread's last step of a session without a failure.
LEMMA LastStep ==
  ASSUME TypeOK, OrderInv, FilesInv, MuxNext, Completed'
  PROVE  /\ mpc = "final" /\ mux_queue = <<>> /\ Clean /\ ~write_error' /\ MuxFinish
         /\ \A s \in Streams : PreOf(s) = {} /\ QueueOf(s) = {}
<1>1. MuxFinish
  <2>1. mpc' = "done" /\ ~HasFailure' /\ reports' # <<>> BY DEF Completed
  <2>2. CASE MuxCheckHeaders
    <3>1. mpc = "check" /\ UNCHANGED reports BY <2>2 DEF MuxCheckHeaders
    <3> QED BY <2>1, <3>1 DEF FilesInv, PhaseInv
  <2>3. CASE MuxOpenFirst
    <3>1. UNCHANGED reports /\ mpc = "open" BY <2>3 DEF MuxOpenFirst
    <3> QED BY <2>1, <3>1 DEF FilesInv, PhaseInv
  <2>4. CASE MuxBlock \/ MuxPremuxDone \/ MuxTop \/ MuxQueueEmpty
    BY <2>1, <2>4 DEF MuxBlock, MuxPremuxDone, MuxTop, MuxQueueEmpty
  <2>5. CASE MuxPremuxVideo \/ MuxPremuxAudio \/ MuxDrainHeld
    BY <2>1, <2>5 DEF MuxPremuxVideo, MuxPremuxAudio, MuxDrainHeld
  <2>6. CASE MuxPopVideo \/ MuxPopAudio \/ MuxPopVideoEos \/ MuxPopAudioEos \/ MuxPopSplit
    BY <2>1, <2>6 DEF MuxPopVideo, MuxPopAudio, MuxPopVideoEos, MuxPopAudioEos, MuxPopSplit, MuxPop
  <2> QED BY <2>2, <2>3, <2>4, <2>5, <2>6 DEF MuxNext
<1>2. mpc = "final" /\ mpc' = "done" /\ mux_queue = <<>> BY <1>1 DEF MuxFinish
<1>3. MuxEnds BY <1>2, MuxSteps DEF MuxIdles, MuxPutsAudio, MuxPutsVideo, Puts, MuxOpens, MuxRolls
<1>4. ~write_error' BY <1>3 DEF MuxEnds, Completed
<1>5. ~write_error BY <1>3, <1>4 DEF MuxEnds
<1>6. ~HasFailure BY MuxQueueStep DEF Completed
<1>7. video_premux = <<>> /\ audio_premux = <<>> BY <1>2 DEF OrderInv, ReadyInv
<1>8. \A s \in Streams : PreOf(s) = {} /\ QueueOf(s) = {} BY <1>2, <1>7, IdsEmpty DEF PreOf, QueueOf
<1> QED BY <1>1, <1>2, <1>4, <1>5, <1>6, <1>8 DEF Clean

LEMMA NextComplete ==
  TypeOK /\ OrderInv /\ FilesInv /\ BoundaryInv /\ CompleteInv /\ [Next]_vars => CompleteInv'
<1> SUFFICES ASSUME TypeOK, OrderInv, FilesInv, BoundaryInv, CompleteInv, [Next]_vars PROVE CompleteInv' OBVIOUS
<1>0. "video" \in Streams BY DEF Streams
<1>1. CASE ~MuxNext
  <2>1. OutsideMux BY <1>1, VideoOutside, AudioOutside, OtherOutside DEF Next, Terminated
  <2>2. GoneOf("video")' = GoneOf("video") BY <1>0, <1>1, OutsideOrder DEF Next, Terminated
  <2>3. (Clean' => Clean) /\ (Completed' => Completed) /\ UNCHANGED written BY <2>1 DEF OutsideMux, Clean, Completed
  <2>4. Completed => UNCHANGED vsent
    <3>1. VideoNext => vpc # "done"
      BY DEF VideoNext, VideoPrepare, VideoFirstFrame, VideoSubmit, VideoEncodeFail, VideoCaptureFail,
             VideoSourceLost, VideoLeaveLoop, VideoRoute, VideoFlushRoute, VideoRouteStep, VideoFlushCut,
             VideoPush, VideoNoRoom, VideoFlushed, VideoEos, VideoInLoop
    <3>2. ASSUME NEW t \in Tracks, AudioNext(t) PROVE UNCHANGED vsent
      BY <3>2, AudioEffects DEF AudioEffect, AudioFrame
    <3>3. NotifyWaiters \/ CallerStop \/ RequestSplit \/ UNCHANGED vars => UNCHANGED vsent
      BY DEF NotifyWaiters, CallerStop, RequestSplit, vars
    <3> QED BY <1>1, <3>1, <3>2, <3>3 DEF Next, Terminated, BoundaryInv
  <2>5. Completed => UNCHANGED <<SentOf("video"), DiskOf("video")>> BY <2>3, <2>4 DEF SentOf, Sent, DiskOf
  <2> QED BY <2>2, <2>3, <2>5 DEF CompleteInv
<1>2. CASE MuxNext
  <2>1. Clean' => GoneOf("video")' = {}
    <3> SUFFICES ASSUME Clean' PROVE GoneOf("video")' = {} OBVIOUS
    <3>1. CASE SameVideo
      <4>1. ~HasFailure BY MuxQueueStep, <1>2 DEF Clean
      <4>2. ~write_error
        <5>1. write_error => write_error'
          BY <1>2, MuxSteps DEF MuxIdles, MuxPutsAudio, MuxPutsVideo, Puts, MuxOpens, MuxRolls, BeginNewSegment, MuxEnds
        <5> QED BY <5>1 DEF Clean
      <4> QED BY <3>1, <4>1, <4>2 DEF SameVideo, Clean, CompleteInv
    <3>2. ASSUME NEW p \in VideoPacket, MuxVideo(p) PROVE GoneOf("video")' = {}
      <4>1. ~HasFailure BY MuxQueueStep, <1>2 DEF Clean
      <4>2. ~write_error BY <3>2 DEF MuxVideo, Clean, Stores, WriteFails
      <4>3. seg.writer = "open"
        <5>1. mpc \in Writing BY <3>2 DEF MuxVideo, Writing
        <5> QED BY <4>1, <4>2, <5>1 DEF BoundaryInv, Clean
      <4>4. Stores("video", p.id) BY <3>2, <4>2, <4>3 DEF MuxVideo, Clean, WriteFails
      <4>5. DiskOf("video")' = DiskOf("video") \cup {p.id} BY <1>0, <4>4, DiskAfter
      <4>6. UNCHANGED <<vsent, asent>> BY <1>2, MuxPaths
      <4>7. Takes("video", p.id) BY <3>2, <4>6, VideoTakes
      <4>8. Loses(GoneOf("video"), GoneOf("video")', p.id, DiskOf("video")', HeldOf("video")')
        BY <1>0, <4>7, TakeLine DEF OrderInv
      <4>9. p.id \in DiskOf("video")' BY <4>5
      <4> QED BY <4>1, <4>2, <4>8, <4>9 DEF Loses, Clean, CompleteInv
    <3> QED BY <1>2, <3>1, <3>2, MuxSameVideo
  <2>2. Completed' => SentOf("video")' \subseteq DiskOf("video")'
    <3> SUFFICES ASSUME Completed' PROVE SentOf("video")' \subseteq DiskOf("video")' OBVIOUS
    <3>1. Clean /\ MuxFinish /\ PreOf("video") = {} /\ QueueOf("video") = {} BY <1>0, <1>2, LastStep
    <3>2. GoneOf("video") = {} /\ HeldOf("video") = {} BY <3>1, HeldIsAudio DEF CompleteInv
    <3>3. SentOf("video") \subseteq DiskOf("video") BY <3>1, <3>2 DEF GoneOf, Lost
    <3>4. UNCHANGED <<vsent, written>> BY <3>1 DEF MuxFinish, MuxFrame
    <3> QED BY <3>3, <3>4 DEF SentOf, Sent, DiskOf
  <2> QED BY <2>1, <2>2 DEF CompleteInv
<1> QED BY <1>1, <1>2

\* A session reported as a success has every packet that was handed over in its
\* files, whatever the buffers held when it was stopped and however many
\* boundaries there were; and of the frames submitted to the encoder at most the
\* last EncoderDepth are missing.
THEOREM VideoIsComplete == Spec => []VideoComplete
<1>1. TypeOK /\ CompleteInv /\ EncoderInv => VideoComplete
  <2> SUFFICES ASSUME TypeOK, CompleteInv, EncoderInv, Completed PROVE VideoComplete BY DEF VideoComplete
  <2>1. \A n \in SentOf("video") : OnDisk("video", n)
    <3>1. SentOf("video") \subseteq DiskOf("video") BY DEF CompleteInv
    <3>2. ASSUME NEW n \in DiskOf("video") PROVE OnDisk("video", n)
      <4>1. PICK i \in 1 .. Len(written) : written[i].track = "video" /\ written[i].id = n
        BY <3>2 DEF DiskOf, DiskIds
      <4> QED BY <4>1 DEF OnDisk
    <3> QED BY <3>1, <3>2
  <2>2. ASSUME NEW k \in 1 .. Len(vsent) PROVE OnDisk("video", vsent[k])
    <3>1. vsent[k] \in Nat BY ElementOfSeq DEF TypeOK, VideoType
    <3>2. vsent[k] \in SentOf("video") BY <3>1 DEF SentOf, Sent, Elements
    <3> QED BY <2>1, <3>2
  <2>3. ASSUME NEW n \in 0 .. frame_idx - 1, n + EncoderDepth < frame_idx PROVE OnDisk("video", n)
    <3>1. /\ frame_idx \in Nat /\ EncoderDepth \in Nat /\ Len(in_flight) \in Nat /\ Len(vheld) \in Nat
          /\ Len(in_flight) + Len(vheld) <= EncoderDepth
      BY BoundsAssumption, LenProperties DEF BoundsAssumption, TypeOK, VideoType, EncoderInv
    <3>2. n < Oldest BY <2>3, <3>1 DEF Oldest
    <3>3. ~(n + EncoderDepth >= frame_idx) BY <2>3, <3>1
    <3>4. n \in SentOf("video") BY <3>2, <3>3 DEF EncoderInv
    <3> QED BY <2>1, <3>4
  <2> QED BY <2>2, <2>3 DEF VideoComplete
<1>2. Init => CompleteInv
  <2> SUFFICES ASSUME Init PROVE CompleteInv OBVIOUS
  <2>1. GoneOf("video") = {} BY InitOrder DEF Streams
  <2>2. ~Completed BY DEF Init, Completed
  <2> QED BY <2>1, <2>2 DEF CompleteInv
<1>3. Init => OrderInv BY InitOrder
<1> QED BY <1>1, <1>2, <1>3, InitFiles, InitBoundary, InitEncoder, NextFiles, NextBoundary, NextOrder, NextComplete,
          NextEncoder, TypeCorrect, PTL DEF Spec

-----------------------------------------------------------------------------
(* What is lost of the audio is counted *)

AudioEnd(t) == [kind |-> "audio_eos", track |-> t]

\* The end-of-stream sentinel is the last word of its AudioThread.
AudioEndInv == \A t \in Tracks : audio_eos[t] \/ On(mux_queue, AudioEnd(t)) => apc[t] = "done"

LEMMA AudioEndItem ==
  ASSUME NEW t
  PROVE  /\ AudioEnd(t).kind = "audio_eos" /\ AudioEnd(t).track = t
         /\ t \in Tracks => AudioEnd(t) \in MuxItem
BY DEF AudioEnd, MuxItem, Sentinel

LEMMA VideoAudioEnd ==
  ASSUME TypeOK, VideoNext, NEW t \in Tracks, On(mux_queue', AudioEnd(t))
  PROVE  On(mux_queue, AudioEnd(t))
<1>1. mux_queue \in Seq(MuxItem) /\ AudioEnd(t).kind = "audio_eos" BY AudioEndItem DEF TypeOK, BufferType
<1>2. VideoQueue BY VideoQueueStep
<1>3. CASE UNCHANGED mux_queue BY <1>3
<1>4. ASSUME NEW p \in VideoPacket, mux_queue' = Append(mux_queue, p) PROVE On(mux_queue, AudioEnd(t))
  <2>1. p \in MuxItem /\ p.kind = "video" BY DEF MuxItem, VideoPacket
  <2> QED BY <1>1, <1>4, <2>1, OnGrow
<1>5. ASSUME NEW p \in VideoPacket,
             mux_queue' = mux_queue \o <<[kind |-> "split", index |-> current_segment_index + 1], p>>
      PROVE  On(mux_queue, AudioEnd(t))
  <2> DEFINE a == [kind |-> "split", index |-> current_segment_index + 1]
  <2>1. a \in MuxItem /\ a.kind = "split" BY DEF TypeOK, VideoType, MuxItem, Sentinel
  <2>2. p \in MuxItem /\ p.kind = "video" BY DEF MuxItem, VideoPacket
  <2>3. mux_queue' = mux_queue \o <<a, p>> BY <1>5
  <2> HIDE DEF a
  <2>4. On(mux_queue, AudioEnd(t)) \/ AudioEnd(t) = a \/ AudioEnd(t) = p BY <1>1, <2>1, <2>2, <2>3, OnTwo
  <2> QED BY <1>1, <2>1, <2>2, <2>4
<1>6. CASE mux_queue' = Append(mux_queue, [kind |-> "video_eos"])
  <2> DEFINE e == [kind |-> "video_eos"]
  <2>1. e \in MuxItem /\ e.kind = "video_eos" /\ mux_queue' = Append(mux_queue, e) BY <1>6 DEF MuxItem, Sentinel
  <2> HIDE DEF e
  <2> QED BY <1>1, <2>1, OnGrow
<1> QED BY <1>2, <1>3, <1>4, <1>5, <1>6 DEF VideoQueue

LEMMA AudioAudioEnd ==
  ASSUME TypeOK, NEW u \in Tracks, AudioNext(u), NEW t \in Tracks, On(mux_queue', AudioEnd(t))
  PROVE  On(mux_queue, AudioEnd(t)) \/ (t = u /\ apc'[u] = "done")
<1>1. /\ mux_queue \in Seq(MuxItem) /\ AudioEnd(t).kind = "audio_eos" /\ AudioEnd(t).track = t
      /\ AudioEnd(u) \in MuxItem /\ AudioEnd(u).track = u
  BY AudioEndItem DEF TypeOK, BufferType
<1>2. \/ UNCHANGED mux_queue
      \/ mux_queue' = Append(mux_queue, NextAudioPacket(u))
      \/ mux_queue' = Append(mux_queue, AudioEnd(u))
  BY AudioEffects DEF AudioEffect, AudioEnd
<1>3. CASE mux_queue' = Append(mux_queue, NextAudioPacket(u))
  <2>1. NextAudioPacket(u) \in MuxItem /\ NextAudioPacket(u).kind = "audio"
    BY NextAudioPacketType, AudioIs DEF AudioPacket
  <2> QED BY <1>1, <1>3, <2>1, OnGrow
<1>4. CASE mux_queue' = Append(mux_queue, AudioEnd(u))
  <2>1. apc'[u] = "done" BY <1>4, AudioQueueStep DEF AudioEnd
  <2>2. On(mux_queue, AudioEnd(t)) \/ AudioEnd(t) = AudioEnd(u) BY <1>1, <1>4, OnGrow
  <2> QED BY <1>1, <2>1, <2>2
<1> QED BY <1>2, <1>3, <1>4

LEMMA NextAudioEnd == TypeOK /\ AudioEndInv /\ [Next]_vars => AudioEndInv'
<1> SUFFICES ASSUME TypeOK, AudioEndInv, [Next]_vars, NEW t \in Tracks
             PROVE  audio_eos'[t] \/ On(mux_queue', AudioEnd(t)) => apc'[t] = "done"
  BY DEF AudioEndInv, AudioEnd
<1>0. audio_eos[t] \/ On(mux_queue, AudioEnd(t)) => apc[t] = "done" BY DEF AudioEndInv
<1>1. CASE VideoNext
  <2>1. UNCHANGED <<apc, audio_eos>> BY <1>1, VideoQueueStep
  <2> QED BY <1>0, <1>1, <2>1, VideoAudioEnd
<1>2. ASSUME NEW u \in Tracks, AudioNext(u)
      PROVE  audio_eos'[t] \/ On(mux_queue', AudioEnd(t)) => apc'[t] = "done"
  <2>1. UNCHANGED audio_eos /\ apc[u] # "done" /\ (u # t => apc'[t] = apc[t]) BY <1>2, AudioQueueStep
  <2> QED BY <1>0, <1>2, <2>1, AudioAudioEnd
<1>3. CASE MuxNext
  <2>1. mux_queue \in Seq(MuxItem) /\ audio_eos \in [Tracks -> BOOLEAN] BY DEF TypeOK, BufferType, MuxType
  <2>2. UNCHANGED apc /\ (UNCHANGED mux_queue \/ Popped) BY <1>3, MuxQueueStep
  <2>3. On(mux_queue', AudioEnd(t)) => On(mux_queue, AudioEnd(t)) BY <2>1, <2>2, OnTail DEF Popped
  <2>4. UNCHANGED audio_eos \/ MuxPopAudioEos
    BY <1>3 DEF MuxNext, MuxCheckHeaders, MuxBlock, MuxOpenFirst, MuxPremuxVideo, MuxPremuxAudio, MuxPremuxDone,
           MuxDrainHeld, MuxTop, MuxPopVideo, MuxPopAudio, MuxPopVideoEos, MuxPopSplit,
           MuxQueueEmpty, MuxFinish
  <2>5. ASSUME MuxPopAudioEos, audio_eos'[t] PROVE apc'[t] = "done"
    <3>1. mux_queue # <<>> /\ Head(mux_queue).kind = "audio_eos" BY <2>5 DEF MuxPopAudioEos, MuxPop
    <3>2. Head(mux_queue) \in MuxItem BY <2>1, <3>1, ShrinkType
    <3>3. Head(mux_queue) = AudioEnd(Head(mux_queue).track) BY <3>1, <3>2, ItemKind DEF AudioEnd
    <3>4. audio_eos[t] \/ t = Head(mux_queue).track BY <2>1, <2>5 DEF MuxPopAudioEos
    <3>5. t = Head(mux_queue).track => On(mux_queue, AudioEnd(t)) BY <2>1, <3>1, <3>3, OnTail
    <3> QED BY <1>0, <2>2, <3>4, <3>5
  <2> QED BY <1>0, <2>2, <2>3, <2>4, <2>5
<1>4. CASE NotifyWaiters \/ CallerStop \/ RequestSplit \/ UNCHANGED vars
  BY <1>0, <1>4 DEF NotifyWaiters, CallerStop, RequestSplit, vars
<1> QED BY <1>1, <1>2, <1>3, <1>4 DEF Next, Terminated

\* The audio packets that are in no buffer and in no file, and those held.
GonePairs == {a \in Tracks \X (0 .. MaxAudio) : a[2] \in GoneOf(a[1])}
HeldPairs(q) == {a \in Tracks \X (0 .. MaxAudio) : a[2] \in Ids(q, a[1])}

LEMMA PairsFinite == ASSUME NEW A \in SUBSET (Tracks \X (0 .. MaxAudio)) PROVE IsFiniteSet(A) /\ Cardinality(A) \in Nat
<1>1. IsFiniteSet(Tracks) /\ MaxAudio \in Int /\ 0 \in Int
  BY TracksAssumption, BoundsAssumption DEF TracksAssumption, BoundsAssumption
<1>2. IsFiniteSet(0 .. MaxAudio) BY <1>1, FS_Interval
<1>3. IsFiniteSet(Tracks \X (0 .. MaxAudio)) BY <1>1, <1>2, FS_Product
<1>4. IsFiniteSet(A) BY <1>3, FS_Subset
<1> QED BY <1>4, FS_CardinalityType

\* A sorted hold has as many packets as entries.
LEMMA HeldCount ==
  ASSUME NEW q \in Seq(AudioPacket), \A s \in Streams : Sorted(q, s),
         \A t \in Tracks : Ids(q, t) \subseteq 0 .. MaxAudio
  PROVE  Cardinality(HeldPairs(q)) = Len(q)
<1> DEFINE n == Len(q)
<1> DEFINE T == HeldPairs(q)
<1> DEFINE F == [i \in 1 .. n |-> <<q[i].track, q[i].id>>]
<1>1. n \in Nat /\ \A i \in 1 .. n : q[i] \in AudioPacket BY LenProperties, ElementOfSeq
<1>2. \A i \in 1 .. n : /\ q[i].track \in Tracks /\ q[i].track \in Streams /\ q[i].id \in Nat
                        /\ \A s \in Streams : Is(q[i], s) <=> s = q[i].track
  BY <1>1, AudioIs
<1>3. \A i \in 1 .. n : q[i].id \in Ids(q, q[i].track) /\ q[i].id \in 0 .. MaxAudio
  <2>1. \A i \in 1 .. n : q[i].id \in Ids(q, q[i].track) BY <1>2 DEF Ids
  <2> QED BY <1>2, <2>1
<1>4. F \in [1 .. n -> T]
  <2>1. \A i \in 1 .. n : <<q[i].track, q[i].id>> \in T BY <1>2, <1>3 DEF HeldPairs
  <2> HIDE DEF T
  <2> QED BY <2>1
<1>5. \A i, j \in 1 .. n : F[i] = F[j] => i = j
  <2> SUFFICES ASSUME NEW i \in 1 .. n, NEW j \in 1 .. n, q[i].track = q[j].track, q[i].id = q[j].id, i # j
               PROVE  FALSE
    OBVIOUS
  <2>1. Sorted(q, q[i].track) /\ Is(q[i], q[i].track) /\ Is(q[j], q[i].track) BY <1>2
  <2>2. i < j \/ j < i BY <1>1
  <2>3. q[i].id < q[j].id \/ q[j].id < q[i].id BY <2>1, <2>2 DEF Sorted
  <2> QED BY <1>2, <2>3
<1>6. \A a \in T : \E i \in 1 .. n : F[i] = a
  <2> SUFFICES ASSUME NEW a \in T PROVE \E i \in 1 .. n : F[i] = a OBVIOUS
  <2>1. a = <<a[1], a[2]>> /\ a[1] \in Tracks /\ a[1] \in Streams /\ a[2] \in Ids(q, a[1])
    BY StreamSent DEF HeldPairs
  <2>2. PICK i \in 1 .. n : Is(q[i], a[1]) /\ q[i].id = a[2] BY <2>1 DEF Ids
  <2>3. q[i].track = a[1] BY <1>2, <2>1, <2>2
  <2>4. F[i] = a BY <2>1, <2>2, <2>3
  <2> QED BY <2>4
<1> HIDE DEF F, T
<1>7. F \in Bijection(1 .. n, T) BY <1>4, <1>5, <1>6 DEF Bijection, Injection, Surjection, IsInjective
<1>8. ExistsBijection(1 .. n, T) BY <1>7 DEF ExistsBijection
<1> QED BY <1>1, <1>8, FS_CountingElements DEF T

\* Nothing failed, and no track measured so far starts before the picture.
Sound == Clean /\ \A t \in Tracks : audio_shift[t] >= 0

AudioEmpty(t) == apc[t] = "done" /\ HeldOf(t) = {} /\ PreOf(t) = {} /\ QueueOf(t) = {}

\* In a sound session the trimmed packets are exactly those that are gone, and
\* a session reported as a success has left no audio packet in a buffer.
CountInv ==
  /\ \A t \in Tracks : ~audio_shift_resolved[t] => audio_shift[t] = 0
  /\ Sound => Cardinality(GonePairs) = trimmed
  /\ Completed => ~write_error /\ \A t \in Tracks : AudioEmpty(t)

LEMMA GoneSame ==
  ASSUME \A t \in Tracks : GoneOf(t)' = GoneOf(t) PROVE GonePairs' = GonePairs
<1>1. \A a \in Tracks \X (0 .. MaxAudio) : a[1] \in Tracks OBVIOUS
<1> QED BY <1>1 DEF GonePairs

LEMMA GoneOne ==
  ASSUME NEW t \in Tracks, NEW m \in 0 .. MaxAudio, m \notin GoneOf(t), GoneOf(t)' = GoneOf(t) \cup {m},
         \A u \in Tracks : u # t => GoneOf(u)' = GoneOf(u)
  PROVE  Cardinality(GonePairs)' = Cardinality(GonePairs) + 1
<1> DEFINE x == <<t, m>>
<1>1. \A a \in Tracks \X (0 .. MaxAudio) : a = <<a[1], a[2]>> /\ a[1] \in Tracks OBVIOUS
<1>2. x \in Tracks \X (0 .. MaxAudio) /\ x[1] = t /\ x[2] = m OBVIOUS
<1>3. x \notin GonePairs /\ x \in GonePairs' BY <1>2 DEF GonePairs
<1>4. \A a \in GonePairs : a \in GonePairs' BY <1>1 DEF GonePairs
<1>5. ASSUME NEW a \in GonePairs' PROVE a \in GonePairs \/ a = x
  <2>1. a \in Tracks \X (0 .. MaxAudio) /\ a[2] \in GoneOf(a[1])' BY <1>5 DEF GonePairs
  <2>2. a[1] = t => a[2] \in GoneOf(t) \/ a = x BY <1>1, <2>1
  <2> QED BY <1>1, <2>1, <2>2 DEF GonePairs
<1> HIDE DEF x
<1>6. GonePairs' = GonePairs \cup {x} BY <1>3, <1>4, <1>5
<1>7. IsFiniteSet(GonePairs) BY PairsFinite DEF GonePairs
<1>8. Cardinality(GonePairs \cup {x}) = Cardinality(GonePairs) + 1 BY <1>3, <1>7, FS_AddElement
<1> QED BY <1>6, <1>8

LEMMA GoneMany ==
  ASSUME NEW q, \A t \in Tracks : GoneOf(t)' = GoneOf(t) \cup Ids(q, t) /\ GoneOf(t) \cap Ids(q, t) = {}
  PROVE  Cardinality(GonePairs)' = Cardinality(GonePairs) + Cardinality(HeldPairs(q))
<1>1. \A a \in Tracks \X (0 .. MaxAudio) : a[1] \in Tracks OBVIOUS
<1>2. GonePairs' = GonePairs \cup HeldPairs(q) BY <1>1 DEF GonePairs, HeldPairs
<1>3. GonePairs \cap HeldPairs(q) = {} BY <1>1 DEF GonePairs, HeldPairs
<1>4. /\ IsFiniteSet(GonePairs) /\ Cardinality(GonePairs) \in Nat
      /\ IsFiniteSet(HeldPairs(q)) /\ Cardinality(HeldPairs(q)) \in Nat
  BY PairsFinite DEF GonePairs, HeldPairs
<1>5. Cardinality(GonePairs \cup HeldPairs(q))
        = Cardinality(GonePairs) + Cardinality(HeldPairs(q)) - Cardinality(GonePairs \cap HeldPairs(q))
  BY <1>4, FS_Union
<1>6. Cardinality(GonePairs \cap HeldPairs(q)) = 0 BY <1>3, FS_EmptySet
<1> QED BY <1>2, <1>4, <1>5, <1>6

\* A packet that left a buffer, and not for the hold, is not held.
LEMMA NotHeld ==
  ASSUME NEW D, NEW H, NEW P, NEW Q, NEW S, NEW m, NEW D2, NEW H2, NEW P2, NEW Q2,
         LineStep(m, D, H, P, Q, S, D2, H2, P2, Q2), H2 = H \/ (P2 = P /\ Q2 = Q)
  PROVE  m \notin H2
<1>1. m \in S /\ S \subseteq Nat BY LineTake DEF LineStep
<1>2. ~(m < m) BY <1>1
<1>3. Lt(H, P) /\ Lt(H, Q) BY DEF LineStep, Line
<1> QED BY <1>2, <1>3 DEF LineStep, Took, Lt

LEMMA TakenPacket ==
  ASSUME TypeOK, OrderInv, NEW p \in AudioPacket, MuxAudio(p), UNCHANGED <<vsent, asent>>
  PROVE  /\ p.track \in Tracks /\ p.id \in 0 .. MaxAudio /\ p.id \notin GoneOf(p.track)
         /\ p.id \notin DiskOf(p.track)
         /\ \A u \in Tracks : u # p.track => GoneOf(u)' = GoneOf(u)
         /\ Loses(GoneOf(p.track), GoneOf(p.track)', p.id, DiskOf(p.track)', HeldOf(p.track)')
         /\ (UNCHANGED segment_pending_audio \/ UNCHANGED <<audio_premux, mux_queue>>) => p.id \notin HeldOf(p.track)'
<1> DEFINE t == p.track
<1>1. p.id \in Nat /\ t \in Tracks /\ t \in Streams /\ t # "video" BY AudioIs
<1>2. Takes(t, p.id) /\ LineInv BY AudioTakes DEF OrderInv
<1> HIDE DEF t
<1>3. /\ p.id \in SentOf(t) /\ p.id \notin DiskOf(t) /\ p.id \notin GoneOf(t)
      /\ Loses(GoneOf(t), GoneOf(t)', p.id, DiskOf(t)', HeldOf(t)')
      /\ \A u \in Streams : u # t => GoneOf(u)' = GoneOf(u)
  BY <1>1, <1>2, TakeLine
<1>4. p.id \in 0 .. MaxAudio
  <2>1. Lt(SentOf(t), {audio_idx[t]}) /\ audio_idx[t] <= MaxAudio BY <1>1 DEF OrderInv, FreshInv
  <2>2. audio_idx[t] \in Nat /\ MaxAudio \in Nat BY <1>1, BoundsAssumption DEF BoundsAssumption, TypeOK, AudioType
  <2>3. p.id < audio_idx[t] BY <1>3, <2>1 DEF Lt
  <2> QED BY <1>1, <2>1, <2>2, <2>3
<1>5. ASSUME UNCHANGED segment_pending_audio \/ UNCHANGED <<audio_premux, mux_queue>> PROVE p.id \notin HeldOf(t)'
  <2>1. UNCHANGED video_premux BY DEF MuxAudio
  <2>2. HeldOf(t)' = HeldOf(t) \/ (PreOf(t)' = PreOf(t) /\ QueueOf(t)' = QueueOf(t))
    BY <1>5, <2>1 DEF HeldOf, PreOf, QueueOf
  <2>3. SentOf(t) \subseteq Nat /\ Line(DiskOf(t), HeldOf(t), PreOf(t), QueueOf(t), SentOf(t))
    BY <1>1, <1>2 DEF LineInv, SentOf, Elements
  <2>4. LineStep(p.id, DiskOf(t), HeldOf(t), PreOf(t), QueueOf(t), SentOf(t), DiskOf(t)', HeldOf(t)', PreOf(t)', QueueOf(t)')
    BY <1>2, <2>3 DEF LineStep, Takes
  <2> QED BY <2>2, <2>4, NotHeld
<1>6. \A u \in Tracks : u \in Streams BY StreamSent
<1> QED BY <1>1, <1>3, <1>4, <1>5, <1>6 DEF t

LEMMA MuxClean == ASSUME TypeOK, MuxNext, Clean' PROVE Clean
<1>1. ~HasFailure BY MuxQueueStep DEF Clean
<1>2. write_error => write_error'
  BY MuxSteps DEF MuxIdles, MuxPutsAudio, MuxPutsVideo, Puts, MuxOpens, MuxRolls, BeginNewSegment, MuxEnds
<1> QED BY <1>1, <1>2 DEF Clean

\* A packet is counted when it is trimmed, and only then.
LEMMA CountAudio ==
  ASSUME TypeOK, OrderInv, BoundaryInv, CountInv, MuxNext, NEW p \in AudioPacket, MuxAudio(p), Sound'
  PROVE  Cardinality(GonePairs)' = trimmed'
<1> DEFINE t == p.track
<1>1. Clean /\ Clean' /\ ~write_error /\ ~write_error' /\ \A u \in Tracks : audio_shift'[u] >= 0
  BY MuxClean DEF Sound, Clean
<1>2. seg.writer = "open"
  <2>1. mpc \in Writing BY DEF MuxAudio, Writing
  <2> QED BY <1>1, <2>1 DEF BoundaryInv
<1>3. UNCHANGED <<vsent, asent>> BY MuxPaths
<1>4. /\ t \in Tracks /\ t \in Streams /\ p.id \in Nat BY AudioIs
<1>5. /\ p.id \in 0 .. MaxAudio /\ p.id \notin GoneOf(t) /\ p.id \notin DiskOf(t)
      /\ \A u \in Tracks : u # t => GoneOf(u)' = GoneOf(u)
      /\ Loses(GoneOf(t), GoneOf(t)', p.id, DiskOf(t)', HeldOf(t)')
      /\ (UNCHANGED segment_pending_audio \/ UNCHANGED <<audio_premux, mux_queue>>) => p.id \notin HeldOf(t)'
  BY <1>3, TakenPacket
<1>6. PICK held \in Seq(AudioPacket) :
        AudioPlaced(p, held) /\ (held = segment_pending_audio \/ UNCHANGED <<audio_premux, mux_queue>>)
  <2>1. segment_pending_audio \in Seq(AudioPacket) BY DEF TypeOK, MuxType
  <2>2. segment_pending_audio # <<>> => Tail(segment_pending_audio) \in Seq(AudioPacket) BY <2>1, ShrinkType
  <2> QED BY <2>1, <2>2 DEF MuxAudio
<1>7. /\ audio_shift' = [audio_shift EXCEPT ![t] = AudioShiftFor(t)]
      /\ \/ AudioShiftFor(t) < 0
         \/ trimmed' = trimmed + 1 /\ segment_pending_audio' = held /\ UNCHANGED written
         \/ UNCHANGED trimmed /\ \E q \in AudioPacket : q.track = t /\ q.id = p.id /\ segment_pending_audio' = Append(held, q)
         \/ UNCHANGED trimmed /\ Stores(t, p.id)
  BY <1>1, <1>2, <1>6 DEF AudioPlaced, WriteFails
<1>8. audio_shift \in [Tracks -> Int] /\ audio_shift'[t] = AudioShiftFor(t)
  BY <1>4, <1>7 DEF TypeOK, MuxType
<1>9. audio_shift[t] \in Int /\ AudioShiftFor(t) >= 0 BY <1>1, <1>4, <1>8
<1>10. Sound
  <2>1. \A u \in Tracks : u # t => audio_shift'[u] = audio_shift[u] BY <1>7, <1>8
  <2>2. audio_shift[t] >= 0 BY <1>4, <1>9 DEF CountInv, AudioShiftFor
  <2> QED BY <1>1, <2>1, <2>2 DEF Sound
<1>11. Cardinality(GonePairs) = trimmed BY <1>10 DEF CountInv
<1> HIDE DEF t
<1>12. ~(AudioShiftFor(t) < 0)
  <2>1. AudioShiftFor(t) \in Int
    <3>1. audio_shift'[t] \in Int BY <1>4, NextType DEF Next, TypeOK, MuxType
    <3> QED BY <1>8, <3>1
  <2> QED BY <1>9, <2>1
<1>13. CASE trimmed' = trimmed + 1 /\ segment_pending_audio' = held /\ UNCHANGED written
  <2>1. DiskOf(t)' = DiskOf(t) BY <1>13 DEF DiskOf
  <2>2. p.id \notin DiskOf(t)' /\ p.id \notin HeldOf(t)' BY <1>5, <1>6, <1>13, <2>1
  <2>3. GoneOf(t)' = GoneOf(t) \cup {p.id} BY <1>5, <2>2 DEF Loses
  <2>4. Cardinality(GonePairs)' = Cardinality(GonePairs) + 1 BY <1>4, <1>5, <2>3, GoneOne
  <2> QED BY <1>11, <1>13, <2>4
<1>14. ASSUME UNCHANGED trimmed, p.id \in DiskOf(t)' \/ p.id \in HeldOf(t)' PROVE Cardinality(GonePairs)' = trimmed'
  <2>1. GoneOf(t)' = GoneOf(t) BY <1>5, <1>14 DEF Loses
  <2>2. \A u \in Tracks : GoneOf(u)' = GoneOf(u) BY <1>5, <2>1
  <2>3. GonePairs' = GonePairs BY <2>2, GoneSame
  <2> QED BY <1>11, <1>14, <2>3
<1>15. ASSUME NEW q \in AudioPacket, q.track = t, q.id = p.id, segment_pending_audio' = Append(held, q)
       PROVE  p.id \in HeldOf(t)'
  <2>1. q \in MuxItem /\ Is(q, t) /\ held \in Seq(MuxItem) BY <1>4, <1>15, AudioIs, PacketBuffer
  <2>2. Ids(Append(held, q), t) = Ids(held, t) \cup {q.id} BY <1>4, <2>1, IdsGrow
  <2> QED BY <1>15, <2>2 DEF HeldOf
<1>16. Stores(t, p.id) => p.id \in DiskOf(t)'
  <2> SUFFICES ASSUME Stores(t, p.id) PROVE p.id \in DiskOf(t)' OBVIOUS
  <2>1. DiskOf(t)' = DiskOf(t) \cup {p.id} BY <1>4, DiskAfter
  <2> QED BY <2>1
<1> QED BY <1>7, <1>12, <1>13, <1>14, <1>15, <1>16 DEF t

\* The packets still held at the end are counted when the file has no epoch.
LEMMA CountFinish ==
  ASSUME TypeOK, OrderInv, CountInv, MuxNext, MuxFinish, Sound'
  PROVE  Cardinality(GonePairs)' = trimmed'
<1> DEFINE q == segment_pending_audio
<1>1. UNCHANGED audio_shift /\ ~MuxBusy /\ trimmed' = IF seg.epoch_set THEN trimmed ELSE trimmed + Len(q)
  BY DEF MuxFinish
<1>2. Clean /\ Sound BY <1>1, MuxClean DEF Sound
<1>3. Cardinality(GonePairs) = trimmed /\ trimmed \in Nat BY <1>2 DEF CountInv, TypeOK, MuxType
<1>4. q \in Seq(AudioPacket) BY DEF TypeOK, MuxType
<1>5. \A s \in Streams : Sorted(q, s) BY DEF OrderInv, SortInv
<1>6. ASSUME NEW u \in Tracks
      PROVE  /\ GoneOf(u)' = GoneOf(u) \cup HeldOf(u) /\ GoneOf(u) \cap HeldOf(u) = {}
             /\ HeldOf(u) \subseteq 0 .. MaxAudio
  <2>1. u \in Streams /\ LineInv /\ SortInv BY StreamSent DEF OrderInv
  <2>2. GoneOf(u)' = GoneOf(u) \cup HeldOf(u) BY <2>1, FinishLine
  <2>3. GoneOf(u) \cap HeldOf(u) = {} BY DEF GoneOf, Lost
  <2>4. HeldOf(u) \subseteq SentOf(u) /\ HeldOf(u) \subseteq Nat BY <2>1 DEF LineInv, Line, HeldOf, Ids
  <2>5. Lt(SentOf(u), {audio_idx[u]}) /\ audio_idx[u] <= MaxAudio BY DEF OrderInv, FreshInv
  <2>6. audio_idx[u] \in Nat /\ MaxAudio \in Nat BY BoundsAssumption DEF BoundsAssumption, TypeOK, AudioType
  <2>7. \A m \in HeldOf(u) : m \in Nat /\ m < audio_idx[u] BY <2>4, <2>5 DEF Lt
  <2>8. HeldOf(u) \subseteq 0 .. MaxAudio BY <2>5, <2>6, <2>7
  <2> QED BY <2>2, <2>3, <2>8
<1>7. \A u \in Tracks : /\ GoneOf(u)' = GoneOf(u) \cup Ids(q, u) /\ GoneOf(u) \cap Ids(q, u) = {}
                        /\ Ids(q, u) \subseteq 0 .. MaxAudio
  BY <1>6 DEF HeldOf
<1> HIDE DEF q
<1>8. Cardinality(HeldPairs(q)) = Len(q) BY <1>4, <1>5, <1>7, HeldCount
<1>9. Cardinality(GonePairs)' = Cardinality(GonePairs) + Cardinality(HeldPairs(q)) BY <1>7, GoneMany
<1>10. seg.epoch_set => Len(q) = 0
  <2>1. seg.epoch_set => q = <<>> BY <1>1, <1>2 DEF MuxBusy, Clean, q
  <2> QED BY <2>1
<1>11. Len(q) \in Nat BY <1>4, LenProperties
<1> QED BY <1>1, <1>3, <1>8, <1>9, <1>10, <1>11

LEMMA NextCount ==
  TypeOK /\ OrderInv /\ FilesInv /\ BoundaryInv /\ AudioEndInv /\ CountInv /\ [Next]_vars => CountInv'
<1> SUFFICES ASSUME TypeOK, OrderInv, FilesInv, BoundaryInv, AudioEndInv, CountInv, [Next]_vars PROVE CountInv' OBVIOUS
<1>0. \A t \in Tracks : t \in Streams /\ t # "video" BY StreamSent
<1>1. CASE ~MuxNext
  <2>1. OutsideMux BY <1>1, VideoOutside, AudioOutside, OtherOutside DEF Next, Terminated
  <2>2. \A s \in Streams : GoneOf(s)' = GoneOf(s) BY <1>1, OutsideOrder DEF Next, Terminated
  <2>3. (Clean' => Clean) /\ (Completed' => Completed) /\ UNCHANGED write_error BY <2>1 DEF OutsideMux, Clean, Completed
  <2>4. UNCHANGED <<audio_shift, audio_shift_resolved, trimmed, segment_pending_audio>>
    <3>1. CASE VideoNext BY <3>1, VideoQueueStep
    <3>2. ASSUME NEW t \in Tracks, AudioNext(t)
          PROVE  UNCHANGED <<audio_shift, audio_shift_resolved, trimmed, segment_pending_audio>>
      BY <3>2, AudioEffects DEF AudioEffect, AudioFrame
    <3>3. CASE NotifyWaiters \/ CallerStop \/ RequestSplit \/ UNCHANGED vars
      BY <3>3 DEF NotifyWaiters, CallerStop, RequestSplit, vars
    <3> QED BY <1>1, <3>1, <3>2, <3>3 DEF Next, Terminated
  <2>5. GonePairs' = GonePairs BY <1>0, <2>2, GoneSame
  <2>6. ASSUME Completed', NEW t \in Tracks PROVE AudioEmpty(t)'
    <3>1. AudioEmpty(t) /\ \A u \in Tracks : apc[u] = "done" BY <2>3, <2>6 DEF CountInv, AudioEmpty
    <3>2. UNCHANGED apc /\ PreOf(t)' = PreOf(t) /\ QueueOf(t)' = QueueOf(t)
      <4>1. CASE VideoNext
        <5>1. HandsNothing \/ \E n : Hands("video", n) BY <4>1, VideoOrders, VideoLine
        <5>2. UNCHANGED apc BY <4>1, VideoQueueStep
        <5> QED BY <1>0, <5>1, <5>2 DEF HandsNothing, Hands
      <4>2. \A u \in Tracks : ~AudioNext(u) BY <3>1, AudioQueueStep
      <4>3. CASE NotifyWaiters \/ CallerStop \/ RequestSplit \/ UNCHANGED vars
        BY <4>3 DEF NotifyWaiters, CallerStop, RequestSplit, vars, PreOf, QueueOf
      <4> QED BY <1>1, <4>1, <4>2, <4>3 DEF Next, Terminated
    <3>3. HeldOf(t)' = HeldOf(t) BY <2>4 DEF HeldOf
    <3> QED BY <3>1, <3>2, <3>3 DEF AudioEmpty
  <2>7. Sound' => Sound BY <2>3, <2>4 DEF Sound
  <2>8. Sound' => Cardinality(GonePairs)' = trimmed' BY <2>4, <2>5, <2>7 DEF CountInv
  <2>9. \A t \in Tracks : ~audio_shift_resolved'[t] => audio_shift'[t] = 0 BY <2>4 DEF CountInv
  <2>10. Completed' => ~write_error' BY <2>3 DEF CountInv
  <2> QED BY <2>6, <2>8, <2>9, <2>10 DEF CountInv
<1>2. CASE MuxNext
  <2>1. /\ UNCHANGED <<apc, vsent, asent>>
        /\ MuxStill \/ (\E p \in VideoPacket : MuxVideo(p)) \/ (\E p \in AudioPacket : MuxAudio(p)) \/ MuxFinish
    BY <1>2, MuxPaths
  <2>2. \A t \in Tracks : ~audio_shift_resolved'[t] => audio_shift'[t] = 0
    <3>1. CASE UNCHANGED <<audio_shift, audio_shift_resolved>> BY <3>1 DEF CountInv
    <3>2. ASSUME NEW t \in Tracks, NEW v, audio_shift' = [audio_shift EXCEPT ![t] = v],
                 audio_shift_resolved' = [audio_shift_resolved EXCEPT ![t] = TRUE]
          PROVE  \A u \in Tracks : ~audio_shift_resolved'[u] => audio_shift'[u] = 0
      <4>1. audio_shift \in [Tracks -> Int] /\ audio_shift_resolved \in [Tracks -> BOOLEAN] BY DEF TypeOK, MuxType
      <4> QED BY <3>2, <4>1 DEF CountInv
    <3>3. ASSUME NEW p \in AudioPacket, MuxAudio(p)
          PROVE  \A t \in Tracks : ~audio_shift_resolved'[t] => audio_shift'[t] = 0
      <4>1. \/ UNCHANGED <<audio_shift, audio_shift_resolved>>
            \/ /\ audio_shift' = [audio_shift EXCEPT ![p.track] = AudioShiftFor(p.track)]
               /\ audio_shift_resolved' = [audio_shift_resolved EXCEPT ![p.track] = TRUE]
        BY <3>3 DEF MuxAudio, AudioPlaced
      <4> QED BY <3>1, <3>2, <4>1, AudioIs
    <3> QED BY <2>1, <3>1, <3>3 DEF MuxStill, MuxVideo, MuxFinish
  <2>3. Sound' => Cardinality(GonePairs)' = trimmed'
    <3> SUFFICES ASSUME Sound' PROVE Cardinality(GonePairs)' = trimmed' OBVIOUS
    <3>0. Clean BY <1>2, MuxClean DEF Sound
    <3>1. ASSUME UNCHANGED <<trimmed, audio_shift>>, \A t \in Tracks : GoneOf(t)' = GoneOf(t)
          PROVE  Cardinality(GonePairs)' = trimmed'
      <4>1. Sound BY <3>0, <3>1 DEF Sound
      <4>2. GonePairs' = GonePairs BY <3>1, GoneSame
      <4> QED BY <3>1, <4>1, <4>2 DEF CountInv
    <3>2. CASE MuxStill
      <4>1. UNCHANGED <<written, segment_pending_audio, trimmed, audio_shift>> BY <3>2 DEF MuxStill
      <4>2. HandsNothing BY <2>1, <3>2, StillLine DEF OrderInv
      <4>3. \A s \in Streams : GoneOf(s)' = GoneOf(s) BY <4>1, <4>2, ProducerLine DEF OrderInv
      <4> QED BY <1>0, <3>1, <4>1, <4>3
    <3>3. ASSUME NEW p \in VideoPacket, MuxVideo(p) PROVE Cardinality(GonePairs)' = trimmed'
      <4>1. UNCHANGED <<trimmed, audio_shift>> BY <3>3 DEF MuxVideo
      <4>2. Takes("video", p.id) /\ "video" \in Streams BY <2>1, <3>3, VideoTakes DEF Streams
      <4>3. \A u \in Streams : u # "video" => GoneOf(u)' = GoneOf(u) BY <4>2, TakeLine DEF OrderInv
      <4> QED BY <1>0, <3>1, <4>1, <4>3
    <3> QED BY <1>2, <2>1, <3>2, <3>3, CountAudio, CountFinish
  <2>4. ASSUME Completed' PROVE ~write_error' /\ \A t \in Tracks : AudioEmpty(t)'
    <3>1. /\ mpc = "final" /\ Clean /\ ~write_error' /\ MuxFinish
          /\ \A s \in Streams : PreOf(s) = {} /\ QueueOf(s) = {}
      BY <1>2, <2>4, LastStep
    <3>2. \A t \in Tracks : audio_eos[t] BY <3>1 DEF BoundaryInv, AllEos
    <3>3. \A t \in Tracks : apc'[t] = "done" BY <2>1, <3>2 DEF AudioEndInv
    <3>4. \A s \in Streams : UNCHANGED <<PreOf(s), QueueOf(s)>> /\ HeldOf(s)' = {} BY <3>1, FinishLine DEF OrderInv
    <3> QED BY <1>0, <3>1, <3>3, <3>4 DEF AudioEmpty
  <2> QED BY <2>2, <2>3, <2>4 DEF CountInv
<1> QED BY <1>1, <1>2

LEMMA InitCount == Init => AudioEndInv /\ CountInv
<1> SUFFICES ASSUME Init PROVE AudioEndInv /\ CountInv OBVIOUS
<1>1. /\ mux_queue = <<>> /\ audio_eos = [t \in Tracks |-> FALSE] /\ audio_shift = [t \in Tracks |-> 0]
      /\ trimmed = 0 /\ mpc = "check"
  BY DEF Init
<1>2. AudioEndInv BY <1>1 DEF AudioEndInv, On
<1>3. \A t \in Tracks : GoneOf(t) = {} BY InitOrder, StreamSent
<1>4. GonePairs = {}
  <2>1. \A a \in Tracks \X (0 .. MaxAudio) : a[1] \in Tracks OBVIOUS
  <2> QED BY <1>3, <2>1 DEF GonePairs
<1>5. Cardinality(GonePairs) = 0 BY <1>4, FS_EmptySet
<1> QED BY <1>1, <1>2, <1>5 DEF CountInv, Completed

LEMMA CountAccounts == ASSUME TypeOK, OrderInv, CountInv PROVE AudioAccounted
<1> SUFFICES ASSUME Completed, \A t \in Tracks : audio_shift[t] >= 0
             PROVE  Cardinality(AudioSent) = Cardinality(AudioWritten) + trimmed
  BY DEF AudioAccounted
<1>1. Sound BY DEF Sound, Clean, CountInv, Completed
<1>2. Cardinality(GonePairs) = trimmed BY <1>1 DEF CountInv
<1> DEFINE Box == Tracks \X (0 .. MaxAudio)
<1>3. \A a \in Box : a[1] \in Tracks /\ a[2] \in Nat /\ a[1] \in Streams BY StreamSent
<1>4. AudioSent = {a \in Box : a[2] \in SentOf(a[1])}
  <2>1. \A a \in Box : Sent(a[1]) = asent[a[1]] BY <1>3, StreamSent
  <2> QED BY <1>3, <2>1 DEF AudioSent, SentOf, Elements
<1>5. AudioWritten = {a \in Box : a[2] \in DiskOf(a[1])} BY <1>3 DEF AudioWritten, OnDisk, DiskOf, DiskIds
<1>6. \A t \in Tracks : /\ GoneOf(t) = SentOf(t) \ DiskOf(t) /\ DiskOf(t) \subseteq SentOf(t)
  <2>1. ASSUME NEW t \in Tracks PROVE GoneOf(t) = SentOf(t) \ DiskOf(t) /\ DiskOf(t) \subseteq SentOf(t)
    <3>1. HeldOf(t) = {} /\ PreOf(t) = {} /\ QueueOf(t) = {} BY DEF CountInv, AudioEmpty
    <3>2. DiskOf(t) \subseteq SentOf(t) BY StreamSent DEF OrderInv, LineInv, Line
    <3> QED BY <3>1, <3>2 DEF GoneOf, Lost
  <2> QED BY <2>1
<1>7. AudioSent = AudioWritten \cup GonePairs /\ AudioWritten \cap GonePairs = {}
  BY <1>3, <1>4, <1>5, <1>6 DEF GonePairs
<1>8. /\ IsFiniteSet(AudioWritten) /\ Cardinality(AudioWritten) \in Nat
      /\ IsFiniteSet(GonePairs) /\ Cardinality(GonePairs) \in Nat
  BY <1>5, PairsFinite DEF GonePairs
<1>9. Cardinality(AudioWritten \cup GonePairs)
        = Cardinality(AudioWritten) + Cardinality(GonePairs) - Cardinality(AudioWritten \cap GonePairs)
  BY <1>8, FS_Union
<1>10. Cardinality(AudioWritten \cap GonePairs) = 0 BY <1>7, FS_EmptySet
<1> QED BY <1>2, <1>7, <1>8, <1>9, <1>10

\* What a successful session reports about lost audio is exact: every packet an
\* AudioThread handed over is in a file or was counted as trimmed, once, as long
\* as no track starts before the picture.
THEOREM AudioIsAccounted == Spec => []AudioAccounted
<1>1. TypeOK /\ OrderInv /\ CountInv => AudioAccounted BY CountAccounts
<1>2. Init => OrderInv BY InitOrder
<1> QED BY <1>1, <1>2, InitFiles, InitBoundary, InitCount, NextFiles, NextBoundary, NextOrder, NextAudioEnd, NextCount,
           TypeCorrect, PTL DEF Spec

-----------------------------------------------------------------------------
(* Who loses packets *)

\* Whatever is lost of what the threads handed over is lost by MuxThread, at the
\* end of the line, and for good: a packet that is gone never shows up again.
LosesAsMux == \A s \in Streams : /\ GoneOf(s) \subseteq GoneOf(s)'
                                  /\ GoneOf(s)' # GoneOf(s) => MuxNext
LossesAreMuxThreads == [][LosesAsMux]_vars

LEMMA MuxGone == ASSUME TypeOK, OrderInv, MuxNext, NEW s \in Streams PROVE GoneOf(s) \subseteq GoneOf(s)'
<1>1. /\ UNCHANGED <<vsent, asent>>
      /\ MuxStill \/ (\E p \in VideoPacket : MuxVideo(p)) \/ (\E p \in AudioPacket : MuxAudio(p)) \/ MuxFinish
  BY MuxPaths
<1>2. CASE MuxStill
  <2>1. UNCHANGED <<written, segment_pending_audio>> BY <1>2 DEF MuxStill
  <2>2. HandsNothing BY <1>1, <1>2, StillLine DEF OrderInv
  <2>3. GoneOf(s)' = GoneOf(s) BY <2>1, <2>2, ProducerLine DEF OrderInv
  <2> QED BY <2>3
<1>3. ASSUME NEW u \in Streams, NEW m, Takes(u, m) PROVE GoneOf(s) \subseteq GoneOf(s)'
  <2>1. /\ Loses(GoneOf(u), GoneOf(u)', m, DiskOf(u)', HeldOf(u)')
        /\ s # u => GoneOf(s)' = GoneOf(s)
    BY <1>3, TakeLine DEF OrderInv
  <2>2. GoneOf(u) \subseteq GoneOf(u)' BY <2>1 DEF Loses
  <2> QED BY <2>1, <2>2
<1>4. ASSUME NEW p \in VideoPacket, MuxVideo(p) PROVE GoneOf(s) \subseteq GoneOf(s)'
  <2>1. "video" \in Streams /\ Takes("video", p.id) BY <1>1, <1>4, VideoTakes DEF Streams
  <2> QED BY <1>3, <2>1
<1>5. ASSUME NEW p \in AudioPacket, MuxAudio(p) PROVE GoneOf(s) \subseteq GoneOf(s)'
  <2>1. p.track \in Streams /\ Takes(p.track, p.id) BY <1>1, <1>5, AudioTakes, AudioIs
  <2> QED BY <1>3, <2>1
<1>6. CASE MuxFinish
  <2>1. GoneOf(s)' = GoneOf(s) \cup HeldOf(s) BY <1>6, FinishLine DEF OrderInv
  <2> QED BY <2>1
<1> QED BY <1>1, <1>2, <1>4, <1>5, <1>6

\* No stop, failure, full queue or change of segment makes a producer lose a
\* packet it has handed over, for any number of tracks and any limits.
THEOREM OnlyMuxThreadLoses == Spec => LossesAreMuxThreads
<1>1. TypeOK /\ OrderInv /\ [Next]_vars => [LosesAsMux]_vars
  <2> SUFFICES ASSUME TypeOK, OrderInv, [Next]_vars, NEW s \in Streams
               PROVE  GoneOf(s) \subseteq GoneOf(s)' /\ (GoneOf(s)' # GoneOf(s) => MuxNext)
    BY DEF LosesAsMux
  <2>1. CASE MuxNext BY <2>1, MuxGone
  <2>2. CASE ~MuxNext BY <2>2, OutsideOrder DEF Next, Terminated
  <2> QED BY <2>1, <2>2
<1>2. Init => OrderInv BY InitOrder
<1> QED BY <1>1, <1>2, NextOrder, TypeCorrect, PTL DEF Spec, LossesAreMuxThreads
=============================================================================
