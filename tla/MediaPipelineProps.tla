------------------------- MODULE MediaPipelineProps -------------------------
(***************************************************************************)
(* What the packet path of MediaPipeline promises.                         *)
(***************************************************************************)
EXTENDS MediaPipeline

SessionType ==
  /\ stop_requested \in BOOLEAN /\ stop_notify \in BOOLEAN
  /\ failure \in {"None"} \cup Phases
  /\ video_ready \in BOOLEAN /\ audio_track_ready \in [Tracks -> BOOLEAN]
  /\ split_seq \in Nat /\ size_split_armed \in BOOLEAN /\ requests \in Nat
  /\ video_epoch \in Nat /\ audio_epoch \in [Tracks -> Nat]

BufferType ==
  /\ video_premux \in Seq(VideoPacket) /\ audio_premux \in Seq(AudioPacket)
  /\ mux_queue \in Seq(MuxItem)

VideoType ==
  /\ vpc \in {"prepare", "run", "flush", "eos", "done"}
  /\ frame_idx \in Nat
  /\ in_flight \in Seq(VideoPacket) /\ vheld \in Seq(VideoPacket)
  /\ split_armed \in BOOLEAN /\ split_forced_pts \in Nat
  /\ split_last_seq \in Nat /\ current_segment_index \in Nat
  /\ next_auto_threshold \in Nat
  /\ vsent \in Seq(Nat)

AudioType ==
  /\ apc \in [Tracks -> {"prepare", "run", "wait", "flush", "done"}]
  /\ audio_idx \in [Tracks -> Nat] /\ aflush \in [Tracks -> BOOLEAN]
  /\ untimed \in [Tracks -> BOOLEAN]
  /\ asent \in [Tracks -> Seq(Nat)]

SegmentState == [writer : {"none", "open"}, index : Nat,
                 epoch_set : BOOLEAN, epoch : Nat]

WrittenPacket == [seg : Nat, track : {"video"} \cup Tracks, id : Nat,
                  pts : Nat, key : BOOLEAN]

SegmentReport == [index : Nat, succeeded : BOOLEAN, session_end : BOOLEAN]

MuxType ==
  /\ mpc \in {"check", "blocking", "blocked", "open", "premux", "top", "pop",
              "final", "done"}
  /\ seg \in SegmentState
  /\ audio_shift \in [Tracks -> Int]
  /\ audio_shift_resolved \in [Tracks -> BOOLEAN]
  /\ segment_pending_audio \in Seq(AudioPacket)
  /\ write_error \in BOOLEAN /\ video_eos \in BOOLEAN
  /\ audio_eos \in [Tracks -> BOOLEAN] /\ trimmed \in Nat
  /\ written \in Seq(WrittenPacket) /\ reports \in Seq(SegmentReport)

\* Every variable holds a value of its C++ type or its abstraction; in
\* particular no packet gets a negative timestamp by the audio shift or by the
\* rebasing onto its segment, which are unsigned in the code.
TypeOK == SessionType /\ BufferType /\ VideoType /\ AudioType /\ MuxType

-----------------------------------------------------------------------------
\* A session that wrote a file and ended without a failure: what Record()
\* reports as a success.
Completed == mpc = "done" /\ ~HasFailure /\ reports # <<>>

Streams == {"video"} \cup Tracks

\* The packets a thread handed over (to its pre-mux buffer or to the queue).
Sent(s) == IF s = "video" THEN vsent ELSE asent[s]

OnDisk(s, n) ==
  \E j \in 1 .. Len(written) : written[j].track = s /\ written[j].id = n

InOrder ==
  /\ \A s \in Streams : \A k, l \in 1 .. Len(Sent(s)) :
       k < l => Sent(s)[k] < Sent(s)[l]
  /\ \A i, j \in 1 .. Len(written) :
       i < j /\ written[i].track = written[j].track => written[i].id < written[j].id
  /\ \A i \in 1 .. Len(written) :
       \E k \in 1 .. Len(Sent(written[i].track)) : Sent(written[i].track)[k] = written[i].id

\* A file before file n was never opened (open_segment failed at its boundary).
FileMissing(n) ==
  \E m \in 0 .. n - 1 : \A r \in 1 .. Len(reports) : reports[r].index # m

\* The frames a stop may cost: when the queue stays full at a stop the encode
\* loop, or its drain, drops what the encoder still held, and goes on behind it.
DroppedAtStop(n) ==
  /\ vpc \in {"flush", "eos", "done"} /\ n + EncoderDepth >= frame_idx
  /\ \A k \in 1 .. Len(vsent) : vsent[k] # n

VideoGapless ==
  \A i \in 1 .. Len(written), n \in 0 .. frame_idx - 1 :
    written[i].track = "video" /\ n < written[i].id =>
      \/ OnDisk("video", n)
      \/ DroppedAtStop(n)
      \/ /\ FileMissing(written[i].seg)
         /\ \A j \in 1 .. Len(written) :
              written[j].track = "video" /\ written[j].seg = written[i].seg
                => n < written[j].id

\* Each stream is on disk, over all segments, in the order its thread captured
\* it and no packet twice, although a packet passes up to three buffers: the
\* pre-mux gate, the queue, the hold for the segment epoch, the final drain and
\* the segment changes never reorder it.  Of all frames submitted to the
\* encoder, one older than a frame on disk is on disk too, with two exceptions:
\* a file that could not be opened leaves a gap, before the next file and never
\* inside one, and a stop that finds the queue full may leave one among the
\* frames the encoder held at that moment.
PacketsInOrder == InOrder /\ VideoGapless

\* Every file behind a boundary is self-contained: its first video packet is a
\* keyframe at local time 0 (the sentinel and its forced IDR stay adjacent in
\* the queue whatever the audio threads push).
SegmentsSelfContained ==
  \A i \in 1 .. Len(written) :
    /\ written[i].track = "video" /\ written[i].seg > 0
    /\ \A j \in 1 .. i - 1 : written[j].track = "video" => written[j].seg # written[i].seg
    => written[i].key /\ written[i].pts = 0

\* The bound of the mux queue holds with producers that check it one after
\* the other, and what may exceed it is one split sentinel and one
\* end-of-stream sentinel per producer.
QueueBounded ==
  /\ Cardinality({i \in 1 .. Len(mux_queue) :
                    mux_queue[i].kind \in {"video", "audio"}}) <= QueueLimit
  /\ Len(mux_queue) <= QueueLimit + 2 + Cardinality(Tracks)

InQueue(item) == \E i \in 1 .. Len(mux_queue) : mux_queue[i] = item

\* No producer ends silently: MuxThread waits for one end-of-stream sentinel
\* per producer, so a producer that ended has delivered its sentinel, or has
\* recorded the failure that makes MuxThread stop waiting.
NoSilentExit ==
  /\ vpc = "done" =>
       HasFailure \/ video_eos \/ InQueue([kind |-> "video_eos"])
  /\ \A t \in Tracks : apc[t] = "done" =>
       HasFailure \/ audio_eos[t] \/ InQueue([kind |-> "audio_eos", track |-> t])

\* A session reported as a success has every video packet that was handed over
\* in a file, and what it lacks of the frames submitted to the encoder are at
\* most the last EncoderDepth of them: a clean stop that finds the queue or the
\* pre-mux buffer full costs what the encoder still held, never a frame from the
\* middle of the recording.
VideoComplete ==
  Completed =>
    /\ \A k \in 1 .. Len(vsent) : OnDisk("video", vsent[k])
    /\ \A n \in 0 .. frame_idx - 1 :
         n + EncoderDepth < frame_idx => OnDisk("video", n)

AudioSent == {a \in Tracks \X (0 .. MaxAudio) :
               \E j \in 1 .. Len(asent[a[1]]) : asent[a[1]][j] = a[2]}
AudioWritten == {a \in Tracks \X (0 .. MaxAudio) : OnDisk(a[1], a[2])}

\* In a successful session whose tracks start no earlier than the picture,
\* every audio packet that was handed over is in a file or was counted as
\* trimmed.  (Audio dropped because the queue stayed full at a stop was never
\* handed over and is in neither count.)
AudioAccounted ==
  Completed /\ (\A t \in Tracks : audio_shift[t] >= 0)
  => Cardinality(AudioSent) = Cardinality(AudioWritten) + trimmed

\* In a successful session VideoThread's count of boundaries and MuxThread's
\* files agree: one finalized file per boundary plus the last, numbered without
\* holes, and only the last one is reported as the end of the session.
SegmentsMatchBoundaries ==
  Completed =>
    /\ Len(reports) = current_segment_index + 1
    /\ \A i \in 1 .. Len(reports) :
         reports[i] = [index |-> i - 1, succeeded |-> TRUE,
                       session_end |-> (i = Len(reports))]

\* When MuxThread returns, every file it wrote into has been reported through
\* the segment callback, exactly once, even when a write or finalize failed:
\* the recovery manifest depends on it.
WrittenSegmentsReported ==
  mpc = "done" =>
    /\ \A w \in 1 .. Len(written) :
         \E r \in 1 .. Len(reports) : reports[r].index = written[w].seg
    /\ \A r, s \in 1 .. Len(reports) :
         reports[r].index = reports[s].index => r = s

\* MuxThread handles packets only once the video epoch is published, so every
\* audio packet it meets can be aligned: its hold for audio without an epoch
\* and the un-rebased tail flush never run.
VideoEpochBeforeMux ==
  mpc \in {"open", "premux", "top", "pop", "final"} => video_epoch # 0

\* The shift that an epoch of the track gives it on the video timeline.
ShiftOf(epoch) ==
  AudioTimelineShiftNs(
    IF IsPlausibleAudioEpoch(epoch, VideoEpoch, MaxShiftNs)
    THEN epoch ELSE SessionStart, VideoEpoch, MaxShiftNs)

\* The shift of a track is the one its published epoch gives: AudioThread
\* publishes the measurement before the packet that makes MuxThread read it,
\* and never another one.  Only a track whose first packets carried no timestamp
\* may have been placed from the session start before its epoch was known.
ShiftIsMeasured ==
  \A t \in Tracks :
    audio_shift_resolved[t] =>
      \/ audio_shift[t] = ShiftOf(audio_epoch[t])
      \/ untimed[t] /\ audio_shift[t] = ShiftOf(0)

\* A file that has been reported is closed: no later packet goes into it.
ClosedSegmentsStayClosed ==
  [][written' # written =>
       \A r \in 1 .. Len(reports) :
         reports[r].index # written'[Len(written')].seg]_vars

\* After a stop or a failure every producer ends and MuxThread finishes the
\* file, whatever the queue and the buffers held; only a MuxThread that still
\* waits for headers may be left (see HeaderWaitEnds).
StopFinishes ==
  stop_requested ~> (ProducersDone /\ (mpc = "done" \/ (mpc = "blocked" /\ ~BothReady)))

-----------------------------------------------------------------------------
(* Statements of the source that the code does not keep *)

\* "Stop/failure wakes the waiters": a stop ends MuxThread's wait for headers.
HeaderWaitEnds == stop_requested ~> mpc = "done"

\* "puts an audio track's session PTS on the video timeline": an audio packet
\* lies in its file at its own PTS plus the track's shift.  SegEpoch is the
\* session PTS of the segment's first video packet.
SegEpoch(s) == LET firsts == {i \in 1 .. Len(written) :
                                written[i].track = "video" /\ written[i].seg = s}
               IN  IF firsts = {} THEN 0
                   ELSE written[CHOOSE i \in firsts : \A j \in firsts : i <= j].id * FrameNs
AudioOnTimeline ==
  \A i \in 1 .. Len(written) :
    written[i].track # "video" =>
      written[i].pts + SegEpoch(written[i].seg)
        = written[i].id * FrameNs + audio_shift[written[i].track]

\* "Called from EVERY path that first puts frames on the encoder timeline":
\* every track is placed by the epoch it published.
MeasurementIsUsed ==
  \A t \in Tracks :
    audio_shift_resolved[t] => audio_shift[t] = ShiftOf(audio_epoch[t])
=============================================================================
