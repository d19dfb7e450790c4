--------------------------- MODULE SplitBoundary ---------------------------
(***************************************************************************)
(* Split requests and the boundaries they produce, at the granularity of   *)
(* the atomic operations: the GUI thread (RecordingCoordinator and         *)
(* RecorderSession::RequestSplit), the size monitor of MuxThread, and      *)
(* maybeArmSplit / routePacket of VideoThread share the split_request      *)
(* word, split_pending_ and size_split_armed.                              *)
(*                                                                         *)
(* The 64-bit word is the record it packs: its 48-bit sequence cannot wrap *)
(* in a recording.  The encoder is a FIFO of submitted frames; the queue   *)
(* to MuxThread is unbounded here (its bound is MediaPipeline's subject).  *)
(***************************************************************************)
EXTENDS Integers, Sequences

CONSTANTS
  MaxFrames,      \* bound: frames submitted
  MaxPresses,     \* bound: split requests of the user
  EncoderDepth,   \* frames the encoder may hold
  SizeFrames,     \* frames after which a segment reaches split.size_bytes
  AutoFrames      \* split.duration_ms in frames, 0 = disabled

ASSUME SplitBounds ==
  /\ MaxFrames \in Nat /\ MaxPresses \in Nat /\ EncoderDepth \in Nat
  /\ SizeFrames \in Nat \ {0} /\ AutoFrames \in Nat

UserTriggers == {"ManualButton", "Hotkey"}
Triggers == UserTriggers \cup {"AutomaticSize", "AutomaticDuration"}

VARIABLES
  split_request,         \* [sequence, primary_trigger, coalesced_triggers]
  size_split_armed,
  split_pending,         \* RecordingCoordinator::split_pending_
  gui,                   \* GUI thread: <<>> or <<the trigger it is about to post>>
  vpc, request,          \* VideoThread; request is the word it loaded
  frame_idx, in_flight, split_last_seq, split_armed, split_forced, armed,
  next_auto,
  mux_queue, mpc, seg_frames, \* MuxThread
  asks, boundaries, presses

vars == <<split_request, size_split_armed, split_pending, gui, vpc, request,
          frame_idx, in_flight, split_last_seq, split_armed, split_forced, armed,
          next_auto, mux_queue, mpc, seg_frames, asks, boundaries, presses>>

guiVars   == <<split_pending, gui, presses>>
videoVars == <<vpc, request, frame_idx, in_flight, split_last_seq, split_armed,
               split_forced, armed, next_auto, boundaries>>
muxVars   == <<size_split_armed, mpc, seg_frames>>

Word == [sequence : Nat, primary_trigger : Triggers \cup {"none"},
         coalesced_triggers : SUBSET Triggers]

-----------------------------------------------------------------------------
\* Mutants: the request replaces the mask; the sequence counts down.
SplitRequestReplaces(word, trigger) ==
  [sequence |-> word.sequence + 1, primary_trigger |-> trigger,
   coalesced_triggers |-> {trigger}]
SplitRequestCountsDown(word, trigger) ==
  [sequence |-> word.sequence - 1, primary_trigger |-> trigger,
   coalesced_triggers |-> word.coalesced_triggers \cup {trigger}]

\* SplitRequestWith
SplitRequestWith(word, trigger) ==
  [sequence |-> word.sequence + 1, primary_trigger |-> trigger,
   coalesced_triggers |-> word.coalesced_triggers \cup {trigger}]

\* SplitRequestConsumed
SplitRequestConsumed(word) == [word EXCEPT !.coalesced_triggers = {}]

\* The compare-exchange loop of a requester: one atomic update in the end.
Post(trigger) ==
  /\ split_request' = SplitRequestWith(split_request, trigger)
  /\ asks' = Append(asks, [trigger |-> trigger, reached |-> Len(boundaries)])

-----------------------------------------------------------------------------
(* GUI thread *)

\* RecordingCoordinator::RequestSplit: one request of the user at a time.
GuiAccept(trigger) ==
  /\ gui = <<>> /\ presses < MaxPresses /\ ~split_pending
  /\ split_pending' = TRUE
  /\ gui' = <<trigger>>
  /\ presses' = presses + 1
  /\ UNCHANGED <<split_request, mux_queue, videoVars, muxVars, asks>>

\* RecorderSession::RequestSplit on a running recording.
GuiPost ==
  /\ gui # <<>>
  /\ Post(gui[1])
  /\ gui' = <<>>
  /\ UNCHANGED <<split_pending, presses, mux_queue, videoVars, muxVars>>

-----------------------------------------------------------------------------
(* VideoThread *)

\* maybeArmSplit's one load, for the frame about to be submitted.
VideoLoad ==
  /\ vpc = "tick" /\ frame_idx < MaxFrames /\ Len(in_flight) < EncoderDepth
  /\ vpc' = "arm"
  /\ request' = split_request
  /\ UNCHANGED <<split_request, guiVars, frame_idx, in_flight, split_last_seq,
                 split_armed, split_forced, armed, next_auto, boundaries,
                 mux_queue, muxVars, asks>>

Manual    == request.sequence # split_last_seq
Automatic == AutoFrames > 0 /\ frame_idx >= next_auto

\* Mutant: the trigger comes from a second load.
ArmTriggerSecondLoad ==
  IF Manual THEN split_request.primary_trigger ELSE "AutomaticDuration"

ArmTrigger == IF Manual THEN request.primary_trigger ELSE "AutomaticDuration"

\* Mutant: a boundary consumes one request only.
ConsumedOne == split_last_seq + 1

ConsumedUpTo == request.sequence

\* The compare-exchange that clears the mask fails when a request came since.
Consume ==
  split_request' = IF split_request = request THEN SplitRequestConsumed(request)
                                              ELSE split_request

Submit(keys) ==
  \E key \in keys :
    in_flight' = Append(in_flight, [frame |-> frame_idx, key |-> key])

\* The rest of maybeArmSplit, then EncodeFrame.  Frame 0 is a keyframe, later
\* ones are when forced or when the GOP cadence says so.
VideoArm ==
  /\ vpc = "arm"
  /\ vpc' = "tick"
  /\ frame_idx' = frame_idx + 1
  /\ \/ /\ ~split_armed /\ (Manual \/ Automatic)
        /\ split_last_seq' = ConsumedUpTo
        /\ split_armed' = TRUE
        /\ split_forced' = frame_idx
        /\ armed' = [trigger |-> ArmTrigger, mask |-> request.coalesced_triggers,
                     from |-> split_last_seq, upto |-> request.sequence]
        /\ IF Manual THEN Consume ELSE UNCHANGED split_request
        /\ Submit({TRUE})
     \/ /\ split_armed \/ ~(Manual \/ Automatic)
        /\ Submit(IF frame_idx = 0 THEN {TRUE} ELSE BOOLEAN)
        /\ UNCHANGED <<split_request, split_last_seq, split_armed, split_forced, armed>>
  /\ UNCHANGED <<guiVars, request, next_auto, boundaries, mux_queue, muxVars, asks>>

\* Mutant: the first keyframe that is routed carries the sentinel.
SentinelAnyKeyframe(pkt) == split_armed /\ pkt.key

ShouldEmitSplitSentinel(pkt) ==
  split_armed /\ pkt.key /\ pkt.frame >= split_forced

\* routePacket of the oldest completed frame.
VideoRoute ==
  /\ vpc = "tick" /\ in_flight # <<>>
  /\ in_flight' = Tail(in_flight)
  /\ LET pkt == Head(in_flight) IN
     \/ /\ ShouldEmitSplitSentinel(pkt)
        /\ boundaries' = Append(boundaries,
             [trigger |-> armed.trigger, mask |-> armed.mask, from |-> armed.from,
              upto |-> armed.upto, forced |-> split_forced, first |-> pkt.frame])
        /\ mux_queue' = mux_queue \o <<"split", "frame">>
        /\ split_armed' = FALSE
        /\ next_auto' = pkt.frame + AutoFrames
     \/ /\ ~ShouldEmitSplitSentinel(pkt)
        /\ mux_queue' = Append(mux_queue, "frame")
        /\ UNCHANGED <<boundaries, split_armed, next_auto>>
  /\ UNCHANGED <<split_request, guiVars, vpc, request, frame_idx, split_last_seq,
                 split_forced, armed, muxVars, asks>>

-----------------------------------------------------------------------------
(* MuxThread *)

MuxFrame ==
  /\ mpc = "idle" /\ mux_queue # <<>> /\ Head(mux_queue) = "frame"
  /\ mux_queue' = Tail(mux_queue)
  /\ seg_frames' = seg_frames + 1
  /\ UNCHANGED <<split_request, guiVars, videoVars, size_split_armed, mpc,
                 asks>>

\* Mutant: the pending flag is not consumed by the boundary.
MuxSplitKeepsPending ==
  /\ mpc = "idle" /\ mux_queue # <<>> /\ Head(mux_queue) = "split"
  /\ mux_queue' = Tail(mux_queue)
  /\ size_split_armed' = FALSE
  /\ seg_frames' = 0
  /\ UNCHANGED <<split_request, guiVars, videoVars, mpc, asks>>

\* begin_new_segment: the finalized file is reported to OnSegmentCompleted,
\* which consumes split_pending_ whoever asked for this boundary; then the
\* size monitor is re-armed for the new file.
MuxSplit ==
  /\ mpc = "idle" /\ mux_queue # <<>> /\ Head(mux_queue) = "split"
  /\ mux_queue' = Tail(mux_queue)
  /\ split_pending' = FALSE
  /\ size_split_armed' = FALSE
  /\ seg_frames' = 0
  /\ UNCHANGED <<split_request, gui, presses, videoVars, mpc, asks>>

\* sample_mux_diagnostics when the queue is drained: the guard, then the post.
MuxSizeReached ==
  /\ mpc = "idle" /\ mux_queue = <<>>
  /\ seg_frames >= SizeFrames /\ ~size_split_armed
  /\ size_split_armed' = TRUE
  /\ mpc' = "post"
  /\ UNCHANGED <<split_request, guiVars, videoVars, mux_queue, seg_frames,
                 asks>>

MuxSizePost ==
  /\ mpc = "post"
  /\ Post("AutomaticSize")
  /\ mpc' = "idle"
  /\ UNCHANGED <<guiVars, videoVars, mux_queue, size_split_armed, seg_frames>>

-----------------------------------------------------------------------------
NoBoundary == [trigger |-> "none", mask |-> {}, from |-> 0, upto |-> 0]

Init ==
  /\ split_request = [sequence |-> 0, primary_trigger |-> "none",
                      coalesced_triggers |-> {}]
  /\ size_split_armed = FALSE /\ split_pending = FALSE /\ gui = <<>>
  /\ vpc = "tick" /\ request = split_request
  /\ frame_idx = 0 /\ in_flight = <<>> /\ split_last_seq = 0
  /\ split_armed = FALSE /\ split_forced = 0 /\ armed = NoBoundary
  /\ next_auto = AutoFrames
  /\ mux_queue = <<>> /\ mpc = "idle" /\ seg_frames = 0
  /\ asks = <<>> /\ boundaries = <<>> /\ presses = 0

\* The bound on frames is reached and everything is routed and written.
Finished ==
  /\ vpc = "tick" /\ frame_idx = MaxFrames /\ in_flight = <<>>
  /\ mux_queue = <<>> /\ mpc = "idle" /\ gui = <<>>
  /\ UNCHANGED vars

GuiNext == (\E trigger \in UserTriggers : GuiAccept(trigger)) \/ GuiPost
VideoNext == VideoLoad \/ VideoArm \/ VideoRoute
MuxNext == MuxFrame \/ MuxSplit \/ MuxSizeReached \/ MuxSizePost

Next == GuiNext \/ VideoNext \/ MuxNext \/ Finished

Spec == Init /\ [][Next]_vars
-----------------------------------------------------------------------------
WordType == split_request \in Word /\ request \in Word

FlagType ==
  /\ size_split_armed \in BOOLEAN /\ split_pending \in BOOLEAN
  /\ split_armed \in BOOLEAN
  /\ vpc \in {"tick", "arm"} /\ mpc \in {"idle", "post"}

CountType ==
  /\ frame_idx \in Nat /\ split_last_seq \in Nat /\ split_forced \in Nat
  /\ next_auto \in Nat /\ seg_frames \in Nat /\ presses \in Nat

Consumption == [trigger : Triggers \cup {"none"}, mask : SUBSET Triggers,
                from : Nat, upto : Nat]
Boundary == [trigger : Triggers \cup {"none"}, mask : SUBSET Triggers,
             from : Nat, upto : Nat, forced : Nat, first : Nat]

QueueType ==
  /\ gui \in Seq(UserTriggers)
  /\ in_flight \in Seq([frame : Nat, key : BOOLEAN])
  /\ mux_queue \in Seq({"split", "frame"})

HistoryType ==
  /\ armed \in Consumption
  /\ asks \in Seq([trigger : Triggers, reached : Nat])
  /\ boundaries \in Seq(Boundary)

\* Every variable holds a value of its C++ type or its abstraction; the
\* request word never leaves the range its packing can represent.
TypeOK == WordType /\ FlagType /\ CountType /\ QueueType /\ HistoryType

ByRequest(b) == b.from < b.upto

\* A boundary names the trigger of the very request whose sequence it
\* consumed, although requests of two threads may land while it is being
\* armed: sequence and trigger travel in one word.
TriggerAttributed ==
  \A i \in DOMAIN boundaries :
    ByRequest(boundaries[i]) =>
      boundaries[i].trigger = asks[boundaries[i].upto].trigger

\* The mask of a boundary misses none of the requests it consumed: two
\* requesters and the consumer never overwrite each other's bits.
MaskComplete ==
  \A i \in DOMAIN boundaries :
    \A n \in boundaries[i].from + 1 .. boundaries[i].upto :
      asks[n].trigger \in boundaries[i].mask

\* Boundaries consume the requests in order, each request exactly once and
\* none that was never made.
RequestsConsumedOnce ==
  \A i \in DOMAIN boundaries :
    /\ boundaries[i].from = (IF i = 1 THEN 0 ELSE boundaries[i - 1].upto)
    /\ boundaries[i].from <= boundaries[i].upto
    /\ boundaries[i].upto <= Len(asks)

\* The flag that refuses further requests of the user never outlives its
\* boundary: while it is set, the request is being posted, waits in the word,
\* is armed, or its sentinel (or an earlier one) is on its way to MuxThread,
\* whose callback clears the flag.
PendingReachesBoundary ==
  split_pending =>
    \/ gui # <<>>
    \/ split_request.sequence # split_last_seq
    \/ split_armed
    \/ \E i \in DOMAIN mux_queue : mux_queue[i] = "split"

\* A new file starts with exactly the frame whose IDR was forced for it, never
\* with a keyframe that was already in the encoder when the boundary was armed.
BoundaryOnForcedFrame ==
  \A i \in DOMAIN boundaries : boundaries[i].first = boundaries[i].forced

-----------------------------------------------------------------------------
(* The inductive strengthening of the four invariants above *)

\* A request word stands for the requests made when it was read.
WordCurrent(word) ==
  /\ word.sequence <= Len(asks)
  /\ word.sequence > 0 => word.primary_trigger = asks[word.sequence].trigger
  /\ \A n \in split_last_seq + 1 .. word.sequence :
       asks[n].trigger \in word.coalesced_triggers

\* What a consumption (the armed one, or a boundary) says of the requests.
ConsumptionSound(c) ==
  /\ c.from <= c.upto /\ c.upto <= Len(asks)
  /\ ByRequest(c) => c.trigger = asks[c.upto].trigger
  /\ \A n \in c.from + 1 .. c.upto : asks[n].trigger \in c.mask

\* The last request some boundary consumed.
Reached == IF boundaries = <<>> THEN 0 ELSE boundaries[Len(boundaries)].upto

RequestInv ==
  /\ split_request.sequence = Len(asks)
  /\ split_last_seq <= request.sequence
  /\ WordCurrent(split_request)
  /\ vpc = "arm" => WordCurrent(request)
  /\ request.sequence <= Len(asks)

ConsumeInv ==
  /\ split_armed => /\ ConsumptionSound(armed)
                    /\ armed.from = Reached /\ armed.upto = split_last_seq
  /\ ~split_armed => split_last_seq = Reached
  /\ \A i \in DOMAIN boundaries : ConsumptionSound(boundaries[i])
  /\ RequestsConsumedOnce

\* The frames in the encoder are consecutive, and while a boundary is armed
\* its forced keyframe is one of them.
FrameInv ==
  /\ Len(in_flight) <= frame_idx
  /\ \A k \in DOMAIN in_flight :
       in_flight[k].frame = frame_idx - Len(in_flight) + k - 1
  /\ split_armed =>
       \E k \in DOMAIN in_flight :
         in_flight[k].frame = split_forced /\ in_flight[k].key
  /\ BoundaryOnForcedFrame

-----------------------------------------------------------------------------
(* Statements of the source that the code does not keep *)

\* recorder_session.h on RequestSplit: "Coalesced: repeated requests before the
\* previous boundary is reached count as one."  So a boundary made by requests
\* was asked for at least once after the previous boundary was reached.
RepeatedRequestsCountAsOne ==
  \A i \in DOMAIN boundaries :
    ByRequest(boundaries[i]) =>
      \E n \in boundaries[i].from + 1 .. boundaries[i].upto :
        asks[n].reached >= i - 1
=============================================================================
