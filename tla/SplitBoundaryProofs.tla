------------------------ MODULE SplitBoundaryProofs ------------------------
(***************************************************************************)
(* The split-boundary invariants of SplitBoundary, proved for any number   *)
(* of requests, frames and any encoder depth.                              *)
(***************************************************************************)
EXTENDS SplitBoundary, TLAPS

USE DEF guiVars, videoVars, muxVars

\* The head of a non-empty queue is an item, its tail is a queue.
LEMMA HeadTailType ==
  ASSUME NEW S, NEW q \in Seq(S), q # <<>>
  PROVE  Head(q) \in S /\ Tail(q) \in Seq(S)
OBVIOUS

\* Queues grow at their end.
LEMMA GrowType ==
  ASSUME NEW S, NEW q \in Seq(S), NEW r \in Seq(S), NEW x \in S
  PROVE  q \o r \in Seq(S) /\ Append(q, x) \in Seq(S)
OBVIOUS

LEMMA ElementType ==
  ASSUME NEW S, NEW q \in Seq(S), NEW i \in DOMAIN q
  PROVE  q[i] \in S
OBVIOUS

-----------------------------------------------------------------------------
(* Type correctness *)

LEMMA InitType == Init => TypeOK
<1> SUFFICES ASSUME Init PROVE TypeOK
  OBVIOUS
<1>1. WordType
  BY DEF Init, WordType, Word, Triggers, UserTriggers
<1>2. FlagType
  BY DEF Init, FlagType
<1>3. CountType
  BY SplitBounds DEF Init, CountType, SplitBounds
<1>4. QueueType
  BY DEF Init, QueueType
<1>5. HistoryType
  BY DEF Init, HistoryType, Consumption, NoBoundary, Triggers
<1> QED
  BY <1>1, <1>2, <1>3, <1>4, <1>5 DEF TypeOK

\* Posting a request keeps the word and the history well typed.
LEMMA PostType ==
  ASSUME TypeOK, NEW trigger \in Triggers, Post(trigger)
  PROVE  /\ split_request' \in Word
         /\ asks' \in Seq([trigger : Triggers, reached : Nat])
<1>1. split_request' \in Word
  BY DEF TypeOK, WordType, Word, Post, SplitRequestWith
<1>2. Len(boundaries) \in Nat
  BY DEF TypeOK, HistoryType
<1>3. [trigger |-> trigger, reached |-> Len(boundaries)]
        \in [trigger : Triggers, reached : Nat]
  BY <1>2
<1>4. asks' \in Seq([trigger : Triggers, reached : Nat])
  BY <1>3 DEF TypeOK, HistoryType, Post
<1> QED
  BY <1>1, <1>4

LEMMA GuiType == TypeOK /\ GuiNext => TypeOK'
<1> SUFFICES ASSUME TypeOK, GuiNext PROVE TypeOK'
  OBVIOUS
<1>1. ASSUME NEW trigger \in UserTriggers, GuiAccept(trigger) PROVE TypeOK'
  <2>1. CountType'
    BY <1>1 DEF TypeOK, CountType, GuiAccept
  <2>2. QueueType'
    BY <1>1 DEF TypeOK, QueueType, GuiAccept
  <2>3. FlagType'
    BY <1>1 DEF TypeOK, FlagType, GuiAccept
  <2>4. WordType' /\ HistoryType'
    BY <1>1 DEF TypeOK, WordType, HistoryType, GuiAccept
  <2> QED
    BY <2>1, <2>2, <2>3, <2>4 DEF TypeOK
<1>2. ASSUME GuiPost PROVE TypeOK'
  <2>1. gui[1] \in Triggers
    BY <1>2 DEF GuiPost, TypeOK, QueueType, Triggers
  <2>2. /\ split_request' \in Word
        /\ asks' \in Seq([trigger : Triggers, reached : Nat])
    BY <1>2, <2>1, PostType DEF GuiPost
  <2>3. CountType' /\ FlagType'
    BY <1>2 DEF TypeOK, CountType, FlagType, GuiPost
  <2>4. QueueType'
    BY <1>2 DEF TypeOK, QueueType, GuiPost
  <2>5. WordType' /\ HistoryType'
    BY <1>2, <2>2 DEF TypeOK, WordType, HistoryType, GuiPost
  <2> QED
    BY <2>3, <2>4, <2>5 DEF TypeOK
<1> QED
  BY <1>1, <1>2 DEF GuiNext

LEMMA MuxType == TypeOK /\ MuxNext => TypeOK'
<1> SUFFICES ASSUME TypeOK, MuxNext PROVE TypeOK'
  OBVIOUS
<1>1. CASE MuxFrame
  <2>1. CountType' /\ FlagType'
    BY <1>1 DEF TypeOK, CountType, FlagType, MuxFrame
  <2>2. QueueType'
    BY <1>1 DEF TypeOK, QueueType, MuxFrame
  <2>3. WordType' /\ HistoryType'
    BY <1>1 DEF TypeOK, WordType, HistoryType, MuxFrame
  <2> QED
    BY <2>1, <2>2, <2>3 DEF TypeOK
<1>2. CASE MuxSplit
  <2>1. CountType' /\ FlagType'
    BY <1>2 DEF TypeOK, CountType, FlagType, MuxSplit
  <2>2. QueueType'
    BY <1>2 DEF TypeOK, QueueType, MuxSplit
  <2>3. WordType' /\ HistoryType'
    BY <1>2 DEF TypeOK, WordType, HistoryType, MuxSplit
  <2> QED
    BY <2>1, <2>2, <2>3 DEF TypeOK
<1>3. CASE MuxSizeReached
  <2>1. CountType' /\ FlagType'
    BY <1>3 DEF TypeOK, CountType, FlagType, MuxSizeReached
  <2>2. QueueType'
    BY <1>3 DEF TypeOK, QueueType, MuxSizeReached
  <2>3. WordType' /\ HistoryType'
    BY <1>3 DEF TypeOK, WordType, HistoryType, MuxSizeReached
  <2> QED
    BY <2>1, <2>2, <2>3 DEF TypeOK
<1>4. CASE MuxSizePost
  <2>1. /\ split_request' \in Word
        /\ asks' \in Seq([trigger : Triggers, reached : Nat])
    BY <1>4, PostType DEF MuxSizePost, Triggers
  <2>2. CountType' /\ FlagType'
    BY <1>4 DEF TypeOK, CountType, FlagType, MuxSizePost
  <2>3. QueueType'
    BY <1>4 DEF TypeOK, QueueType, MuxSizePost
  <2>4. WordType' /\ HistoryType'
    BY <1>4, <2>1 DEF TypeOK, WordType, HistoryType, MuxSizePost
  <2> QED
    BY <2>2, <2>3, <2>4 DEF TypeOK
<1> QED
  BY <1>1, <1>2, <1>3, <1>4 DEF MuxNext

LEMMA VideoType == TypeOK /\ VideoNext => TypeOK'
<1> SUFFICES ASSUME TypeOK, VideoNext PROVE TypeOK'
  OBVIOUS
<1>1. CASE VideoLoad
  <2>1. CountType' /\ FlagType'
    BY <1>1 DEF TypeOK, CountType, FlagType, VideoLoad
  <2>2. QueueType'
    BY <1>1 DEF TypeOK, QueueType, VideoLoad
  <2>3. WordType' /\ HistoryType'
    BY <1>1 DEF TypeOK, WordType, HistoryType, VideoLoad
  <2> QED
    BY <2>1, <2>2, <2>3 DEF TypeOK
<1>2. CASE VideoArm
  <2>1. CountType' /\ FlagType'
    <3>1. split_armed' \in BOOLEAN
      BY <1>2 DEF TypeOK, FlagType, VideoArm
    <3>2. split_last_seq' \in Nat /\ split_forced' \in Nat
      BY <1>2 DEF TypeOK, CountType, WordType, Word, VideoArm, ConsumedUpTo
    <3>3. CountType'
      BY <1>2, <3>2 DEF TypeOK, CountType, VideoArm
    <3>4. FlagType'
      BY <1>2, <3>1 DEF TypeOK, FlagType, VideoArm
    <3> QED
      BY <3>3, <3>4
  <2>2. split_request' \in Word
    BY <1>2 DEF TypeOK, WordType, Word, VideoArm, Consume, SplitRequestConsumed
  <2>3. armed' \in Consumption
    BY <1>2 DEF TypeOK, WordType, Word, CountType, HistoryType, Consumption,
                VideoArm, ArmTrigger, Triggers
  <2>4. in_flight' \in Seq([frame : Nat, key : BOOLEAN])
    <3>1. ASSUME NEW key \in BOOLEAN
          PROVE  Append(in_flight, [frame |-> frame_idx, key |-> key])
                   \in Seq([frame : Nat, key : BOOLEAN])
      <4>1. [frame |-> frame_idx, key |-> key] \in [frame : Nat, key : BOOLEAN]
        BY DEF TypeOK, CountType
      <4> QED
        BY <4>1 DEF TypeOK, QueueType
    <3>2. PICK key \in BOOLEAN :
            in_flight' = Append(in_flight, [frame |-> frame_idx, key |-> key])
      BY <1>2 DEF VideoArm, Submit
    <3> QED
      BY <3>1, <3>2
  <2>5. QueueType' /\ WordType' /\ HistoryType'
    BY <1>2, <2>2, <2>3, <2>4 DEF TypeOK, QueueType, WordType, HistoryType, VideoArm
  <2> QED
    BY <2>1, <2>5 DEF TypeOK
<1>3. CASE VideoRoute
  <2>0. /\ Head(in_flight) \in [frame : Nat, key : BOOLEAN]
        /\ Tail(in_flight) \in Seq([frame : Nat, key : BOOLEAN])
    <3>1. in_flight # <<>> /\ in_flight \in Seq([frame : Nat, key : BOOLEAN])
      BY <1>3 DEF TypeOK, QueueType, VideoRoute
    <3> QED
      BY <3>1, HeadTailType
  <2>1. CountType' /\ FlagType'
    <3>1. next_auto' \in Nat
      BY <1>3, <2>0, SplitBounds DEF TypeOK, CountType, VideoRoute, SplitBounds
    <3> QED
      BY <1>3, <3>1 DEF TypeOK, CountType, FlagType, VideoRoute
  <2>2. boundaries' \in Seq(Boundary)
    <3>1. CASE boundaries' = boundaries
      BY <3>1 DEF TypeOK, HistoryType
    <3>2. CASE boundaries' = Append(boundaries,
             [trigger |-> armed.trigger, mask |-> armed.mask, from |-> armed.from,
              upto |-> armed.upto, forced |-> split_forced,
              first |-> Head(in_flight).frame])
      <4>1. [trigger |-> armed.trigger, mask |-> armed.mask, from |-> armed.from,
             upto |-> armed.upto, forced |-> split_forced,
             first |-> Head(in_flight).frame] \in Boundary
        BY <2>0 DEF TypeOK, HistoryType, CountType, Consumption, Boundary
      <4> QED
        BY <3>2, <4>1 DEF TypeOK, HistoryType
    <3> QED
      BY <1>3, <3>1, <3>2 DEF VideoRoute
  <2>3. mux_queue' \in Seq({"split", "frame"})
    <3>1. \/ mux_queue' = mux_queue \o <<"split", "frame">>
          \/ mux_queue' = Append(mux_queue, "frame")
      BY <1>3 DEF VideoRoute
    <3>2. <<"split", "frame">> \in Seq({"split", "frame"})
      OBVIOUS
    <3> QED
      BY <3>1, <3>2, GrowType DEF TypeOK, QueueType
  <2>4. QueueType' /\ WordType' /\ HistoryType'
    BY <1>3, <2>0, <2>2, <2>3 DEF TypeOK, QueueType, WordType, HistoryType, VideoRoute
  <2> QED
    BY <2>1, <2>4 DEF TypeOK
<1> QED
  BY <1>1, <1>2, <1>3 DEF VideoNext

LEMMA StutterType == TypeOK /\ UNCHANGED vars => TypeOK'
<1> SUFFICES ASSUME TypeOK, UNCHANGED vars PROVE TypeOK'
  OBVIOUS
<1>1. WordType' /\ FlagType' /\ CountType'
  BY DEF TypeOK, WordType, FlagType, CountType, vars
<1>2. QueueType' /\ HistoryType'
  BY DEF TypeOK, QueueType, HistoryType, vars
<1> QED
  BY <1>1, <1>2 DEF TypeOK

LEMMA NextType == TypeOK /\ [Next]_vars => TypeOK'
BY GuiType, MuxType, VideoType, StutterType DEF Next, Finished

\* Every reachable state is well typed.
THEOREM TypeCorrect == Spec => []TypeOK
BY InitType, NextType, PTL DEF Spec

-----------------------------------------------------------------------------
(* Requests and what boundaries consume of them *)

RInv == TypeOK /\ RequestInv /\ ConsumeInv

\* What the request invariants read.
requestVars == <<split_request, request, vpc, split_last_seq, split_armed, armed,
                 boundaries, asks>>

LEMMA InitRequest == Init => RequestInv /\ ConsumeInv
<1> SUFFICES ASSUME Init PROVE RequestInv /\ ConsumeInv
  OBVIOUS
<1>1. RequestInv
  BY DEF Init, RequestInv, WordCurrent
<1>2. ConsumeInv
  BY DEF Init, ConsumeInv, Reached, RequestsConsumedOnce
<1> QED
  BY <1>1, <1>2

LEMMA RequestUnchanged ==
  RInv /\ UNCHANGED requestVars => RequestInv' /\ ConsumeInv'
<1> SUFFICES ASSUME RInv, UNCHANGED requestVars PROVE RequestInv' /\ ConsumeInv'
  OBVIOUS
<1>1. RequestInv'
  BY DEF RInv, requestVars, RequestInv, WordCurrent
<1>2. ConsumeInv'
  BY DEF RInv, requestVars, ConsumeInv, ConsumptionSound, Reached,
         RequestsConsumedOnce, ByRequest
<1> QED
  BY <1>1, <1>2

LEMMA BoundaryNat ==
  ASSUME TypeOK, NEW i \in DOMAIN boundaries
  PROVE  boundaries[i].from \in Nat /\ boundaries[i].upto \in Nat
<1>1. boundaries[i] \in Boundary
  BY ElementType DEF TypeOK, HistoryType
<1> QED
  BY <1>1 DEF Boundary

\* A new request only appends to the history of requests.
LEMMA AsksGrow ==
  ASSUME TypeOK, NEW trigger \in Triggers, Post(trigger)
  PROVE  /\ Len(asks') = Len(asks) + 1
         /\ \A n \in 1 .. Len(asks) : asks'[n] = asks[n]
         /\ asks'[Len(asks) + 1].trigger = trigger
BY DEF TypeOK, HistoryType, Post

LEMMA PostRequest ==
  ASSUME RInv, NEW trigger \in Triggers, Post(trigger),
         UNCHANGED <<request, vpc, split_last_seq, split_armed, armed, boundaries>>
  PROVE  RequestInv' /\ ConsumeInv'
<1>1. /\ Len(asks') = Len(asks) + 1
      /\ \A n \in 1 .. Len(asks) : asks'[n] = asks[n]
      /\ asks'[Len(asks) + 1].trigger = trigger
  BY AsksGrow DEF RInv
<1>2. /\ Len(asks) \in Nat /\ split_last_seq \in Nat
      /\ request.sequence \in Nat /\ split_request \in Word
  BY DEF RInv, TypeOK, HistoryType, CountType, WordType, Word
<1>3. /\ split_request'.sequence = Len(asks) + 1
      /\ split_request'.primary_trigger = trigger
      /\ split_request'.coalesced_triggers
           = split_request.coalesced_triggers \cup {trigger}
  BY <1>2 DEF RInv, RequestInv, Post, SplitRequestWith
<1>4. WordCurrent(split_request)'
  BY <1>1, <1>2, <1>3 DEF RInv, RequestInv, WordCurrent
<1>5. vpc = "arm" => WordCurrent(request)'
  BY <1>1, <1>2 DEF RInv, RequestInv, WordCurrent
<1>6. RequestInv'
  BY <1>1, <1>2, <1>3, <1>4, <1>5 DEF RInv, RequestInv
<1>7. split_armed => ConsumptionSound(armed)'
  <2>1. armed.from \in Nat /\ armed.upto \in Nat
    BY DEF RInv, TypeOK, HistoryType, Consumption
  <2> QED
    BY <1>1, <1>2, <2>1 DEF RInv, ConsumeInv, ConsumptionSound, ByRequest
<1>8. \A i \in DOMAIN boundaries : ConsumptionSound(boundaries[i])'
  <2> SUFFICES ASSUME NEW i \in DOMAIN boundaries
               PROVE  ConsumptionSound(boundaries[i])'
    OBVIOUS
  <2>1. boundaries[i].from \in Nat /\ boundaries[i].upto \in Nat
    BY BoundaryNat DEF RInv
  <2>2. ConsumptionSound(boundaries[i])
    BY DEF RInv, ConsumeInv
  <2> QED
    BY <1>1, <1>2, <2>1, <2>2 DEF ConsumptionSound, ByRequest
<1>9. RequestsConsumedOnce'
  <2> SUFFICES ASSUME NEW i \in DOMAIN boundaries
               PROVE  boundaries[i].upto <= Len(asks')
    BY DEF RInv, ConsumeInv, RequestsConsumedOnce
  <2>1. boundaries[i].upto \in Nat
    BY BoundaryNat DEF RInv
  <2> QED
    BY <1>1, <1>2, <2>1 DEF RInv, ConsumeInv, RequestsConsumedOnce
<1>10. ConsumeInv'
  BY <1>7, <1>8, <1>9 DEF RInv, ConsumeInv, Reached
<1> QED
  BY <1>6, <1>10

LEMMA LoadRequest == RInv /\ VideoLoad => RequestInv' /\ ConsumeInv'
<1> SUFFICES ASSUME RInv, VideoLoad PROVE RequestInv' /\ ConsumeInv'
  OBVIOUS
<1>1. /\ request' = split_request
      /\ UNCHANGED <<split_request, split_last_seq, asks, split_armed, armed,
                     boundaries>>
  BY DEF VideoLoad
<1>2. /\ Len(asks) \in Nat /\ split_last_seq \in Nat /\ request.sequence \in Nat
  BY DEF RInv, TypeOK, HistoryType, CountType, WordType, Word
<1>3. RequestInv'
  BY <1>1, <1>2 DEF RInv, RequestInv, WordCurrent
<1>4. ConsumeInv'
  BY <1>1 DEF RInv, ConsumeInv, ConsumptionSound, Reached, RequestsConsumedOnce,
              ByRequest
<1> QED
  BY <1>3, <1>4

\* Arming consumes the requests of the loaded word, all of them and no more.
LEMMA ArmRequest == RInv /\ VideoArm => RequestInv' /\ ConsumeInv'
<1> SUFFICES ASSUME RInv, VideoArm PROVE RequestInv' /\ ConsumeInv'
  OBVIOUS
<1>1. /\ Len(asks) \in Nat /\ split_last_seq \in Nat
      /\ request \in Word /\ split_request \in Word
  BY DEF RInv, TypeOK, HistoryType, CountType, WordType
<1>2. /\ split_request.sequence = Len(asks) /\ split_last_seq <= request.sequence
      /\ request.sequence <= Len(asks)
      /\ WordCurrent(split_request) /\ WordCurrent(request)
  BY DEF RInv, RequestInv, VideoArm
<1>3. request.sequence \in Nat /\ split_request.sequence \in Nat
  BY <1>1 DEF Word
<1>4. vpc' = "tick" /\ UNCHANGED <<request, boundaries, asks>>
  BY DEF VideoArm
<1>5. CASE ~split_armed /\ (Manual \/ Automatic)
  <2>1. /\ split_last_seq' = request.sequence /\ split_armed'
        /\ armed' = [trigger |-> ArmTrigger, mask |-> request.coalesced_triggers,
                     from |-> split_last_seq, upto |-> request.sequence]
        /\ IF Manual THEN Consume ELSE UNCHANGED split_request
    BY <1>5 DEF VideoArm, ConsumedUpTo
  <2>2. \/ split_request' = split_request
        \/ /\ split_request = request
           /\ split_request' = [request EXCEPT !.coalesced_triggers = {}]
    BY <2>1 DEF Consume, SplitRequestConsumed
  <2>3. RequestInv'
    <3>1. CASE split_request' = split_request
      BY <1>1, <1>2, <1>3, <1>4, <2>1, <3>1 DEF RequestInv, WordCurrent
    <3>2. CASE /\ split_request = request
               /\ split_request' = [request EXCEPT !.coalesced_triggers = {}]
      <4>1. /\ split_request'.sequence = Len(asks)
            /\ split_request'.primary_trigger = split_request.primary_trigger
        BY <1>1, <1>2, <3>2 DEF Word
      <4> QED
        BY <1>1, <1>2, <1>3, <1>4, <2>1, <3>2, <4>1 DEF RequestInv, WordCurrent
    <3> QED
      BY <2>2, <3>1, <3>2
  <2>4. split_last_seq = Reached /\ Reached' = Reached
    BY <1>4, <1>5 DEF RInv, ConsumeInv, Reached
  <2>5. /\ armed'.from = split_last_seq /\ armed'.upto = request.sequence
        /\ armed'.trigger = ArmTrigger
        /\ armed'.mask = request.coalesced_triggers
    BY <2>1
  <2>6. ConsumptionSound(armed)'
    BY <1>1, <1>2, <1>3, <1>4, <2>5
       DEF ConsumptionSound, ByRequest, ArmTrigger, Manual, WordCurrent
  <2>7. /\ \A i \in DOMAIN boundaries' : ConsumptionSound(boundaries[i])'
        /\ RequestsConsumedOnce'
    BY <1>4 DEF RInv, ConsumeInv, ConsumptionSound, ByRequest, RequestsConsumedOnce
  <2> QED
    BY <2>1, <2>3, <2>4, <2>5, <2>6, <2>7 DEF ConsumeInv
<1>6. CASE split_armed \/ ~(Manual \/ Automatic)
  <2>1. UNCHANGED <<split_request, split_last_seq, split_armed, armed>>
    BY <1>6 DEF VideoArm
  <2>2. RequestInv'
    BY <1>2, <1>4, <2>1 DEF RequestInv, WordCurrent
  <2>3. ConsumeInv'
    BY <1>4, <2>1 DEF RInv, ConsumeInv, ConsumptionSound, Reached,
                      RequestsConsumedOnce, ByRequest
  <2> QED
    BY <2>2, <2>3
<1> QED
  BY <1>5, <1>6

\* Routing the forced keyframe turns the armed consumption into a boundary.
LEMMA RouteRequest == RInv /\ VideoRoute => RequestInv' /\ ConsumeInv'
<1> SUFFICES ASSUME RInv, VideoRoute PROVE RequestInv' /\ ConsumeInv'
  OBVIOUS
<1>1. UNCHANGED <<split_request, request, vpc, split_last_seq, armed, asks>>
  BY DEF VideoRoute
<1>2. RequestInv'
  BY <1>1 DEF RInv, RequestInv, WordCurrent
<1>3. CASE UNCHANGED <<boundaries, split_armed>>
  BY <1>1, <1>2, <1>3, RequestUnchanged DEF requestVars
<1>4. CASE ~UNCHANGED <<boundaries, split_armed>>
  <2> DEFINE b == [trigger |-> armed.trigger, mask |-> armed.mask,
                   from |-> armed.from, upto |-> armed.upto,
                   forced |-> split_forced, first |-> Head(in_flight).frame]
  <2>1. split_armed /\ ~split_armed' /\ boundaries' = Append(boundaries, b)
    BY <1>4 DEF VideoRoute, ShouldEmitSplitSentinel
  <2> HIDE DEF b
  <2>2. boundaries \in Seq(Boundary)
    BY DEF RInv, TypeOK, HistoryType
  <2>3. /\ b.trigger = armed.trigger /\ b.mask = armed.mask
        /\ b.from = armed.from /\ b.upto = armed.upto
    BY DEF b
  <2>4. /\ ConsumptionSound(armed) /\ armed.from = Reached
        /\ armed.upto = split_last_seq
        /\ \A i \in DOMAIN boundaries : ConsumptionSound(boundaries[i])
        /\ RequestsConsumedOnce
    BY <2>1 DEF RInv, ConsumeInv
  <2>5. /\ Len(boundaries') = Len(boundaries) + 1
        /\ DOMAIN boundaries' = 1 .. Len(boundaries) + 1
        /\ DOMAIN boundaries = 1 .. Len(boundaries)
        /\ Len(boundaries) \in Nat
        /\ \A i \in 1 .. Len(boundaries) : boundaries'[i] = boundaries[i]
        /\ boundaries'[Len(boundaries) + 1] = b
        /\ boundaries' # <<>>
    BY <2>1, <2>2
  <2>6. Reached' = split_last_seq'
    BY <1>1, <2>3, <2>4, <2>5 DEF Reached
  <2>7. ASSUME NEW i \in DOMAIN boundaries'
        PROVE  ConsumptionSound(boundaries[i])'
    <3>1. CASE i = Len(boundaries) + 1
      BY <1>1, <2>3, <2>4, <2>5, <3>1 DEF ConsumptionSound, ByRequest
    <3>2. CASE i \in DOMAIN boundaries
      BY <1>1, <2>4, <2>5, <3>2 DEF ConsumptionSound, ByRequest
    <3> QED
      BY <2>5, <2>7, <3>1, <3>2
  <2>8. RequestsConsumedOnce'
    <3> SUFFICES ASSUME NEW i \in DOMAIN boundaries'
                 PROVE  /\ boundaries'[i].from
                             = (IF i = 1 THEN 0 ELSE boundaries'[i - 1].upto)
                        /\ boundaries'[i].from <= boundaries'[i].upto
                        /\ boundaries'[i].upto <= Len(asks')
      BY DEF RequestsConsumedOnce
    <3>1. CASE i = Len(boundaries) + 1
      <4>1. boundaries'[i] = b
        BY <2>5, <3>1
      <4>2. CASE boundaries = <<>>
        BY <1>1, <2>3, <2>4, <3>1, <4>1, <4>2 DEF Reached, ConsumptionSound
      <4>3. CASE boundaries # <<>>
        <5>1. i # 1 /\ i - 1 = Len(boundaries) /\ i - 1 \in 1 .. Len(boundaries)
          BY <2>2, <2>5, <3>1, <4>3
        <5> QED
          BY <1>1, <2>3, <2>4, <2>5, <4>1, <4>3, <5>1 DEF Reached, ConsumptionSound
      <4> QED
        BY <4>2, <4>3
    <3>2. CASE i \in 1 .. Len(boundaries)
      <4>1. i # 1 => i - 1 \in 1 .. Len(boundaries)
        BY <2>5, <3>2
      <4> QED
        BY <1>1, <2>4, <2>5, <3>2, <4>1 DEF RequestsConsumedOnce
    <3> QED
      BY <2>5, <3>1, <3>2
  <2> QED
    BY <1>2, <2>1, <2>6, <2>7, <2>8 DEF ConsumeInv
<1> QED
  BY <1>3, <1>4

LEMMA NextRequest == RInv /\ [Next]_vars => RInv'
<1> SUFFICES ASSUME RInv, [Next]_vars PROVE RequestInv' /\ ConsumeInv'
  BY NextType DEF RInv
<1>1. CASE GuiNext
  <2>1. ASSUME NEW trigger \in UserTriggers, GuiAccept(trigger)
        PROVE  RequestInv' /\ ConsumeInv'
    BY <2>1, RequestUnchanged DEF GuiAccept, requestVars
  <2>2. CASE GuiPost
    <3>1. gui[1] \in Triggers
      BY <2>2 DEF GuiPost, RInv, TypeOK, QueueType, Triggers
    <3> QED
      BY <2>2, <3>1, PostRequest DEF GuiPost
  <2> QED
    BY <1>1, <2>1, <2>2 DEF GuiNext
<1>2. CASE MuxNext
  <2>1. CASE MuxSizePost
    BY <2>1, PostRequest DEF MuxSizePost, Triggers
  <2>2. CASE MuxFrame \/ MuxSplit \/ MuxSizeReached
    BY <2>2, RequestUnchanged DEF MuxFrame, MuxSplit, MuxSizeReached, requestVars
  <2> QED
    BY <1>2, <2>1, <2>2 DEF MuxNext
<1>3. CASE VideoNext
  BY <1>3, LoadRequest, ArmRequest, RouteRequest DEF VideoNext
<1>4. CASE UNCHANGED vars
  BY <1>4, RequestUnchanged DEF vars, requestVars
<1> QED
  BY <1>1, <1>2, <1>3, <1>4 DEF Next, Finished

LEMMA RequestsInvariant == Spec => []RInv
<1>1. Init => RInv
  BY InitType, InitRequest DEF RInv
<1> QED
  BY <1>1, NextRequest, PTL DEF Spec

\* A boundary names the trigger of the request whose sequence it consumed.
THEOREM TriggersAttributed == Spec => []TriggerAttributed
<1>1. RInv => TriggerAttributed
  BY DEF RInv, ConsumeInv, ConsumptionSound, TriggerAttributed
<1> QED
  BY <1>1, RequestsInvariant, PTL

\* The mask of a boundary misses none of the requests it consumed.
THEOREM MasksComplete == Spec => []MaskComplete
<1>1. RInv => MaskComplete
  BY DEF RInv, ConsumeInv, ConsumptionSound, MaskComplete
<1> QED
  BY <1>1, RequestsInvariant, PTL

\* Boundaries consume the requests in order, each exactly once.
THEOREM ConsumedOnce == Spec => []RequestsConsumedOnce
<1>1. RInv => RequestsConsumedOnce
  BY DEF RInv, ConsumeInv
<1> QED
  BY <1>1, RequestsInvariant, PTL

-----------------------------------------------------------------------------
(* The frame that opens a file *)

FInv == TypeOK /\ FrameInv

LEMMA FrameUnchanged ==
  FInv /\ UNCHANGED <<in_flight, frame_idx, split_armed, split_forced, boundaries>>
    => FrameInv'
BY DEF FInv, FrameInv, BoundaryOnForcedFrame

\* A submitted frame joins the encoder's FIFO; the forced one is a keyframe.
LEMMA ArmFrame == FInv /\ VideoArm => FrameInv'
<1> SUFFICES ASSUME FInv, VideoArm PROVE FrameInv'
  OBVIOUS
<1>1. frame_idx' = frame_idx + 1 /\ boundaries' = boundaries /\ frame_idx \in Nat
  BY DEF VideoArm, FInv, TypeOK, CountType
<1>2. PICK key \in BOOLEAN :
        /\ in_flight' = Append(in_flight, [frame |-> frame_idx, key |-> key])
        /\ \/ key /\ split_armed' /\ split_forced' = frame_idx
           \/ UNCHANGED <<split_armed, split_forced>>
  BY DEF VideoArm, Submit
<1> DEFINE n == Len(in_flight)
<1>3. in_flight \in Seq([frame : Nat, key : BOOLEAN])
  BY DEF FInv, TypeOK, QueueType
<1>4. /\ n \in Nat /\ Len(in_flight') = n + 1
      /\ DOMAIN in_flight = 1 .. n /\ DOMAIN in_flight' = 1 .. n + 1
      /\ \A k \in 1 .. n : in_flight'[k] = in_flight[k]
      /\ in_flight'[n + 1] = [frame |-> frame_idx, key |-> key]
  BY <1>2, <1>3
<1> HIDE DEF n
<1>5. /\ n <= frame_idx
      /\ \A k \in 1 .. n : in_flight[k].frame = frame_idx - n + k - 1
  BY <1>4 DEF FInv, FrameInv, n
<1>6. Len(in_flight') <= frame_idx'
  BY <1>1, <1>4, <1>5
<1>7. \A k \in DOMAIN in_flight' :
        in_flight'[k].frame = frame_idx' - Len(in_flight') + k - 1
  BY <1>1, <1>4, <1>5
<1>8. split_armed' => \E k \in DOMAIN in_flight' :
                        in_flight'[k].frame = split_forced' /\ in_flight'[k].key
  <2>1. CASE key /\ split_armed' /\ split_forced' = frame_idx
    BY <1>4, <2>1
  <2>2. CASE UNCHANGED <<split_armed, split_forced>>
    BY <1>4, <2>2 DEF FInv, FrameInv
  <2> QED
    BY <1>2, <2>1, <2>2
<1>9. BoundaryOnForcedFrame'
  BY <1>1 DEF FInv, FrameInv, BoundaryOnForcedFrame
<1> QED
  BY <1>6, <1>7, <1>8, <1>9 DEF FrameInv

\* The first frame routed at or after the forced one is the forced one.
LEMMA RouteFrame == FInv /\ VideoRoute => FrameInv'
<1> SUFFICES ASSUME FInv, VideoRoute PROVE FrameInv'
  OBVIOUS
<1> DEFINE n == Len(in_flight)
           pkt == Head(in_flight)
<1>1. /\ in_flight \in Seq([frame : Nat, key : BOOLEAN]) /\ in_flight # <<>>
      /\ in_flight' = Tail(in_flight) /\ frame_idx' = frame_idx
      /\ split_forced' = split_forced /\ split_forced \in Nat /\ frame_idx \in Nat
  BY DEF VideoRoute, FInv, TypeOK, QueueType, CountType
<1>2. /\ n \in Nat \ {0} /\ Len(in_flight') = n - 1
      /\ DOMAIN in_flight = 1 .. n /\ DOMAIN in_flight' = 1 .. n - 1
      /\ \A k \in 1 .. n - 1 : in_flight'[k] = in_flight[k + 1]
      /\ pkt = in_flight[1]
  BY <1>1
<1> HIDE DEF n, pkt
<1>3. /\ n <= frame_idx
      /\ \A k \in 1 .. n : in_flight[k].frame = frame_idx - n + k - 1
  BY <1>2 DEF FInv, FrameInv, n
<1>4. Len(in_flight') <= frame_idx'
  BY <1>1, <1>2, <1>3
<1>5. \A k \in DOMAIN in_flight' :
        in_flight'[k].frame = frame_idx' - Len(in_flight') + k - 1
  <2> SUFFICES ASSUME NEW k \in 1 .. n - 1
               PROVE  in_flight'[k].frame = frame_idx' - Len(in_flight') + k - 1
    BY <1>2
  <2>1. k + 1 \in 1 .. n /\ in_flight'[k] = in_flight[k + 1]
    BY <1>2
  <2>2. in_flight[k + 1].frame = frame_idx - n + (k + 1) - 1
    BY <1>3, <2>1
  <2>3. n \in Nat /\ frame_idx \in Nat /\ k \in Nat
    BY <1>1, <1>2
  <2>4. frame_idx - n + (k + 1) - 1 = frame_idx - (n - 1) + k - 1
    BY <2>3
  <2>5. frame_idx' = frame_idx /\ Len(in_flight') = n - 1
    BY <1>1, <1>2
  <2> QED
    BY <2>1, <2>2, <2>4, <2>5
<1>6. CASE ShouldEmitSplitSentinel(pkt)
  <2>1. /\ ~split_armed'
        /\ boundaries' = Append(boundaries,
             [trigger |-> armed.trigger, mask |-> armed.mask, from |-> armed.from,
              upto |-> armed.upto, forced |-> split_forced, first |-> pkt.frame])
    BY <1>6 DEF VideoRoute, pkt
  <2>2. pkt.frame = split_forced
    <3>1. PICK k \in 1 .. n : in_flight[k].frame = split_forced
      BY <1>2, <1>6 DEF FInv, FrameInv, ShouldEmitSplitSentinel
    <3>2. pkt.frame >= split_forced
      BY <1>6 DEF ShouldEmitSplitSentinel
    <3> QED
      BY <1>1, <1>2, <1>3, <3>1, <3>2
  <2>3. BoundaryOnForcedFrame'
    BY <2>1, <2>2 DEF FInv, FrameInv, TypeOK, HistoryType, BoundaryOnForcedFrame
  <2> QED
    BY <1>4, <1>5, <2>1, <2>3 DEF FrameInv
<1>7. CASE ~ShouldEmitSplitSentinel(pkt)
  <2>1. UNCHANGED <<split_armed, boundaries>>
    BY <1>7 DEF VideoRoute, pkt
  <2>2. split_armed' => \E k \in DOMAIN in_flight' :
                          in_flight'[k].frame = split_forced' /\ in_flight'[k].key
    <3> SUFFICES ASSUME split_armed
                 PROVE  \E k \in DOMAIN in_flight' :
                          in_flight'[k].frame = split_forced' /\ in_flight'[k].key
      BY <2>1
    <3>1. PICK k \in 1 .. n : in_flight[k].frame = split_forced /\ in_flight[k].key
      BY <1>2 DEF FInv, FrameInv
    <3>2. k # 1
      BY <1>1, <1>2, <1>7, <3>1 DEF ShouldEmitSplitSentinel
    <3>3. k - 1 \in 1 .. n - 1 /\ in_flight'[k - 1] = in_flight[k]
      BY <1>2, <3>1, <3>2
    <3> QED
      BY <1>1, <1>2, <3>1, <3>3
  <2>3. BoundaryOnForcedFrame'
    BY <2>1 DEF FInv, FrameInv, BoundaryOnForcedFrame
  <2> QED
    BY <1>4, <1>5, <2>2, <2>3 DEF FrameInv
<1> QED
  BY <1>6, <1>7

LEMMA NextFrame == FInv /\ [Next]_vars => FInv'
<1> SUFFICES ASSUME FInv, [Next]_vars PROVE FrameInv'
  BY NextType DEF FInv
<1>1. CASE VideoArm
  BY <1>1, ArmFrame
<1>2. CASE VideoRoute
  BY <1>2, RouteFrame
<1>3. CASE VideoLoad \/ GuiNext \/ MuxNext \/ UNCHANGED vars
  BY <1>3, FrameUnchanged
     DEF VideoLoad, GuiNext, GuiAccept, GuiPost, MuxNext, MuxFrame, MuxSplit,
         MuxSizeReached, MuxSizePost, vars
<1> QED
  BY <1>1, <1>2, <1>3 DEF Next, VideoNext, Finished

\* A new file starts with exactly the frame whose IDR was forced for it.
THEOREM BoundaryStartsForced == Spec => []BoundaryOnForcedFrame
<1>1. Init => FInv
  <2>1. Init => FrameInv
    BY DEF Init, FrameInv, BoundaryOnForcedFrame
  <2> QED
    BY <2>1, InitType DEF FInv
<1>2. FInv => BoundaryOnForcedFrame
  BY DEF FInv, FrameInv
<1> QED
  BY <1>1, <1>2, NextFrame, PTL DEF Spec

-----------------------------------------------------------------------------
(* The pending flag of the coordinator *)

SplitQueued == \E i \in DOMAIN mux_queue : mux_queue[i] = "split"

\* Popping a frame and pushing at the end keep a queued sentinel.
LEMMA SentinelStays ==
  ASSUME TypeOK, SplitQueued,
         \/ mux_queue # <<>> /\ Head(mux_queue) = "frame"
                            /\ mux_queue' = Tail(mux_queue)
         \/ mux_queue' = Append(mux_queue, "frame")
         \/ mux_queue' = mux_queue \o <<"split", "frame">>
         \/ mux_queue' = mux_queue
  PROVE  SplitQueued'
<1>1. mux_queue \in Seq({"split", "frame"})
  BY DEF TypeOK, QueueType
<1>2. PICK i \in 1 .. Len(mux_queue) : mux_queue[i] = "split"
  BY <1>1 DEF SplitQueued
<1>3. CASE mux_queue # <<>> /\ Head(mux_queue) = "frame"
                            /\ mux_queue' = Tail(mux_queue)
  <2>1. i # 1
    BY <1>1, <1>2, <1>3
  <2>2. i - 1 \in DOMAIN mux_queue' /\ mux_queue'[i - 1] = "split"
    BY <1>1, <1>2, <1>3, <2>1
  <2> QED
    BY <2>2 DEF SplitQueued
<1>4. CASE \/ mux_queue' = Append(mux_queue, "frame")
           \/ mux_queue' = mux_queue \o <<"split", "frame">>
           \/ mux_queue' = mux_queue
  <2>1. i \in DOMAIN mux_queue' /\ mux_queue'[i] = "split"
    BY <1>1, <1>2, <1>4
  <2> QED
    BY <2>1 DEF SplitQueued
<1> QED
  BY <1>3, <1>4

LEMMA RoutePending ==
  ASSUME TypeOK, PendingReachesBoundary, VideoRoute
  PROVE  PendingReachesBoundary'
<1>1. CASE ShouldEmitSplitSentinel(Head(in_flight))
  <2>1. mux_queue' = mux_queue \o <<"split", "frame">>
    BY <1>1 DEF VideoRoute
  <2>2. mux_queue \in Seq({"split", "frame"})
    BY DEF TypeOK, QueueType
  <2>3. Len(mux_queue) + 1 \in DOMAIN mux_queue'
          /\ mux_queue'[Len(mux_queue) + 1] = "split"
    BY <2>1, <2>2
  <2> QED
    BY <2>3 DEF PendingReachesBoundary
<1>2. CASE ~ShouldEmitSplitSentinel(Head(in_flight))
  <2>1. /\ mux_queue' = Append(mux_queue, "frame")
        /\ UNCHANGED <<split_pending, gui, split_request, split_last_seq, split_armed>>
    BY <1>2 DEF VideoRoute
  <2> QED
    BY <2>1, SentinelStays DEF PendingReachesBoundary, SplitQueued
<1> QED
  BY <1>1, <1>2

\* A posted request is ahead of the last one VideoThread took.
LEMMA PostPending ==
  ASSUME RInv, NEW trigger, Post(trigger), UNCHANGED split_last_seq
  PROVE  PendingReachesBoundary'
<1>1. /\ split_request.sequence \in Nat /\ split_last_seq \in Nat
      /\ request.sequence \in Nat /\ asks \in Seq([trigger : Triggers, reached : Nat])
  BY DEF RInv, TypeOK, WordType, Word, CountType, HistoryType
<1>2. split_last_seq <= split_request.sequence
  BY <1>1 DEF RInv, RequestInv
<1>3. split_request'.sequence = split_request.sequence + 1
  BY DEF Post, SplitRequestWith
<1>4. split_request'.sequence # split_last_seq'
  BY <1>1, <1>2, <1>3
<1> QED
  BY <1>4 DEF PendingReachesBoundary

LEMMA NextPending ==
  RInv /\ PendingReachesBoundary /\ [Next]_vars => PendingReachesBoundary'
<1> SUFFICES ASSUME RInv, PendingReachesBoundary, [Next]_vars
             PROVE  PendingReachesBoundary'
  OBVIOUS
<1>1. TypeOK
  BY DEF RInv
<1>2. CASE \E trigger \in UserTriggers : GuiAccept(trigger)
  BY <1>2 DEF GuiAccept, PendingReachesBoundary
<1>3. CASE GuiPost \/ MuxSizePost
  BY <1>3, PostPending DEF GuiPost, MuxSizePost
<1>4. CASE VideoLoad \/ MuxSizeReached \/ UNCHANGED vars
  BY <1>4 DEF VideoLoad, MuxSizeReached, vars, PendingReachesBoundary
<1>5. CASE VideoArm
  BY <1>5 DEF VideoArm, PendingReachesBoundary
<1>6. CASE VideoRoute
  BY <1>1, <1>6, RoutePending
<1>7. CASE MuxFrame
  BY <1>1, <1>7, SentinelStays DEF MuxFrame, PendingReachesBoundary, SplitQueued
<1>8. CASE MuxSplit
  BY <1>8 DEF MuxSplit, PendingReachesBoundary
<1> QED
  BY <1>2, <1>3, <1>4, <1>5, <1>6, <1>7, <1>8
     DEF Next, GuiNext, VideoNext, MuxNext, Finished

\* While further requests are refused, the boundary that lifts the refusal is
\* on its way, so a request of the user can never lock the next one out.
THEOREM PendingIsLifted == Spec => []PendingReachesBoundary
<1>1. Init => PendingReachesBoundary
  BY DEF Init, PendingReachesBoundary
<1> QED
  BY <1>1, NextPending, RequestsInvariant, PTL DEF Spec
=============================================================================
