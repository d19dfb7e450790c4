-------------------------- MODULE CaptureHubProofs --------------------------
(* CaptureHub implements CaptureLease, and an answered lease stands, for any
   number of sessions, user steps, faults and pending commands.  The inductive
   invariant has three parts: the shape of the pump's state, the order of the
   serials, and what a published answer says about the gate. *)
EXTENDS CaptureHub, SequenceTheorems, TLAPS

Gates == [leased : BOOLEAN, subscribed : BOOLEAN, deferred : BOOLEAN]
Hubs == [exists : BOOLEAN, capture_open : BOOLEAN, lease_out : BOOLEAN, lost : BOOLEAN]
Posts == [op : Ops \cup {"RunState"}, epoch : Nat]

\* A Subscribe names an epoch; 0 stands for no preview.
Named(c) == c.op = "Subscribe" => c.epoch # 0

TypeInv ==
    /\ queue \in Seq(Lease!Command) /\ batch \in Seq(Lease!Command)
    /\ nextSerial \in Nat /\ ackSerial \in Nat /\ lastReturn \in Nat /\ lease \in Nat
    /\ gate \in Gates /\ hub \in Hubs
    /\ producer \in BOOLEAN /\ subscribed \in BOOLEAN /\ acked \in BOOLEAN
    /\ desired \in Nat /\ epoch \in Nat
    /\ todo \in Seq(Posts)

NamedInv ==
    /\ \A i \in DOMAIN queue : Named(queue[i])
    /\ \A i \in DOMAIN batch : Named(batch[i])
    /\ \A i \in DOMAIN todo : Named(todo[i])

\* What the gate, the registry and the hub say of each other.
ShapeInv ==
    /\ producer => hub.capture_open
    /\ hub.capture_open => hub.exists /\ ~hub.lease_out
    /\ hub.lost => ~hub.lease_out
    /\ hub.exists <=> subscribed
    /\ subscribed => gate.subscribed
    /\ gate.leased /\ hub.exists => hub.lease_out
    /\ gate.subscribed => ~gate.deferred
    /\ gate.subscribed \/ gate.deferred => desired # 0
    /\ pump = "start" => ~subscribed

\* Serials grow along the batch and then the queue, above the last answer.
SerialInv ==
    /\ ackSerial < nextSerial /\ lastReturn < nextSerial
    /\ \A i \in DOMAIN batch : ackSerial < batch[i].serial /\ batch[i].serial < nextSerial
    /\ \A i \in DOMAIN queue : ackSerial < queue[i].serial /\ queue[i].serial < nextSerial
    /\ \A i, j \in DOMAIN batch : i < j => batch[i].serial < batch[j].serial
    /\ \A i, j \in DOMAIN queue : i < j => queue[i].serial < queue[j].serial
    /\ \A i \in DOMAIN batch : \A j \in DOMAIN queue : batch[i].serial < queue[j].serial

\* A return that is still to be applied is no newer than the newest return; the
\* newest answer stands until a newer return; the batch is drained in "apply".
LeaseInv ==
    /\ \A i \in DOMAIN batch : batch[i].op = "LeaseReturn" => batch[i].serial <= lastReturn
    /\ \A i \in DOMAIN queue : queue[i].op = "LeaseReturn" => queue[i].serial <= lastReturn
    /\ lastReturn < ackSerial => gate.leased
    /\ acked => lease <= ackSerial
    /\ pump # "apply" => batch = <<>>
    /\ pump = "ended" => stopping

HubInv == TypeInv /\ NamedInv /\ ShapeInv /\ SerialInv /\ LeaseInv

-----------------------------------------------------------------------------
(* Steps that leave the pump and the queue alone *)

hubVars == <<queue, nextSerial, ackSerial, batch, gate, desired, subscribed, hub, producer, lastReturn, pump>>

LEMMA QuietStep ==
    ASSUME HubInv, UNCHANGED <<hubVars, epoch, lease>>, stopping => stopping',
           todo' \in Seq(Posts), \A i \in DOMAIN todo' : Named(todo'[i]),
           acked' \in BOOLEAN, acked' => lease <= ackSerial
    PROVE  HubInv'
<1>1. TypeInv' BY DEF HubInv, TypeInv, hubVars
<1>2. NamedInv' BY DEF HubInv, NamedInv, Named, hubVars
<1>3. ShapeInv' BY DEF HubInv, ShapeInv, hubVars
<1>4. SerialInv' BY DEF HubInv, SerialInv, hubVars
<1>5. LeaseInv' BY DEF HubInv, LeaseInv, hubVars
<1> QED BY <1>1, <1>2, <1>3, <1>4, <1>5 DEF HubInv

LEMMA StopPosts ==
    ASSUME NEW e \in Nat
    PROVE  /\ StopPreview(e) \in Seq(Posts)
           /\ \A i \in DOMAIN StopPreview(e) : Named(StopPreview(e)[i])
BY DEF StopPreview, Posts, Ops, Named

LEMMA StartPosts ==
    ASSUME NEW e \in Nat
    PROVE  /\ StartPreview(e) \in Seq(Posts)
           /\ \A i \in DOMAIN StartPreview(e) : Named(StartPreview(e)[i])
<1>1. CASE wanted' /\ item'
  <2> DEFINE s == <<[op |-> "Unsubscribe", epoch |-> e + 1], [op |-> "Subscribe", epoch |-> e + 2]>>
  <2>1. s \in Seq(Posts) BY DEF Posts, Ops
  <2>2. \A i \in DOMAIN s : Named(s[i]) BY DEF Named
  <2> QED BY <1>1, <2>1, <2>2 DEF StartPreview
<1>2. CASE ~(wanted' /\ item')
  BY <1>2, StopPosts DEF StartPreview
<1> QED BY <1>1, <1>2

LEMMA RunStateTodo ==
    ASSUME HubInv, NEW run, NEW feeding, RunStatePosts(run, feeding)
    PROVE  /\ todo' \in Seq(Posts)
           /\ \A i \in DOMAIN todo' : Named(todo'[i])
<1>1. epoch \in Nat BY DEF HubInv, TypeInv
<1>2. /\ <<>> \in Seq(Posts)
      /\ \A i \in DOMAIN <<>> : Named(<<>>[i])
  OBVIOUS
<1> QED BY <1>1, <1>2, StopPosts, StartPosts DEF RunStatePosts

LEMMA GuiQuiet ==
    ASSUME HubInv, SetWanted \/ AttachPreviewItem \/ DetachPreviewItem \/ SetPreviewTarget \/ HandlerRunState
    PROVE  HubInv'
<1>1. epoch \in Nat /\ acked \in BOOLEAN /\ (acked => lease <= ackSerial) BY DEF HubInv, TypeInv, LeaseInv
<1>2. /\ todo' \in Seq(Posts)
      /\ \A i \in DOMAIN todo' : Named(todo'[i])
  <2>1. CASE SetWanted BY <2>1, RunStateTodo DEF SetWanted
  <2>2. CASE AttachPreviewItem BY <2>2, RunStateTodo DEF AttachPreviewItem
  <2>3. CASE DetachPreviewItem BY <2>3, <1>1, StopPosts DEF DetachPreviewItem
  <2>4. CASE SetPreviewTarget BY <2>4, <1>1, StartPosts DEF SetPreviewTarget
  <2>5. CASE HandlerRunState BY <2>5, RunStateTodo DEF HandlerRunState
  <2> QED BY <2>1, <2>2, <2>3, <2>4, <2>5
<1>3. UNCHANGED <<hubVars, epoch, lease, acked, stopping>>
  BY DEF SetWanted, AttachPreviewItem, DetachPreviewItem, SetPreviewTarget, HandlerRunState, UserStep, hubVars,
         queueVars, pumpVars, coordVars
<1> QED BY <1>1, <1>2, <1>3, QuietStep

LEMMA GuiStates ==
    ASSUME HubInv, DeliverState \/ Destroy \/ Shutdown \/ StartRecording \/ CancelPreparing \/ FolderValidated
    PROVE  HubInv'
<1>1. epoch \in Nat /\ acked \in BOOLEAN /\ (acked => lease <= ackSerial) BY DEF HubInv, TypeInv, LeaseInv
<1>2. /\ todo \in Seq(Posts)
      /\ \A i \in DOMAIN todo : Named(todo[i])
  BY DEF HubInv, TypeInv, NamedInv
<1>3. /\ todo' \in Seq(Posts)
      /\ \A i \in DOMAIN todo' : Named(todo'[i])
  <2> DEFINE s == <<[op |-> "LeaseReturn", epoch |-> 0], [op |-> "RunState", epoch |-> 0]>>
  <2>1. s \in Seq(Posts) /\ \A i \in DOMAIN s : Named(s[i]) BY DEF Posts, Ops, Named
  <2>2. CASE DeliverState BY <2>1, <2>2, <1>2 DEF DeliverState
  <2>3. CASE Destroy BY <2>3, <1>1, StopPosts DEF Destroy
  <2>4. CASE UNCHANGED todo BY <2>4, <1>2
  <2> QED BY <2>2, <2>3, <2>4 DEF Shutdown, StartRecording, CancelPreparing, FolderValidated, guiVars
<1>4. UNCHANGED <<hubVars, epoch, lease, acked>> /\ (stopping => stopping')
  BY DEF DeliverState, Destroy, Shutdown, StartRecording, CancelPreparing, FolderValidated, hubVars, queueVars,
         pumpVars, coordVars, guiVars
<1> QED BY <1>1, <1>3, <1>4, QuietStep

LEMMA WorkerQuiet ==
    ASSUME HubInv, PrepareEnds \/ HookFlag \/ HookReturns \/ Commit \/ RecordingEnds
    PROVE  HubInv'
<1>1. acked \in BOOLEAN /\ (acked => lease <= ackSerial) BY DEF HubInv, TypeInv, LeaseInv
<1>2. /\ todo \in Seq(Posts)
      /\ \A i \in DOMAIN todo : Named(todo[i])
      /\ lease \in Nat /\ ackSerial \in Nat
  BY DEF HubInv, TypeInv, NamedInv
<1>3. UNCHANGED <<hubVars, epoch, lease, stopping, todo>>
  BY DEF PrepareEnds, HookFlag, HookReturns, Commit, RecordingEnds, WorkerStep, hubVars, queueVars, pumpVars
<1>4. acked' \in BOOLEAN /\ (acked' => lease <= ackSerial)
  <2>1. CASE HookReturns
    <3>1. acked' = (ackSerial >= lease) BY <2>1 DEF HookReturns
    <3>2. (ackSerial >= lease) => lease <= ackSerial BY <1>2
    <3>3. (ackSerial >= lease) \in BOOLEAN BY <1>2
    <3> QED BY <3>1, <3>2, <3>3, Zenon
  <2>2. CASE PrepareEnds \/ HookFlag \/ Commit \/ RecordingEnds
    BY <2>2, <1>1 DEF PrepareEnds, HookFlag, Commit, RecordingEnds
  <2> QED BY <2>1, <2>2
<1> QED BY <1>2, <1>3, <1>4, QuietStep

-----------------------------------------------------------------------------
(* Steps that post a command *)

LEMMA CommandFields ==
    ASSUME NEW s \in Seq(Lease!Command)
    PROVE  \A i \in DOMAIN s : s[i].serial \in Nat /\ s[i].epoch \in Nat /\ s[i].op \in Ops
<1>1. \A i \in DOMAIN s : s[i] \in Lease!Command BY LenProperties
<1> QED BY <1>1 DEF Lease!Command, Ops

LEMMA PostStep ==
    ASSUME HubInv, NEW op \in Ops, NEW e \in Nat, Post(op, e), op = "Subscribe" => e # 0,
           UNCHANGED pumpVars,
           epoch' \in Nat, lease' \in Nat, acked' \in BOOLEAN, acked' => lease' <= ackSerial,
           todo' \in Seq(Posts), \A i \in DOMAIN todo' : Named(todo'[i])
    PROVE  HubInv'
<1> DEFINE c == [op |-> op, serial |-> nextSerial, epoch |-> e]
<1>1. /\ nextSerial \in Nat /\ ackSerial \in Nat /\ lastReturn \in Nat
      /\ queue \in Seq(Lease!Command) /\ batch \in Seq(Lease!Command)
  BY DEF HubInv, TypeInv
<1>2. c \in Lease!Command /\ c.op = op /\ c.serial = nextSerial /\ c.epoch = e
  BY <1>1 DEF Lease!Command, Ops
<1>3. /\ nextSerial' = nextSerial + 1
      /\ ackSerial' = ackSerial /\ stopping' = stopping
      /\ lastReturn' = IF op = "LeaseReturn" THEN nextSerial ELSE lastReturn
      /\ queue' = queue \/ queue' = Append(queue, c)
  BY DEF Post
<1>4. UNCHANGED <<pump, batch, gate, desired, subscribed, hub, producer>> BY DEF pumpVars
<1>5. /\ queue' \in Seq(Lease!Command)
      /\ \A i \in DOMAIN queue' : (i \in DOMAIN queue /\ queue'[i] = queue[i]) \/ queue'[i] = c
      /\ \A i, j \in DOMAIN queue' : i < j => i \in DOMAIN queue /\ queue'[i] = queue[i]
  <2>1. CASE queue' = queue
    <3>1. \A i \in DOMAIN queue' : i \in DOMAIN queue /\ queue'[i] = queue[i] BY <2>1
    <3> QED BY <2>1, <3>1, <1>1
  <2>2. CASE queue' = Append(queue, c)
    <3>1. /\ queue' \in Seq(Lease!Command)
          /\ Len(queue') = Len(queue) + 1
          /\ \A i \in 1 .. Len(queue) : queue'[i] = queue[i]
          /\ queue'[Len(queue) + 1] = c
      BY <2>2, <1>1, <1>2, AppendProperties
    <3>2. DOMAIN queue = 1 .. Len(queue) /\ DOMAIN queue' = 1 .. Len(queue') /\ Len(queue) \in Nat
      BY <3>1, <1>1, LenProperties
    <3>3. \A i \in DOMAIN queue' : i \in 1 .. Len(queue) \/ i = Len(queue) + 1 BY <3>1, <3>2
    <3>4. \A i, j \in DOMAIN queue' : i < j => i \in 1 .. Len(queue) BY <3>1, <3>2
    <3> QED BY <3>1, <3>2, <3>3, <3>4
  <2> QED BY <1>3, <2>1, <2>2
<1>6. TypeInv'
  BY <1>1, <1>3, <1>4, <1>5 DEF HubInv, TypeInv
<1>7. NamedInv'
  BY <1>2, <1>4, <1>5 DEF HubInv, NamedInv, Named
<1>8. ShapeInv'
  BY <1>4 DEF HubInv, ShapeInv
<1>9. SerialInv'
  <2>1. SerialInv BY DEF HubInv
  <2>2. /\ \A i \in DOMAIN queue : queue[i].serial \in Nat
        /\ \A i \in DOMAIN batch : batch[i].serial \in Nat
    BY <1>1, CommandFields
  <2>3. ackSerial' < nextSerial' /\ lastReturn' < nextSerial' BY <2>1, <1>1, <1>3 DEF SerialInv
  <2>4. \A i \in DOMAIN batch' : ackSerial' < batch'[i].serial /\ batch'[i].serial < nextSerial'
    BY <2>1, <2>2, <1>1, <1>3, <1>4 DEF SerialInv
  <2>5. \A i \in DOMAIN queue' : ackSerial' < queue'[i].serial /\ queue'[i].serial < nextSerial'
    <3> SUFFICES ASSUME NEW i \in DOMAIN queue'
                 PROVE  ackSerial < queue'[i].serial /\ queue'[i].serial < nextSerial + 1
      BY <1>3
    <3>1. CASE i \in DOMAIN queue /\ queue'[i] = queue[i] BY <3>1, <2>1, <2>2, <1>1 DEF SerialInv
    <3>2. CASE queue'[i] = c
      <4>1. queue'[i].serial = nextSerial BY <3>2, <1>2
      <4> QED BY <4>1, <2>1, <1>1 DEF SerialInv
    <3> QED BY <3>1, <3>2, <1>5
  <2>6. \A i, j \in DOMAIN batch' : i < j => batch'[i].serial < batch'[j].serial
    BY <2>1, <1>4 DEF SerialInv
  <2>7. \A i, j \in DOMAIN queue' : i < j => queue'[i].serial < queue'[j].serial
    BY <2>1, <1>2, <1>5 DEF SerialInv
  <2>8. \A i \in DOMAIN batch' : \A j \in DOMAIN queue' : batch'[i].serial < queue'[j].serial
    BY <2>1, <1>2, <1>4, <1>5 DEF SerialInv
  <2> QED BY <2>3, <2>4, <2>5, <2>6, <2>7, <2>8 DEF SerialInv
<1>10. LeaseInv'
  <2>1. SerialInv /\ LeaseInv BY DEF HubInv
  <2>2. /\ \A i \in DOMAIN queue : queue[i].serial \in Nat
        /\ \A i \in DOMAIN batch : batch[i].serial \in Nat
    BY <1>1, CommandFields
  <2>3. \A i \in DOMAIN batch' : batch'[i].op = "LeaseReturn" => batch'[i].serial <= lastReturn'
    BY <2>1, <2>2, <1>1, <1>3, <1>4 DEF SerialInv, LeaseInv
  <2>4. \A i \in DOMAIN queue' : queue'[i].op = "LeaseReturn" => queue'[i].serial <= lastReturn'
    <3> SUFFICES ASSUME NEW i \in DOMAIN queue', queue'[i].op = "LeaseReturn"
                 PROVE  queue'[i].serial <= lastReturn'
      OBVIOUS
    <3>1. CASE i \in DOMAIN queue /\ queue'[i] = queue[i]
      BY <3>1, <2>1, <2>2, <1>1, <1>3 DEF SerialInv, LeaseInv
    <3>2. CASE queue'[i] = c
      <4>1. queue'[i].serial = nextSerial /\ op = "LeaseReturn" BY <3>2, <1>2
      <4> QED BY <4>1, <1>1, <1>3
    <3> QED BY <3>1, <3>2, <1>5
  <2>5. lastReturn' < ackSerial' => gate'.leased
    BY <2>1, <1>1, <1>3, <1>4 DEF SerialInv, LeaseInv
  <2> QED BY <2>1, <2>3, <2>4, <2>5, <1>3, <1>4 DEF LeaseInv
<1> QED BY <1>6, <1>7, <1>8, <1>9, <1>10 DEF HubInv

LEMMA HandlerPostsStep ==
    ASSUME HubInv, HandlerPosts
    PROVE  HubInv'
<1>1. todo \in Seq(Posts) /\ todo # <<>> /\ epoch \in Nat /\ \A i \in DOMAIN todo : Named(todo[i])
  BY DEF HubInv, TypeInv, NamedInv, HandlerPosts
<1>2. /\ Head(todo) \in Posts /\ Head(todo) = todo[1] /\ 1 \in DOMAIN todo
      /\ Tail(todo) \in Seq(Posts)
  BY <1>1, HeadTailProperties, EmptySeq, LenProperties
<1>3. \A i \in DOMAIN Tail(todo) : i + 1 \in DOMAIN todo /\ Tail(todo)[i] = todo[i + 1]
  BY <1>1
<1>4. Head(todo).epoch \in Nat /\ Head(todo).op \in Ops /\ Named(Head(todo))
  BY <1>1, <1>2 DEF HandlerPosts, Posts
<1>5. /\ epoch' \in Nat
      /\ todo' \in Seq(Posts) /\ \A i \in DOMAIN todo' : Named(todo'[i])
  BY <1>1, <1>2, <1>3, <1>4 DEF HandlerPosts
<1>6. lease' \in Nat /\ acked' \in BOOLEAN /\ (acked' => lease' <= ackSerial) /\ UNCHANGED <<lease, acked, pumpVars>>
  BY DEF HandlerPosts, coordVars, HubInv, TypeInv, LeaseInv
<1>7. CASE Post(Head(todo).op, Head(todo).epoch)
  BY <1>4, <1>5, <1>6, <1>7, PostStep DEF Named
<1>8. CASE UNCHANGED <<queueVars, lastReturn>>
  <2>2. TypeInv' BY <1>5, <1>6, <1>8 DEF HubInv, TypeInv, queueVars, pumpVars
  <2>3. NamedInv' BY <1>5, <1>6, <1>8 DEF HubInv, NamedInv, queueVars, pumpVars
  <2>4. ShapeInv' BY <1>6 DEF HubInv, ShapeInv, pumpVars
  <2>5. SerialInv' BY <1>6, <1>8 DEF HubInv, SerialInv, queueVars, pumpVars
  <2>6. LeaseInv' BY <1>6, <1>8 DEF HubInv, LeaseInv, queueVars, pumpVars
  <2> QED BY <2>2, <2>3, <2>4, <2>5, <2>6 DEF HubInv
<1> QED BY <1>7, <1>8 DEF HandlerPosts

LEMMA HookRequestStep ==
    ASSUME HubInv, HookRequest
    PROVE  HubInv'
<1>1. /\ nextSerial \in Nat /\ epoch \in Nat
      /\ todo \in Seq(Posts) /\ \A i \in DOMAIN todo : Named(todo[i])
  BY DEF HubInv, TypeInv, NamedInv
<1>2. lease' = nextSerial /\ acked' = FALSE /\ UNCHANGED <<epoch, todo, pumpVars>>
  BY DEF HookRequest, WorkerStep
<1>3. CASE Post("LeaseRequest", 0)
  BY <1>1, <1>2, <1>3, PostStep DEF Ops
<1>4. CASE UNCHANGED <<queueVars, lastReturn>>
  <2>2. TypeInv' BY <1>1, <1>2, <1>4 DEF HubInv, TypeInv, queueVars, pumpVars
  <2>3. NamedInv' BY <1>1, <1>2, <1>4 DEF HubInv, NamedInv, queueVars, pumpVars
  <2>4. ShapeInv' BY <1>2 DEF HubInv, ShapeInv, pumpVars
  <2>5. SerialInv' BY <1>2, <1>4 DEF HubInv, SerialInv, queueVars, pumpVars
  <2>6. LeaseInv' BY <1>2, <1>4 DEF HubInv, LeaseInv, queueVars, pumpVars
  <2> QED BY <2>2, <2>3, <2>4, <2>5, <2>6 DEF HubInv
<1> QED BY <1>3, <1>4 DEF HookRequest

-----------------------------------------------------------------------------
(* Steps of the pump *)

LEMMA GateStep ==
    ASSUME gate \in Gates
    PROVE  /\ StepCaptureHubGate(gate, "Subscribe") =
                  [leased |-> gate.leased, subscribed |-> ~gate.leased, deferred |-> gate.leased]
           /\ StepCaptureHubGate(gate, "Unsubscribe") =
                  [leased |-> gate.leased, subscribed |-> FALSE, deferred |-> FALSE]
           /\ StepCaptureHubGate(gate, "LeaseRequest") =
                  [leased |-> TRUE, subscribed |-> gate.subscribed, deferred |-> gate.deferred]
           /\ StepCaptureHubGate(gate, "LeaseReturn") =
                  [leased |-> FALSE, subscribed |-> gate.subscribed \/ gate.deferred,
                   deferred |-> gate.deferred /\ gate.subscribed]
BY DEF Gates, StepCaptureHubGate

LEMMA HubStep ==
    ASSUME NEW h \in Hubs
    PROVE  /\ StepCaptureHub(h, "ConsumerAdded") =
                  [exists |-> TRUE, capture_open |-> h.capture_open \/ (~h.exists /\ ~h.lease_out /\ ~h.lost),
                   lease_out |-> h.lease_out, lost |-> h.lost]
           /\ StepCaptureHub(h, "FrameReceived") =
                  [exists |-> h.exists, capture_open |-> h.capture_open, lease_out |-> h.lease_out, lost |-> FALSE]
           /\ StepCaptureHub(h, "SourceLost") = h
           /\ StepCaptureHub(h, "ReopenSucceeded") = h
           /\ StepCaptureHub(h, "SourceUnrecoverable") =
                  [exists |-> h.exists, capture_open |-> FALSE, lease_out |-> h.lease_out, lost |-> TRUE]
           /\ StepCaptureHub(h, "LeaseRequested") =
                  [exists |-> h.exists, capture_open |-> FALSE, lease_out |-> TRUE, lost |-> FALSE]
           /\ StepCaptureHub(h, "LeaseReturned") =
                  [exists |-> h.exists, capture_open |-> h.exists, lease_out |-> FALSE, lost |-> h.lost]
BY DEF Hubs, StepCaptureHub

LEMMA HubRecord ==
    ASSUME NEW a \in BOOLEAN, NEW b \in BOOLEAN, NEW c \in BOOLEAN, NEW d \in BOOLEAN
    PROVE  [exists |-> a, capture_open |-> b, lease_out |-> c, lost |-> d] \in Hubs
BY DEF Hubs

LEMMA ApplyStep ==
    ASSUME NEW h \in Hubs, NEW open \in BOOLEAN,
           NEW event \in {"ConsumerAdded", "LeaseRequested", "LeaseReturned"}, Apply(h, open, event)
    PROVE  /\ hub' = StepCaptureHub(h, event)
           /\ hub' \in Hubs
           /\ producer' \in BOOLEAN
           /\ producer' => hub'.capture_open
<1>1. hub' = StepCaptureHub(h, event) BY DEF Apply
<1>2. hub' \in Hubs
  <2>1. /\ h.exists \in BOOLEAN /\ h.capture_open \in BOOLEAN /\ h.lease_out \in BOOLEAN /\ h.lost \in BOOLEAN
        /\ (h.capture_open \/ (~h.exists /\ ~h.lease_out /\ ~h.lost)) \in BOOLEAN
    BY DEF Hubs
  <2>2. CASE event = "ConsumerAdded"
    <3> DEFINE b == h.capture_open \/ (~h.exists /\ ~h.lease_out /\ ~h.lost)
    <3>1. hub' = [exists |-> TRUE, capture_open |-> b, lease_out |-> h.lease_out, lost |-> h.lost]
      BY <1>1, <2>2, HubStep
    <3>2. b \in BOOLEAN BY <2>1
    <3> HIDE DEF b
    <3> QED BY <2>1, <3>1, <3>2, HubRecord
  <2>3. CASE event = "LeaseRequested"
    <3>1. hub' = [exists |-> h.exists, capture_open |-> FALSE, lease_out |-> TRUE, lost |-> FALSE]
      BY <1>1, <2>3, HubStep
    <3> QED BY <2>1, <3>1, HubRecord
  <2>4. CASE event = "LeaseReturned"
    <3>1. hub' = [exists |-> h.exists, capture_open |-> h.exists, lease_out |-> FALSE, lost |-> h.lost]
      BY <1>1, <2>4, HubStep
    <3> QED BY <2>1, <3>1, HubRecord
  <2> QED BY <2>2, <2>3, <2>4
<1>3. producer' = TRUE \/ producer' = FALSE \/ producer' = (open /\ hub'.capture_open)
  BY Zenon DEF Apply
<1>4. producer' \in BOOLEAN BY <1>2, <1>3 DEF Hubs
<1>5. producer' => hub'.capture_open
  <2>1. CASE hub'.capture_open BY <2>1
  <2>2. CASE ~hub'.capture_open
    <3>1. producer' = (open /\ hub'.capture_open) BY <2>2, Zenon DEF Apply
    <3> QED BY <2>2, <3>1
  <2> QED BY <2>1, <2>2
<1> QED BY <1>1, <1>2, <1>4, <1>5

LEMMA PumpStep ==
    ASSUME HubInv,
           UNCHANGED <<queue, nextSerial, ackSerial, batch, gate, desired, lastReturn, epoch, todo, lease, acked>>,
           hub' \in Hubs, producer' \in BOOLEAN, subscribed' \in BOOLEAN, ShapeInv',
           pump' # "apply" => batch = <<>>, pump' = "ended" => stopping'
    PROVE  HubInv'
<1>1. TypeInv' BY DEF HubInv, TypeInv
<1>2. NamedInv' BY DEF HubInv, NamedInv
<1>3. SerialInv' BY DEF HubInv, SerialInv
<1>4. LeaseInv' BY DEF HubInv, LeaseInv
<1> QED BY <1>1, <1>2, <1>3, <1>4 DEF HubInv

LEMMA DrainedStep ==
    ASSUME HubInv, NEW op \in Ops, Drained(op),
           ackSerial' = ackSerial \/ ackSerial' = Head(batch).serial,
           hub' \in Hubs, producer' \in BOOLEAN, subscribed' \in BOOLEAN, gate' \in Gates, desired' \in Nat,
           ShapeInv', lastReturn < ackSerial' => gate'.leased
    PROVE  HubInv'
<1>1. /\ batch \in Seq(Lease!Command) /\ queue \in Seq(Lease!Command) /\ batch # <<>>
      /\ ackSerial \in Nat /\ nextSerial \in Nat /\ lastReturn \in Nat /\ lease \in Nat
  BY DEF HubInv, TypeInv, Drained
<1>2. /\ batch' = Tail(batch) /\ pump = "apply"
      /\ UNCHANGED <<queue, nextSerial, stopping, pump, epoch, todo, lease, acked, lastReturn>>
  BY DEF Drained, guiVars, coordVars
<1>3. /\ batch' \in Seq(Lease!Command)
      /\ Head(batch) = batch[1] /\ 1 \in DOMAIN batch
      /\ DOMAIN batch' = 1 .. Len(batch) - 1
      /\ \A i \in DOMAIN batch' : i + 1 \in DOMAIN batch /\ batch'[i] = batch[i + 1]
  <2>1. Len(batch) \in Nat \ {0} /\ DOMAIN batch = 1 .. Len(batch) BY <1>1, EmptySeq, LenProperties
  <2>2. batch' \in Seq(Lease!Command) /\ Len(batch') = Len(batch) - 1
    BY <1>1, <1>2, HeadTailProperties
  <2>3. DOMAIN batch' = 1 .. Len(batch) - 1 BY <2>2, LenProperties
  <2>4. \A i \in DOMAIN batch' : batch'[i] = batch[i + 1] BY <1>1, <1>2, <2>2, <2>3, HeadTailProperties
  <2> QED BY <1>1, <2>1, <2>2, <2>3, <2>4
<1>4. /\ \A i \in DOMAIN batch : batch[i].serial \in Nat
      /\ \A i \in DOMAIN queue : queue[i].serial \in Nat
  BY <1>1, CommandFields
<1>5. SerialInv BY DEF HubInv
<1>6. /\ ackSerial' \in Nat /\ ackSerial <= ackSerial' /\ ackSerial' < nextSerial
      /\ \A i \in DOMAIN batch : i # 1 => ackSerial' < batch[i].serial
      /\ \A i \in DOMAIN queue : ackSerial' < queue[i].serial
  <2>1. \A i \in DOMAIN batch : i # 1 => 1 < i BY <1>1, LenProperties
  <2> QED BY <1>1, <1>3, <1>4, <1>5, <2>1 DEF SerialInv
<1>7. TypeInv' BY <1>2, <1>3, <1>6 DEF HubInv, TypeInv
<1>8. NamedInv' BY <1>2, <1>3 DEF HubInv, NamedInv
<1>9. SerialInv'
  <2>1. ackSerial' < nextSerial' /\ lastReturn' < nextSerial' BY <1>2, <1>5, <1>6 DEF SerialInv
  <2>2. \A i \in DOMAIN batch' : ackSerial' < batch'[i].serial /\ batch'[i].serial < nextSerial'
    BY <1>2, <1>3, <1>5, <1>6 DEF SerialInv
  <2>3. \A i \in DOMAIN queue' : ackSerial' < queue'[i].serial /\ queue'[i].serial < nextSerial'
    BY <1>2, <1>5, <1>6 DEF SerialInv
  <2>4. \A i, j \in DOMAIN batch' : i < j => batch'[i].serial < batch'[j].serial
    <3> SUFFICES ASSUME NEW i \in DOMAIN batch', NEW j \in DOMAIN batch', i < j
                 PROVE  batch'[i].serial < batch'[j].serial
      OBVIOUS
    <3>1. i + 1 < j + 1
      <4>1. Len(batch) \in Nat BY <1>1, LenProperties
      <4> QED BY <4>1, <1>3
    <3>2. batch[i + 1].serial < batch[j + 1].serial BY <3>1, <1>3, <1>5 DEF SerialInv
    <3> QED BY <3>2, <1>3
  <2>5. \A i, j \in DOMAIN queue' : i < j => queue'[i].serial < queue'[j].serial
    BY <1>2, <1>5 DEF SerialInv
  <2>6. \A i \in DOMAIN batch' : \A j \in DOMAIN queue' : batch'[i].serial < queue'[j].serial
    BY <1>2, <1>3, <1>5 DEF SerialInv
  <2> QED BY <2>1, <2>2, <2>3, <2>4, <2>5, <2>6 DEF SerialInv
<1>10. LeaseInv'
  <2>1. LeaseInv BY DEF HubInv
  <2>2. acked' => lease' <= ackSerial' BY <2>1, <1>1, <1>2, <1>6 DEF LeaseInv
  <2>3. \A i \in DOMAIN batch' : batch'[i].op = "LeaseReturn" => batch'[i].serial <= lastReturn'
    BY <2>1, <1>2, <1>3 DEF LeaseInv
  <2> QED BY <2>1, <2>2, <2>3, <1>2 DEF LeaseInv
<1> QED BY <1>7, <1>8, <1>9, <1>10 DEF HubInv

LEMMA NoHubType == NoHub \in Hubs
BY HubRecord DEF NoHub

\* A capture opened for a new consumer: the hub exists and owns a capture.
LEMMA OpenNew ==
    ASSUME Apply(NoHub, FALSE, "ConsumerAdded")
    PROVE  /\ hub' \in Hubs /\ producer' \in BOOLEAN
           /\ hub' = [exists |-> TRUE, capture_open |-> TRUE, lease_out |-> FALSE, lost |-> FALSE]
<1>1. hub' = StepCaptureHub(NoHub, "ConsumerAdded") /\ hub' \in Hubs /\ producer' \in BOOLEAN
  BY NoHubType, ApplyStep
<1> QED BY <1>1 DEF NoHub, StepCaptureHub

LEMMA ApplySubscribeStep ==
    ASSUME HubInv, ApplySubscribe
    PROVE  HubInv'
<1>1. /\ gate \in Gates /\ batch \in Seq(Lease!Command) /\ ShapeInv /\ NamedInv /\ LeaseInv
  BY DEF HubInv, TypeInv
<1>2. /\ Drained("Subscribe") /\ desired' = Head(batch).epoch /\ ackSerial' = ackSerial
      /\ gate' = [leased |-> gate.leased, subscribed |-> ~gate.leased, deferred |-> gate.leased]
      /\ pump' = "apply"
  BY <1>1, GateStep DEF ApplySubscribe, Drained
<1>3. gate.leased \in BOOLEAN /\ gate' \in Gates BY <1>1, <1>2 DEF Gates
<1>4. desired' \in Nat /\ desired' # 0
  <2>1. 1 \in DOMAIN batch /\ Head(batch) = batch[1] /\ batch[1].op = "Subscribe"
    BY <1>1, <1>2, EmptySeq, LenProperties DEF Drained
  <2> QED BY <1>1, <1>2, <2>1, CommandFields DEF NamedInv, Named
<1>5. CASE gate.leased
  <2>1. hub' = NoHub /\ producer' = FALSE /\ subscribed' = FALSE
    BY <1>5, Zenon DEF ApplySubscribe, DropSubscription
  <2>2. ShapeInv' BY <1>2, <1>3, <1>4, <1>5, <2>1 DEF ShapeInv, NoHub
  <2> QED BY <1>1, <1>2, <1>3, <1>4, <2>1, <2>2, NoHubType, DrainedStep DEF Ops, LeaseInv
<1>6. CASE ~gate.leased
  <2>1. Apply(NoHub, FALSE, "ConsumerAdded") /\ subscribed' = TRUE
    BY <1>6, Zenon DEF ApplySubscribe, ApplySubscription
  <2>2. /\ hub' \in Hubs /\ producer' \in BOOLEAN
        /\ hub' = [exists |-> TRUE, capture_open |-> TRUE, lease_out |-> FALSE, lost |-> FALSE]
    BY <2>1, OpenNew
  <2>3. ShapeInv' BY <1>2, <1>3, <1>4, <1>6, <2>1, <2>2 DEF ShapeInv
  <2> QED BY <1>1, <1>2, <1>3, <1>4, <2>1, <2>2, <2>3, DrainedStep DEF Ops, LeaseInv
<1> QED BY <1>5, <1>6

LEMMA ApplyUnsubscribeStep ==
    ASSUME HubInv, ApplyUnsubscribe
    PROVE  HubInv'
<1>1. gate \in Gates /\ desired \in Nat /\ ShapeInv /\ LeaseInv BY DEF HubInv, TypeInv
<1>2. /\ Drained("Unsubscribe") /\ desired' = desired /\ ackSerial' = ackSerial
      /\ gate' = [leased |-> gate.leased, subscribed |-> FALSE, deferred |-> FALSE]
      /\ hub' = NoHub /\ producer' = FALSE /\ subscribed' = FALSE
  BY <1>1, GateStep DEF ApplyUnsubscribe, Drained, DropSubscription
<1>3. gate' \in Gates BY <1>1, <1>2 DEF Gates
<1>4. ShapeInv' BY <1>2 DEF ShapeInv, NoHub
<1> QED BY <1>1, <1>2, <1>3, <1>4, NoHubType, DrainedStep DEF Ops, LeaseInv

LEMMA ApplyLeaseRequestStep ==
    ASSUME HubInv, ApplyLeaseRequest
    PROVE  HubInv'
<1>1. /\ gate \in Gates /\ hub \in Hubs /\ producer \in BOOLEAN /\ subscribed \in BOOLEAN /\ desired \in Nat
      /\ ShapeInv
  BY DEF HubInv, TypeInv
<1>2. /\ Drained("LeaseRequest") /\ UNCHANGED <<desired, subscribed>>
      /\ gate' = [leased |-> TRUE, subscribed |-> gate.subscribed, deferred |-> gate.deferred]
      /\ ackSerial' = ackSerial \/ ackSerial' = Head(batch).serial
      /\ pump' = "apply"
  BY <1>1, GateStep DEF ApplyLeaseRequest, Drained
<1>3. gate' \in Gates BY <1>1, <1>2 DEF Gates
<1>4. hub' \in Hubs /\ producer' \in BOOLEAN /\ ShapeInv'
  <2>1. CASE gate.subscribed /\ hub.exists
    <3>1. /\ hub' = StepCaptureHub(hub, "LeaseRequested") /\ hub' \in Hubs /\ producer' \in BOOLEAN
          /\ producer' => hub'.capture_open
      BY <1>1, <2>1, ApplyStep DEF ApplyLeaseRequest
    <3>2. hub' = [exists |-> hub.exists, capture_open |-> FALSE, lease_out |-> TRUE, lost |-> FALSE]
      BY <1>1, <3>1, HubStep
    <3> QED BY <1>1, <1>2, <3>1, <3>2 DEF ShapeInv
  <2>2. CASE ~(gate.subscribed /\ hub.exists)
    <3>1. UNCHANGED <<hub, producer>> BY <2>2 DEF ApplyLeaseRequest
    <3> QED BY <1>1, <1>2, <2>2, <3>1 DEF ShapeInv
  <2> QED BY <2>1, <2>2
<1> QED BY <1>1, <1>2, <1>3, <1>4, DrainedStep DEF Ops

LEMMA ApplyLeaseReturnStep ==
    ASSUME HubInv, ApplyLeaseReturn
    PROVE  HubInv'
<1>1. /\ gate \in Gates /\ hub \in Hubs /\ producer \in BOOLEAN /\ subscribed \in BOOLEAN /\ desired \in Nat
      /\ batch \in Seq(Lease!Command) /\ ackSerial \in Nat /\ lastReturn \in Nat
      /\ ShapeInv /\ SerialInv /\ LeaseInv
  BY DEF HubInv, TypeInv
<1>2. /\ Drained("LeaseReturn") /\ UNCHANGED <<desired, ackSerial>>
      /\ gate' = [leased |-> FALSE, subscribed |-> gate.subscribed \/ gate.deferred,
                  deferred |-> gate.deferred /\ gate.subscribed]
      /\ pump' = "apply"
  BY <1>1, GateStep DEF ApplyLeaseReturn, Drained
<1>3. gate' \in Gates BY <1>1, <1>2 DEF Gates
<1>4. ~(lastReturn < ackSerial)
  <2>1. 1 \in DOMAIN batch /\ Head(batch) = batch[1] /\ batch[1].op = "LeaseReturn"
    BY <1>1, <1>2, EmptySeq, LenProperties DEF Drained
  <2>2. batch[1].serial \in Nat BY <1>1, <2>1, CommandFields
  <2> QED BY <1>1, <2>1, <2>2 DEF SerialInv, LeaseInv
<1>5. hub' \in Hubs /\ producer' \in BOOLEAN /\ subscribed' \in BOOLEAN /\ ShapeInv'
  <2>1. CASE gate.subscribed
    <3>1. subscribed' = subscribed BY <2>1 DEF ApplyLeaseReturn
    <3>2. CASE hub.exists
      <4>1. Apply(hub, producer, "LeaseReturned") BY <2>1, <3>2 DEF ApplyLeaseReturn
      <4>2. /\ hub' = StepCaptureHub(hub, "LeaseReturned") /\ hub' \in Hubs /\ producer' \in BOOLEAN
            /\ producer' => hub'.capture_open
        BY <1>1, <4>1, ApplyStep
      <4>3. hub' = [exists |-> hub.exists, capture_open |-> hub.exists, lease_out |-> FALSE, lost |-> hub.lost]
        BY <1>1, <4>2, HubStep
      <4>4. gate'.subscribed /\ ~gate'.leased /\ ~gate'.deferred BY <1>1, <1>2, <2>1 DEF ShapeInv, Gates
      <4>5. hub'.exists /\ hub'.capture_open /\ ~hub'.lease_out BY <3>2, <4>3
      <4>6. subscribed' /\ desired' # 0 BY <1>1, <1>2, <2>1, <3>1, <3>2 DEF ShapeInv
      <4>7. ShapeInv' BY <1>2, <4>2, <4>4, <4>5, <4>6, Zenon DEF ShapeInv
      <4> QED BY <1>1, <3>1, <4>2, <4>7
    <3>3. CASE ~hub.exists
      <4>1. UNCHANGED <<hub, producer>> BY <2>1, <3>3 DEF ApplyLeaseReturn
      <4> QED BY <1>1, <1>2, <2>1, <3>1, <3>3, <4>1 DEF ShapeInv
    <3> QED BY <3>2, <3>3
  <2>2. CASE ~gate.subscribed /\ gate.deferred
    <3>1. Apply(NoHub, FALSE, "ConsumerAdded") /\ subscribed' = TRUE
      BY <2>2 DEF ApplyLeaseReturn, ApplySubscription
    <3>2. /\ hub' \in Hubs /\ producer' \in BOOLEAN
          /\ hub' = [exists |-> TRUE, capture_open |-> TRUE, lease_out |-> FALSE, lost |-> FALSE]
      BY <3>1, OpenNew
    <3> QED BY <1>1, <1>2, <2>2, <3>1, <3>2 DEF ShapeInv
  <2>3. CASE ~gate.subscribed /\ ~gate.deferred
    <3>1. UNCHANGED <<hub, producer, subscribed>> BY <2>3 DEF ApplyLeaseReturn
    <3> QED BY <1>1, <1>2, <2>3, <3>1 DEF ShapeInv
  <2> QED BY <2>1, <2>2, <2>3
<1> QED BY <1>1, <1>2, <1>3, <1>4, <1>5, DrainedStep DEF Ops

LEMMA DrainStep ==
    ASSUME HubInv, WaitAndDrain
    PROVE  HubInv'
<1>1. /\ batch' = queue /\ queue' = <<>> /\ pump = "wait" /\ pump' = "apply"
      /\ UNCHANGED <<nextSerial, ackSerial, stopping, gate, desired, subscribed, hub, producer, lastReturn, epoch,
                     todo, lease, acked>>
  BY DEF WaitAndDrain, guiVars, coordVars
<1>2. <<>> \in Seq(Lease!Command) /\ \A i \in DOMAIN <<>> : FALSE OBVIOUS
<1>3. TypeInv' BY <1>1, <1>2 DEF HubInv, TypeInv
<1>4. NamedInv' BY <1>1, <1>2 DEF HubInv, NamedInv
<1>5. ShapeInv' BY <1>1 DEF HubInv, ShapeInv
<1>6. SerialInv' BY <1>1, <1>2 DEF HubInv, SerialInv
<1>7. LeaseInv' BY <1>1, <1>2 DEF HubInv, LeaseInv
<1> QED BY <1>3, <1>4, <1>5, <1>6, <1>7 DEF HubInv

\* The pass itself and the rebuild touch the hub, its producer and the
\* subscription only.
LEMMA PumpSteps ==
    ASSUME HubInv, PumpStarts \/ Pump \/ Rebuild \/ GiveUp \/ NoRebuild \/ PumpEnds
    PROVE  HubInv'
<1>1. /\ hub \in Hubs /\ producer \in BOOLEAN /\ subscribed \in BOOLEAN /\ gate \in Gates
      /\ ShapeInv /\ LeaseInv
  BY DEF HubInv, TypeInv
<1>2. UNCHANGED <<queue, nextSerial, ackSerial, batch, gate, desired, lastReturn, epoch, todo, lease, acked>>
  BY DEF PumpStarts, Pump, Rebuild, GiveUp, NoRebuild, PumpEnds, queueVars, guiVars, coordVars
<1>3. (pump' # "apply" => batch = <<>>) /\ (pump' = "ended" => stopping')
  BY <1>1 DEF PumpStarts, Pump, Rebuild, GiveUp, NoRebuild, PumpEnds, queueVars, LeaseInv, EndOfPass
<1>4. CASE PumpStarts
  <2>1. UNCHANGED <<hub, producer, subscribed>> /\ pump' # "start" BY <1>4 DEF PumpStarts
  <2>2. ShapeInv' BY <1>1, <1>2, <2>1 DEF ShapeInv
  <2> QED BY <1>1, <1>2, <1>3, <2>1, <2>2, PumpStep
<1>5. CASE Pump
  <2>1. pump' # "start" /\ subscribed' = subscribed BY <1>5 DEF Pump, EndOfPass
  <2>2. /\ hub' \in Hubs /\ producer' \in BOOLEAN
        /\ hub'.exists = hub.exists /\ hub'.lease_out = hub.lease_out
        /\ producer' => hub'.capture_open
        /\ hub'.capture_open => hub.capture_open
        /\ hub'.lost => hub.lost \/ hub.capture_open
    <3>1. CASE UNCHANGED <<hub, producer>> BY <1>1, <3>1 DEF ShapeInv
    <3>2. CASE hub.capture_open /\ producer' = TRUE /\ hub' = StepCaptureHub(hub, "ReopenSucceeded")
      BY <1>1, <3>2, HubStep
    <3>3. CASE hub.capture_open /\ producer' = producer /\ hub' = StepCaptureHub(hub, "FrameReceived")
      <4>1. hub' = [exists |-> hub.exists, capture_open |-> hub.capture_open,
                     lease_out |-> hub.lease_out, lost |-> FALSE]
        BY <1>1, <3>3, HubStep
      <4>2. hub.exists \in BOOLEAN /\ hub.capture_open \in BOOLEAN /\ hub.lease_out \in BOOLEAN BY <1>1 DEF Hubs
      <4>3. hub' \in Hubs BY <4>1, <4>2, HubRecord
      <4> QED BY <1>1, <3>3, <4>1, <4>3
    <3>4. CASE hub.capture_open /\ producer' = FALSE /\ hub' = StepCaptureHub(hub, "SourceLost")
      BY <1>1, <3>4, HubStep
    <3>5. CASE hub.capture_open /\ producer' = FALSE /\ hub' = StepCaptureHub(hub, "SourceUnrecoverable")
      <4>1. hub' = [exists |-> hub.exists, capture_open |-> FALSE, lease_out |-> hub.lease_out, lost |-> TRUE]
        BY <1>1, <3>5, HubStep
      <4>2. hub.exists \in BOOLEAN /\ hub.lease_out \in BOOLEAN BY <1>1 DEF Hubs
      <4>3. hub' \in Hubs BY <4>1, <4>2, HubRecord
      <4>4. hub'.exists = hub.exists /\ hub'.lease_out = hub.lease_out /\ ~hub'.capture_open BY <4>1
      <4>5. producer' \in BOOLEAN /\ ~producer' /\ hub.capture_open BY <3>5, Zenon
      <4> QED BY <4>3, <4>4, <4>5
    <3>6. \/ UNCHANGED <<hub, producer>>
          \/ hub.capture_open /\ producer' = TRUE /\ hub' = StepCaptureHub(hub, "ReopenSucceeded")
          \/ hub.capture_open /\ producer' = producer /\ hub' = StepCaptureHub(hub, "FrameReceived")
          \/ /\ hub.capture_open /\ producer' = FALSE
             /\ \/ hub' = StepCaptureHub(hub, "SourceLost")
                \/ hub' = StepCaptureHub(hub, "SourceUnrecoverable")
      BY <1>5, Zenon DEF Pump
    <3> QED BY <3>1, <3>2, <3>3, <3>4, <3>5, <3>6, Zenon
  <2>3. ShapeInv'
    <3>1. hub'.capture_open => hub'.exists /\ ~hub'.lease_out BY <1>1, <2>2 DEF ShapeInv
    <3>2. hub'.lost => ~hub'.lease_out BY <1>1, <2>2 DEF ShapeInv
    <3>3. gate'.leased /\ hub'.exists => hub'.lease_out BY <1>1, <1>2, <2>2 DEF ShapeInv
    <3>4. (hub'.exists <=> subscribed') /\ (subscribed' => gate'.subscribed) BY <1>1, <1>2, <2>1, <2>2 DEF ShapeInv
    <3> QED BY <1>1, <1>2, <2>1, <2>2, <3>1, <3>2, <3>3, <3>4, Zenon DEF ShapeInv
  <2> QED BY <1>1, <1>2, <1>3, <2>1, <2>2, <2>3, PumpStep
<1>6. CASE NoRebuild
  <2>1. UNCHANGED <<hub, producer, subscribed>> /\ pump' # "start" BY <1>6 DEF NoRebuild
  <2>2. ShapeInv' BY <1>1, <1>2, <2>1 DEF ShapeInv
  <2> QED BY <1>1, <1>2, <1>3, <2>1, <2>2, PumpStep
<1>7. CASE hub' = NoHub /\ producer' = FALSE /\ subscribed' = FALSE
  <2>1. ShapeInv' BY <1>1, <1>2, <1>7 DEF ShapeInv, NoHub
  <2> QED BY <1>1, <1>2, <1>3, <1>7, <2>1, NoHubType, PumpStep
<1>8. CASE Rebuild /\ Apply(NoHub, FALSE, "ConsumerAdded") /\ subscribed' = subscribed
  <2>1. subscribed /\ hub.lost /\ pump' # "start" BY <1>8 DEF Rebuild
  <2>2. ~gate.leased BY <1>1, <2>1 DEF ShapeInv
  <2>3. /\ hub' \in Hubs /\ producer' \in BOOLEAN
        /\ hub' = [exists |-> TRUE, capture_open |-> TRUE, lease_out |-> FALSE, lost |-> FALSE]
    BY <1>8, OpenNew
  <2>4. ShapeInv' BY <1>1, <1>2, <1>8, <2>1, <2>2, <2>3 DEF ShapeInv
  <2> QED BY <1>1, <1>2, <1>3, <1>8, <2>1, <2>3, <2>4, PumpStep
<1>9. CASE Rebuild
  BY <1>7, <1>8, <1>9 DEF Rebuild
<1>10. CASE GiveUp \/ PumpEnds
  BY <1>7, <1>10 DEF GiveUp, PumpEnds, DropSubscription
<1> QED BY <1>4, <1>5, <1>6, <1>9, <1>10

-----------------------------------------------------------------------------
(* The invariant *)

LEMMA InitHubInv == Init => HubInv
<1> SUFFICES ASSUME Init PROVE HubInv OBVIOUS
<1>1. <<>> \in Seq(Lease!Command) /\ <<>> \in Seq(Posts) /\ \A i \in DOMAIN <<>> : FALSE OBVIOUS
<1>2. TypeInv BY <1>1, NoHubType DEF Init, TypeInv, Gates, NoGate
<1>3. NamedInv BY <1>1 DEF Init, NamedInv
<1>4. ShapeInv BY DEF Init, ShapeInv, NoHub, NoGate
<1>5. SerialInv BY <1>1 DEF Init, SerialInv
<1>6. LeaseInv BY <1>1 DEF Init, LeaseInv
<1> QED BY <1>2, <1>3, <1>4, <1>5, <1>6 DEF HubInv

LEMMA NextHubInv == HubInv /\ [Next]_vars => HubInv'
<1> SUFFICES ASSUME HubInv, [Next]_vars PROVE HubInv' OBVIOUS
<1>1. CASE PumpNext
  BY <1>1, ApplySubscribeStep, ApplyUnsubscribeStep, ApplyLeaseRequestStep, ApplyLeaseReturnStep, DrainStep, PumpSteps
  DEF PumpNext
<1>2. CASE GuiNext BY <1>2, GuiQuiet, GuiStates, HandlerPostsStep DEF GuiNext
<1>3. CASE WorkerNext BY <1>3, WorkerQuiet, HookRequestStep DEF WorkerNext
<1>4. CASE UNCHANGED vars
  <2>1. UNCHANGED <<hubVars, epoch, lease, todo, acked, stopping>>
    BY <1>4 DEF vars, hubVars, queueVars, pumpVars, guiVars, coordVars
  <2>2. /\ todo \in Seq(Posts) /\ \A i \in DOMAIN todo : Named(todo[i])
        /\ acked \in BOOLEAN /\ (acked => lease <= ackSerial)
    BY DEF HubInv, TypeInv, NamedInv, LeaseInv
  <2> QED BY <2>1, <2>2, QuietStep
<1> QED BY <1>1, <1>2, <1>3, <1>4 DEF Next

\* The inductive invariant holds in every reachable state, whatever the number
\* of recordings, user steps, faults and pending commands.
THEOREM HubInvariant == Spec => []HubInv
<1>1. Init => HubInv BY InitHubInv
<1>2. HubInv /\ [Next]_vars => HubInv' BY NextHubInv
<1> QED BY <1>1, <1>2, PTL DEF Spec

\* A recording whose request was answered owns the capture until a newer return:
\* no subscribe, deferred or new, reopens the preview's behind it.
THEOREM AnsweredLease == Spec => []AnsweredLeaseStands
<1>1. HubInv => AnsweredLeaseStands
  <2> SUFFICES ASSUME HubInv, acked, lastReturn < lease PROVE gate.leased /\ ~producer
    BY DEF AnsweredLeaseStands
  <2>1. lease <= ackSerial /\ lease \in Nat /\ ackSerial \in Nat /\ lastReturn \in Nat
    BY DEF HubInv, TypeInv, LeaseInv
  <2>2. gate.leased BY <2>1 DEF HubInv, LeaseInv
  <2>3. ~producer BY <2>2 DEF HubInv, ShapeInv
  <2> QED BY <2>2, <2>3
<1> QED BY <1>1, HubInvariant, PTL

-----------------------------------------------------------------------------
(* The refinement: every step of the service is a step of the arbiter on the
   queue behind the batch, or leaves what the arbiter sees alone *)

LEMMA ConcatAppend ==
    ASSUME NEW S, NEW s \in Seq(S), NEW t \in Seq(S), NEW c \in S
    PROVE  s \o Append(t, c) = Append(s \o t, c)
<1>1. <<c>> \in Seq(S) /\ s \o t \in Seq(S) BY ConcatProperties
<1>2. Append(t, c) = t \o <<c>> /\ Append(s \o t, c) = (s \o t) \o <<c>> BY <1>1, AppendIsConcat
<1> QED BY <1>1, <1>2, ConcatAssociative

LEMMA ConcatHeadTail ==
    ASSUME NEW S, NEW s \in Seq(S), NEW t \in Seq(S), s # <<>>
    PROVE  /\ s \o t # <<>>
           /\ Head(s \o t) = Head(s)
           /\ Tail(s \o t) = Tail(s) \o t
<1>1. /\ s \o t \in Seq(S) /\ Len(s \o t) = Len(s) + Len(t)
      /\ \A i \in 1 .. Len(s) + Len(t) : (s \o t)[i] = IF i <= Len(s) THEN s[i] ELSE t[i - Len(s)]
  BY ConcatProperties
<1>2. Len(s) \in Nat \ {0} /\ Len(t) \in Nat BY EmptySeq, LenProperties
<1>3. s \o t # <<>> BY <1>1, <1>2, EmptySeq
<1>4. Head(s \o t) = Head(s) BY <1>1, <1>2
<1>5. /\ Tail(s) \in Seq(S) /\ Len(Tail(s)) = Len(s) - 1
      /\ \A i \in 1 .. Len(Tail(s)) : Tail(s)[i] = s[i + 1]
      /\ Tail(s \o t) \in Seq(S) /\ Len(Tail(s \o t)) = Len(s) + Len(t) - 1
      /\ \A i \in 1 .. Len(Tail(s \o t)) : Tail(s \o t)[i] = (s \o t)[i + 1]
  <2>1. Tail(s) \in Seq(S) /\ Len(Tail(s)) = Len(s) - 1 /\ \A i \in 1 .. Len(Tail(s)) : Tail(s)[i] = s[i + 1]
    BY HeadTailProperties
  <2>2. /\ Tail(s \o t) \in Seq(S) /\ Len(Tail(s \o t)) = Len(s \o t) - 1
        /\ \A i \in 1 .. Len(Tail(s \o t)) : Tail(s \o t)[i] = (s \o t)[i + 1]
    BY <1>1, <1>3, HeadTailProperties
  <2> QED BY <1>1, <2>1, <2>2
<1>6. /\ Tail(s) \o t \in Seq(S) /\ Len(Tail(s) \o t) = Len(s) - 1 + Len(t)
      /\ \A i \in 1 .. (Len(s) - 1) + Len(t) :
             (Tail(s) \o t)[i] = IF i <= Len(s) - 1 THEN Tail(s)[i] ELSE t[i - (Len(s) - 1)]
  BY <1>5, ConcatProperties
<1>7. \A i \in 1 .. Len(Tail(s \o t)) : Tail(s \o t)[i] = (Tail(s) \o t)[i]
  <2> SUFFICES ASSUME NEW i \in 1 .. Len(Tail(s \o t)) PROVE Tail(s \o t)[i] = (Tail(s) \o t)[i]
    OBVIOUS
  <2>1. i \in 1 .. (Len(s) - 1) + Len(t) /\ i + 1 \in 1 .. Len(s) + Len(t) BY <1>2, <1>5
  <2>2. Tail(s \o t)[i] = IF i + 1 <= Len(s) THEN s[i + 1] ELSE t[(i + 1) - Len(s)] BY <2>1, <1>1, <1>5
  <2>3. CASE i <= Len(s) - 1 BY <2>1, <2>2, <2>3, <1>2, <1>5, <1>6
  <2>4. CASE ~(i <= Len(s) - 1)
    <3>1. (i + 1) - Len(s) = i - (Len(s) - 1) /\ ~(i + 1 <= Len(s)) BY <2>1, <2>4, <1>2
    <3> QED BY <2>1, <2>2, <2>4, <3>1, <1>6
  <2> QED BY <2>3, <2>4
<1>8. Tail(s \o t) = Tail(s) \o t BY <1>2, <1>5, <1>6, <1>7, SeqEqual
<1> QED BY <1>3, <1>4, <1>8

leaseSees == <<pump, batch, queue, gate, desired, producer, ackSerial>>

LEMMA Unseen ==
    ASSUME UNCHANGED leaseSees
    PROVE  UNCHANGED Lease!vars
BY DEF leaseSees, Lease!vars, Pending, Wish

LEMMA PostRefines ==
    ASSUME HubInv, NEW op \in Ops, NEW e \in Nat, Post(op, e), UNCHANGED pumpVars
    PROVE  [Lease!Next]_(Lease!vars)
<1> DEFINE c == [op |-> op, serial |-> nextSerial, epoch |-> e]
<1>1. /\ queue \in Seq(Lease!Command) /\ batch \in Seq(Lease!Command) /\ nextSerial \in Nat
      /\ pump = "ended" => stopping
  BY DEF HubInv, TypeInv, LeaseInv
<1>2. c \in Lease!Command BY <1>1 DEF Lease!Command, Ops
<1>3. UNCHANGED <<pump, batch, gate, desired, producer, ackSerial>> BY DEF pumpVars, Post
<1>4. CASE stopping BY <1>3, <1>4, Unseen DEF Post, leaseSees
<1>5. CASE ~stopping
  <2>1. queue' = Append(queue, c) BY <1>5 DEF Post
  <2>2. Pending = batch \o queue /\ Pending' = batch \o Append(queue, c) BY <1>1, <1>3, <1>5, <2>1 DEF Pending
  <2>3. Pending \in Seq(Lease!Command) BY <1>1, <2>2, ConcatProperties
  <2>4. Pending' = Append(Pending, c) BY <1>1, <1>2, <2>2, ConcatAppend
  <2>5. Len(Pending') = Len(Pending) + 1 /\ Pending'[Len(Pending')] = c BY <1>2, <2>3, <2>4, AppendProperties
  <2>6. Wish' = Wish BY <1>3 DEF Wish
  <2>7. Lease!Post BY <1>2, <1>3, <2>4, <2>5, <2>6 DEF Lease!Post
  <2> QED BY <2>7 DEF Lease!Next
<1> QED BY <1>4, <1>5

\* A command leaves the batch: it is the arbiter's next.
LEMMA DrainedTakes ==
    ASSUME HubInv, NEW op \in Ops, Drained(op)
    PROVE  Lease!Takes(op) /\ Head(Pending) = Head(batch)
<1>1. /\ batch \in Seq(Lease!Command) /\ queue \in Seq(Lease!Command)
      /\ pump = "apply" /\ pump' = "apply" /\ batch # <<>> /\ batch' = Tail(batch) /\ queue' = queue
      /\ Head(batch).op = op
  BY DEF HubInv, TypeInv, Drained
<1>2. Pending = batch \o queue /\ Pending' = Tail(batch) \o queue BY <1>1 DEF Pending
<1>3. Pending # <<>> /\ Head(Pending) = Head(batch) /\ Tail(Pending) = Tail(batch) \o queue
  BY <1>1, <1>2, ConcatHeadTail
<1> QED BY <1>1, <1>2, <1>3 DEF Lease!Takes

LEMMA ApplyRefines ==
    ASSUME HubInv, HubInv', ApplySubscribe \/ ApplyUnsubscribe \/ ApplyLeaseRequest \/ ApplyLeaseReturn
    PROVE  Lease!Next
<1>1. /\ gate \in Gates /\ ShapeInv /\ ShapeInv' /\ producer' \in BOOLEAN /\ ackSerial \in Nat
      /\ batch \in Seq(Lease!Command) /\ SerialInv
  BY DEF HubInv, TypeInv
<1>2. gate.leased \in BOOLEAN /\ gate.subscribed \in BOOLEAN /\ gate.deferred \in BOOLEAN BY <1>1 DEF Gates
<1>3. gate'.leased => ~producer' BY <1>1 DEF ShapeInv
<1>4. CASE ApplySubscribe
  <2>1. /\ Drained("Subscribe") /\ desired' = Head(batch).epoch /\ ackSerial' = ackSerial
        /\ gate' = [leased |-> gate.leased, subscribed |-> ~gate.leased, deferred |-> gate.leased]
    BY <1>1, <1>4, GateStep DEF ApplySubscribe, Drained
  <2>2. Lease!Takes("Subscribe") /\ Head(Pending) = Head(batch) BY <2>1, DrainedTakes DEF Ops
  <2>3. gate'.leased = gate.leased /\ (gate'.subscribed \/ gate'.deferred) BY <1>2, <2>1
  <2>4. Wish' = Head(Pending).epoch BY <2>1, <2>2, <2>3 DEF Wish
  <2> QED BY <1>1, <1>3, <2>1, <2>2, <2>3, <2>4 DEF Lease!ServeSubscribe, Lease!Next
<1>5. CASE ApplyUnsubscribe
  <2>1. /\ Drained("Unsubscribe") /\ ackSerial' = ackSerial /\ producer' = FALSE
        /\ gate' = [leased |-> gate.leased, subscribed |-> FALSE, deferred |-> FALSE]
    BY <1>1, <1>5, GateStep DEF ApplyUnsubscribe, Drained, DropSubscription
  <2>2. Lease!Takes("Unsubscribe") BY <2>1, DrainedTakes DEF Ops
  <2>3. gate'.leased = gate.leased /\ Wish' = 0 BY <2>1 DEF Wish
  <2> QED BY <2>1, <2>2, <2>3 DEF Lease!ServeUnsubscribe, Lease!Next
<1>6. CASE ApplyLeaseRequest
  <2>1. /\ Drained("LeaseRequest") /\ desired' = desired
        /\ gate' = [leased |-> TRUE, subscribed |-> gate.subscribed, deferred |-> gate.deferred]
        /\ ackSerial' = IF Head(batch).serial > ackSerial THEN Head(batch).serial ELSE ackSerial
    BY <1>1, <1>6, GateStep DEF ApplyLeaseRequest, Drained
  <2>2. Lease!Takes("LeaseRequest") /\ Head(Pending) = Head(batch) BY <2>1, DrainedTakes DEF Ops
  <2>3. ackSerial' = Head(batch).serial
    <3>1. 1 \in DOMAIN batch /\ Head(batch) = batch[1]
      BY <1>1, <2>1, EmptySeq, LenProperties DEF Drained
    <3>2. batch[1].serial \in Nat /\ ackSerial < batch[1].serial BY <1>1, <3>1, CommandFields DEF SerialInv
    <3> QED BY <1>1, <2>1, <3>1, <3>2
  <2>4. gate'.leased = TRUE /\ Wish' = Wish BY <2>1 DEF Wish
  <2>5. producer' = FALSE BY <1>1, <1>3, <2>4
  <2> QED BY <2>2, <2>3, <2>4, <2>5 DEF Lease!ServeLeaseRequest, Lease!Next
<1>7. CASE ApplyLeaseReturn
  <2>1. /\ Drained("LeaseReturn") /\ desired' = desired /\ ackSerial' = ackSerial
        /\ gate' = [leased |-> FALSE, subscribed |-> gate.subscribed \/ gate.deferred,
                    deferred |-> gate.deferred /\ gate.subscribed]
    BY <1>1, <1>7, GateStep DEF ApplyLeaseReturn, Drained
  <2>2. Lease!Takes("LeaseReturn") BY <2>1, DrainedTakes DEF Ops
  <2>3. gate'.leased = FALSE BY <2>1
  <2>4. gate'.subscribed \/ gate'.deferred <=> gate.subscribed \/ gate.deferred BY <1>2, <2>1
  <2>5. Wish' = Wish BY <2>1, <2>4 DEF Wish
  <2>6. producer' => Wish' # 0 BY <1>1 DEF ShapeInv, Wish
  <2> QED BY <1>1, <2>1, <2>2, <2>3, <2>5, <2>6 DEF Lease!ServeLeaseReturn, Lease!Next
<1> QED BY <1>4, <1>5, <1>6, <1>7

LEMMA PumpRefines ==
    ASSUME HubInv, HubInv', PumpStarts \/ WaitAndDrain \/ Pump \/ Rebuild \/ GiveUp \/ NoRebuild \/ PumpEnds
    PROVE  [Lease!Next]_(Lease!vars)
<1>1. /\ queue \in Seq(Lease!Command) /\ ShapeInv /\ ShapeInv' /\ producer \in BOOLEAN /\ producer' \in BOOLEAN
      /\ LeaseInv
  BY DEF HubInv, TypeInv
<1>2. CASE Pump \/ Rebuild \/ GiveUp \/ NoRebuild
  <2>1. /\ UNCHANGED <<batch, queue, gate, desired, ackSerial>>
        /\ pump # "ended" /\ pump' # "ended"
    BY <1>2 DEF Pump, Rebuild, GiveUp, NoRebuild, queueVars, EndOfPass
  <2>2. Pending' = Pending /\ Wish' = Wish BY <2>1 DEF Pending, Wish
  <2>3. producer' => Wish # 0 /\ ~gate.leased BY <1>1, <2>1, <2>2 DEF ShapeInv, Wish
  <2>4. Lease!Capture BY <1>1, <2>1, <2>2, <2>3 DEF Lease!Capture
  <2> QED BY <2>4 DEF Lease!Next
<1>3. CASE WaitAndDrain
  <2>1. /\ batch = <<>> /\ batch' = queue /\ queue' = <<>> /\ pump = "wait" /\ pump' = "apply"
        /\ UNCHANGED <<gate, desired, producer, ackSerial>>
    BY <1>1, <1>3 DEF WaitAndDrain, LeaseInv
  <2>2. Pending = <<>> \o queue /\ Pending' = queue \o <<>> BY <2>1 DEF Pending
  <2>3. Pending' = Pending BY <1>1, <2>2, ConcatEmptySeq
  <2>4. Wish' = Wish BY <2>1 DEF Wish
  <2> QED BY <2>1, <2>3, <2>4 DEF Lease!vars
<1>4. CASE PumpStarts /\ pump' = "wait"
  <2>1. UNCHANGED <<batch, queue, gate, desired, producer, ackSerial>> /\ pump = "start"
    BY <1>4 DEF PumpStarts
  <2>2. Pending' = Pending /\ Wish' = Wish BY <1>4, <2>1 DEF Pending, Wish
  <2> QED BY <2>1, <2>2 DEF Lease!vars
<1>5. CASE PumpEnds \/ (PumpStarts /\ pump' = "ended")
  <2>1. UNCHANGED <<gate, desired, ackSerial>> /\ pump' = "ended"
    BY <1>5 DEF PumpStarts, PumpEnds, queueVars
  <2>2. producer' = FALSE
    <3>1. CASE PumpEnds BY <3>1 DEF PumpEnds, DropSubscription
    <3>2. CASE PumpStarts
      <4>1. pump = "start" /\ producer' = producer BY <3>2 DEF PumpStarts
      <4> QED BY <1>1, <4>1 DEF ShapeInv
    <3> QED BY <1>5, <3>1, <3>2
  <2>3. Pending' = <<>> /\ Wish' = Wish BY <2>1 DEF Pending, Wish
  <2>4. Lease!Shutdown BY <2>1, <2>2, <2>3 DEF Lease!Shutdown
  <2> QED BY <2>4 DEF Lease!Next
<1> QED BY <1>2, <1>3, <1>4, <1>5 DEF PumpStarts

LEMMA ClientRefines ==
    ASSUME HubInv, GuiNext \/ WorkerNext
    PROVE  [Lease!Next]_(Lease!vars)
<1>1. CASE HandlerPosts
  <2>1. UNCHANGED pumpVars BY <1>1 DEF HandlerPosts
  <2>2. Head(todo).op \in Ops /\ Head(todo).epoch \in Nat
    <3>1. todo \in Seq(Posts) /\ todo # <<>> BY <1>1 DEF HubInv, TypeInv, HandlerPosts
    <3>2. Head(todo) \in Posts BY <3>1, HeadTailProperties
    <3> QED BY <1>1, <3>2 DEF HandlerPosts, Posts
  <2>3. CASE Post(Head(todo).op, Head(todo).epoch) BY <2>1, <2>2, <2>3, PostRefines
  <2>4. CASE UNCHANGED <<queueVars, lastReturn>>
    <3>1. UNCHANGED leaseSees BY <2>1, <2>4 DEF leaseSees, pumpVars, queueVars
    <3> QED BY <3>1, Unseen
  <2> QED BY <1>1, <2>3, <2>4 DEF HandlerPosts
<1>2. CASE HookRequest
  <2>1. UNCHANGED pumpVars BY <1>2 DEF HookRequest, WorkerStep
  <2>2. CASE Post("LeaseRequest", 0) BY <2>1, <2>2, PostRefines DEF Ops
  <2>3. CASE UNCHANGED <<queueVars, lastReturn>>
    <3>1. UNCHANGED leaseSees BY <2>1, <2>3 DEF leaseSees, pumpVars, queueVars
    <3> QED BY <3>1, Unseen
  <2> QED BY <1>2, <2>2, <2>3 DEF HookRequest
<1>3. CASE SetWanted \/ AttachPreviewItem \/ DetachPreviewItem \/ SetPreviewTarget \/ HandlerRunState
  <2>1. UNCHANGED leaseSees
    BY <1>3 DEF SetWanted, AttachPreviewItem, DetachPreviewItem, SetPreviewTarget, HandlerRunState, UserStep,
                leaseSees, queueVars, pumpVars
  <2> QED BY <2>1, Unseen
<1>4. CASE DeliverState \/ Destroy \/ Shutdown \/ StartRecording \/ CancelPreparing \/ FolderValidated
  <2>1. UNCHANGED leaseSees
    BY <1>4 DEF DeliverState, Destroy, Shutdown, StartRecording, CancelPreparing, FolderValidated, leaseSees,
                queueVars, pumpVars
  <2> QED BY <2>1, Unseen
<1>5. CASE PrepareEnds \/ HookFlag \/ HookReturns \/ Commit \/ RecordingEnds
  <2>1. UNCHANGED leaseSees
    BY <1>5 DEF PrepareEnds, HookFlag, HookReturns, Commit, RecordingEnds, WorkerStep, leaseSees, queueVars, pumpVars
  <2> QED BY <2>1, Unseen
<1> QED BY <1>1, <1>2, <1>3, <1>4, <1>5 DEF GuiNext, WorkerNext

\* The service implements the arbiter: queue, batch, gate, registry, hub and the
\* rebuild together behave as one command at a time, in the order of the posts.
THEOREM Refinement == Spec => ImplementsLease
<1>1. Init => Lease!Init
  <2> SUFFICES ASSUME Init PROVE Lease!Init OBVIOUS
  <2>1. Pending = <<>>
    <3>1. <<>> \in Seq(Nat) OBVIOUS
    <3>2. Pending = <<>> \o <<>> BY DEF Init, Pending
    <3> QED BY <3>1, <3>2, ConcatEmptySeq
  <2>2. gate.leased = FALSE /\ Wish = 0 BY DEF Init, NoGate, Wish
  <2> QED BY <2>1, <2>2 DEF Init, Lease!Init
<1>2. HubInv /\ HubInv' /\ [Next]_vars => [Lease!Next]_(Lease!vars)
  <2> SUFFICES ASSUME HubInv, HubInv', [Next]_vars PROVE [Lease!Next]_(Lease!vars) OBVIOUS
  <2>1. CASE PumpNext BY <2>1, ApplyRefines, PumpRefines DEF PumpNext
  <2>2. CASE GuiNext \/ WorkerNext BY <2>2, ClientRefines
  <2>3. CASE UNCHANGED vars
    <3>1. UNCHANGED leaseSees BY <2>3 DEF leaseSees, vars, queueVars, pumpVars
    <3> QED BY <3>1, Unseen
  <2> QED BY <2>1, <2>2, <2>3 DEF Next
<1> QED BY <1>1, <1>2, HubInvariant, PTL DEF Spec, ImplementsLease, Lease!Spec

-----------------------------------------------------------------------------
(* The last command stands.  Only Subscribe and Unsubscribe change what preview
   is wanted, so what will be wanted once everything is applied is said by the
   last of them in the batch and the queue or, when none is left, by the gate. *)

View(c) == c.op \in {"Subscribe", "Unsubscribe"}
Asks(c) == IF c.op = "Subscribe" THEN c.epoch ELSE 0

\* Applied to the wish x, the commands s end with the wish v.
Ends(s, x, v) ==
    \/ v = x /\ \A i \in DOMAIN s : ~View(s[i])
    \/ \E i \in DOMAIN s : /\ View(s[i]) /\ v = Asks(s[i])
                           /\ \A j \in DOMAIN s : j > i => ~View(s[j])

LeaseBack == [op |-> "LeaseReturn", epoch |-> 0]
RunState == [op |-> "RunState", epoch |-> 0]
Unsub(e) == [op |-> "Unsubscribe", epoch |-> e]
Sub(e) == [op |-> "Subscribe", epoch |-> e]

\* The preview the adapter believes to have asked for.
Asked == IF running /\ item THEN epoch ELSE 0

\* The handler in progress has no post left that asks for a preview or for none.
Told == todo = <<>> \/ todo = <<LeaseBack, RunState>> \/ todo = <<RunState>>

FlagInv ==
    /\ wanted \in BOOLEAN /\ item \in BOOLEAN /\ running \in BOOLEAN /\ feed \in BOOLEAN
    /\ stopping => pump = "ended" \/ closed

\* What a handler has left to post agrees with the flags it has set.
TodoInv ==
    ~closed =>
        \/ Told
        \/ todo = <<Unsub(epoch + 1)>> /\ ~(running /\ item)
        \/ todo = <<Unsub(epoch + 1), Sub(epoch + 2)>> /\ running /\ item
        \/ todo = <<Sub(epoch + 1)>> /\ running /\ item

\* A preview that runs is wanted, unless a handler is about to look again.
RunInv == ~closed /\ running /\ ~feed /\ todo # <<LeaseBack, RunState>> /\ todo # <<RunState>> => wanted

\* Between handlers, the commands not yet applied end with what was asked for.
WishInv ==
    ~closed /\ Told =>
        /\ running /\ item => epoch # 0
        /\ ~stopping => Ends(batch \o queue, Wish, Asked)

\* The preview in use is the one that was subscribed last, and a Subscribe is
\* put off only while the capture is lent.
ServeInv ==
    /\ gate.deferred => gate.leased
    /\ pump # "ended" /\ gate.subscribed => served = desired

CommandInv == FlagInv /\ TodoInv /\ RunInv /\ WishInv /\ ServeInv

LEMMA EndsEmpty ==
    ASSUME NEW x
    PROVE  Ends(<<>>, x, x)
BY DEF Ends

LEMMA EndsAppend ==
    ASSUME NEW S, NEW s \in Seq(S), NEW c \in S, NEW x, NEW v
    PROVE  /\ View(c) => Ends(Append(s, c), x, Asks(c))
           /\ ~View(c) /\ Ends(s, x, v) => Ends(Append(s, c), x, v)
<1> DEFINE t == Append(s, c)
<1>1. /\ Len(s) \in Nat /\ DOMAIN s = 1 .. Len(s) /\ DOMAIN t = 1 .. Len(s) + 1
      /\ \A i \in 1 .. Len(s) : t[i] = s[i]
      /\ t[Len(s) + 1] = c
  BY AppendProperties, LenProperties
<1> HIDE DEF t
<1>2. View(c) => Ends(t, x, Asks(c))
  <2> SUFFICES ASSUME View(c) PROVE Ends(t, x, Asks(c)) OBVIOUS
  <2>1. Len(s) + 1 \in DOMAIN t /\ ~\E j \in DOMAIN t : j > Len(s) + 1 BY <1>1
  <2> QED BY <2>1, <1>1 DEF Ends
<1>3. ~View(c) /\ Ends(s, x, v) => Ends(t, x, v)
  <2> SUFFICES ASSUME ~View(c), Ends(s, x, v) PROVE Ends(t, x, v) OBVIOUS
  <2>1. CASE v = x /\ \A i \in DOMAIN s : ~View(s[i])
    <3>1. \A i \in DOMAIN t : ~View(t[i]) BY <2>1, <1>1
    <3> QED BY <2>1, <3>1 DEF Ends
  <2>2. ASSUME NEW i \in DOMAIN s, View(s[i]), v = Asks(s[i]), \A j \in DOMAIN s : j > i => ~View(s[j])
        PROVE  Ends(t, x, v)
    <3>1. i \in DOMAIN t /\ t[i] = s[i] BY <1>1
    <3>2. \A j \in DOMAIN t : j > i => ~View(t[j]) BY <2>2, <1>1
    <3> QED BY <2>2, <3>1, <3>2 DEF Ends
  <2> QED BY <2>1, <2>2 DEF Ends
<1> QED BY <1>2, <1>3 DEF t

LEMMA EndsTail ==
    ASSUME NEW S, NEW s \in Seq(S), s # <<>>, NEW x, NEW v, Ends(s, x, v)
    PROVE  Ends(Tail(s), IF View(Head(s)) THEN Asks(Head(s)) ELSE x, v)
<1> DEFINE t == Tail(s)
<1> DEFINE y == IF View(Head(s)) THEN Asks(Head(s)) ELSE x
<1>1. /\ Len(s) \in Nat \ {0} /\ DOMAIN s = 1 .. Len(s) /\ DOMAIN t = 1 .. Len(s) - 1
      /\ \A i \in 1 .. Len(s) - 1 : t[i] = s[i + 1]
      /\ Head(s) = s[1] /\ 1 \in DOMAIN s
  BY HeadTailProperties, LenProperties, EmptySeq
<1> HIDE DEF t
<1>2. CASE v = x /\ \A i \in DOMAIN s : ~View(s[i])
  <2>1. \A i \in DOMAIN t : ~View(t[i]) BY <1>1, <1>2
  <2>2. y = v BY <1>1, <1>2
  <2> QED BY <2>1, <2>2 DEF Ends, t
<1>3. ASSUME NEW i \in DOMAIN s, View(s[i]), v = Asks(s[i]), \A j \in DOMAIN s : j > i => ~View(s[j])
      PROVE  Ends(t, y, v)
  <2>1. CASE i = 1
    <3>1. \A j \in DOMAIN t : ~View(t[j]) BY <1>1, <1>3, <2>1
    <3>2. y = v BY <1>1, <1>3, <2>1
    <3> QED BY <3>1, <3>2 DEF Ends
  <2>2. CASE i # 1
    <3>1. i - 1 \in DOMAIN t /\ t[i - 1] = s[i]
      <4>1. i - 1 \in 1 .. Len(s) - 1 /\ (i - 1) + 1 = i BY <1>1, <2>2
      <4> QED BY <4>1, <1>1
    <3>2. \A j \in DOMAIN t : j > i - 1 => ~View(t[j])
      <4> SUFFICES ASSUME NEW j \in DOMAIN t, j > i - 1 PROVE ~View(t[j]) OBVIOUS
      <4>1. j + 1 \in DOMAIN s /\ j + 1 > i /\ t[j] = s[j + 1] BY <1>1
      <4> QED BY <4>1, <1>3
    <3> HIDE DEF y
    <3> QED BY <3>1, <3>2, <1>3 DEF Ends
  <2> QED BY <2>1, <2>2
<1> QED BY <1>2, <1>3 DEF Ends, t

-----------------------------------------------------------------------------
(* Steps of the pump leave the adapter alone *)

LEMMA PumpKeeps ==
    ASSUME HubInv, CommandInv, UNCHANGED guiVars,
           pump = "ended" => pump' = "ended",
           stopping' => stopping \/ pump' = "ended",
           Ends(batch \o queue, Wish, Asked) => Ends(batch' \o queue', Wish', Asked),
           stopping => stopping',
           ServeInv'
    PROVE  CommandInv'
<1>1. FlagInv' BY DEF CommandInv, FlagInv, guiVars
<1>2. TodoInv' BY DEF CommandInv, TodoInv, Told, guiVars
<1>3. RunInv' BY DEF CommandInv, RunInv, guiVars
<1>4. Asked' = Asked /\ Told' = Told BY DEF Asked, Told, guiVars
<1>5. WishInv' BY <1>4 DEF CommandInv, WishInv, guiVars
<1> QED BY <1>1, <1>2, <1>3, <1>5 DEF CommandInv

\* A command that leaves the batch changes the wish as Ends says.
LEMMA DrainedKeeps ==
    ASSUME HubInv, CommandInv, NEW op \in Ops, Drained(op),
           Wish' = IF View(Head(batch)) THEN Asks(Head(batch)) ELSE Wish,
           ServeInv'
    PROVE  CommandInv'
<1>1. /\ batch \in Seq(Lease!Command) /\ queue \in Seq(Lease!Command)
      /\ batch # <<>> /\ batch' = Tail(batch) /\ queue' = queue
      /\ pump = "apply" /\ pump' = pump /\ stopping' = stopping /\ UNCHANGED guiVars
  BY DEF HubInv, TypeInv, Drained
<1>2. /\ batch \o queue # <<>> /\ Head(batch \o queue) = Head(batch)
      /\ Tail(batch \o queue) = batch' \o queue'
      /\ batch \o queue \in Seq(Lease!Command)
  BY <1>1, ConcatHeadTail, ConcatProperties
<1>3. Ends(batch \o queue, Wish, Asked) => Ends(batch' \o queue', Wish', Asked)
  <2> SUFFICES ASSUME Ends(batch \o queue, Wish, Asked) PROVE Ends(batch' \o queue', Wish', Asked) OBVIOUS
  <2>1. Ends(Tail(batch \o queue), IF View(Head(batch \o queue)) THEN Asks(Head(batch \o queue)) ELSE Wish, Asked)
    BY <1>2, EndsTail
  <2> QED BY <1>2, <2>1
<1> QED BY <1>1, <1>3, PumpKeeps

LEMMA ApplyKeeps ==
    ASSUME HubInv, CommandInv, ApplySubscribe \/ ApplyUnsubscribe \/ ApplyLeaseRequest \/ ApplyLeaseReturn
    PROVE  CommandInv'
<1>1. gate \in Gates /\ ShapeInv /\ ServeInv BY DEF HubInv, TypeInv, CommandInv
<1>2. gate.leased \in BOOLEAN /\ gate.subscribed \in BOOLEAN /\ gate.deferred \in BOOLEAN BY <1>1 DEF Gates
<1>3. CASE ApplySubscribe
  <2>1. /\ Drained("Subscribe") /\ desired' = Head(batch).epoch /\ Head(batch).op = "Subscribe"
        /\ gate' = [leased |-> gate.leased, subscribed |-> ~gate.leased, deferred |-> gate.leased]
        /\ ~gate.leased => served' = desired'
    BY <1>1, <1>3, GateStep DEF ApplySubscribe, ApplySubscription, Drained
  <2>2. Wish' = IF View(Head(batch)) THEN Asks(Head(batch)) ELSE Wish BY <2>1, <1>2 DEF Wish, View, Asks
  <2>3. ServeInv' BY <2>1, <1>2 DEF ServeInv
  <2> QED BY <2>1, <2>2, <2>3, DrainedKeeps DEF Ops
<1>4. CASE ApplyUnsubscribe
  <2>1. /\ Drained("Unsubscribe") /\ Head(batch).op = "Unsubscribe"
        /\ gate' = [leased |-> gate.leased, subscribed |-> FALSE, deferred |-> FALSE]
    BY <1>1, <1>4, GateStep DEF ApplyUnsubscribe, Drained
  <2>2. Wish' = IF View(Head(batch)) THEN Asks(Head(batch)) ELSE Wish BY <2>1 DEF Wish, View, Asks
  <2>3. ServeInv' BY <2>1 DEF ServeInv
  <2> QED BY <2>1, <2>2, <2>3, DrainedKeeps DEF Ops
<1>5. CASE ApplyLeaseRequest
  <2>1. /\ Drained("LeaseRequest") /\ Head(batch).op = "LeaseRequest" /\ UNCHANGED <<desired, served, pump>>
        /\ gate' = [leased |-> TRUE, subscribed |-> gate.subscribed, deferred |-> gate.deferred]
    BY <1>1, <1>5, GateStep DEF ApplyLeaseRequest, Drained
  <2>2. Wish' = IF View(Head(batch)) THEN Asks(Head(batch)) ELSE Wish BY <2>1, <1>2 DEF Wish, View
  <2>3. ServeInv' BY <2>1, <1>1, <1>2 DEF ServeInv
  <2> QED BY <2>1, <2>2, <2>3, DrainedKeeps DEF Ops
<1>6. CASE ApplyLeaseReturn
  <2>1. /\ Drained("LeaseReturn") /\ Head(batch).op = "LeaseReturn" /\ UNCHANGED <<desired, pump>>
        /\ gate' = [leased |-> FALSE, subscribed |-> gate.subscribed \/ gate.deferred,
                    deferred |-> gate.deferred /\ gate.subscribed]
        /\ gate.subscribed => served' = served
        /\ ~gate.subscribed /\ gate.deferred => served' = desired
    BY <1>1, <1>6, GateStep DEF ApplyLeaseReturn, ApplySubscription, Drained
  <2>2. Wish' = IF View(Head(batch)) THEN Asks(Head(batch)) ELSE Wish BY <2>1, <1>2 DEF Wish, View
  <2>3. ServeInv' BY <2>1, <1>1, <1>2 DEF ServeInv, ShapeInv
  <2> QED BY <2>1, <2>2, <2>3, DrainedKeeps DEF Ops
<1> QED BY <1>3, <1>4, <1>5, <1>6

LEMMA LoopKeeps ==
    ASSUME HubInv, CommandInv,
           PumpStarts \/ WaitAndDrain \/ Pump \/ Rebuild \/ GiveUp \/ NoRebuild \/ PumpEnds
    PROVE  CommandInv'
<1>1. ServeInv /\ FlagInv BY DEF CommandInv
<1>2. CASE WaitAndDrain
  <2>1. /\ batch = <<>> /\ batch' = queue /\ queue' = <<>> /\ queue \in Seq(Lease!Command)
        /\ UNCHANGED <<gate, desired, served, stopping, guiVars>> /\ pump = "wait" /\ pump' = "apply"
    BY <1>2 DEF WaitAndDrain, HubInv, TypeInv, LeaseInv
  <2>2. batch' \o queue' = batch \o queue BY <2>1, ConcatEmptySeq
  <2>3. Wish' = Wish BY <2>1 DEF Wish
  <2>4. ServeInv' BY <1>1, <2>1 DEF ServeInv
  <2> QED BY <2>1, <2>2, <2>3, <2>4, PumpKeeps
<1>3. CASE PumpStarts \/ Pump \/ Rebuild \/ GiveUp \/ NoRebuild \/ PumpEnds
  <2>1. /\ UNCHANGED <<batch, queue, gate, desired, guiVars>> /\ pump # "ended"
        /\ pump' # "ended" => served' = served
        /\ stopping' => stopping \/ pump' = "ended"
        /\ stopping => stopping'
    <3>1. CASE PumpStarts BY <3>1 DEF PumpStarts
    <3>2. CASE Pump BY <3>2 DEF Pump, EndOfPass, queueVars
    <3>3. CASE Rebuild BY <3>3 DEF Rebuild, queueVars
    <3>4. CASE GiveUp BY <3>4 DEF GiveUp, queueVars
    <3>5. CASE NoRebuild BY <3>5 DEF NoRebuild, queueVars
    <3>6. CASE PumpEnds BY <3>6 DEF PumpEnds, queueVars
    <3> QED BY <1>3, <3>1, <3>2, <3>3, <3>4, <3>5, <3>6
  <2>2. Wish' = Wish BY <2>1 DEF Wish
  <2>3. ServeInv' BY <1>1, <2>1 DEF ServeInv
  <2> QED BY <2>1, <2>2, <2>3, PumpKeeps
<1> QED BY <1>2, <1>3

-----------------------------------------------------------------------------
(* Steps of the adapter and of the recording worker *)

pumpSees == <<queue, batch, gate, desired, served, pump>>

LEMMA ClientKeeps ==
    ASSUME CommandInv, UNCHANGED <<pumpSees, wanted, item, running, epoch, todo, closed>>,
           feed' = feed \/ feed' = TRUE,
           stopping' = stopping \/ (stopping' /\ closed)
    PROVE  CommandInv'
<1>1. FlagInv'
  <2>1. FlagInv BY DEF CommandInv
  <2>2. feed' \in BOOLEAN BY <2>1 DEF FlagInv
  <2>3. stopping' => pump' = "ended" \/ closed' BY <2>1 DEF FlagInv, pumpSees
  <2> QED BY <2>1, <2>2, <2>3 DEF FlagInv
<1>2. TodoInv' BY DEF CommandInv, TodoInv, Told
<1>3. RunInv' BY DEF CommandInv, RunInv
<1>4. Asked' = Asked /\ Told' = Told /\ Wish' = Wish BY DEF Asked, Told, Wish, pumpSees
<1>5. WishInv' BY <1>4 DEF CommandInv, WishInv, pumpSees
<1>6. ServeInv' BY DEF CommandInv, ServeInv, pumpSees
<1> QED BY <1>1, <1>2, <1>3, <1>5, <1>6 DEF CommandInv

LEMMA OthersKeep ==
    ASSUME CommandInv,
           \/ StartRecording \/ CancelPreparing \/ FolderValidated \/ Shutdown
           \/ PrepareEnds \/ HookFlag \/ HookReturns \/ Commit \/ RecordingEnds \/ UNCHANGED vars
    PROVE  CommandInv'
<1>1. CASE StartRecording \/ CancelPreparing \/ FolderValidated \/ Shutdown
  <2>1. /\ UNCHANGED <<pumpSees, wanted, item, running, epoch, todo, closed, feed>>
        /\ stopping' = stopping \/ (stopping' /\ closed)
    BY <1>1 DEF StartRecording, CancelPreparing, FolderValidated, Shutdown, pumpSees, queueVars, pumpVars, guiVars
  <2> QED BY <2>1, ClientKeeps
<1>2. CASE PrepareEnds \/ HookFlag \/ HookReturns \/ Commit \/ RecordingEnds
  <2>1. /\ UNCHANGED <<pumpSees, wanted, item, running, epoch, todo, closed, stopping>>
        /\ feed' = feed \/ feed' = TRUE
    BY <1>2 DEF PrepareEnds, HookFlag, HookReturns, Commit, RecordingEnds, WorkerStep, pumpSees, queueVars, pumpVars
  <2> QED BY <2>1, ClientKeeps
<1>3. CASE UNCHANGED vars
  <2>1. UNCHANGED <<pumpSees, wanted, item, running, epoch, todo, closed, feed, stopping>>
    BY <1>3 DEF vars, pumpSees, queueVars, pumpVars, guiVars
  <2> QED BY <2>1, ClientKeeps
<1> QED BY <1>1, <1>2, <1>3

\* A handler that begins or goes on without a post.
LEMMA HandlerKeeps ==
    ASSUME CommandInv, UNCHANGED <<pumpSees, stopping, epoch, closed>>,
           FlagInv', TodoInv', RunInv',
           ~closed /\ Told' => Told /\ Asked' = Asked /\ (running' /\ item' => running /\ item)
    PROVE  CommandInv'
<1>1. Wish' = Wish BY DEF Wish, pumpSees
<1>2. WishInv' BY <1>1 DEF CommandInv, WishInv, pumpSees
<1>3. ServeInv' BY DEF CommandInv, ServeInv, pumpSees
<1> QED BY <1>2, <1>3 DEF CommandInv

\* The posts of a handler ask for a preview exactly when one will run.
LEMMA PreviewTodo ==
    ASSUME NEW e \in Nat
    PROVE  /\ StopPreview(e) = <<Unsub(e + 1)>>
           /\ wanted' /\ item' => StartPreview(e) = <<Unsub(e + 1), Sub(e + 2)>>
           /\ ~(wanted' /\ item') => StartPreview(e) = <<Unsub(e + 1)>>
           /\ <<Unsub(e + 1)>> # <<>> /\ <<Unsub(e + 1)>> # <<RunState>>
           /\ <<Unsub(e + 1)>> # <<LeaseBack, RunState>>
           /\ <<Unsub(e + 1), Sub(e + 2)>> # <<>> /\ <<Unsub(e + 1), Sub(e + 2)>> # <<RunState>>
           /\ <<Unsub(e + 1), Sub(e + 2)>> # <<LeaseBack, RunState>>
           /\ <<Sub(e + 1)>> # <<>> /\ <<Sub(e + 1)>> # <<RunState>> /\ <<Sub(e + 1)>> # <<LeaseBack, RunState>>
<1>1. /\ StopPreview(e) = <<Unsub(e + 1)>>
      /\ wanted' /\ item' => StartPreview(e) = <<Unsub(e + 1), Sub(e + 2)>>
      /\ ~(wanted' /\ item') => StartPreview(e) = <<Unsub(e + 1)>>
  BY DEF StopPreview, StartPreview, Unsub, Sub
<1>2. /\ Unsub(e + 1).op = "Unsubscribe" /\ Sub(e + 1).op = "Subscribe" /\ LeaseBack.op = "LeaseReturn"
      /\ RunState.op = "RunState"
  BY DEF Unsub, Sub, LeaseBack, RunState
<1>3. Unsub(e + 1) # RunState /\ Unsub(e + 1) # LeaseBack /\ Sub(e + 1) # RunState /\ Sub(e + 1) # LeaseBack
  BY <1>2
<1> QED BY <1>1, <1>3

\* applyPreviewRunState leaves the handler with posts that agree with the flags.
LEMMA RunStateKeeps ==
    ASSUME HubInv, CommandInv, NEW run \in BOOLEAN, RunStatePosts(run, feed),
           UNCHANGED <<pumpSees, stopping, epoch, closed, feed>>, wanted' \in BOOLEAN, item' \in BOOLEAN,
           ~closed => Told,
           run /\ item' <=> running /\ item,
           run => running
    PROVE  CommandInv'
<1>1. epoch \in Nat /\ FlagInv BY DEF HubInv, TypeInv, CommandInv
<1>2. CASE feed \/ wanted' = run
  <2>1. todo' = <<>> /\ running' = run BY <1>2 DEF RunStatePosts
  <2>2. FlagInv' BY <1>1, <2>1 DEF FlagInv, pumpSees
  <2>3. TodoInv' BY <2>1 DEF TodoInv, Told
  <2>4. RunInv' BY <1>2, <2>1 DEF RunInv
  <2>5. Asked' = Asked BY <2>1 DEF Asked
  <2> QED BY <2>1, <2>2, <2>3, <2>4, <2>5, HandlerKeeps
<1>3. CASE ~(feed \/ wanted' = run)
  <2>1. running' = wanted' /\ todo' = IF wanted' THEN StartPreview(epoch) ELSE StopPreview(epoch)
    BY <1>3 DEF RunStatePosts
  <2>2. /\ \/ todo' = <<Unsub(epoch + 1), Sub(epoch + 2)>> /\ running' /\ item'
           \/ todo' = <<Unsub(epoch + 1)>> /\ ~(running' /\ item')
        /\ ~Told'
    BY <1>1, <2>1, PreviewTodo DEF Told
  <2>3. FlagInv' BY <1>1, <2>1 DEF FlagInv, pumpSees
  <2>4. TodoInv' BY <2>2 DEF TodoInv
  <2>5. RunInv' BY <2>1 DEF RunInv
  <2> QED BY <2>2, <2>3, <2>4, <2>5, HandlerKeeps
<1> QED BY <1>2, <1>3

LEMMA UserKeeps ==
    ASSUME HubInv, CommandInv, SetWanted \/ AttachPreviewItem \/ DetachPreviewItem \/ SetPreviewTarget
    PROVE  CommandInv'
<1>1. epoch \in Nat /\ FlagInv /\ RunInv BY DEF HubInv, TypeInv, CommandInv
<1>2. UNCHANGED <<pumpSees, stopping, epoch, closed, feed>> /\ todo = <<>> /\ ~closed /\ Told
  BY DEF SetWanted, AttachPreviewItem, DetachPreviewItem, SetPreviewTarget, UserStep, GuiIdle, Told, pumpSees,
         queueVars, pumpVars
<1>3. CASE SetWanted
  <2>1. wanted' \in BOOLEAN /\ item' = item /\ RunStatePosts(running, feed) BY <1>3 DEF SetWanted
  <2> QED BY <1>1, <1>2, <2>1, RunStateKeeps DEF FlagInv
<1>4. CASE AttachPreviewItem
  <2>1. wanted' = wanted /\ item' = TRUE /\ ~item /\ RunStatePosts(FALSE, feed) BY <1>4 DEF AttachPreviewItem
  <2> QED BY <1>1, <1>2, <2>1, RunStateKeeps DEF FlagInv
<1>5. CASE DetachPreviewItem
  <2>1. wanted' = wanted /\ item' = FALSE /\ running' = FALSE /\ todo' = StopPreview(epoch)
    BY <1>5 DEF DetachPreviewItem
  <2>2. todo' = <<Unsub(epoch + 1)>> /\ ~Told' BY <1>1, <2>1, PreviewTodo DEF Told
  <2>3. FlagInv' BY <1>1, <1>2, <2>1 DEF FlagInv, pumpSees
  <2>4. TodoInv' BY <1>2, <2>1, <2>2 DEF TodoInv
  <2>5. RunInv' BY <2>1 DEF RunInv
  <2> QED BY <1>2, <2>2, <2>3, <2>4, <2>5, HandlerKeeps
<1>6. CASE SetPreviewTarget
  <2>1. running /\ ~feed /\ UNCHANGED <<wanted, item, running>> /\ todo' = StartPreview(epoch)
    BY <1>6 DEF SetPreviewTarget
  <2>2. wanted BY <1>1, <1>2, <2>1 DEF RunInv
  <2>3. /\ \/ todo' = <<Unsub(epoch + 1), Sub(epoch + 2)>> /\ running' /\ item'
           \/ todo' = <<Unsub(epoch + 1)>> /\ ~(running' /\ item')
        /\ ~Told'
    BY <1>1, <2>1, <2>2, PreviewTodo DEF Told
  <2>4. FlagInv' BY <1>1, <1>2, <2>1 DEF FlagInv, pumpSees
  <2>5. TodoInv' BY <1>2, <2>3 DEF TodoInv
  <2>6. RunInv' BY <2>1, <2>2 DEF RunInv
  <2> QED BY <1>2, <2>3, <2>4, <2>5, <2>6, HandlerKeeps
<1> QED BY <1>3, <1>4, <1>5, <1>6

LEMMA StateKeeps ==
    ASSUME HubInv, CommandInv, HandlerRunState \/ DeliverState \/ Destroy
    PROVE  CommandInv'
<1>1. epoch \in Nat /\ FlagInv /\ RunInv /\ TodoInv BY DEF HubInv, TypeInv, CommandInv
<1>2. CASE HandlerRunState
  <2>1. /\ UNCHANGED <<pumpSees, stopping, epoch, closed, feed, wanted, item>>
        /\ RunStatePosts(running, feed) /\ Head(todo).op = "RunState"
    BY <1>2 DEF HandlerRunState, pumpSees, queueVars, pumpVars
  <2>2. ~closed => Told
    <3>1. /\ \A e : Head(<<Unsub(e)>>).op = "Unsubscribe" /\ Head(<<Sub(e)>>).op = "Subscribe"
          /\ \A e, f : Head(<<Unsub(e), Sub(f)>>).op = "Unsubscribe"
      BY DEF Unsub, Sub
    <3> QED BY <1>1, <2>1, <3>1 DEF TodoInv
  <2> QED BY <1>1, <2>1, <2>2, RunStateKeeps DEF FlagInv
<1>3. CASE DeliverState
  <2>1. /\ UNCHANGED <<pumpSees, stopping, epoch, closed, wanted, item, running>> /\ todo = <<>> /\ ~closed
        /\ \/ feed' = feed /\ todo' = todo
           \/ feed' = FALSE /\ todo' = <<LeaseBack, RunState>>
    BY <1>3 DEF DeliverState, GuiIdle, LeaseBack, RunState, pumpSees, queueVars, pumpVars
  <2>2. FlagInv' BY <1>1, <2>1 DEF FlagInv, pumpSees
  <2>3. TodoInv' BY <2>1 DEF TodoInv, Told
  <2>4. RunInv' BY <1>1, <2>1 DEF RunInv
  <2>5. Told /\ Asked' = Asked BY <2>1 DEF Told, Asked
  <2> QED BY <2>1, <2>2, <2>3, <2>4, <2>5, HandlerKeeps
<1>4. CASE Destroy
  <2>1. UNCHANGED <<pumpSees, stopping, epoch, feed, wanted, item, running>> /\ closed' = TRUE /\ todo = <<>>
    BY <1>4 DEF Destroy, GuiIdle, pumpSees, queueVars, pumpVars
  <2>2. FlagInv' BY <1>1, <2>1 DEF FlagInv, pumpSees
  <2>3. TodoInv' BY <2>1 DEF TodoInv
  <2>4. RunInv' BY <2>1 DEF RunInv
  <2>5. WishInv' BY <2>1 DEF WishInv
  <2>6. ServeInv' BY <2>1 DEF CommandInv, ServeInv, pumpSees
  <2> QED BY <2>2, <2>3, <2>4, <2>5, <2>6 DEF CommandInv
<1> QED BY <1>2, <1>3, <1>4

\* A post of a queue that is open: a command about the preview decides how the
\* commands end, a command about the lease changes nothing.
LEMMA PostEnds ==
    ASSUME HubInv, NEW op \in Ops, NEW e \in Nat, Post(op, e), UNCHANGED pumpVars, ~stopping, NEW v
    PROVE  /\ op \in {"Subscribe", "Unsubscribe"} =>
                  Ends(batch' \o queue', Wish', IF op = "Subscribe" THEN e ELSE 0)
           /\ op \notin {"Subscribe", "Unsubscribe"} /\ Ends(batch \o queue, Wish, v) =>
                  Ends(batch' \o queue', Wish', v)
<1> DEFINE c == [op |-> op, serial |-> nextSerial, epoch |-> e]
<1>1. queue \in Seq(Lease!Command) /\ batch \in Seq(Lease!Command) /\ nextSerial \in Nat
  BY DEF HubInv, TypeInv
<1>2. c \in Lease!Command /\ c.op = op /\ c.epoch = e BY <1>1 DEF Lease!Command, Ops
<1>3. batch' = batch /\ queue' = Append(queue, c) BY DEF Post, pumpVars
<1>4. Wish' = Wish BY DEF Wish, pumpVars
<1> HIDE DEF c
<1>5. batch' \o queue' = Append(batch \o queue, c) /\ batch \o queue \in Seq(Lease!Command)
  BY <1>1, <1>2, <1>3, ConcatAppend, ConcatProperties
<1>6. View(c) <=> op \in {"Subscribe", "Unsubscribe"} BY <1>2 DEF View
<1>7. Asks(c) = IF op = "Subscribe" THEN e ELSE 0 BY <1>2 DEF Asks
<1>8. /\ View(c) => Ends(Append(batch \o queue, c), Wish, Asks(c))
      /\ ~View(c) /\ Ends(batch \o queue, Wish, v) => Ends(Append(batch \o queue, c), Wish, v)
  BY <1>2, <1>5, EndsAppend
<1> QED BY <1>4, <1>5, <1>6, <1>7, <1>8

LEMMA HookRequestKeeps ==
    ASSUME HubInv, CommandInv, HookRequest
    PROVE  CommandInv'
<1>1. UNCHANGED <<pumpVars, wanted, item, running, epoch, feed, todo, closed>> BY DEF HookRequest, WorkerStep
<1>2. CASE UNCHANGED queueVars
  <2>1. UNCHANGED <<pumpSees, stopping>> BY <1>1, <1>2 DEF pumpSees, pumpVars, queueVars
  <2> QED BY <1>1, <2>1, ClientKeeps
<1>3. CASE Post("LeaseRequest", 0)
  <2>1. stopping' = stopping BY <1>3 DEF Post
  <2>2. FlagInv' BY <1>1, <2>1 DEF CommandInv, FlagInv, pumpVars
  <2>3. TodoInv' BY <1>1 DEF CommandInv, TodoInv, Told
  <2>4. RunInv' BY <1>1 DEF CommandInv, RunInv
  <2>5. Asked' = Asked /\ Told' = Told BY <1>1 DEF Asked, Told
  <2>6. ~stopping /\ Ends(batch \o queue, Wish, Asked) => Ends(batch' \o queue', Wish', Asked)
    BY <1>1, <1>3, PostEnds DEF Ops
  <2>7. WishInv' BY <1>1, <2>1, <2>5, <2>6 DEF CommandInv, WishInv
  <2>8. ServeInv' BY <1>1 DEF CommandInv, ServeInv, pumpVars
  <2> QED BY <2>2, <2>3, <2>4, <2>7, <2>8 DEF CommandInv
<1> QED BY <1>2, <1>3 DEF HookRequest

LEMMA HandlerPostsKeep ==
    ASSUME HubInv, CommandInv, HandlerPosts
    PROVE  CommandInv'
<1>1. /\ UNCHANGED <<pumpVars, wanted, item, running, feed, closed, stopping>>
      /\ todo # <<>> /\ Head(todo).op \in Ops /\ todo' = Tail(todo)
      /\ epoch' = IF Head(todo).op = "LeaseReturn" THEN epoch ELSE Head(todo).epoch
      /\ ~stopping => Post(Head(todo).op, Head(todo).epoch)
  BY DEF HandlerPosts, Post, queueVars
<1>2. epoch \in Nat /\ FlagInv /\ TodoInv /\ RunInv /\ WishInv BY DEF HubInv, TypeInv, CommandInv
<1>3. FlagInv' BY <1>1, <1>2 DEF FlagInv, pumpVars
<1>4. ServeInv' BY <1>1 DEF CommandInv, ServeInv, pumpVars
<1>5. TodoInv' /\ RunInv' /\ WishInv'
  <2>1. CASE closed BY <1>1, <2>1 DEF TodoInv, RunInv, WishInv
  <2>2. CASE ~closed /\ todo = <<LeaseBack, RunState>>
    <3>1. Head(todo) = LeaseBack /\ todo' = <<RunState>> BY <1>1, <2>2
    <3>2. LeaseBack.op = "LeaseReturn" /\ LeaseBack.epoch = 0 BY DEF LeaseBack
    <3>3. epoch' = epoch /\ Told /\ Told' /\ Asked' = Asked BY <1>1, <2>2, <3>1, <3>2 DEF Told, Asked
    <3>4. ~stopping /\ Ends(batch \o queue, Wish, Asked) => Ends(batch' \o queue', Wish', Asked)
      BY <1>1, <3>1, <3>2, PostEnds DEF Ops
    <3>5. WishInv' BY <1>1, <1>2, <2>2, <3>3, <3>4 DEF WishInv
    <3> QED BY <3>1, <3>3, <3>5 DEF TodoInv, RunInv
  <2>3. CASE ~closed /\ todo = <<RunState>>
    <3>1. Head(todo).op = "RunState" BY <2>3 DEF RunState
    <3> QED BY <1>1, <3>1 DEF Ops
  <2>4. CASE ~closed /\ todo = <<Unsub(epoch + 1)>> /\ ~(running /\ item)
    <3>1. Head(todo) = Unsub(epoch + 1) /\ todo' = <<>> BY <1>1, <2>4
    <3>2. Unsub(epoch + 1).op = "Unsubscribe" /\ Unsub(epoch + 1).epoch = epoch + 1 BY DEF Unsub
    <3>3. Told' /\ Asked' = 0 /\ ~(running' /\ item') BY <1>1, <2>4, <3>1 DEF Told, Asked
    <3>4. ~stopping => Ends(batch' \o queue', Wish', 0)
      BY <1>1, <1>2, <3>1, <3>2, PostEnds DEF Ops
    <3>5. WishInv' BY <1>1, <3>3, <3>4 DEF WishInv
    <3>6. todo # <<LeaseBack, RunState>> /\ todo # <<RunState>> BY <1>2, <2>4, PreviewTodo
    <3>7. RunInv' BY <1>1, <1>2, <2>4, <3>6 DEF RunInv
    <3> QED BY <3>3, <3>5, <3>7 DEF TodoInv
  <2>5. CASE ~closed /\ todo = <<Unsub(epoch + 1), Sub(epoch + 2)>> /\ running /\ item
    <3>1. Head(todo) = Unsub(epoch + 1) /\ todo' = <<Sub(epoch + 2)>> BY <1>1, <2>5
    <3>2. Unsub(epoch + 1).op = "Unsubscribe" /\ Unsub(epoch + 1).epoch = epoch + 1 BY DEF Unsub
    <3>3. epoch' = epoch + 1 /\ epoch' \in Nat /\ epoch' + 1 = epoch + 2 BY <1>1, <1>2, <3>1, <3>2
    <3>4. todo' = <<Sub(epoch' + 1)>> BY <3>1, <3>3
    <3>5. ~Told' BY <3>3, <3>4, PreviewTodo DEF Told
    <3>6. WishInv' BY <3>5 DEF WishInv
    <3>7. todo # <<LeaseBack, RunState>> /\ todo # <<RunState>> BY <1>2, <2>5, PreviewTodo
    <3>8. RunInv' BY <1>1, <1>2, <2>5, <3>7 DEF RunInv
    <3>9. TodoInv' BY <1>1, <2>5, <3>4 DEF TodoInv
    <3> QED BY <3>6, <3>8, <3>9
  <2>6. CASE ~closed /\ todo = <<Sub(epoch + 1)>> /\ running /\ item
    <3>1. Head(todo) = Sub(epoch + 1) /\ todo' = <<>> BY <1>1, <2>6
    <3>2. Sub(epoch + 1).op = "Subscribe" /\ Sub(epoch + 1).epoch = epoch + 1 BY DEF Sub
    <3>3. Told' /\ epoch' = epoch + 1 /\ epoch' # 0 /\ Asked' = epoch + 1
      BY <1>1, <1>2, <2>6, <3>1, <3>2 DEF Told, Asked
    <3>4. ~stopping => Ends(batch' \o queue', Wish', epoch + 1)
      BY <1>1, <1>2, <3>1, <3>2, PostEnds DEF Ops
    <3>5. WishInv' BY <1>1, <3>3, <3>4 DEF WishInv
    <3>6. todo # <<LeaseBack, RunState>> /\ todo # <<RunState>> BY <1>2, <2>6, PreviewTodo
    <3>7. RunInv' BY <1>1, <1>2, <2>6, <3>6 DEF RunInv
    <3> QED BY <3>3, <3>5, <3>7 DEF TodoInv
  <2> QED BY <1>1, <1>2, <2>1, <2>2, <2>3, <2>4, <2>5, <2>6 DEF TodoInv, Told
<1> QED BY <1>3, <1>4, <1>5 DEF CommandInv

LEMMA InitCommandInv == Init => CommandInv
<1> SUFFICES ASSUME Init PROVE CommandInv OBVIOUS
<1>1. FlagInv /\ TodoInv /\ RunInv BY DEF Init, FlagInv, TodoInv, Told, RunInv
<1>2. ServeInv BY DEF Init, ServeInv, NoGate
<1>3. batch \o queue = <<>>
  <2>1. <<>> \in Seq(Nat) OBVIOUS
  <2> QED BY <2>1, ConcatEmptySeq DEF Init
<1>4. Wish = 0 /\ Asked = 0 BY DEF Init, Wish, NoGate, Asked
<1>5. WishInv BY <1>3, <1>4, EndsEmpty DEF Init, WishInv
<1> QED BY <1>1, <1>2, <1>5 DEF CommandInv

LEMMA NextCommandInv == HubInv /\ CommandInv /\ [Next]_vars => CommandInv'
<1> SUFFICES ASSUME HubInv, CommandInv, [Next]_vars PROVE CommandInv' OBVIOUS
<1>1. CASE PumpNext BY <1>1, ApplyKeeps, LoopKeeps DEF PumpNext
<1>2. CASE GuiNext BY <1>2, UserKeeps, StateKeeps, HandlerPostsKeep, OthersKeep DEF GuiNext
<1>3. CASE WorkerNext BY <1>3, HookRequestKeeps, OthersKeep DEF WorkerNext
<1>4. CASE UNCHANGED vars BY <1>4, OthersKeep
<1> QED BY <1>1, <1>2, <1>3, <1>4 DEF Next

\* When everything that was posted is applied and no recording has the capture,
\* the pump serves the preview the adapter asked for last, and holds no capture
\* when it asked for none, for any number of recordings, faults and user steps.
THEOREM LastCommand == Spec => []LastCommandStands
<1>1. HubInv /\ CommandInv => LastCommandStands
  <2> SUFFICES ASSUME HubInv, CommandInv, Settled
               PROVE  IF running /\ item THEN gate.subscribed /\ served = epoch
                      ELSE ~gate.subscribed /\ ~gate.deferred /\ ~subscribed /\ ~producer
    BY DEF LastCommandStands
  <2>1. /\ queue = <<>> /\ batch = <<>> /\ ~gate.leased /\ todo = <<>> /\ ~closed /\ pump # "ended"
    BY DEF Settled, GuiIdle, HubInv, LeaseInv
  <2>2. ~stopping /\ Told BY <2>1 DEF CommandInv, FlagInv, Told
  <2>3. batch \o queue = <<>>
    <3>1. <<>> \in Seq(Nat) OBVIOUS
    <3> QED BY <2>1, <3>1, ConcatEmptySeq
  <2>4. Ends(<<>>, Wish, Asked) /\ (running /\ item => epoch # 0)
    BY <2>1, <2>2, <2>3 DEF CommandInv, WishInv
  <2>5. Asked = Wish BY <2>4 DEF Ends
  <2>6. ServeInv /\ ShapeInv BY DEF CommandInv, HubInv
  <2>7. CASE running /\ item
    <3>1. Wish = epoch /\ epoch # 0 BY <2>4, <2>5, <2>7 DEF Asked
    <3>2. gate.subscribed \/ gate.deferred BY <3>1 DEF Wish
    <3>3. gate.subscribed BY <3>2, <2>1, <2>6 DEF ServeInv
    <3> QED BY <3>1, <3>3, <2>1, <2>6, <2>7 DEF Wish, ServeInv
  <2>8. CASE ~(running /\ item)
    <3>1. Wish = 0 BY <2>5, <2>8 DEF Asked
    <3>2. ~(gate.subscribed \/ gate.deferred) BY <3>1, <2>6 DEF Wish, ShapeInv
    <3> QED BY <3>2, <2>6, <2>8 DEF ShapeInv
  <2> QED BY <2>7, <2>8
<1>2. Init => CommandInv BY InitCommandInv
<1>3. HubInv /\ CommandInv /\ [Next]_vars => CommandInv' BY NextCommandInv
<1> QED BY <1>1, <1>2, <1>3, HubInvariant, PTL DEF Spec
=============================================================================
