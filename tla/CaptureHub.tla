----------------------------- MODULE CaptureHub -----------------------------
(* The preview's capture service and its two clients.  The pump thread owns the
   capture (CaptureSourceHub, CaptureHubRegistry) and applies the commands of
   one queue (CaptureHubCommandQueue) through an arbitration (CaptureHubGate).
   The GUI thread subscribes and unsubscribes (RecordPreviewAdapter); a
   recording worker takes the capture before the engine opens its own
   (RecordingCoordinator's release hook) and the GUI thread gives it back when
   a terminal state reaches it.  Both services, DXGI and WGC, run this code;
   only WGC can lose its device and rebuild it. *)
EXTENDS Naturals, Sequences

CONSTANTS
    Kinds,          \* the services explored: a subset of {"dxgi", "wgc"}
    MaxAttempts,    \* DeviceRebuildPolicy::max_attempts
    MaxSessions,    \* bound: recordings started
    MaxGui,         \* bound: changes the user makes to the preview
    MaxFaults,      \* bound: sources lost and opens refused
    MaxPending,     \* bound: commands a slow pump has not drained
    Timeouts        \* whether the 750 ms wait may expire before the answer

ASSUME HubAssumption ==
    /\ Kinds \subseteq {"dxgi", "wgc"}
    /\ MaxAttempts \in Nat \ {0}
    /\ MaxSessions \in Nat
    /\ MaxGui \in Nat
    /\ MaxFaults \in Nat
    /\ MaxPending \in Nat
    /\ Timeouts \in BOOLEAN

VARIABLES
    \* CaptureHubCommandQueue
    queue, nextSerial, ackSerial, stopping,
    \* WorkerProc: position in the loop, drained batch, arbitration state
    pump, batch, gate,
    \* WorkerProc: epoch of `desired` and of the sink in use; whether
    \* `subscription` is held; the hub it holds; an open producer
    desired, served, subscribed, hub, producer,
    \* WorkerProc (WGC): device rebuild
    attempts, exhausted,
    \* RecordPreviewAdapter: active_ && surface_visible_, item_,
    \* preview_running_, source_epoch_, engine_feed_expected_, and the posts
    \* the handler in progress still has to make; the destructor has begun
    wanted, item, running, epoch, feed, todo, closed,
    \* RecordingCoordinator: state_, queued state callbacks, the state the
    \* view model was last told, the worker's position, the cancel flag
    state, posted, view, worker, cancel,
    \* the worker's lease: its serial, how its wait ended; the engine's capture
    lease, acked, engine,
    \* history: serial of the newest LeaseReturn
    lastReturn,
    kind, sessions, guis, faults

queueVars == <<queue, nextSerial, ackSerial, stopping>>
pumpVars == <<pump, batch, gate, desired, served, subscribed, hub, producer, attempts, exhausted>>
guiVars == <<wanted, item, running, epoch, feed, todo, closed>>
coordVars == <<state, posted, view, worker, cancel, lease, acked, engine>>
vars == <<queueVars, pumpVars, guiVars, coordVars, lastReturn, kind, sessions, guis, faults>>

Ops == {"Subscribe", "Unsubscribe", "LeaseRequest", "LeaseReturn"}

\* The states that allow a start, and the ones that end the engine's feed
\* (ShouldRevertPreviewFromPushedMode): the same three.
Terminal == {"Ready", "Completed", "Failed"}

-----------------------------------------------------------------------------
(* CaptureHubCommandQueue *)

\* Mutant: the single slot the queue replaced, where a post overwrites the last.
PostOverwrites(op, e) ==
    /\ Len(queue) < MaxPending
    /\ nextSerial' = nextSerial + 1
    /\ queue' = IF stopping THEN queue ELSE <<[op |-> op, serial |-> nextSerial, epoch |-> e]>>
    /\ lastReturn' = IF op = "LeaseReturn" THEN nextSerial ELSE lastReturn
    /\ UNCHANGED <<ackSerial, stopping>>

\* Post: after Shutdown the serial still advances and nothing is queued.
Post(op, e) ==
    /\ Len(queue) < MaxPending
    /\ nextSerial' = nextSerial + 1
    /\ queue' = IF stopping THEN queue ELSE Append(queue, [op |-> op, serial |-> nextSerial, epoch |-> e])
    /\ lastReturn' = IF op = "LeaseReturn" THEN nextSerial ELSE lastReturn
    /\ UNCHANGED <<ackSerial, stopping>>

-----------------------------------------------------------------------------
(* CaptureSourceHub.  The services hold one subscription at most, so the number
   of consumers is whether a hub exists; the frames it hands out are left out. *)

NoHub == [exists |-> FALSE, capture_open |-> FALSE, lease_out |-> FALSE, lost |-> FALSE]

StepCaptureHub(h, event) ==
    CASE event = "ConsumerAdded" ->
            [h EXCEPT !.exists = TRUE,
                      !.capture_open = @ \/ (~h.exists /\ ~h.lease_out /\ ~h.lost)]
      [] event = "ConsumerRemoved" -> NoHub
      [] event = "FrameReceived" -> [h EXCEPT !.lost = FALSE]
      [] event \in {"SourceLost", "ReopenSucceeded", "ReopenFailed"} -> h
      [] event = "SourceUnrecoverable" -> [h EXCEPT !.capture_open = FALSE, !.lost = TRUE]
      [] event = "LeaseRequested" ->
            [h EXCEPT !.capture_open = FALSE, !.lease_out = TRUE, !.lost = FALSE]
      [] event = "LeaseReturned" -> [h EXCEPT !.lease_out = FALSE, !.capture_open = h.exists]

\* Fault is a step that fails in a way the bound counts.
Fault ==
    /\ faults < MaxFaults
    /\ faults' = faults + 1

\* Apply: the state's step, then CloseProducer, then OpenProducer, which may be
\* refused and leaves the hub owning a capture without a producer.
Apply(h, open, event) ==
    /\ hub' = StepCaptureHub(h, event)
    /\ IF hub'.capture_open /\ ~open /\ event \in {"ConsumerAdded", "LeaseReturned"}
       THEN \/ producer' = TRUE /\ UNCHANGED faults
            \/ producer' = FALSE /\ Fault
       ELSE producer' = (open /\ hub'.capture_open) /\ UNCHANGED faults

-----------------------------------------------------------------------------
(* CaptureHubGate *)

NoGate == [leased |-> FALSE, subscribed |-> FALSE, deferred |-> FALSE]

\* Mutant: an Unsubscribe that leaves the deferred Subscribe in place.
StepCaptureHubGateResurrects(g, op) ==
    CASE op = "Subscribe" -> [g EXCEPT !.subscribed = ~g.leased, !.deferred = g.leased]
      [] op = "Unsubscribe" -> [g EXCEPT !.subscribed = FALSE]
      [] op = "LeaseRequest" -> [g EXCEPT !.leased = TRUE]
      [] op = "LeaseReturn" ->
            [leased |-> FALSE, subscribed |-> g.subscribed \/ g.deferred,
             deferred |-> g.deferred /\ g.subscribed]

StepCaptureHubGate(g, op) ==
    CASE op = "Subscribe" -> [g EXCEPT !.subscribed = ~g.leased, !.deferred = g.leased]
      [] op = "Unsubscribe" -> [g EXCEPT !.subscribed = FALSE, !.deferred = FALSE]
      [] op = "LeaseRequest" -> [g EXCEPT !.leased = TRUE]
      [] op = "LeaseReturn" ->
            [leased |-> FALSE, subscribed |-> g.subscribed \/ g.deferred,
             deferred |-> g.deferred /\ g.subscribed]

-----------------------------------------------------------------------------
(* WorkerProc, the pump thread *)

\* WGC only: without a first device the service ends before its loop.
PumpStarts ==
    /\ pump = "start"
    /\ \/ pump' = "wait" /\ UNCHANGED <<stopping, faults>>
       \/ kind = "wgc" /\ pump' = "ended" /\ stopping' = TRUE /\ Fault
    /\ UNCHANGED <<queue, nextSerial, ackSerial, batch, gate, desired, served, subscribed, hub, producer,
                   attempts, exhausted, guiVars, coordVars, lastReturn, kind, sessions, guis>>

\* A wake-up with commands; the tick without any is Pump's.
WaitAndDrain ==
    /\ pump = "wait"
    /\ ~stopping
    /\ queue # <<>>
    /\ batch' = queue
    /\ queue' = <<>>
    /\ pump' = "apply"
    /\ UNCHANGED <<nextSerial, ackSerial, stopping, gate, desired, served, subscribed, hub, producer, attempts,
                   exhausted, guiVars, coordVars, lastReturn, kind, sessions, guis, faults>>

Drained(op) ==
    /\ pump = "apply"
    /\ batch # <<>>
    /\ Head(batch).op = op
    /\ batch' = Tail(batch)
    /\ gate' = StepCaptureHubGate(gate, op)
    /\ UNCHANGED <<queue, nextSerial, stopping, pump, guiVars, coordVars, lastReturn, kind, sessions, guis>>

\* apply_subscription: a fresh hub opens the source of the payload that waits.
ApplySubscription(e) ==
    /\ served' = e
    /\ subscribed' = TRUE
    /\ attempts' = 0
    /\ exhausted' = FALSE
    /\ Apply(NoHub, FALSE, "ConsumerAdded")

\* drop_subscription: the last consumer leaves, the hub and its producer go.
DropSubscription ==
    /\ served' = 0
    /\ subscribed' = FALSE
    /\ hub' = NoHub
    /\ producer' = FALSE

\* Mutant: a Subscribe is served although the capture is lent.
ApplySubscribeUnderLease ==
    /\ Drained("Subscribe")
    /\ desired' = Head(batch).epoch
    /\ ApplySubscription(desired')
    /\ UNCHANGED ackSerial

ApplySubscribe ==
    /\ Drained("Subscribe")
    /\ desired' = Head(batch).epoch
    /\ IF gate.leased
       THEN DropSubscription /\ UNCHANGED <<attempts, exhausted, faults>>
       ELSE ApplySubscription(desired')
    /\ UNCHANGED ackSerial

ApplyUnsubscribe ==
    /\ Drained("Unsubscribe")
    /\ DropSubscription
    /\ UNCHANGED <<ackSerial, desired, attempts, exhausted, faults>>

\* Mutant: only a service that had something to release answers.
ApplyLeaseRequestIfHeld ==
    /\ Drained("LeaseRequest")
    /\ IF gate.subscribed /\ hub.exists
       THEN Apply(hub, producer, "LeaseRequested") /\ ackSerial' = Head(batch).serial
       ELSE UNCHANGED <<hub, producer, faults, ackSerial>>
    /\ UNCHANGED <<desired, served, subscribed, attempts, exhausted>>

\* release_lease reaches a hub only when the subscription still has one; the
\* acknowledgement is published in any case.
ApplyLeaseRequest ==
    /\ Drained("LeaseRequest")
    /\ IF gate.subscribed /\ hub.exists
       THEN Apply(hub, producer, "LeaseRequested")
       ELSE UNCHANGED <<hub, producer, faults>>
    /\ ackSerial' = IF Head(batch).serial > ackSerial THEN Head(batch).serial ELSE ackSerial
    /\ UNCHANGED <<desired, served, subscribed, attempts, exhausted>>

ApplyLeaseReturn ==
    /\ Drained("LeaseReturn")
    /\ \/ /\ gate.subscribed
          /\ IF hub.exists THEN Apply(hub, producer, "LeaseReturned") ELSE UNCHANGED <<hub, producer, faults>>
          /\ UNCHANGED <<served, subscribed, attempts, exhausted>>
       \/ /\ ~gate.subscribed /\ gate.deferred
          /\ ApplySubscription(desired)
       \/ /\ ~gate.subscribed /\ ~gate.deferred
          /\ UNCHANGED <<served, subscribed, hub, producer, attempts, exhausted, faults>>
    /\ UNCHANGED <<ackSerial, desired>>

EndOfPass == pump' = IF kind = "wgc" THEN "rebuild" ELSE "wait"

\* The end of a pass, or an idle tick: PumpAll when the rate gate lets it, which
\* reopens a capture without a producer or polls it.  Only WGC reports a fatal
\* loss: DXGI makes a new device on every open.
Pump ==
    /\ pump \in {"wait", "apply"}
    /\ batch = <<>>
    /\ pump = "wait" => ~stopping /\ queue = <<>>
    /\ EndOfPass
    /\ \/ UNCHANGED <<hub, producer, faults>>
       \/ /\ hub.capture_open /\ ~producer
          /\ producer' = TRUE
          /\ hub' = StepCaptureHub(hub, "ReopenSucceeded")
          /\ UNCHANGED faults
       \/ /\ hub.capture_open /\ producer
          /\ hub' = StepCaptureHub(hub, "FrameReceived")
          /\ UNCHANGED <<producer, faults>>
       \/ /\ hub.capture_open /\ producer
          /\ Fault
          /\ producer' = FALSE
          /\ hub' \in {StepCaptureHub(hub, "SourceLost")}
                      \cup (IF kind = "wgc" THEN {StepCaptureHub(hub, "SourceUnrecoverable")} ELSE {})
    /\ UNCHANGED <<queueVars, batch, gate, desired, served, subscribed, attempts, exhausted, guiVars, coordVars,
                   lastReturn, kind, sessions, guis>>

\* The WGC pump's answer to a source its hub gave up on.
Rebuild ==
    /\ pump = "rebuild"
    /\ subscribed /\ hub.lost
    /\ attempts < MaxAttempts
    /\ attempts' = attempts + 1
    /\ \/ Apply(NoHub, FALSE, "ConsumerAdded") /\ UNCHANGED subscribed
       \/ /\ Fault             \* no replacement device
          /\ hub' = NoHub
          /\ producer' = FALSE
          /\ subscribed' = FALSE
    /\ pump' = "wait"
    /\ UNCHANGED <<queueVars, batch, gate, desired, served, exhausted, guiVars, coordVars, lastReturn, kind,
                   sessions, guis>>

GiveUp ==
    /\ pump = "rebuild"
    /\ subscribed /\ hub.lost
    /\ attempts >= MaxAttempts
    /\ pump' = "wait"
    /\ exhausted' = TRUE
    /\ subscribed' = FALSE
    /\ hub' = NoHub
    /\ producer' = FALSE
    /\ UNCHANGED <<queueVars, batch, gate, desired, served, attempts, guiVars, coordVars, lastReturn, kind,
                   sessions, guis, faults>>

\* Nothing to rebuild, or too soon after the last attempt.
NoRebuild ==
    /\ pump = "rebuild"
    /\ ~(subscribed /\ hub.lost) \/ (attempts > 0 /\ attempts < MaxAttempts)
    /\ pump' = "wait"
    /\ IF subscribed /\ ~hub.lost
       THEN attempts' = 0 /\ exhausted' = (exhausted /\ attempts = 0)
       ELSE UNCHANGED <<attempts, exhausted>>
    /\ UNCHANGED <<queueVars, batch, gate, desired, served, subscribed, hub, producer, guiVars, coordVars,
                   lastReturn, kind, sessions, guis, faults>>

PumpEnds ==
    /\ pump = "wait"
    /\ stopping
    /\ pump' = "ended"
    /\ DropSubscription
    /\ UNCHANGED <<queueVars, batch, gate, desired, attempts, exhausted, guiVars, coordVars, lastReturn, kind,
                   sessions, guis, faults>>

-----------------------------------------------------------------------------
(* RecordPreviewAdapter, the GUI thread.  A handler runs to its end, but other
   threads run between its posts: `todo` holds what it has left to do. *)

\* stopPreview and startPreview, as the posts they make; startPreview stops
\* first and subscribes only with an item to draw on.
StopPreview(e) == <<[op |-> "Unsubscribe", epoch |-> e + 1]>>
StartPreview(e) ==
    IF wanted' /\ item'
    THEN <<[op |-> "Unsubscribe", epoch |-> e + 1], [op |-> "Subscribe", epoch |-> e + 2]>>
    ELSE StopPreview(e)

GuiIdle == todo = <<>> /\ ~closed

UserStep ==
    /\ GuiIdle
    /\ guis < MaxGui
    /\ guis' = guis + 1
    /\ UNCHANGED <<queueVars, pumpVars, epoch, feed, closed, coordVars, lastReturn, kind, sessions, faults>>

\* applyPreviewRunState: nothing while the engine feeds the preview.
RunStatePosts(run, feeding) ==
    IF feeding \/ wanted' = run
    THEN /\ todo' = <<>>
         /\ running' = run
    ELSE /\ running' = wanted'
         /\ todo' = IF wanted' THEN StartPreview(epoch) ELSE StopPreview(epoch)

\* setActive, setSurfaceVisible: the page or its surface appears or goes.
SetWanted ==
    /\ UserStep
    /\ wanted' = ~wanted
    /\ UNCHANGED item
    /\ RunStatePosts(running, feed)

\* attachPreviewItem: the new item has no texture, so the preview restarts.  The
\* record page owns the only item, so none is attached over another.
AttachPreviewItem ==
    /\ UserStep
    /\ ~item
    /\ item' = TRUE
    /\ UNCHANGED wanted
    /\ RunStatePosts(FALSE, feed)

\* detachPreviewItem: stops the preview, lease or no lease.
DetachPreviewItem ==
    /\ UserStep
    /\ item
    /\ item' = FALSE
    /\ running' = FALSE
    /\ todo' = StopPreview(epoch)
    /\ UNCHANGED wanted

\* setPreviewTarget with another target, where selectTarget and
\* refreshCaptureTargets let it through: restarts a preview that runs.
SetPreviewTarget ==
    /\ UserStep
    /\ view \in Terminal
    /\ running /\ ~feed
    /\ UNCHANGED <<wanted, item, running>>
    /\ todo' = StartPreview(epoch)

\* One post of the handler in progress.
HandlerPosts ==
    /\ todo # <<>>
    /\ Head(todo).op \in Ops
    /\ IF Head(todo).op = "Subscribe" /\ kind = "wgc" /\ stopping
       THEN UNCHANGED <<queueVars, lastReturn>>
       ELSE Post(Head(todo).op, Head(todo).epoch)
    /\ epoch' = IF Head(todo).op = "LeaseReturn" THEN epoch ELSE Head(todo).epoch
    /\ todo' = Tail(todo)
    /\ UNCHANGED <<pumpVars, wanted, item, running, feed, closed, coordVars, kind, sessions, guis, faults>>

\* The end of observeRecordingState: the flag is read again.
HandlerRunState ==
    /\ todo # <<>>
    /\ Head(todo).op = "RunState"
    /\ UNCHANGED <<wanted, item>>
    /\ RunStatePosts(running, feed)
    /\ UNCHANGED <<queueVars, pumpVars, epoch, feed, closed, coordVars, lastReturn, kind, sessions, guis, faults>>

\* The queued state callback: observeRecordingState takes the flag and gives
\* the lease back on a state that ends a recording, then the view model
\* follows.
DeliverState ==
    /\ GuiIdle
    /\ posted # <<>>
    /\ posted' = Tail(posted)
    /\ view' = Head(posted)
    /\ IF Head(posted) \in Terminal /\ feed
       THEN /\ feed' = FALSE
            /\ todo' = <<[op |-> "LeaseReturn", epoch |-> 0], [op |-> "RunState", epoch |-> 0]>>
       ELSE UNCHANGED <<feed, todo>>
    /\ UNCHANGED <<queueVars, pumpVars, wanted, item, running, epoch, closed, state, worker, cancel, lease, acked, engine,
                   lastReturn, kind, sessions, guis, faults>>

\* The application goes: the coordinator has joined its worker, then the
\* adapter's destructor stops the preview and the service's shuts the queue.
Destroy ==
    /\ GuiIdle
    /\ worker = "idle"
    /\ closed' = TRUE
    /\ todo' = StopPreview(epoch)
    /\ UNCHANGED <<queueVars, pumpVars, wanted, item, running, epoch, feed, coordVars, lastReturn, kind, sessions,
                   guis, faults>>

Shutdown ==
    /\ closed /\ todo = <<>>
    /\ ~stopping
    /\ stopping' = TRUE
    /\ UNCHANGED <<queue, nextSerial, ackSerial, pumpVars, guiVars, coordVars, lastReturn, kind, sessions, guis,
                   faults>>

-----------------------------------------------------------------------------
(* RecordingCoordinator *)

PostStateChange(s) ==
    /\ state' = s
    /\ posted' = Append(posted, s)

\* startRequested and StartRecording: admitted on the state the view model was
\* told and on the coordinator's own.
StartRecording ==
    /\ GuiIdle
    /\ worker = "idle"
    /\ view \in Terminal
    /\ state \in Terminal
    /\ sessions < MaxSessions
    /\ sessions' = sessions + 1
    /\ PostStateChange("Preparing")
    /\ worker' = "prepare"
    /\ cancel' = FALSE
    /\ UNCHANGED <<queueVars, pumpVars, guiVars, view, lease, acked, engine, lastReturn, kind, guis, faults>>

CancelPreparing ==
    /\ GuiIdle
    /\ view = "Preparing"
    /\ worker \in {"prepare", "hook", "wait", "commit"}
    /\ cancel' = TRUE
    /\ UNCHANGED <<queueVars, pumpVars, guiVars, state, posted, view, worker, lease, acked, engine, lastReturn, kind,
                   sessions, guis, faults>>

\* ApplyOutputFolderValidation: a folder check that ends well re-announces
\* Ready over Completed or Failed.
FolderValidated ==
    /\ GuiIdle
    /\ state \in Terminal \ {"Ready"}
    /\ PostStateChange("Ready")
    /\ UNCHANGED <<queueVars, pumpVars, guiVars, view, worker, cancel, lease, acked, engine, lastReturn, kind,
                   sessions, guis, faults>>

WorkerStep(from, to) ==
    /\ worker = from
    /\ worker' = to
    /\ UNCHANGED <<pumpVars, wanted, item, running, epoch, todo, closed, view, kind, sessions, guis, faults>>

\* A preparation step fails, or a checkpoint sees the cancel.
PrepareEnds ==
    /\ WorkerStep("prepare", "idle")
    /\ PostStateChange(IF cancel THEN "Ready" ELSE "Failed")
    /\ UNCHANGED <<queueVars, feed, cancel, lease, acked, engine, lastReturn>>

\* The release hook: the flag first, then the request, then the wait.
HookFlag ==
    /\ WorkerStep("prepare", "hook")
    /\ feed' = TRUE
    /\ UNCHANGED <<queueVars, state, posted, cancel, lease, acked, engine, lastReturn>>

HookRequest ==
    /\ WorkerStep("hook", "wait")
    /\ lease' = nextSerial
    /\ acked' = FALSE
    /\ IF kind = "wgc" /\ stopping
       THEN UNCHANGED <<queueVars, lastReturn>>
       ELSE Post("LeaseRequest", 0)
    /\ UNCHANGED <<feed, state, posted, cancel, engine>>

\* WaitForLeaseRelease: the answer, a shutdown, or the timeout.
HookReturns ==
    /\ WorkerStep("wait", "commit")
    /\ ackSerial >= lease \/ stopping \/ Timeouts
    /\ acked' = (ackSerial >= lease)
    /\ UNCHANGED <<queueVars, feed, state, posted, cancel, lease, engine, lastReturn>>

\* Checkpoint 4, then the recording is announced and the engine opens its
\* capture.
Commit ==
    /\ IF cancel
       THEN WorkerStep("commit", "idle") /\ PostStateChange("Ready") /\ UNCHANGED engine
       ELSE WorkerStep("commit", "record") /\ PostStateChange("Recording") /\ engine' = TRUE
    /\ UNCHANGED <<queueVars, feed, cancel, lease, acked, lastReturn>>

\* The session ends: its capture is closed before its last state is posted.
RecordingEnds ==
    /\ WorkerStep("record", "idle")
    /\ engine' = FALSE
    /\ \E s \in {"Completed", "Failed"} : PostStateChange(s)
    /\ UNCHANGED <<queueVars, feed, cancel, lease, acked, lastReturn>>

-----------------------------------------------------------------------------
Init ==
    /\ queue = <<>> /\ nextSerial = 1 /\ ackSerial = 0 /\ stopping = FALSE
    /\ pump = "start" /\ batch = <<>> /\ gate = NoGate
    /\ desired = 0 /\ served = 0 /\ subscribed = FALSE /\ hub = NoHub /\ producer = FALSE
    /\ attempts = 0 /\ exhausted = FALSE
    /\ wanted = FALSE /\ item = FALSE /\ running = FALSE /\ epoch = 0 /\ feed = FALSE /\ todo = <<>>
    /\ closed = FALSE
    /\ state = "Ready" /\ posted = <<>> /\ view = "Ready" /\ worker = "idle" /\ cancel = FALSE
    /\ lease = 0 /\ acked = FALSE /\ engine = FALSE
    /\ lastReturn = 0
    /\ kind \in Kinds
    /\ sessions = 0 /\ guis = 0 /\ faults = 0

PumpNext ==
    \/ PumpStarts \/ WaitAndDrain
    \/ ApplySubscribe \/ ApplyUnsubscribe \/ ApplyLeaseRequest \/ ApplyLeaseReturn
    \/ Pump \/ Rebuild \/ GiveUp \/ NoRebuild
    \/ PumpEnds

GuiNext ==
    \/ SetWanted \/ AttachPreviewItem \/ DetachPreviewItem \/ SetPreviewTarget
    \/ HandlerPosts \/ HandlerRunState \/ DeliverState
    \/ StartRecording \/ CancelPreparing \/ FolderValidated
    \/ Destroy \/ Shutdown

WorkerNext ==
    \/ PrepareEnds \/ HookFlag \/ HookRequest \/ HookReturns
    \/ Commit \/ RecordingEnds

Next == PumpNext \/ GuiNext \/ WorkerNext

Spec == Init /\ [][Next]_vars

\* The pump thread runs on its own tick; nothing else has to happen.
PumpSpec == Spec /\ WF_vars(PumpNext)

-----------------------------------------------------------------------------
(* Properties *)

Recording == worker \in {"commit", "record"}

\* A recording whose wait was answered finds no preview capture, and none opens
\* until the lease is given back: the acknowledgement is about the capture and
\* not about progress (CaptureHubCommandQueue::PublishLeaseRelease).
AnsweredLeaseStands ==
    Recording /\ acked /\ lastReturn < lease => gate.leased /\ ~producer

\* When every command has been applied and no recording has the capture, the
\* preview that is served is the one the adapter asked for last, and no capture
\* is held when it asked for none: no command was lost to another thread's.
Settled ==
    /\ pump \in {"wait", "rebuild"} /\ queue = <<>> /\ ~gate.leased
    /\ GuiIdle /\ ~feed
LastCommandStands ==
    Settled => IF running /\ item
               THEN gate.subscribed /\ served = epoch
               ELSE ~gate.subscribed /\ ~gate.deferred /\ ~subscribed /\ ~producer

\* The comment of the release hook: it "blocks until the hub's is closed, so the
\* two never overlap".  It does not hold: a Ready that was queued before the
\* start is delivered after the hook and gives the new recording's lease back.
CapturesNeverOverlap == ~(engine /\ producer)

\* DeviceRebuildPolicy allows several attempts per loss and a give-up that is
\* reported.  It does not hold: after one attempt without a device the
\* subscription is gone, and the next pass finds nothing that could be lost.
RebuildNotAbandoned == pump = "wait" /\ gate.subscribed /\ ~exhausted => subscribed

\* The queue and the batch, as the one sequence of commands not yet in effect.
Pending == IF pump = "ended" THEN <<>> ELSE batch \o queue
Wish == IF gate.subscribed \/ gate.deferred THEN desired ELSE 0

Lease == INSTANCE CaptureLease WITH
    cmds <- Pending, wish <- Wish, leased <- gate.leased, capture <- producer,
    released <- ackSerial

\* The service is the lease arbiter of CaptureLease: gate, registry, hub, queue
\* and batch together behave as one command at a time on three facts.
ImplementsLease == Lease!Spec

\* A recording that waits for the capture is answered, or told the service is
\* gone, without its timeout: the pump serves the queue whatever the user does.
LeaseAnswered == worker = "wait" ~> (ackSerial >= lease \/ stopping)
=============================================================================
