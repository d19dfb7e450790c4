-------------------------- MODULE RecordingLifecycle --------------------------
(* The recordings of one launch: RecordingCoordinator's GUI thread and recording
   thread, RecorderSession's request-scoped state, and the workers a Record()
   call starts, waits for and may have to abandon.

   A step of the GUI thread or of the recording thread is what it does between
   two points where the other one can see or change something.  What the workers
   do with packets is MediaPipeline's subject; here a worker captures, writes,
   calls back, fails and ends, or hangs, which is to take no step.              *)
EXTENDS Integers, FiniteSets

CONSTANTS
  MaxRequests,   \* bound: recording requests minted
  MaxEvents,     \* bound: stops, cancels, pauses, resumes and snapshots asked
                 \* for, and faults other than a worker that hangs
  MaxSnapshots,  \* bound: snapshots among them
  MaxBytes,      \* bound: progress of one file's writer
  StallWindow,   \* polls without progress after which finalize is given up
  Faults         \* which faults may happen

FaultKinds == {"prepare", "validate", "sources", "loss", "worker", "hang", "wait"}

ASSUME LifecycleAssumption ==
  /\ {MaxRequests, MaxEvents, MaxSnapshots, MaxBytes} \subseteq Nat
  /\ StallWindow \in Nat \ {0}
  /\ Faults \subseteq FaultKinds

Requests == 1 .. MaxRequests
Snapshots == 1 .. MaxSnapshots
None == 0          \* kUnscopedRecordRequest, or no snapshot
States == 0 .. MaxRequests

VARIABLES
  \* RecordingCoordinator
  ui_state, is_recording, is_paused, prepare_in_flight, prepare_cancel,
  record_request,
  gui,             \* the GUI thread: [step, st, gate]
  rpc,             \* the recording thread
  \* RecorderSession::Impl
  active_request, recording,
  pending_stop,    \* PendingStopTracker: the pending request, if any
  workers_leaked,
  state,           \* the current SessionState object
  \* locals of Record()
  rec,             \* request_id
  pre_stop, video_joined, mux_joined,
  tracker,         \* FinalizeProgressTracker: [seeded, last, idle]
  result,
  \* one entry per object or per call
  session,         \* SessionState objects
  bound,           \* state_ptr of a Record() call and of its workers
  gate_open,       \* SessionCallbackGate of a Record() call
  producer, mux,   \* its workers
  callback,        \* its mux worker in SessionCallbackGate::Invoke
  hand,            \* the snapshot its video worker has taken
  \* history
  stop_asked, stop_done,  \* the user stopped this request: call begun, call over
  undrained,              \* Record() calls whose gate closed over a callback
  snapshot,               \* per snapshot: [gate, live, answers]
  events                  \* how many events there were

coord   == <<ui_state, is_recording, is_paused, prepare_in_flight,
             prepare_cancel, record_request>>
impl    == <<active_request, recording, pending_stop, workers_leaked, state>>
locals  == <<rec, pre_stop, video_joined, mux_joined, tracker>>
workers == <<producer, mux, callback, hand>>
hist    == <<stop_asked, stop_done, undrained>>
vars    == <<coord, gui, rpc, impl, locals, session, bound, gate_open, workers,
             result, hist, snapshot, events>>

Fault(kind) ==
  /\ kind \in Faults /\ events < MaxEvents
  /\ events' = events + 1

FreshState ==
  [stop |-> FALSE, caller |-> FALSE, pause |-> FALSE, failed |-> FALSE,
   source_loss |-> FALSE, captured |-> FALSE, bytes |-> 0, snap |-> None]

NewTracker == [seeded |-> FALSE, last |-> 0, idle |-> 0]

Resting == [step |-> "idle", st |-> 0, gate |-> None]
GuiIdle == gui = Resting

Press ==
  /\ GuiIdle /\ events < MaxEvents
  /\ events' = events + 1

-----------------------------------------------------------------------------
(* session_stop_reset.h and SessionState *)

RecordRequestMatches(a, b) == a = None \/ b = None \/ a = b

\* Mutant: the noted request is not compared.
ConsumeAny(request) == pending_stop # {}

\* PendingStopTracker::Consume; every caller clears pending_stop with it.
Consume(request) == \E noted \in pending_stop : RecordRequestMatches(request, noted)

\* PendingStopTracker::NoteStop.
NoteStop(request) == IF recording THEN pending_stop ELSE {request}

\* Mutant: the reset discards a stop that came before.
StateForNewSessionClean(pre) == FreshState

\* ResetForNewRecording, then ResetStopRequestedForNewSession.
StateForNewSession(pre) == [FreshState EXCEPT !.stop = pre]

Failed(s) == [s EXCEPT !.failed = TRUE, !.stop = TRUE]

St == session[bound[rec]]

-----------------------------------------------------------------------------
(* The GUI thread: StartRecording, StopRecording, CancelPreparing,            *)
(* PauseRecording, ResumeRecording, CaptureFrame                              *)

Startable == {"Ready", "Completed", "Failed"}

\* The id is minted before the state is looked at.
StartRecording ==
  /\ GuiIdle /\ record_request < MaxRequests
  /\ ~is_recording /\ ~prepare_in_flight
  /\ record_request' = record_request + 1
  /\ stop_asked' = FALSE /\ stop_done' = FALSE
  /\ IF ui_state \in Startable
     THEN /\ prepare_in_flight' = TRUE /\ prepare_cancel' = FALSE
          /\ ui_state' = "Preparing" /\ rpc' = "prepare"
     ELSE UNCHANGED <<prepare_in_flight, prepare_cancel, ui_state, rpc>>
  /\ UNCHANGED <<is_recording, is_paused, gui, impl, locals, session, bound,
                 gate_open, workers, result, undrained, snapshot, events>>

GuiStep(from, to) == gui.step = from /\ gui' = [gui EXCEPT !.step = to]

StopRecording ==
  /\ Press /\ is_recording
  /\ GuiStep("idle", "stop")
  /\ stop_asked' = TRUE
  /\ UNCHANGED <<coord, rpc, impl, locals, session, bound, gate_open, workers,
                 result, stop_done, undrained, snapshot>>

StopAnnounce ==
  /\ GuiStep("stop", "stop_lock")
  /\ is_paused' = FALSE /\ ui_state' = "Stopping"
  /\ UNCHANGED <<is_recording, prepare_in_flight, prepare_cancel, record_request,
                 rpc, impl, locals, session, bound, gate_open, workers, result,
                 hist, snapshot, events>>

\* RecorderSession::Stop under state_mutex.
StopLocked ==
  /\ gui.step = "stop_lock"
  /\ IF recording /\ ~RecordRequestMatches(active_request, record_request)
     THEN /\ gui' = Resting /\ stop_done' = TRUE
          /\ UNCHANGED pending_stop
     ELSE /\ gui' = [gui EXCEPT !.step = "stop_signal", !.st = state]
          /\ pending_stop' = NoteStop(record_request)
          /\ UNCHANGED stop_done
  /\ UNCHANGED <<coord, rpc, active_request, recording, workers_leaked, state,
                 locals, session, bound, gate_open, workers, result, stop_asked,
                 undrained, snapshot, events>>

\* The rest of Stop, on the state object it took.
StopSignal ==
  /\ gui.step = "stop_signal" /\ gui' = Resting
  /\ session' = [session EXCEPT ![gui.st].pause = FALSE, ![gui.st].caller = TRUE,
                                ![gui.st].stop = TRUE]
  /\ stop_done' = TRUE
  /\ UNCHANGED <<coord, rpc, impl, locals, bound, gate_open, workers, result,
                 stop_asked, undrained, snapshot, events>>

\* A cancel of a recording that has committed is StopRecording.
CancelPreparing ==
  /\ Press /\ ~is_recording /\ prepare_in_flight
  /\ GuiStep("idle", "cancel")
  /\ stop_asked' = TRUE
  /\ UNCHANGED <<coord, rpc, impl, locals, session, bound, gate_open, workers,
                 result, stop_done, undrained, snapshot>>

CancelRequest ==
  /\ GuiStep("cancel", "cancel_look")
  /\ prepare_cancel' = TRUE
  /\ UNCHANGED <<ui_state, is_recording, is_paused, prepare_in_flight,
                 record_request, rpc, impl, locals, session, bound, gate_open,
                 workers, result, hist, snapshot, events>>

CancelLook ==
  /\ gui.step = "cancel_look"
  /\ IF is_recording
     THEN gui' = [gui EXCEPT !.step = "stop"] /\ UNCHANGED stop_done
     ELSE gui' = Resting /\ stop_done' = TRUE
  /\ UNCHANGED <<coord, rpc, impl, locals, session, bound, gate_open, workers,
                 result, stop_asked, undrained, snapshot, events>>

PauseRecording ==
  /\ Press /\ is_recording /\ ~is_paused
  /\ GuiStep("idle", "pause")
  /\ UNCHANGED <<coord, rpc, impl, locals, session, bound, gate_open, workers,
                 result, hist, snapshot>>

ResumeRecording ==
  /\ Press /\ is_paused
  /\ GuiStep("idle", "resume")
  /\ UNCHANGED <<coord, rpc, impl, locals, session, bound, gate_open, workers,
                 result, hist, snapshot>>

\* The coordinator's flag, and RecorderSession::Pause or Resume under
\* state_mutex: for another request than the active one it does nothing.
PauseLocked(from, to, paused) ==
  /\ gui.step = from
  /\ is_paused' = paused
  /\ gui' = [step |-> to, st |-> state,
             gate |-> IF RecordRequestMatches(active_request, record_request)
                      THEN record_request ELSE None]
  /\ UNCHANGED <<ui_state, is_recording, prepare_in_flight, prepare_cancel,
                 record_request, rpc, impl, locals, session, bound, gate_open,
                 workers, result, hist, snapshot, events>>

\* The state's flag, and the coordinator's PostStateChange.
PauseSet(step, paused, shown) ==
  /\ gui.step = step /\ gui' = Resting
  /\ session' = IF gui.gate # None THEN [session EXCEPT ![gui.st].pause = paused]
                ELSE session
  /\ ui_state' = shown
  /\ UNCHANGED <<is_recording, is_paused, prepare_in_flight, prepare_cancel,
                 record_request, rpc, impl, locals, bound, gate_open, workers,
                 result, hist, snapshot, events>>

Pause ==
  \/ PauseLocked("pause", "pause_set", TRUE)
  \/ PauseSet("pause_set", TRUE, "Paused")

Resume ==
  \/ PauseLocked("resume", "resume_set", FALSE)
  \/ PauseSet("resume_set", FALSE, "Recording")

Unused(s) == snapshot[s].gate = None

CaptureFrame ==
  /\ Press /\ ui_state \in {"Recording", "Paused"}
  /\ \E s \in Snapshots : Unused(s)
  /\ GuiStep("idle", "snap")
  /\ UNCHANGED <<coord, rpc, impl, locals, session, bound, gate_open, workers,
                 result, hist, snapshot>>

\* RequestFrameSnapshot under state_mutex: which state, and which gate.
SnapshotLocked ==
  /\ gui.step = "snap"
  /\ gui' = IF RecordRequestMatches(active_request, record_request) /\ rec # None
            THEN [step |-> "snap_set", st |-> state, gate |-> rec] ELSE Resting
  /\ UNCHANGED <<coord, rpc, impl, locals, session, bound, gate_open, workers,
                 result, hist, snapshot, events>>

\* The rest of it, under the state's snapshot_callback_mutex.
SnapshotSet ==
  /\ gui.step = "snap_set" /\ gui' = Resting
  /\ IF session[gui.st].snap # None
     THEN UNCHANGED <<session, snapshot>>
     ELSE LET s == CHOOSE u \in Snapshots :
                     Unused(u) /\ \A w \in Snapshots : Unused(w) => u <= w
          IN /\ session' = [session EXCEPT ![gui.st].snap = s]
             /\ snapshot' = [snapshot EXCEPT ![s].gate = gui.gate,
                                             ![s].live = recording /\ gui.gate = rec]
  /\ UNCHANGED <<coord, rpc, impl, locals, bound, gate_open, workers, result, hist,
                 events>>

\* The snapshot's callback, through the gate it was wrapped with.
Answer(s) ==
  snapshot' = IF s # None /\ gate_open[snapshot[s].gate]
              THEN [snapshot EXCEPT ![s].answers = @ + 1] ELSE snapshot

-----------------------------------------------------------------------------
(* The recording thread: PrepareAndRecordThreadProc                           *)

\* cancel_unwind.
CancelUnwind ==
  /\ prepare_cancel' = FALSE /\ prepare_in_flight' = FALSE
  /\ is_recording' = FALSE
  /\ ui_state' = "Ready" /\ rpc' = "idle"

PrepareFails ==
  /\ rpc = "prepare" /\ Fault("prepare")
  /\ ui_state' = "Failed" /\ prepare_in_flight' = FALSE /\ rpc' = "idle"
  /\ UNCHANGED <<is_recording, is_paused, prepare_cancel, record_request, gui,
                 impl, locals, session, bound, gate_open, workers, result, hist,
                 snapshot>>

\* A cancellation checkpoint.
Checkpoint ==
  /\ rpc = "prepare"
  /\ IF prepare_cancel
     THEN CancelUnwind
     ELSE rpc' = "commit" /\ UNCHANGED <<ui_state, is_recording,
                                         prepare_in_flight, prepare_cancel>>
  /\ UNCHANGED <<is_paused, record_request, gui, impl, locals, session, bound,
                 gate_open, workers, result, hist, snapshot, events>>

Commit ==
  /\ rpc = "commit" /\ rpc' = "recheck"
  /\ is_recording' = TRUE
  /\ UNCHANGED <<ui_state, is_paused, prepare_in_flight, prepare_cancel,
                 record_request, gui, impl, locals, session, bound, gate_open,
                 workers, result, hist, snapshot, events>>

\* The look after the commit, for a cancel that just missed it.
Recheck ==
  /\ rpc = "recheck"
  /\ IF prepare_cancel
     THEN CancelUnwind
     ELSE rpc' = "announce" /\ prepare_in_flight' = FALSE
          /\ UNCHANGED <<ui_state, is_recording, prepare_cancel>>
  /\ UNCHANGED <<is_paused, record_request, gui, impl, locals, session, bound,
                 gate_open, workers, result, hist, snapshot, events>>

AnnounceRecording ==
  /\ rpc = "announce" /\ rpc' = "record"
  /\ ui_state' = "Recording"
  /\ UNCHANGED <<is_recording, is_paused, prepare_in_flight, prepare_cancel,
                 record_request, gui, impl, locals, session, bound, gate_open,
                 workers, result, hist, snapshot, events>>

-----------------------------------------------------------------------------
(* RecorderSession::Record *)

ValidateFails ==
  /\ rpc = "record" /\ Fault("validate")
  /\ pending_stop' = {}
  /\ result' = "failed"
  /\ rpc' = "returned"
  /\ UNCHANGED <<coord, gui, active_request, recording, workers_leaked, state,
                 locals, session, bound, gate_open, workers, hist, snapshot>>

\* Mutant: an abandoned worker's state is used again.
TakeOverSameState ==
  /\ rpc = "record" /\ rpc' = "sources"
  /\ state' = state
  /\ workers_leaked' = FALSE
  /\ rec' = record_request /\ active_request' = record_request
  /\ pre_stop' = Consume(record_request) /\ pending_stop' = {}
  /\ session' = [session EXCEPT ![state'] = StateForNewSession(pre_stop')]
  /\ bound' = [bound EXCEPT ![record_request] = state']
  /\ gate_open' = [gate_open EXCEPT ![record_request] = TRUE]
  /\ UNCHANGED <<coord, gui, recording, video_joined, mux_joined, tracker,
                 workers, result, hist, snapshot, events>>

\* The section under state_mutex that takes the session over.
TakeOver ==
  /\ rpc = "record" /\ rpc' = "sources"
  /\ state' = IF workers_leaked THEN state + 1 ELSE state
  /\ workers_leaked' = FALSE
  /\ rec' = record_request /\ active_request' = record_request
  /\ pre_stop' = Consume(record_request) /\ pending_stop' = {}
  /\ session' = [session EXCEPT ![state'] = StateForNewSession(pre_stop')]
  /\ bound' = [bound EXCEPT ![record_request] = state']
  /\ gate_open' = [gate_open EXCEPT ![record_request] = TRUE]
  /\ UNCHANGED <<coord, gui, recording, video_joined, mux_joined, tracker,
                 workers, result, hist, snapshot, events>>

\* failPrepare: neither the active request nor a pending stop is cleared.
SourcesFail ==
  /\ rpc = "sources" /\ Fault("sources")
  /\ recording' = FALSE
  /\ result' = "failed"
  /\ rpc' = "returned"
  /\ UNCHANGED <<coord, gui, active_request, pending_stop, workers_leaked, state,
                 locals, session, bound, gate_open, workers, hist, snapshot>>

StartWorkers ==
  /\ rpc = "sources" /\ rpc' = "producers"
  /\ recording' = TRUE
  /\ producer' = [producer EXCEPT ![rec] = "running"]
  /\ mux' = [mux EXCEPT ![rec] = "running"]
  /\ video_joined' = FALSE /\ mux_joined' = FALSE
  /\ tracker' = NewTracker
  /\ UNCHANGED <<coord, gui, active_request, pending_stop, workers_leaked, state,
                 rec, pre_stop, session, bound, gate_open, callback, hand, result,
                 hist, snapshot, events>>

JoinUnchanged ==
  UNCHANGED <<coord, gui, impl, rec, pre_stop, bound, gate_open, workers, result,
              hist, snapshot>>

\* Mutant: the wait after a stop has no budget.
JoinProducersUnbounded ==
  /\ rpc = "producers" /\ rpc' = "finalize"
  /\ producer[rec] = "exited"
  /\ video_joined' = TRUE
  /\ UNCHANGED <<mux_joined, tracker, session, events>> /\ JoinUnchanged

\* WaitForWorkersThenJoin: without a stop it waits for the workers, with one it
\* waits for a budget.
JoinProducers ==
  /\ rpc = "producers" /\ rpc' = "finalize"
  /\ \/ producer[rec] = "exited"
     \/ St.stop /\ "hang" \in Faults
  /\ video_joined' = (producer[rec] = "exited")
  /\ UNCHANGED <<mux_joined, tracker, session, events>> /\ JoinUnchanged

\* A wait that fails joins nobody, and leaves out nothing else.
JoinFails ==
  /\ Fault("wait")
  /\ \/ rpc = "producers" /\ rpc' = "finalize"
     \/ rpc = "finalize" /\ rpc' = "ended"
  /\ session' = [session EXCEPT ![bound[rec]] = Failed(@)]
  /\ UNCHANGED <<video_joined, mux_joined, tracker>> /\ JoinUnchanged

JoinMux ==
  /\ rpc = "finalize" /\ mux[rec] = "exited"
  /\ mux_joined' = TRUE /\ rpc' = "ended"
  /\ UNCHANGED <<video_joined, tracker, session, events>> /\ JoinUnchanged

\* FinalizeProgressTracker::Observe at a poll, without a hard cap.
Observe(bytes) ==
  IF ~tracker.seeded THEN [seeded |-> TRUE, last |-> bytes, idle |-> 0]
  ELSE [seeded |-> TRUE, last |-> bytes,
        idle |-> IF bytes > tracker.last THEN 0 ELSE tracker.idle + 1]

PollMux ==
  /\ rpc = "finalize" /\ mux[rec] # "exited" /\ "hang" \in Faults
  /\ tracker' = Observe(St.bytes)
  /\ rpc' = IF tracker'.idle >= StallWindow THEN "ended" ELSE rpc
  /\ UNCHANGED <<video_joined, mux_joined, session, events>> /\ JoinUnchanged

-----------------------------------------------------------------------------
(* The end of Record(), and of the recording thread *)

EndUnchanged == UNCHANGED <<coord, gui, state, locals, bound, workers>>

EndRecording ==
  /\ rpc = "ended" /\ rpc' = "leak"
  /\ recording' = FALSE
  /\ UNCHANGED <<active_request, pending_stop, workers_leaked, session, gate_open,
                 result, hist, snapshot, events>>
  /\ EndUnchanged

MarkLeak ==
  /\ rpc = "leak" /\ rpc' = "unserved"
  /\ workers_leaked' = (workers_leaked \/ ~video_joined \/ ~mux_joined)
  /\ snapshot' = [s \in Snapshots |->
                   IF snapshot[s].gate = rec /\ ~video_joined
                   THEN [snapshot[s] EXCEPT !.live = FALSE] ELSE snapshot[s]]
  /\ UNCHANGED <<active_request, recording, pending_stop, session, gate_open,
                 result, hist, events>>
  /\ EndUnchanged

\* Mutant: a snapshot that nobody served is dropped.
DropSnapshot ==
  /\ session' = [session EXCEPT ![bound[rec]].snap = None]
  /\ UNCHANGED snapshot

\* A snapshot that nobody served is answered with an error.
FailSnapshot ==
  /\ session' = [session EXCEPT ![bound[rec]].snap = None]
  /\ Answer(St.snap)

AnswerUnserved ==
  /\ rpc = "unserved" /\ rpc' = "close"
  /\ FailSnapshot
  /\ UNCHANGED <<active_request, recording, pending_stop, workers_leaked,
                 gate_open, result, hist, events>>
  /\ EndUnchanged

CloseGate ==
  /\ rpc = "close" /\ rpc' = "drain"
  /\ gate_open' = [gate_open EXCEPT ![rec] = FALSE]
  /\ UNCHANGED <<active_request, recording, pending_stop, workers_leaked, session,
                 result, hist, snapshot, events>>
  /\ EndUnchanged

\* The rest of Close: a callback that runs on is waited for, but not for ever.
DrainGate ==
  /\ rpc = "drain" /\ rpc' = "result"
  /\ undrained' = IF callback[rec] = "inside" THEN undrained \cup {rec} ELSE undrained
  /\ UNCHANGED <<active_request, recording, pending_stop, workers_leaked, session,
                 gate_open, result, stop_asked, stop_done, snapshot, events>>
  /\ EndUnchanged

\* Mutant: a finalize that was given up is no fault.
FaultProducersOnly == ~video_joined

\* ClassifyShutdownFault: a worker hang or a finalize that was given up.
ShutdownFault == ~video_joined \/ ~mux_joined

BuildResult ==
  /\ rpc = "result" /\ rpc' = "late_snapshot"
  /\ result' = IF St.failed \/ ShutdownFault THEN "failed" ELSE "ok"
  /\ UNCHANGED <<active_request, recording, pending_stop, workers_leaked, session,
                 gate_open, hist, snapshot, events>>
  /\ EndUnchanged

\* The second look for a pending snapshot: the gate is closed by now.
AnswerLate ==
  /\ rpc = "late_snapshot" /\ rpc' = "outcome"
  /\ FailSnapshot
  /\ UNCHANGED <<active_request, recording, pending_stop, workers_leaked,
                 gate_open, result, hist, events>>
  /\ EndUnchanged

\* ClassifyMissingCapture, and the rule on an output file without content.
Outcome ==
  CASE result = "ok" /\ ~St.captured /\ (pre_stop \/ St.caller) -> "stopped_before"
    [] result = "ok" /\ ~St.captured /\ ~(pre_stop \/ St.caller) -> "no_frames"
    [] result = "ok" /\ St.captured /\ St.bytes = 0 -> "failed"
    [] OTHER -> result

Attribute ==
  /\ rpc = "outcome" /\ rpc' = "clear"
  /\ result' = Outcome
  /\ UNCHANGED <<active_request, recording, pending_stop, workers_leaked, session,
                 gate_open, hist, snapshot, events>>
  /\ EndUnchanged

ClearRequest ==
  /\ rpc = "clear" /\ rpc' = "returned"
  /\ pending_stop' = {} /\ active_request' = None
  /\ pre_stop' = FALSE /\ video_joined' = FALSE /\ mux_joined' = FALSE
  /\ tracker' = NewTracker
  /\ UNCHANGED <<coord, gui, recording, workers_leaked, state, rec, session, bound,
                 gate_open, workers, result, hist, snapshot, events>>

\* RecordingThreadProc after Record().
RecordReturned ==
  /\ rpc = "returned"
  /\ rpc' = IF result = "ok" THEN "publish" ELSE "report"
  /\ result' = "none"
  /\ is_recording' = FALSE /\ is_paused' = FALSE
  /\ UNCHANGED <<ui_state, prepare_in_flight, prepare_cancel, record_request, gui,
                 impl, locals, session, bound, gate_open, workers, hist,
                 snapshot, events>>

\* Publication, which is SegmentPublish's subject, and the posted result.
Finish ==
  /\ \/ rpc = "publish" /\ ui_state' = "Saving" /\ rpc' = "saving"
     \/ /\ rpc \in {"publish", "saving"}
        /\ ui_state' \in {"Completed", "Failed"} /\ rpc' = "idle"
     \/ rpc = "report" /\ ui_state' = "Failed" /\ rpc' = "idle"
  /\ UNCHANGED <<is_recording, is_paused, prepare_in_flight, prepare_cancel,
                 record_request, gui, impl, locals, session, bound, gate_open,
                 workers, result, hist, snapshot, events>>

-----------------------------------------------------------------------------
(* The workers of the Record() call r, abandoned or not.  They reach their own *)
(* SessionState, and the caller through their own gate.                        *)

WorkerUnchanged ==
  UNCHANGED <<coord, gui, rpc, impl, locals, bound, gate_open, result, hist>>

Mine(r) == session[bound[r]]

Capture(r) ==
  /\ producer[r] = "running" /\ hand[r] = None
  /\ ~Mine(r).stop /\ ~Mine(r).pause /\ ~Mine(r).captured
  /\ session' = [session EXCEPT ![bound[r]].captured = TRUE]
  /\ UNCHANGED <<workers, snapshot, events>>
  /\ WorkerUnchanged

\* performSnapshotIfRequested takes the callback, and calls it.
TakeSnapshot(r) ==
  /\ producer[r] = "running" /\ hand[r] = None
  /\ Mine(r).captured /\ Mine(r).snap # None
  /\ hand' = [hand EXCEPT ![r] = Mine(r).snap]
  /\ session' = [session EXCEPT ![bound[r]].snap = None]
  /\ UNCHANGED <<producer, mux, callback, snapshot, events>>
  /\ WorkerUnchanged

ServeSnapshot(r) ==
  /\ hand[r] # None
  /\ Answer(hand[r])
  /\ hand' = [hand EXCEPT ![r] = None]
  /\ UNCHANGED <<producer, mux, callback, session, events>>
  /\ WorkerUnchanged

\* After a stop, with the captured window or display gone, or with a failure.
ProducerEnds(r) ==
  /\ producer[r] = "running" /\ hand[r] = None
  /\ \/ Mine(r).stop /\ UNCHANGED <<session, events>>
     \/ /\ Fault("loss")
        /\ session' = [session EXCEPT ![bound[r]].source_loss = TRUE,
                                      ![bound[r]].stop = TRUE]
     \/ /\ Fault("worker")
        /\ session' = [session EXCEPT ![bound[r]] = Failed(@)]
  /\ producer' = [producer EXCEPT ![r] = "exited"]
  /\ UNCHANGED <<mux, callback, hand, snapshot>> /\ WorkerUnchanged

Write(r) ==
  /\ mux[r] = "running" /\ callback[r] = "none"
  /\ Mine(r).captured /\ Mine(r).bytes < MaxBytes
  /\ session' = [session EXCEPT ![bound[r]].bytes = @ + 1]
  /\ UNCHANGED <<workers, snapshot, events>>
  /\ WorkerUnchanged

\* SessionCallbackGate::Invoke, for a finalized segment: a look at the gate, the
\* shared lock with a second look, the callback.
InvokeLook(r) ==
  /\ mux[r] = "running" /\ callback[r] = "none" /\ Mine(r).bytes > 0
  /\ gate_open[r]
  /\ callback' = [callback EXCEPT ![r] = "looked"]
  /\ UNCHANGED <<producer, mux, hand, session, snapshot, events>>
  /\ WorkerUnchanged

\* Mutant: no second look.
InvokeLockedOnce(r) ==
  /\ callback[r] = "looked"
  /\ callback' = [callback EXCEPT ![r] = "inside"]
  /\ UNCHANGED <<producer, mux, hand, session, snapshot, events>>
  /\ WorkerUnchanged

InvokeLocked(r) ==
  /\ callback[r] = "looked"
  /\ callback' = [callback EXCEPT ![r] = IF gate_open[r] THEN "inside" ELSE "none"]
  /\ UNCHANGED <<producer, mux, hand, session, snapshot, events>>
  /\ WorkerUnchanged

InvokeReturn(r) ==
  /\ callback[r] = "inside"
  /\ callback' = [callback EXCEPT ![r] = "none"]
  /\ UNCHANGED <<producer, mux, hand, session, snapshot, events>>
  /\ WorkerUnchanged

\* Every end of stream has arrived, or a failure.
MuxEnds(r) ==
  /\ mux[r] = "running" /\ callback[r] = "none"
  /\ \/ /\ producer[r] = "exited" \/ Mine(r).failed
        /\ UNCHANGED <<session, events>>
     \/ /\ Fault("worker")
        /\ session' = [session EXCEPT ![bound[r]] = Failed(@)]
  /\ mux' = [mux EXCEPT ![r] = "exited"]
  /\ UNCHANGED <<producer, callback, hand, snapshot>> /\ WorkerUnchanged

-----------------------------------------------------------------------------
Init ==
  /\ ui_state = "Ready" /\ record_request = None
  /\ is_recording = FALSE /\ is_paused = FALSE
  /\ prepare_in_flight = FALSE /\ prepare_cancel = FALSE
  /\ gui = Resting /\ rpc = "idle"
  /\ active_request = None /\ recording = FALSE /\ pending_stop = {}
  /\ workers_leaked = FALSE /\ state = 0
  /\ rec = None /\ pre_stop = FALSE
  /\ video_joined = FALSE /\ mux_joined = FALSE
  /\ tracker = NewTracker
  /\ session = [i \in States |-> FreshState]
  /\ bound = [r \in Requests |-> 0]
  /\ gate_open = [r \in Requests |-> FALSE]
  /\ producer = [r \in Requests |-> "none"] /\ mux = [r \in Requests |-> "none"]
  /\ callback = [r \in Requests |-> "none"] /\ hand = [r \in Requests |-> None]
  /\ result = "none"
  /\ stop_asked = FALSE /\ stop_done = FALSE /\ undrained = {}
  /\ snapshot = [s \in Snapshots |-> [gate |-> None, live |-> FALSE, answers |-> 0]]
  /\ events = 0

\* What the user does.
User ==
  \/ StartRecording \/ StopRecording \/ CancelPreparing
  \/ PauseRecording \/ ResumeRecording \/ CaptureFrame

\* What the GUI thread does with it.
GuiThread ==
  \/ StopAnnounce \/ StopLocked \/ StopSignal \/ CancelRequest \/ CancelLook
  \/ Pause \/ Resume \/ SnapshotLocked \/ SnapshotSet

RecordingThread ==
  \/ PrepareFails \/ Checkpoint \/ Commit \/ Recheck \/ AnnounceRecording
  \/ ValidateFails \/ TakeOver \/ SourcesFail \/ StartWorkers
  \/ JoinProducers \/ JoinFails \/ JoinMux \/ PollMux
  \/ EndRecording \/ MarkLeak \/ AnswerUnserved \/ CloseGate \/ DrainGate
  \/ BuildResult \/ AnswerLate \/ Attribute \/ ClearRequest
  \/ RecordReturned \/ Finish

Workers(r) ==
  \/ Capture(r) \/ TakeSnapshot(r) \/ ServeSnapshot(r) \/ ProducerEnds(r)
  \/ Write(r) \/ InvokeLook(r) \/ InvokeLocked(r) \/ InvokeReturn(r) \/ MuxEnds(r)

\* No request is left to mint, or no press to stop the recording with.
Idle ==
  /\ GuiIdle
  /\ \/ rpc = "idle" /\ record_request = MaxRequests
     \/ rpc = "producers" /\ ~St.stop /\ events = MaxEvents
  /\ UNCHANGED vars

Next ==
  \/ User \/ GuiThread \/ RecordingThread \/ Idle
  \/ \E r \in Requests : Workers(r)

\* The two threads are scheduled; the user need not act, and a worker may hang.
Spec == Init /\ [][Next]_vars /\ WF_vars(GuiThread) /\ WF_vars(RecordingThread)

-----------------------------------------------------------------------------
\* Every variable holds a value of its C++ type or its abstraction, and the wait
\* for finalize ends when the stall window is over.
TypeOK ==
  /\ ui_state \in {"Ready", "Preparing", "Recording", "Paused", "Stopping",
                    "Saving", "Completed", "Failed"}
  /\ {is_recording, is_paused, prepare_in_flight, prepare_cancel, recording,
      workers_leaked, pre_stop, video_joined, mux_joined} \subseteq BOOLEAN
  /\ {record_request, active_request, rec} \subseteq Requests \cup {None}
  /\ gui.st \in States /\ gui.gate \in Requests \cup {None}
  /\ pending_stop \in {{}} \cup {{r} : r \in Requests}
  /\ state \in States /\ bound \in [Requests -> States]
  /\ tracker \in [seeded : BOOLEAN, last : 0 .. MaxBytes, idle : 0 .. StallWindow]
  /\ session \in [States -> [stop : BOOLEAN, caller : BOOLEAN, pause : BOOLEAN,
                             failed : BOOLEAN, source_loss : BOOLEAN,
                             captured : BOOLEAN, bytes : 0 .. MaxBytes,
                             snap : Snapshots \cup {None}]]
  /\ gate_open \in [Requests -> BOOLEAN]
  /\ {producer, mux} \subseteq [Requests -> {"none", "running", "exited"}]
  /\ callback \in [Requests -> {"none", "looked", "inside"}]
  /\ hand \in [Requests -> Snapshots \cup {None}]
  /\ result \in {"none", "ok", "failed", "stopped_before", "no_frames"}
  /\ {stop_asked, stop_done} \subseteq BOOLEAN /\ undrained \subseteq Requests

\* Record() has taken the session over and its workers have not been joined.
Capturing == rpc \in {"sources", "producers"}

\* The gate of the call r has been closed and drained, or the call is over.
Over(r) ==
  \/ r < rec
  \/ r = rec /\ rpc \notin {"sources", "producers", "finalize", "ended", "leak",
                          "unserved", "close", "drain"}

\* A stop or cancel that returned is in effect for the recording it named, at
\* whatever moment of preparation, commit, reset or capture it was pressed: no
\* worker waits on in a recording that was stopped.
StopHonoured ==
  rpc = "producers" /\ stop_done => St.stop

\* A recording stops only by a failure, by the loss of its source or by a stop the
\* user made for it:
\* a stop of an earlier recording, or one left over by a cancelled start, never
\* ends it, nor is it blamed for an empty recording.
StopScoped ==
  /\ Capturing /\ St.stop => St.failed \/ St.source_loss \/ stop_asked
  /\ result = "stopped_before" => stop_asked

\* Once Record() closed its gate, no callback of its workers runs, except one that
\* was already running and that Close() reported.
CallbacksEndWithRecord ==
  \A r \in Requests : Over(r) /\ callback[r] = "inside" => r \in undrained

\* A worker that is still alive never shares its SessionState with a later
\* recording.
AbandonedKeepTheirState ==
  \A r, q \in Requests :
    r < q /\ gate_open[q] /\ "running" \in {producer[r], mux[r]} => bound[r] # bound[q]

\* A recording is reported as successful only if all its workers ended, and
\* nothing of it still runs when its result is posted.
SuccessMeansJoined ==
  result = "ok" \/ rpc \in {"publish", "saving"} =>
    producer[rec] = "exited" /\ mux[rec] = "exited" /\ callback[rec] = "none"

\* A snapshot is answered at most once, and one that was accepted while the
\* workers ran has its answer when Record() returns, unless the worker that
\* serves it was abandoned.
SnapshotsAnswered ==
  \A s \in Snapshots :
    /\ snapshot[s].answers <= 1
    /\ snapshot[s].live /\ Over(snapshot[s].gate) => snapshot[s].answers = 1

\* Whatever the workers do, a recording that is stopped or cancelled ends: the
\* waits for producers, finalize and callbacks are all bounded.  (The join of the
\* statistics collector is not, and is left out: its callbacks are taken to return.)
StopEnds == stop_asked ~> (rpc = "idle")

-----------------------------------------------------------------------------
(* Statements of the source that the code does not keep *)

\* RecordingCoordinator.cpp: "the Recording state must not be public while the
\* engine is not yet able to take a live command (pause, split, snapshot, mute)":
\* a recording shown as paused is paused.
PausedMeansPaused ==
  ui_state = "Paused" /\ GuiIdle /\ rpc = "producers" => St.pause \/ St.stop
=============================================================================
