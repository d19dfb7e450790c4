----------------------- MODULE RecordingLifecycleProofs -----------------------
(***************************************************************************)
(* Every safety property of RecordingLifecycle, for any number of          *)
(* requests, presses, snapshots and faults.  One invariant per subject,    *)
(* each resting on the ones before it: CallbackInv (gates and callbacks),  *)
(* LeakInv (states and abandoned workers), SuccessInv (joined workers and  *)
(* the result), StopInv (where a stop is while it is under way),           *)
(* SnapshotInv (where a snapshot is until it is answered).                 *)
(***************************************************************************)
EXTENDS RecordingLifecycle, WellFoundedInduction, TLAPS

\* Where the recording thread is before a Record() call takes over, and from there
\* until its gate is closed and drained.
Before == {"prepare", "commit", "recheck", "announce", "record"}
Live == {"sources", "producers", "finalize", "ended", "leak", "unserved", "close",
         "drain"}

\* The recording thread is busy from the start it accepts to the state it posts.
StartInv == ui_state \in Startable => rpc = "idle"

\* The request that is being prepared is newer than the last Record() call.
OrderInv ==
  /\ rec \in Nat /\ record_request \in Nat
  /\ rec <= record_request /\ record_request <= MaxRequests
  /\ rpc \in Before => rec < record_request
  /\ rpc \in Live => rec \in Requests

\* A call that has not been made has no workers and no gate, and one that has not
\* started its workers has none.
UnbornInv ==
  /\ \A r \in Requests : r > rec => mux[r] = "none" /\ callback[r] = "none"
                                    /\ gate_open[r] = FALSE
  /\ rpc = "sources" => mux[rec] = "none" /\ callback[rec] = "none"

\* The gate of a call that is over is closed, unless the call never had workers.
GateInv ==
  /\ rpc = "drain" => gate_open[rec] = FALSE
  /\ \A r \in Requests :
       Over(r) /\ gate_open[r] = TRUE => mux[r] = "none" /\ callback[r] = "none"

FunctionInv ==
  /\ gate_open \in [Requests -> BOOLEAN]
  /\ mux \in [Requests -> {"none", "running", "exited"}]
  /\ callback \in [Requests -> {"none", "looked", "inside"}]

CallbackInv ==
  StartInv /\ OrderInv /\ UnbornInv /\ GateInv /\ FunctionInv /\ CallbacksEndWithRecord

LEMMA InitCallback == Init => CallbackInv
<1> SUFFICES ASSUME Init PROVE CallbackInv
  OBVIOUS
<1>1. StartInv /\ OrderInv
  BY LifecycleAssumption DEF Init, StartInv, OrderInv, Before, Live, None
<1>2. FunctionInv
  BY DEF Init, FunctionInv
<1>3. UnbornInv /\ GateInv /\ CallbacksEndWithRecord
  BY DEF Init, UnbornInv, GateInv, CallbacksEndWithRecord
<1> QED
  BY <1>1, <1>2, <1>3 DEF CallbackInv

gateVars == <<rec, record_request, gate_open, mux, callback, undrained>>

\* A step within one phase of a call that leaves requests, gates and mux workers
\* alone keeps the invariant, if it posts no startable state too early.
LEMMA QuietStep ==
  ASSUME CallbackInv, StartInv', UNCHANGED gateVars,
         rpc' = rpc \/ rpc' \notin {"sources", "drain"},
         rpc' \in Live <=> rpc \in Live,
         rpc' \in Before => rpc \in Before
  PROVE  CallbackInv'
<1> USE DEF CallbackInv, gateVars
<1>1. OrderInv'
  BY DEF OrderInv
<1>2. \A r \in Requests : Over(r)' <=> Over(r)
  BY DEF Over, Live
<1>3. UnbornInv' /\ FunctionInv'
  BY DEF UnbornInv, FunctionInv
<1>4. GateInv' /\ CallbacksEndWithRecord'
  BY <1>2 DEF GateInv, CallbacksEndWithRecord
<1> QED
  BY <1>1, <1>3, <1>4

\* The GUI thread only ever posts states in which nothing can be started.
LEMMA GuiKeeps == CallbackInv /\ GuiThread => CallbackInv'
<1> SUFFICES ASSUME CallbackInv, GuiThread PROVE CallbackInv'
  OBVIOUS
<1>1. UNCHANGED gateVars /\ rpc' = rpc
  BY DEF GuiThread, StopAnnounce, StopLocked, StopSignal, CancelRequest, CancelLook,
         Pause, Resume, PauseLocked, PauseSet, SnapshotLocked, SnapshotSet, gateVars,
         coord, impl, locals, workers, hist
<1>2. ui_state' = ui_state \/ ui_state' \in {"Stopping", "Paused", "Recording"}
  BY DEF GuiThread, StopAnnounce, StopLocked, StopSignal, CancelRequest, CancelLook,
         Pause, Resume, PauseLocked, PauseSet, SnapshotLocked, SnapshotSet, coord
<1>3. StartInv'
  BY <1>1, <1>2 DEF CallbackInv, StartInv, Startable
<1> QED
  BY <1>1, <1>3, QuietStep

LEMMA UserKeeps == CallbackInv /\ User => CallbackInv'
<1> SUFFICES ASSUME CallbackInv, User PROVE CallbackInv'
  OBVIOUS
<1>1. CASE StartRecording
  <2>1. /\ UNCHANGED <<rec, gate_open, mux, callback, undrained>>
        /\ record_request < MaxRequests /\ record_request' = record_request + 1
        /\ \/ rpc' = rpc /\ ui_state' = ui_state
           \/ rpc = "idle" /\ rpc' = "prepare" /\ ui_state' = "Preparing"
    BY <1>1 DEF StartRecording, CallbackInv, StartInv, locals, workers
  <2>2. StartInv'
    BY <2>1 DEF CallbackInv, StartInv, Startable
  <2>3. OrderInv'
    BY <2>1, LifecycleAssumption DEF CallbackInv, OrderInv, Before, Live
  <2>4. \A r \in Requests : Over(r)' <=> Over(r)
    BY <2>1 DEF Over
  <2>5. UnbornInv' /\ FunctionInv'
    BY <2>1 DEF CallbackInv, UnbornInv, FunctionInv
  <2>6. GateInv' /\ CallbacksEndWithRecord'
    BY <2>1, <2>4 DEF CallbackInv, GateInv, CallbacksEndWithRecord
  <2> QED
    BY <2>2, <2>3, <2>5, <2>6 DEF CallbackInv
<1>2. CASE ~StartRecording
  <2>1. UNCHANGED gateVars /\ rpc' = rpc /\ ui_state' = ui_state
    BY <1>2 DEF User, StopRecording, CancelPreparing, PauseRecording,
           ResumeRecording, CaptureFrame, gateVars, coord, locals, workers, hist
  <2> QED
    BY <2>1, QuietStep DEF CallbackInv, StartInv
<1> QED
  BY <1>1, <1>2

\* The steps of the recording thread within one phase.
LEMMA PhaseKeeps ==
  ASSUME CallbackInv,
         \/ PrepareFails \/ Checkpoint \/ Commit \/ Recheck \/ AnnounceRecording
         \/ ValidateFails \/ JoinProducers \/ JoinFails \/ JoinMux \/ PollMux
         \/ EndRecording \/ MarkLeak \/ AnswerUnserved
         \/ BuildResult \/ AnswerLate \/ Attribute \/ ClearRequest
         \/ RecordReturned \/ Finish
  PROVE  CallbackInv'
<1> USE DEF PrepareFails, Checkpoint, CancelUnwind, Commit, Recheck,
            AnnounceRecording, ValidateFails, JoinProducers, JoinFails, JoinMux,
            PollMux, JoinUnchanged, EndRecording, MarkLeak, AnswerUnserved,
            FailSnapshot, BuildResult, AnswerLate, Attribute, ClearRequest,
            EndUnchanged, RecordReturned, Finish
<1>1. UNCHANGED gateVars
  BY DEF gateVars, coord, locals, workers, hist, impl
<1>2. ui_state' = ui_state \/ ui_state' \in {"Recording", "Saving"} \/ rpc' = "idle"
  BY DEF coord
<1>3. /\ rpc # "idle"
      /\ rpc' = rpc \/ rpc' \notin {"sources", "drain"}
      /\ rpc' \in Live <=> rpc \in Live
      /\ rpc' \in Before => rpc \in Before
  BY DEF Live, Before
<1>4. StartInv'
  BY <1>2, <1>3 DEF CallbackInv, StartInv, Startable
<1> QED
  BY <1>1, <1>3, <1>4, QuietStep

\* The steps at which a call begins, starts its workers or ends.
LEMMA TakeOverKeeps == CallbackInv /\ TakeOver => CallbackInv'
<1> SUFFICES ASSUME CallbackInv, TakeOver PROVE CallbackInv'
  OBVIOUS
<1>1. /\ rpc = "record" /\ rpc' = "sources"
      /\ rec' = record_request
      /\ gate_open' = [gate_open EXCEPT ![record_request] = TRUE]
      /\ UNCHANGED <<ui_state, record_request, mux, callback, undrained>>
  BY DEF TakeOver, coord, workers, hist
<1>2. rec < rec' /\ rec \in Nat /\ rec' \in Nat
  BY <1>1 DEF CallbackInv, OrderInv, Before
<1>3. \A r \in Requests : r \in Nat
  BY DEF Requests
<1>4. \A r \in Requests : r > rec => mux[r] = "none" /\ callback[r] = "none"
  BY DEF CallbackInv, UnbornInv
<1>5. rec' \in Requests
  BY <1>1, <1>2, LifecycleAssumption DEF CallbackInv, OrderInv, Requests
<1>6. StartInv' /\ OrderInv' /\ FunctionInv'
  <2>1. StartInv'
    BY <1>1 DEF CallbackInv, StartInv
  <2>2. OrderInv'
    BY <1>1, <1>2, <1>5 DEF CallbackInv, OrderInv, Before
  <2>3. FunctionInv'
    BY <1>1 DEF CallbackInv, FunctionInv
  <2> QED
    BY <2>1, <2>2, <2>3
<1>7. UnbornInv'
  <2>1. \A r \in Requests : r > rec' => r > rec /\ r # record_request
    BY <1>1, <1>2, <1>3
  <2>2. \A r \in Requests : r # record_request => gate_open'[r] = gate_open[r]
    BY <1>1 DEF CallbackInv, FunctionInv
  <2>3. rec' > rec
    BY <1>2
  <2> QED
    BY <1>1, <1>4, <1>5, <2>1, <2>2, <2>3 DEF CallbackInv, UnbornInv
<1>8. \A r \in Requests : Over(r)' => r # rec' /\ (Over(r) \/ r > rec)
  BY <1>1, <1>2, <1>3 DEF Over
<1>9. \A r \in Requests : r # rec' => gate_open'[r] = gate_open[r]
  BY <1>1 DEF CallbackInv, FunctionInv
<1>10. GateInv'
  BY <1>1, <1>4, <1>8, <1>9 DEF CallbackInv, GateInv
<1>11. CallbacksEndWithRecord'
  BY <1>1, <1>4, <1>8 DEF CallbackInv, CallbacksEndWithRecord
<1> QED
  BY <1>6, <1>7, <1>10, <1>11 DEF CallbackInv

LEMMA CallKeeps ==
  ASSUME CallbackInv, SourcesFail \/ StartWorkers \/ CloseGate \/ DrainGate
  PROVE  CallbackInv'
<1>1. /\ UNCHANGED <<rec, record_request, callback>>
      /\ ui_state' = ui_state /\ rpc \in Live
  BY DEF SourcesFail, StartWorkers, CloseGate, DrainGate, EndUnchanged, coord, locals,
         workers, Live
<1>2. StartInv' /\ OrderInv'
  BY <1>1 DEF SourcesFail, StartWorkers, CloseGate, DrainGate, CallbackInv, StartInv,
              Startable, OrderInv, Before, Live
<1>3. \A r \in Requests : r > rec => r # rec
  BY DEF Requests, CallbackInv, OrderInv
<1>4. CASE SourcesFail
  <2>1. UNCHANGED <<gate_open, mux, undrained>> /\ rpc = "sources" /\ rpc' = "returned"
    BY <1>4 DEF SourcesFail, workers, hist
  <2>2. \A r \in Requests : Over(r)' => Over(r) \/ r = rec
    BY <1>1, <2>1 DEF Over
  <2> QED
    BY <1>1, <1>2, <2>1, <2>2 DEF CallbackInv, UnbornInv, GateInv, FunctionInv,
                                  CallbacksEndWithRecord
<1>5. CASE StartWorkers
  <2>1. /\ UNCHANGED <<gate_open, undrained>>
        /\ mux' = [mux EXCEPT ![rec] = "running"]
        /\ rpc = "sources" /\ rpc' = "producers"
    BY <1>5 DEF StartWorkers, hist
  <2>2. \A r \in Requests : Over(r)' => Over(r) /\ r # rec
    BY <1>1, <2>1 DEF Over, Requests, CallbackInv, OrderInv
  <2>3. \A r \in Requests : r # rec => mux'[r] = mux[r]
    BY <2>1 DEF CallbackInv, FunctionInv
  <2>4. FunctionInv'
    BY <1>1, <2>1 DEF CallbackInv, FunctionInv
  <2> QED
    BY <1>1, <1>2, <1>3, <2>1, <2>2, <2>3, <2>4
       DEF CallbackInv, UnbornInv, GateInv, CallbacksEndWithRecord
<1>6. CASE CloseGate
  <2>1. /\ UNCHANGED <<mux, undrained>> /\ rpc = "close" /\ rpc' = "drain"
        /\ gate_open' = [gate_open EXCEPT ![rec] = FALSE]
    BY <1>6 DEF CloseGate, EndUnchanged, workers, hist
  <2>2. \A r \in Requests : Over(r)' <=> Over(r)
    BY <1>1, <2>1 DEF Over
  <2>3. \A r \in Requests : gate_open'[r] = TRUE => gate_open[r] = TRUE
    BY <2>1 DEF CallbackInv, FunctionInv
  <2>4. FunctionInv' /\ UnbornInv'
    BY <1>1, <1>3, <2>1 DEF CallbackInv, FunctionInv, UnbornInv
  <2>5. GateInv'
    BY <1>1, <2>1, <2>2, <2>3 DEF CallbackInv, GateInv, FunctionInv, OrderInv
  <2> QED
    BY <1>1, <1>2, <2>1, <2>2, <2>4, <2>5 DEF CallbackInv, CallbacksEndWithRecord
<1>7. CASE DrainGate
  <2>1. /\ UNCHANGED <<gate_open, mux>> /\ rpc = "drain" /\ rpc' = "result"
        /\ undrained \subseteq undrained'
        /\ callback[rec] = "inside" => rec \in undrained'
    BY <1>7 DEF DrainGate, EndUnchanged, workers
  <2>2. \A r \in Requests : Over(r)' => Over(r) \/ r = rec
    BY <1>1, <2>1 DEF Over
  <2> QED
    BY <1>1, <1>2, <2>1, <2>2 DEF CallbackInv, UnbornInv, GateInv, FunctionInv,
                                  CallbacksEndWithRecord
<1> QED
  BY <1>4, <1>5, <1>6, <1>7

\* A worker calls back only through an open gate.
LEMMA WorkersKeep ==
  ASSUME CallbackInv, NEW r \in Requests, Workers(r)
  PROVE  CallbackInv'
<1>1. UNCHANGED <<ui_state, rpc, rec, record_request, gate_open, undrained>>
  BY DEF Workers, Capture, TakeSnapshot, ServeSnapshot, ProducerEnds, Write, InvokeLook,
         InvokeLocked, InvokeReturn, MuxEnds, WorkerUnchanged, coord, locals, hist
<1>2. CASE UNCHANGED <<mux, callback>>
  BY <1>1, <1>2, QuietStep DEF gateVars, CallbackInv, StartInv
<1>3. CASE ~UNCHANGED <<mux, callback>>
  <2>1. \/ /\ mux[r] = "running" /\ gate_open[r] = TRUE /\ UNCHANGED mux
           /\ callback' = [callback EXCEPT ![r] = "looked"]
        \/ /\ callback[r] \in {"looked", "inside"} /\ UNCHANGED mux
           /\ \/ callback' = [callback EXCEPT ![r] = "none"]
              \/ gate_open[r] = TRUE /\ callback' = [callback EXCEPT ![r] = "inside"]
        \/ /\ mux[r] = "running" /\ callback[r] = "none" /\ UNCHANGED callback
           /\ mux' = [mux EXCEPT ![r] = "exited"]
    BY <1>3 DEF Workers, Capture, TakeSnapshot, ServeSnapshot, ProducerEnds, Write,
         InvokeLook, InvokeLocked, InvokeReturn, MuxEnds, workers,
         CallbackInv, FunctionInv
  <2>2. \A q \in Requests : Over(q)' <=> Over(q)
    BY <1>1 DEF Over
  <2>3. FunctionInv'
    BY <1>1, <2>1 DEF CallbackInv, FunctionInv
  <2>4. mux[r] # "none" \/ callback[r] # "none"
    BY <2>1
  <2>5. \A q \in Requests : q # r => mux'[q] = mux[q] /\ callback'[q] = callback[q]
    BY <2>1 DEF CallbackInv, FunctionInv
  <2>6. UnbornInv'
    BY <1>1, <2>4, <2>5 DEF CallbackInv, UnbornInv, OrderInv, Live
  <2>7. GateInv'
    BY <1>1, <2>2, <2>4, <2>5 DEF CallbackInv, GateInv
  <2>8. callback'[r] = "inside" => callback[r] = "inside" \/ gate_open[r] = TRUE
    BY <2>1 DEF CallbackInv, FunctionInv
  <2>9. CallbacksEndWithRecord'
    BY <1>1, <2>2, <2>4, <2>5, <2>8 DEF CallbackInv, GateInv, CallbacksEndWithRecord
  <2> QED
    BY <1>1, <2>3, <2>6, <2>7, <2>9 DEF CallbackInv, StartInv, OrderInv
<1> QED
  BY <1>2, <1>3

LEMMA NextCallback == CallbackInv /\ [Next]_vars => CallbackInv'
<1> SUFFICES ASSUME CallbackInv, [Next]_vars PROVE CallbackInv'
  OBVIOUS
<1>1. CASE User \/ GuiThread
  BY <1>1, UserKeeps, GuiKeeps
<1>2. CASE RecordingThread
  BY <1>2, PhaseKeeps, TakeOverKeeps, CallKeeps DEF RecordingThread
<1>3. CASE \E r \in Requests : Workers(r)
  BY <1>3, WorkersKeep
<1>4. CASE UNCHANGED vars
  <2>1. UNCHANGED gateVars /\ rpc' = rpc /\ ui_state' = ui_state
    BY <1>4 DEF vars, gateVars, coord, locals, workers, hist
  <2> QED
    BY <2>1, QuietStep DEF CallbackInv, StartInv
<1> QED
  BY <1>1, <1>2, <1>3, <1>4 DEF Next, Idle

\* Once Record() has closed and drained its gate, no callback of its workers runs but
\* one that Close() reported, for any number of recordings, workers abandoned at any
\* point and any interleaving of SessionCallbackGate::Invoke with Close.
THEOREM CallbacksEnd == Spec => []CallbacksEndWithRecord
<1>1. CallbackInv => CallbacksEndWithRecord
  BY DEF CallbackInv
<1> QED
  BY InitCallback, NextCallback, <1>1, PTL DEF Spec

-----------------------------------------------------------------------------
(* Abandoned workers *)

Alive(r) == "running" \in {producer[r], mux[r]}

\* A call waits for its workers, or has not yet marked the ones it gave up.
Working == {"producers", "finalize", "ended", "leak"}

BindingInv ==
  /\ state \in Nat /\ bound \in [Requests -> Nat]
  /\ \A r \in Requests : bound[r] <= state

\* A call without workers has no producers either.
ProducerInv ==
  /\ producer \in [Requests -> {"none", "running", "exited"}]
  /\ \A r \in Requests : r > rec => producer[r] = "none"
  /\ rpc = "sources" => producer[rec] = "none"

\* A worker that was joined has ended.
JoinedInv ==
  rpc \in Working => /\ video_joined => producer[rec] = "exited"
                     /\ mux_joined => mux[rec] = "exited"

\* Whoever still runs on the current state is known to be leaked, or belongs to the
\* call that is waiting for it.
LeakedInv ==
  \A r \in Requests :
    Alive(r) /\ bound[r] = state =>
      workers_leaked \/ (r = rec /\ rpc \in Working)

LeakInv ==
  BindingInv /\ ProducerInv /\ JoinedInv /\ LeakedInv /\ AbandonedKeepTheirState

LEMMA InitLeak == Init => LeakInv
<1> SUFFICES ASSUME Init PROVE LeakInv
  OBVIOUS
<1>1. BindingInv /\ ProducerInv
  BY DEF Init, BindingInv, ProducerInv
<1>2. JoinedInv
  BY DEF Init, JoinedInv, Working
<1>3. LeakedInv /\ AbandonedKeepTheirState
  BY DEF Init, LeakedInv, Alive, AbandonedKeepTheirState
<1> QED
  BY <1>1, <1>2, <1>3 DEF LeakInv

leakVars == <<rec, state, bound, gate_open, producer, mux>>

\* A step that binds nobody, starts nobody and does not end the wait keeps it.
LEMMA LeakQuiet ==
  ASSUME LeakInv, UNCHANGED leakVars,
         workers_leaked' = workers_leaked,
         rpc' \in Working <=> rpc \in Working,
         rpc' = "sources" => rpc = "sources",
         rpc' \in Working => UNCHANGED <<video_joined, mux_joined>>
  PROVE  LeakInv'
<1> USE DEF LeakInv, leakVars
<1>1. BindingInv' /\ ProducerInv'
  BY DEF BindingInv, ProducerInv
<1>2. JoinedInv'
  BY DEF JoinedInv
<1>3. LeakedInv' /\ AbandonedKeepTheirState'
  BY DEF LeakedInv, Alive, AbandonedKeepTheirState
<1> QED
  BY <1>1, <1>2, <1>3

LEMMA LeakUserGui ==
  ASSUME CallbackInv, LeakInv, User \/ GuiThread
  PROVE  LeakInv'
<1>1. CASE User
  <2>1. /\ UNCHANGED <<leakVars, workers_leaked, video_joined, mux_joined>>
        /\ rpc' = rpc \/ (rpc = "idle" /\ rpc' = "prepare")
    BY <1>1 DEF User, StartRecording, StopRecording, CancelPreparing, PauseRecording,
                ResumeRecording, CaptureFrame, CallbackInv, StartInv, leakVars, locals,
                workers, impl
  <2> QED
    BY <2>1, LeakQuiet DEF Working
<1>2. CASE GuiThread
  <2>1. UNCHANGED <<leakVars, workers_leaked, video_joined, mux_joined, rpc>>
    BY <1>2 DEF GuiThread, StopAnnounce, StopLocked, StopSignal, CancelRequest,
                CancelLook, Pause, Resume, PauseLocked, PauseSet, SnapshotLocked,
                SnapshotSet, leakVars, impl, locals, workers
  <2> QED
    BY <2>1, LeakQuiet
<1> QED
  BY <1>1, <1>2

\* The steps of the recording thread that neither bind nor mark nor join.
LEMMA LeakPhase ==
  ASSUME LeakInv,
         \/ PrepareFails \/ Checkpoint \/ Commit \/ Recheck \/ AnnounceRecording
         \/ ValidateFails \/ JoinFails \/ PollMux \/ EndRecording
         \/ AnswerUnserved \/ DrainGate \/ BuildResult \/ AnswerLate \/ Attribute
         \/ ClearRequest \/ RecordReturned \/ Finish
  PROVE  LeakInv'
<1> USE DEF PrepareFails, Checkpoint, CancelUnwind, Commit, Recheck,
            AnnounceRecording, ValidateFails, JoinFails, PollMux, JoinUnchanged,
            EndRecording, AnswerUnserved, FailSnapshot, DrainGate, BuildResult,
            AnswerLate, Attribute, ClearRequest, EndUnchanged, RecordReturned, Finish
<1>1. UNCHANGED leakVars /\ workers_leaked' = workers_leaked
  BY DEF leakVars, locals, workers, impl
<1>2. /\ rpc' \in Working <=> rpc \in Working
      /\ rpc' = "sources" => rpc = "sources"
      /\ rpc' \in Working => UNCHANGED <<video_joined, mux_joined>>
  BY DEF Working, locals
<1> QED
  BY <1>1, <1>2, LeakQuiet

\* Record() takes over a state on which nobody runs any more.
LEMMA LeakTakeOver ==
  ASSUME CallbackInv, LeakInv, TakeOver
  PROVE  LeakInv'
<1>1. /\ rpc = "record" /\ rpc' = "sources"
      /\ state' = IF workers_leaked THEN state + 1 ELSE state
      /\ rec' = record_request
      /\ bound' = [bound EXCEPT ![rec'] = state']
      /\ gate_open' = [gate_open EXCEPT ![rec'] = TRUE]
      /\ UNCHANGED <<producer, mux>>
  BY DEF TakeOver, workers
<1>2. rec < rec' /\ rec \in Nat /\ rec' \in Requests
  BY <1>1, LifecycleAssumption DEF CallbackInv, OrderInv, Before, Requests
<1>3. \A r \in Requests : r \in Nat
  BY DEF Requests
<1>4. \A r \in Requests : r > rec => producer[r] = "none" /\ mux[r] = "none"
  BY DEF CallbackInv, UnbornInv, LeakInv, ProducerInv
<1>5. \A r \in Requests : Alive(r) => r <= rec
  BY <1>2, <1>3, <1>4 DEF Alive
<1>6. state \in Nat /\ state' \in Nat /\ state <= state'
  BY <1>1 DEF LeakInv, BindingInv
<1>7. \A r \in Requests : r # rec' => bound'[r] = bound[r]
  BY <1>1 DEF LeakInv, BindingInv
<1>8. bound'[rec'] = state' /\ bound' \in [Requests -> Nat]
  BY <1>1, <1>2, <1>6 DEF LeakInv, BindingInv
<1>9. \A r \in Requests : Alive(r) => bound[r] # state'
  <2> SUFFICES ASSUME NEW r \in Requests, Alive(r) PROVE bound[r] # state'
    OBVIOUS
  <2>1. r <= rec /\ bound[r] \in Nat /\ bound[r] <= state
    BY <1>5 DEF LeakInv, BindingInv
  <2>2. CASE workers_leaked
    BY <1>1, <1>6, <2>1, <2>2
  <2>3. CASE ~workers_leaked
    BY <1>1, <2>1, <2>3 DEF LeakInv, LeakedInv, Working
  <2> QED
    BY <2>2, <2>3
<1>10. BindingInv'
  <2>1. \A r \in Requests : r # rec' => bound'[r] <= state'
    BY <1>6, <1>7 DEF LeakInv, BindingInv
  <2>2. bound'[rec'] <= state'
    BY <1>6, <1>8
  <2> QED
    BY <1>6, <1>8, <2>1, <2>2 DEF BindingInv
<1>11. ProducerInv'
  <2>1. \A r \in Requests : r > rec' => r > rec
    BY <1>2, <1>3
  <2>2. rec' > rec
    BY <1>2
  <2> QED
    BY <1>1, <1>2, <1>4, <2>1, <2>2 DEF LeakInv, ProducerInv
<1>12. JoinedInv'
  BY <1>1 DEF JoinedInv, Working
<1>13. \A r \in Requests : Alive(r)' => Alive(r) /\ r # rec'
  BY <1>1, <1>2, <1>4 DEF Alive
<1>14. LeakedInv'
  BY <1>7, <1>9, <1>13 DEF LeakedInv
<1>15. AbandonedKeepTheirState'
  <2> SUFFICES ASSUME NEW r \in Requests, NEW q \in Requests,
                      r < q, gate_open'[q], Alive(r)'
               PROVE  bound'[r] # bound'[q]
    BY DEF AbandonedKeepTheirState, Alive
  <2>1. CASE q = rec'
    BY <1>7, <1>8, <1>9, <1>13, <2>1
  <2>2. CASE q # rec'
    <3>1. gate_open[q]
      BY <1>1, <2>2 DEF CallbackInv, FunctionInv
    <3>2. bound[r] # bound[q]
      BY <1>13, <3>1 DEF LeakInv, AbandonedKeepTheirState, Alive
    <3> QED
      BY <1>7, <1>13, <2>2, <3>2
  <2> QED
    BY <2>1, <2>2
<1> QED
  BY <1>10, <1>11, <1>12, <1>14, <1>15 DEF LeakInv

LEMMA LeakCall ==
  ASSUME CallbackInv, LeakInv,
         \/ SourcesFail \/ StartWorkers \/ JoinProducers \/ JoinMux \/ MarkLeak
         \/ CloseGate
  PROVE  LeakInv'
<1>1. /\ UNCHANGED <<rec, state, bound>>
      /\ rpc \in Live /\ rec \in Requests
  BY DEF SourcesFail, StartWorkers, JoinProducers, JoinMux, JoinUnchanged, MarkLeak,
         CloseGate, EndUnchanged, locals, impl, Live, CallbackInv, OrderInv
<1>2. BindingInv'
  BY <1>1 DEF LeakInv, BindingInv
<1>3. CASE SourcesFail
  <2>1. /\ UNCHANGED <<producer, mux, gate_open, workers_leaked>>
        /\ rpc = "sources" /\ rpc' = "returned"
    BY <1>3 DEF SourcesFail, workers
  <2>2. ~Alive(rec)
    BY <2>1 DEF LeakInv, ProducerInv, CallbackInv, UnbornInv, Alive
  <2>3. ProducerInv' /\ JoinedInv'
    BY <1>1, <2>1 DEF LeakInv, ProducerInv, JoinedInv, Working
  <2>4. LeakedInv' /\ AbandonedKeepTheirState'
    BY <1>1, <2>1, <2>2 DEF LeakInv, LeakedInv, AbandonedKeepTheirState, Alive, Working
  <2> QED
    BY <1>2, <2>3, <2>4 DEF LeakInv
<1>4. CASE StartWorkers
  <2>1. /\ UNCHANGED <<gate_open, workers_leaked>>
        /\ producer' = [producer EXCEPT ![rec] = "running"]
        /\ mux' = [mux EXCEPT ![rec] = "running"]
        /\ video_joined' = FALSE /\ mux_joined' = FALSE
        /\ rpc = "sources" /\ rpc' = "producers"
    BY <1>4 DEF StartWorkers
  <2>2. \A r \in Requests : r > rec => r # rec
    BY DEF Requests, CallbackInv, OrderInv
  <2>3. ProducerInv' /\ JoinedInv'
    BY <1>1, <2>1, <2>2 DEF LeakInv, ProducerInv, JoinedInv
  <2>4. \A r \in Requests : r # rec => (Alive(r)' <=> Alive(r))
    BY <2>1 DEF LeakInv, ProducerInv, CallbackInv, FunctionInv, Alive
  <2>5. LeakedInv'
    BY <1>1, <2>1, <2>4 DEF LeakInv, LeakedInv, Working
  <2>6. \A q \in Requests : rec < q => ~gate_open[q]
    BY DEF CallbackInv, UnbornInv, OrderInv, Requests
  <2>7. AbandonedKeepTheirState'
    BY <1>1, <2>1, <2>4, <2>6 DEF LeakInv, AbandonedKeepTheirState, Alive
  <2> QED
    BY <1>2, <2>3, <2>5, <2>7 DEF LeakInv
<1>5. CASE JoinProducers \/ JoinMux
  <2>1. /\ UNCHANGED <<producer, mux, gate_open, workers_leaked>>
        /\ rpc \in Working /\ rpc' \in Working
    BY <1>5 DEF JoinProducers, JoinMux, JoinUnchanged, workers, impl, Working
  <2>2. JoinedInv'
    BY <1>1, <1>5, <2>1 DEF LeakInv, JoinedInv, JoinProducers, JoinMux
  <2>3. ProducerInv'
    BY <1>1, <2>1 DEF LeakInv, ProducerInv, Working
  <2>4. LeakedInv' /\ AbandonedKeepTheirState'
    BY <1>1, <2>1 DEF LeakInv, LeakedInv, AbandonedKeepTheirState, Alive
  <2> QED
    BY <1>2, <2>2, <2>3, <2>4 DEF LeakInv
<1>6. CASE MarkLeak
  <2>1. /\ UNCHANGED <<producer, mux, gate_open>>
        /\ workers_leaked' = (workers_leaked \/ ~video_joined \/ ~mux_joined)
        /\ rpc = "leak" /\ rpc' = "unserved"
    BY <1>6 DEF MarkLeak, EndUnchanged, workers
  <2>2. Alive(rec) => ~video_joined \/ ~mux_joined
    BY <2>1 DEF LeakInv, JoinedInv, Working, Alive
  <2>3. ProducerInv' /\ JoinedInv'
    BY <1>1, <2>1 DEF LeakInv, ProducerInv, JoinedInv, Working
  <2>4. LeakedInv'
    BY <1>1, <2>1, <2>2 DEF LeakInv, LeakedInv, Alive
  <2>5. AbandonedKeepTheirState'
    BY <1>1, <2>1 DEF LeakInv, AbandonedKeepTheirState
  <2> QED
    BY <1>2, <2>3, <2>4, <2>5 DEF LeakInv
<1>7. CASE CloseGate
  <2>1. /\ UNCHANGED <<producer, mux, workers_leaked>>
        /\ gate_open' = [gate_open EXCEPT ![rec] = FALSE]
        /\ rpc = "close" /\ rpc' = "drain"
    BY <1>7 DEF CloseGate, EndUnchanged, workers
  <2>2. \A q \in Requests : gate_open'[q] => gate_open[q]
    BY <1>1, <2>1 DEF CallbackInv, FunctionInv
  <2>3. ProducerInv' /\ JoinedInv' /\ LeakedInv'
    BY <1>1, <2>1 DEF LeakInv, ProducerInv, JoinedInv, LeakedInv, Alive, Working
  <2>4. AbandonedKeepTheirState'
    BY <1>1, <2>1, <2>2 DEF LeakInv, AbandonedKeepTheirState
  <2> QED
    BY <1>2, <2>3, <2>4 DEF LeakInv
<1> QED
  BY <1>3, <1>4, <1>5, <1>6, <1>7

\* A worker can end, and starts nobody.
LEMMA LeakWorkers ==
  ASSUME CallbackInv, LeakInv, NEW r \in Requests, Workers(r)
  PROVE  LeakInv'
<1>1. UNCHANGED <<rpc, rec, state, bound, gate_open, workers_leaked, video_joined,
                  mux_joined>>
  BY DEF Workers, Capture, TakeSnapshot, ServeSnapshot, ProducerEnds, Write, InvokeLook,
         InvokeLocked, InvokeReturn, MuxEnds, WorkerUnchanged, locals, impl
<1>2. /\ \/ UNCHANGED producer
         \/ producer[r] = "running" /\ producer' = [producer EXCEPT ![r] = "exited"]
      /\ \/ UNCHANGED mux
         \/ mux[r] = "running" /\ mux' = [mux EXCEPT ![r] = "exited"]
  BY DEF Workers, Capture, TakeSnapshot, ServeSnapshot, ProducerEnds, Write, InvokeLook,
         InvokeLocked, InvokeReturn, MuxEnds, workers
<1>3. /\ producer' \in [Requests -> {"none", "running", "exited"}]
      /\ \A q \in Requests :
           /\ producer'[q] = producer[q] \/ (producer[q] = "running" /\ producer'[q] = "exited")
           /\ mux'[q] = mux[q] \/ (mux[q] = "running" /\ mux'[q] = "exited")
  BY <1>2 DEF LeakInv, ProducerInv, CallbackInv, FunctionInv
<1>4. rpc \in Live => rec \in Requests
  BY DEF CallbackInv, OrderInv
<1>5. \A q \in Requests : Alive(q)' => Alive(q)
  BY <1>3 DEF Alive
<1>6. BindingInv' /\ LeakedInv' /\ AbandonedKeepTheirState'
  BY <1>1, <1>5 DEF LeakInv, BindingInv, LeakedInv, AbandonedKeepTheirState, Alive
<1>7. ProducerInv'
  BY <1>1, <1>3, <1>4 DEF LeakInv, ProducerInv, Live
<1>8. JoinedInv'
  BY <1>1, <1>3, <1>4 DEF LeakInv, JoinedInv, Working, Live
<1> QED
  BY <1>6, <1>7, <1>8 DEF LeakInv

LEMMA NextLeak == CallbackInv /\ LeakInv /\ [Next]_vars => LeakInv'
<1> SUFFICES ASSUME CallbackInv, LeakInv, [Next]_vars PROVE LeakInv'
  OBVIOUS
<1>1. CASE User \/ GuiThread
  BY <1>1, LeakUserGui
<1>2. CASE RecordingThread
  BY <1>2, LeakPhase, LeakTakeOver, LeakCall DEF RecordingThread
<1>3. CASE \E r \in Requests : Workers(r)
  BY <1>3, LeakWorkers
<1>4. CASE UNCHANGED vars
  <2>1. UNCHANGED <<leakVars, workers_leaked, rpc, video_joined, mux_joined>>
    BY <1>4 DEF vars, leakVars, impl, locals, workers
  <2> QED
    BY <2>1, LeakQuiet
<1> QED
  BY <1>1, <1>2, <1>3, <1>4 DEF Next, Idle

\* Record() swaps in a fresh SessionState exactly when it has to: a worker that was
\* given up, however long it runs on, never shares its state with a later call.
THEOREM AbandonedIsolated == Spec => []AbandonedKeepTheirState
<1>1. LeakInv => AbandonedKeepTheirState
  BY DEF LeakInv
<1> QED
  BY InitCallback, NextCallback, InitLeak, NextLeak, <1>1, PTL DEF Spec

-----------------------------------------------------------------------------
(* Success means that every worker ended *)

\* From the wait for the workers to the verdict on them.
Judged == Working \cup {"unserved", "close", "drain", "result"}

\* A worker calls back while it runs.
CallingInv == \A r \in Requests : callback[r] # "none" => mux[r] = "running"

\* A worker that was joined has ended, and stays ended until the verdict.
VerdictInv ==
  rpc \in Judged => /\ rec \in Requests
                    /\ video_joined => producer[rec] = "exited"
                    /\ mux_joined => mux[rec] = "exited"

\* There is a result from the verdict until the recording thread has taken it.
ResultInv == result # "none" => rpc \in {"late_snapshot", "outcome", "clear", "returned"}

\* A success is about a call that had workers.
SuccessInv ==
  /\ CallingInv /\ VerdictInv /\ ResultInv
  /\ result = "ok" \/ rpc \in {"publish", "saving"} => rec \in Requests
  /\ SuccessMeansJoined

LEMMA InitSuccess == Init => SuccessInv
  BY DEF Init, SuccessInv, CallingInv, VerdictInv, ResultInv, SuccessMeansJoined, Judged,
         Working

successVars == <<rec, producer, mux, callback>>

\* The steps that leave the workers and the verdict alone.
LEMMA SuccessQuiet ==
  ASSUME SuccessInv, UNCHANGED successVars,
         result' = "none" \/ result' = result,
         result' # "none" => rpc' \in {"late_snapshot", "outcome", "clear", "returned"},
         rpc' \in Judged => rpc \in Judged /\ UNCHANGED <<video_joined, mux_joined>>,
         rpc' \in {"publish", "saving"} => rpc \in {"publish", "saving"} \/ result = "ok"
  PROVE  SuccessInv'
<1>1. CallingInv' /\ ResultInv' /\ VerdictInv'
  BY DEF SuccessInv, CallingInv, ResultInv, VerdictInv, successVars
<1>2. result' = "ok" \/ rpc' \in {"publish", "saving"} =>
        result = "ok" \/ rpc \in {"publish", "saving"}
  OBVIOUS
<1> QED
  BY <1>1, <1>2 DEF SuccessInv, SuccessMeansJoined, successVars

LEMMA SuccessUserGui ==
  ASSUME CallbackInv, SuccessInv, User \/ GuiThread
  PROVE  SuccessInv'
<1>1. /\ UNCHANGED <<successVars, result, video_joined, mux_joined>>
      /\ rpc' = rpc \/ (rpc = "idle" /\ rpc' = "prepare")
  BY DEF User, StartRecording, StopRecording, CancelPreparing, PauseRecording,
         ResumeRecording, CaptureFrame, CallbackInv, StartInv, successVars, locals,
         workers, GuiThread, StopAnnounce, StopLocked, StopSignal, CancelRequest,
         CancelLook, Pause, Resume, PauseLocked, PauseSet, SnapshotLocked, SnapshotSet
<1>2. rpc' # rpc => result = "none"
  BY <1>1 DEF SuccessInv, ResultInv
<1>3. rpc' \in Judged => rpc \in Judged
  BY <1>1 DEF Judged, Working
<1> QED
  BY <1>1, <1>2, <1>3, SuccessQuiet DEF SuccessInv, ResultInv

\* The steps of the recording thread that neither start nor join nor judge.
LEMMA SuccessPhase ==
  ASSUME SuccessInv,
         \/ PrepareFails \/ Checkpoint \/ Commit \/ Recheck \/ AnnounceRecording
         \/ JoinFails \/ PollMux \/ EndRecording \/ MarkLeak \/ AnswerUnserved \/ CloseGate
         \/ DrainGate \/ AnswerLate \/ ClearRequest \/ RecordReturned \/ Finish
  PROVE  SuccessInv'
<1> USE DEF PrepareFails, Checkpoint, CancelUnwind, Commit, Recheck,
            AnnounceRecording, JoinFails, PollMux, JoinUnchanged,
            EndRecording, MarkLeak, AnswerUnserved, FailSnapshot, CloseGate, DrainGate,
            AnswerLate, ClearRequest, EndUnchanged, RecordReturned, Finish
<1>1. UNCHANGED successVars
  BY DEF successVars, locals, workers
<1>2. /\ result' = "none" \/ result' = result
      /\ result' # "none" => rpc' \in {"late_snapshot", "outcome", "clear", "returned"}
  BY DEF SuccessInv, ResultInv
<1>3. /\ rpc' \in Judged => rpc \in Judged /\ UNCHANGED <<video_joined, mux_joined>>
      /\ rpc' \in {"publish", "saving"} => rpc \in {"publish", "saving"} \/ result = "ok"
  BY DEF Judged, Working, locals
<1> QED
  BY <1>1, <1>2, <1>3, SuccessQuiet

LEMMA SuccessCall ==
  ASSUME CallbackInv, SuccessInv,
         \/ ValidateFails \/ TakeOver \/ SourcesFail \/ StartWorkers \/ JoinProducers
         \/ JoinMux \/ BuildResult \/ Attribute
  PROVE  SuccessInv'
<1>1. rpc \in Live => rec \in Requests
  BY DEF CallbackInv, OrderInv
<1>2. CASE ValidateFails \/ TakeOver \/ SourcesFail
  <2>1. /\ UNCHANGED <<producer, mux, callback>>
        /\ rpc' \in {"returned", "sources"}
        /\ (result' = "failed" /\ rpc' = "returned") \/ result' = "none"
    BY <1>2 DEF ValidateFails, TakeOver, SourcesFail, workers, SuccessInv, ResultInv
  <2> QED
    BY <2>1 DEF SuccessInv, CallingInv, VerdictInv, ResultInv, SuccessMeansJoined, Judged, Working
<1>3. CASE StartWorkers
  <2>1. /\ UNCHANGED <<rec, callback, result>> /\ rpc = "sources" /\ rpc' = "producers"
        /\ mux' = [mux EXCEPT ![rec] = "running"] /\ ~video_joined' /\ ~mux_joined'
    BY <1>3 DEF StartWorkers
  <2>2. CallingInv'
    BY <2>1 DEF SuccessInv, CallingInv, CallbackInv, FunctionInv
  <2> QED
    BY <1>1, <2>1, <2>2 DEF SuccessInv, VerdictInv, ResultInv, SuccessMeansJoined, Live
<1>4. CASE JoinProducers \/ JoinMux
  <2>1. /\ UNCHANGED <<successVars, result>>
        /\ rpc \in Working /\ rpc' \in Working
    BY <1>4 DEF JoinProducers, JoinMux, JoinUnchanged, workers, Working, successVars
  <2>2. video_joined' => video_joined \/ producer[rec] = "exited"
    BY <1>4 DEF JoinProducers, JoinMux
  <2>3. mux_joined' => mux_joined \/ mux[rec] = "exited"
    BY <1>4 DEF JoinProducers, JoinMux
  <2> QED
    BY <2>1, <2>2, <2>3 DEF SuccessInv, CallingInv, VerdictInv, ResultInv,
                            SuccessMeansJoined, Judged, Working, successVars
<1>5. CASE BuildResult
  <2>1. /\ UNCHANGED successVars /\ rpc = "result" /\ rpc' = "late_snapshot"
        /\ result' = "ok" => video_joined /\ mux_joined
    BY <1>5 DEF BuildResult, EndUnchanged, locals, workers, successVars, ShutdownFault
  <2>2. CallingInv' /\ ResultInv' /\ VerdictInv'
    BY <2>1 DEF SuccessInv, CallingInv, ResultInv, VerdictInv, Judged, Working, successVars
  <2>3. result' = "ok" => rec \in Requests /\ producer[rec] = "exited" /\ mux[rec] = "exited"
    BY <2>1 DEF SuccessInv, VerdictInv, Judged
  <2> QED
    BY <2>1, <2>2, <2>3 DEF SuccessInv, CallingInv, SuccessMeansJoined, successVars
<1>6. CASE Attribute
  <2>1. /\ UNCHANGED successVars /\ rpc = "outcome" /\ rpc' = "clear"
        /\ result' = "ok" => result = "ok"
    BY <1>6 DEF Attribute, Outcome, EndUnchanged, locals, workers, successVars
  <2> QED
    BY <2>1 DEF SuccessInv, CallingInv, ResultInv, VerdictInv, Judged, Working,
                successVars, SuccessMeansJoined
<1> QED
  BY <1>2, <1>3, <1>4, <1>5, <1>6

\* A worker that has ended does nothing more.
LEMMA SuccessWorkers ==
  ASSUME CallbackInv, LeakInv, SuccessInv, NEW r \in Requests, Workers(r)
  PROVE  SuccessInv'
<1>1. UNCHANGED <<rpc, rec, result, video_joined, mux_joined>>
  BY DEF Workers, Capture, TakeSnapshot, ServeSnapshot, ProducerEnds, Write, InvokeLook,
         InvokeLocked, InvokeReturn, MuxEnds, WorkerUnchanged, locals
<1>2. /\ \/ UNCHANGED producer
         \/ producer' = [producer EXCEPT ![r] = "exited"]
      /\ \/ UNCHANGED mux /\ UNCHANGED callback
         \/ callback[r] = "none" /\ mux' = [mux EXCEPT ![r] = "exited"] /\ UNCHANGED callback
         \/ /\ mux[r] = "running" \/ callback[r] # "none"
            /\ UNCHANGED mux
            /\ \E c \in {"none", "looked", "inside"} : callback' = [callback EXCEPT ![r] = c]
  BY DEF Workers, Capture, TakeSnapshot, ServeSnapshot, ProducerEnds, Write, InvokeLook,
         InvokeLocked, InvokeReturn, MuxEnds, workers
<1>3. \A q \in Requests :
        /\ producer[q] = "exited" => producer'[q] = "exited"
        /\ mux[q] = "exited" => mux'[q] = "exited"
        /\ callback'[q] # "none" => mux'[q] = "running"
        /\ mux[q] = "exited" /\ callback[q] = "none" => callback'[q] = "none"
  BY <1>2 DEF LeakInv, ProducerInv, CallbackInv, FunctionInv, SuccessInv, CallingInv
<1> QED
  BY <1>1, <1>3 DEF SuccessInv, CallingInv, VerdictInv, ResultInv, SuccessMeansJoined

LEMMA NextSuccess == CallbackInv /\ LeakInv /\ SuccessInv /\ [Next]_vars => SuccessInv'
<1> SUFFICES ASSUME CallbackInv, LeakInv, SuccessInv, [Next]_vars PROVE SuccessInv'
  OBVIOUS
<1>1. CASE User \/ GuiThread
  BY <1>1, SuccessUserGui
<1>2. CASE RecordingThread
  BY <1>2, SuccessPhase, SuccessCall DEF RecordingThread
<1>3. CASE \E r \in Requests : Workers(r)
  BY <1>3, SuccessWorkers
<1>4. CASE UNCHANGED vars
  <2>1. UNCHANGED <<successVars, rpc, result, video_joined, mux_joined>>
    BY <1>4 DEF vars, successVars, locals, workers
  <2> QED
    BY <2>1, SuccessQuiet DEF SuccessInv, ResultInv
<1> QED
  BY <1>1, <1>2, <1>3, <1>4 DEF Next, Idle

\* A recording is reported as a success, and published, only when its producers and its
\* mux worker have ended and no callback of theirs runs: a hang, a wait that failed and
\* a finalize that was given up all end in a failure.
THEOREM SuccessJoined == Spec => []SuccessMeansJoined
<1>1. SuccessInv => SuccessMeansJoined
  BY DEF SuccessInv
<1> QED
  BY InitCallback, NextCallback, InitLeak, NextLeak, InitSuccess, NextSuccess, <1>1, PTL
     DEF Spec

-----------------------------------------------------------------------------
(* A stop ends the recording it was made for, and no other *)

\* Where the recording is committed, and where Record() holds the session.
Owned == Live \cup {"result", "late_snapshot", "outcome", "clear"}
Committed == {"recheck", "announce", "record", "returned"} \cup Owned

\* What the GUI thread tests before it starts a recording tells where the recording
\* thread is, and so no request is minted while one is prepared or made.
FlowInv ==
  /\ rpc \in {"prepare", "commit"} => prepare_in_flight
  /\ rpc \in Committed => is_recording
  /\ is_recording \/ prepare_in_flight => record_request \in Requests
  /\ rpc \in Owned => rec = record_request /\ active_request = rec
  /\ recording => rpc \in {"producers", "finalize", "ended"}

\* A call runs on the current state until the next one takes over.
CurrentInv ==
  /\ state <= rec
  /\ rec # None => rec \in Requests /\ bound[rec] = state

SessionRecord ==
  [stop : BOOLEAN, caller : BOOLEAN, pause : BOOLEAN, failed : BOOLEAN,
   source_loss : BOOLEAN, captured : BOOLEAN, bytes : Nat, snap : Snapshots \cup {None}]

GuiSteps == {"idle", "stop", "stop_lock", "stop_signal", "cancel", "cancel_look", "pause",
             "pause_set", "resume", "resume_set", "snap", "snap_set"}

SnapshotRecord == [gate : Requests \cup {None}, live : BOOLEAN, answers : Nat]

\* The types of what the steps update; a snapshot is free while the GUI asks for one.
ShapeInv ==
  /\ session \in [States -> SessionRecord]
  /\ gui \in [step : GuiSteps, st : States, gate : Requests \cup {None}]
  /\ snapshot \in [Snapshots -> SnapshotRecord]
  /\ hand \in [Requests -> Snapshots \cup {None}]
  /\ gui.step \in {"snap", "snap_set"} => \E s \in Snapshots : Unused(s)

\* The GUI thread is in StopRecording or CancelPreparing.
Stopping == {"stop", "stop_lock", "stop_signal", "cancel", "cancel_look"}

\* Whatever can stop the recording that Record() holds was asked for by the user, for
\* this recording.
ScopeInv ==
  /\ \A n \in pending_stop : /\ n \in Requests /\ n <= record_request
                             /\ n = record_request => stop_asked
  /\ gui.step \in Stopping => stop_asked /\ record_request \in Requests
  /\ rpc \in Owned => (pre_stop \/ St.caller => stop_asked)
  /\ result = "stopped_before" => rpc \in {"clear", "returned"}
  /\ StopScoped

\* A stop that returned, or that has noted its request, will be seen: it is pending,
\* the cancel flag is up before the look after the commit, or the state has it.
HonourInv ==
  /\ gui.step = "cancel_look" /\ rpc \in {"prepare", "commit", "recheck"} => prepare_cancel
  /\ stop_done /\ rpc \in Before =>
       \/ record_request \in pending_stop
       \/ prepare_cancel /\ rpc \in {"prepare", "commit", "recheck"}
  /\ gui.step = "stop_signal" /\ rpc \in Before => record_request \in pending_stop
  /\ gui.step = "stop_signal" /\ Capturing => gui.st = state \/ St.stop
  /\ Capturing /\ stop_done => St.stop

StopInv == FlowInv /\ CurrentInv /\ ShapeInv /\ ScopeInv /\ HonourInv

LEMMA InitStop == Init => StopInv
<1> SUFFICES ASSUME Init PROVE StopInv
  OBVIOUS
<1>1. FlowInv /\ CurrentInv
  BY DEF Init, FlowInv, CurrentInv, Committed, Owned, Live, None
<1>2. ShapeInv
  BY LifecycleAssumption
     DEF Init, ShapeInv, SessionRecord, FreshState, Resting, GuiSteps, States, None,
         SnapshotRecord
<1>3. ScopeInv /\ HonourInv
  BY DEF Init, ScopeInv, HonourInv, StopScoped, Stopping, Resting, Owned, Live, Before,
         Capturing
<1> QED
  BY <1>1, <1>2, <1>3 DEF StopInv

\* The states in use are among those that can be made.
LEMMA BoundStates ==
  ASSUME CallbackInv, LeakInv, CurrentInv
  PROVE  state \in States /\ \A r \in Requests : bound[r] \in States
<1>1. MaxRequests \in Nat /\ rec \in Nat /\ rec <= MaxRequests /\ state \in Nat /\ state <= rec
  BY LifecycleAssumption DEF CallbackInv, OrderInv, LeakInv, BindingInv, CurrentInv
<1>2. \A r \in Requests : bound[r] \in Nat /\ bound[r] <= state
  BY DEF LeakInv, BindingInv
<1> QED
  BY <1>1, <1>2 DEF States

\* The call that holds the session has its number.
LEMMA OwnedCall ==
  ASSUME CallbackInv, FlowInv, CurrentInv, rpc \in Owned
  PROVE  rec \in Requests /\ rec = record_request /\ bound[rec] = state
  BY DEF CallbackInv, FlowInv, OrderInv, CurrentInv, Committed, Requests, None

LEMMA NextFlow ==
  ASSUME CallbackInv, FlowInv, [Next]_vars
  PROVE  FlowInv'
<1>1. \A n \in Nat : n + 1 <= MaxRequests => n + 1 \in Requests
  BY LifecycleAssumption DEF Requests
<1>2. CASE StartRecording
  <2>1. /\ ~is_recording /\ ~prepare_in_flight
        /\ record_request' \in Requests
        /\ UNCHANGED <<is_recording, recording, rec, active_request>>
        /\ rpc' = rpc \/ (rpc' = "prepare" /\ prepare_in_flight')
    BY <1>1, <1>2, LifecycleAssumption DEF StartRecording, impl, locals, CallbackInv, OrderInv
  <2>2. rpc' = rpc \/ (rpc = "idle" /\ rpc' = "prepare")
    BY <1>2, <2>1 DEF StartRecording, CallbackInv, StartInv
  <2> QED
    BY <2>1, <2>2 DEF FlowInv, Committed, Owned, Live
<1>3. CASE \/ (User /\ ~StartRecording) \/ GuiThread
           \/ (\E r \in Requests : Workers(r)) \/ UNCHANGED vars
  <2>1. UNCHANGED <<rpc, is_recording, prepare_in_flight, record_request, rec,
                    active_request, recording>>
    BY <1>3 DEF User, StopRecording, CancelPreparing, PauseRecording, ResumeRecording,
           CaptureFrame, coord, impl, locals, GuiThread, StopAnnounce, StopLocked,
           StopSignal, CancelRequest, CancelLook, Pause, Resume, PauseLocked, PauseSet,
           SnapshotLocked, SnapshotSet, Workers, Capture, TakeSnapshot, ServeSnapshot,
           ProducerEnds, Write, InvokeLook, InvokeLocked, InvokeReturn, MuxEnds,
           WorkerUnchanged, vars
  <2> QED
    BY <2>1 DEF FlowInv
<1>4. CASE PrepareFails \/ Checkpoint \/ Commit \/ Recheck \/ AnnounceRecording
  <2>1. /\ UNCHANGED <<record_request, rec, active_request, recording>>
        /\ rpc \in Before /\ rpc' \in {"idle", "commit", "recheck", "announce", "record"}
        /\ rpc' = "commit" => prepare_in_flight'
        /\ rpc' \in {"recheck", "announce", "record"} => is_recording'
    BY <1>4 DEF PrepareFails, Checkpoint, CancelUnwind, Commit, Recheck,
                AnnounceRecording, Before, impl, locals, FlowInv, Committed
  <2>2. record_request \in Requests
    BY <2>1 DEF CallbackInv, OrderInv, Requests
  <2> QED
    BY <2>1, <2>2 DEF FlowInv, Committed, Owned, Live, Before
<1>5. CASE TakeOver \/ StartWorkers
  BY <1>5 DEF TakeOver, StartWorkers, FlowInv, Committed, Owned, Live, coord
<1>6. CASE \/ ValidateFails \/ SourcesFail \/ JoinProducers \/ JoinFails \/ JoinMux
           \/ PollMux \/ EndRecording \/ MarkLeak \/ AnswerUnserved \/ CloseGate
           \/ DrainGate \/ BuildResult \/ AnswerLate \/ Attribute
  <2>1. /\ UNCHANGED <<is_recording, prepare_in_flight, record_request, rec, active_request>>
        /\ rpc \in Committed /\ rpc' \in Committed
        /\ rpc' \in Owned => rpc \in Owned
        /\ recording' => recording /\ rpc' \in {"producers", "finalize", "ended"}
    BY <1>6 DEF ValidateFails, SourcesFail, JoinProducers, JoinFails, JoinMux, PollMux,
                JoinUnchanged, EndRecording, MarkLeak, AnswerUnserved, CloseGate, DrainGate,
                BuildResult, AnswerLate, Attribute, EndUnchanged, FlowInv, Committed, Owned,
                Live, coord, impl, locals
  <2> QED
    BY <2>1 DEF FlowInv, Committed, Owned, Live
<1>7. CASE ClearRequest \/ RecordReturned \/ Finish
  BY <1>7 DEF ClearRequest, RecordReturned, Finish, FlowInv, Committed, Owned, Live, coord,
              impl, locals
<1> QED
  BY <1>2, <1>3, <1>4, <1>5, <1>6, <1>7 DEF Next, User, RecordingThread, Idle

LEMMA NextCurrent ==
  ASSUME CallbackInv, LeakInv, CurrentInv, [Next]_vars
  PROVE  CurrentInv'
<1>1. CASE TakeOver
  <2>1. /\ state' = IF workers_leaked THEN state + 1 ELSE state
        /\ rec' = record_request /\ bound' = [bound EXCEPT ![rec'] = state']
        /\ rpc = "record"
    BY <1>1 DEF TakeOver
  <2>2. rec < rec' /\ rec \in Nat /\ rec' \in Requests
    BY <2>1 DEF CallbackInv, OrderInv, Before, Requests
  <2>3. state \in Nat /\ state' <= rec'
    BY <2>1, <2>2 DEF LeakInv, BindingInv, CurrentInv, Requests
  <2> QED
    BY <2>1, <2>2, <2>3 DEF CurrentInv, LeakInv, BindingInv
<1>2. CASE ~TakeOver
  <2>1. UNCHANGED <<rec, state, bound>>
    BY <1>2 DEF Next, User, StartRecording, StopRecording, CancelPreparing, PauseRecording,
           ResumeRecording,
           CaptureFrame, impl, locals, GuiThread, StopAnnounce, StopLocked,
           StopSignal, CancelRequest, CancelLook, Pause, Resume, PauseLocked, PauseSet,
           SnapshotLocked, SnapshotSet, Workers, Capture, TakeSnapshot, ServeSnapshot,
           ProducerEnds, Write, InvokeLook, InvokeLocked, InvokeReturn, MuxEnds,
           WorkerUnchanged, vars, RecordingThread, PrepareFails, Checkpoint, Commit, Recheck,
           AnnounceRecording, ValidateFails, SourcesFail, StartWorkers, JoinProducers,
           JoinFails, JoinMux, PollMux, JoinUnchanged, EndRecording, MarkLeak,
           AnswerUnserved, CloseGate, DrainGate, BuildResult, AnswerLate, Attribute,
           EndUnchanged, ClearRequest, RecordReturned, Finish, Idle
  <2> QED
    BY <2>1 DEF CurrentInv
<1> QED
  BY <1>1, <1>2

\* A snapshot that has not been used is found by the smallest-first choice.
LEMMA UnusedLeast ==
  ASSUME NEW t \in Snapshots, Unused(t)
  PROVE  LET s == CHOOSE u \in Snapshots :
                    Unused(u) /\ \A w \in Snapshots : Unused(w) => u <= w
         IN s \in Snapshots /\ Unused(s)
<1> DEFINE T == {u \in Snapshots : Unused(u)}
<1> DEFINE R == {p \in Nat \X Nat : p[1] < p[2]}
<1>1. T \subseteq Nat /\ T # {}
  BY DEF Snapshots
<1>2. IsWellFoundedOn(R, Nat)
  BY NatLessThanWellFounded, Zenon DEF OpToRel
<1>3. PICK x \in T : \A y \in T : ~(<<y, x>> \in R)
  <2> HIDE DEF T, R
  <2> QED
    BY <1>1, <1>2, WFMin, Zenon
<1>4. \A y \in T : x <= y
  <2> SUFFICES ASSUME NEW y \in T PROVE x <= y
    OBVIOUS
  <2>1. x \in Nat /\ y \in Nat /\ <<y, x>> \in Nat \X Nat
    BY <1>1
  <2>2. ~(<<y, x>> \in R)
    BY <1>3
  <2>3. ~(<<y, x>>[1] < <<y, x>>[2])
    BY <2>1, <2>2
  <2> QED
    BY <2>1, <2>3
<1> QED
  BY <1>4

LEMMA FailedRecord ==
  ASSUME NEW s \in SessionRecord
  PROVE  /\ Failed(s) \in SessionRecord
         /\ Failed(s).stop = TRUE /\ Failed(s).failed = TRUE
         /\ Failed(s).caller = s.caller /\ Failed(s).source_loss = s.source_loss
         /\ Failed(s).snap = s.snap
  BY DEF Failed, SessionRecord

\* A step that does not touch what stops the state i, or why.
SameFlags(i) ==
  /\ session'[i].stop = session[i].stop /\ session'[i].caller = session[i].caller
  /\ session'[i].failed = session[i].failed
  /\ session'[i].source_loss = session[i].source_loss

\* What the workers write in a state: a stop only with its reason.
LEMMA WorkerSession ==
  ASSUME CallbackInv, LeakInv, CurrentInv, ShapeInv, NEW r \in Requests, Workers(r)
  PROVE  /\ session' \in [States -> SessionRecord]
         /\ \A i \in States :
              /\ session'[i].caller = session[i].caller
              /\ session[i].stop => session'[i].stop
              /\ session[i].failed => session'[i].failed
              /\ session[i].source_loss => session'[i].source_loss
              /\ session'[i].stop =>
                   session[i].stop \/ session'[i].failed \/ session'[i].source_loss
<1>1. bound[r] \in States
  BY BoundStates
<1>2. \/ UNCHANGED session
      \/ session' = [session EXCEPT ![bound[r]].captured = TRUE]
      \/ session' = [session EXCEPT ![bound[r]].snap = None]
      \/ session' = [session EXCEPT ![bound[r]].source_loss = TRUE, ![bound[r]].stop = TRUE]
      \/ session' = [session EXCEPT ![bound[r]] = Failed(@)]
      \/ session' = [session EXCEPT ![bound[r]].bytes = @ + 1]
  BY DEF Workers, Capture, TakeSnapshot, ServeSnapshot, ProducerEnds, Write, InvokeLook,
         InvokeLocked, InvokeReturn, MuxEnds
<1>3. CASE session' = [session EXCEPT ![bound[r]] = Failed(@)]
  <2>1. /\ session[bound[r]] \in SessionRecord /\ session'[bound[r]] = Failed(session[bound[r]])
        /\ \A i \in States : i # bound[r] => session'[i] = session[i]
    BY <1>1, <1>3 DEF ShapeInv
  <2>2. session' \in [States -> SessionRecord]
    BY <1>1, <1>3, <2>1, FailedRecord DEF ShapeInv
  <2>3. /\ session'[bound[r]].stop = TRUE /\ session'[bound[r]].failed = TRUE
        /\ session'[bound[r]].caller = session[bound[r]].caller
        /\ session'[bound[r]].source_loss = session[bound[r]].source_loss
    BY <2>1, FailedRecord
  <2> QED
    BY <2>1, <2>2, <2>3
<1>4. CASE session' = [session EXCEPT ![bound[r]].source_loss = TRUE, ![bound[r]].stop = TRUE]
  <2> DEFINE s == session[bound[r]]
             t == [s EXCEPT !.source_loss = TRUE, !.stop = TRUE]
  <2>1. s \in SessionRecord
    BY <1>1 DEF ShapeInv
  <2>2. /\ t \in SessionRecord /\ t.stop = TRUE /\ t.source_loss = TRUE
        /\ t.failed = s.failed /\ t.caller = s.caller
    BY <2>1 DEF SessionRecord
  <2>3. session' = [session EXCEPT ![bound[r]] = t]
    BY <1>1, <1>4, <2>1 DEF ShapeInv, SessionRecord
  <2>4. /\ session' \in [States -> SessionRecord] /\ session'[bound[r]] = t
        /\ \A i \in States : i # bound[r] => session'[i] = session[i]
    <3> HIDE DEF t
    <3> QED
      BY <1>1, <2>2, <2>3 DEF ShapeInv
  <2> QED
    BY <2>2, <2>4
<1>5. CASE \/ UNCHANGED session
           \/ session' = [session EXCEPT ![bound[r]].captured = TRUE]
           \/ session' = [session EXCEPT ![bound[r]].snap = None]
           \/ session' = [session EXCEPT ![bound[r]].bytes = @ + 1]
  <2>1. session' \in [States -> SessionRecord]
    <3>1. session[bound[r]].bytes + 1 \in Nat
      BY <1>1 DEF ShapeInv, SessionRecord
    <3>2. CASE session' = [session EXCEPT ![bound[r]].bytes = @ + 1]
      BY <1>1, <3>1, <3>2 DEF ShapeInv, SessionRecord
    <3>3. CASE session' = [session EXCEPT ![bound[r]].captured = TRUE]
      BY <1>1, <3>3 DEF ShapeInv, SessionRecord
    <3>4. CASE session' = [session EXCEPT ![bound[r]].snap = None]
      BY <1>1, <3>4 DEF ShapeInv, SessionRecord
    <3> QED
      BY <1>5, <3>2, <3>3, <3>4 DEF ShapeInv
  <2>2. \A i \in States : SameFlags(i)
    BY <1>1, <1>5 DEF ShapeInv, SessionRecord, SameFlags
  <2> QED
    BY <2>1, <2>2 DEF SameFlags
<1> QED
  BY <1>2, <1>3, <1>4, <1>5

\* The recording thread fails a call, or takes its snapshot away.
LEMMA ThreadSession ==
  ASSUME CallbackInv, LeakInv, FlowInv, CurrentInv, ShapeInv, RecordingThread, ~TakeOver
  PROVE  /\ session' \in [States -> SessionRecord]
         /\ \A i \in States :
              /\ session'[i].caller = session[i].caller
              /\ session[i].stop => session'[i].stop
              /\ session[i].failed => session'[i].failed
              /\ session[i].source_loss => session'[i].source_loss
              /\ session'[i].stop => session[i].stop \/ session'[i].failed
<1>1. \/ UNCHANGED session
      \/ rpc \in Owned /\ session' = [session EXCEPT ![bound[rec]] = Failed(@)]
      \/ rpc \in Owned /\ session' = [session EXCEPT ![bound[rec]].snap = None]
  BY DEF RecordingThread, PrepareFails, Checkpoint, Commit, Recheck,
         AnnounceRecording, ValidateFails, SourcesFail, StartWorkers, JoinProducers,
         JoinFails, JoinMux, PollMux, EndRecording, MarkLeak,
         AnswerUnserved, FailSnapshot, CloseGate, DrainGate, BuildResult, AnswerLate, Attribute,
         ClearRequest, RecordReturned, Finish, Owned, Live
<1>2. rpc \in Owned => bound[rec] \in States
  BY BoundStates, OwnedCall
<1>3. CASE UNCHANGED session
  BY <1>3 DEF ShapeInv
<1>4. CASE rpc \in Owned /\ session' = [session EXCEPT ![bound[rec]] = Failed(@)]
  <2>1. /\ session[bound[rec]] \in SessionRecord
        /\ session'[bound[rec]] = Failed(session[bound[rec]])
        /\ \A i \in States : i # bound[rec] => session'[i] = session[i]
    BY <1>2, <1>4 DEF ShapeInv
  <2>2. session' \in [States -> SessionRecord]
    BY <1>2, <1>4, <2>1, FailedRecord DEF ShapeInv
  <2>3. /\ session'[bound[rec]].stop = TRUE /\ session'[bound[rec]].failed = TRUE
        /\ session'[bound[rec]].caller = session[bound[rec]].caller
        /\ session'[bound[rec]].source_loss = session[bound[rec]].source_loss
    BY <2>1, FailedRecord
  <2> QED
    BY <2>1, <2>2, <2>3
<1>5. CASE rpc \in Owned /\ session' = [session EXCEPT ![bound[rec]].snap = None]
  <2>1. session' \in [States -> SessionRecord]
    BY <1>2, <1>5 DEF ShapeInv, SessionRecord
  <2>2. \A i \in States : SameFlags(i)
    BY <1>2, <1>5 DEF ShapeInv, SessionRecord, SameFlags
  <2> QED
    BY <2>1, <2>2 DEF SameFlags
<1> QED
  BY <1>1, <1>3, <1>4, <1>5

\* An answer changes a snapshot's count and nothing else of it.
LEMMA AnswerShape ==
  ASSUME ShapeInv, NEW s \in Snapshots \cup {None}, Answer(s)
  PROVE  /\ snapshot' \in [Snapshots -> SnapshotRecord]
         /\ \A t \in Snapshots : /\ snapshot'[t].gate = snapshot[t].gate
                                 /\ snapshot'[t].live = snapshot[t].live
                                 /\ t # s => snapshot'[t] = snapshot[t]
<1>1. CASE UNCHANGED snapshot
  BY <1>1 DEF ShapeInv
<1>2. CASE s # None /\ snapshot' = [snapshot EXCEPT ![s].answers = @ + 1]
  <2>1. s \in Snapshots /\ snapshot[s] \in SnapshotRecord /\ snapshot[s].answers + 1 \in Nat
    BY <1>2 DEF ShapeInv, SnapshotRecord
  <2>2. /\ snapshot'[s] = [snapshot[s] EXCEPT !.answers = @ + 1]
        /\ \A t \in Snapshots : t # s => snapshot'[t] = snapshot[t]
    BY <1>2, <2>1 DEF ShapeInv
  <2>3. /\ snapshot'[s] \in SnapshotRecord
        /\ snapshot'[s].gate = snapshot[s].gate /\ snapshot'[s].live = snapshot[s].live
    BY <2>1, <2>2 DEF SnapshotRecord
  <2>4. snapshot' \in [Snapshots -> SnapshotRecord]
    BY <1>2, <2>1, <2>3 DEF ShapeInv, SnapshotRecord
  <2> QED
    BY <2>2, <2>3, <2>4
<1> QED
  BY <1>1, <1>2 DEF Answer

\* The GUI thread stops a state only by StopSignal.
LEMMA GuiSession ==
  ASSUME ShapeInv, GuiThread \/ User, ~StopSignal
  PROVE  /\ session' \in [States -> SessionRecord]
         /\ \A i \in States : SameFlags(i)
<1>1. gui.st \in States
  BY DEF ShapeInv
<1>2. CASE SnapshotSet
  <2>1. PICK t \in Snapshots : Unused(t)
    BY <1>2 DEF SnapshotSet, ShapeInv
  <2>2. \/ UNCHANGED session
        \/ \E s \in Snapshots : session' = [session EXCEPT ![gui.st].snap = s]
    BY <1>2, <2>1, UnusedLeast DEF SnapshotSet
  <2> QED
    BY <1>1, <2>2 DEF ShapeInv, SessionRecord, SameFlags
<1>3. CASE ~SnapshotSet
  <2>1. \/ UNCHANGED session
        \/ \E b \in BOOLEAN : session' = [session EXCEPT ![gui.st].pause = b]
    BY <1>3 DEF User, StartRecording, StopRecording, CancelPreparing, PauseRecording,
           ResumeRecording, CaptureFrame, GuiThread, StopAnnounce, StopLocked,
           CancelRequest, CancelLook, Pause, Resume, PauseLocked, PauseSet, SnapshotLocked
  <2> QED
    BY <1>1, <2>1 DEF ShapeInv, SessionRecord, SameFlags
<1> QED
  BY <1>2, <1>3

\* Stop leaves the state it took stopped by the caller.
LEMMA SignalSession ==
  ASSUME ShapeInv, StopSignal
  PROVE  /\ session' \in [States -> SessionRecord]
         /\ session'[gui.st].stop = TRUE /\ session'[gui.st].caller = TRUE
         /\ \A i \in States : /\ session'[i].failed = session[i].failed
                              /\ session'[i].source_loss = session[i].source_loss
                              /\ i # gui.st => session'[i] = session[i]
<1>1. /\ gui.st \in States
      /\ session' = [session EXCEPT ![gui.st].pause = FALSE, ![gui.st].caller = TRUE,
                                    ![gui.st].stop = TRUE]
  BY DEF ShapeInv, StopSignal
<1> DEFINE s == session[gui.st]
           t == [s EXCEPT !.pause = FALSE, !.caller = TRUE, !.stop = TRUE]
<1>2. s \in SessionRecord
  BY <1>1 DEF ShapeInv
<1>3. /\ t \in SessionRecord /\ t.stop = TRUE /\ t.caller = TRUE
      /\ t.failed = s.failed /\ t.source_loss = s.source_loss
  BY <1>2 DEF SessionRecord
<1>4. session' = [session EXCEPT ![gui.st] = t]
  BY <1>1, <1>2 DEF ShapeInv, SessionRecord
<1>5. /\ session' \in [States -> SessionRecord] /\ session'[gui.st] = t
      /\ \A i \in States : i # gui.st => session'[i] = session[i]
  <2> HIDE DEF t
  <2> QED
    BY <1>1, <1>3, <1>4 DEF ShapeInv
<1> QED
  BY <1>3, <1>5

\* A new recording starts on a state that is stopped only by a pending stop.
LEMMA TakeOverSession ==
  ASSUME CallbackInv, LeakInv, CurrentInv, CurrentInv', ShapeInv, TakeOver
  PROVE  /\ session' \in [States -> SessionRecord]
         /\ rec' \in Requests /\ bound'[rec'] = state' /\ state' \in States
         /\ pre_stop' = Consume(record_request)
         /\ session'[state'].stop = pre_stop' /\ session'[state'].caller = FALSE
         /\ session'[state'].failed = FALSE /\ session'[state'].source_loss = FALSE
         /\ session'[state'].snap = None
         /\ \A i \in States : i # state' => session'[i] = session[i]
<1>1. /\ rpc = "record" /\ rec' = record_request
      /\ state' = IF workers_leaked THEN state + 1 ELSE state
      /\ pre_stop' = Consume(record_request)
      /\ session' = [session EXCEPT ![state'] = StateForNewSession(pre_stop')]
  BY DEF TakeOver
<1>2. rec' \in Requests /\ rec' # None
  BY <1>1 DEF CallbackInv, OrderInv, Before, Requests, None
<1>3. state' \in States /\ bound'[rec'] = state'
  BY <1>1, <1>2, LifecycleAssumption
     DEF CurrentInv, LeakInv, BindingInv, States, Requests
<1>4. pre_stop' \in BOOLEAN
  BY <1>1 DEF Consume
<1>5. /\ StateForNewSession(pre_stop') \in SessionRecord
      /\ StateForNewSession(pre_stop').stop = pre_stop'
      /\ StateForNewSession(pre_stop').caller = FALSE
      /\ StateForNewSession(pre_stop').failed = FALSE
      /\ StateForNewSession(pre_stop').source_loss = FALSE
      /\ StateForNewSession(pre_stop').snap = None
  BY <1>4 DEF StateForNewSession, FreshState, SessionRecord
<1>6. session'[state'] = StateForNewSession(pre_stop')
  BY <1>1, <1>3 DEF ShapeInv
<1>7. /\ session' \in [States -> SessionRecord]
      /\ \A i \in States : i # state' => session'[i] = session[i]
  BY <1>1, <1>3, <1>5 DEF ShapeInv
<1> QED
  BY <1>1, <1>2, <1>3, <1>5, <1>6, <1>7

\* Where each operation of the GUI thread takes it.
LEMMA GuiMoves ==
  ASSUME ShapeInv
  PROVE  /\ StopRecording => gui.step = "idle" /\ gui'.step = "stop"
         /\ CancelPreparing => gui.step = "idle" /\ gui'.step = "cancel"
         /\ PauseRecording => gui'.step = "pause"
         /\ ResumeRecording => gui'.step = "resume"
         /\ CaptureFrame => gui'.step = "snap"
         /\ StopAnnounce => gui.step = "stop" /\ gui'.step = "stop_lock"
         /\ StopLocked => /\ gui.step = "stop_lock"
                          /\ \/ gui'.step = "idle"
                             \/ gui'.step = "stop_signal" /\ gui'.st = state
         /\ StopSignal => gui.step = "stop_signal" /\ gui'.step = "idle"
         /\ CancelRequest => gui.step = "cancel" /\ gui'.step = "cancel_look"
         /\ CancelLook => gui.step = "cancel_look" /\ gui'.step \in {"idle", "stop"}
         /\ Pause \/ Resume => gui'.step \in {"pause_set", "resume_set", "idle"}
         /\ SnapshotLocked =>
              gui' = Resting \/ gui' = [step |-> "snap_set", st |-> state, gate |-> rec]
         /\ SnapshotSet => gui' = Resting
<1>1. gui \in [step : GuiSteps, st : States, gate : Requests \cup {None}]
  BY DEF ShapeInv
<1>2. Resting.step = "idle"
  BY DEF Resting
<1>3. /\ [gui EXCEPT !.step = "stop_signal", !.st = state].step = "stop_signal"
      /\ [gui EXCEPT !.step = "stop_signal", !.st = state].st = state
  BY <1>1
<1>4. ASSUME StopLocked
      PROVE  /\ gui.step = "stop_lock"
             /\ \/ gui'.step = "idle"
                \/ gui'.step = "stop_signal" /\ gui'.st = state
  <2>1. \/ gui' = Resting
        \/ gui' = [gui EXCEPT !.step = "stop_signal", !.st = state]
    BY <1>4 DEF StopLocked
  <2> QED
    BY <1>2, <1>3, <1>4, <2>1 DEF StopLocked
<1>5. CancelLook => gui.step = "cancel_look" /\ gui'.step \in {"idle", "stop"}
  BY <1>1 DEF CancelLook, Resting
<1>6. Pause \/ Resume => gui'.step \in {"pause_set", "resume_set", "idle"}
  BY <1>2 DEF Pause, Resume, PauseLocked, PauseSet
<1>7. /\ SnapshotLocked =>
           gui' = Resting \/ gui' = [step |-> "snap_set", st |-> state, gate |-> rec]
      /\ SnapshotSet => gui' = Resting
  BY DEF SnapshotLocked, SnapshotSet
<1>8. /\ StopRecording => gui.step = "idle" /\ gui'.step = "stop"
      /\ CancelPreparing => gui.step = "idle" /\ gui'.step = "cancel"
      /\ PauseRecording => gui'.step = "pause"
      /\ ResumeRecording => gui'.step = "resume"
      /\ CaptureFrame => gui'.step = "snap"
  BY <1>1 DEF StopRecording, CancelPreparing, PauseRecording, ResumeRecording, CaptureFrame,
              GuiStep
<1>9. /\ StopAnnounce => gui.step = "stop" /\ gui'.step = "stop_lock"
      /\ StopSignal => gui.step = "stop_signal" /\ gui'.step = "idle"
      /\ CancelRequest => gui.step = "cancel" /\ gui'.step = "cancel_look"
  BY <1>1 DEF StopAnnounce, StopSignal, CancelRequest, GuiStep, Resting
<1> QED
  BY <1>4, <1>5, <1>6, <1>7, <1>8, <1>9

LEMMA NextShape ==
  ASSUME CallbackInv, LeakInv, FlowInv, CurrentInv, CurrentInv', ShapeInv, [Next]_vars
  PROVE  ShapeInv'
<1>1. session' \in [States -> SessionRecord]
  <2>1. CASE UNCHANGED vars
    BY <2>1 DEF vars, ShapeInv
  <2> QED
    BY <2>1, GuiSession, SignalSession, TakeOverSession, ThreadSession, WorkerSession
       DEF Next, Idle
<1>2. hand' \in [Requests -> Snapshots \cup {None}]
  <2>1. CASE \E r \in Requests : Workers(r)
    <3>1. PICK r \in Requests : Workers(r)
      BY <2>1
    <3>2. bound[r] \in States
      BY BoundStates
    <3>3. Mine(r).snap \in Snapshots \cup {None}
      BY <3>2 DEF Mine, ShapeInv, SessionRecord
    <3>4. \/ UNCHANGED hand \/ hand' = [hand EXCEPT ![r] = None]
          \/ hand' = [hand EXCEPT ![r] = Mine(r).snap]
      BY <3>1 DEF Workers, Capture, TakeSnapshot, ServeSnapshot, ProducerEnds, Write,
             InvokeLook, InvokeLocked, InvokeReturn, MuxEnds, workers
    <3> QED
      BY <3>3, <3>4 DEF ShapeInv
  <2>2. CASE ~\E r \in Requests : Workers(r)
    <3>1. UNCHANGED hand
      BY <2>2 DEF Next, User, StartRecording, StopRecording, CancelPreparing, PauseRecording,
           ResumeRecording, CaptureFrame, GuiThread, StopAnnounce, StopLocked, StopSignal,
           CancelRequest, CancelLook, Pause, Resume, PauseLocked, PauseSet, SnapshotLocked,
           SnapshotSet, vars, workers, RecordingThread, PrepareFails, Checkpoint, Commit,
           Recheck, AnnounceRecording, ValidateFails, TakeOver, SourcesFail, StartWorkers,
           JoinProducers, JoinFails, JoinMux, PollMux, JoinUnchanged, EndRecording, MarkLeak,
           AnswerUnserved, CloseGate, DrainGate, BuildResult, AnswerLate, Attribute,
           EndUnchanged, ClearRequest, RecordReturned, Finish, Idle
    <3> QED
      BY <3>1 DEF ShapeInv
  <2> QED
    BY <2>1, <2>2
<1>3. gui' \in [step : GuiSteps, st : States, gate : Requests \cup {None}]
  <2>1. state \in States /\ rec \in Requests \cup {None} /\ 0 \in States
        /\ (record_request \in Requests \cup {None})
    BY BoundStates, LifecycleAssumption
       DEF CurrentInv, CallbackInv, OrderInv, States, Requests, None
  <2>2. \/ UNCHANGED gui \/ gui' = Resting
        \/ \E p \in GuiSteps : gui' = [gui EXCEPT !.step = p]
        \/ \E p \in GuiSteps : gui' = [gui EXCEPT !.step = p, !.st = state]
        \/ \E p \in GuiSteps : \E q \in {rec, record_request, None} :
             gui' = [step |-> p, st |-> state, gate |-> q]
    <3>1. CASE User
      BY <3>1 DEF User, StartRecording, StopRecording, CancelPreparing, PauseRecording,
           ResumeRecording, CaptureFrame, GuiStep, GuiSteps
    <3>2. CASE GuiThread
      BY <3>2 DEF GuiThread, StopAnnounce, StopLocked, StopSignal,
           CancelRequest, CancelLook, Pause, Resume, PauseLocked, PauseSet, SnapshotLocked,
           SnapshotSet, GuiStep, GuiSteps
    <3>3. CASE ~User /\ ~GuiThread
      BY <3>3 DEF Next, vars, RecordingThread, PrepareFails, Checkpoint, Commit,
           Recheck, AnnounceRecording, ValidateFails, TakeOver, SourcesFail, StartWorkers,
           JoinProducers, JoinFails, JoinMux, PollMux, JoinUnchanged, EndRecording, MarkLeak,
           AnswerUnserved, CloseGate, DrainGate, BuildResult, AnswerLate, Attribute,
           EndUnchanged, ClearRequest, RecordReturned, Finish, Idle, Workers, Capture,
           TakeSnapshot, ServeSnapshot, ProducerEnds, Write, InvokeLook, InvokeLocked,
           InvokeReturn, MuxEnds, WorkerUnchanged
    <3> QED
      BY <3>1, <3>2, <3>3
  <2>3. CASE gui' = Resting
    BY <2>1, <2>3 DEF Resting, GuiSteps, None
  <2>4. CASE \E p \in GuiSteps : gui' = [gui EXCEPT !.step = p]
    BY <2>4 DEF ShapeInv
  <2>5. CASE \E p \in GuiSteps : gui' = [gui EXCEPT !.step = p, !.st = state]
    BY <2>1, <2>5 DEF ShapeInv
  <2>6. CASE \E p \in GuiSteps : \E q \in {rec, record_request, None} :
               gui' = [step |-> p, st |-> state, gate |-> q]
    BY <2>1, <2>6
  <2> QED
    BY <2>2, <2>3, <2>4, <2>5, <2>6 DEF ShapeInv
<1>4. /\ snapshot' \in [Snapshots -> SnapshotRecord]
      /\ ~SnapshotSet => \A t \in Snapshots : snapshot'[t].gate = snapshot[t].gate
  <2>1. CASE SnapshotSet
    <3>1. PICK t \in Snapshots : Unused(t)
      BY <2>1 DEF SnapshotSet, ShapeInv
    <3>2. gui.gate \in Requests \cup {None}
      BY DEF ShapeInv
    <3>3. \/ UNCHANGED snapshot
          \/ \E s \in Snapshots : \E l \in BOOLEAN :
               snapshot' = [snapshot EXCEPT ![s].gate = gui.gate, ![s].live = l]
      BY <2>1, <3>1, UnusedLeast DEF SnapshotSet
    <3>4. ASSUME NEW s \in Snapshots, NEW l \in BOOLEAN,
                 snapshot' = [snapshot EXCEPT ![s].gate = gui.gate, ![s].live = l]
          PROVE  snapshot' \in [Snapshots -> SnapshotRecord]
      <4> DEFINE u == [snapshot[s] EXCEPT !.gate = gui.gate, !.live = l]
      <4>1. snapshot[s] \in SnapshotRecord
        BY DEF ShapeInv
      <4>2. u \in SnapshotRecord
        BY <3>2, <4>1 DEF SnapshotRecord
      <4>3. snapshot' = [snapshot EXCEPT ![s] = u]
        BY <3>4, <4>1 DEF ShapeInv, SnapshotRecord
      <4> QED
        BY <4>2, <4>3 DEF ShapeInv
    <3> QED
      BY <2>1, <3>3, <3>4 DEF ShapeInv
  <2>2. CASE AnswerUnserved \/ AnswerLate
    <3>1. rec \in Requests /\ bound[rec] \in States
      BY <2>2, BoundStates, OwnedCall DEF AnswerUnserved, AnswerLate, Owned, Live
    <3>2. St.snap \in Snapshots \cup {None}
      BY <3>1 DEF ShapeInv, SessionRecord, St
    <3>3. Answer(St.snap)
      BY <2>2 DEF AnswerUnserved, AnswerLate, FailSnapshot
    <3> QED
      BY <3>2, <3>3, AnswerShape
  <2>3. ASSUME NEW r \in Requests, ServeSnapshot(r)
        PROVE  /\ snapshot' \in [Snapshots -> SnapshotRecord]
               /\ \A t \in Snapshots : snapshot'[t].gate = snapshot[t].gate
    <3>1. hand[r] \in Snapshots \cup {None} /\ Answer(hand[r])
      BY <2>3 DEF ShapeInv, ServeSnapshot
    <3> QED
      BY <3>1, AnswerShape
  <2>4. CASE MarkLeak
    <3>1. /\ DOMAIN snapshot' = Snapshots
          /\ snapshot' = [s \in Snapshots |-> snapshot'[s]]
      BY <2>4 DEF MarkLeak
    <3>2. \A s \in Snapshots :
            /\ snapshot[s] \in SnapshotRecord
            /\ \/ snapshot'[s] = snapshot[s]
               \/ snapshot'[s] = [snapshot[s] EXCEPT !.live = FALSE]
      BY <2>4 DEF MarkLeak, ShapeInv
    <3>3. \A s \in Snapshots : /\ snapshot'[s] \in SnapshotRecord
                               /\ snapshot'[s].gate = snapshot[s].gate
      BY <3>2 DEF SnapshotRecord
    <3> QED
      BY <3>1, <3>3
  <2>5. CASE /\ ~SnapshotSet /\ ~AnswerUnserved /\ ~AnswerLate /\ ~MarkLeak
             /\ \A r \in Requests : ~ServeSnapshot(r)
    <3>1. UNCHANGED snapshot
      BY <2>5 DEF Next, User, StartRecording, StopRecording, CancelPreparing, PauseRecording,
           ResumeRecording, CaptureFrame, GuiThread, StopAnnounce, StopLocked, StopSignal,
           CancelRequest, CancelLook, Pause, Resume, PauseLocked, PauseSet, SnapshotLocked,
           vars, RecordingThread, PrepareFails, Checkpoint, Commit,
           Recheck, AnnounceRecording, ValidateFails, TakeOver, SourcesFail, StartWorkers,
           JoinProducers, JoinFails, JoinMux, PollMux, JoinUnchanged, EndRecording,
           CloseGate, DrainGate, BuildResult, Attribute,
           ClearRequest, RecordReturned, Finish, Idle, Workers, Capture,
           TakeSnapshot, ProducerEnds, Write, InvokeLook, InvokeLocked,
           InvokeReturn, MuxEnds
    <3> QED
      BY <3>1 DEF ShapeInv
  <2> QED
    BY <2>1, <2>2, <2>3, <2>4, <2>5
<1>5. gui'.step \in {"snap", "snap_set"} => \E s \in Snapshots : snapshot'[s].gate = None
  <2>1. CASE SnapshotSet
    BY <2>1 DEF SnapshotSet, Resting
  <2>2. CASE ~SnapshotSet /\ gui'.step \in {"snap", "snap_set"}
    <3>1. \E s \in Snapshots : Unused(s)
      <4>1. CASE UNCHANGED gui
        BY <2>2, <4>1 DEF ShapeInv
      <4>2. CASE ~UNCHANGED gui
        <5>1. User \/ GuiThread
          BY <4>2 DEF Next, vars, RecordingThread, PrepareFails, Checkpoint, Commit,
           Recheck, AnnounceRecording, ValidateFails, TakeOver, SourcesFail, StartWorkers,
           JoinProducers, JoinFails, JoinMux, PollMux, JoinUnchanged, EndRecording, MarkLeak,
           AnswerUnserved, CloseGate, DrainGate, BuildResult, AnswerLate, Attribute,
           EndUnchanged, ClearRequest, RecordReturned, Finish, Idle, Workers, Capture,
           TakeSnapshot, ServeSnapshot, ProducerEnds, Write, InvokeLook, InvokeLocked,
           InvokeReturn, MuxEnds, WorkerUnchanged
        <5>2. CaptureFrame \/ SnapshotLocked
          BY <2>2, <4>2, <5>1, GuiMoves DEF User, GuiThread, StartRecording
        <5> QED
          BY <5>2 DEF CaptureFrame, SnapshotLocked, ShapeInv
      <4> QED
        BY <4>1, <4>2
    <3> QED
      BY <2>2, <3>1, <1>4 DEF Unused
  <2> QED
    BY <2>1, <2>2
<1> QED
  BY <1>1, <1>2, <1>3, <1>4, <1>5 DEF ShapeInv, Unused

\* A step that brings no new reason to stop into the states keeps the scope.
LEMMA ScopeQuiet ==
  ASSUME CallbackInv, LeakInv, FlowInv, CurrentInv, ScopeInv,
         UNCHANGED <<stop_asked, record_request, rec, bound>>,
         pending_stop' \subseteq pending_stop,
         gui'.step \in Stopping => gui.step \in Stopping,
         rpc' \in Owned => rpc \in Owned /\ pre_stop' = pre_stop,
         Capturing' => Capturing,
         \A i \in States :
           /\ session'[i].caller = session[i].caller
           /\ session[i].failed => session'[i].failed
           /\ session[i].source_loss => session'[i].source_loss
           /\ session'[i].stop =>
                session[i].stop \/ session'[i].failed \/ session'[i].source_loss,
         result' = "stopped_before" => rpc' \in {"clear", "returned"} /\ stop_asked
  PROVE  ScopeInv'
<1>1. rpc \in Owned => bound[rec] \in States
  BY BoundStates, OwnedCall
<1>2. Capturing => rpc \in Owned
  BY DEF Capturing, Owned, Live
<1>3. rpc' \in Owned => (pre_stop' \/ St'.caller => stop_asked')
  BY <1>1 DEF ScopeInv, St
<1>4. Capturing' /\ St'.stop => St'.failed \/ St'.source_loss \/ stop_asked'
  BY <1>1, <1>2 DEF ScopeInv, StopScoped, St
<1> QED
  BY <1>3, <1>4 DEF ScopeInv, StopScoped

\* Presses and the GUI thread's steps: a stop is asked for before it is made.
LEMMA ScopeUserGui ==
  ASSUME CallbackInv, LeakInv, FlowInv, CurrentInv, ShapeInv, ScopeInv, User \/ GuiThread
  PROVE  ScopeInv'
<1>1. UNCHANGED <<rec, bound, pre_stop, result>>
  BY DEF User, StartRecording, StopRecording, CancelPreparing, PauseRecording,
         ResumeRecording, CaptureFrame, GuiThread, StopAnnounce, StopLocked, StopSignal,
         CancelRequest, CancelLook, Pause, Resume, PauseLocked, PauseSet, SnapshotLocked,
         SnapshotSet, locals
<1>2. rpc \in Owned => bound[rec] \in States
  BY BoundStates, OwnedCall
<1>3. Capturing => rpc \in Owned
  BY DEF Capturing, Owned, Live
<1>4. CASE StartRecording
  <2>1. /\ ~is_recording /\ record_request' = record_request + 1
        /\ UNCHANGED <<pending_stop, gui>>
        /\ gui.step = "idle"
        /\ rpc' = rpc \/ rpc' = "prepare"
    BY <1>4 DEF StartRecording, GuiIdle, Resting, impl
  <2>2. rpc \notin Committed
    BY <2>1 DEF FlowInv
  <2>3. rpc' \notin Owned /\ ~Capturing' /\ result # "stopped_before"
    BY <2>1, <2>2 DEF Committed, Owned, Live, Capturing, ScopeInv
  <2>4. \A n \in pending_stop : n \in Requests /\ n <= record_request' /\ n # record_request'
    BY <2>1 DEF ScopeInv, Requests, CallbackInv, OrderInv
  <2> QED
    BY <1>1, <2>1, <2>3, <2>4 DEF ScopeInv, StopScoped, Stopping
<1>5. CASE StopRecording \/ CancelPreparing
  <2>1. /\ stop_asked' = TRUE
        /\ UNCHANGED <<pending_stop, record_request, rpc>>
    BY <1>5 DEF StopRecording, CancelPreparing, coord, impl
  <2>2. record_request \in Requests
    BY <1>5 DEF StopRecording, CancelPreparing, FlowInv
  <2> QED
    BY <1>1, <2>1, <2>2 DEF ScopeInv, StopScoped
<1>6. CASE StopLocked
  <2>1. /\ UNCHANGED <<stop_asked, record_request, rpc, session>>
        /\ pending_stop' \subseteq pending_stop \cup {record_request}
        /\ gui.step \in Stopping
    BY <1>6 DEF StopLocked, NoteStop, coord, impl, Stopping
  <2>2. stop_asked /\ record_request \in Requests /\ record_request <= record_request
    BY <2>1 DEF ScopeInv, Requests
  <2>3. \A n \in pending_stop' : /\ n \in Requests /\ n <= record_request
                                 /\ n = record_request => stop_asked
    BY <2>1, <2>2 DEF ScopeInv
  <2> QED
    BY <1>1, <2>1, <2>2, <2>3 DEF ScopeInv, StopScoped, Capturing, St
<1>7. CASE StopSignal
  <2>1. /\ UNCHANGED <<stop_asked, record_request, rpc, pending_stop>>
        /\ gui.step \in Stopping
    BY <1>7 DEF StopSignal, coord, impl, Stopping
  <2>2. stop_asked /\ record_request \in Requests
    BY <2>1 DEF ScopeInv
  <2> QED
    BY <1>1, <2>1, <2>2 DEF ScopeInv, StopScoped
<1>8. CASE ~(StartRecording \/ StopRecording \/ CancelPreparing \/ StopLocked \/ StopSignal)
  <2>1. /\ UNCHANGED <<stop_asked, record_request, rpc, pending_stop>>
    BY <1>8 DEF User, PauseRecording, ResumeRecording, CaptureFrame, GuiThread, StopAnnounce,
           CancelRequest, CancelLook, Pause, Resume, PauseLocked, PauseSet, SnapshotLocked,
           SnapshotSet, coord, impl, hist
  <2>2. gui'.step \in Stopping => gui.step \in Stopping
    <3>1. Resting.step = "idle"
          /\ [step |-> "snap_set", st |-> state, gate |-> rec].step = "snap_set"
      BY DEF Resting
    <3> QED
      BY <1>8, <3>1, GuiMoves DEF User, GuiThread, Stopping
  <2>3. \A i \in States : SameFlags(i)
    BY <1>8, GuiSession
  <2>4. Capturing' => Capturing
    BY <2>1 DEF Capturing
  <2> QED
    BY <1>1, <2>1, <2>2, <2>3, <2>4, ScopeQuiet DEF SameFlags, ScopeInv, StopScoped
<1> QED
  BY <1>4, <1>5, <1>6, <1>7, <1>8

LEMMA ScopeTakeOver ==
  ASSUME CallbackInv, LeakInv, CurrentInv, CurrentInv', ShapeInv, ScopeInv, TakeOver
  PROVE  ScopeInv'
<1>1. /\ rpc = "record" /\ rpc' = "sources" /\ pending_stop' = {}
      /\ UNCHANGED <<stop_asked, record_request, gui, result>>
  BY DEF TakeOver, coord, hist
<1>2. /\ St' = session'[state'] /\ pre_stop' = Consume(record_request)
      /\ St'.stop = pre_stop' /\ St'.caller = FALSE
  BY TakeOverSession DEF St
<1>3. record_request \in Requests /\ record_request # None
  BY <1>1 DEF CallbackInv, OrderInv, Before, Requests, None
<1>4. Consume(record_request) => stop_asked
  BY <1>3 DEF Consume, RecordRequestMatches, ScopeInv, Requests, None
<1> QED
  BY <1>1, <1>2, <1>4 DEF ScopeInv, StopScoped

LEMMA ScopeThread ==
  ASSUME CallbackInv, LeakInv, FlowInv, CurrentInv, ShapeInv, ScopeInv, RecordingThread,
         ~TakeOver
  PROVE  ScopeInv'
<1>1. /\ UNCHANGED <<stop_asked, record_request, rec, bound, gui>>
      /\ pending_stop' \subseteq pending_stop
  BY DEF RecordingThread, PrepareFails, Checkpoint, Commit, Recheck, AnnounceRecording,
         ValidateFails, SourcesFail, StartWorkers, JoinProducers, JoinFails, JoinMux,
         PollMux, JoinUnchanged, EndRecording, MarkLeak, AnswerUnserved, CloseGate,
         DrainGate, BuildResult, AnswerLate, Attribute, EndUnchanged, ClearRequest,
         RecordReturned, Finish, coord, impl, locals, hist
<1>2. /\ rpc' \in Owned => rpc \in Owned /\ pre_stop' = pre_stop
      /\ Capturing' => Capturing
  BY DEF RecordingThread, PrepareFails, Checkpoint, CancelUnwind, Commit, Recheck,
         AnnounceRecording,
         ValidateFails, SourcesFail, StartWorkers, JoinProducers, JoinFails, JoinMux,
         PollMux, JoinUnchanged, EndRecording, MarkLeak, AnswerUnserved, CloseGate,
         DrainGate, BuildResult, AnswerLate, Attribute, EndUnchanged, ClearRequest,
         RecordReturned, Finish, locals, Owned, Live, Capturing
<1>3. result' = "stopped_before" => rpc' \in {"clear", "returned"} /\ stop_asked
  <2>1. CASE Attribute
    <3>1. rpc \in Owned /\ rpc' = "clear"
      BY <2>1 DEF Attribute, Owned
    <3>2. result' = "stopped_before" => result = "stopped_before" \/ pre_stop \/ St.caller
      BY <2>1 DEF Attribute, Outcome
    <3> QED
      BY <3>1, <3>2 DEF ScopeInv, StopScoped
  <2>2. CASE ~Attribute
    <3>1. result' = "stopped_before" =>
            result = "stopped_before" /\ (rpc \in {"clear", "returned"} => rpc' = "returned")
      BY <2>2 DEF RecordingThread, PrepareFails, Checkpoint, Commit, Recheck,
         AnnounceRecording,
         ValidateFails, SourcesFail, StartWorkers, JoinProducers, JoinFails, JoinMux,
         PollMux, JoinUnchanged, EndRecording, MarkLeak, AnswerUnserved, CloseGate,
         DrainGate, BuildResult, AnswerLate, ClearRequest, RecordReturned, Finish
    <3> QED
      BY <3>1 DEF ScopeInv, StopScoped
  <2> QED
    BY <2>1, <2>2
<1> QED
  BY <1>1, <1>2, <1>3, ThreadSession, ScopeQuiet

LEMMA NextScope ==
  ASSUME CallbackInv, LeakInv, FlowInv, CurrentInv, CurrentInv', ShapeInv, ScopeInv,
         [Next]_vars
  PROVE  ScopeInv'
<1>1. ASSUME NEW r \in Requests, Workers(r) PROVE ScopeInv'
  <2>1. UNCHANGED <<stop_asked, record_request, rec, bound, gui, rpc, result, pending_stop,
                    pre_stop>>
    BY <1>1 DEF Workers, Capture, TakeSnapshot, ServeSnapshot, ProducerEnds, Write,
           InvokeLook, InvokeLocked, InvokeReturn, MuxEnds, WorkerUnchanged, coord, impl,
           locals, hist
  <2> QED
    BY <1>1, <2>1, WorkerSession, ScopeQuiet DEF ScopeInv, StopScoped, Capturing
<1>2. CASE UNCHANGED vars
  <2>1. UNCHANGED <<stop_asked, record_request, rec, bound, gui, rpc, result, pending_stop,
                    pre_stop, session>>
    BY <1>2 DEF vars, coord, impl, locals, hist
  <2> QED
    BY <2>1 DEF ScopeInv, StopScoped, Capturing, St
<1> QED
  BY <1>1, <1>2, ScopeUserGui, ScopeTakeOver, ScopeThread DEF Next, Idle

\* A step of the recording thread or of a worker that keeps stops and cancels pending.
LEMMA HonourQuiet ==
  ASSUME CallbackInv, LeakInv, FlowInv, CurrentInv, HonourInv,
         UNCHANGED <<gui, stop_done, record_request, rec, bound, state>>,
         rpc' \in Before => rpc \in Before /\ UNCHANGED <<pending_stop, prepare_cancel>>,
         rpc' \in {"prepare", "commit", "recheck"} => rpc \in {"prepare", "commit", "recheck"},
         rpc \in {"prepare", "commit", "recheck"} /\ prepare_cancel /\ rpc' \in Before =>
           rpc' \in {"prepare", "commit", "recheck"},
         Capturing' => Capturing,
         \A i \in States : session[i].stop => session'[i].stop
  PROVE  HonourInv'
<1>1. Capturing => bound[rec] \in States
  BY BoundStates, OwnedCall DEF Capturing, Owned, Live
<1>2. Capturing' => (St.stop => St'.stop)
  BY <1>1 DEF St
<1>3. /\ gui'.step = "cancel_look" /\ rpc' \in {"prepare", "commit", "recheck"} => prepare_cancel'
      /\ gui'.step = "stop_signal" /\ rpc' \in Before => record_request' \in pending_stop'
  BY DEF HonourInv, Before
<1>4. stop_done' /\ rpc' \in Before =>
       \/ record_request' \in pending_stop'
       \/ prepare_cancel' /\ rpc' \in {"prepare", "commit", "recheck"}
  BY DEF HonourInv
<1>5. /\ gui'.step = "stop_signal" /\ Capturing' => gui'.st = state' \/ St'.stop
      /\ Capturing' /\ stop_done' => St'.stop
  BY <1>2 DEF HonourInv
<1> QED
  BY <1>3, <1>4, <1>5 DEF HonourInv

LEMMA HonourUserGui ==
  ASSUME CallbackInv, LeakInv, FlowInv, CurrentInv, ShapeInv, ScopeInv, HonourInv,
         User \/ GuiThread
  PROVE  HonourInv'
<1>1. UNCHANGED <<rec, bound, state>>
  BY DEF User, StartRecording, StopRecording, CancelPreparing, PauseRecording,
         ResumeRecording, CaptureFrame, GuiThread, StopAnnounce, StopLocked, StopSignal,
         CancelRequest, CancelLook, Pause, Resume, PauseLocked, PauseSet, SnapshotLocked,
         SnapshotSet, locals, impl
<1>2. Capturing => bound[rec] = state /\ state \in States /\ rec = record_request
  BY BoundStates, OwnedCall DEF Capturing, Owned, Live
<1>3. rpc \in Before => ~recording
  BY DEF FlowInv, Before
<1>4. CASE StartRecording
  <2>1. /\ ~is_recording /\ ~prepare_in_flight /\ stop_done' = FALSE
        /\ UNCHANGED gui /\ gui.step = "idle"
    BY <1>4 DEF StartRecording, GuiIdle, Resting
  <2> QED
    BY <2>1 DEF HonourInv
<1>5. CASE StopLocked
  <2>1. /\ UNCHANGED <<rpc, session, record_request, prepare_cancel>>
        /\ gui.step = "stop_lock"
    BY <1>5 DEF StopLocked, coord
  <2>2. record_request \in Requests
    BY <2>1 DEF ScopeInv, Stopping
  <2>3. recording => active_request = record_request
    BY DEF FlowInv, Owned, Live
  <2>4. ~(recording /\ ~RecordRequestMatches(active_request, record_request))
    BY <2>3 DEF RecordRequestMatches
  <2>5. /\ gui' = [gui EXCEPT !.step = "stop_signal", !.st = state]
        /\ pending_stop' = NoteStop(record_request)
        /\ UNCHANGED stop_done
    BY <1>5, <2>4 DEF StopLocked
  <2>6. gui'.step = "stop_signal" /\ gui'.st = state
    BY <2>5 DEF ShapeInv
  <2>7. rpc \in Before => record_request \in pending_stop'
    BY <1>3, <2>5 DEF NoteStop
  <2> QED
    BY <1>1, <2>1, <2>5, <2>6, <2>7 DEF HonourInv, Capturing, St
<1>6. CASE StopSignal
  <2>1. /\ UNCHANGED <<rpc, record_request, prepare_cancel, pending_stop>>
        /\ gui.step = "stop_signal" /\ gui'.step = "idle"
    BY <1>6, GuiMoves DEF StopSignal, coord, impl
  <2>2. rpc \in Before => record_request \in pending_stop
    BY <2>1 DEF HonourInv
  <2>3. Capturing => session'[bound[rec]].stop
    <3> SUFFICES ASSUME Capturing PROVE session'[state].stop
      BY <1>2
    <3>1. gui.st = state \/ session[state].stop
      BY <1>2, <2>1 DEF HonourInv, St
    <3> QED
      BY <1>2, <1>6, <3>1, SignalSession
  <2> QED
    BY <1>1, <2>1, <2>2, <2>3 DEF HonourInv, Capturing, St
<1>7. CASE CancelRequest
  <2>1. /\ UNCHANGED <<rpc, record_request, pending_stop, stop_done, session>>
        /\ prepare_cancel' = TRUE /\ gui'.step = "cancel_look"
    BY <1>7, GuiMoves DEF CancelRequest, impl, hist
  <2> QED
    BY <1>1, <2>1 DEF HonourInv, Capturing, St
<1>8. CASE CancelLook
  <2>1. /\ UNCHANGED <<rpc, record_request, pending_stop, session, prepare_cancel>>
        /\ gui.step = "cancel_look" /\ gui'.step \in {"idle", "stop"}
        /\ stop_done' => stop_done \/ ~is_recording
    BY <1>8, GuiMoves DEF CancelLook, impl, coord
  <2>2. ~is_recording => rpc \notin Committed
    BY DEF FlowInv
  <2>3. rpc \in Before /\ rpc \notin Committed => rpc \in {"prepare", "commit"} /\ prepare_cancel
    BY <2>1 DEF Before, Committed, HonourInv
  <2>4. Capturing => rpc \in Committed
    BY DEF Capturing, Committed, Owned, Live
  <2> QED
    BY <1>1, <2>1, <2>2, <2>3, <2>4 DEF HonourInv, Capturing, St
<1>9. CASE ~(StartRecording \/ StopLocked \/ StopSignal \/ CancelRequest \/ CancelLook)
  <2>1. UNCHANGED <<rpc, record_request, pending_stop, stop_done, prepare_cancel>>
    BY <1>9 DEF User, StopRecording, CancelPreparing, PauseRecording, ResumeRecording,
           CaptureFrame, GuiThread, StopAnnounce,
           Pause, Resume, PauseLocked, PauseSet, SnapshotLocked,
           SnapshotSet, coord, impl, hist
  <2>2. gui'.step \notin {"stop_signal", "cancel_look"}
    <3>1. Resting.step = "idle"
          /\ [step |-> "snap_set", st |-> state, gate |-> rec].step = "snap_set"
      BY DEF Resting
    <3> QED
      BY <1>9, <3>1, GuiMoves DEF User, GuiThread
  <2>3. \A i \in States : SameFlags(i)
    BY <1>9, GuiSession
  <2>4. Capturing => (St.stop => St'.stop)
    BY <1>1, <1>2, <2>3 DEF SameFlags, St
  <2> QED
    BY <1>1, <2>1, <2>2, <2>4 DEF HonourInv, Capturing
<1> QED
  BY <1>4, <1>5, <1>6, <1>7, <1>8, <1>9

LEMMA HonourTakeOver ==
  ASSUME CallbackInv, LeakInv, CurrentInv, CurrentInv', ShapeInv, HonourInv, TakeOver
  PROVE  HonourInv'
<1>1. /\ rpc = "record" /\ rpc' = "sources"
      /\ UNCHANGED <<stop_done, record_request, gui>>
  BY DEF TakeOver, coord, hist
<1>2. St' = session'[state'] /\ St'.stop = Consume(record_request)
  BY TakeOverSession DEF St
<1>3. record_request \in pending_stop => Consume(record_request)
  BY DEF Consume, RecordRequestMatches
<1>4. gui.step = "stop_signal" \/ stop_done => record_request \in pending_stop
  BY <1>1 DEF HonourInv, Before
<1> QED
  BY <1>1, <1>2, <1>3, <1>4 DEF HonourInv, Before

LEMMA HonourThread ==
  ASSUME CallbackInv, LeakInv, FlowInv, CurrentInv, ShapeInv, HonourInv, RecordingThread,
         ~TakeOver
  PROVE  HonourInv'
<1>1. UNCHANGED <<gui, stop_done, record_request, rec, bound, state>>
  BY DEF RecordingThread, PrepareFails, Checkpoint, Commit, Recheck, AnnounceRecording,
         ValidateFails, SourcesFail, StartWorkers, JoinProducers, JoinFails, JoinMux,
         PollMux, JoinUnchanged, EndRecording, MarkLeak, AnswerUnserved, CloseGate,
         DrainGate, BuildResult, AnswerLate, Attribute, EndUnchanged, ClearRequest,
         RecordReturned, Finish, coord, impl, locals, hist
<1>2. /\ rpc' \in Before => rpc \in Before /\ UNCHANGED <<pending_stop, prepare_cancel>>
      /\ rpc' \in {"prepare", "commit", "recheck"} => rpc \in {"prepare", "commit", "recheck"}
      /\ Capturing' => Capturing
  BY DEF RecordingThread, PrepareFails, Checkpoint, CancelUnwind, Commit, Recheck,
         AnnounceRecording,
         ValidateFails, SourcesFail, StartWorkers, JoinProducers, JoinFails, JoinMux,
         PollMux, JoinUnchanged, EndRecording, MarkLeak, AnswerUnserved, CloseGate,
         DrainGate, BuildResult, AnswerLate, Attribute, EndUnchanged, ClearRequest,
         RecordReturned, Finish, Before, Capturing, impl
<1>3. rpc \in {"prepare", "commit", "recheck"} /\ prepare_cancel /\ rpc' \in Before =>
        rpc' \in {"prepare", "commit", "recheck"}
  BY DEF RecordingThread, PrepareFails, Checkpoint, CancelUnwind, Commit, Recheck,
         AnnounceRecording,
         ValidateFails, SourcesFail, StartWorkers, JoinProducers, JoinFails, JoinMux,
         PollMux, EndRecording, MarkLeak, AnswerUnserved, CloseGate,
         DrainGate, BuildResult, AnswerLate, Attribute, ClearRequest,
         RecordReturned, Finish, Before
<1> QED
  BY <1>1, <1>2, <1>3, ThreadSession, HonourQuiet

LEMMA NextStop ==
  ASSUME CallbackInv, LeakInv, StopInv, [Next]_vars
  PROVE  StopInv'
<1> USE DEF StopInv
<1>1. FlowInv' /\ CurrentInv'
  BY NextFlow, NextCurrent
<1>2. ShapeInv' /\ ScopeInv'
  BY <1>1, NextShape, NextScope
<1>3. HonourInv'
  <2>1. ASSUME NEW r \in Requests, Workers(r) PROVE HonourInv'
    <3>1. UNCHANGED <<gui, stop_done, record_request, rec, bound, state, rpc, pending_stop,
                      prepare_cancel>>
      BY <2>1 DEF Workers, Capture, TakeSnapshot, ServeSnapshot, ProducerEnds, Write,
             InvokeLook, InvokeLocked, InvokeReturn, MuxEnds, WorkerUnchanged, coord, impl,
             locals, hist
    <3> QED
      BY <2>1, <3>1, WorkerSession, HonourQuiet DEF Capturing
  <2>2. CASE UNCHANGED vars
    <3>1. UNCHANGED <<gui, stop_done, record_request, rec, bound, state, rpc, pending_stop,
                      prepare_cancel, session>>
      BY <2>2 DEF vars, coord, impl, locals, hist
    <3> QED
      BY <3>1 DEF HonourInv, Capturing, St
  <2> QED
    BY <1>1, <2>1, <2>2, HonourUserGui, HonourTakeOver, HonourThread DEF Next, Idle
<1> QED
  BY <1>1, <1>2, <1>3

\* A recording that is being made stops only by a failure, the loss of its source or a
\* stop of its own, whatever earlier stops and cancels left behind and whichever
\* abandoned workers still write their states.
THEOREM StopsAreScoped == Spec => []StopScoped
<1>1. StopInv => StopScoped
  BY DEF StopInv, ScopeInv
<1> QED
  BY InitCallback, NextCallback, InitLeak, NextLeak, InitStop, NextStop, <1>1, PTL DEF Spec

\* A stop or a cancel whose call has returned is in effect, for any interleaving of the
\* GUI thread with the commit, the take-over and the reset of the recording thread.
THEOREM StopsAreHonoured == Spec => []StopHonoured
<1>1. StopInv => StopHonoured
  BY DEF StopInv, HonourInv, StopHonoured, Capturing
<1> QED
  BY InitCallback, NextCallback, InitLeak, NextLeak, InitStop, NextStop, <1>1, PTL DEF Spec

-----------------------------------------------------------------------------
(* Snapshots are answered *)

\* A snapshot that was asked for is in one place, a state or a worker's hand, until it
\* is answered or dropped; one that was not asked for is nowhere.
PlaceInv ==
  /\ \A s \in Snapshots : Unused(s) =>
       /\ snapshot[s].answers = 0 /\ snapshot[s].live = FALSE
       /\ \A i \in States : session[i].snap # s
       /\ \A r \in Requests : hand[r] # s
  /\ \A i \in States : session[i].snap # None =>
       /\ snapshot[session[i].snap].answers = 0
       /\ \A j \in States : session[j].snap = session[i].snap => j = i
       /\ \A r \in Requests : hand[r] # session[i].snap
  /\ \A r \in Requests : hand[r] # None =>
       /\ snapshot[hand[r]].answers = 0
       /\ \A q \in Requests : hand[q] = hand[r] => q = r
       /\ producer[r] = "running"

\* The request for a snapshot names the call and the state it found.
AskedInv ==
  gui.step = "snap_set" => /\ gui.gate \in Requests /\ gui.gate <= rec
                           /\ gui.gate = rec => gui.st = state

\* The gate of the call that is being made is open until Close.
OpenInv == rpc \in Live \ {"drain"} => gate_open[rec] = TRUE

\* A snapshot that is owed an answer waits in the state of the running call, where
\* Record() will find it, or in the hand of its worker.
OwedInv ==
  \A s \in Snapshots : snapshot[s].live /\ snapshot[s].answers # 1 =>
    /\ snapshot[s].gate = rec
    /\ \/ /\ rpc \in Working
          /\ session[state].snap = s \/ hand[rec] = s
       \/ rpc = "unserved" /\ producer[rec] = "exited" /\ session[state].snap = s

OnceInv == \A s \in Snapshots : snapshot[s].answers <= 1

SnapshotInv == PlaceInv /\ AskedInv /\ OpenInv /\ OwedInv /\ OnceInv

LEMMA InitSnapshot == Init => SnapshotInv
<1> SUFFICES ASSUME Init PROVE SnapshotInv
  OBVIOUS
<1>1. /\ \A i \in States : session[i].snap = None
      /\ \A r \in Requests : hand[r] = None
      /\ \A s \in Snapshots : snapshot[s].live = FALSE /\ snapshot[s].answers = 0
      /\ \A s \in Snapshots : s # None
  BY DEF Init, FreshState, Snapshots, None
<1>2. PlaceInv /\ OwedInv /\ OnceInv
  BY <1>1 DEF PlaceInv, OwedInv, OnceInv
<1>3. AskedInv /\ OpenInv
  BY DEF Init, AskedInv, OpenInv, Resting, Live
<1> QED
  BY <1>2, <1>3 DEF SnapshotInv

\* A step that moves no snapshot, gives no answer, and neither begins nor ends the call.
LEMMA SnapshotQuiet ==
  ASSUME SnapshotInv, UNCHANGED <<snapshot, hand, rec, state, gate_open>>,
         \A i \in States : session'[i].snap = session[i].snap,
         state \in States, rec # None => rec \in Requests,
         \A r \in Requests : /\ producer[r] = "exited" => producer'[r] = "exited"
                             /\ hand[r] # None => producer'[r] = producer[r],
         gui'.step = "snap_set" =>
           gui' = gui \/ gui' = [step |-> "snap_set", st |-> state, gate |-> rec],
         gui'.step = "snap_set" => rec \in Requests,
         rpc' \in Live \ {"drain"} => rpc \in Live \ {"drain"},
         rpc \in Working => rpc' \in Working,
         rpc = "unserved" => rpc' = "unserved"
  PROVE  SnapshotInv'
<1>1. PlaceInv'
  BY DEF SnapshotInv, PlaceInv, Unused
<1>2. AskedInv'
  BY DEF SnapshotInv, AskedInv, Requests
<1>3. OpenInv' /\ OnceInv'
  BY DEF SnapshotInv, OpenInv, OnceInv
<1>4. OwedInv'
  <2> SUFFICES ASSUME NEW s \in Snapshots, snapshot[s].live, snapshot[s].answers # 1
               PROVE  /\ snapshot[s].gate = rec
                      /\ \/ /\ rpc' \in Working
                            /\ session'[state].snap = s \/ hand[rec] = s
                         \/ /\ rpc' = "unserved" /\ producer'[rec] = "exited"
                            /\ session'[state].snap = s
    BY DEF OwedInv
  <2>1. rec = None => snapshot[s].gate = None
    BY DEF SnapshotInv, OwedInv
  <2>2. rec # None
    BY <2>1 DEF SnapshotInv, PlaceInv, Unused
  <2> QED
    BY <2>2 DEF SnapshotInv, OwedInv
<1> QED
  BY <1>1, <1>2, <1>3, <1>4 DEF SnapshotInv

\* The snapshot of the state b is taken out of it, and answered if its gate is open.
LEMMA SnapshotAnswered ==
  ASSUME CallbackInv, LeakInv, CurrentInv, ShapeInv, SnapshotInv,
         rpc \in {"unserved", "late_snapshot"}, rec \in Requests,
         FailSnapshot, UNCHANGED <<hand, producer, rec, state, gate_open, gui>>,
         rpc' \in Live \ {"drain"} => rpc \in Live \ {"drain"}
  PROVE  SnapshotInv'
<1> DEFINE t == session[state].snap
<1>1. bound[rec] = state /\ state \in States
  BY BoundStates DEF CurrentInv, Requests, None
<1>2. session' = [session EXCEPT ![state].snap = None] /\ Answer(t)
  BY <1>1 DEF FailSnapshot, St
<1>3. /\ session'[state].snap = None
      /\ \A i \in States : i # state => session'[i].snap = session[i].snap
  BY <1>1, <1>2 DEF ShapeInv, SessionRecord
<1>4. t \in Snapshots \cup {None}
  BY <1>1 DEF ShapeInv, SessionRecord
<1>5. /\ \A s \in Snapshots : /\ snapshot'[s].gate = snapshot[s].gate
                              /\ snapshot'[s].live = snapshot[s].live
                              /\ s # t => snapshot'[s] = snapshot[s]
  BY <1>2, <1>4, AnswerShape
<1>6. t # None => /\ snapshot[t].answers = 0 /\ ~Unused(t)
                  /\ \A i \in States : i # state => session[i].snap # t
                  /\ \A r \in Requests : hand[r] # t
  BY <1>1, <1>4 DEF SnapshotInv, PlaceInv
<1>7. t # None => /\ snapshot'[t].answers \in {0, 1}
                  /\ gate_open[snapshot[t].gate] => snapshot'[t].answers = 1
  <2> SUFFICES ASSUME t # None
               PROVE  /\ snapshot'[t].answers \in {0, 1}
                      /\ gate_open[snapshot[t].gate] => snapshot'[t].answers = 1
    OBVIOUS
  <2>1. t \in Snapshots /\ snapshot[t] \in SnapshotRecord /\ snapshot[t].answers = 0
    BY <1>4, <1>6 DEF ShapeInv
  <2>2. CASE gate_open[snapshot[t].gate]
    <3>1. snapshot' = [snapshot EXCEPT ![t].answers = @ + 1]
      BY <1>2, <2>2 DEF Answer
    <3> QED
      BY <2>1, <3>1 DEF ShapeInv, SnapshotRecord
  <2>3. CASE ~gate_open[snapshot[t].gate]
    BY <1>2, <2>1, <2>3 DEF Answer
  <2> QED
    BY <2>2, <2>3
<1> HIDE DEF t
<1>8. PlaceInv'
  <2>1. \A s \in Snapshots : Unused(s)' <=> Unused(s)
    BY <1>5 DEF Unused
  <2>2. \A s \in Snapshots : Unused(s) => s # t
    BY <1>6 DEF Snapshots, None
  <2>3. \A s \in Snapshots : Unused(s)' =>
          /\ snapshot'[s].answers = 0 /\ snapshot'[s].live = FALSE
          /\ \A i \in States : session'[i].snap # s
          /\ \A r \in Requests : hand'[r] # s
    BY <1>1, <1>3, <1>5, <2>1, <2>2 DEF SnapshotInv, PlaceInv, Snapshots, None
  <2>4. \A i \in States : session'[i].snap # None =>
          /\ i # state /\ session'[i].snap = session[i].snap /\ session[i].snap # t
          /\ session[i].snap \in Snapshots
    BY <1>1, <1>3, <1>6 DEF ShapeInv, SessionRecord
  <2>5. \A i \in States : session'[i].snap # None =>
          /\ snapshot'[session'[i].snap].answers = 0
          /\ \A j \in States : session'[j].snap = session'[i].snap => j = i
          /\ \A r \in Requests : hand'[r] # session'[i].snap
    BY <1>3, <1>5, <2>4 DEF SnapshotInv, PlaceInv
  <2>6. \A r \in Requests : hand[r] # None => hand[r] \in Snapshots /\ hand[r] # t
    BY <1>6 DEF ShapeInv
  <2>7. \A r \in Requests : hand'[r] # None =>
          /\ snapshot'[hand'[r]].answers = 0
          /\ \A q \in Requests : hand'[q] = hand'[r] => q = r
          /\ producer'[r] = "running"
    BY <1>5, <2>6 DEF SnapshotInv, PlaceInv
  <2> QED
    BY <2>3, <2>5, <2>7 DEF PlaceInv
<1>9. AskedInv' /\ OpenInv'
  BY DEF SnapshotInv, AskedInv, OpenInv
<1>10. OnceInv'
  BY <1>4, <1>5, <1>7 DEF SnapshotInv, OnceInv, Snapshots, None
<1>11. OwedInv'
  <2> SUFFICES ASSUME NEW s \in Snapshots, snapshot'[s].live, snapshot'[s].answers # 1
               PROVE  FALSE
    BY DEF OwedInv
  <2>1. s # None /\ snapshot[s].live
    BY <1>5 DEF Snapshots, None
  <2>2. CASE s = t
    <3>1. snapshot[s].answers # 1
      BY <1>6, <2>1, <2>2
    <3>2. snapshot[s].gate = rec /\ rpc = "unserved"
      BY <2>1, <3>1 DEF SnapshotInv, OwedInv, Working
    <3>3. gate_open[snapshot[s].gate] = TRUE
      BY <3>2 DEF SnapshotInv, OpenInv, Live
    <3> QED
      BY <1>7, <2>1, <2>2, <3>3
  <2>3. CASE s # t
    BY <1>5, <2>1, <2>3 DEF SnapshotInv, OwedInv, Working, t
  <2> QED
    BY <2>2, <2>3
<1> QED
  BY <1>8, <1>9, <1>10, <1>11 DEF SnapshotInv

LEMMA SnapshotAsked ==
  ASSUME CallbackInv, LeakInv, FlowInv, CurrentInv, ShapeInv, SnapshotInv, SnapshotSet
  PROVE  SnapshotInv'
<1>1. /\ gui.step = "snap_set" /\ gui' = Resting
      /\ UNCHANGED <<rpc, hand, producer, rec, state, gate_open>>
  BY DEF SnapshotSet, impl, locals, workers
<1>2. gui'.step = "idle"
  BY <1>1 DEF Resting
<1>3. CASE session[gui.st].snap # None
  <2>1. UNCHANGED <<session, snapshot>>
    BY <1>3 DEF SnapshotSet
  <2> QED
    BY <1>1, <1>2, <2>1, SnapshotQuiet, BoundStates DEF CurrentInv
<1>4. CASE session[gui.st].snap = None
  <2>1. PICK t \in Snapshots : Unused(t)
    BY <1>1 DEF ShapeInv
  <2>2. PICK s \in Snapshots :
          /\ Unused(s)
          /\ session' = [session EXCEPT ![gui.st].snap = s]
          /\ snapshot' = [snapshot EXCEPT ![s].gate = gui.gate,
                                          ![s].live = recording /\ gui.gate = rec]
    BY <1>4, <2>1, UnusedLeast DEF SnapshotSet
  <2>3. /\ gui.st \in States /\ gui.gate \in Requests /\ gui.gate # None /\ s # None
        /\ gui.gate = rec => gui.st = state
    BY <1>1 DEF ShapeInv, SnapshotInv, AskedInv, Requests, Snapshots, None
  <2>4. /\ session'[gui.st].snap = s
        /\ \A i \in States : i # gui.st => session'[i].snap = session[i].snap
    BY <2>2, <2>3 DEF ShapeInv, SessionRecord
  <2>5. /\ snapshot'[s].gate = gui.gate /\ snapshot'[s].answers = snapshot[s].answers
        /\ snapshot'[s].live = (recording /\ gui.gate = rec)
        /\ \A u \in Snapshots : u # s => snapshot'[u] = snapshot[u]
    <3>1. snapshot[s] \in SnapshotRecord
      BY DEF ShapeInv
    <3>2. snapshot' = [snapshot EXCEPT ![s] =
                         [snapshot[s] EXCEPT !.gate = gui.gate,
                                             !.live = recording /\ gui.gate = rec]]
      BY <2>2, <3>1 DEF ShapeInv, SnapshotRecord
    <3>3. snapshot'[s] = [snapshot[s] EXCEPT !.gate = gui.gate,
                                             !.live = recording /\ gui.gate = rec]
      BY <3>2 DEF ShapeInv
    <3>4. \A u \in Snapshots : u # s => snapshot'[u] = snapshot[u]
      BY <3>2 DEF ShapeInv
    <3> QED
      BY <3>1, <3>3, <3>4 DEF SnapshotRecord
  <2>6. /\ snapshot[s].answers = 0
        /\ \A i \in States : session[i].snap # s
        /\ \A r \in Requests : hand[r] # s
    BY <2>2 DEF SnapshotInv, PlaceInv
  <2>7. \A u \in Snapshots : Unused(u)' => u # s /\ Unused(u)
    BY <2>3, <2>5 DEF Unused
  <2>8. PlaceInv'
    <3>1. \A u \in Snapshots : Unused(u)' =>
            /\ snapshot'[u].answers = 0 /\ snapshot'[u].live = FALSE
            /\ \A i \in States : session'[i].snap # u
            /\ \A r \in Requests : hand'[r] # u
      BY <1>1, <2>4, <2>5, <2>7 DEF SnapshotInv, PlaceInv
    <3>2. \A i \in States : session'[i].snap # None =>
            /\ snapshot'[session'[i].snap].answers = 0
            /\ \A j \in States : session'[j].snap = session'[i].snap => j = i
            /\ \A r \in Requests : hand'[r] # session'[i].snap
      <4> SUFFICES ASSUME NEW i \in States, session'[i].snap # None
                   PROVE  /\ snapshot'[session'[i].snap].answers = 0
                          /\ \A j \in States : session'[j].snap = session'[i].snap => j = i
                          /\ \A r \in Requests : hand'[r] # session'[i].snap
        OBVIOUS
      <4>1. CASE i = gui.st
        BY <1>1, <2>4, <2>5, <2>6, <4>1
      <4>2. CASE i # gui.st
        <5>1. session'[i].snap = session[i].snap /\ session[i].snap \in Snapshots
          BY <2>4, <4>2 DEF ShapeInv, SessionRecord
        <5> QED
          BY <1>1, <2>4, <2>5, <2>6, <5>1 DEF SnapshotInv, PlaceInv
      <4> QED
        BY <4>1, <4>2
    <3>3. \A r \in Requests : hand[r] # None => hand[r] \in Snapshots /\ hand[r] # s
      BY <2>6 DEF ShapeInv
    <3>4. \A r \in Requests : hand'[r] # None =>
            /\ snapshot'[hand'[r]].answers = 0
            /\ \A q \in Requests : hand'[q] = hand'[r] => q = r
            /\ producer'[r] = "running"
      BY <1>1, <2>5, <3>3 DEF SnapshotInv, PlaceInv
    <3> QED
      BY <3>1, <3>2, <3>4 DEF PlaceInv
  <2>9. AskedInv' /\ OpenInv'
    BY <1>1, <1>2 DEF SnapshotInv, AskedInv, OpenInv
  <2>10. OnceInv'
    BY <2>5, <2>6 DEF SnapshotInv, OnceInv
  <2>11. OwedInv'
    <3> SUFFICES ASSUME NEW u \in Snapshots, snapshot'[u].live, snapshot'[u].answers # 1
                 PROVE  /\ snapshot'[u].gate = rec
                        /\ \/ /\ rpc \in Working
                              /\ session'[state].snap = u \/ hand[rec] = u
                           \/ /\ rpc = "unserved" /\ producer[rec] = "exited"
                              /\ session'[state].snap = u
      BY <1>1 DEF OwedInv
    <3>1. CASE u = s
      <4>1. recording /\ gui.gate = rec
        BY <2>5, <3>1
      <4>2. rpc \in Working
        BY <4>1 DEF FlowInv, Working
      <4> QED
        BY <2>3, <2>4, <2>5, <3>1, <4>1, <4>2
    <3>2. CASE u # s
      <4>1. snapshot[u].live /\ snapshot[u].answers # 1 /\ snapshot'[u] = snapshot[u]
        BY <2>5, <3>2
      <4>2. state \in States /\ u # None
        BY BoundStates DEF Snapshots, None
      <4>3. session[state].snap = u => state # gui.st /\ session'[state].snap = u
        BY <1>4, <2>4, <4>2
      <4> QED
        BY <4>1, <4>3 DEF SnapshotInv, OwedInv
    <3> QED
      BY <3>1, <3>2
  <2> QED
    BY <2>8, <2>9, <2>10, <2>11 DEF SnapshotInv
<1> QED
  BY <1>3, <1>4

\* The steps that write no snapshot into a state leave the ones that are there.
LEMMA SnapKept ==
  ASSUME CallbackInv, LeakInv, FlowInv, CurrentInv, ShapeInv, [Next]_vars,
         ~SnapshotSet, ~TakeOver, ~AnswerUnserved, ~AnswerLate,
         \A r \in Requests : ~TakeSnapshot(r)
  PROVE  \A i \in States : session'[i].snap = session[i].snap
<1>1. state \in States /\ \A r \in Requests : bound[r] \in States
  BY BoundStates
<1>2. gui.st \in States
  BY DEF ShapeInv
<1>3. \A i \in States : Failed(session[i]).snap = session[i].snap
  BY FailedRecord DEF ShapeInv
<1>4. CASE StopSignal
  BY <1>2, <1>4 DEF StopSignal, ShapeInv, SessionRecord
<1>5. CASE (GuiThread /\ ~StopSignal) \/ User
  <2>1. \/ UNCHANGED session
        \/ \E b \in BOOLEAN : session' = [session EXCEPT ![gui.st].pause = b]
    BY <1>5 DEF User, StartRecording, StopRecording, CancelPreparing, PauseRecording,
           ResumeRecording, CaptureFrame, GuiThread, StopAnnounce, StopLocked,
           CancelRequest, CancelLook, Pause, Resume, PauseLocked, PauseSet, SnapshotLocked
  <2> QED
    BY <1>2, <2>1 DEF ShapeInv, SessionRecord
<1>6. CASE RecordingThread
  <2>1. \/ UNCHANGED session
        \/ rpc \in Owned /\ session' = [session EXCEPT ![bound[rec]] = Failed(@)]
    BY <1>6 DEF RecordingThread, PrepareFails, Checkpoint, Commit, Recheck,
           AnnounceRecording, ValidateFails, SourcesFail, StartWorkers, JoinProducers,
           JoinFails, JoinMux, PollMux, EndRecording, MarkLeak, CloseGate, DrainGate,
           BuildResult, Attribute, ClearRequest, RecordReturned, Finish, Owned, Live
  <2>2. rpc \in Owned => bound[rec] \in States
    BY <1>1, OwnedCall
  <2> QED
    BY <1>3, <2>1, <2>2 DEF ShapeInv
<1>7. ASSUME NEW r \in Requests, Workers(r)
      PROVE  \A i \in States : session'[i].snap = session[i].snap
  <2>1. \/ UNCHANGED session
        \/ session' = [session EXCEPT ![bound[r]].captured = TRUE]
        \/ session' = [session EXCEPT ![bound[r]].source_loss = TRUE, ![bound[r]].stop = TRUE]
        \/ session' = [session EXCEPT ![bound[r]] = Failed(@)]
        \/ session' = [session EXCEPT ![bound[r]].bytes = @ + 1]
    BY <1>7 DEF Workers, Capture, ServeSnapshot, ProducerEnds, Write, InvokeLook,
           InvokeLocked, InvokeReturn, MuxEnds
  <2>2. CASE session' = [session EXCEPT ![bound[r]] = Failed(@)]
    BY <1>1, <1>3, <2>2 DEF ShapeInv
  <2> QED
    BY <1>1, <2>1, <2>2 DEF ShapeInv, SessionRecord
<1>8. CASE UNCHANGED vars
  BY <1>8 DEF vars
<1> QED
  BY <1>4, <1>5, <1>6, <1>7, <1>8 DEF Next, Idle

LEMMA SnapshotUserGui ==
  ASSUME CallbackInv, LeakInv, FlowInv, CurrentInv, ShapeInv, SnapshotInv,
         User \/ GuiThread, ~SnapshotSet, [Next]_vars
  PROVE  SnapshotInv'
<1>1. /\ UNCHANGED <<snapshot, hand, rec, state, gate_open, producer>>
      /\ rpc' = rpc \/ (rpc = "idle" /\ rpc' = "prepare")
  BY DEF User, StartRecording, StopRecording, CancelPreparing, PauseRecording,
         ResumeRecording, CaptureFrame, GuiThread, StopAnnounce, StopLocked, StopSignal,
         CancelRequest, CancelLook, Pause, Resume, PauseLocked, PauseSet, SnapshotLocked,
         locals, impl, workers, CallbackInv, StartInv
<1>2. ~TakeOver /\ ~AnswerUnserved /\ ~AnswerLate /\ \A r \in Requests : ~TakeSnapshot(r)
  BY <1>1 DEF TakeOver, AnswerUnserved, AnswerLate, TakeSnapshot, ShapeInv
<1>3. \A i \in States : session'[i].snap = session[i].snap
  BY <1>2, SnapKept
<1>4. gui'.step = "snap_set" =>
        \/ gui' = gui
        \/ gui' = [step |-> "snap_set", st |-> state, gate |-> rec] /\ rec # None
  <2>1. Resting.step = "idle"
    BY DEF Resting
  <2>2. CASE SnapshotLocked
    BY <2>1, <2>2 DEF SnapshotLocked
  <2>3. CASE ~SnapshotLocked
    BY <2>1, <2>3, GuiMoves DEF User, GuiThread, StartRecording
  <2> QED
    BY <2>2, <2>3
<1>5. gui'.step = "snap_set" => rec \in Requests
  <2>1. gui' = gui /\ gui.step = "snap_set" => rec # None
    BY DEF SnapshotInv, AskedInv, Requests, None
  <2> QED
    BY <1>4, <2>1 DEF CurrentInv
<1> QED
  BY <1>1, <1>3, <1>4, <1>5, SnapshotQuiet, BoundStates DEF CurrentInv, Live, Working

LEMMA SnapshotTakeOver ==
  ASSUME CallbackInv, LeakInv, CurrentInv, CurrentInv', ShapeInv, SnapshotInv, TakeOver
  PROVE  SnapshotInv'
<1>1. /\ rpc = "record" /\ rpc' = "sources"
      /\ rec' = record_request
      /\ gate_open' = [gate_open EXCEPT ![record_request] = TRUE]
      /\ UNCHANGED <<snapshot, hand, producer, gui>>
  BY DEF TakeOver, workers
<1>2. /\ rec' \in Requests /\ state' \in States
      /\ session'[state'].snap = None
      /\ \A i \in States : i # state' => session'[i] = session[i]
  BY TakeOverSession
<1>3. rec < rec' /\ rec \in Nat /\ rec' \in Nat
  BY <1>1 DEF CallbackInv, OrderInv, Before
<1>4. \A i \in States : session'[i].snap # None => session'[i].snap = session[i].snap
  BY <1>2
<1>5. PlaceInv'
  <2>1. \A s \in Snapshots : s # None
    BY DEF Snapshots, None
  <2> QED
    BY <1>1, <1>4, <2>1 DEF SnapshotInv, PlaceInv, Unused
<1>6. AskedInv' /\ OnceInv'
  BY <1>1, <1>3 DEF SnapshotInv, AskedInv, OnceInv, Requests
<1>7. OpenInv'
  BY <1>1, <1>2 DEF OpenInv, CallbackInv, FunctionInv
<1>8. OwedInv'
  BY <1>1 DEF SnapshotInv, OwedInv, Working
<1> QED
  BY <1>5, <1>6, <1>7, <1>8 DEF SnapshotInv

\* A call that gives its producers up owes their snapshots nothing; otherwise they have
\* ended, and a snapshot that is still owed is where Record() looks for it.
LEMMA SnapshotMarkLeak ==
  ASSUME CallbackInv, LeakInv, CurrentInv, ShapeInv, SnapshotInv, MarkLeak
  PROVE  SnapshotInv'
<1>1. /\ rpc = "leak" /\ rpc' = "unserved"
      /\ snapshot' = [s \in Snapshots |->
                       IF snapshot[s].gate = rec /\ ~video_joined
                       THEN [snapshot[s] EXCEPT !.live = FALSE] ELSE snapshot[s]]
      /\ UNCHANGED <<session, hand, producer, gui, rec, state, gate_open>>
  BY DEF MarkLeak, EndUnchanged, locals, workers
<1>2. \A s \in Snapshots :
        /\ snapshot'[s].gate = snapshot[s].gate /\ snapshot'[s].answers = snapshot[s].answers
        /\ \/ snapshot'[s].live = FALSE
           \/ /\ snapshot'[s].live = snapshot[s].live
              /\ snapshot[s].gate = rec => video_joined
  BY <1>1 DEF ShapeInv, SnapshotRecord
<1>3. rec \in Requests
  BY <1>1 DEF CallbackInv, OrderInv, Live
<1>4. PlaceInv'
  <2>1. \A i \in States : session[i].snap # None => session[i].snap \in Snapshots
    BY DEF ShapeInv, SessionRecord
  <2>2. \A r \in Requests : hand[r] # None => hand[r] \in Snapshots
    BY DEF ShapeInv
  <2>3. \A s \in Snapshots : Unused(s)' => Unused(s) /\ snapshot'[s].live = FALSE
    BY <1>2 DEF Unused, SnapshotInv, PlaceInv
  <2> QED
    BY <1>1, <1>2, <2>1, <2>2, <2>3 DEF SnapshotInv, PlaceInv
<1>5. AskedInv' /\ OpenInv'
  BY <1>1 DEF SnapshotInv, AskedInv, OpenInv, Live
<1>6. OnceInv'
  BY <1>2 DEF SnapshotInv, OnceInv
<1>7. OwedInv'
  <2> SUFFICES ASSUME NEW s \in Snapshots, snapshot'[s].live, snapshot'[s].answers # 1
               PROVE  /\ snapshot[s].gate = rec /\ producer[rec] = "exited"
                      /\ session[state].snap = s
    BY <1>1, <1>2 DEF OwedInv
  <2>1. snapshot[s].live /\ snapshot[s].answers # 1 /\ snapshot[s].gate = rec
    BY <1>2 DEF SnapshotInv, OwedInv
  <2>2. producer[rec] = "exited"
    BY <1>1, <1>2, <2>1 DEF LeakInv, JoinedInv, Working
  <2>3. hand[rec] # s
    BY <1>3, <2>2 DEF SnapshotInv, PlaceInv, Snapshots, None
  <2> QED
    BY <1>1, <2>1, <2>2, <2>3 DEF SnapshotInv, OwedInv
<1> QED
  BY <1>4, <1>5, <1>6, <1>7 DEF SnapshotInv

LEMMA SnapshotThread ==
  ASSUME CallbackInv, LeakInv, FlowInv, CurrentInv, CurrentInv', ShapeInv, SnapshotInv,
         RecordingThread, [Next]_vars
  PROVE  SnapshotInv'
<1>1. CASE TakeOver \/ MarkLeak
  BY <1>1, SnapshotTakeOver, SnapshotMarkLeak
<1>2. CASE AnswerUnserved \/ AnswerLate
  <2>1. /\ rpc \in {"unserved", "late_snapshot"} /\ rpc' \in {"close", "outcome"} /\ FailSnapshot
        /\ UNCHANGED <<hand, producer, rec, state, gate_open, gui>>
        /\ rpc' = "close" => rpc = "unserved"
    BY <1>2 DEF AnswerUnserved, AnswerLate, EndUnchanged, locals, workers
  <2>2. rec \in Requests
    BY <2>1, OwnedCall DEF Owned, Live
  <2> QED
    BY <2>1, <2>2, SnapshotAnswered DEF Live
<1>3. CASE CloseGate
  <2>1. /\ rpc = "close" /\ rpc' = "drain"
        /\ UNCHANGED <<session, snapshot, hand, producer, gui, rec, state>>
    BY <1>3 DEF CloseGate, EndUnchanged, locals, workers
  <2>2. PlaceInv' /\ AskedInv' /\ OnceInv' /\ OpenInv'
    BY <2>1 DEF SnapshotInv, PlaceInv, AskedInv, OnceInv, OpenInv, Unused
  <2>3. OwedInv'
    BY <2>1 DEF SnapshotInv, OwedInv, Working
  <2> QED
    BY <2>2, <2>3 DEF SnapshotInv
<1>4. CASE StartWorkers
  <2>1. /\ rpc = "sources" /\ rpc' = "producers"
        /\ producer' = [producer EXCEPT ![rec] = "running"]
        /\ UNCHANGED <<session, snapshot, hand, gui, rec, state, gate_open>>
    BY <1>4 DEF StartWorkers
  <2>2. rec \in Requests /\ rec # None /\ producer[rec] = "none" /\ hand[rec] = None
    <3>1. rec \in Requests /\ producer[rec] = "none"
      BY <2>1 DEF CallbackInv, OrderInv, LeakInv, ProducerInv, Live
    <3> QED
      BY <3>1 DEF SnapshotInv, PlaceInv, Requests, None
  <2>3. \A r \in Requests : /\ producer[r] = "exited" => producer'[r] = "exited"
                            /\ hand[r] # None => producer'[r] = producer[r]
    BY <2>1, <2>2 DEF LeakInv, ProducerInv
  <2> QED
    BY <2>1, <2>2, <2>3, SnapshotQuiet, BoundStates DEF CurrentInv, Live, Working
<1>5. CASE ~(TakeOver \/ MarkLeak \/ AnswerUnserved \/ AnswerLate \/ CloseGate \/ StartWorkers)
  <2>1. UNCHANGED <<snapshot, hand, rec, state, gate_open, producer, gui>>
    BY <1>5 DEF RecordingThread, PrepareFails, Checkpoint, Commit, Recheck,
         AnnounceRecording, ValidateFails, SourcesFail, JoinProducers, JoinFails, JoinMux,
         PollMux, JoinUnchanged, EndRecording,
         DrainGate, BuildResult, Attribute, EndUnchanged, ClearRequest,
         RecordReturned, Finish, impl, locals, workers
  <2>2. /\ rpc' \in Live \ {"drain"} => rpc \in Live \ {"drain"}
        /\ rpc \in Working => rpc' \in Working
        /\ rpc = "unserved" => rpc' = "unserved"
    BY <1>5 DEF RecordingThread, PrepareFails, Checkpoint, CancelUnwind, Commit, Recheck,
         AnnounceRecording, ValidateFails, SourcesFail, JoinProducers, JoinFails, JoinMux,
         PollMux, EndRecording,
         DrainGate, BuildResult, Attribute, ClearRequest,
         RecordReturned, Finish, Live, Working
  <2>3. ~SnapshotSet /\ \A r \in Requests : ~TakeSnapshot(r)
    <3>1. Resting.step = "idle"
      BY DEF Resting
    <3> QED
      BY <2>1, <3>1 DEF SnapshotSet, TakeSnapshot, ShapeInv
  <2>4. \A i \in States : session'[i].snap = session[i].snap
    BY <1>5, <2>3, SnapKept
  <2>5. gui'.step = "snap_set" => rec \in Requests
    BY <2>1 DEF SnapshotInv, AskedInv, CurrentInv, Requests, None
  <2> QED
    BY <2>1, <2>2, <2>4, <2>5, SnapshotQuiet, BoundStates DEF CurrentInv
<1> QED
  BY <1>1, <1>2, <1>3, <1>4, <1>5

\* A worker takes a snapshot out of its own state, so one that is owed is only ever
\* taken by the worker that Record() waits for.
LEMMA SnapshotTaken ==
  ASSUME CallbackInv, LeakInv, CurrentInv, ShapeInv, SnapshotInv,
         NEW r \in Requests, TakeSnapshot(r)
  PROVE  SnapshotInv'
<1> DEFINE b == bound[r]
           t == session[b].snap
<1>1. /\ producer[r] = "running" /\ hand[r] = None /\ t # None
      /\ hand' = [hand EXCEPT ![r] = t]
      /\ session' = [session EXCEPT ![b].snap = None]
      /\ UNCHANGED <<snapshot, producer, gui, rpc, rec, state, gate_open>>
  BY DEF TakeSnapshot, Mine, WorkerUnchanged, locals, impl
<1>2. b \in States /\ state \in States /\ t \in Snapshots
  <2>1. b \in States /\ state \in States
    BY BoundStates
  <2> QED
    BY <1>1, <2>1 DEF ShapeInv, SessionRecord
<1>3. /\ session'[b].snap = None
      /\ \A i \in States : i # b => session'[i].snap = session[i].snap
  BY <1>1, <1>2 DEF ShapeInv, SessionRecord
<1>4. hand'[r] = t /\ \A q \in Requests : q # r => hand'[q] = hand[q]
  BY <1>1 DEF ShapeInv
<1>5. /\ snapshot[t].answers = 0
      /\ \A j \in States : session[j].snap = t => j = b
      /\ \A q \in Requests : hand[q] # t
  BY <1>1, <1>2 DEF SnapshotInv, PlaceInv
<1>6. ~Unused(t)
  BY <1>2 DEF SnapshotInv, PlaceInv
<1> HIDE DEF t, b
<1>7. PlaceInv'
  <2>1. \A s \in Snapshots : Unused(s)' =>
          /\ snapshot'[s].answers = 0 /\ snapshot'[s].live = FALSE
          /\ \A i \in States : session'[i].snap # s
          /\ \A q \in Requests : hand'[q] # s
    <3>1. \A s \in Snapshots : s # None
      BY DEF Snapshots, None
    <3> QED
      BY <1>1, <1>3, <1>4, <1>6, <3>1 DEF SnapshotInv, PlaceInv, Unused
  <2>2. \A i \in States : session'[i].snap # None =>
          i # b /\ session'[i].snap = session[i].snap /\ session[i].snap # t
    BY <1>3, <1>5
  <2>3. \A i \in States : session'[i].snap # None =>
          /\ snapshot'[session'[i].snap].answers = 0
          /\ \A j \in States : session'[j].snap = session'[i].snap => j = i
          /\ \A q \in Requests : hand'[q] # session'[i].snap
    BY <1>1, <1>3, <1>4, <2>2 DEF SnapshotInv, PlaceInv
  <2>4. \A p \in Requests : hand'[p] # None =>
          /\ snapshot'[hand'[p]].answers = 0
          /\ \A q \in Requests : hand'[q] = hand'[p] => q = p
          /\ producer'[p] = "running"
    BY <1>1, <1>4, <1>5 DEF SnapshotInv, PlaceInv
  <2> QED
    BY <2>1, <2>3, <2>4 DEF PlaceInv
<1>8. AskedInv' /\ OpenInv' /\ OnceInv'
  BY <1>1 DEF SnapshotInv, AskedInv, OpenInv, OnceInv
<1>9. OwedInv'
  <2> SUFFICES ASSUME NEW s \in Snapshots, snapshot[s].live, snapshot[s].answers # 1
               PROVE  /\ snapshot[s].gate = rec
                      /\ \/ /\ rpc \in Working
                            /\ session'[state].snap = s \/ hand'[rec] = s
                         \/ /\ rpc = "unserved" /\ producer[rec] = "exited"
                            /\ session'[state].snap = s
    BY <1>1 DEF OwedInv
  <2>1. /\ snapshot[s].gate = rec
        /\ \/ /\ rpc \in Working
              /\ session[state].snap = s \/ hand[rec] = s
           \/ /\ rpc = "unserved" /\ producer[rec] = "exited"
              /\ session[state].snap = s
    BY DEF SnapshotInv, OwedInv
  <2>2. rec \in Requests /\ gate_open[rec]
    BY <2>1 DEF SnapshotInv, OpenInv, CallbackInv, OrderInv, Live, Working
  <2>3. CASE s = t
    <3>1. session[state].snap = t /\ b = state
      BY <1>2, <1>5, <2>1, <2>2, <2>3
    <3>2. ~(r < rec)
      BY <1>1, <2>2, <3>1 DEF LeakInv, AbandonedKeepTheirState, CurrentInv, Requests, None, b
    <3>3. ~(r > rec)
      BY <1>1 DEF LeakInv, ProducerInv
    <3>4. r = rec
      BY <2>2, <3>2, <3>3 DEF Requests
    <3> QED
      BY <1>1, <1>4, <2>1, <2>3, <3>4
  <2>4. CASE s # t
    <3>1. session[state].snap = s => session'[state].snap = s
      BY <1>2, <1>3, <2>4 DEF t
    <3>2. hand[rec] = s => hand'[rec] = s
      BY <1>1, <1>4, <2>2 DEF Snapshots, None
    <3> QED
      BY <2>1, <3>1, <3>2
  <2> QED
    BY <2>3, <2>4
<1> QED
  BY <1>7, <1>8, <1>9 DEF SnapshotInv

LEMMA SnapshotServed ==
  ASSUME CallbackInv, LeakInv, CurrentInv, ShapeInv, SnapshotInv,
         NEW r \in Requests, ServeSnapshot(r)
  PROVE  SnapshotInv'
<1> DEFINE t == hand[r]
<1>1. /\ t # None /\ Answer(t)
      /\ hand' = [hand EXCEPT ![r] = None]
      /\ UNCHANGED <<session, producer, gui, rpc, rec, state, gate_open>>
  BY DEF ServeSnapshot, WorkerUnchanged, locals, impl
<1>2. t \in Snapshots
  BY <1>1 DEF ShapeInv
<1>3. hand'[r] = None /\ \A q \in Requests : q # r => hand'[q] = hand[q]
  BY <1>1 DEF ShapeInv
<1>4. \A s \in Snapshots : /\ snapshot'[s].gate = snapshot[s].gate
                           /\ snapshot'[s].live = snapshot[s].live
                           /\ s # t => snapshot'[s] = snapshot[s]
  BY <1>1, <1>2, AnswerShape
<1>5. /\ snapshot[t].answers = 0 /\ ~Unused(t)
      /\ \A i \in States : session[i].snap # t
      /\ \A q \in Requests : hand[q] = t => q = r
  BY <1>1, <1>2 DEF SnapshotInv, PlaceInv
<1>6. /\ snapshot'[t].answers \in {0, 1}
      /\ gate_open[snapshot[t].gate] => snapshot'[t].answers = 1
  <2>1. CASE gate_open[snapshot[t].gate]
    <3>1. snapshot' = [snapshot EXCEPT ![t].answers = @ + 1]
      BY <1>1, <2>1 DEF Answer
    <3> QED
      BY <1>2, <1>5, <3>1 DEF ShapeInv, SnapshotRecord
  <2>2. CASE ~gate_open[snapshot[t].gate]
    BY <1>1, <1>5, <2>2 DEF Answer
  <2> QED
    BY <2>1, <2>2
<1> HIDE DEF t
<1>7. PlaceInv'
  <2>1. \A s \in Snapshots : Unused(s)' => Unused(s) /\ s # t
    BY <1>4, <1>5 DEF Unused
  <2>2. \A s \in Snapshots : Unused(s)' =>
          /\ snapshot'[s].answers = 0 /\ snapshot'[s].live = FALSE
          /\ \A i \in States : session'[i].snap # s
          /\ \A q \in Requests : hand'[q] # s
    <3>1. \A s \in Snapshots : s # None
      BY DEF Snapshots, None
    <3> QED
      BY <1>1, <1>3, <1>4, <2>1, <3>1 DEF SnapshotInv, PlaceInv
  <2>3. \A i \in States : session[i].snap # None =>
          session[i].snap \in Snapshots /\ session[i].snap # t
    BY <1>5 DEF ShapeInv, SessionRecord
  <2>4. \A i \in States : session'[i].snap # None =>
          /\ snapshot'[session'[i].snap].answers = 0
          /\ \A j \in States : session'[j].snap = session'[i].snap => j = i
          /\ \A q \in Requests : hand'[q] # session'[i].snap
    BY <1>1, <1>3, <1>4, <2>3 DEF SnapshotInv, PlaceInv
  <2>5. \A p \in Requests : hand'[p] # None =>
          p # r /\ hand'[p] = hand[p] /\ hand[p] \in Snapshots /\ hand[p] # t
    BY <1>3, <1>5 DEF ShapeInv
  <2>6. \A p \in Requests : hand'[p] # None =>
          /\ snapshot'[hand'[p]].answers = 0
          /\ \A q \in Requests : hand'[q] = hand'[p] => q = p
          /\ producer'[p] = "running"
    BY <1>1, <1>3, <1>4, <2>5 DEF SnapshotInv, PlaceInv
  <2> QED
    BY <2>2, <2>4, <2>6 DEF PlaceInv
<1>8. AskedInv' /\ OpenInv'
  BY <1>1 DEF SnapshotInv, AskedInv, OpenInv
<1>9. OnceInv'
  BY <1>4, <1>6 DEF SnapshotInv, OnceInv
<1>10. OwedInv'
  <2> SUFFICES ASSUME NEW s \in Snapshots, snapshot'[s].live, snapshot'[s].answers # 1
               PROVE  /\ snapshot[s].gate = rec
                      /\ \/ /\ rpc \in Working
                            /\ session[state].snap = s \/ hand'[rec] = s
                         \/ /\ rpc = "unserved" /\ producer[rec] = "exited"
                            /\ session[state].snap = s
    BY <1>1, <1>4 DEF OwedInv
  <2>1. snapshot[s].live /\ snapshot[s].answers # 1
    BY <1>4, <1>5
  <2>2. /\ snapshot[s].gate = rec
        /\ \/ /\ rpc \in Working
              /\ session[state].snap = s \/ hand[rec] = s
           \/ /\ rpc = "unserved" /\ producer[rec] = "exited"
              /\ session[state].snap = s
    BY <2>1 DEF SnapshotInv, OwedInv
  <2>3. rec \in Requests /\ gate_open[rec]
    BY <2>2 DEF SnapshotInv, OpenInv, CallbackInv, OrderInv, Live, Working
  <2>4. s # t
    BY <1>6, <2>2, <2>3
  <2>5. hand[rec] = s => hand'[rec] = s
    BY <1>3, <2>3, <2>4 DEF t
  <2> QED
    BY <2>2, <2>5
<1> QED
  BY <1>7, <1>8, <1>9, <1>10 DEF SnapshotInv

LEMMA NextSnapshot ==
  ASSUME CallbackInv, LeakInv, StopInv, CurrentInv', SnapshotInv, [Next]_vars
  PROVE  SnapshotInv'
<1> USE DEF StopInv
<1>1. CASE User \/ GuiThread
  BY <1>1, SnapshotAsked, SnapshotUserGui
<1>2. CASE RecordingThread
  BY <1>2, SnapshotThread
<1>3. ASSUME NEW r \in Requests, Workers(r), ~TakeSnapshot(r), ~ServeSnapshot(r)
      PROVE  SnapshotInv'
  <2>1. /\ UNCHANGED <<snapshot, hand, rec, state, gate_open, gui, rpc>>
        /\ \/ UNCHANGED producer
           \/ hand[r] = None /\ producer' = [producer EXCEPT ![r] = "exited"]
    BY <1>3 DEF Workers, Capture, ProducerEnds, Write, InvokeLook, InvokeLocked,
           InvokeReturn, MuxEnds, WorkerUnchanged, workers, impl, locals
  <2>2. \A q \in Requests : /\ producer[q] = "exited" => producer'[q] = "exited"
                            /\ hand[q] # None => producer'[q] = producer[q]
    BY <2>1 DEF LeakInv, ProducerInv
  <2>3. /\ ~SnapshotSet /\ ~TakeOver /\ ~AnswerUnserved /\ ~AnswerLate
        /\ \A q \in Requests : ~TakeSnapshot(q)
    <3>1. Resting.step = "idle"
      BY DEF Resting
    <3> QED
      BY <2>1, <3>1 DEF SnapshotSet, TakeOver, AnswerUnserved, AnswerLate, TakeSnapshot,
                        ShapeInv
  <2>4. \A i \in States : session'[i].snap = session[i].snap
    BY <2>3, SnapKept
  <2>5. gui'.step = "snap_set" => rec \in Requests
    BY <2>1 DEF SnapshotInv, AskedInv, CurrentInv, Requests, None
  <2> QED
    BY <2>1, <2>2, <2>4, <2>5, SnapshotQuiet, BoundStates DEF CurrentInv
<1>4. CASE UNCHANGED vars
  <2>1. UNCHANGED <<snapshot, hand, rec, state, gate_open, gui, rpc, producer, session>>
    BY <1>4 DEF vars, workers, impl, locals
  <2>2. gui'.step = "snap_set" => rec \in Requests
    BY <2>1 DEF SnapshotInv, AskedInv, CurrentInv, Requests, None
  <2> QED
    BY <2>1, <2>2, SnapshotQuiet, BoundStates DEF CurrentInv
<1> QED
  BY <1>1, <1>2, <1>3, <1>4, SnapshotTaken, SnapshotServed DEF Next, Idle

\* Every snapshot is answered at most once, and one that Record() accepted while its
\* workers ran has been answered when Record() is over, unless its worker was given up.
THEOREM SnapshotsAreAnswered == Spec => []SnapshotsAnswered
<1>1. CallbackInv /\ SnapshotInv => SnapshotsAnswered
  <2> SUFFICES ASSUME CallbackInv, SnapshotInv, NEW s \in Snapshots
               PROVE  /\ snapshot[s].answers <= 1
                      /\ snapshot[s].live /\ Over(snapshot[s].gate) => snapshot[s].answers = 1
    BY DEF SnapshotsAnswered
  <2>1. snapshot[s].live /\ snapshot[s].answers # 1 => ~Over(snapshot[s].gate)
    BY DEF SnapshotInv, OwedInv, Over, Working, CallbackInv, OrderInv
  <2> QED
    BY <2>1 DEF SnapshotInv, OnceInv
<1>2. StopInv => CurrentInv
  BY DEF StopInv
<1> QED
  BY InitCallback, NextCallback, InitLeak, NextLeak, InitStop, NextStop, InitSnapshot,
     NextSnapshot, <1>1, <1>2, PTL DEF Spec
=============================================================================
