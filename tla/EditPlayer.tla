----------------------------- MODULE EditPlayer -----------------------------
(***************************************************************************)
(* The Edit page's player: the adapter on the GUI thread, the worker that  *)
(* receives its queued calls and ticks, the session the worker drives, and *)
(* the threads the session starts: one scrub seek, or the demux, video and *)
(* audio threads of a playback run together with the render thread of the  *)
(* audio endpoint.                                                         *)
(*                                                                         *)
(* Media time is in units of one packet.  The clip has one keyframe, at 0. *)
(* A worker call is a program: `worker.pc' is where it is, `worker.then'   *)
(* what it does after the Pause or the seek it contains.                   *)
(*                                                                         *)
(* Bounds: MaxOps (user operations), MaxFaults (failures of the endpoint,  *)
(* a resampler or a decode thread), MaxPending (unhandled worker signals). *)
(***************************************************************************)
EXTENDS Integers, Sequences, FiniteSets

CONSTANTS
    Clip,        \* the container: a sequence of packets [s : {"v", "a"}, t : 0..Total]
    Total,       \* the clip's duration
    ReadAhead,   \* kDemuxReadAheadUs
    Soft, Hard, LowWater,  \* kPacketQueueLimits
    RingCap,     \* ring_capacity_floats_
    MaxOps, MaxFaults, MaxPending

ASSUME EditPlayerAssumption ==
    /\ Total \in Nat \ {0}
    /\ Clip \in Seq([s : {"v", "a"}, t : 0..Total])
    /\ ReadAhead \in Nat \ {0} /\ RingCap \in Nat \ {0}
    /\ Soft \in Nat \ {0} /\ Hard \in Nat \ {0} /\ Soft <= Hard /\ LowWater \in Nat
    /\ MaxOps \in Nat /\ MaxFaults \in Nat /\ MaxPending \in Nat \ {0}

VARIABLES
    ui,       \* EditPlayerAdapter and the playhead of EditSessionAdapter
    calls,    \* calls queued to the worker thread
    events,   \* signals queued to the GUI thread
    worker,   \* EditPlayerWorker
    session,  \* EditPlayerSession
    seek,     \* the scrub seek thread
    cancel,   \* playback_cancel
    demux, video, audio,   \* the playback threads
    vq, aq,   \* their packet queues
    render,   \* WasapiAudioRenderer and its thread
    item,     \* the scene-graph item: presentation gate and mailbox
    budget    \* operations and faults spent

vars == <<ui, calls, events, worker, session, seek, cancel, demux, video, audio, vq, aq, render, item, budget>>
engineVars == <<cancel, demux, video, audio, vq, aq>>

NoClock == -1
Times == 0..Total

Least(a, b) == IF a < b THEN a ELSE b

NewQueue == [packets |-> <<>>, eos |-> FALSE, aborted |-> FALSE, gone |-> FALSE]
IdleDemux == [pc |-> "done", next |-> 1, v |-> NoClock, a |-> NoClock, withAudio |-> FALSE]
Done == [pc |-> "done", pts |-> 0]
Closed == [open |-> FALSE, audio |-> FALSE, playing |-> FALSE, start |-> 0, clock |-> NoClock]
Silent == [running |-> FALSE, live |-> FALSE, stop |-> FALSE, ring |-> 0, played |-> 0, latched |-> 0]

Init ==
    /\ ui = [playing |-> FALSE, clip |-> FALSE, duration |-> 0, resume |-> FALSE, scrubbing |-> FALSE, pos |-> 0]
    /\ calls = <<>> /\ events = <<>>
    /\ worker = [pc |-> "idle", then |-> "none", arg |-> 0, timer |-> FALSE, pos |-> 0]
    /\ session = Closed
    /\ seek = [pc |-> "done", target |-> 0, superseded |-> FALSE]
    /\ cancel = FALSE /\ demux = IdleDemux /\ video = Done /\ audio = Done
    /\ vq = NewQueue /\ aq = NewQueue
    /\ render = Silent
    /\ item = [clock |-> NoClock, filled |-> FALSE]
    /\ budget = [ops |-> 0, faults |-> 0]

-----------------------------------------------------------------------------
(* The GUI thread.  Every call to the worker is queued.                      *)

Op ==
    /\ budget.ops < MaxOps
    /\ budget' = [budget EXCEPT !.ops = @ + 1]
    /\ UNCHANGED <<events, worker, session, seek, engineVars, render>>

Call(op, arg) == [op |-> op, arg |-> arg]

OpenClip ==
    /\ Op
    /\ ui' = [ui EXCEPT !.playing = FALSE, !.duration = Total, !.pos = 0]
    /\ item' = [clock |-> NoClock, filled |-> FALSE]
    /\ calls' = Append(calls, Call("open", 0))

CloseClip ==
    /\ Op
    /\ ui.duration > 0
    /\ ui' = [ui EXCEPT !.playing = FALSE, !.clip = FALSE, !.duration = 0, !.pos = 0]
    /\ item' = [clock |-> NoClock, filled |-> FALSE]
    /\ calls' = Append(calls, Call("close", 0))

\* setPlaying: refused without a clip of known duration.
SetPlaying(u, p) == IF p /\ (u.duration = 0 \/ ~u.clip) THEN u ELSE [u EXCEPT !.playing = p]

PlayingCalls(u, p) ==
    IF SetPlaying(u, p).playing = u.playing THEN <<>>
    ELSE IF p THEN <<Call("play", u.pos)>> ELSE <<Call("pause", 0)>>

TogglePlay ==
    /\ Op
    /\ ui.playing \/ (ui.duration > 0 /\ ui.clip)
    /\ ui' = SetPlaying(ui, ~ui.playing)
    /\ calls' = calls \o PlayingCalls(ui, ~ui.playing)
    /\ UNCHANGED item

\* The arrow, Home and End keys and every move of a drag: the playhead jumps
\* and the seek is posted, whatever the player is doing.
RequestSeek(t) ==
    /\ Op
    /\ ui.duration > 0
    /\ ui' = [ui EXCEPT !.pos = t]
    /\ calls' = Append(calls, Call("seek", t))
    /\ UNCHANGED item

\* A press on the track: beginScrub, then requestSeek, in one event.
PressTrack(t) ==
    /\ Op
    /\ ui.duration > 0 /\ ~ui.scrubbing
    /\ ui' = [SetPlaying(ui, FALSE) EXCEPT !.resume = ui.playing, !.scrubbing = TRUE, !.pos = t]
    /\ calls' = (calls \o PlayingCalls(ui, FALSE)) \o <<Call("seek", t)>>
    /\ UNCHANGED item

ReleaseTrack ==
    /\ Op
    /\ ui.scrubbing
    /\ ui' = [(IF ui.resume THEN SetPlaying(ui, TRUE) ELSE ui) EXCEPT !.resume = FALSE, !.scrubbing = FALSE]
    /\ calls' = calls \o (IF ui.resume THEN PlayingCalls(ui, TRUE) ELSE <<>>)
    /\ UNCHANGED item

\* openFinished, positionAdvanced and reachedEnd arrive in the order emitted.
HandleEvent ==
    /\ events # <<>>
    /\ events' = Tail(events)
    /\ ui' = LET e == Head(events) IN
             CASE e.op = "opened"   -> [ui EXCEPT !.clip = (e.arg = 1)]
               [] e.op = "position" -> [ui EXCEPT !.pos = Least(e.arg, ui.duration)]
               [] e.op = "end"      -> [ui EXCEPT !.playing = FALSE]
    /\ UNCHANGED <<calls, worker, session, seek, engineVars, render, item, budget>>

GuiOp ==
    \/ OpenClip \/ CloseClip \/ TogglePlay \/ ReleaseTrack
    \/ \E t \in Times : RequestSeek(t) \/ PressTrack(t)

-----------------------------------------------------------------------------
(* The worker thread: the calls it takes from its queue.                     *)

Idle == worker.pc = "idle"
Take(op) == Idle /\ calls # <<>> /\ Head(calls).op = op /\ calls' = Tail(calls)
At(pc) == worker.pc = pc
Goto(pc) == worker' = [worker EXCEPT !.pc = pc]

\* Mutant: Pause goes straight to StopPlaybackDecode.
PausePcNoStop == IF ~session.playing THEN "paused" ELSE "cancel"

\* Where EditPlayerSession::Pause begins, and at once ends when not playing.
PausePc == IF ~session.playing THEN "paused" ELSE IF session.audio THEN "stop" ELSE "cancel"
PauseThen(w, then) == [w EXCEPT !.pc = PausePc, !.then = then]

\* The clock the session holds is published to the item's gate.
SyncClock == item' = [item EXCEPT !.clock = session.clock]

WorkerOpenClose(op) ==
    /\ Take(op)
    /\ worker' = IF session.open THEN PauseThen([worker EXCEPT !.timer = FALSE], op)
                 ELSE [worker EXCEPT !.timer = FALSE, !.pos = 0, !.then = op,
                                     !.pc = IF op = "open" THEN "open" ELSE "idle"]
    /\ session' = [session EXCEPT !.playing = FALSE]
    /\ item' = IF session.open THEN item ELSE [item EXCEPT !.clock = NoClock]
    /\ UNCHANGED <<ui, events, seek, engineVars, render, budget>>

WorkerPlay ==
    /\ Take("play")
    /\ worker' = IF ~session.open THEN worker
                 ELSE [worker EXCEPT !.pos = Head(calls).arg, !.timer = TRUE, !.then = "play",
                                     !.pc = IF session.audio /\ ~session.playing THEN "playJoin" ELSE "sync"]
    /\ UNCHANGED <<ui, events, session, seek, engineVars, render, item, budget>>

WorkerPause ==
    /\ Take("pause")
    /\ worker' = IF session.open THEN PauseThen([worker EXCEPT !.timer = FALSE], "pause")
                 ELSE [worker EXCEPT !.timer = FALSE]
    /\ session' = [session EXCEPT !.playing = FALSE]
    /\ UNCHANGED <<ui, events, seek, engineVars, render, item, budget>>

WorkerSeek ==
    /\ Take("seek")
    /\ LET w == [worker EXCEPT !.pos = Head(calls).arg, !.arg = Head(calls).arg] IN
       worker' = IF session.open THEN PauseThen(w, "seek") ELSE w
    /\ session' = [session EXCEPT !.playing = FALSE]
    /\ UNCHANGED <<ui, events, seek, engineVars, render, item, budget>>

\* The play cursor of the endpoint while it runs, the latched one otherwise.
FramesPlayed == IF render.running THEN render.played ELSE render.latched

\* onTick: the endpoint's clock while there is audio, elapsed time and a seek
\* per tick otherwise.
Tick ==
    /\ Idle /\ worker.timer /\ session.open
    /\ Len(events) < MaxPending
    /\ IF session.audio
       THEN LET raw == session.start + FramesPlayed
                pos == Least(raw, Total)
                w   == [worker EXCEPT !.pos = pos]
            IN  /\ item' = [item EXCEPT !.clock = raw]
                /\ events' = Append(events, Call("position", pos))
                /\ worker' = IF pos >= Total THEN PauseThen([w EXCEPT !.timer = FALSE], "end") ELSE w
                /\ session' = [session EXCEPT !.clock = raw, !.playing = @ /\ pos < Total]
       ELSE LET pos == Least(worker.pos + 1, Total) IN
            /\ worker' = PauseThen([worker EXCEPT !.pos = pos, !.arg = pos], "tick")
            /\ session' = [session EXCEPT !.playing = FALSE]
            /\ UNCHANGED <<item, events>>
    /\ UNCHANGED <<ui, calls, seek, engineVars, render, budget>>

-----------------------------------------------------------------------------
(* EditPlayerSession::Pause, on the worker's thread.                         *)

\* WasapiAudioRenderer::Stop up to its join.
StopAudio ==
    /\ At("stop")
    /\ render' = [render EXCEPT !.latched = IF render.running THEN render.played ELSE @,
                                !.running = FALSE, !.stop = TRUE]
    /\ Goto("reap")
    /\ UNCHANGED <<ui, calls, events, session, seek, engineVars, item, budget>>

\* The join of the render thread; in Play's fallback the clock goes as well.
JoinRender ==
    /\ At("reap")
    /\ ~render.live
    /\ Goto(IF worker.then = "play" THEN "sync" ELSE "cancel")
    /\ session' = [session EXCEPT !.clock = IF worker.then = "play" THEN NoClock ELSE @]
    /\ UNCHANGED <<ui, calls, events, seek, engineVars, render, item, budget>>

Cancel ==
    /\ At("cancel")
    /\ cancel' = TRUE
    /\ Goto("abort")
    /\ UNCHANGED <<ui, calls, events, session, seek, demux, video, audio, vq, aq, render, item, budget>>

AbortQueues ==
    /\ At("abort")
    /\ vq' = [vq EXCEPT !.aborted = TRUE, !.packets = <<>>]
    /\ aq' = [aq EXCEPT !.aborted = TRUE, !.packets = <<>>]
    /\ Goto("join")
    /\ UNCHANGED <<ui, calls, events, session, seek, cancel, demux, video, audio, render, item, budget>>

ThreadsDone == demux.pc = "done" /\ video.pc = "done" /\ audio.pc = "done"

JoinPlayback ==
    /\ At("join")
    /\ ThreadsDone
    /\ Goto("paused")
    /\ session' = [session EXCEPT !.clock = NoClock]
    /\ UNCHANGED <<ui, calls, events, seek, engineVars, render, item, budget>>

\* pause() and the end of the clip: the gate opens once the session is paused.
AfterPause ==
    /\ At("paused") /\ worker.then \in {"pause", "end"}
    /\ SyncClock
    /\ Goto("idle")
    /\ events' = IF worker.then = "end" THEN Append(events, Call("end", 0)) ELSE events
    /\ UNCHANGED <<ui, calls, session, seek, engineVars, render, budget>>

-----------------------------------------------------------------------------
(* SeekTo, Close and Open after their Pause.                                 *)

\* seek_generation moves on: the seek in flight will drop its frame.
Supersede ==
    /\ At("paused") /\ worker.then \in {"seek", "tick", "open", "close"}
    /\ seek' = [seek EXCEPT !.superseded = TRUE]
    /\ Goto("joinSeek")
    /\ UNCHANGED <<ui, calls, events, session, engineVars, render, item, budget>>

StartSeek ==
    /\ At("joinSeek") /\ worker.then \in {"seek", "tick", "opened"}
    /\ seek.pc = "done"
    /\ seek' = [pc |-> "decode", target |-> worker.arg, superseded |-> FALSE]
    /\ Goto("sync")
    /\ UNCHANGED <<ui, calls, events, session, engineVars, render, item, budget>>

CloseSession ==
    /\ At("joinSeek") /\ worker.then \in {"open", "close"}
    /\ seek.pc = "done" /\ ~render.live /\ ThreadsDone
    /\ session' = Closed /\ render' = Silent
    /\ item' = [item EXCEPT !.clock = NoClock]
    /\ worker' = [worker EXCEPT !.pos = 0, !.pc = IF worker.then = "open" THEN "open" ELSE "idle"]
    /\ UNCHANGED <<ui, calls, events, seek, engineVars, budget>>

\* The file may not open, may have no audio, or its audio may not initialise.
OpenSession ==
    /\ At("open")
    /\ \/ /\ events' = Append(events, Call("opened", 0))
          /\ Goto("idle")
          /\ UNCHANGED session
       \/ /\ \E a \in BOOLEAN : session' = [Closed EXCEPT !.open = TRUE, !.audio = a]
          /\ worker' = [worker EXCEPT !.pc = "joinSeek", !.then = "opened", !.arg = 0]
          /\ UNCHANGED events
    /\ UNCHANGED <<ui, calls, seek, engineVars, render, item, budget>>

\* syncClock at the end of play, seek, open and of a silent tick.
Sync ==
    /\ At("sync")
    /\ SyncClock
    /\ LET ended == worker.then = "tick" /\ worker.pos >= Total IN
       worker' = [worker EXCEPT !.pc = IF ended THEN "paused" ELSE "idle",
                                !.then = IF ended THEN "end" ELSE @,
                                !.timer = @ /\ ~ended]
    /\ events' = CASE worker.then = "opened" -> Append(events, Call("opened", 1))
                   [] worker.then = "tick"   -> Append(events, Call("position", worker.pos))
                   [] OTHER -> events
    /\ UNCHANGED <<ui, calls, session, seek, engineVars, render, budget>>

-----------------------------------------------------------------------------
(* EditPlayerSession::Play.                                                  *)

Fault == budget.faults < MaxFaults /\ budget' = [budget EXCEPT !.faults = @ + 1]

\* Mutant: Play does not join the seek thread.
StartAudioUnjoined ==
    /\ At("playJoin")
    /\ session' = [session EXCEPT !.playing = TRUE, !.start = worker.pos, !.clock = worker.pos]
    /\ render' = [Silent EXCEPT !.running = TRUE, !.live = TRUE]
    /\ Goto("startDecode")
    /\ UNCHANGED <<ui, calls, events, seek, engineVars, item, budget>>

\* The seek thread is joined, then the endpoint starts, or fails to.
StartAudio ==
    /\ At("playJoin")
    /\ seek.pc = "done"
    /\ session' = [session EXCEPT !.playing = TRUE, !.start = worker.pos, !.clock = worker.pos]
    /\ \/ /\ render' = [Silent EXCEPT !.running = TRUE, !.live = TRUE]
          /\ UNCHANGED budget
       \/ Fault /\ render' = Silent
    /\ Goto("startDecode")
    /\ UNCHANGED <<ui, calls, events, seek, engineVars, item>>

\* StartPlaybackDecode: rewind to the keyframe, fresh queues, two or three
\* threads; without a resampler the run has no audio and Play takes it back.
StartDecode ==
    /\ At("startDecode")
    /\ ThreadsDone
    /\ cancel' = FALSE
    /\ vq' = NewQueue /\ aq' = NewQueue
    /\ video' = [Done EXCEPT !.pc = "pop"]
    /\ \E withAudio \in BOOLEAN :
          /\ IF withAudio THEN UNCHANGED budget ELSE Fault
          /\ demux' = [IdleDemux EXCEPT !.pc = "gate", !.withAudio = withAudio]
          /\ audio' = IF withAudio THEN [Done EXCEPT !.pc = "pop"] ELSE Done
          /\ session' = [session EXCEPT !.audio = withAudio]
          /\ Goto(IF withAudio THEN "sync" ELSE "stop")
    /\ UNCHANGED <<ui, calls, events, seek, render, item>>

WorkerStep ==
    \/ \E op \in {"open", "close"} : WorkerOpenClose(op)
    \/ WorkerPlay \/ WorkerPause \/ WorkerSeek
    \/ StopAudio \/ JoinRender \/ Cancel \/ AbortQueues \/ JoinPlayback \/ AfterPause
    \/ Supersede \/ StartSeek \/ CloseSession \/ OpenSession \/ Sync
    \/ StartAudio \/ StartDecode

-----------------------------------------------------------------------------
(* Frames.  close() takes the session's callback away before anything else. *)

CallbackSet == session.open /\ (Idle \/ worker.then \notin {"open", "close"})

\* presentFrame: a frame the clock has passed is dropped by the gate.
Gated(pts) == item.clock # NoClock /\ pts < item.clock

Present(pts) == item' = [item EXCEPT !.filled = @ \/ (CallbackSet /\ ~Gated(pts))]

\* The seek thread decodes, looks at the generation once, and delivers.
SeekDecode ==
    /\ seek.pc = "decode"
    /\ \E found \in BOOLEAN :
          seek' = [seek EXCEPT !.pc = IF found /\ ~seek.superseded THEN "deliver" ELSE "done"]
    /\ UNCHANGED <<ui, calls, events, worker, session, engineVars, render, item, budget>>

SeekDeliver ==
    /\ seek.pc = "deliver"
    /\ Present(seek.target)
    /\ seek' = [seek EXCEPT !.pc = "done"]
    /\ UNCHANGED <<ui, calls, events, worker, session, engineVars, render, budget>>

-----------------------------------------------------------------------------
(* The demux thread.                                                         *)

DemuxedThrough ==
    IF ~demux.withAudio THEN demux.v
    ELSE IF NoClock \in {demux.v, demux.a} THEN NoClock ELSE Least(demux.v, demux.a)

ShouldDemuxMorePackets ==
    session.clock = NoClock \/ DemuxedThrough = NoClock \/ DemuxedThrough < session.clock + ReadAhead

\* One packet is read once the read-ahead gate is open.
DemuxRead ==
    /\ demux.pc = "gate" /\ ~cancel /\ ShouldDemuxMorePackets
    /\ demux.next <= Len(Clip)
    /\ LET p == Clip[demux.next] IN
       demux' = [demux EXCEPT !.next = @ + 1,
                              !.v  = IF p.s = "v" THEN p.t ELSE @,
                              !.a  = IF p.s = "a" /\ demux.withAudio THEN p.t ELSE @,
                              !.pc = IF p.s = "v" \/ demux.withAudio THEN "push" ELSE "gate"]
    /\ UNCHANGED <<ui, calls, events, worker, session, seek, cancel, video, audio, vq, aq, render, item, budget>>

\* ShouldAdmitDemuxedPacket: past the soft limit only while the other stream,
\* if it still has a consumer, is starving; never past the hard one.
Admits(q, peer) ==
    /\ Len(q.packets) < Hard
    /\ Len(q.packets) < Soft \/ (demux.withAudio /\ ~peer.gone /\ Len(peer.packets) < LowWater)

Pushed(q, t) == IF q.aborted \/ q.gone THEN q ELSE [q EXCEPT !.packets = Append(@, t)]

DemuxPush ==
    /\ demux.pc = "push"
    /\ LET p == Clip[demux.next - 1]
           q == IF p.s = "v" THEN vq ELSE aq
       IN  /\ q.aborted \/ q.gone \/ Admits(q, IF p.s = "v" THEN aq ELSE vq)
           /\ vq' = IF p.s = "v" THEN Pushed(vq, p.t) ELSE vq
           /\ aq' = IF p.s = "a" THEN Pushed(aq, p.t) ELSE aq
    /\ demux' = [demux EXCEPT !.pc = "gate"]
    /\ UNCHANGED <<ui, calls, events, worker, session, seek, cancel, video, audio, render, item, budget>>

\* The end of the file, or the cancel: both decoders are told to drain.
DemuxEnd ==
    /\ demux.pc = "gate"
    /\ cancel \/ (ShouldDemuxMorePackets /\ demux.next > Len(Clip))
    /\ vq' = [vq EXCEPT !.eos = TRUE]
    /\ aq' = [aq EXCEPT !.eos = @ \/ demux.withAudio]
    /\ demux' = [demux EXCEPT !.pc = "done"]
    /\ UNCHANGED <<ui, calls, events, worker, session, seek, cancel, video, audio, render, item, budget>>

DemuxStep == DemuxRead \/ DemuxPush \/ DemuxEnd

-----------------------------------------------------------------------------
(* The decode threads: one packet in, one frame or block out.                *)

\* CloseForConsumer: a thread on its way out never strands the demuxer.
CloseForConsumer(q) == [q EXCEPT !.gone = TRUE, !.packets = <<>>]

MustLeave(q) == cancel \/ q.aborted \/ (q.packets = <<>> /\ q.eos)

ShouldConvertDecodedFrame(pts) == session.clock = NoClock \/ pts >= session.clock

VideoPop ==
    /\ video.pc = "pop" /\ ~MustLeave(vq) /\ vq.packets # <<>>
    /\ LET t == Head(vq.packets) IN
       video' = IF ShouldConvertDecodedFrame(t) THEN [pc |-> "deliver", pts |-> t] ELSE video
    /\ vq' = [vq EXCEPT !.packets = Tail(@)]
    /\ UNCHANGED <<ui, calls, events, worker, session, seek, cancel, demux, audio, aq, render, item, budget>>

VideoDeliver ==
    /\ video.pc = "deliver"
    /\ Present(video.pts)
    /\ video' = [Done EXCEPT !.pc = "pop"]
    /\ UNCHANGED <<ui, calls, events, worker, session, seek, cancel, demux, audio, vq, aq, render, budget>>

VideoLeave ==
    /\ video.pc = "pop" /\ IF MustLeave(vq) THEN UNCHANGED budget ELSE Fault
    /\ vq' = CloseForConsumer(vq)
    /\ video' = Done
    /\ UNCHANGED <<ui, calls, events, worker, session, seek, cancel, demux, audio, aq, render, item>>

\* What lies before the start of the run is trimmed, the rest is pushed.
AudioPop ==
    /\ audio.pc = "pop" /\ ~MustLeave(aq) /\ aq.packets # <<>>
    /\ audio' = [audio EXCEPT !.pc = IF Head(aq.packets) < session.start THEN "pop" ELSE "push"]
    /\ aq' = [aq EXCEPT !.packets = Tail(@)]
    /\ UNCHANGED <<ui, calls, events, worker, session, seek, cancel, demux, video, vq, render, item, budget>>

\* PushSamples waits for room in the ring or for a stop, which drops the block.
PushSamples ==
    /\ audio.pc = "push"
    /\ render.stop \/ render.ring < RingCap
    /\ render' = [render EXCEPT !.ring = IF render.stop THEN @ ELSE @ + 1]
    /\ audio' = [audio EXCEPT !.pc = "pop"]
    /\ UNCHANGED <<ui, calls, events, worker, session, seek, cancel, demux, video, vq, aq, item, budget>>

AudioLeave ==
    /\ audio.pc = "pop" /\ IF MustLeave(aq) THEN UNCHANGED budget ELSE Fault
    /\ aq' = CloseForConsumer(aq)
    /\ audio' = Done
    /\ UNCHANGED <<ui, calls, events, worker, session, seek, cancel, demux, video, vq, render, item>>

-----------------------------------------------------------------------------
(* The render thread: a block or silence per buffer, the cursor moves on.    *)

\* Mutant: an empty ring is waited for, no silence is rendered.
RenderBufferStarved ==
    /\ render.live /\ render.running /\ render.ring > 0
    /\ render' = [render EXCEPT !.ring = @ - 1, !.played = Least(@ + 1, Total)]
    /\ UNCHANGED <<ui, calls, events, worker, session, seek, engineVars, item, budget>>

RenderBuffer ==
    /\ render.live /\ render.running
    /\ render' = [render EXCEPT !.ring = IF @ = 0 THEN 0 ELSE @ - 1, !.played = Least(@ + 1, Total)]
    /\ UNCHANGED <<ui, calls, events, worker, session, seek, engineVars, item, budget>>

\* A fatal endpoint error ends the thread by itself; a Stop ends it otherwise.
RenderEnds ==
    /\ render.live
    /\ IF render.running THEN Fault ELSE UNCHANGED budget
    /\ render' = [render EXCEPT !.live = FALSE, !.running = FALSE]
    /\ UNCHANGED <<ui, calls, events, worker, session, seek, engineVars, item>>

SeekStep  == SeekDecode \/ SeekDeliver
VideoStep == VideoPop \/ VideoDeliver \/ VideoLeave
AudioStep == AudioPop \/ PushSamples \/ AudioLeave

Next ==
    \/ GuiOp \/ HandleEvent
    \/ WorkerStep \/ Tick
    \/ SeekStep \/ DemuxStep \/ VideoStep \/ AudioStep
    \/ RenderBuffer \/ RenderEnds

Spec == Init /\ [][Next]_vars

\* Threads run, queued calls and signals are delivered, and a started timer
\* keeps firing.  Nothing obliges the user, and nothing has to fail.
Fairness ==
    /\ WF_vars(HandleEvent) /\ WF_vars(WorkerStep) /\ WF_vars(Tick)
    /\ WF_vars(SeekStep) /\ WF_vars(DemuxStep)
    /\ WF_vars(VideoPop \/ VideoDeliver \/ (VideoLeave /\ MustLeave(vq)))
    /\ WF_vars(AudioPop \/ PushSamples \/ (AudioLeave /\ MustLeave(aq)))
    /\ WF_vars(RenderBuffer) /\ WF_vars(RenderEnds /\ ~render.running)

LiveSpec == Spec /\ Fairness

-----------------------------------------------------------------------------
(* Properties.                                                               *)

TypeOK ==
    /\ ui \in [playing : BOOLEAN, clip : BOOLEAN, duration : {0, Total}, resume : BOOLEAN,
               scrubbing : BOOLEAN, pos : Times]
    /\ worker.pc \in {"idle", "stop", "reap", "cancel", "abort", "join", "paused", "joinSeek",
                      "open", "sync", "playJoin", "startDecode"}
    /\ worker.timer \in BOOLEAN /\ worker.pos \in Times /\ worker.arg \in Times
    /\ session \in [open : BOOLEAN, audio : BOOLEAN, playing : BOOLEAN, start : Times, clock : -1..(2 * Total)]
    /\ seek \in [pc : {"decode", "deliver", "done"}, target : Times, superseded : BOOLEAN]
    /\ demux.pc \in {"gate", "push", "done"}
    /\ video.pc \in {"pop", "deliver", "done"} /\ audio.pc \in {"pop", "push", "done"}
    /\ render.ring \in 0..RingCap /\ render.played \in Times

(* The demuxer and the decoders have one writer at a time: a scrub seek      *)
(* never decodes while a playback thread runs or is being started, and       *)
(* nothing at all still runs on a session that has been closed               *)
(* (edit_player_session.cpp Play, SeekTo and Close; edit-and-export.md       *)
(* "No FFmpeg context is concurrently manipulated by multiple workers").     *)
SingleWriter ==
    /\ seek.pc # "done" => ThreadsDone /\ worker.pc # "startDecode"
    /\ ~session.open => seek.pc = "done" /\ ThreadsDone /\ ~render.live

(* "A seek result is the frame the user asked for: never gate it."           *)
(* (EditPlayerWorker.cpp seek)                                               *)
SeekNeverGated == seek.pc = "deliver" /\ CallbackSet => ~Gated(seek.target)

(* Every call on the worker thread returns: no join of Pause, SeekTo, Play   *)
(* or Close waits for a thread that is itself parked in a full ring, a full  *)
(* packet queue or behind the read-ahead gate.                               *)
CallsReturn == ~Idle ~> Idle

(* Playback that runs on a working endpoint ends: a decode thread that died, *)
(* and with it audio that ends before the video, or a starved ring cannot    *)
(* hold the clock.                                                           *)
PlaybackEnds == (session.playing /\ render.running) ~> (~session.playing \/ ~render.running)

(* "rather than waiting for an audio cursor that cannot advance"             *)
(* (edit-and-export.md): playback ends also when the endpoint fails.         *)
PlaybackAlwaysEnds == session.playing ~> ~session.playing
=============================================================================
