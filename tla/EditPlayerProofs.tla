-------------------------- MODULE EditPlayerProofs --------------------------
(***************************************************************************)
(* What holds of the Edit page's player for every clip, queue limit, ring  *)
(* and bound: the demuxer and the decoders have one writer at a time.      *)
(*                                                                         *)
(* SingleWriter by itself is not inductive: it says nothing of the way the *)
(* worker gets to a seek or to a playback run.  HandInv adds where the     *)
(* playback threads may run: only on an open session, and only while the   *)
(* session plays or its Pause is still on the way to its join; everywhere  *)
(* behind that join, and before StartPlaybackDecode, they have ended.      *)
(***************************************************************************)
EXTENDS EditPlayer, TLAPS

\* The records have the fields the steps assign one by one.
FieldInv ==
    /\ DOMAIN worker = {"pc", "then", "arg", "timer", "pos"}
    /\ DOMAIN session = {"open", "audio", "playing", "start", "clock"}
    /\ DOMAIN seek = {"pc", "target", "superseded"}
    /\ DOMAIN render = {"running", "live", "stop", "ring", "played", "latched"}
    /\ DOMAIN demux = {"pc", "next", "v", "a", "withAudio"}
    /\ DOMAIN video = {"pc", "pts"}
    /\ DOMAIN audio = {"pc", "pts"}
    /\ session.open \in BOOLEAN /\ session.playing \in BOOLEAN /\ session.audio \in BOOLEAN

\* The positions of Pause before its join has returned.
Pausing == {"stop", "reap", "cancel", "abort", "join"}

\* Positions the worker reaches only after the join, or before it starts any thread.
Between == {"paused", "joinSeek", "open", "playJoin", "startDecode"}

\* A call that is past its first test works on an open session, except Open itself.
OpenInv == worker.pc \notin {"idle", "open"} => session.open

\* Where the playback threads may still run.
ThreadsInv ==
    /\ worker.pc \in Between => ThreadsDone
    /\ worker.pc = "sync" /\ worker.then # "play" => ThreadsDone
    /\ ~ThreadsDone => session.open /\ (session.playing \/ worker.pc \in Pausing)

\* Play keeps its name up to the end, and the session plays while its fallback stops the endpoint.
PlayInv ==
    /\ session.playing => session.open
    /\ worker.pc \in {"playJoin", "startDecode"} => worker.then = "play"
    /\ worker.pc = "startDecode" => session.playing
    /\ worker.pc \in {"stop", "reap"} /\ worker.then = "play" => session.playing

HandInv == FieldInv /\ OpenInv /\ ThreadsInv /\ PlayInv /\ SingleWriter

\* Positions are numbers, in the calls and in the signals too.
Message == [op : {"open", "close", "play", "pause", "seek"}, arg : Int]
Report == [op : {"opened", "position", "end"}, arg : Int]
Uis == [playing : BOOLEAN, clip : BOOLEAN, duration : Int, resume : BOOLEAN, scrubbing : BOOLEAN, pos : Int]
NumberInv ==
    /\ calls \in Seq(Message) /\ events \in Seq(Report)
    /\ ui \in Uis
    /\ worker.pos \in Int /\ session.start \in Int
    /\ render.played \in Int /\ render.latched \in Int

-----------------------------------------------------------------------------
LEMMA InitNumber == Init => NumberInv
BY DEF Init, NumberInv, Message, Report, Uis, Closed, Silent

LEMMA LeastType == \A a, b \in Int : Least(a, b) \in Int
BY DEF Least

\* What a user operation posts is a message.
LEMMA PostsType ==
    ASSUME NEW u \in Uis,
           NEW p \in BOOLEAN
    PROVE  /\ PlayingCalls(u, p) \in Seq(Message)
           /\ SetPlaying(u, p) \in Uis
<1>1. SetPlaying(u, p) \in Uis
  BY DEF SetPlaying, Uis
<1>2. Call("play", u.pos) \in Message /\ Call("pause", 0) \in Message
  BY DEF Call, Message, Uis
<1>3. <<>> \in Seq(Message) /\ <<Call("play", u.pos)>> \in Seq(Message) /\ <<Call("pause", 0)>> \in Seq(Message)
  BY <1>2
<1> HIDE DEF Message
<1> QED BY <1>1, <1>3 DEF PlayingCalls

LEMMA Concat == \A a, b \in Seq(Message) : a \o b \in Seq(Message)
OBVIOUS

LEMMA GuiNumber == NumberInv /\ (GuiOp \/ HandleEvent) => NumberInv'
<1> SUFFICES ASSUME NumberInv, GuiOp \/ HandleEvent PROVE NumberInv'
  OBVIOUS
<1>0. Total \in Int  BY EditPlayerAssumption
<1> ui \in Uis /\ calls \in Seq(Message)  BY DEF NumberInv
<1>1. CASE GuiOp
  <2>1. UNCHANGED <<events, worker, session, render>>
    BY <1>1 DEF GuiOp, OpenClip, CloseClip, TogglePlay, ReleaseTrack, RequestSeek, PressTrack, Op
  <2> SUFFICES ui' \in Uis /\ calls' \in Seq(Message)
    BY <2>1 DEF NumberInv
  <2>2. CASE OpenClip
    <3>0. ui' = [ui EXCEPT !.playing = FALSE, !.duration = Total, !.pos = 0]  BY <2>2 DEF OpenClip
    <3> DEFINE u == [ui EXCEPT !.playing = FALSE]
    <3>u. u \in Uis  BY DEF Uis
    <3>e. ui' = [u EXCEPT !.duration = Total, !.pos = 0]  BY <3>0
    <3> HIDE DEF u
    <3>1. ui' \in Uis
      <4>1. \A d, p \in Int : [u EXCEPT !.duration = d, !.pos = p] \in Uis  BY <3>u DEF Uis
      <4>2. 0 \in Int  OBVIOUS
      <4> QED BY <1>0, <3>e, <4>1, <4>2, Zenon
    <3>2. Call("open", 0) \in Message  BY DEF Call, Message
    <3> QED BY <2>2, <3>1, <3>2 DEF OpenClip
  <2>3. CASE CloseClip
    <3>0. ui' = [ui EXCEPT !.playing = FALSE, !.clip = FALSE, !.duration = 0, !.pos = 0]
      BY <2>3 DEF CloseClip
    <3> DEFINE u == [ui EXCEPT !.playing = FALSE, !.clip = FALSE]
    <3>u. u \in Uis  BY DEF Uis
    <3>e. ui' = [u EXCEPT !.duration = 0, !.pos = 0]  BY <3>0
    <3> HIDE DEF u
    <3>1. ui' \in Uis
      <4>1. \A d, p \in Int : [u EXCEPT !.duration = d, !.pos = p] \in Uis  BY <3>u DEF Uis
      <4>2. 0 \in Int  OBVIOUS
      <4> QED BY <3>e, <4>1, <4>2, Zenon
    <3>2. Call("close", 0) \in Message  BY DEF Call, Message
    <3> QED BY <2>3, <3>1, <3>2 DEF CloseClip
  <2>4. CASE TogglePlay
    <3> DEFINE p == ~ui.playing
    <3>1. p \in BOOLEAN  BY DEF Uis
    <3>2. ui' = SetPlaying(ui, p) /\ calls' = calls \o PlayingCalls(ui, p)  BY <2>4 DEF TogglePlay
    <3> HIDE DEF p
    <3> QED BY <3>1, <3>2, PostsType, Concat
  <2>5. CASE ReleaseTrack
    <3> DEFINE u == IF ui.resume THEN SetPlaying(ui, TRUE) ELSE ui
               c == IF ui.resume THEN PlayingCalls(ui, TRUE) ELSE <<>>
    <3>1. u \in Uis  BY PostsType
    <3>2. PlayingCalls(ui, TRUE) \in Seq(Message)  BY PostsType
    <3> c \in Seq(Message)
      <4>1. CASE ui.resume  BY <3>2, <4>1
      <4>2. CASE ~ui.resume  BY <4>2
      <4> QED BY <4>1, <4>2
    <3>3. ui' = [u EXCEPT !.resume = FALSE, !.scrubbing = FALSE] /\ calls' = calls \o c
      BY <2>5 DEF ReleaseTrack
    <3> HIDE DEF u, c
    <3>4. ui' \in Uis  BY <3>1, <3>3 DEF Uis
    <3> QED BY <3>2, <3>3, <3>4, Concat
  <2>6. ASSUME NEW t \in Times, RequestSeek(t) PROVE ui' \in Uis /\ calls' \in Seq(Message)
    <3>0. t \in Int  BY <1>0 DEF Times
    <3>1. ui' \in Uis  BY <2>6, <3>0 DEF RequestSeek, Uis
    <3>2. Call("seek", t) \in Message  BY <3>0 DEF Call, Message
    <3> QED BY <2>6, <3>1, <3>2 DEF RequestSeek
  <2>7. ASSUME NEW t \in Times, PressTrack(t) PROVE ui' \in Uis /\ calls' \in Seq(Message)
    <3> DEFINE u == SetPlaying(ui, FALSE)
               c == PlayingCalls(ui, FALSE)
               d == <<Call("seek", t)>>
    <3>0. t \in Int  BY <1>0 DEF Times
    <3>1. u \in Uis  BY PostsType
    <3>2. c \in Seq(Message)  BY PostsType
    <3>3. d \in Seq(Message)  BY <3>0 DEF Call, Message
    <3>4. ui' = [u EXCEPT !.resume = ui.playing, !.scrubbing = TRUE, !.pos = t] /\ calls' = (calls \o c) \o d
      BY <2>7 DEF PressTrack
    <3>5. ui.playing \in BOOLEAN  BY DEF Uis
    <3> HIDE DEF u, c, d
    <3>6. ui' \in Uis  BY <3>0, <3>1, <3>4, <3>5 DEF Uis
    <3> QED BY <3>2, <3>3, <3>4, <3>6, Concat
  <2> QED BY <1>1, <2>2, <2>3, <2>4, <2>5, <2>6, <2>7 DEF GuiOp
<1>2. CASE HandleEvent
  <2>1. Head(events) \in Report /\ Tail(events) \in Seq(Report)
    BY <1>2 DEF HandleEvent, NumberInv
  <2>2. UNCHANGED <<calls, worker, session, render>>  BY <1>2 DEF HandleEvent
  <2>3. ui' \in Uis
    BY <1>2, <2>1, LeastType DEF HandleEvent, Report, Uis
  <2> QED BY <1>2, <2>1, <2>2, <2>3 DEF HandleEvent, NumberInv
<1> QED BY <1>1, <1>2

-----------------------------------------------------------------------------
\* The worker takes positions from its calls, the session from the worker, the cursor counts buffers.
LEMMA PlayerNumber ==
    ASSUME NumberInv, FieldInv, WorkerStep \/ Tick \/ SeekStep \/ DemuxStep \/ VideoStep \/ AudioStep
                                \/ RenderBuffer \/ RenderEnds
    PROVE  NumberInv'
<1> USE DEF NumberInv, FieldInv, engineVars
<1>0. Total \in Int  BY EditPlayerAssumption
<1>1. ASSUME calls # <<>>
      PROVE  Head(calls).arg \in Int /\ Tail(calls) \in Seq(Message)
  <2>1. Head(calls) \in Message /\ Tail(calls) \in Seq(Message)  BY <1>1
  <2> QED BY <2>1 DEF Message
<1>2. \A op \in {"opened", "position", "end"} : \A n \in Int : Append(events, Call(op, n)) \in Seq(Report)
  <2>1. \A op \in {"opened", "position", "end"} : \A n \in Int : Call(op, n) \in Report
    BY DEF Call, Report
  <2> QED BY <2>1
<1>3. ASSUME NEW op \in {"open", "close"}, WorkerOpenClose(op) PROVE NumberInv'
  BY <1>1, <1>3 DEF WorkerOpenClose, Take, PauseThen
<1>4. CASE WorkerPlay
  BY <1>1, <1>4 DEF WorkerPlay, Take
<1>5. CASE WorkerPause
  BY <1>1, <1>5 DEF WorkerPause, Take, PauseThen
<1>6. CASE WorkerSeek
  BY <1>1, <1>6 DEF WorkerSeek, Take, PauseThen
<1>7. CASE StopAudio \/ JoinRender \/ Cancel \/ AbortQueues \/ JoinPlayback \/ Supersede \/ StartSeek
  BY <1>7 DEF StopAudio, JoinRender, Cancel, AbortQueues, JoinPlayback, Supersede, StartSeek, Goto
<1>8. CASE AfterPause
  BY <1>2, <1>8 DEF AfterPause, Goto
<1>9. CASE CloseSession
  BY <1>9 DEF CloseSession, Closed, Silent
<1>10. CASE OpenSession
  <2>1. UNCHANGED <<ui, calls, render>>
    BY <1>10 DEF OpenSession
  <2>2. CASE events' = Append(events, Call("opened", 0)) /\ Goto("idle") /\ UNCHANGED session
    BY <1>2, <2>1, <2>2 DEF Goto
  <2>3. CASE /\ \E a \in BOOLEAN : session' = [Closed EXCEPT !.open = TRUE, !.audio = a]
             /\ worker' = [worker EXCEPT !.pc = "joinSeek", !.then = "opened", !.arg = 0]
             /\ UNCHANGED events
    BY <2>1, <2>3 DEF Closed
  <2> QED BY <1>10, <2>2, <2>3 DEF OpenSession
<1>11. CASE Sync
  BY <1>2, <1>11 DEF Sync
<1>12. CASE StartAudio
  <2>1. worker'.pos = worker.pos /\ session'.start = worker.pos
    BY <1>12 DEF StartAudio, Goto
  <2>2. render'.played \in Int /\ render'.latched \in Int
    <3>1. CASE render' = [Silent EXCEPT !.running = TRUE, !.live = TRUE]  BY <3>1 DEF Silent
    <3>2. CASE render' = Silent  BY <3>2 DEF Silent
    <3> QED BY <1>12, <3>1, <3>2 DEF StartAudio
  <2> QED BY <1>12, <2>1, <2>2 DEF StartAudio
<1>13. CASE StartDecode
  BY <1>13 DEF StartDecode, Goto
<1>14. CASE Tick
  <2>1. UNCHANGED <<ui, calls, render>> /\ session'.start = session.start
    BY <1>14 DEF Tick
  <2>2. Least(session.start + FramesPlayed, Total) \in Int /\ Least(worker.pos + 1, Total) \in Int
    <3>1. FramesPlayed \in Int  BY DEF FramesPlayed
    <3>2. session.start + FramesPlayed \in Int /\ worker.pos + 1 \in Int  BY <3>1
    <3> QED BY <1>0, <3>2, LeastType
  <2>3. worker'.pos \in Int
    BY <1>14, <2>2 DEF Tick, PauseThen
  <2>4. events' \in Seq(Report)
    <3>1. CASE session.audio
      <4>1. events' = Append(events, Call("position", Least(session.start + FramesPlayed, Total)))
        BY <1>14, <3>1 DEF Tick
      <4> QED BY <1>2, <2>2, <4>1
    <3>2. CASE ~session.audio  BY <1>14, <3>2 DEF Tick
    <3> QED BY <3>1, <3>2
  <2> QED BY <2>1, <2>3, <2>4
<1>15. CASE SeekStep \/ DemuxStep
  BY <1>15 DEF SeekStep, SeekDecode, SeekDeliver, DemuxStep, DemuxRead, DemuxPush, DemuxEnd
<1>16. CASE VideoStep
  BY <1>16 DEF VideoStep, VideoPop, VideoDeliver, VideoLeave
<1>17. CASE AudioStep
  BY <1>17 DEF AudioStep, AudioPop, PushSamples, AudioLeave
<1>18. CASE RenderBuffer \/ RenderEnds
  <2>1. Least(render.played + 1, Total) \in Int
    BY <1>0, LeastType
  <2>2. render'.played \in Int /\ render'.latched \in Int
    BY <1>18, <2>1 DEF RenderBuffer, RenderEnds
  <2> QED BY <1>18, <2>2 DEF RenderBuffer, RenderEnds
<1> QED BY <1>3, <1>4, <1>5, <1>6, <1>7, <1>8, <1>9, <1>10, <1>11, <1>12, <1>13, <1>14, <1>15, <1>16,
           <1>17, <1>18 DEF WorkerStep

-----------------------------------------------------------------------------
LEMMA InitHand == Init => HandInv
BY DEF Init, HandInv, FieldInv, OpenInv, ThreadsInv, PlayInv, SingleWriter, ThreadsDone,
       Closed, Silent, IdleDemux, Done, Between, Pausing

USE DEF HandInv, FieldInv, OpenInv, ThreadsInv, PlayInv, SingleWriter, ThreadsDone, Between, Pausing,
        engineVars

\* A user operation, a handled signal and a stuttering step touch none of the player's threads.
LEMMA GuiHand == HandInv /\ (GuiOp \/ HandleEvent) => HandInv'
BY DEF GuiOp, OpenClip, CloseClip, TogglePlay, ReleaseTrack, RequestSeek, PressTrack, Op, HandleEvent

\* The worker takes a call, or its timer fires: the session stops playing exactly when Pause begins.
LEMMA TakeHand ==
    ASSUME HandInv, NumberInv,
           \/ \E op \in {"open", "close"} : WorkerOpenClose(op)
           \/ WorkerPlay \/ WorkerPause \/ WorkerSeek \/ Tick
    PROVE  HandInv'
<1>1. ASSUME NEW op \in {"open", "close"}, WorkerOpenClose(op) PROVE HandInv'
  BY <1>1 DEF WorkerOpenClose, Take, Idle, PauseThen, PausePc
<1>2. CASE WorkerPlay
  BY <1>2 DEF WorkerPlay, Take, Idle
<1>3. CASE WorkerPause
  BY <1>3 DEF WorkerPause, Take, Idle, PauseThen, PausePc
<1>4. CASE WorkerSeek
  BY <1>4 DEF WorkerSeek, Take, Idle, PauseThen, PausePc
<1>5. CASE Tick
  <2>1. worker.pc = "idle" /\ session.open /\ UNCHANGED <<seek, demux, video, audio, render>>
    BY <1>5 DEF Tick, Idle
  <2>2. CASE session.audio
    <3> DEFINE pos == Least(session.start + FramesPlayed, Total)
               w == [worker EXCEPT !.pos = pos]
    <3>1. /\ worker' = IF pos >= Total THEN PauseThen([w EXCEPT !.timer = FALSE], "end") ELSE w
          /\ session' = [session EXCEPT !.clock = session.start + FramesPlayed,
                                        !.playing = @ /\ pos < Total]
      BY <1>5, <2>2 DEF Tick
    <3> pos \in Int /\ Total \in Int
      BY EditPlayerAssumption DEF Least, FramesPlayed, NumberInv
    <3>2. CASE pos >= Total
      <4>1. ~(pos < Total)  BY <3>2
      <4> HIDE DEF pos
      <4> QED BY <2>1, <2>2, <3>1, <3>2, <4>1 DEF PauseThen, PausePc
    <3>3. CASE ~(pos >= Total)
      <4>1. pos < Total  BY <3>3
      <4> HIDE DEF pos
      <4> QED BY <2>1, <2>2, <3>1, <3>3, <4>1
    <3> QED BY <3>2, <3>3
  <2>3. CASE ~session.audio
    <3> DEFINE pos == Least(worker.pos + 1, Total)
               w == [worker EXCEPT !.pos = pos, !.arg = pos]
    <3>1. worker' = PauseThen(w, "tick") /\ session' = [session EXCEPT !.playing = FALSE]
      BY <1>5, <2>3 DEF Tick
    <3>2. DOMAIN w = DOMAIN worker
      OBVIOUS
    <3> HIDE DEF w
    <3> QED BY <2>1, <2>3, <3>1, <3>2 DEF PauseThen, PausePc
  <2> QED BY <2>2, <2>3
<1> QED BY <1>1, <1>2, <1>3, <1>4, <1>5

\* Pause, SeekTo, Close, Open and Play, step by step.
LEMMA CallHand ==
    ASSUME HandInv,
           \/ StopAudio \/ JoinRender \/ Cancel \/ AbortQueues \/ JoinPlayback \/ AfterPause
           \/ Supersede \/ StartSeek \/ CloseSession \/ OpenSession \/ Sync
           \/ StartAudio \/ StartDecode
    PROVE  HandInv'
<1>1. CASE StopAudio     BY <1>1 DEF StopAudio, At, Goto
<1>2. CASE JoinRender    BY <1>2 DEF JoinRender, At, Goto
<1>3. CASE Cancel        BY <1>3 DEF Cancel, At, Goto
<1>4. CASE AbortQueues   BY <1>4 DEF AbortQueues, At, Goto
<1>5. CASE JoinPlayback  BY <1>5 DEF JoinPlayback, At, Goto
<1>6. CASE AfterPause    BY <1>6 DEF AfterPause, At, Goto
<1>7. CASE Supersede     BY <1>7 DEF Supersede, At, Goto
<1>8. CASE StartSeek     BY <1>8 DEF StartSeek, At, Goto
<1>9. CASE CloseSession  BY <1>9 DEF CloseSession, At, Closed, Silent
<1>10. CASE OpenSession  BY <1>10 DEF OpenSession, At, Goto, Closed
<1>11. CASE Sync         BY <1>11 DEF Sync, At
<1>12. CASE StartAudio   BY <1>12 DEF StartAudio, At, Goto, Silent
<1>13. CASE StartDecode  BY <1>13 DEF StartDecode, At, Goto, IdleDemux, Done
<1> QED BY <1>1, <1>2, <1>3, <1>4, <1>5, <1>6, <1>7, <1>8, <1>9, <1>10, <1>11, <1>12, <1>13

\* The threads: none of them starts, or brings back to life, itself or another.
LEMMA ThreadHand ==
    ASSUME HandInv,
           SeekStep \/ DemuxStep \/ VideoStep \/ AudioStep \/ RenderBuffer \/ RenderEnds
    PROVE  HandInv'
<1>1. CASE SeekStep   BY <1>1 DEF SeekStep, SeekDecode, SeekDeliver
<1>2. CASE DemuxStep  BY <1>2 DEF DemuxStep, DemuxRead, DemuxPush, DemuxEnd
<1>3. CASE VideoStep  BY <1>3 DEF VideoStep, VideoPop, VideoDeliver, VideoLeave, Done
<1>4. CASE AudioStep  BY <1>4 DEF AudioStep, AudioPop, PushSamples, AudioLeave, Done
<1>5. CASE RenderBuffer \/ RenderEnds  BY <1>5 DEF RenderBuffer, RenderEnds
<1> QED BY <1>1, <1>2, <1>3, <1>4, <1>5

LEMMA NextHand == HandInv /\ NumberInv /\ [Next]_vars => HandInv' /\ NumberInv'
<1> SUFFICES ASSUME HandInv, NumberInv, [Next]_vars PROVE HandInv' /\ NumberInv'
  OBVIOUS
<1>1. CASE UNCHANGED vars  BY <1>1 DEF vars, NumberInv
<1>2. CASE Next
  <2> HIDE DEF HandInv, NumberInv
  <2>1. FieldInv  BY DEF HandInv
  <2> HIDE DEF FieldInv
  <2> QED BY <1>2, <2>1, GuiHand, TakeHand, CallHand, ThreadHand, GuiNumber, PlayerNumber DEF Next, WorkerStep
<1> QED BY <1>1, <1>2

\* The scrub seek, the playback threads and Close share the demuxer and the decoders one after the
\* other, whatever the user does and whatever fails (EditPlayerSession::Play, SeekTo, Close).
THEOREM OneWriter == Spec => []SingleWriter
<1>1. HandInv => SingleWriter  OBVIOUS
<1> HIDE DEF HandInv, SingleWriter
<1> QED BY InitHand, InitNumber, NextHand, <1>1, PTL DEF Spec
=============================================================================
