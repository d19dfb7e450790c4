# A TLA+ model of ExoSnap

ExoSnap is a screen recorder for Windows: a C++ engine (`src/libs/engine`), a Qt
application (`src/app`), an updater and developer tools. This directory holds a
formal model of the parts of it that can lose a recording or an installation, or
wait for ever: the packet pipeline between the encoders and the file, the cutting of
a recording into segments, the start and stop of recordings around workers that may
hang, the way finished segments become files the user finds, also after a crash, the
lending of the screen capture between preview and recording, the updater's
replacement of the installed program, and the threads of the clip player.

* [Inventory](#inventory)
* [Modules and how they correspond to the code](#modules-and-how-they-correspond-to-the-code)
* [Runs](#runs)
* [Bounds](#bounds) and [fairness](#fairness)
* [What is proved](#what-is-proved)
* [Disagreements between the code and what is written about it](#disagreements-between-the-code-and-what-is-written-about-it)
* [What is not modelled](#what-is-not-modelled)
* [Plan](#plan)

To check a run: `tlc -config pipeline_core.cfg MCMediaPipeline`; to check the
proofs: `tlapm SplitBoundaryProofs.tla`. `PROJECT.json` lists the runs, the lines
of source behind every definition, the hazards and the findings.

## Inventory

### The packet pipeline (`src/libs/engine/src`)

`RecorderSession::Record` starts one `VideoThread`, one `AudioThread` per track
and one `MuxThread` on a freshly reset `SessionState` (`session_internal.h`).

| part | state | operations |
|---|---|---|
| `SessionState` | stop flag, first failure, header flags, pre-mux buffers, mux queue, split request word, epochs | `RequestCleanStop`, `RecordFailure`, `WaitForMuxQueueRoom` |
| `VideoThread` | frame index, frames in the encoder, armed boundary, segment index | prepare, submit, reap and route, flush, end of stream |
| `AudioThread` | packet index, measured epoch | prepare, capture and encode, flush, end of stream |
| `MuxThread` | open writer, segment epoch, per-track shift, held audio, ends of stream | wait for headers, drain pre-mux buffers, pop and write, split, finalize |

They interact through two mutexes (`premux_mutex`, `mux_mutex`), their condition
variables and atomics. Hard here: a stop or a failure at any moment; producers
that end before or after the headers are known; a full queue at a stop; audio that
opened before or after the picture; a segment boundary between packets of several
producers. Correct means: packets reach the files in order, once, in segments that
play on their own; what was accepted is written or accounted for; every worker
ends; every file that was written is reported.

### Split requests (`split_sentinel_policy.h`, `video_thread.cpp`, `mux_thread.cpp`, `RecordingCoordinator`)

The user (button or hotkey), the size monitor on `MuxThread` and the duration
threshold on `VideoThread` ask for boundaries. The first two write one packed
64-bit word (sequence, last trigger, mask of triggers) by compare-exchange;
`VideoThread` reads it once per frame, forces an IDR, and emits a sentinel in front
of the packet of that frame when it comes out of the encoder. Hard: requests that
land between the load and the exchange, ordinary keyframes already in the encoder,
the coordinator's own pending flag consumed on another thread. Correct means: every
request is consumed once, attributed to its trigger, and cuts at the forced frame.

### Segment publication and recovery (`src/app/services`)

`RecordingCoordinator` creates the partial artefact and its recovery entry, takes
each finalized segment in `OnSegmentCompleted` (on `MuxThread`), remuxes MP4
segments on a pool of one thread, and publishes at the end of `Record`.
`RecoveryManifestStore` persists the entries, `RecoveryService` offers what a dead
process left behind. State: artefacts and outputs on disk, the manifest, the
current id, the job list. Hard: a process death between any two of remux, publish,
delete, unlist; any of them failing; the handover of ids at a boundary; the
decision how to finish. Correct means: the last copy of a segment is never deleted,
what is recorded stays recoverable until it is published, and "Completed" means
that everything is at its final name.

### The lifecycle of recordings (`RecordingCoordinator`, `recorder_session.cpp` and its headers)

The GUI thread starts, stops, cancels, pauses and resumes and asks for snapshots;
the recording thread prepares, commits, calls `Record` and posts what became of it;
`Record` resets a `SessionState`, starts the workers and waits for them. State: the
coordinator's flags and `state_`, the minted request id; in `RecorderSession::Impl`
the active request, the recording flag, `PendingStopTracker`, the current
`SessionState` and whether workers were leaked; a `SessionCallbackGate` per call.
Hard: a stop in any of the windows between "cancel", "commit", "Record called",
"state reset" and "workers up"; a stop left over from an earlier recording; workers
that outlive their recording; callbacks on their way when `Record` returns. Correct
means: a stop reaches the recording it was meant for and no other, a stopped
recording ends whatever the workers do, and nothing of an abandoned worker reaches
the caller or the next recording.

### The capture hub and the preview's lease (`CaptureHubCommandQueue`, `CaptureHubGate`, the DXGI and WGC hub services, `RecordPreviewAdapter`)

Windows allows one duplication of an output per process, so the preview's capture has
to be gone before a recording opens its own. The preview belongs to the GUI thread,
the capture to a pump thread, the recording start to a worker thread. State: a queue
of commands with serials, the gate (leased, subscribed, deferred), the hub of the
current source, the preview's epoch, the flag that says the engine feeds the preview.
Operations: subscribe, unsubscribe, request a lease and wait for the answer with a
timeout, return it when a terminal state reaches the GUI thread; on the pump, drain
and apply, capture, lose the device and rebuild it. Hard: a subscribe that is already
queued when the lease is asked for, a pump that is slow, a device that is lost under
either, states delivered late. Correct means: an answered lease stands until it is
returned, no command is lost or overtaken, and a pump that runs answers.

### The updater (`src/apps/updater`, `src/libs/update`)

`exosnap-updater.exe` has a window thread and a worker. The worker runs download,
close the app, install, verify, launch; a portable installation is replaced by two
renames of sibling directories, an MSI one by an elevated `msiexec`. State: the three
directories, the worker's position, queued calls and signals, and the window's flow
state (phase, failure, retry entry, what it says of the installation). Hard: a rename
or deletion that fails half way, a process death between two of them, a new version
that does not start or hangs and keeps its files locked, a retry on what an earlier
attempt left, a cancel that arrives late. Correct means: there is always a complete
version in the install or the backup directory, and what the window says about it is
true.

### The clip player (`edit_player_engine.cpp`, `edit_player_session.cpp`, `wasapi_audio_render.cpp`, `EditPlayerWorker`, `EditPlayerAdapter`)

A playback run has a demux thread, two decode threads and the render thread of the
audio endpoint, which is the clock; a scrub runs a seek thread on the same decoder; a
worker thread receives the GUI thread's calls and joins all of them. State: two
bounded packet queues whose limits depend on each other, the sample ring, the latched
clock, the presentation gate. Hard: joining threads that are parked in a full ring, a
full queue or behind the read-ahead gate; an audio track shorter than the video; an
endpoint that fails; seeks that overtake each other. Correct means: the decoder has one
user at a time, every call returns, playback ends, and the frame the user asked for is
shown.

### The remaining parts

* `MatroskaStreamWriter`: reorder window, clusters, cues, incremental commits.
* Encoders (NVENC, AMF, QSV): slot ring, asynchronous reaping, flush.
* The hand-off document (`src/libs/update_handoff`), export and trimming.
* Control channel, capability detection, crash capture, settings, user interface,
  diagnostics, automation, developer tools.

`PROJECT.json` gives the status of each, and under `hazards` the lines where
something can go wrong that a test would hardly reach.

## Modules and how they correspond to the code

| module | models |
|---|---|
| `AvEpochAlign` | the pure arithmetic of `av_epoch_align.h`: plausible epochs, the clamped shift, placement on a segment's timeline |
| `MediaPipeline` | the three kinds of worker thread and `SessionState` |
| `MediaPipelineProps` | its properties |
| `MediaPipelineProofs` | its theorems on types, ends of stream, the queue, epochs and shifts |
| `MediaSegmentProofs` | its theorems on the files of a split recording and on the packets in them |
| `SplitBoundary` | the request word and the boundaries, at the granularity of atomic operations, with its properties |
| `SplitBoundaryProofs` | its theorems |
| `SegmentPublish` | one session of `RecordingCoordinator` with the remux pool, crashes and recovery, with its properties |
| `SegmentPublishProofs` | its theorems |
| `RecordingLifecycle` | `RecordingCoordinator`'s two threads, `RecorderSession` and the workers of several recordings, with its properties |
| `RecordingLifecycleProofs` | its theorems |
| `CaptureLease` | abstract: what the capture service promises its two clients |
| `CaptureHub` | the service as built, the preview adapter and the recording start, with its properties and the refinement mapping |
| `CaptureHubProofs` | its theorems |
| `Updater` | the updater's window thread and worker, the directories, MSI, process deaths, with its properties |
| `UpdaterProofs` | its theorems |
| `EditPlayer` | the clip player's seven threads, with its properties |
| `EditPlayerProofs` | its theorem |
| `MC*` | constants of the instances that TLC checks |

`MediaPipeline` includes `AvEpochAlign`. `SplitBoundary` looks through a magnifying
glass at what `MediaPipeline` does in one step (`MaybeArmSplit`), and
`SegmentPublish` starts where `MediaPipeline` ends: its `Boundary`, `OpenNext` and
`SessionEnd` are what the segment callback and the return of `Record` look like
from the coordinator. `RecordingLifecycle` is the frame around both: its workers are
`MediaPipeline`'s threads reduced to "captures, writes, calls back, ends or hangs",
and its `Finish` is `SegmentPublish`.

**MediaPipeline.** A variable has the name of the field it stands for
(`stop_requested`, `video_premux`, `mux_queue`, `split_armed`, `seg`,
`segment_pending_audio`...). `vpc`, `apc`, `mpc` say where a thread is; `vheld` is
the packet for which `VideoThread` waits in `WaitForMuxQueueRoom`. `written` is what
reached the disk and `reports` the calls of the segment callback; `vsent` and
`asent` record what a producer handed over, `frame_idx` counts what the encoder was
given. `AudioEpochs[t]` are the measurements a packet of track `t` may publish: 0 stands
for a packet without a timestamp, which publishes nothing (`audio_thread.cpp:766`), and
`untimed` remembers the tracks that began with one. A step is what a thread does between
two points where another thread can see or change something: a critical section, an
atomic, a wait. Three places are finer than that because the order inside them
matters:

* `MuxCheckHeaders` and `MuxBlock` separate the predicate of `premux_cv.wait` from
  the block. `PremuxUnlocked` keeps everybody who needs `premux_mutex` out of the
  gap; `RequestCleanStop` does not need it.
* `RequestCleanStop` sets the flag, and `NotifyWaiters` is its later `notify_all`.
* `MuxDrainHeld` replays held audio one packet at a time; `MuxBusy` keeps
  `MuxThread` from doing anything else meanwhile.

A timed wait may run out whenever the code would still be waiting. A packet is its
stream, position, PTS and keyframe flag.

**SplitBoundary.** The word is the record it packs. A compare-exchange loop is one
atomic update, since a failed exchange changes nothing; the single exchange of
`maybeArmSplit`, which is not repeated, is modelled with its failure (`Consume`).
`VideoLoad` and `VideoArm` separate its load from everything after it. `asks` and
`boundaries` are history: what was requested, and which boundaries `VideoThread`
emitted with which requests.

**SegmentPublish.** One action per durable effect, so that a process death
(`Crash`) can fall between any two. An artefact is `empty` (created), `open` (being
written, or cut off), `clean` (finalized) or `none`; an output is `whole`,
`salvaged` (made from an artefact that was not finalized) or `none`. Staging files
are private to one remux and are left out: only the atomic replacement that
publishes them is a step. A mutation of the manifest is load, change and save
(`Loaded`): a save can fail (fault `manifest`), and a manifest that cannot be read counts
as empty (fault `load`), which `Add` then saves with its own entry alone, while
`UpdateFinalized` and `Remove` find nothing to do. A file that could not be opened
(`missed`) fails the recording, but the drain may still open the next one (`OpenNext`).
`rpc` is the recording thread, `cpc` the callback on
`MuxThread`, `job[s]` the pool's work on segment `s`, `rec` the recovery of the next
launch. `target` is whether a name for the remuxed segment could be derived.
`route`, `unasked` (a boundary nobody asked for), `unlisted` (segments whose entry could
not be written, was lost by an `Add`, or was never tried), `unnamed` (segments without a derivable final name) and `discarded` are
history.

**RecordingLifecycle.** `gui` and `rpc` are the places of the GUI thread and of the
recording thread; their steps are separated wherever the code releases a mutex or
reads one atomic and writes another, so `RecorderSession::Stop` is `StopLocked` (under
`state_mutex`) and `StopSignal` (on the state object it took). `session` holds the
`SessionState` objects, and `bound[r]` says which one the call for request `r`, and
each of its workers, uses: that two calls may share one is the point. `producer[r]`
stands for the video and audio workers together. A worker that hangs takes no step;
the waits give up at any moment after a stop (`JoinProducers`) or after `StallWindow`
polls without progress (`PollMux`). The gate is modelled in the two looks of `Invoke`
and the two steps of `Close`. `stop_asked` and `stop_done` (the user began, ended a
stop of the current request), `undrained` and `snapshot` are history. The GUI thread
is one thread, as in the code: live commands do not overlap each other.

**CaptureHub.** `pump`, `batch` and the variables below it are `WorkerProc`, the loop
that the DXGI and the WGC service share; `kind` says which service, since only WGC can
lose its device and rebuild it (`Rebuild`, `GiveUp`, `NoRebuild`). A command is applied
in one step: the gate's decision (`StepCaptureHubGate`) and the registry and hub calls
it asks for (`ApplySubscription`, `DropSubscription`, `Apply` with `StepCaptureHub`).
A GUI handler that posts several commands has them in `todo` and posts them one at a
time (`HandlerPosts`), because the pump may drain in between. `posted` holds the states
the coordinator queued to the GUI thread; `DeliverState` is their delivery, and the
place where a terminal state returns the lease. The release hook is three steps: the
flag, the request, the wait (`HookFlag`, `HookRequest`, `HookReturns`). Serials are the
code's; `lastReturn` is history. The map gives the DXGI service's lines for what both
services do.

`CaptureLease` is the abstract specification: one sequence of commands, each taking
effect by itself, on three facts (which preview is wanted, is the capture lent, does
the preview hold one). `Lease == INSTANCE CaptureLease WITH ...` maps batch and queue
to that sequence, the gate's `subscribed` or `deferred` epoch to the wanted preview, and
the open producer to the capture. `ImplementsLease` is checked by TLC and proved.

**Updater.** A directory holds a tree: a version and which of its parts are still there,
so that an interrupted deletion leaves a remnant (`Remnants`). `w.at` is the worker's
place, at the granularity of directory operations; each can succeed, fail, or be cut off
by `Killed`. Signals to the window travel through `sig`, and `g` is what the window's
thread made of them. `Locked` is the operating system's rule that the files of a running
program can be neither deleted nor renamed. `app` is the program that runs there:
`handed` if it is the one that started this updater and whose end `CloseApp` waits for,
`hung` if it never reached the single-instance mutex, which is all a manual `CloseApp` and
the launch look at. `kind` says what the verified package turns
out to be: good, without an executable, of another version, hanging, not launchable.
`doors` records the two ways in which the code gives up the last complete tree: a
deletion left half done, and `RepairOrphanedSwap` failing with its result ignored.
`confirmed` and `was` are history.

**EditPlayer.** A call on the worker thread is a small program (`worker.pc`,
`worker.then`), since `SeekTo`, `Close`, `Open` and the end of a tick all begin with
`Pause`, and `Pause` is stop the endpoint, join its thread, cancel, abort the queues, join
the decode threads. Times count packets. The demux, video and audio threads pop, push
and block as in the code; `Admits`, `ShouldDemuxMorePackets`, `DemuxedThrough` and
`ShouldConvertDecodedFrame` are the functions of `edit_playback_pacing.h`. `RenderBuffer`
is one period of the endpoint, which counts played frames also when the ring is empty.
`item` is the scene-graph item's presentation gate and mailbox.

## Runs

Every passing run has, for each of its properties, a mutant of the model (a dropped
guard, a swapped order, an off-by-one) under which TLC finds the property violated;
`PROJECT.json` lists them.

| run | question |
|---|---|
| `pipeline_core` | Splits by user, duration and size, an asynchronous encoder, a stop at any moment, no faults: order and gaps, self-contained segments, what a session reported as successful may lack (packets only the encoder held at the stop), exact accounting of the audio packets that were handed over and lost, alignment by the measured epoch, `VideoThread`'s boundaries are `MuxThread`'s files, closed files stay closed |
| `pipeline_faults` | Every fault the code handles (preparation, capture, encoder, header, open, write, conversion, finalize, lost source): no worker leaves another waiting, every file with data is reported once, no timestamp becomes negative |
| `pipeline_live` | Two tracks and every fault: the queue bound holds against producers that test it one after the other, and with fair threads a stop or failure ends every worker (but for the header wait below) |
| `split_boundary` | Three writers and one consumer of the request word, and the coordinator's refusal of further requests, which always ends |
| `publish_crash` | Every fault, two process deaths, both containers, automatic splits too: no step deletes the last copy, only whole segments appear at final names while the recording app runs, a recorded segment keeps its recovery entry until it is published (the exceptions are [below](#further-disagreements)), "Completed" means published |
| `updater` | Both entry modes, portable and MSI, every kind of package, two failing file operations, a process death at any point and a second updater: a published outcome is true of the disk (`InstallStateTruthful`), the install or the backup directory holds a complete version at every moment (`SomeTreeWhole`), and the window's in-flight flag is exactly right (`OneCallInFlight`) |
| `capture_hub` | Preview, pump and recording start in any interleaving, a source lost or refused twice, waits that time out: an answered lease stands (`AnsweredLeaseStands`), the settled service serves what was asked for last (`LastCommandStands`), the hub implements `CaptureLease` (`ImplementsLease`), and a pump that runs answers every request (`LeaseAnswered`) |
| `edit_player` | Open, close, play, pause, seek and scrub at any moment, one fault: one user of the decoder at a time (`SingleWriter`), every worker call returns (`CallsReturn`), playback on a working endpoint ends (`PlaybackEnds`) |
| `lifecycle` | Two recordings, stops, cancels, pauses and snapshots at any moment, every fault, workers that hang: stops are honoured and scoped, the end of `Record` is bounded, abandoned workers are isolated, snapshots are answered once, success means joined |

The other runs (`mp4_auto_split`, `updater_restore_lost`, `edit_seek_gated`) show
disagreements, [below](#disagreements-between-the-code-and-what-is-written-about-it).
The deadlock check is on in the recording runs: a session that ended may stutter
(`Terminated`, `Finished`, `Idle`), nothing else may stop. `updater`, `capture_hub` and
`edit_player` are programs that wait for their user, and the bounds on what the user
does end their behaviours; there the check is off, and `LeaseAnswered`, `CallsReturn` and
`PlaybackEnds` say what must not stop.

`SegmentPublish`, `RecordingLifecycle` and `EditPlayer` have a type invariant (`TypeOK`)
that is documentation of their state and not part of a run; each holds on its run's
instance.

## Bounds

* `MediaPipeline`: at most 3 frames and 2 packets per track, pre-mux limits of 1,
  queue limit 1 or 2, encoder depth 1 (synchronous) or 2. With these a pre-mux
  buffer overflows, the queue is full while several producers wait, a keyframe is
  in the encoder when a boundary is armed, and two boundaries follow each other.
  `pipeline_live` has two tracks, one frame and one packet per track: the waits it is
  about need no more. A packet's measurement is a tick before or after the picture, or
  missing, so that a track is also placed before its epoch is known.
* `SplitBoundary`: 6 frames, depth 3, 3 requests of the user, size splits every 2
  frames, duration splits every 3: boundaries of all triggers overlap.
* `SegmentPublish`: 3 segments, so that one is queued, one is being remuxed and one
  is recorded; 2 crashes, so that recovery is interrupted too.
* `RecordingLifecycle`: two requests, since what one recording leaves to another is
  left to the next; two events (presses and faults together) besides workers that
  hang without limit, so that a stop can meet a second press or a fault in the same
  or the next recording; one byte of progress and a window of two polls, so that
  progress seen at a poll starts the window anew. The invariants were also checked
  with three events (7.4 million states).
* `Updater`: two faults, so that a compensation can fail too; one kill and two starts, so
  that an updater meets what a killed one left. The retries are not bounded.
* `CaptureHub`: one recording, three changes by the user, two faults, at most three
  commands that a slow pump has not drained, so that a handler's unsubscribe and
  subscribe are queued beside a lease request, and one rebuild attempt per loss.
* `EditPlayer`: two video and two audio packets, the pictures first, with limits of one
  and two packets and a ring of one: the video queue passes its soft limit because the
  audio queue starves, the ring is full when the second block comes, and every thread can
  be parked when a call wants to join it. Audio that is shorter than the video is met only
  through an audio thread that leaves early. Three operations: play, a seek or scrub on top,
  and a pause, close or open on top of that. Every action fires.

All the safety properties that the passing runs check are also theorems, which remove
these bounds (see What is proved).

No symmetry is used: the two tracks are the only candidates and the run that has
them is small.

## Fairness

`pipeline_live`, `lifecycle`, `capture_hub` and `edit_player` use it. `LiveSpec` has weak fairness for
each thread and for the notification that `RequestCleanStop` is about to send: the
threads are ordinary threads of one process that the system schedules, and every
wait of a producer and of `MuxThread` after the headers is timed (`wait_for`), so a
thread that can move eventually does. Weak fairness is per thread, not per action:
nothing makes the user stop or split, a fault happen, or a frame arrive. The header
wait is the one wait without a timeout, and it is modelled as such: blocked until
notified.

`RecordingLifecycle` assumes weak fairness of the GUI thread's started operations and
of the recording thread, both ordinary threads whose steps here do not block: the
waits in them that are modelled are timed. The workers have no fairness at all.
`StopEnds` therefore says that a stopped recording ends even if every driver call and disk
under a worker, and every callback of one, hangs. Two waits without a bound are assumed to
return: what preparation waits for (devices, disks), and the join of the statistics
collector (`recorder_session.cpp:1024`), whose thread calls the meter, statistics and
diagnostics callbacks.

`CaptureHub` assumes weak fairness of the pump thread alone (`PumpSpec`): its wait has a
tick, and its steps do not block on anyone. The GUI thread and the recording worker owe
nothing. So `LeaseAnswered` says that the pump answers without help, and that the 750 ms
are a bound on time only.

`EditPlayer` assumes weak fairness of each thread, of the delivery of queued calls and
signals, and of the timer while it runs. A decode thread that leaves because of an error,
and an endpoint that fails, are never obliged to; the user is obliged to nothing.

## What is proved

The proofs assume only the named `ASSUME`s of the modules (limits are natural
numbers, an encoder holds at least one frame, the video epoch is not 0, the audio tracks
are finitely many and none of them is the video stream) and hold for any number of
frames, requests, tracks and faults. Every inductive invariant below was checked by TLC
on the constants of the component's run before it was proved.

`SplitBoundaryProofs`

* `TypeCorrect`: `Spec => []TypeOK`.
* `TriggersAttributed`, `MasksComplete`, `ConsumedOnce`, `BoundaryStartsForced`:
  the four safety invariants of `split_boundary`.
* `PendingIsLifted`: while the coordinator refuses further splits, a boundary that
  lifts the refusal is requested, armed or on its way to `MuxThread`.

None of these is inductive: a boundary is emitted from what was armed frames
earlier, and that from a word that was loaded before other requests landed. The
strengthening has three parts. `RequestInv` says what a word stands for: the current
one has the number of requests as its sequence, and both the current and the loaded
one carry the trigger of the request they count and a bit for every request not yet
consumed; it survives both outcomes of the exchange, since a failed one leaves too
many bits and never too few. `ConsumeInv` carries that over to the armed boundary
and to those emitted, and says that an armed boundary starts where the last one
ended. `FrameInv` says that the frames in the encoder are consecutive and that the
forced keyframe of an armed boundary is one of them: then the first keyframe with
that PTS or a later one is that frame. `RequestInv` and `ConsumeInv` rest on each
other only through `split_last_seq`, which never passes the sequence; `PendingIsLifted`
rests on that too.

`MediaPipelineProofs`

* `TypeCorrect`: `Spec => []TypeOK`.
* `ProducersAnnounceEnd`: no producer ends without its sentinel or a recorded failure
  (`NoSilentExit`). With the types it is inductive: `MuxThread` marks a producer's end
  in the step that takes its sentinel out.
* `QueueStaysBounded`: the bound of `mux_queue`. The length alone is not inductive, since
  a full queue must still take sentinels. `RoomInv` counts the packets apart, and for
  the rest says whose they are: one boundary with room for the packet behind it, and one
  sentinel of each producer that has ended, each of which ends once.
* `EpochBeforeMux`: `MuxThread` handles packets only after the video epoch is
  published, for any tracks, limits and faults. `EpochInv` adds the reason: a packet
  exists only after the epoch, the video header comes from a packet, and `MuxThread`
  goes on only with the header. It is why the hold for audio that arrives without an
  epoch (`pending_audio` in `mux_thread.cpp`) has no counterpart in the model.
* `ShiftsAreMeasured`: the shift of a track is the one its published epoch gives, also
  later, unless the track began with packets without a timestamp: such a track may have
  been placed from the session's start, and stays there. `TimedInv` follows a packet: once
  one of the track is about to leave `AudioThread`, waits in the pre-mux buffer or the
  queue, is held for the segment's epoch or has been used, the track's epoch is published,
  and stands, or the track is marked `untimed`.
* `TracksStayAligned`: what the shifts mean. `AudioTimelineShiftNs` clamps what it
  returns; `ClampIsExact` is the lemma that the clamp leaves a plausible epoch's
  distance alone. With `ShiftsAreMeasured` it follows that a track with a plausible epoch
  that did not begin untimed starts exactly as far from the picture, and two such tracks exactly as far from each
  other, as they were captured. An implausible or late epoch falls back to the session's
  start, and for that only the bound of the clamp is stated. It has no run of its own, and holds
  for every bound of the clamp; the instances have a small one.

`MediaSegmentProofs`

* `FilesAreReported` and `ReportsCloseFiles`: when `MuxThread` returns every file it
  wrote into was reported, exactly once, and no step writes into a reported file.
  `FilesInv` relates four counters that two threads keep: the sentinels in the queue
  are in order, above the open file's number and not above `VideoThread`'s
  (`NumberInv`); reports are in order and below the open file; a packet on disk is in
  the open file or in a reported one (`FileInv`); and before the header and after the
  end there is no file (`PhaseInv`).
* `FilesMatchBoundaries`: without a failure there is one finalized file per boundary plus
  the last. `BoundaryInv` adds that every boundary above the open file's number is still
  in the queue, that as many files were reported as the open file's number says, and that
  `MuxThread` leaves only when every end of stream was seen; `EndInv` that the video's
  end of stream is `VideoThread`'s last word, so that no boundary can follow it.
* `FilesAreSelfContained`: the first video packet of a file behind a boundary is a
  keyframe at local time 0. `KeyInv` carries the adjacency that `routePacket` makes
  under one lock: behind each sentinel in the queue stands its keyframe, so that a file
  without an epoch has that keyframe at the head of the queue; and a file's epoch is set
  exactly when its first video packet was written.
* `PacketsStayInOrder`: each stream is on disk in the order it was captured, and no packet
  twice. A packet stands in one of four places, and `LineInv` puts them in line: every
  packet of a stream on disk is older than one that is held for the segment's epoch, that
  older than one in the pre-mux buffer, that older than one in the queue; what is in
  none of them was lost at the head, before everything in the last two. `SortInv` says
  that each place is in order itself, `FreshInv` that what a producer still has to hand
  over is younger, and `ReadyInv` that the pre-mux buffer never fills behind the queue:
  the queue is used only when all headers are known, and `MuxThread` empties the buffers
  before it takes from the queue. Of the frames given to the encoder, the property admits
  two gaps in front of a frame on disk. One is behind a boundary whose file could not be
  opened: `GapInv` and `Hole` say that, without a write error, packets that were handed
  over get lost only while no file is open, and that this file's number stays missing below
  every later one. The other is in the middle of what the encoder held when `VideoThread`
  left its loop: a full queue makes it drop the packet in hand and those reaped with it,
  and the flush may still route younger ones. `EncoderInv` says that the encoder and the
  packet in hand are the youngest frames, at most `EncoderDepth` of them, and that every
  older frame was handed over.
* `VideoIsComplete`: a session reported as a success has every packet that was handed over,
  and of the frames given to the encoder it lacks at most the last `EncoderDepth`.
  `CompleteInv` says that nothing that was handed over is lost as long as nothing failed,
  `EncoderInv` what was not handed over; the rest is `MuxThread`'s last step, which it takes
  with empty buffers.
* `AudioIsAccounted`: in a successful session the trimmed counter is exact for the packets
  that were handed over. (Audio dropped at a full queue during a stop was not, and is
  counted nowhere.) `AudioEndInv`
  says that a sentinel is the last word of its `AudioThread`, so that nothing is handed
  over behind the end. `CountInv` says that the counter is the number of the packets that
  are gone, as pairs of track and number, while nothing has failed and no track
  measured so far starts before the picture. The property has that last condition too:
  `push_audio` drops what predates the picture without counting it.
* `OnlyMuxThreadLoses`: no step but one of `MuxThread` makes a packet that was handed over
  disappear, and none that is gone comes back. It is an action property without a run of
  its own, since "gone" is defined by the four places of `LineInv`.

These three properties are stated by index (`OnDisk`, `Sent`) and not with `SelectSeq`,
for which the library states no facts; the runs check the same definitions.

`SegmentPublishProofs`

* `PublishInvariant`: `Spec => []PublishInv`, the inductive invariant below.
* `PublishesWhole`, `EntriesProtect`, `CompletedPublished`: the three safety invariants of
  `publish_crash`, and `LastCopyStays`: no step deletes the last copy of a segment.

The properties speak of files and entries, the steps of three threads, a pool and a
recovery. `FlowInv` says which of them run together and on which route; `JobInv` which
jobs exist and that an active one is listed, so that the drain finds it. `CopyInv` is the
order the code relies on at every deletion: published first, on each of the four routes
and in recovery; `LastCopyStays` follows from it. `WholeInv` says that before the first
process death everything behind the current segment is finalized or gone; `IdInv` that a
job and the callback hold the manifest id of their own segment, without which removing
an entry could bare another segment (`EntryInv`); `NameInv` that the verdict of a job
is kept from the moment it is no longer listed until `Completed` is decided. `MissedInv`
says that a segment that could not be opened, or is still to come, has no file, and that a
recording with such a segment has failed.

`EntriesProtect` is not unconditional. Its exceptions are segments whose entry could not be
written, was lost when the next one was added to a manifest that could not be read, or was
never tried because the file was opened after a failed open; `Unprotected` and `unlisted`
name them, and the theorem is that there are no others.

`RecordingLifecycleProofs`

* `CallbacksEnd`: after the gate of a `Record` call is closed and drained no callback
  of its workers runs, but one that `Close` reported. The property says nothing of the
  gate; `CallbackInv` adds that a call that is over has a closed gate or never had
  workers (`GateInv`; the second case is `failPrepare`, which leaves its gate open), that
  calls not yet made have neither (`UnbornInv`), that requests are taken in order
  (`OrderInv`), and that a start is accepted only while the recording thread is idle
  (`StartInv`, from the states the threads post).
* `AbandonedIsolated`: a worker that was given up never shares its `SessionState` with a
  later recording. `LeakInv` adds the reason: whoever still runs on the current state is
  marked as leaked or belongs to the call that is waiting for it (`LeakedInv`), because a
  worker counted as joined has ended (`JoinedInv`); and states only grow (`BindingInv`).
* `SuccessJoined`: a success is reported only when the recording's own workers have
  ended. `SuccessInv` adds that what was counted as joined has ended and stays so up to
  the verdict (`VerdictInv`), that only a running worker calls back (`CallingInv`), and
  where a result can be at all (`ResultInv`).
* `StopsAreScoped` and `StopsAreHonoured`: a recording is stopped only by a stop of its
  own, and a stop that returned is in effect. One needs that no stop is kept too long, the
  other that none is dropped, and both are about the same hand-overs, so they share
  `StopInv`: while a request is prepared or made, no other one is current (`FlowInv`); a
  call runs on the current state until the next takes over (`CurrentInv`); every stop
  noted for the newest request, in the set, in the flag taken from it or in the state, was
  asked for (`ScopeInv`); and a stop that returned, or is between its lock and its
  signal, is in one of these places, or the cancel flag is up before the look that
  follows the commit (`HonourInv`).
* `SnapshotsAreAnswered`: at most one answer, and one for every accepted request.
  `SnapshotInv` says that a request is in one place only, and there unanswered
  (`PlaceInv`), that the GUI's half-made request names the call and the state it found
  (`AskedInv`, `OpenInv`), and that an unanswered one is where its worker or the sweep
  after the join will find it (`OwedInv`).

All hold for any number of requests, presses, snapshots and faults, and for workers
that never end.

`CaptureHubProofs`

* `HubInvariant`: `Spec => []HubInv`, the inductive invariant below.
* `AnsweredLease`: `Spec => []AnsweredLeaseStands`.
* `LastCommand`: `Spec => []LastCommandStands`.
* `Refinement`: `Spec => ImplementsLease`, that is, every step of the pump, the GUI thread
  and the recording worker is a step of `CaptureLease` or leaves it unchanged.

`AnsweredLeaseStands` speaks of the worker's serial and of the gate, which are two threads
apart. `HubInv` closes the distance: `ShapeInv` says what gate, registry, hub and open
capture imply of each other (a leased gate has no open capture; a hub exists exactly while
a subscription is held), `SerialInv` that serials grow along batch and queue above the last
answer, and `LeaseInv` that a lease that was answered after the newest return leaves the
gate leased, and that no return still on its way is newer than the newest one posted. The
refinement needs the same facts: a command drained from the queue into the batch must not
change the mapped sequence (it is their concatenation), and an applied command must be its
head. The GUI's and the worker's own steps are either one `Post` or invisible.

`LastCommandStands` holds only when everything has come to rest. `CommandInv` says what
leads there: what a handler has still to post agrees with the flags it has set
(`TodoInv`); between handlers the commands not yet applied, batch before queue, end with
what the adapter asked for last, or there are none of the preview's and the gate already
says so (`WishInv`); the pump serves what the gate names and puts off a subscription only
while the capture is lent (`ServeInv`).

`UpdaterProofs`

* `FlightExact`: `in_flight` is set exactly while a call is queued, runs or its terminal
  signal is on its way. `InFlightInv` adds that the three exclude each other, that there is
  never a second terminal signal, and that a dead process leaves none of them.
* `TreeSurvives`: until one of the two named doors is opened, install or backup holds a
  complete version. `DiskInv` gives, for each place of the worker between two file
  operations, which directory that is, and that a directory is whole or absent.
* `StateTruthful`: the published installation state is true of the disk. It is published
  from a signal that was sent earlier, so `ClaimInv` states of every queued signal what it
  claims of install and backup (`Claimed`), that it stays true while nothing else runs
  (`InFlightInv` again), and that a call that has not touched the installation found it
  fine (`FineInv`).

`EditPlayerProofs`

* `OneWriter`: a scrub seek never decodes while a playback thread runs or is started, and
  nothing runs on a closed session. `HandInv` says in which places of the worker the
  playback threads have ended (`ThreadsInv`: after the join and until the start; running
  threads mean a playing session or a pause that is joining them), that every call past
  its first test has an open session (`OpenInv`), and where a play that falls back to no
  audio stands (`PlayInv`).

Model-checked only:

* `StopFinishes`, `StopEnds`, `LeaseAnswered`, `CallsReturn` and `PlaybackEnds`: liveness
  under fairness is outside what the prover does.
* Of what `AvEpochAlign` computes, the shift is covered (`TracksStayAligned`); the placement
  on a segment's timeline is used by the theorems as it stands.

## Disagreements between the code and what is written about it

Three are runs that TLC ends with a counterexample; the quoted lines are in
`PROJECT.json`.

| run | what happens |
|---|---|
| `mp4_auto_split` | In an MP4 session an automatic boundary neither schedules a remux nor adds a recovery entry; only the first segment is published and Completed is posted |
| `updater_restore_lost` | The new version hangs, the restore cannot delete its locked executable, and the retry's swap begins by deleting the backup, the last complete tree of the old version; the rename then fails and the window says that the installation is intact |
| `edit_seek_gated` | A seek during playback pauses the session but not the tick timer; the next tick publishes the latched clock, and the frame of a backward seek is dropped by the gate that "never" gates it. A later pause returns early, so the gate stays closed for scrubbing until the next play and pause |

### Further disagreements

Each is a property stated in a module and refuted by TLC when it is put into a
configuration of its own: that of the named run with this property alone and the change
in the last column (`CapturesNeverOverlap` also fails when the wait times out, which the
code accepts; the change excludes that). What the code or a doc says is quoted.

| property | what happens | configuration |
|---|---|---|
| `MediaPipelineProps.HeaderWaitEnds` | A stop between the predicate and the block of the header wait (`mux_thread.cpp:98`) is not noticed, since `RequestCleanStop` notifies without the mutex; `recording-pipeline.md:19`: "Stop/failure wakes the waiters" | `pipeline_live` |
| `MediaPipelineProps.AudioOnTimeline` | Audio held for a segment's first video packet is shifted before it is held and again when it is replayed (`mux_thread.cpp:459`); `mux_thread.cpp:391`: the shift "puts an audio track's session PTS on the video timeline" | `pipeline_core` |
| `MediaPipelineProps.MeasurementIsUsed` | A track whose first packet carries no timestamp is routed without publishing an epoch (`audio_thread.cpp:766`); `MuxThread` places it from the session's start, and the epoch a later packet publishes is never used; `audio_thread.cpp:449` says of `publishAudioEpoch`: "Called from EVERY path that first puts frames on the encoder timeline" | `pipeline_core` |
| `SplitBoundary.RepeatedRequestsCountAsOne` | A request between arming and reaching a boundary makes a second one (`video_thread.cpp:2868`); `recorder_session.h:781`: "repeated requests before the previous boundary is reached count as one" | `split_boundary` |
| `SegmentPublish.SingleFileMeansNoSplits` | If the boundary reaped all finished jobs, a split MP4 session takes the branch commented "Single-file MP4 path (no splits)" (`RecordingCoordinator.cpp:2121`) and remuxes the first artefact instead of the last | `publish_crash`, `AutoSplit = FALSE`, no faults, no crashes |
| `RecordingLifecycle.PausedMeansPaused` | `Recording` is announced before `Record` resets the session's flags (`RecordingCoordinator.cpp:1476`); a pause in between is accepted, shown and erased | `lifecycle` |
| `CaptureHub.CapturesNeverOverlap` | A terminal state queued before a second start is delivered after the hook set its flag and returns the new recording's lease; `RecordingCoordinator.cpp:1441`: "The hook blocks until the hub's is closed, so the two never overlap" | `capture_hub`, `Spec`, `MaxSessions = 2`, `Timeouts = FALSE` |
| `CaptureHub.RebuildNotAbandoned` | One failed device creation leaves no subscription, so `SourceLost()` is never asked again (`WgcCaptureHubService.cpp:267`): neither the attempts that `DeviceRebuildPolicy` allows nor the give-up "Reported once, and honestly" (`:310`) follow | `capture_hub`, `Spec`, `MaxAttempts = 2` |
| `Updater.NoUnconfirmedInstall` | When staging fails during a manual download the failure is `InstallFailed`, whose retry entry is Install: the retry swaps without "Install now"; `apps/updater/main.cpp:694`: "A manual retry must re-enter the manual flow" | `updater` |
| `Updater.CancelledMeansUntouched` | A cancel accepted while the window still shows Downloading is observed by the wait for `msiexec`, which goes on; `UpdaterWorker.h:186`: "nothing was installed and nothing broke" | `updater` |
| `EditPlayer.PlaybackAlwaysEnds` | An endpoint that fails or does not start leaves the clock where it is and playback running; `edit-and-export.md:27` promises a fallback "rather than waiting for an audio cursor that cannot advance" | `edit_player` |

Seen while modelling, with narrower windows or smaller consequences, and not runs of
their own:

* If the queue is full at a stop and drains before the flush, the dropped packets
  leave a hole and not a shorter tail, among the frames the encoder held. The session is
  still a success, with a warning in the log; audio dropped there is in no counter.
* A manifest that cannot be opened or parsed is loaded as an empty list
  (`RecoveryManifestStore.cpp:86`), and `Add` saves that list with its own entry: the
  entries of all other segments are gone, and only a log line says so. An `Add` of a later
  launch, which is not modelled, could lose entries of earlier sessions in the same way.
* If the file of a boundary cannot be opened, the failure is recorded, but the drain that
  follows still handles later boundaries and opens a file again
  (`begin_new_segment`, `mux_thread.cpp:619`): packets between the two boundaries are
  skipped, and those behind are on disk although older ones are not. The coordinator is
  told nothing of such a file when it begins, so it has no recovery entry. The session is
  a failure either way.
* If a request lands between the load and the exchange of the split word, the next
  boundary's mask still holds triggers of the previous one.
* An automatic boundary that lands while the user's request is pending is announced as
  the user's.
* A final name that cannot be derived at a boundary leaves the next segment without an
  entry, which is only logged (`RecordingCoordinator.cpp:1829`).
* A final name that cannot be derived ends the publication of an MKV session without
  failing it; after a failed publication its later segments have no recovery entry.
* After an engine failure the result is posted while a remux may still run.
* `StopRecording` and `PauseRecording` test `is_recording_` and post their state later.
  If the recording thread posts its result in between, `state_` stays `Stopping` (or
  `Paused`) and `StartRecording` refuses from then on; `is_paused_` can stay set for the
  next recording in the same way.
* A snapshot accepted before a failed preparation of the audio sources, or after
  `Record` closed its gate, is never answered, although `recorder_session.h:848` says
  that its callback fires.
* Updater: the result of `RepairOrphanedSwap` is ignored (`UpdaterWorker.cpp:807`); a
  staging remnant that still has the executable, of an old tree or of an extraction that
  failed and could not be wiped (`UpdaterWorker.cpp:691`), is promoted by a retry; a download error
  after a failed restore publishes "intact"; a step that stays `Working` after a failed
  verification blocks the close button; a queued `run()` clears the cancel that shutdown
  has just set (`UpdaterWorker.cpp:280`).
* Capture hub: `setPreviewTarget` while the engine feeds the preview is not applied when
  the lease comes back; `RevalidateCapabilities` treats Saving as idle; the rebuild budget
  is renewed on the next pass although no frame has come.
* Clip player: a `reachedEnd` that is handled after a quick pause and play leaves the
  page paused while the session plays; a frame can be delivered after the item was cleared.

Passing properties are stated next to these: `InstallStateTruthful` and `SomeTreeWhole`
hold until one of `doors` is opened; `PlaybackEnds` asks for a working endpoint;
`AnsweredLeaseStands` is about a lease that nobody returned; `StopFinishes` excepts the
header wait;
`ShiftIsMeasured` excepts tracks that began without a timestamp;
`NamedSegmentsPublished` is about segments whose name could be derived; it and
`SegmentsProtected` except a misrouted session and an MP4 session with an automatic
boundary; `SegmentsProtected` covers the first segment of an MKV session only, and none whose entry
could not be kept;
`SnapshotsAnswered` is about snapshots accepted while the workers ran.

## What is not modelled

* Pixels, samples and bytes; wall-clock time; pausing, which in the pipeline only
  means that fewer packets are produced.
* The operating system's part: Direct3D, WGC, DXGI, WASAPI, drivers.
* The parts of the inventory marked `not_modelled` in `PROJECT.json`, with the reason
  for each. User interface, settings, diagnostics and tools never feed back into the
  recording path; the others are in the plan.
* More than one session per launch in `SegmentPublish`: what survives from one
  publication to the next (`remux_cancel_requested_`, the job list, the entries of earlier
  sessions) is not covered.
* In the updater: the transfer, signatures, hashes and unpacking (each succeeds or
  fails), the hand-off document, the control endpoint, and the start-up repair of
  `ProductionBootstrap.cpp`; an MSI installation takes effect in one step. In the capture hub: frames, colour, the choice of a source,
  and an item attached over another. In the clip player: export and trimming,
  thumbnails, several audio tracks, failures of the seek that starts a playback run, the
  overload valve.
* In the lifecycle: the statistics collector, mute and webcam commands, `DismissResult`, the low-disk monitor as
  a third caller of `Stop`, a null thread handle (which skips both joins), the queued
  delivery of posted states, and the time between `RequestSplit`'s look at `recording`
  and its lock, which the single GUI thread cannot fill.

## Plan

Done: `MediaPipeline`, `SplitBoundary`, `SegmentPublish`, `RecordingLifecycle`,
`CaptureHub` with `CaptureLease`, `Updater`, `EditPlayer`. Left, most important first:

1. In `RecordingLifecycle` the low-disk monitor's stop and the live mute; in
   `SegmentPublish` a second session of the same launch.
2. `MatroskaWriter`: the reorder window and its flush at finalize; timestamps within
   a file never go back, the window is bounded, nothing is left in it.
3. `EncoderRing`: slots and asynchronous reaping; it implements the FIFO of bounded
   depth that `MediaPipeline` assumes (a refinement).
4. An abstract `Recording` (packets accepted, a suffix lost at most, segments) that
   `MediaPipeline` implements, and an abstract request counter that `SplitBoundary`
   implements.
5. `DeriveSegmentPath` as a pure operator against its reference.

Theorems: the refinements of 3 and 4.
