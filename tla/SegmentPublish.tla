--------------------------- MODULE SegmentPublish ---------------------------
(***************************************************************************)
(* How the segments of one recording become files the user finds:          *)
(* RecordingCoordinator prepares the session and its recovery entry, takes *)
(* every finalized segment from the engine (OnSegmentCompleted), remuxes   *)
(* MP4 segments on a one-thread pool, and finishes the session             *)
(* (RecordingThreadProc, RunRemuxJob).  The process may die between any    *)
(* two steps; the next launch scans the recovery manifest                  *)
(* (RecoveryService).                                                      *)
(*                                                                         *)
(* Segment i has a valuable artefact (the .partial the engine writes) and  *)
(* an output (its final name); a manifest entry is named by its segment.   *)
(* Staging files of a remux are private to it (MakeSiblingTempPath), so    *)
(* only the atomic replacement that publishes them is modelled.            *)
(***************************************************************************)
EXTENDS Integers, FiniteSets

CONSTANTS
  MaxSegments,   \* bound: segments of the recording
  Containers,    \* containers the session may have
  AutoSplit,     \* TRUE: duration or size splits are configured
  Faults,        \* which faults may happen
  MaxCrashes     \* bound: process deaths

FaultKinds == {"manifest", "load", "path", "remux", "move", "engine", "disk"}

ASSUME PublishAssumption ==
  /\ MaxSegments \in Nat \ {0} /\ MaxCrashes \in Nat
  /\ Containers \subseteq {"mkv", "mp4"} /\ AutoSplit \in BOOLEAN
  /\ Faults \subseteq FaultKinds

Segments == 0 .. MaxSegments - 1
NoId == -1

VARIABLES
  app,               \* "up" or "down"
  container,         \* the session's container
  settings,          \* the container in output_settings_, editable at any time
  rpc,               \* the preparation and recording thread
  cpc,               \* OnSegmentCompleted, on MuxThread
  cur,               \* the segment the engine writes
  split_pending, cancel,
  engine_ok,         \* result.succeeded of Record()
  succeeded,         \* ui_result.succeeded
  current_id,        \* current_manifest_id_
  next_id, target,   \* locals of OnSegmentCompleted
  job,               \* remux job of a segment: [id, step, ok]
  listed,            \* segment_remux_jobs_
  reaped_failed,     \* reaped_segment_remux_failed_
  pub,               \* next segment of the MKV publication loop
  result,
  artefact, output, master, manifest,  \* on disk
  rec,               \* recovery: [seg, step]
  crashes,
  missed,            \* segments whose file could not be opened
  route, unasked, unlisted, unnamed, discarded  \* history

disk   == <<artefact, output, master, manifest>>
cb     == <<cpc, next_id, target>>
remux  == <<job, listed, reaped_failed>>
finish == <<engine_ok, succeeded, pub, result>>
user   == <<settings, split_pending, cancel>>
hist   == <<missed, route, unasked, unlisted, unnamed, discarded>>

vars == <<app, container, user, rpc, cb, cur, finish, current_id, remux, disk,
          rec, crashes, hist>>

Up == app = "up"

-----------------------------------------------------------------------------
(* RecoveryManifestStore: each mutation loads the file, changes the entries    *)
(* and replaces the file atomically.  The replacement may fail without effect. *)
(* A file that cannot be opened or parsed loads as an empty list, in which no  *)
(* entry is found to update or to remove, and to which Add still appends.      *)

MayFail(fault) == IF fault \in Faults THEN BOOLEAN ELSE {TRUE}

Entries == {e.seg : e \in manifest}

\* LoadLocked
Loaded == {manifest} \cup (IF "load" \in Faults THEN {{}} ELSE {})

Add(seg, ok) ==
  \E loaded \in Loaded :
    manifest' = IF ok THEN loaded \cup {[seg |-> seg, finalized |-> FALSE]}
                      ELSE manifest

\* The segments whose entry an Add could not write, or lost.
Unprotected(seg) == (Entries \cup {seg}) \ Entries'

UpdateFinalized(id) ==
  \E ok \in MayFail("manifest") \cup MayFail("load") :
    manifest' = {[e EXCEPT !.finalized = (e.finalized \/ (ok /\ e.seg = id))] :
                   e \in manifest}

Remove(id) ==
  \E ok \in MayFail("manifest") \cup MayFail("load") :
    manifest' = {e \in manifest : e.seg # id \/ ~ok}

-----------------------------------------------------------------------------
(* Preparation (PrepareAndRecordThreadProc) *)

\* PartialArtifactTransaction::Create, then the recovery entry; its id is
\* adopted only if the entry reached the disk.
PrepareCreate ==
  /\ Up /\ rpc = "create"
  /\ artefact' = [artefact EXCEPT ![0] = "empty"]
  /\ rpc' = "protect"
  /\ UNCHANGED <<app, container, user, cb, cur, finish, current_id, remux, output,
                 master, manifest, rec, crashes, hist>>

PrepareProtect ==
  /\ Up /\ rpc = "protect"
  /\ \E ok \in MayFail("manifest") :
       /\ Add(0, ok)
       /\ current_id' = IF ok THEN 0 ELSE NoId
       /\ unlisted' = unlisted \cup Unprotected(0)
  /\ rpc' = "commit"
  /\ UNCHANGED <<app, container, user, cb, cur, finish, remux, artefact, output,
                 master, rec, crashes, missed, route, unasked, unnamed, discarded>>

\* The last cancellation checkpoint: cancel_unwind drops the entry and the
\* uncommitted partial is deleted.
PrepareCancel ==
  /\ Up /\ rpc = "commit"
  /\ current_id' = NoId
  /\ Remove(current_id)
  /\ artefact' = [artefact EXCEPT ![0] = "none"]
  /\ rpc' = "posted"
  /\ UNCHANGED <<app, container, user, cb, cur, finish, remux, output, master,
                 rec, crashes, hist>>

PrepareCommit ==
  /\ Up /\ rpc = "commit"
  /\ artefact' = [artefact EXCEPT ![0] = "open"]
  /\ rpc' = "recording"
  /\ UNCHANGED <<app, container, user, cb, cur, finish, current_id, remux, output,
                 master, manifest, rec, crashes, hist>>

-----------------------------------------------------------------------------
(* The user *)

\* SetOutputSettings: the next recording's container, also while one runs.
EditSettings ==
  /\ Up /\ rpc = "recording"
  /\ settings' \in {"mkv", "mp4"} \ {settings}
  /\ UNCHANGED <<app, container, split_pending, cancel, rpc, cb, cur, finish,
                 current_id, remux, disk, rec, crashes, hist>>

\* RequestSplit: gated by the container in the settings, one at a time.
RequestSplit ==
  /\ Up /\ rpc = "recording" /\ settings = "mkv" /\ ~split_pending
  /\ split_pending' = TRUE
  /\ UNCHANGED <<app, container, settings, cancel, rpc, cb, cur, finish,
                 current_id, remux, disk, rec, crashes, hist>>

CancelRemux ==
  /\ Up /\ ~cancel
  /\ cancel' = TRUE
  /\ UNCHANGED <<app, container, settings, split_pending, rpc, cb, cur, finish,
                 current_id, remux, disk, rec, crashes, hist>>

-----------------------------------------------------------------------------
(* OnSegmentCompleted at a boundary, inside MuxThread's begin_new_segment:    *)
(* the next segment opens when it returns.                                    *)

Protecting == split_pending /\ container = "mp4"

Boundary ==
  /\ Up /\ rpc = "recording" /\ cpc = "idle" /\ cur + 1 \in Segments
  /\ AutoSplit \/ split_pending
  /\ split_pending' = FALSE
  /\ artefact' = [artefact EXCEPT ![cur] = "clean"]
  /\ cpc' = IF Protecting THEN "mark" ELSE "open"
  /\ unasked' = (unasked \/ ~split_pending)
  /\ UNCHANGED <<app, container, settings, cancel, rpc, next_id, target, cur,
                 finish, current_id, remux, output, master, manifest, rec, crashes,
                 missed, route, unlisted, unnamed, discarded>>

BoundaryMark ==
  /\ Up /\ cpc = "mark"
  /\ UpdateFinalized(current_id)
  /\ target' \in MayFail("path")
  /\ unnamed' = IF target' THEN unnamed ELSE unnamed \cup {cur}
  /\ cpc' = "add"
  /\ UNCHANGED <<app, container, user, rpc, next_id, cur, finish, current_id,
                 remux, artefact, output, master, rec, crashes, missed, route,
                 unasked, unlisted, discarded>>

\* The entry of the next segment, written before that segment opens.
BoundaryAdd ==
  /\ Up /\ cpc = "add"
  /\ \E ok \in MayFail("manifest") \cup MayFail("path") :
       /\ Add(cur + 1, ok)
       /\ next_id' = IF ok THEN cur + 1 ELSE NoId
       /\ unlisted' = unlisted \cup Unprotected(cur + 1)
  /\ cpc' = "schedule"
  /\ UNCHANGED <<app, container, user, rpc, target, cur, finish, current_id,
                 remux, artefact, output, master, rec, crashes, missed, route,
                 unasked, unnamed, discarded>>

\* Mutant: the job is given the id of the segment that starts now.
QueueNextId(seg) ==
  /\ job' = [job EXCEPT ![seg] = [id |-> next_id, step |-> "queued", ok |-> FALSE]]
  /\ listed' = listed \cup {seg}

\* QueueSegmentRemux with the current id, and segment_remux_jobs_.push_back.
QueueSegmentRemux(seg) ==
  /\ job' = [job EXCEPT ![seg] = [id |-> current_id, step |-> "queued", ok |-> FALSE]]
  /\ listed' = listed \cup {seg}

\* Mutant: the job remuxes the segment that starts now.
BoundaryScheduleNext ==
  /\ Up /\ cpc = "schedule"
  /\ current_id' = next_id
  /\ IF target THEN QueueSegmentRemux(cur + 1) ELSE UNCHANGED <<job, listed>>
  /\ cpc' = "reap"
  /\ UNCHANGED <<app, container, user, rpc, next_id, target, cur, finish,
                 reaped_failed, disk, rec, crashes, hist>>

\* Handing over the ids and scheduling are one transaction under
\* segment_remux_mutex_.
BoundarySchedule ==
  /\ Up /\ cpc = "schedule"
  /\ current_id' = next_id
  /\ IF target THEN QueueSegmentRemux(cur) ELSE UNCHANGED <<job, listed>>
  /\ cpc' = "reap"
  /\ UNCHANGED <<app, container, user, rpc, next_id, target, cur, finish,
                 reaped_failed, disk, rec, crashes, hist>>

\* ReapFinishedSegmentRemuxJobs
Done(seg) == job[seg].step = "done"

BoundaryReap ==
  /\ Up /\ cpc = "reap"
  /\ listed' = {s \in listed : ~Done(s)}
  /\ reaped_failed' = (reaped_failed \/ \E s \in listed : Done(s) /\ ~job[s].ok)
  /\ cpc' = "open"
  /\ UNCHANGED <<app, container, user, rpc, next_id, target, cur, finish,
                 current_id, job, disk, rec, crashes, hist>>

\* MuxThread opens the next segment.  When it cannot, the recording has failed,
\* but the packets already queued are still handled: the next split sentinel
\* among them opens a segment again.  There is nothing to finalize at that
\* boundary, hence no callback and no entry for the segment it opens.
OpenNext ==
  /\ Up /\ rpc = "recording" /\ cur + 1 \in Segments
  /\ \/ cpc = "open" /\ UNCHANGED unlisted
     \/ /\ cpc = "missed" /\ (AutoSplit \/ split_pending)
        /\ unlisted' = unlisted \cup {cur + 1}
  /\ cur' = cur + 1
  /\ \/ /\ artefact' = [artefact EXCEPT ![cur + 1] = "open"]
        /\ cpc' = "idle"
        /\ UNCHANGED missed
     \/ /\ "engine" \in Faults
        /\ missed' = missed \cup {cur + 1}
        /\ cpc' = "missed"
        /\ UNCHANGED artefact
  /\ UNCHANGED <<app, container, user, rpc, next_id, target, finish, current_id,
                 remux, output, master, manifest, rec, crashes, route, unasked,
                 unnamed, discarded>>

\* Record() returns.  Its last finalize is reported as the session end; with a
\* failure the last artefact may or may not have been finalized, and one that
\* was not opened is not there.
SessionEnd ==
  /\ Up /\ rpc = "recording" /\ cpc \in {"idle", "missed"}
  /\ \E ok \in MayFail("engine"), clean \in BOOLEAN :
       /\ ok => clean /\ missed = {}
       /\ engine_ok' = ok
       /\ artefact' = IF cpc = "missed" THEN artefact
                      ELSE [artefact EXCEPT ![cur] = IF clean THEN "clean" ELSE "open"]
       /\ succeeded' \in {ok} \cup (IF "disk" \in Faults THEN {FALSE} ELSE {})
  /\ split_pending' = FALSE
  /\ cpc' = "idle" /\ rpc' = "ended"
  /\ UNCHANGED <<app, container, settings, cancel, next_id, target, cur, pub,
                 result, current_id, remux, output, master, manifest, rec, crashes,
                 hist>>

-----------------------------------------------------------------------------
(* RecordingThreadProc after Record() *)

\* Which of the three ways the session is finished.
Decide ==
  /\ Up /\ rpc = "ended"
  /\ LET way == CASE ~engine_ok                              -> "none"
                  [] engine_ok /\ container = "mkv"         -> "mkv"
                  [] engine_ok /\ container = "mp4" /\ listed = {} -> "single"
                  [] OTHER                                   -> "split"
     IN /\ route' = way
        /\ rpc' = CASE way = "none"   -> "unlist"
                   [] way = "mkv"    -> "publish"
                   [] way = "single" -> "single_mark"
                   [] way = "split"  -> "split_mark"
  /\ UNCHANGED <<app, container, user, cb, cur, finish, current_id, remux, disk,
                 rec, crashes, missed, unasked, unlisted, unnamed, discarded>>

Post(outcome) ==
  /\ result' = outcome
  /\ rpc' = "posted"

\* MKV/WebM: every segment is moved to its final name in order; the loop stops
\* at the first segment that cannot be moved, or whose final name cannot be
\* derived (only a failed move counts as a failure).
PublishMkv ==
  /\ Up /\ rpc = "publish" /\ pub <= cur
  /\ \/ /\ output' = [output EXCEPT ![pub] = "whole"]
        /\ artefact' = [artefact EXCEPT ![pub] = "none"]
        /\ pub' = pub + 1
        /\ UNCHANGED <<rpc, succeeded, unnamed>>
     \/ /\ "move" \in Faults
        /\ succeeded' = FALSE /\ rpc' = "unlist"
        /\ UNCHANGED <<output, artefact, pub, unnamed>>
     \/ /\ "path" \in Faults /\ pub > 0
        /\ rpc' = "unlist" /\ unnamed' = unnamed \cup (pub .. cur)
        /\ UNCHANGED <<output, artefact, pub, succeeded>>
  /\ UNCHANGED <<app, container, user, cb, cur, engine_ok, result, current_id,
                 remux, master, manifest, rec, crashes, missed, route, unasked,
                 unlisted, discarded>>

PublishMkvDone ==
  /\ Up /\ rpc = "publish" /\ pub > cur
  /\ rpc' = "unlist"
  /\ UNCHANGED <<app, container, user, cb, cur, finish, current_id, remux, disk,
                 rec, crashes, hist>>

\* The entry goes only with a success.
Unlist ==
  /\ Up /\ rpc = "unlist"
  /\ current_id' = NoId
  /\ IF succeeded THEN Remove(current_id) ELSE UNCHANGED manifest
  /\ Post(IF succeeded THEN "Completed" ELSE "Failed")
  /\ UNCHANGED <<app, container, user, cb, cur, engine_ok, succeeded, pub, remux,
                 artefact, output, master, rec, crashes, hist>>

\* MP4, single file: RunRemuxJob on the artefact of segment 0.
SingleMark ==
  /\ Up /\ rpc = "single_mark"
  /\ UpdateFinalized(current_id)
  /\ cancel' = FALSE
  /\ rpc' = "single_remux"
  /\ UNCHANGED <<app, container, settings, split_pending, cb, cur, finish,
                 current_id, remux, artefact, output, master, rec, crashes, hist>>

\* RemuxToProgressiveMp4 of a segment: fails without its source, may fail, or
\* gives up at a progress callback once cancelled.
RemuxOutcomes(seg) ==
  CASE artefact[seg] \in {"none", "empty"} -> {FALSE}
    [] artefact[seg] \notin {"none", "empty"} /\ cancel -> BOOLEAN
    [] OTHER -> MayFail("remux")

\* A failed or cancelled remux keeps its source and its manifest entry.
SingleRemux ==
  /\ Up /\ rpc = "single_remux"
  /\ \/ /\ TRUE \in RemuxOutcomes(0)
        /\ rpc' = "single_move"
        /\ UNCHANGED <<current_id, result>>
     \/ /\ FALSE \in RemuxOutcomes(0)
        /\ current_id' = NoId
        /\ Post("Failed")
  /\ UNCHANGED <<app, container, user, cb, cur, engine_ok, succeeded, pub, remux,
                 disk, rec, crashes, hist>>

\* AtomicReplaceInPlace(staging, final)
SourceQuality(seg) == IF artefact[seg] = "clean" THEN "whole" ELSE "salvaged"

SingleMove ==
  /\ Up /\ rpc = "single_move"
  /\ \/ /\ output' = [output EXCEPT ![0] = SourceQuality(0)]
        /\ rpc' = "single_master"
        /\ UNCHANGED <<current_id, result>>
     \/ /\ "move" \in Faults
        /\ current_id' = NoId
        /\ Post("Failed")
        /\ UNCHANGED output
  /\ UNCHANGED <<app, container, user, cb, cur, engine_ok, succeeded, pub, remux,
                 artefact, master, manifest, rec, crashes, hist>>

\* The source is renamed to the edit master, or deleted when that fails; the
\* deletion is best effort.
SingleMaster ==
  /\ Up /\ rpc = "single_master"
  /\ \E renamed \in MayFail("move"), deleted \in MayFail("move") :
       /\ master' = renamed
       /\ artefact' = IF renamed \/ deleted THEN [artefact EXCEPT ![0] = "none"]
                                           ELSE artefact
  /\ rpc' = "single_unlist"
  /\ UNCHANGED <<app, container, user, cb, cur, finish, current_id, remux, output,
                 manifest, rec, crashes, hist>>

SingleUnlist ==
  /\ Up /\ rpc = "single_unlist"
  /\ current_id' = NoId
  /\ Remove(current_id)
  /\ Post("Completed")
  /\ UNCHANGED <<app, container, user, cb, cur, engine_ok, succeeded, pub, remux,
                 artefact, output, master, rec, crashes, hist>>

\* MP4 with scheduled segments: the last segment joins the queue, then the
\* thread waits for the pool.
SplitMark ==
  /\ Up /\ rpc = "split_mark"
  /\ UpdateFinalized(current_id)
  /\ rpc' = "split_schedule"
  /\ UNCHANGED <<app, container, user, cb, cur, finish, current_id, remux,
                 artefact, output, master, rec, crashes, hist>>

SplitSchedule ==
  /\ Up /\ rpc = "split_schedule"
  /\ \/ QueueSegmentRemux(cur) /\ UNCHANGED unnamed
     \/ /\ "path" \in Faults
        /\ unnamed' = unnamed \cup {cur} /\ UNCHANGED <<job, listed>>
  /\ current_id' = NoId
  /\ rpc' = "drain"
  /\ UNCHANGED <<app, container, user, cb, cur, finish, reaped_failed, disk, rec,
                 crashes, missed, route, unasked, unlisted, discarded>>

\* Mutant: the verdict of jobs reaped at a boundary is forgotten.
AllOkListedOnly == \A s \in listed : job[s].ok

AllOk == ~reaped_failed /\ \A s \in listed : job[s].ok

Drain ==
  /\ Up /\ rpc = "drain"
  /\ \A s \in Segments : job[s].step \in {"none", "done"}
  /\ listed' = {}
  /\ Post(IF AllOk THEN "Completed" ELSE "Failed")
  /\ UNCHANGED <<app, container, user, cb, cur, engine_ok, succeeded, pub,
                 current_id, job, reaped_failed, disk, rec, crashes, hist>>

-----------------------------------------------------------------------------
(* The remux pool: one worker, first in first out (RunSegmentRemuxWork) *)

Active(seg) == job[seg].step \notin {"none", "done"}
Oldest(seg) == Active(seg) /\ \A s \in Segments : Active(s) => seg <= s

StepTo(seg, step) == job' = [job EXCEPT ![seg].step = step]
JobEnd(seg, ok) == job' = [job EXCEPT ![seg].step = "done", ![seg].ok = ok]

JobFrame ==
  UNCHANGED <<app, container, user, rpc, cb, cur, finish, current_id, listed,
              reaped_failed, master, rec, crashes, hist>>

\* Mutant: a remux that failed goes on as if it had succeeded.
JobRemuxIgnoresFailure(seg) ==
  /\ Up /\ Oldest(seg) /\ job[seg].step = "queued"
  /\ \/ TRUE \in RemuxOutcomes(seg) /\ StepTo(seg, "move")
     \/ FALSE \in RemuxOutcomes(seg) /\ StepTo(seg, "delete")
  /\ UNCHANGED <<artefact, output, manifest>>
  /\ JobFrame

JobRemux(seg) ==
  /\ Up /\ Oldest(seg) /\ job[seg].step = "queued"
  /\ \/ TRUE \in RemuxOutcomes(seg) /\ StepTo(seg, "move")
     \/ FALSE \in RemuxOutcomes(seg) /\ JobEnd(seg, FALSE)
  /\ UNCHANGED <<artefact, output, manifest>>
  /\ JobFrame

JobMove(seg) ==
  /\ Up /\ Oldest(seg) /\ job[seg].step = "move"
  /\ \/ /\ output' = [output EXCEPT ![seg] = SourceQuality(seg)]
        /\ StepTo(seg, "delete")
     \/ /\ "move" \in Faults
        /\ JobEnd(seg, FALSE)
        /\ UNCHANGED output
  /\ UNCHANGED <<artefact, manifest>>
  /\ JobFrame

JobDelete(seg) ==
  /\ Up /\ Oldest(seg) /\ job[seg].step = "delete"
  /\ \E ok \in MayFail("move") :
       artefact' = IF ok THEN [artefact EXCEPT ![seg] = "none"] ELSE artefact
  /\ StepTo(seg, "unlist")
  /\ UNCHANGED <<output, manifest>>
  /\ JobFrame

JobUnlist(seg) ==
  /\ Up /\ Oldest(seg) /\ job[seg].step = "unlist"
  /\ Remove(job[seg].id)
  /\ JobEnd(seg, TRUE)
  /\ UNCHANGED <<artefact, output>>
  /\ JobFrame

JobNext(seg) == JobRemux(seg) \/ JobMove(seg) \/ JobDelete(seg) \/ JobUnlist(seg)

-----------------------------------------------------------------------------
(* A process death, and the next launch (RecoveryService) *)

NoRecovery == [seg |-> NoId, step |-> "none"]

Crash ==
  /\ Up /\ crashes < MaxCrashes
  /\ app' = "down"
  /\ crashes' = crashes + 1
  /\ rec' = NoRecovery
  /\ UNCHANGED <<container, user, rpc, cb, cur, finish, current_id, remux, disk,
                 hist>>

\* The next launch has no session; Scan drops the entries whose artefact is
\* missing or empty.
Relaunch ==
  /\ app = "down"
  /\ app' = "up" /\ rpc' = "posted" /\ cpc' = "idle"
  /\ current_id' = NoId
  /\ job' = [s \in Segments |-> [id |-> NoId, step |-> "none", ok |-> FALSE]]
  /\ listed' = {} /\ reaped_failed' = FALSE
  /\ split_pending' = FALSE /\ cancel' = FALSE
  /\ result' = "None"
  /\ \E kept \in SUBSET manifest :
       /\ \A e \in manifest : artefact[e.seg] \notin {"none", "empty"} => e \in kept
       /\ Faults \cap {"manifest", "load"} = {} =>
            \A e \in kept : artefact[e.seg] \notin {"none", "empty"}
       /\ manifest' = kept
  /\ rec' = [seg |-> NoId, step |-> "offer"]
  /\ UNCHANGED <<container, settings, next_id, target, cur, engine_ok, succeeded,
                 pub, artefact, output, master, crashes, hist>>

RecFrame ==
  UNCHANGED <<app, container, user, rpc, cb, cur, finish, current_id, remux,
              master, crashes, missed, route, unasked, unlisted, unnamed>>

\* The user answers an offer: Finish (repair or remux, publish, delete the
\* source, drop the entry) or Discard.
RecoverFinish(seg) ==
  /\ Up /\ rec.step = "offer" /\ seg \in Entries
  /\ artefact[seg] \notin {"none", "empty"}
  /\ \/ rec' = [seg |-> seg, step |-> "move"]
     \/ "remux" \in Faults /\ UNCHANGED rec
  /\ UNCHANGED <<artefact, output, manifest, discarded>>
  /\ RecFrame

RecoverMove ==
  /\ Up /\ rec.step = "move"
  /\ \/ /\ output' = [output EXCEPT ![rec.seg] = SourceQuality(rec.seg)]
        /\ rec' = [rec EXCEPT !.step = "delete"]
     \/ /\ "move" \in Faults
        /\ rec' = [seg |-> NoId, step |-> "offer"]
        /\ UNCHANGED output
  /\ UNCHANGED <<artefact, manifest, discarded>>
  /\ RecFrame

RecoverDelete ==
  /\ Up /\ rec.step = "delete"
  /\ \E ok \in MayFail("move") :
       artefact' = IF ok THEN [artefact EXCEPT ![rec.seg] = "none"] ELSE artefact
  /\ rec' = [rec EXCEPT !.step = "unlist"]
  /\ UNCHANGED <<output, manifest, discarded>>
  /\ RecFrame

RecoverUnlist ==
  /\ Up /\ rec.step = "unlist"
  /\ Remove(rec.seg)
  /\ rec' = [seg |-> NoId, step |-> "offer"]
  /\ UNCHANGED <<artefact, output, discarded>>
  /\ RecFrame

RecoverDiscard(seg) ==
  /\ Up /\ rec.step = "offer" /\ seg \in Entries
  /\ artefact[seg] \notin {"none", "empty"}
  /\ artefact' = [artefact EXCEPT ![seg] = "none"]
  /\ discarded' = discarded \cup {seg}
  /\ rec' = [seg |-> seg, step |-> "unlist"]
  /\ UNCHANGED <<output, manifest>>
  /\ RecFrame

-----------------------------------------------------------------------------
Init ==
  /\ app = "up" /\ container \in Containers /\ settings = container
  /\ rpc = "create" /\ cpc = "idle" /\ cur = 0
  /\ split_pending = FALSE /\ cancel = FALSE
  /\ engine_ok = FALSE /\ succeeded = FALSE /\ pub = 0 /\ result = "None"
  /\ current_id = NoId /\ next_id = NoId /\ target = FALSE
  /\ job = [s \in Segments |-> [id |-> NoId, step |-> "none", ok |-> FALSE]]
  /\ listed = {} /\ reaped_failed = FALSE
  /\ artefact = [s \in Segments |-> "none"]
  /\ output = [s \in Segments |-> "none"]
  /\ master = FALSE /\ manifest = {}
  /\ rec = NoRecovery /\ crashes = 0
  /\ route = "none" /\ unasked = FALSE
  /\ missed = {} /\ unlisted = {} /\ unnamed = {} /\ discarded = {}

UserNext == EditSettings \/ RequestSplit \/ CancelRemux
EngineNext == \/ Boundary \/ BoundaryMark \/ BoundaryAdd \/ BoundarySchedule
              \/ BoundaryReap \/ OpenNext \/ SessionEnd
SessionNext ==
  \/ PrepareCreate \/ PrepareProtect \/ PrepareCancel \/ PrepareCommit
  \/ Decide \/ PublishMkv \/ PublishMkvDone \/ Unlist
  \/ SingleMark \/ SingleRemux \/ SingleMove \/ SingleMaster \/ SingleUnlist
  \/ SplitMark \/ SplitSchedule \/ Drain
RecoveryNext ==
  \/ Crash \/ Relaunch \/ RecoverMove \/ RecoverDelete \/ RecoverUnlist
  \/ \E seg \in Segments : RecoverFinish(seg) \/ RecoverDiscard(seg)

\* The session is over and the user need not do anything more.
Idle == Up /\ rpc = "posted" /\ UNCHANGED vars

Next == \/ UserNext \/ EngineNext \/ SessionNext
        \/ \E seg \in Segments : JobNext(seg)
        \/ RecoveryNext \/ Idle

Spec == Init /\ [][Next]_vars

-----------------------------------------------------------------------------
\* Every variable holds a value of its C++ type or its abstraction.
TypeOK ==
  /\ app \in {"up", "down"} /\ {container, settings} \subseteq {"mkv", "mp4"}
  /\ rpc \in {"create", "protect", "commit", "recording", "ended", "publish",
              "unlist", "single_mark", "single_remux", "single_move",
              "single_master", "single_unlist", "split_mark", "split_schedule",
              "drain", "posted"}
  /\ cpc \in {"idle", "mark", "add", "schedule", "reap", "open", "missed"}
  /\ cur \in Segments /\ pub \in 0 .. MaxSegments
  /\ {split_pending, cancel, engine_ok, succeeded, target, reaped_failed,
      master, unasked} \subseteq BOOLEAN
  /\ {current_id, next_id} \subseteq Segments \cup {NoId}
  /\ job \in [Segments -> [id : Segments \cup {NoId},
                            step : {"none", "queued", "move", "delete", "unlist",
                                    "done"}, ok : BOOLEAN]]
  /\ listed \subseteq Segments
  /\ result \in {"None", "Completed", "Failed"}
  /\ artefact \in [Segments -> {"none", "empty", "open", "clean"}]
  /\ output \in [Segments -> {"none", "whole", "salvaged"}]
  /\ manifest \subseteq [seg : Segments, finalized : BOOLEAN]
  /\ rec \in [seg : Segments \cup {NoId},
              step : {"none", "offer", "move", "delete", "unlist"}]
  /\ crashes \in Nat /\ unnamed \subseteq Segments
  /\ route \in {"none", "mkv", "single", "split"}
  /\ unlisted \subseteq Segments /\ discarded \subseteq Segments
  /\ missed \subseteq Segments

Recorded(seg) == artefact[seg] \in {"open", "clean"}
Published(seg) == output[seg] # "none"

\* No step of the coordinator, of the remux pool or of recovery deletes the
\* last copy of a segment, wherever the process dies: what was recorded exists
\* as its artefact or as its output until the user discards it.
LastCopyKept ==
  [][\A s \in Segments \ discarded' :
       Recorded(s) \/ Published(s) => (Recorded(s) \/ Published(s))']_vars

\* While the app that recorded it runs, what appears at a final name is the
\* whole segment: nothing is remuxed while the engine still writes it, and an
\* interrupted remux never shows.  Only recovery publishes a salvaged file.
RunningPublishesWhole ==
  crashes = 0 => \A s \in Segments : output[s] \in {"none", "whole"}

\* The single-file path was taken although segments had been scheduled, which
\* is what SingleFileMeansNoSplits is about.
Misrouted == route = "single" /\ cur > 0

\* The segments that get an entry: in an MKV session the first one only.
Covered == IF container = "mp4" THEN 0 .. cur ELSE {0}

\* Until it is published, a recorded segment has a recovery entry, through the
\* handover of ids at each boundary, failed remuxes, crashes and recovery.  The
\* exceptions: an entry that could not be written (the user is told, but for a
\* name that cannot be derived, which is only logged), the entries a manifest
\* that could not be read lost when the next one was added (only logged), a
\* segment opened after one that could not be, and an MP4 session with an
\* automatic boundary (see CompletedMeansPublished).
SegmentsProtected ==
  ~Misrouted /\ (container = "mp4" => ~unasked) =>
    \A s \in Covered \ unlisted : Recorded(s) /\ ~Published(s) => s \in Entries

\* A session reported as Completed has every one of its segments at its final
\* name.
CompletedMeansPublished ==
  result = "Completed" => \A s \in 0 .. cur : Published(s)

\* The same for every segment whose final name could be derived, but for an MP4
\* session that took the wrong path or had an automatic boundary: publication may
\* fail for any segment, in the pool or at the end, and each failure counts.
NamedSegmentsPublished ==
  ~Misrouted /\ (container = "mp4" => ~unasked) /\ result = "Completed" =>
    \A s \in (0 .. cur) \ unnamed : Published(s)

-----------------------------------------------------------------------------
(* Statements of the source that the code does not keep *)

\* RecordingCoordinator.cpp: "Single-file MP4 path (no splits)".
SingleFileMeansNoSplits == route = "single" => cur = 0
=============================================================================
