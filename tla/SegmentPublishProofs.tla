------------------------ MODULE SegmentPublishProofs ------------------------
(***************************************************************************)
(* Proofs about SegmentPublish: no step deletes the last copy of a         *)
(* segment, what a running app publishes is whole, what is not published   *)
(* has a recovery entry, and Completed means published; for any number of  *)
(* segments, faults and process deaths.                                    *)
(***************************************************************************)
EXTENDS SegmentPublish, TLAPS

Preparing == {"create", "protect", "commit"}
SingleFile == {"single_mark", "single_remux", "single_move", "single_master",
               "single_unlist"}
Splitting == {"split_mark", "split_schedule", "drain"}

\* Where the threads of the session can be at the same time, what the engine's
\* verdict and the route say of each other, and that recovery runs without a
\* session.
FlowInv ==
  /\ cpc # "idle" => rpc = "recording"
  /\ cpc \notin {"idle", "missed"} => cur + 1 \in Segments
  /\ cpc \in {"mark", "add", "schedule", "reap"} => container = "mp4"
  /\ rpc \in Preparing => cur = 0
  /\ rpc \in Preparing \cup {"recording"} => ~engine_ok
  /\ succeeded => engine_ok
  /\ rpc \in Preparing \cup {"recording", "ended"} => route = "none"
  /\ rpc \in SingleFile => route = "single"
  /\ rpc = "publish" \/ (rpc = "unlist" /\ engine_ok) => container = "mkv"
  /\ rpc \in SingleFile \cup Splitting => container = "mp4" /\ engine_ok
  /\ rpc # "posted" => result = "None"
  /\ rec.step # "none" => rpc = "posted" /\ result = "None" /\ crashes > 0
  /\ rec.step \in {"move", "delete", "unlist"} => rec.seg \in Segments
  /\ app = "down" => crashes > 0

\* Which remux jobs exist when: only of an MP4 session, never of a segment the
\* engine has not finished, and listed until they end.
JobInv ==
  /\ \A s \in Segments : job[s].step # "none" =>
       container = "mp4" /\ s <= cur /\ rec.step = "none"
  /\ \A s \in Segments : Active(s) => s \in listed
  /\ rpc \in Preparing \cup {"recording"} /\ cpc \notin {"reap", "open"} =>
       job[cur].step = "none"
  /\ rpc = "ended" /\ engine_ok => job[cur].step = "none"
  /\ rpc \in {"split_mark", "split_schedule"} => job[cur].step = "none"
  /\ rpc \in SingleFile => \A s \in Segments : ~Active(s)

\* What is about to be deleted or dropped is published, or was discarded; what
\* is being prepared holds nothing yet.
CopyInv ==
  /\ rpc \in Preparing => ~Recorded(0)
  /\ \A s \in Segments : job[s].step \in {"delete", "unlist"} => Published(s)
  /\ \A s \in Segments : Done(s) /\ job[s].ok => Published(s)
  /\ rpc \in {"single_master", "single_unlist"} => Published(0)
  /\ rec.step = "delete" => Published(rec.seg)
  /\ rec.step = "unlist" => Published(rec.seg) \/ ~Recorded(rec.seg)
  /\ \A s \in Segments : s < pub => Published(s)
  /\ rpc = "unlist" /\ succeeded => pub > 0

\* A segment that could not be opened, or that is still to come, has no file; and
\* a recording with such a segment has failed.
MissedInv ==
  /\ \A s \in Segments : s > cur \/ s \in missed => artefact[s] = "none"
  /\ \A s \in missed : 0 < s /\ s <= cur
  /\ rpc = "recording" => (cur \in missed <=> cpc = "missed")
  /\ engine_ok => missed = {}

\* Before the first process death: every artefact the engine has left is
\* finalized or gone, and only those are remuxed.
WholeInv ==
  crashes = 0 =>
    /\ \A s \in Segments : s < cur \/ job[s].step # "none" =>
         artefact[s] \in {"clean", "none"}
    /\ cpc # "idle" \/ engine_ok => artefact[cur] \in {"clean", "none"}
    /\ \A s \in Segments : job[s].step = "move" => artefact[s] = "clean"
    /\ rpc = "single_move" => artefact[0] = "clean"
    /\ \A s \in Segments : output[s] \in {"none", "whole"}

\* The boundaries the manifest follows.
Asked == container = "mp4" => ~unasked

\* The ids of the entries: the current one is that of the segment being written,
\* or of the next one once it was handed over; a job has its segment's.  After a
\* segment that could not be opened both may be left with the id of that one.
IdInv ==
  Asked =>
    /\ \A s \in Segments : job[s].step # "none" => job[s].id \in {s, NoId} \cup missed
    /\ container = "mkv" => current_id \in {0, NoId}
    /\ container = "mp4" =>
         /\ rpc \in Preparing \cup {"recording"} /\ cpc \notin {"reap", "open"}
              => current_id \in {cur, NoId} \cup missed
         /\ engine_ok => current_id \in {cur, NoId}
         /\ cpc = "schedule" => next_id \in {cur + 1, NoId}
         /\ cpc \in {"reap", "open"} => current_id \in {cur + 1, NoId}

\* An entry is there before its segment is.
EntryInv ==
  /\ rpc = "commit" => 0 \in Entries \cup unlisted
  /\ rpc = "recording" /\ cpc = "idle" => Recorded(cur)
  /\ Asked /\ container = "mp4" /\ cpc \in {"schedule", "reap", "open"} =>
       cur + 1 \in Entries \cup unlisted
  /\ SegmentsProtected

\* The segments whose publication is decided: scheduled, or without a name.
Scheduled(s) == s \in unnamed \/ job[s].step # "none"

\* Every segment the engine has left is scheduled, has no name or never had a
\* file, and the
\* verdict of a job that is no longer listed is kept.
NameInv ==
  /\ rpc # "posted" => \A s \in Segments :
       job[s].step # "none" => s \in listed \/ (Done(s) /\ (job[s].ok \/ reaped_failed))
  /\ rpc = "unlist" /\ succeeded => \A s \in 0 .. cur : s < pub \/ s \in unnamed
  /\ Asked /\ container = "mp4" =>
       /\ rpc # "posted" => \A s \in Segments : s < cur => Scheduled(s) \/ s \in missed
       /\ cpc \in {"add", "schedule"} => target \/ cur \in unnamed
       /\ cpc \in {"reap", "open"} \/ rpc = "drain" => Scheduled(cur)
  /\ NamedSegmentsPublished
-----------------------------------------------------------------------------
(* Types *)

Job == [id : Segments \cup {NoId},
        step : {"none", "queued", "move", "delete", "unlist", "done"}, ok : BOOLEAN]
Entry == [seg : Segments, finalized : BOOLEAN]

\* TypeOK, in parts that different steps disturb.
Kinds ==
  /\ app \in {"up", "down"} /\ container \in {"mkv", "mp4"} /\ settings \in {"mkv", "mp4"}
  /\ rpc \in {"create", "protect", "commit", "recording", "ended", "publish",
              "unlist", "single_mark", "single_remux", "single_move",
              "single_master", "single_unlist", "split_mark", "split_schedule",
              "drain", "posted"}
  /\ cpc \in {"idle", "mark", "add", "schedule", "reap", "open", "missed"}
  /\ result \in {"None", "Completed", "Failed"}
  /\ route \in {"none", "mkv", "single", "split"}
Flags ==
  /\ split_pending \in BOOLEAN /\ cancel \in BOOLEAN /\ engine_ok \in BOOLEAN
  /\ succeeded \in BOOLEAN /\ target \in BOOLEAN /\ reaped_failed \in BOOLEAN
  /\ master \in BOOLEAN /\ unasked \in BOOLEAN
Numbers ==
  /\ cur \in Segments /\ pub \in 0 .. MaxSegments /\ crashes \in Nat
  /\ current_id \in Segments \cup {NoId} /\ next_id \in Segments \cup {NoId}
  /\ listed \subseteq Segments /\ unnamed \subseteq Segments
  /\ unlisted \subseteq Segments /\ discarded \subseteq Segments
  /\ missed \subseteq Segments
Tables ==
  /\ job \in [Segments -> Job]
  /\ artefact \in [Segments -> {"none", "empty", "open", "clean"}]
  /\ output \in [Segments -> {"none", "whole", "salvaged"}]
Records ==
  /\ manifest \subseteq Entry
  /\ rec \in [seg : Segments \cup {NoId},
              step : {"none", "offer", "move", "delete", "unlist"}]

LEMMA TypeParts == TypeOK <=> Kinds /\ Flags /\ Numbers /\ Tables /\ Records
<1>1. TypeOK => Kinds /\ Flags /\ Numbers /\ Tables /\ Records
  BY DEF TypeOK, Kinds, Flags, Numbers, Tables, Records, Job, Entry
<1>2. Kinds /\ Flags /\ Numbers /\ Tables /\ Records => TypeOK
  BY DEF TypeOK, Kinds, Flags, Numbers, Tables, Records, Job, Entry
<1> QED
  BY <1>1, <1>2

-----------------------------------------------------------------------------
(* What the operations do to the manifest and to the jobs *)

\* Marking an entry as finalized keeps every entry.
LEMMA FinalizedEntries ==
  ASSUME Records, NEW id, UpdateFinalized(id)
  PROVE  manifest' \subseteq Entry /\ Entries' = Entries
<1>1. PICK ok \in BOOLEAN :
        manifest' = {[e EXCEPT !.finalized = (e.finalized \/ (ok /\ e.seg = id))] :
                       e \in manifest}
  BY DEF UpdateFinalized, MayFail
<1>2. \A e \in Entry, b \in BOOLEAN :
        [e EXCEPT !.finalized = b] \in Entry /\ [e EXCEPT !.finalized = b].seg = e.seg
  BY DEF Entry
<1>3. \A e \in manifest : e \in Entry /\ (e.finalized \/ (ok /\ e.seg = id)) \in BOOLEAN
  BY DEF Records, Entry
<1>4. manifest' \subseteq Entry
  BY <1>1, <1>2, <1>3, Zenon
<1> DEFINE upd(e) == [e EXCEPT !.finalized = (e.finalized \/ (ok /\ e.seg = id))]
<1>5. \A e \in manifest : upd(e) \in manifest' /\ upd(e).seg = e.seg
  BY <1>1, <1>2, <1>3, Zenon
<1>6. \A f \in manifest' : \E e \in manifest : f = upd(e)
  BY <1>1
<1> HIDE DEF upd
<1>7. ASSUME NEW x \in Entries PROVE x \in Entries'
  <2>1. PICK e \in manifest : x = e.seg
    BY DEF Entries
  <2>2. upd(e) \in manifest' /\ x = upd(e).seg
    BY <1>5, <2>1
  <2> QED
    BY <2>2 DEF Entries
<1>8. ASSUME NEW x \in Entries' PROVE x \in Entries
  <2>1. PICK f \in manifest' : x = f.seg
    BY DEF Entries
  <2>2. PICK e \in manifest : f = upd(e)
    BY <1>6
  <2>3. x = e.seg
    BY <1>5, <2>1, <2>2
  <2> QED
    BY <2>3 DEF Entries
<1> QED
  BY <1>4, <1>7, <1>8

\* Adding an entry keeps the others, or leaves them unprotected.
LEMMA AddedEntries ==
  ASSUME Records, NEW seg \in Segments, NEW ok \in BOOLEAN, Add(seg, ok)
  PROVE  /\ manifest' \subseteq Entry
         /\ Entries \cup {seg} \subseteq Entries' \cup Unprotected(seg)
         /\ Unprotected(seg) \subseteq Segments
         /\ ok => seg \in Entries'
<1> DEFINE new == [seg |-> seg, finalized |-> FALSE]
<1>1. new \in Entry /\ new.seg = seg
  BY DEF Entry
<1>2. PICK loaded \in {manifest, {}} : manifest' = IF ok THEN loaded \cup {new} ELSE manifest
  BY DEF Add, Loaded
<1> HIDE DEF new
<1>3. manifest' \subseteq Entry /\ (ok => seg \in Entries')
  BY <1>1, <1>2 DEF Records, Entries
<1>4. Unprotected(seg) \subseteq Segments
  BY DEF Unprotected, Entries, Records, Entry
<1> QED
  BY <1>3, <1>4 DEF Unprotected

\* Removing an entry keeps the others.
LEMMA RemovedEntries ==
  ASSUME Records, NEW id, Remove(id)
  PROVE  /\ manifest' \subseteq Entry
         /\ Entries \ {id} \subseteq Entries'
  BY DEF Remove, MayFail, Records, Entry, Entries

LEMMA SameEntries ==
  ASSUME manifest' = manifest PROVE Entries' = Entries
  BY DEF Entries

Others(seg) == \A s \in Segments : s # seg => job'[s] = job[s]

\* A segment is queued with the current id.
LEMMA Queued ==
  ASSUME Tables, Numbers, NEW seg \in Segments, QueueSegmentRemux(seg)
  PROVE  /\ job' \in [Segments -> Job] /\ Others(seg)
         /\ job'[seg].id = current_id /\ job'[seg].step = "queued"
         /\ listed' = listed \cup {seg}
<1> DEFINE j == [id |-> current_id, step |-> "queued", ok |-> FALSE]
<1>1. j \in Job /\ j.id = current_id /\ j.step = "queued"
  BY DEF Numbers, Job
<1>2. job' = [job EXCEPT ![seg] = j] /\ listed' = listed \cup {seg}
  BY DEF QueueSegmentRemux
<1> HIDE DEF j
<1> QED
  BY <1>1, <1>2 DEF Tables, Others

LEMMA Stepped ==
  ASSUME Tables, NEW seg \in Segments,
         NEW step \in {"move", "delete", "unlist"}, StepTo(seg, step)
  PROVE  /\ job' \in [Segments -> Job] /\ Others(seg)
         /\ job'[seg].id = job[seg].id /\ job'[seg].step = step
<1> DEFINE j == [job[seg] EXCEPT !.step = step]
<1>1. j \in Job /\ j.id = job[seg].id /\ j.step = step
  BY DEF Tables, Job
<1>2. job' = [job EXCEPT ![seg] = j]
  BY DEF StepTo
<1> HIDE DEF j
<1> QED
  BY <1>1, <1>2 DEF Tables, Others

LEMMA Ended ==
  ASSUME Tables, NEW seg \in Segments, NEW ok \in BOOLEAN, JobEnd(seg, ok)
  PROVE  /\ job' \in [Segments -> Job] /\ Others(seg)
         /\ job'[seg].id = job[seg].id /\ job'[seg].step = "done" /\ job'[seg].ok = ok
<1> DEFINE j == [job[seg] EXCEPT !.step = "done", !.ok = ok]
<1>1. j \in Job /\ j.id = job[seg].id /\ j.step = "done" /\ j.ok = ok
  BY DEF Tables, Job
<1>2. job' = [job EXCEPT ![seg] = j]
  BY DEF JobEnd
<1> HIDE DEF j
<1> QED
  BY <1>1, <1>2 DEF Tables, Others

\* A remux succeeds only with a source.
LEMMA RemuxNeedsSource ==
  ASSUME Tables, NEW seg \in Segments, TRUE \in RemuxOutcomes(seg)
  PROVE  artefact[seg] \in {"open", "clean"}
  BY DEF Tables, RemuxOutcomes

\* What the four steps of a job do, and what they leave alone.
JobKept ==
  UNCHANGED <<app, container, rpc, cpc, next_id, target, cur, engine_ok, succeeded,
              pub, result, current_id, listed, reaped_failed, rec, crashes, route,
              unasked, missed, unlisted, unnamed, discarded>>
JobIsAt(seg, step) ==
  /\ JobKept /\ job' \in [Segments -> Job] /\ Others(seg)
  /\ job[seg].step = step /\ job'[seg].id = job[seg].id
Remuxed(seg) ==
  /\ JobIsAt(seg, "queued") /\ UNCHANGED <<artefact, output>> /\ Entries' = Entries
  /\ \/ job'[seg].step = "move" /\ artefact[seg] \in {"open", "clean"}
     \/ job'[seg].step = "done" /\ job'[seg].ok = FALSE
Moved(seg) ==
  /\ JobIsAt(seg, "move") /\ UNCHANGED artefact /\ Entries' = Entries
  /\ \/ /\ job'[seg].step = "delete"
        /\ output' = [output EXCEPT ![seg] = SourceQuality(seg)]
     \/ job'[seg].step = "done" /\ job'[seg].ok = FALSE /\ UNCHANGED output
Deleted(seg) ==
  /\ JobIsAt(seg, "delete") /\ UNCHANGED output /\ Entries' = Entries
  /\ job'[seg].step = "unlist"
  /\ artefact' \in {artefact, [artefact EXCEPT ![seg] = "none"]}
Unlisted(seg) ==
  /\ JobIsAt(seg, "unlist") /\ UNCHANGED <<artefact, output>>
  /\ job'[seg].step = "done" /\ job'[seg].ok = TRUE
  /\ Entries \ {job[seg].id} \subseteq Entries'

LEMMA JobRemuxEffect ==
  ASSUME Tables, NEW seg \in Segments, JobRemux(seg) PROVE Remuxed(seg)
<1>1. /\ JobKept /\ job[seg].step = "queued" /\ UNCHANGED <<artefact, output>>
      /\ Entries' = Entries
  BY SameEntries DEF JobRemux, JobFrame, JobKept, user, cb, finish, hist
<1>2. CASE TRUE \in RemuxOutcomes(seg) /\ StepTo(seg, "move")
  BY <1>1, <1>2, Stepped, RemuxNeedsSource DEF Remuxed, JobIsAt
<1>3. CASE FALSE \in RemuxOutcomes(seg) /\ JobEnd(seg, FALSE)
  BY <1>1, <1>3, Ended DEF Remuxed, JobIsAt
<1> QED
  BY <1>2, <1>3 DEF JobRemux

LEMMA JobMoveEffect ==
  ASSUME Tables, NEW seg \in Segments, JobMove(seg) PROVE Moved(seg)
<1>1. JobKept /\ job[seg].step = "move" /\ UNCHANGED artefact /\ Entries' = Entries
  BY SameEntries DEF JobMove, JobFrame, JobKept, user, cb, finish, hist
<1>2. CASE StepTo(seg, "delete") /\ output' = [output EXCEPT ![seg] = SourceQuality(seg)]
  BY <1>1, <1>2, Stepped DEF Moved, JobIsAt
<1>3. CASE JobEnd(seg, FALSE) /\ UNCHANGED output
  BY <1>1, <1>3, Ended DEF Moved, JobIsAt
<1> QED
  BY <1>2, <1>3 DEF JobMove

LEMMA JobDeleteEffect ==
  ASSUME Tables, NEW seg \in Segments, JobDelete(seg) PROVE Deleted(seg)
<1>1. /\ JobKept /\ job[seg].step = "delete" /\ UNCHANGED output /\ Entries' = Entries
      /\ artefact' \in {artefact, [artefact EXCEPT ![seg] = "none"]}
  BY SameEntries DEF JobDelete, JobFrame, JobKept, user, cb, finish, hist
<1> QED
  BY <1>1, Stepped DEF JobDelete, Deleted, JobIsAt

LEMMA JobUnlistEffect ==
  ASSUME Tables, Records, NEW seg \in Segments, JobUnlist(seg) PROVE Unlisted(seg)
<1>1. /\ JobKept /\ job[seg].step = "unlist" /\ UNCHANGED <<artefact, output>>
      /\ Remove(job[seg].id) /\ JobEnd(seg, TRUE)
  BY DEF JobUnlist, JobFrame, JobKept, user, cb, finish, hist
<1>2. Entries \ {job[seg].id} \subseteq Entries'
  BY <1>1, RemovedEntries
<1> QED
  BY <1>1, <1>2, Ended DEF Unlisted, JobIsAt

\* Where a job can be stepped.
LEMMA JobStands ==
  ASSUME JobInv, NEW seg \in Segments,
         NEW step \in {"queued", "move", "delete", "unlist"}, JobIsAt(seg, step)
  PROVE  /\ rec.step = "none" /\ container = "mp4" /\ seg <= cur /\ seg \in listed
         /\ rpc \notin SingleFile
         /\ \A s \in Segments : job'[s].step # "none" => job[s].step # "none"
<1>1. job[seg].step = step /\ Others(seg)
  BY DEF JobIsAt
<1>2. Active(seg) /\ job[seg].step # "none"
  BY <1>1 DEF Active
<1>3. \A s \in Segments : job'[s].step # "none" => job[s].step # "none"
  BY <1>1, <1>2 DEF Others
<1> QED
  BY <1>2, <1>3 DEF JobInv

-----------------------------------------------------------------------------
USE PublishAssumption DEF Up, disk, cb, remux, finish, user, hist, JobFrame, RecFrame

\* Every step keeps the parts of TypeOK.
LEMMA KindStep ==
  ASSUME Kinds, [Next]_vars
  PROVE  Kinds'
<1>1. CASE EditSettings
  BY <1>1 DEF EditSettings, Kinds
<1>2. CASE RequestSplit
  BY <1>2 DEF RequestSplit, Kinds
<1>3. CASE CancelRemux
  BY <1>3 DEF CancelRemux, Kinds
<1>4. CASE Boundary
  BY <1>4 DEF Boundary, Protecting, Kinds
<1>5. CASE BoundaryMark
  BY <1>5 DEF BoundaryMark, UpdateFinalized, MayFail, Kinds
<1>6. CASE BoundaryAdd
  BY <1>6 DEF BoundaryAdd, Add, MayFail, Kinds
<1>7. CASE BoundarySchedule
  BY <1>7 DEF BoundarySchedule, QueueSegmentRemux, Kinds
<1>8. CASE BoundaryReap
  BY <1>8 DEF BoundaryReap, Kinds
<1>9. CASE OpenNext
  BY <1>9 DEF OpenNext, Kinds
<1>10. CASE SessionEnd
  BY <1>10 DEF SessionEnd, MayFail, Kinds
<1>11. CASE PrepareCreate
  BY <1>11 DEF PrepareCreate, Kinds
<1>12. CASE PrepareProtect
  BY <1>12 DEF PrepareProtect, Add, MayFail, Kinds
<1>13. CASE PrepareCancel
  BY <1>13 DEF PrepareCancel, Remove, MayFail, Kinds
<1>14. CASE PrepareCommit
  BY <1>14 DEF PrepareCommit, Kinds
<1>15. CASE Decide
  BY <1>15 DEF Decide, Kinds
<1>16. CASE PublishMkv
  BY <1>16 DEF PublishMkv, Kinds
<1>17. CASE PublishMkvDone
  BY <1>17 DEF PublishMkvDone, Kinds
<1>18. CASE Unlist
  BY <1>18 DEF Unlist, Remove, MayFail, Post, Kinds
<1>19. CASE SingleMark
  BY <1>19 DEF SingleMark, UpdateFinalized, MayFail, Kinds
<1>20. CASE SingleRemux
  BY <1>20 DEF SingleRemux, Post, RemuxOutcomes, MayFail, Kinds
<1>21. CASE SingleMove
  BY <1>21 DEF SingleMove, Post, SourceQuality, Kinds
<1>22. CASE SingleMaster
  BY <1>22 DEF SingleMaster, MayFail, Kinds
<1>23. CASE SingleUnlist
  BY <1>23 DEF SingleUnlist, Remove, MayFail, Post, Kinds
<1>24. CASE SplitMark
  BY <1>24 DEF SplitMark, UpdateFinalized, MayFail, Kinds
<1>25. CASE SplitSchedule
  BY <1>25 DEF SplitSchedule, QueueSegmentRemux, Kinds
<1>26. CASE Drain
  BY <1>26 DEF Drain, Post, AllOk, Kinds
<1>27. ASSUME NEW seg \in Segments, JobRemux(seg)
      PROVE  Kinds'
  BY <1>27 DEF JobRemux, RemuxOutcomes, MayFail, StepTo, JobEnd, Kinds
<1>28. ASSUME NEW seg \in Segments, JobMove(seg)
      PROVE  Kinds'
  BY <1>28 DEF JobMove, SourceQuality, StepTo, JobEnd, Kinds
<1>29. ASSUME NEW seg \in Segments, JobDelete(seg)
      PROVE  Kinds'
  BY <1>29 DEF JobDelete, MayFail, StepTo, Kinds
<1>30. ASSUME NEW seg \in Segments, JobUnlist(seg)
      PROVE  Kinds'
  BY <1>30 DEF JobUnlist, Remove, MayFail, JobEnd, Kinds
<1>31. CASE Crash
  BY <1>31 DEF Crash, NoRecovery, Kinds
<1>32. CASE Relaunch
  BY <1>32 DEF Relaunch, Kinds
<1>33. CASE RecoverMove
  BY <1>33 DEF RecoverMove, SourceQuality, Kinds
<1>34. CASE RecoverDelete
  BY <1>34 DEF RecoverDelete, MayFail, Kinds
<1>35. CASE RecoverUnlist
  BY <1>35 DEF RecoverUnlist, Remove, MayFail, Kinds
<1>36. ASSUME NEW seg \in Segments, RecoverFinish(seg)
      PROVE  Kinds'
  BY <1>36 DEF RecoverFinish, Kinds
<1>37. ASSUME NEW seg \in Segments, RecoverDiscard(seg)
      PROVE  Kinds'
  BY <1>37 DEF RecoverDiscard, Kinds
<1>38. CASE Idle \/ UNCHANGED vars
  BY <1>38 DEF Idle, vars, Kinds
<1> QED
  BY <1>1, <1>2, <1>3, <1>4, <1>5, <1>6, <1>7, <1>8, <1>9, <1>10, <1>11, <1>12, <1>13,
     <1>14, <1>15, <1>16, <1>17, <1>18, <1>19, <1>20, <1>21, <1>22, <1>23, <1>24, <1>25,
     <1>26, <1>27, <1>28, <1>29, <1>30, <1>31, <1>32, <1>33, <1>34, <1>35, <1>36, <1>37,
     <1>38 DEF Next, UserNext, EngineNext, SessionNext, RecoveryNext, JobNext

\* The flags.
LEMMA FlagStep ==
  ASSUME Flags, [Next]_vars
  PROVE  Flags'
<1>1. CASE EditSettings
  BY <1>1 DEF EditSettings, Flags
<1>2. CASE RequestSplit
  BY <1>2 DEF RequestSplit, Flags
<1>3. CASE CancelRemux
  BY <1>3 DEF CancelRemux, Flags
<1>4. CASE Boundary
  BY <1>4 DEF Boundary, Protecting, Flags
<1>5. CASE BoundaryMark
  BY <1>5 DEF BoundaryMark, UpdateFinalized, MayFail, Flags
<1>6. CASE BoundaryAdd
  BY <1>6 DEF BoundaryAdd, Add, MayFail, Flags
<1>7. CASE BoundarySchedule
  BY <1>7 DEF BoundarySchedule, QueueSegmentRemux, Flags
<1>8. CASE BoundaryReap
  BY <1>8 DEF BoundaryReap, Flags
<1>9. CASE OpenNext
  BY <1>9 DEF OpenNext, Flags
<1>10. CASE SessionEnd
  BY <1>10 DEF SessionEnd, MayFail, Flags
<1>11. CASE PrepareCreate
  BY <1>11 DEF PrepareCreate, Flags
<1>12. CASE PrepareProtect
  BY <1>12 DEF PrepareProtect, Add, MayFail, Flags
<1>13. CASE PrepareCancel
  BY <1>13 DEF PrepareCancel, Remove, MayFail, Flags
<1>14. CASE PrepareCommit
  BY <1>14 DEF PrepareCommit, Flags
<1>15. CASE Decide
  BY <1>15 DEF Decide, Flags
<1>16. CASE PublishMkv
  BY <1>16 DEF PublishMkv, Flags
<1>17. CASE PublishMkvDone
  BY <1>17 DEF PublishMkvDone, Flags
<1>18. CASE Unlist
  BY <1>18 DEF Unlist, Remove, MayFail, Post, Flags
<1>19. CASE SingleMark
  BY <1>19 DEF SingleMark, UpdateFinalized, MayFail, Flags
<1>20. CASE SingleRemux
  BY <1>20 DEF SingleRemux, Post, RemuxOutcomes, MayFail, Flags
<1>21. CASE SingleMove
  BY <1>21 DEF SingleMove, Post, SourceQuality, Flags
<1>22. CASE SingleMaster
  BY <1>22 DEF SingleMaster, MayFail, Flags
<1>23. CASE SingleUnlist
  BY <1>23 DEF SingleUnlist, Remove, MayFail, Post, Flags
<1>24. CASE SplitMark
  BY <1>24 DEF SplitMark, UpdateFinalized, MayFail, Flags
<1>25. CASE SplitSchedule
  BY <1>25 DEF SplitSchedule, QueueSegmentRemux, Flags
<1>26. CASE Drain
  BY <1>26 DEF Drain, Post, AllOk, Flags
<1>27. ASSUME NEW seg \in Segments, JobRemux(seg)
      PROVE  Flags'
  BY <1>27 DEF JobRemux, RemuxOutcomes, MayFail, StepTo, JobEnd, Flags
<1>28. ASSUME NEW seg \in Segments, JobMove(seg)
      PROVE  Flags'
  BY <1>28 DEF JobMove, SourceQuality, StepTo, JobEnd, Flags
<1>29. ASSUME NEW seg \in Segments, JobDelete(seg)
      PROVE  Flags'
  BY <1>29 DEF JobDelete, MayFail, StepTo, Flags
<1>30. ASSUME NEW seg \in Segments, JobUnlist(seg)
      PROVE  Flags'
  BY <1>30 DEF JobUnlist, Remove, MayFail, JobEnd, Flags
<1>31. CASE Crash
  BY <1>31 DEF Crash, NoRecovery, Flags
<1>32. CASE Relaunch
  BY <1>32 DEF Relaunch, Flags
<1>33. CASE RecoverMove
  BY <1>33 DEF RecoverMove, SourceQuality, Flags
<1>34. CASE RecoverDelete
  BY <1>34 DEF RecoverDelete, MayFail, Flags
<1>35. CASE RecoverUnlist
  BY <1>35 DEF RecoverUnlist, Remove, MayFail, Flags
<1>36. ASSUME NEW seg \in Segments, RecoverFinish(seg)
      PROVE  Flags'
  BY <1>36 DEF RecoverFinish, Flags
<1>37. ASSUME NEW seg \in Segments, RecoverDiscard(seg)
      PROVE  Flags'
  BY <1>37 DEF RecoverDiscard, Flags
<1>38. CASE Idle \/ UNCHANGED vars
  BY <1>38 DEF Idle, vars, Flags
<1> QED
  BY <1>1, <1>2, <1>3, <1>4, <1>5, <1>6, <1>7, <1>8, <1>9, <1>10, <1>11, <1>12, <1>13,
     <1>14, <1>15, <1>16, <1>17, <1>18, <1>19, <1>20, <1>21, <1>22, <1>23, <1>24, <1>25,
     <1>26, <1>27, <1>28, <1>29, <1>30, <1>31, <1>32, <1>33, <1>34, <1>35, <1>36, <1>37,
     <1>38 DEF Next, UserNext, EngineNext, SessionNext, RecoveryNext, JobNext

\* Positions, ids and sets of segments.
LEMMA NumberStep ==
  ASSUME Kinds, Numbers, Records, FlowInv, [Next]_vars
  PROVE  Numbers'
<1>1. CASE EditSettings
  BY <1>1 DEF EditSettings, Kinds, Numbers, FlowInv, Segments, NoId
<1>2. CASE RequestSplit
  BY <1>2 DEF RequestSplit, Kinds, Numbers, FlowInv, Segments, NoId
<1>3. CASE CancelRemux
  BY <1>3 DEF CancelRemux, Kinds, Numbers, FlowInv, Segments, NoId
<1>4. CASE Boundary
  BY <1>4 DEF Boundary, Protecting, Kinds, Numbers, FlowInv, Segments, NoId
<1>5. CASE BoundaryMark
  BY <1>5 DEF BoundaryMark, UpdateFinalized, MayFail, Kinds, Numbers, FlowInv, Segments,
     NoId
<1>6. CASE BoundaryAdd
  <2>1. PICK ok \in BOOLEAN : /\ Add(cur + 1, ok)
                              /\ next_id' = IF ok THEN cur + 1 ELSE NoId
                              /\ unlisted' = unlisted \cup Unprotected(cur + 1)
    BY <1>6 DEF BoundaryAdd, MayFail
  <2>2. cur + 1 \in Segments
    BY <1>6 DEF BoundaryAdd, FlowInv
  <2>3. Unprotected(cur + 1) \subseteq Segments
    BY <2>1, <2>2, AddedEntries
  <2>4. UNCHANGED <<cur, pub, crashes, current_id, listed, unnamed, discarded, missed>>
    BY <1>6 DEF BoundaryAdd, finish
  <2> QED
    BY <2>1, <2>2, <2>3, <2>4 DEF Numbers
<1>7. CASE BoundarySchedule
  BY <1>7 DEF BoundarySchedule, QueueSegmentRemux, Kinds, Numbers, FlowInv, Segments,
     NoId
<1>8. CASE BoundaryReap
  BY <1>8 DEF BoundaryReap, Kinds, Numbers, FlowInv, Segments, NoId
<1>9. CASE OpenNext
  BY <1>9 DEF OpenNext, Kinds, Numbers, FlowInv, Segments, NoId
<1>10. CASE SessionEnd
  BY <1>10 DEF SessionEnd, MayFail, Kinds, Numbers, FlowInv, Segments, NoId
<1>11. CASE PrepareCreate
  BY <1>11 DEF PrepareCreate, Kinds, Numbers, FlowInv, Segments, NoId
<1>12. CASE PrepareProtect
  <2>1. PICK ok \in BOOLEAN : /\ Add(0, ok)
                              /\ current_id' = IF ok THEN 0 ELSE NoId
                              /\ unlisted' = unlisted \cup Unprotected(0)
    BY <1>12 DEF PrepareProtect, MayFail
  <2>2. 0 \in Segments
    BY <1>12 DEF PrepareProtect, Preparing, FlowInv, Numbers
  <2>3. Unprotected(0) \subseteq Segments
    BY <2>1, <2>2, AddedEntries
  <2>4. UNCHANGED <<cur, pub, crashes, next_id, listed, unnamed, discarded, missed>>
    BY <1>12 DEF PrepareProtect, cb, finish, remux
  <2> QED
    BY <2>1, <2>2, <2>3, <2>4 DEF Numbers
<1>13. CASE PrepareCancel
  BY <1>13 DEF PrepareCancel, Remove, MayFail, Kinds, Numbers, FlowInv, Segments, NoId
<1>14. CASE PrepareCommit
  BY <1>14 DEF PrepareCommit, Kinds, Numbers, FlowInv, Segments, NoId
<1>15. CASE Decide
  BY <1>15 DEF Decide, Kinds, Numbers, FlowInv, Segments, NoId
<1>16. CASE PublishMkv
  <2>1. pub <= cur /\ pub + 1 \in 0 .. MaxSegments /\ (pub .. cur) \subseteq Segments
    BY <1>16 DEF PublishMkv, Numbers, Segments
  <2>2. pub' \in {pub, pub + 1} /\ unnamed' \in {unnamed, unnamed \cup (pub .. cur)}
    BY <1>16 DEF PublishMkv
  <2>3. UNCHANGED <<cur, crashes, current_id, next_id, listed, unlisted, discarded, missed>>
    BY <1>16 DEF PublishMkv
  <2> QED
    BY <2>1, <2>2, <2>3 DEF Numbers
<1>17. CASE PublishMkvDone
  BY <1>17 DEF PublishMkvDone, Kinds, Numbers, FlowInv, Segments, NoId
<1>18. CASE Unlist
  BY <1>18 DEF Unlist, Remove, MayFail, Post, Kinds, Numbers, FlowInv, Segments, NoId
<1>19. CASE SingleMark
  BY <1>19 DEF SingleMark, UpdateFinalized, MayFail, Kinds, Numbers, FlowInv, Segments,
     NoId
<1>20. CASE SingleRemux
  BY <1>20 DEF SingleRemux, Post, RemuxOutcomes, MayFail, Kinds, Numbers, FlowInv,
     Segments, NoId
<1>21. CASE SingleMove
  BY <1>21 DEF SingleMove, Post, SourceQuality, Kinds, Numbers, FlowInv, Segments, NoId
<1>22. CASE SingleMaster
  BY <1>22 DEF SingleMaster, MayFail, Kinds, Numbers, FlowInv, Segments, NoId
<1>23. CASE SingleUnlist
  BY <1>23 DEF SingleUnlist, Remove, MayFail, Post, Kinds, Numbers, FlowInv, Segments,
     NoId
<1>24. CASE SplitMark
  BY <1>24 DEF SplitMark, UpdateFinalized, MayFail, Kinds, Numbers, FlowInv, Segments,
     NoId
<1>25. CASE SplitSchedule
  BY <1>25 DEF SplitSchedule, QueueSegmentRemux, Kinds, Numbers, FlowInv, Segments, NoId
<1>26. CASE Drain
  BY <1>26 DEF Drain, Post, AllOk, Kinds, Numbers, FlowInv, Segments, NoId
<1>27. ASSUME NEW seg \in Segments, JobRemux(seg)
      PROVE  Numbers'
  BY <1>27 DEF JobRemux, RemuxOutcomes, MayFail, StepTo, JobEnd, Kinds, Numbers,
     FlowInv, Segments, NoId
<1>28. ASSUME NEW seg \in Segments, JobMove(seg)
      PROVE  Numbers'
  BY <1>28 DEF JobMove, SourceQuality, StepTo, JobEnd, Kinds, Numbers, FlowInv,
     Segments, NoId
<1>29. ASSUME NEW seg \in Segments, JobDelete(seg)
      PROVE  Numbers'
  BY <1>29 DEF JobDelete, MayFail, StepTo, Kinds, Numbers, FlowInv, Segments, NoId
<1>30. ASSUME NEW seg \in Segments, JobUnlist(seg)
      PROVE  Numbers'
  BY <1>30 DEF JobUnlist, Remove, MayFail, JobEnd, Kinds, Numbers, FlowInv, Segments,
     NoId
<1>31. CASE Crash
  BY <1>31 DEF Crash, NoRecovery, Kinds, Numbers, FlowInv, Segments, NoId
<1>32. CASE Relaunch
  BY <1>32 DEF Relaunch, Kinds, Numbers, FlowInv, Segments, NoId
<1>33. CASE RecoverMove
  BY <1>33 DEF RecoverMove, SourceQuality, Kinds, Numbers, FlowInv, Segments, NoId
<1>34. CASE RecoverDelete
  BY <1>34 DEF RecoverDelete, MayFail, Kinds, Numbers, FlowInv, Segments, NoId
<1>35. CASE RecoverUnlist
  BY <1>35 DEF RecoverUnlist, Remove, MayFail, Kinds, Numbers, FlowInv, Segments, NoId
<1>36. ASSUME NEW seg \in Segments, RecoverFinish(seg)
      PROVE  Numbers'
  BY <1>36 DEF RecoverFinish, Kinds, Numbers, FlowInv, Segments, NoId
<1>37. ASSUME NEW seg \in Segments, RecoverDiscard(seg)
      PROVE  Numbers'
  BY <1>37 DEF RecoverDiscard, Kinds, Numbers, FlowInv, Segments, NoId
<1>38. CASE Idle \/ UNCHANGED vars
  BY <1>38 DEF Idle, vars, Kinds, Numbers, FlowInv, Segments, NoId
<1> QED
  BY <1>1, <1>2, <1>3, <1>4, <1>5, <1>6, <1>7, <1>8, <1>9, <1>10, <1>11, <1>12, <1>13,
     <1>14, <1>15, <1>16, <1>17, <1>18, <1>19, <1>20, <1>21, <1>22, <1>23, <1>24, <1>25,
     <1>26, <1>27, <1>28, <1>29, <1>30, <1>31, <1>32, <1>33, <1>34, <1>35, <1>36, <1>37,
     <1>38 DEF Next, UserNext, EngineNext, SessionNext, RecoveryNext, JobNext

\* The tables over the segments.
LEMMA TableStep ==
  ASSUME Kinds, Numbers, FlowInv, Tables, Records, [Next]_vars
  PROVE  Tables'
<1>1. CASE EditSettings
  BY <1>1 DEF EditSettings, Kinds, Numbers, Tables, Records, Job, FlowInv, Segments,
     NoId
<1>2. CASE RequestSplit
  BY <1>2 DEF RequestSplit, Kinds, Numbers, Tables, Records, Job, FlowInv, Segments,
     NoId
<1>3. CASE CancelRemux
  BY <1>3 DEF CancelRemux, Kinds, Numbers, Tables, Records, Job, FlowInv, Segments, NoId
<1>4. CASE Boundary
  BY <1>4 DEF Boundary, Protecting, Kinds, Numbers, Tables, Records, Job, FlowInv,
     Segments, NoId
<1>5. CASE BoundaryMark
  BY <1>5 DEF BoundaryMark, UpdateFinalized, MayFail, Kinds, Numbers, Tables, Records,
     Job, FlowInv, Segments, NoId
<1>6. CASE BoundaryAdd
  BY <1>6 DEF BoundaryAdd, Add, MayFail, Kinds, Numbers, Tables, Records, Job, FlowInv,
     Segments, NoId
<1>7. CASE BoundarySchedule
  BY <1>7, Queued DEF BoundarySchedule, Others, Kinds, Numbers, Tables, Records, Job,
     FlowInv, Segments, NoId
<1>8. CASE BoundaryReap
  BY <1>8 DEF BoundaryReap, Kinds, Numbers, Tables, Records, Job, FlowInv, Segments,
     NoId
<1>9. CASE OpenNext
  BY <1>9 DEF OpenNext, Kinds, Numbers, Tables, Records, Job, FlowInv, Segments, NoId
<1>10. CASE SessionEnd
  BY <1>10 DEF SessionEnd, MayFail, Kinds, Numbers, Tables, Records, Job, FlowInv,
     Segments, NoId
<1>11. CASE PrepareCreate
  BY <1>11 DEF PrepareCreate, Kinds, Numbers, Tables, Records, Job, FlowInv, Segments,
     NoId
<1>12. CASE PrepareProtect
  BY <1>12 DEF PrepareProtect, Add, MayFail, Kinds, Numbers, Tables, Records, Job,
     FlowInv, Segments, NoId
<1>13. CASE PrepareCancel
  BY <1>13 DEF PrepareCancel, Remove, MayFail, Kinds, Numbers, Tables, Records, Job,
     FlowInv, Segments, NoId
<1>14. CASE PrepareCommit
  BY <1>14 DEF PrepareCommit, Kinds, Numbers, Tables, Records, Job, FlowInv, Segments,
     NoId
<1>15. CASE Decide
  BY <1>15 DEF Decide, Kinds, Numbers, Tables, Records, Job, FlowInv, Segments, NoId
<1>16. CASE PublishMkv
  BY <1>16 DEF PublishMkv, Kinds, Numbers, Tables, Records, Job, FlowInv, Segments, NoId
<1>17. CASE PublishMkvDone
  BY <1>17 DEF PublishMkvDone, Kinds, Numbers, Tables, Records, Job, FlowInv, Segments,
     NoId
<1>18. CASE Unlist
  BY <1>18 DEF Unlist, Remove, MayFail, Post, Kinds, Numbers, Tables, Records, Job,
     FlowInv, Segments, NoId
<1>19. CASE SingleMark
  BY <1>19 DEF SingleMark, UpdateFinalized, MayFail, Kinds, Numbers, Tables, Records,
     Job, FlowInv, Segments, NoId
<1>20. CASE SingleRemux
  BY <1>20 DEF SingleRemux, Post, RemuxOutcomes, MayFail, Kinds, Numbers, Tables,
     Records, Job, FlowInv, Segments, NoId
<1>21. CASE SingleMove
  BY <1>21 DEF SingleMove, Post, SourceQuality, Kinds, Numbers, Tables, Records, Job,
     FlowInv, Segments, NoId
<1>22. CASE SingleMaster
  BY <1>22 DEF SingleMaster, MayFail, Kinds, Numbers, Tables, Records, Job, FlowInv,
     Segments, NoId
<1>23. CASE SingleUnlist
  BY <1>23 DEF SingleUnlist, Remove, MayFail, Post, Kinds, Numbers, Tables, Records,
     Job, FlowInv, Segments, NoId
<1>24. CASE SplitMark
  BY <1>24 DEF SplitMark, UpdateFinalized, MayFail, Kinds, Numbers, Tables, Records,
     Job, FlowInv, Segments, NoId
<1>25. CASE SplitSchedule
  BY <1>25, Queued DEF SplitSchedule, Others, Kinds, Numbers, Tables, Records, Job,
     FlowInv, Segments, NoId
<1>26. CASE Drain
  BY <1>26 DEF Drain, Post, AllOk, Kinds, Numbers, Tables, Records, Job, FlowInv,
     Segments, NoId
<1>27. ASSUME NEW seg \in Segments, JobRemux(seg)
      PROVE  Tables'
  <2>1. Remuxed(seg)
    BY <1>27, JobRemuxEffect
  <2> QED
    BY <2>1 DEF Remuxed, JobIsAt, JobKept, Others, Kinds, Numbers, Tables, Records, Job,
       FlowInv, Segments, NoId
<1>28. ASSUME NEW seg \in Segments, JobMove(seg)
      PROVE  Tables'
  <2>1. Moved(seg)
    BY <1>28, JobMoveEffect
  <2> QED
    BY <2>1 DEF Moved, JobIsAt, JobKept, Others, SourceQuality, Kinds, Numbers, Tables,
       Records, Job, FlowInv, Segments, NoId
<1>29. ASSUME NEW seg \in Segments, JobDelete(seg)
      PROVE  Tables'
  <2>1. Deleted(seg)
    BY <1>29, JobDeleteEffect
  <2> QED
    BY <2>1 DEF Deleted, JobIsAt, JobKept, Others, Kinds, Numbers, Tables, Records, Job,
       FlowInv, Segments, NoId
<1>30. ASSUME NEW seg \in Segments, JobUnlist(seg)
      PROVE  Tables'
  <2>1. Unlisted(seg)
    BY <1>30, JobUnlistEffect
  <2> QED
    BY <2>1 DEF Unlisted, JobIsAt, JobKept, Others, Kinds, Numbers, Tables, Records, Job,
       FlowInv, Segments, NoId
<1>31. CASE Crash
  BY <1>31 DEF Crash, NoRecovery, Kinds, Numbers, Tables, Records, Job, FlowInv,
     Segments, NoId
<1>32. CASE Relaunch
  BY <1>32 DEF Relaunch, Kinds, Numbers, Tables, Records, Job, FlowInv, Segments, NoId
<1>33. CASE RecoverMove
  BY <1>33 DEF RecoverMove, SourceQuality, Kinds, Numbers, Tables, Records, Job,
     FlowInv, Segments, NoId
<1>34. CASE RecoverDelete
  BY <1>34 DEF RecoverDelete, MayFail, Kinds, Numbers, Tables, Records, Job, FlowInv,
     Segments, NoId
<1>35. CASE RecoverUnlist
  BY <1>35 DEF RecoverUnlist, Remove, MayFail, Kinds, Numbers, Tables, Records, Job,
     FlowInv, Segments, NoId
<1>36. ASSUME NEW seg \in Segments, RecoverFinish(seg)
      PROVE  Tables'
  BY <1>36 DEF RecoverFinish, Kinds, Numbers, Tables, Records, Job, FlowInv, Segments,
     NoId
<1>37. ASSUME NEW seg \in Segments, RecoverDiscard(seg)
      PROVE  Tables'
  BY <1>37 DEF RecoverDiscard, Kinds, Numbers, Tables, Records, Job, FlowInv, Segments,
     NoId
<1>38. CASE Idle \/ UNCHANGED vars
  BY <1>38 DEF Idle, vars, Kinds, Numbers, Tables, Records, Job, FlowInv, Segments, NoId
<1> QED
  BY <1>1, <1>2, <1>3, <1>4, <1>5, <1>6, <1>7, <1>8, <1>9, <1>10, <1>11, <1>12, <1>13,
     <1>14, <1>15, <1>16, <1>17, <1>18, <1>19, <1>20, <1>21, <1>22, <1>23, <1>24, <1>25,
     <1>26, <1>27, <1>28, <1>29, <1>30, <1>31, <1>32, <1>33, <1>34, <1>35, <1>36, <1>37,
     <1>38 DEF Next, UserNext, EngineNext, SessionNext, RecoveryNext, JobNext

\* The manifest and the state of the recovery.
LEMMA RecordStep ==
  ASSUME Kinds, Numbers, FlowInv, Records, [Next]_vars
  PROVE  Records'
<1>1. CASE EditSettings
  BY <1>1, SameEntries DEF EditSettings, Kinds, Numbers, Records, Entry, FlowInv,
     Segments, NoId
<1>2. CASE RequestSplit
  BY <1>2, SameEntries DEF RequestSplit, Kinds, Numbers, Records, Entry, FlowInv,
     Segments, NoId
<1>3. CASE CancelRemux
  BY <1>3, SameEntries DEF CancelRemux, Kinds, Numbers, Records, Entry, FlowInv,
     Segments, NoId
<1>4. CASE Boundary
  BY <1>4, SameEntries DEF Boundary, Protecting, Kinds, Numbers, Records, Entry,
     FlowInv, Segments, NoId
<1>5. CASE BoundaryMark
  BY <1>5, FinalizedEntries DEF BoundaryMark, MayFail, Kinds, Numbers, Records, Entry,
     FlowInv, Segments, NoId
<1>6. CASE BoundaryAdd
  BY <1>6, AddedEntries DEF BoundaryAdd, MayFail, Kinds, Numbers, Records, Entry,
     FlowInv, Segments, NoId
<1>7. CASE BoundarySchedule
  BY <1>7, SameEntries DEF BoundarySchedule, QueueSegmentRemux, Kinds, Numbers, Records,
     Entry, FlowInv, Segments, NoId
<1>8. CASE BoundaryReap
  BY <1>8, SameEntries DEF BoundaryReap, Kinds, Numbers, Records, Entry, FlowInv,
     Segments, NoId
<1>9. CASE OpenNext
  BY <1>9, SameEntries DEF OpenNext, Kinds, Numbers, Records, Entry, FlowInv, Segments,
     NoId
<1>10. CASE SessionEnd
  BY <1>10, SameEntries DEF SessionEnd, MayFail, Kinds, Numbers, Records, Entry,
     FlowInv, Segments, NoId
<1>11. CASE PrepareCreate
  BY <1>11, SameEntries DEF PrepareCreate, Kinds, Numbers, Records, Entry, FlowInv,
     Segments, NoId
<1>12. CASE PrepareProtect
  <2>1. PICK ok \in BOOLEAN : Add(0, ok)
    BY <1>12 DEF PrepareProtect, MayFail
  <2>2. 0 \in Segments
    BY DEF Segments
  <2>3. manifest' \subseteq Entry
    BY <2>1, <2>2, AddedEntries
  <2> QED
    BY <2>3, <1>12 DEF PrepareProtect, Records
<1>13. CASE PrepareCancel
  BY <1>13, RemovedEntries DEF PrepareCancel, MayFail, Kinds, Numbers, Records, Entry,
     FlowInv, Segments, NoId
<1>14. CASE PrepareCommit
  BY <1>14, SameEntries DEF PrepareCommit, Kinds, Numbers, Records, Entry, FlowInv,
     Segments, NoId
<1>15. CASE Decide
  BY <1>15, SameEntries DEF Decide, Kinds, Numbers, Records, Entry, FlowInv, Segments,
     NoId
<1>16. CASE PublishMkv
  BY <1>16, SameEntries DEF PublishMkv, Kinds, Numbers, Records, Entry, FlowInv,
     Segments, NoId
<1>17. CASE PublishMkvDone
  BY <1>17, SameEntries DEF PublishMkvDone, Kinds, Numbers, Records, Entry, FlowInv,
     Segments, NoId
<1>18. CASE Unlist
  BY <1>18, RemovedEntries DEF Unlist, MayFail, Post, Kinds, Numbers, Records, Entry,
     FlowInv, Segments, NoId
<1>19. CASE SingleMark
  BY <1>19, FinalizedEntries DEF SingleMark, MayFail, Kinds, Numbers, Records, Entry,
     FlowInv, Segments, NoId
<1>20. CASE SingleRemux
  BY <1>20, SameEntries DEF SingleRemux, Post, RemuxOutcomes, MayFail, Kinds, Numbers,
     Records, Entry, FlowInv, Segments, NoId
<1>21. CASE SingleMove
  BY <1>21, SameEntries DEF SingleMove, Post, SourceQuality, Kinds, Numbers, Records,
     Entry, FlowInv, Segments, NoId
<1>22. CASE SingleMaster
  BY <1>22, SameEntries DEF SingleMaster, MayFail, Kinds, Numbers, Records, Entry,
     FlowInv, Segments, NoId
<1>23. CASE SingleUnlist
  BY <1>23, RemovedEntries DEF SingleUnlist, MayFail, Post, Kinds, Numbers, Records,
     Entry, FlowInv, Segments, NoId
<1>24. CASE SplitMark
  BY <1>24, FinalizedEntries DEF SplitMark, MayFail, Kinds, Numbers, Records, Entry,
     FlowInv, Segments, NoId
<1>25. CASE SplitSchedule
  BY <1>25, SameEntries DEF SplitSchedule, QueueSegmentRemux, Kinds, Numbers, Records,
     Entry, FlowInv, Segments, NoId
<1>26. CASE Drain
  BY <1>26, SameEntries DEF Drain, Post, AllOk, Kinds, Numbers, Records, Entry, FlowInv,
     Segments, NoId
<1>27. ASSUME NEW seg \in Segments, JobRemux(seg)
      PROVE  Records'
  BY <1>27, SameEntries DEF JobRemux, RemuxOutcomes, MayFail, StepTo, JobEnd, Kinds,
     Numbers, Records, Entry, FlowInv, Segments, NoId
<1>28. ASSUME NEW seg \in Segments, JobMove(seg)
      PROVE  Records'
  BY <1>28, SameEntries DEF JobMove, SourceQuality, StepTo, JobEnd, Kinds, Numbers,
     Records, Entry, FlowInv, Segments, NoId
<1>29. ASSUME NEW seg \in Segments, JobDelete(seg)
      PROVE  Records'
  BY <1>29, SameEntries DEF JobDelete, MayFail, StepTo, Kinds, Numbers, Records, Entry,
     FlowInv, Segments, NoId
<1>30. ASSUME NEW seg \in Segments, JobUnlist(seg)
      PROVE  Records'
  BY <1>30, RemovedEntries DEF JobUnlist, MayFail, JobEnd, Kinds, Numbers, Records,
     Entry, FlowInv, Segments, NoId
<1>31. CASE Crash
  BY <1>31, SameEntries DEF Crash, NoRecovery, Kinds, Numbers, Records, Entry, FlowInv,
     Segments, NoId
<1>32. CASE Relaunch
  BY <1>32 DEF Relaunch, Kinds, Numbers, Records, Entry, FlowInv, Segments, NoId
<1>33. CASE RecoverMove
  BY <1>33, SameEntries DEF RecoverMove, SourceQuality, Kinds, Numbers, Records, Entry,
     FlowInv, Segments, NoId
<1>34. CASE RecoverDelete
  BY <1>34, SameEntries DEF RecoverDelete, MayFail, Kinds, Numbers, Records, Entry,
     FlowInv, Segments, NoId
<1>35. CASE RecoverUnlist
  BY <1>35, RemovedEntries DEF RecoverUnlist, MayFail, Kinds, Numbers, Records, Entry,
     FlowInv, Segments, NoId
<1>36. ASSUME NEW seg \in Segments, RecoverFinish(seg)
      PROVE  Records'
  BY <1>36, SameEntries DEF RecoverFinish, Kinds, Numbers, Records, Entry, FlowInv,
     Segments, NoId
<1>37. ASSUME NEW seg \in Segments, RecoverDiscard(seg)
      PROVE  Records'
  BY <1>37, SameEntries DEF RecoverDiscard, Kinds, Numbers, Records, Entry, FlowInv,
     Segments, NoId
<1>38. CASE Idle \/ UNCHANGED vars
  BY <1>38, SameEntries DEF Idle, vars, Kinds, Numbers, Records, Entry, FlowInv,
     Segments, NoId
<1> QED
  BY <1>1, <1>2, <1>3, <1>4, <1>5, <1>6, <1>7, <1>8, <1>9, <1>10, <1>11, <1>12, <1>13,
     <1>14, <1>15, <1>16, <1>17, <1>18, <1>19, <1>20, <1>21, <1>22, <1>23, <1>24, <1>25,
     <1>26, <1>27, <1>28, <1>29, <1>30, <1>31, <1>32, <1>33, <1>34, <1>35, <1>36, <1>37,
     <1>38 DEF Next, UserNext, EngineNext, SessionNext, RecoveryNext, JobNext

\* Every step keeps FlowInv: a callback runs only inside Record(), recovery
\* only after a relaunch.
LEMMA FlowStep ==
  ASSUME Kinds, Flags, Numbers, Tables, Records, FlowInv, JobInv, [Next]_vars
  PROVE  FlowInv'
<1>1. CASE EditSettings
  BY <1>1 DEF EditSettings, Kinds, Numbers, Tables, Records, JobInv, Active, FlowInv,
     Preparing, SingleFile, Splitting, Segments, NoId
<1>2. CASE RequestSplit
  BY <1>2 DEF RequestSplit, Kinds, Numbers, Tables, Records, JobInv, Active, FlowInv,
     Preparing, SingleFile, Splitting, Segments, NoId
<1>3. CASE CancelRemux
  BY <1>3 DEF CancelRemux, Kinds, Numbers, Tables, Records, JobInv, Active, FlowInv,
     Preparing, SingleFile, Splitting, Segments, NoId
<1>4. CASE Boundary
  BY <1>4 DEF Boundary, Protecting, Kinds, Numbers, Tables, Records, JobInv, Active,
     FlowInv, Preparing, SingleFile, Splitting, Segments, NoId
<1>5. CASE BoundaryMark
  BY <1>5 DEF BoundaryMark, UpdateFinalized, MayFail, Kinds, Numbers, Tables, Records,
     JobInv, Active, FlowInv, Preparing, SingleFile, Splitting, Segments, NoId
<1>6. CASE BoundaryAdd
  BY <1>6 DEF BoundaryAdd, Add, MayFail, Kinds, Numbers, Tables, Records, JobInv,
     Active, FlowInv, Preparing, SingleFile, Splitting, Segments, NoId
<1>7. CASE BoundarySchedule
  BY <1>7 DEF BoundarySchedule, QueueSegmentRemux, Kinds, Numbers, Tables, Records,
     JobInv, Active, FlowInv, Preparing, SingleFile, Splitting, Segments, NoId
<1>8. CASE BoundaryReap
  BY <1>8 DEF BoundaryReap, Kinds, Numbers, Tables, Records, JobInv, Active, FlowInv,
     Preparing, SingleFile, Splitting, Segments, NoId
<1>9. CASE OpenNext
  BY <1>9 DEF OpenNext, Kinds, Numbers, Tables, Records, JobInv, Active, FlowInv,
     Preparing, SingleFile, Splitting, Segments, NoId
<1>10. CASE SessionEnd
  <2>1. PICK ok \in BOOLEAN : engine_ok' = ok /\ (succeeded' = ok \/ succeeded' = FALSE)
    BY <1>10 DEF SessionEnd, MayFail
  <2>2. succeeded' => engine_ok'
    BY <2>1, Zenon
  <2> QED
    BY <1>10, <2>2 DEF SessionEnd, Kinds, FlowInv, Preparing, SingleFile, Splitting
<1>11. CASE PrepareCreate
  BY <1>11 DEF PrepareCreate, Kinds, Numbers, Tables, Records, JobInv, Active, FlowInv,
     Preparing, SingleFile, Splitting, Segments, NoId
<1>12. CASE PrepareProtect
  BY <1>12 DEF PrepareProtect, Add, MayFail, Kinds, Numbers, Tables, Records, JobInv,
     Active, FlowInv, Preparing, SingleFile, Splitting, Segments, NoId
<1>13. CASE PrepareCancel
  BY <1>13 DEF PrepareCancel, Remove, MayFail, Kinds, Numbers, Tables, Records, JobInv,
     Active, FlowInv, Preparing, SingleFile, Splitting, Segments, NoId
<1>14. CASE PrepareCommit
  BY <1>14 DEF PrepareCommit, Kinds, Numbers, Tables, Records, JobInv, Active, FlowInv,
     Preparing, SingleFile, Splitting, Segments, NoId
<1>15. CASE Decide
  BY <1>15 DEF Decide, Kinds, Numbers, Tables, Records, JobInv, Active, FlowInv,
     Preparing, SingleFile, Splitting, Segments, NoId
<1>16. CASE PublishMkv
  BY <1>16 DEF PublishMkv, Kinds, Numbers, Tables, Records, JobInv, Active, FlowInv,
     Preparing, SingleFile, Splitting, Segments, NoId
<1>17. CASE PublishMkvDone
  BY <1>17 DEF PublishMkvDone, Kinds, Numbers, Tables, Records, JobInv, Active, FlowInv,
     Preparing, SingleFile, Splitting, Segments, NoId
<1>18. CASE Unlist
  BY <1>18 DEF Unlist, Remove, MayFail, Post, Kinds, Numbers, Tables, Records, JobInv,
     Active, FlowInv, Preparing, SingleFile, Splitting, Segments, NoId
<1>19. CASE SingleMark
  BY <1>19 DEF SingleMark, UpdateFinalized, MayFail, Kinds, Numbers, Tables, Records,
     JobInv, Active, FlowInv, Preparing, SingleFile, Splitting, Segments, NoId
<1>20. CASE SingleRemux
  BY <1>20 DEF SingleRemux, Post, RemuxOutcomes, MayFail, Kinds, Numbers, Tables,
     Records, JobInv, Active, FlowInv, Preparing, SingleFile, Splitting, Segments, NoId
<1>21. CASE SingleMove
  BY <1>21 DEF SingleMove, Post, SourceQuality, Kinds, Numbers, Tables, Records, JobInv,
     Active, FlowInv, Preparing, SingleFile, Splitting, Segments, NoId
<1>22. CASE SingleMaster
  BY <1>22 DEF SingleMaster, MayFail, Kinds, Numbers, Tables, Records, JobInv, Active,
     FlowInv, Preparing, SingleFile, Splitting, Segments, NoId
<1>23. CASE SingleUnlist
  BY <1>23 DEF SingleUnlist, Remove, MayFail, Post, Kinds, Numbers, Tables, Records,
     JobInv, Active, FlowInv, Preparing, SingleFile, Splitting, Segments, NoId
<1>24. CASE SplitMark
  BY <1>24 DEF SplitMark, UpdateFinalized, MayFail, Kinds, Numbers, Tables, Records,
     JobInv, Active, FlowInv, Preparing, SingleFile, Splitting, Segments, NoId
<1>25. CASE SplitSchedule
  BY <1>25 DEF SplitSchedule, QueueSegmentRemux, Kinds, Numbers, Tables, Records,
     JobInv, Active, FlowInv, Preparing, SingleFile, Splitting, Segments, NoId
<1>26. CASE Drain
  BY <1>26 DEF Drain, Post, AllOk, Kinds, Numbers, Tables, Records, JobInv, Active,
     FlowInv, Preparing, SingleFile, Splitting, Segments, NoId
<1>27. ASSUME NEW seg \in Segments, JobRemux(seg)
      PROVE  FlowInv'
  BY <1>27 DEF JobRemux, RemuxOutcomes, MayFail, StepTo, JobEnd, Kinds, Numbers, Tables,
     Records, JobInv, Active, FlowInv, Preparing, SingleFile, Splitting, Segments, NoId
<1>28. ASSUME NEW seg \in Segments, JobMove(seg)
      PROVE  FlowInv'
  BY <1>28 DEF JobMove, SourceQuality, StepTo, JobEnd, Kinds, Numbers, Tables, Records,
     JobInv, Active, FlowInv, Preparing, SingleFile, Splitting, Segments, NoId
<1>29. ASSUME NEW seg \in Segments, JobDelete(seg)
      PROVE  FlowInv'
  BY <1>29 DEF JobDelete, MayFail, StepTo, Kinds, Numbers, Tables, Records, JobInv,
     Active, FlowInv, Preparing, SingleFile, Splitting, Segments, NoId
<1>30. ASSUME NEW seg \in Segments, JobUnlist(seg)
      PROVE  FlowInv'
  BY <1>30 DEF JobUnlist, Remove, MayFail, JobEnd, Kinds, Numbers, Tables, Records,
     JobInv, Active, FlowInv, Preparing, SingleFile, Splitting, Segments, NoId
<1>31. CASE Crash
  BY <1>31 DEF Crash, NoRecovery, Kinds, Numbers, Tables, Records, JobInv, Active,
     FlowInv, Preparing, SingleFile, Splitting, Segments, NoId
<1>32. CASE Relaunch
  BY <1>32 DEF Relaunch, Kinds, Numbers, Tables, Records, JobInv, Active, FlowInv,
     Preparing, SingleFile, Splitting, Segments, NoId
<1>33. CASE RecoverMove
  <2>1. /\ rec'.step \in {"delete", "offer"} /\ rec.step = "move"
        /\ rec'.step = "delete" => rec'.seg = rec.seg
    BY <1>33 DEF RecoverMove, Records
  <2>2. UNCHANGED <<app, container, rpc, cpc, cur, engine_ok, succeeded, result,
                    route, crashes>>
    BY <1>33 DEF RecoverMove
  <2> QED
    BY <2>1, <2>2 DEF FlowInv, Segments
<1>34. CASE RecoverDelete
  BY <1>34 DEF RecoverDelete, MayFail, Kinds, Numbers, Tables, Records, JobInv, Active,
     FlowInv, Preparing, SingleFile, Splitting, Segments, NoId
<1>35. CASE RecoverUnlist
  BY <1>35 DEF RecoverUnlist, Remove, MayFail, Kinds, Numbers, Tables, Records, JobInv,
     Active, FlowInv, Preparing, SingleFile, Splitting, Segments, NoId
<1>36. ASSUME NEW seg \in Segments, RecoverFinish(seg)
      PROVE  FlowInv'
  BY <1>36 DEF RecoverFinish, Kinds, Numbers, Tables, Records, JobInv, Active, FlowInv,
     Preparing, SingleFile, Splitting, Segments, NoId
<1>37. ASSUME NEW seg \in Segments, RecoverDiscard(seg)
      PROVE  FlowInv'
  BY <1>37 DEF RecoverDiscard, Kinds, Numbers, Tables, Records, JobInv, Active, FlowInv,
     Preparing, SingleFile, Splitting, Segments, NoId
<1>38. CASE Idle \/ UNCHANGED vars
  BY <1>38 DEF Idle, vars, Kinds, Numbers, Tables, Records, JobInv, Active, FlowInv,
     Preparing, SingleFile, Splitting, Segments, NoId
<1> QED
  BY <1>1, <1>2, <1>3, <1>4, <1>5, <1>6, <1>7, <1>8, <1>9, <1>10, <1>11, <1>12, <1>13,
     <1>14, <1>15, <1>16, <1>17, <1>18, <1>19, <1>20, <1>21, <1>22, <1>23, <1>24, <1>25,
     <1>26, <1>27, <1>28, <1>29, <1>30, <1>31, <1>32, <1>33, <1>34, <1>35, <1>36, <1>37,
     <1>38 DEF Next, UserNext, EngineNext, SessionNext, RecoveryNext, JobNext

\* Every step keeps JobInv: a job is scheduled for a segment the engine has
\* left, and stays listed while it is active.
LEMMA JobStep ==
  ASSUME Kinds, Flags, Numbers, Tables, Records, FlowInv, JobInv, [Next]_vars
  PROVE  JobInv'
<1>1. CASE EditSettings
  BY <1>1 DEF EditSettings, Kinds, Numbers, Tables, Job, Records, JobInv, Active,
     Oldest, Done, FlowInv, Preparing, SingleFile, Splitting, Segments, NoId
<1>2. CASE RequestSplit
  BY <1>2 DEF RequestSplit, Kinds, Numbers, Tables, Job, Records, JobInv, Active,
     Oldest, Done, FlowInv, Preparing, SingleFile, Splitting, Segments, NoId
<1>3. CASE CancelRemux
  BY <1>3 DEF CancelRemux, Kinds, Numbers, Tables, Job, Records, JobInv, Active, Oldest,
     Done, FlowInv, Preparing, SingleFile, Splitting, Segments, NoId
<1>4. CASE Boundary
  BY <1>4 DEF Boundary, Protecting, Kinds, Numbers, Tables, Job, Records, JobInv,
     Active, Oldest, Done, FlowInv, Preparing, SingleFile, Splitting, Segments, NoId
<1>5. CASE BoundaryMark
  BY <1>5 DEF BoundaryMark, UpdateFinalized, MayFail, Kinds, Numbers, Tables, Job,
     Records, JobInv, Active, Oldest, Done, FlowInv, Preparing, SingleFile, Splitting,
     Segments, NoId
<1>6. CASE BoundaryAdd
  BY <1>6 DEF BoundaryAdd, Add, MayFail, Kinds, Numbers, Tables, Job, Records, JobInv,
     Active, Oldest, Done, FlowInv, Preparing, SingleFile, Splitting, Segments, NoId
<1>7. CASE BoundarySchedule
  BY <1>7, Queued DEF BoundarySchedule, Others, Kinds, Numbers, Tables, Job, Records,
     JobInv, Active, Oldest, Done, FlowInv, Preparing, SingleFile, Splitting, Segments,
     NoId
<1>8. CASE BoundaryReap
  BY <1>8 DEF BoundaryReap, Kinds, Numbers, Tables, Job, Records, JobInv, Active,
     Oldest, Done, FlowInv, Preparing, SingleFile, Splitting, Segments, NoId
<1>9. CASE OpenNext
  BY <1>9 DEF OpenNext, Kinds, Numbers, Tables, Job, Records, JobInv, Active, Oldest,
     Done, FlowInv, Preparing, SingleFile, Splitting, Segments, NoId
<1>10. CASE SessionEnd
  BY <1>10 DEF SessionEnd, MayFail, Kinds, Numbers, Tables, Job, Records, JobInv,
     Active, Oldest, Done, FlowInv, Preparing, SingleFile, Splitting, Segments, NoId
<1>11. CASE PrepareCreate
  BY <1>11 DEF PrepareCreate, Kinds, Numbers, Tables, Job, Records, JobInv, Active,
     Oldest, Done, FlowInv, Preparing, SingleFile, Splitting, Segments, NoId
<1>12. CASE PrepareProtect
  BY <1>12 DEF PrepareProtect, Add, MayFail, Kinds, Numbers, Tables, Job, Records,
     JobInv, Active, Oldest, Done, FlowInv, Preparing, SingleFile, Splitting, Segments,
     NoId
<1>13. CASE PrepareCancel
  BY <1>13 DEF PrepareCancel, Remove, MayFail, Kinds, Numbers, Tables, Job, Records,
     JobInv, Active, Oldest, Done, FlowInv, Preparing, SingleFile, Splitting, Segments,
     NoId
<1>14. CASE PrepareCommit
  BY <1>14 DEF PrepareCommit, Kinds, Numbers, Tables, Job, Records, JobInv, Active,
     Oldest, Done, FlowInv, Preparing, SingleFile, Splitting, Segments, NoId
<1>15. CASE Decide
  BY <1>15 DEF Decide, Kinds, Numbers, Tables, Job, Records, JobInv, Active, Oldest,
     Done, FlowInv, Preparing, SingleFile, Splitting, Segments, NoId
<1>16. CASE PublishMkv
  BY <1>16 DEF PublishMkv, Kinds, Numbers, Tables, Job, Records, JobInv, Active, Oldest,
     Done, FlowInv, Preparing, SingleFile, Splitting, Segments, NoId
<1>17. CASE PublishMkvDone
  BY <1>17 DEF PublishMkvDone, Kinds, Numbers, Tables, Job, Records, JobInv, Active,
     Oldest, Done, FlowInv, Preparing, SingleFile, Splitting, Segments, NoId
<1>18. CASE Unlist
  BY <1>18 DEF Unlist, Remove, MayFail, Post, Kinds, Numbers, Tables, Job, Records,
     JobInv, Active, Oldest, Done, FlowInv, Preparing, SingleFile, Splitting, Segments,
     NoId
<1>19. CASE SingleMark
  BY <1>19 DEF SingleMark, UpdateFinalized, MayFail, Kinds, Numbers, Tables, Job,
     Records, JobInv, Active, Oldest, Done, FlowInv, Preparing, SingleFile, Splitting,
     Segments, NoId
<1>20. CASE SingleRemux
  BY <1>20 DEF SingleRemux, Post, RemuxOutcomes, MayFail, Kinds, Numbers, Tables, Job,
     Records, JobInv, Active, Oldest, Done, FlowInv, Preparing, SingleFile, Splitting,
     Segments, NoId
<1>21. CASE SingleMove
  BY <1>21 DEF SingleMove, Post, SourceQuality, Kinds, Numbers, Tables, Job, Records,
     JobInv, Active, Oldest, Done, FlowInv, Preparing, SingleFile, Splitting, Segments,
     NoId
<1>22. CASE SingleMaster
  BY <1>22 DEF SingleMaster, MayFail, Kinds, Numbers, Tables, Job, Records, JobInv,
     Active, Oldest, Done, FlowInv, Preparing, SingleFile, Splitting, Segments, NoId
<1>23. CASE SingleUnlist
  BY <1>23 DEF SingleUnlist, Remove, MayFail, Post, Kinds, Numbers, Tables, Job,
     Records, JobInv, Active, Oldest, Done, FlowInv, Preparing, SingleFile, Splitting,
     Segments, NoId
<1>24. CASE SplitMark
  BY <1>24 DEF SplitMark, UpdateFinalized, MayFail, Kinds, Numbers, Tables, Job,
     Records, JobInv, Active, Oldest, Done, FlowInv, Preparing, SingleFile, Splitting,
     Segments, NoId
<1>25. CASE SplitSchedule
  <2>1. /\ UNCHANGED <<container, cur, cpc, rec>> /\ rpc' = "drain" /\ container = "mp4"
        /\ rec.step = "none" /\ job[cur].step = "none" /\ cur \in Segments
    BY <1>25 DEF SplitSchedule, FlowInv, JobInv, Splitting, Numbers, cb
  <2>2. CASE QueueSegmentRemux(cur)
    <3>1. /\ Others(cur) /\ listed' = listed \cup {cur}
      BY <2>1, <2>2, Queued
    <3> QED
      BY <2>1, <3>1 DEF JobInv, Others, Active, Preparing, SingleFile, Segments
  <2>3. CASE UNCHANGED <<job, listed>>
    BY <2>1, <2>3 DEF JobInv, Active, Preparing, SingleFile
  <2> QED
    BY <1>25, <2>2, <2>3 DEF SplitSchedule
<1>26. CASE Drain
  BY <1>26 DEF Drain, Post, AllOk, Kinds, Numbers, Tables, Job, Records, JobInv, Active,
     Oldest, Done, FlowInv, Preparing, SingleFile, Splitting, Segments, NoId
<1>27. ASSUME NEW seg \in Segments, JobRemux(seg)
      PROVE  JobInv'
  <2>1. Remuxed(seg)
    BY <1>27, JobRemuxEffect
  <2> QED
    BY <2>1 DEF Remuxed, JobIsAt, JobKept, Others, Kinds, Numbers, Tables, Job, Records,
       JobInv, Active, Oldest, Done, FlowInv, Preparing, SingleFile, Splitting, Segments,
       NoId
<1>28. ASSUME NEW seg \in Segments, JobMove(seg)
      PROVE  JobInv'
  <2>1. Moved(seg)
    BY <1>28, JobMoveEffect
  <2> QED
    BY <2>1 DEF Moved, JobIsAt, JobKept, Others, SourceQuality, Kinds, Numbers, Tables,
       Job, Records, JobInv, Active, Oldest, Done, FlowInv, Preparing, SingleFile,
       Splitting, Segments, NoId
<1>29. ASSUME NEW seg \in Segments, JobDelete(seg)
      PROVE  JobInv'
  <2>1. Deleted(seg)
    BY <1>29, JobDeleteEffect
  <2> QED
    BY <2>1 DEF Deleted, JobIsAt, JobKept, Others, Kinds, Numbers, Tables, Job, Records,
       JobInv, Active, Oldest, Done, FlowInv, Preparing, SingleFile, Splitting, Segments,
       NoId
<1>30. ASSUME NEW seg \in Segments, JobUnlist(seg)
      PROVE  JobInv'
  <2>1. Unlisted(seg)
    BY <1>30, JobUnlistEffect
  <2> QED
    BY <2>1 DEF Unlisted, JobIsAt, JobKept, Others, Kinds, Numbers, Tables, Job, Records,
       JobInv, Active, Oldest, Done, FlowInv, Preparing, SingleFile, Splitting, Segments,
       NoId
<1>31. CASE Crash
  BY <1>31 DEF Crash, NoRecovery, Kinds, Numbers, Tables, Job, Records, JobInv, Active,
     Oldest, Done, FlowInv, Preparing, SingleFile, Splitting, Segments, NoId
<1>32. CASE Relaunch
  BY <1>32 DEF Relaunch, Kinds, Numbers, Tables, Job, Records, JobInv, Active, Oldest,
     Done, FlowInv, Preparing, SingleFile, Splitting, Segments, NoId
<1>33. CASE RecoverMove
  BY <1>33 DEF RecoverMove, SourceQuality, Kinds, Numbers, Tables, Job, Records, JobInv,
     Active, Oldest, Done, FlowInv, Preparing, SingleFile, Splitting, Segments, NoId
<1>34. CASE RecoverDelete
  BY <1>34 DEF RecoverDelete, MayFail, Kinds, Numbers, Tables, Job, Records, JobInv,
     Active, Oldest, Done, FlowInv, Preparing, SingleFile, Splitting, Segments, NoId
<1>35. CASE RecoverUnlist
  BY <1>35 DEF RecoverUnlist, Remove, MayFail, Kinds, Numbers, Tables, Job, Records,
     JobInv, Active, Oldest, Done, FlowInv, Preparing, SingleFile, Splitting, Segments,
     NoId
<1>36. ASSUME NEW seg \in Segments, RecoverFinish(seg)
      PROVE  JobInv'
  BY <1>36 DEF RecoverFinish, Kinds, Numbers, Tables, Job, Records, JobInv, Active,
     Oldest, Done, FlowInv, Preparing, SingleFile, Splitting, Segments, NoId
<1>37. ASSUME NEW seg \in Segments, RecoverDiscard(seg)
      PROVE  JobInv'
  BY <1>37 DEF RecoverDiscard, Kinds, Numbers, Tables, Job, Records, JobInv, Active,
     Oldest, Done, FlowInv, Preparing, SingleFile, Splitting, Segments, NoId
<1>38. CASE Idle \/ UNCHANGED vars
  BY <1>38 DEF Idle, vars, Kinds, Numbers, Tables, Job, Records, JobInv, Active, Oldest,
     Done, FlowInv, Preparing, SingleFile, Splitting, Segments, NoId
<1> QED
  BY <1>1, <1>2, <1>3, <1>4, <1>5, <1>6, <1>7, <1>8, <1>9, <1>10, <1>11, <1>12, <1>13,
     <1>14, <1>15, <1>16, <1>17, <1>18, <1>19, <1>20, <1>21, <1>22, <1>23, <1>24, <1>25,
     <1>26, <1>27, <1>28, <1>29, <1>30, <1>31, <1>32, <1>33, <1>34, <1>35, <1>36, <1>37,
     <1>38 DEF Next, UserNext, EngineNext, SessionNext, RecoveryNext, JobNext

\* Every step keeps CopyInv: the move of an output comes before the deletion
\* of its source.
LEMMA CopyStep ==
  ASSUME Kinds, Flags, Numbers, Tables, Records, FlowInv, JobInv, CopyInv, [Next]_vars
  PROVE  CopyInv'
<1>1. CASE EditSettings
  BY <1>1 DEF EditSettings, Kinds, Numbers, Tables, Job, Records, JobInv, CopyInv,
     Active, Done, Oldest, Published, Recorded, FlowInv, Preparing, SingleFile,
     Splitting, Segments, NoId
<1>2. CASE RequestSplit
  BY <1>2 DEF RequestSplit, Kinds, Numbers, Tables, Job, Records, JobInv, CopyInv,
     Active, Done, Oldest, Published, Recorded, FlowInv, Preparing, SingleFile,
     Splitting, Segments, NoId
<1>3. CASE CancelRemux
  BY <1>3 DEF CancelRemux, Kinds, Numbers, Tables, Job, Records, JobInv, CopyInv,
     Active, Done, Oldest, Published, Recorded, FlowInv, Preparing, SingleFile,
     Splitting, Segments, NoId
<1>4. CASE Boundary
  BY <1>4 DEF Boundary, Protecting, Kinds, Numbers, Tables, Job, Records, JobInv,
     CopyInv, Active, Done, Oldest, Published, Recorded, FlowInv, Preparing, SingleFile,
     Splitting, Segments, NoId
<1>5. CASE BoundaryMark
  BY <1>5 DEF BoundaryMark, UpdateFinalized, MayFail, Kinds, Numbers, Tables, Job,
     Records, JobInv, CopyInv, Active, Done, Oldest, Published, Recorded, FlowInv,
     Preparing, SingleFile, Splitting, Segments, NoId
<1>6. CASE BoundaryAdd
  BY <1>6 DEF BoundaryAdd, Add, MayFail, Kinds, Numbers, Tables, Job, Records, JobInv,
     CopyInv, Active, Done, Oldest, Published, Recorded, FlowInv, Preparing, SingleFile,
     Splitting, Segments, NoId
<1>7. CASE BoundarySchedule
  BY <1>7, Queued DEF BoundarySchedule, Others, Kinds, Numbers, Tables, Job, Records,
     JobInv, CopyInv, Active, Done, Oldest, Published, Recorded, FlowInv, Preparing,
     SingleFile, Splitting, Segments, NoId
<1>8. CASE BoundaryReap
  BY <1>8 DEF BoundaryReap, Kinds, Numbers, Tables, Job, Records, JobInv, CopyInv,
     Active, Done, Oldest, Published, Recorded, FlowInv, Preparing, SingleFile,
     Splitting, Segments, NoId
<1>9. CASE OpenNext
  BY <1>9 DEF OpenNext, Kinds, Numbers, Tables, Job, Records, JobInv, CopyInv, Active,
     Done, Oldest, Published, Recorded, FlowInv, Preparing, SingleFile, Splitting,
     Segments, NoId
<1>10. CASE SessionEnd
  BY <1>10 DEF SessionEnd, MayFail, Kinds, Numbers, Tables, Job, Records, JobInv,
     CopyInv, Active, Done, Oldest, Published, Recorded, FlowInv, Preparing, SingleFile,
     Splitting, Segments, NoId
<1>11. CASE PrepareCreate
  BY <1>11 DEF PrepareCreate, Kinds, Numbers, Tables, Job, Records, JobInv, CopyInv,
     Active, Done, Oldest, Published, Recorded, FlowInv, Preparing, SingleFile,
     Splitting, Segments, NoId
<1>12. CASE PrepareProtect
  BY <1>12 DEF PrepareProtect, Add, MayFail, Kinds, Numbers, Tables, Job, Records,
     JobInv, CopyInv, Active, Done, Oldest, Published, Recorded, FlowInv, Preparing,
     SingleFile, Splitting, Segments, NoId
<1>13. CASE PrepareCancel
  BY <1>13 DEF PrepareCancel, Remove, MayFail, Kinds, Numbers, Tables, Job, Records,
     JobInv, CopyInv, Active, Done, Oldest, Published, Recorded, FlowInv, Preparing,
     SingleFile, Splitting, Segments, NoId
<1>14. CASE PrepareCommit
  BY <1>14 DEF PrepareCommit, Kinds, Numbers, Tables, Job, Records, JobInv, CopyInv,
     Active, Done, Oldest, Published, Recorded, FlowInv, Preparing, SingleFile,
     Splitting, Segments, NoId
<1>15. CASE Decide
  BY <1>15 DEF Decide, Kinds, Numbers, Tables, Job, Records, JobInv, CopyInv, Active,
     Done, Oldest, Published, Recorded, FlowInv, Preparing, SingleFile, Splitting,
     Segments, NoId
<1>16. CASE PublishMkv
  <2>1. /\ UNCHANGED <<cur, job, rec>> /\ rpc' \in {"publish", "unlist"} /\ rec.step = "none"
        /\ pub \in Segments
    BY <1>16 DEF PublishMkv, FlowInv, Numbers, Segments, remux
  <2>2. \A s \in Segments : Published(s) => Published(s)'
    BY <1>16, <2>1 DEF PublishMkv, Published, Tables
  <2>3. pub' \in {pub, pub + 1} /\ (pub' = pub + 1 => output'[pub] # "none")
    BY <1>16, <2>1 DEF PublishMkv, Tables, Segments
  <2>4. rpc' = "unlist" /\ succeeded' => pub' > 0
    BY <1>16 DEF PublishMkv
  <2>5. \A s \in Segments : s < pub' => Published(s)'
    <3> SUFFICES ASSUME NEW s \in Segments, s < pub' PROVE Published(s)'
      OBVIOUS
    <3>1. s < pub \/ (s = pub /\ pub' = pub + 1)
      BY <2>1, <2>3 DEF Segments
    <3> QED
      BY <2>2, <2>3, <3>1 DEF CopyInv, Published
  <2> QED
    BY <2>1, <2>2, <2>4, <2>5 DEF CopyInv, Done, Preparing, Segments
<1>17. CASE PublishMkvDone
  BY <1>17 DEF PublishMkvDone, Kinds, Numbers, Tables, Job, Records, JobInv, CopyInv,
     Active, Done, Oldest, Published, Recorded, FlowInv, Preparing, SingleFile,
     Splitting, Segments, NoId
<1>18. CASE Unlist
  BY <1>18 DEF Unlist, Remove, MayFail, Post, Kinds, Numbers, Tables, Job, Records,
     JobInv, CopyInv, Active, Done, Oldest, Published, Recorded, FlowInv, Preparing,
     SingleFile, Splitting, Segments, NoId
<1>19. CASE SingleMark
  BY <1>19 DEF SingleMark, UpdateFinalized, MayFail, Kinds, Numbers, Tables, Job,
     Records, JobInv, CopyInv, Active, Done, Oldest, Published, Recorded, FlowInv,
     Preparing, SingleFile, Splitting, Segments, NoId
<1>20. CASE SingleRemux
  BY <1>20 DEF SingleRemux, Post, RemuxOutcomes, MayFail, Kinds, Numbers, Tables, Job,
     Records, JobInv, CopyInv, Active, Done, Oldest, Published, Recorded, FlowInv,
     Preparing, SingleFile, Splitting, Segments, NoId
<1>21. CASE SingleMove
  BY <1>21 DEF SingleMove, Post, SourceQuality, Kinds, Numbers, Tables, Job, Records,
     JobInv, CopyInv, Active, Done, Oldest, Published, Recorded, FlowInv, Preparing,
     SingleFile, Splitting, Segments, NoId
<1>22. CASE SingleMaster
  BY <1>22 DEF SingleMaster, MayFail, Kinds, Numbers, Tables, Job, Records, JobInv,
     CopyInv, Active, Done, Oldest, Published, Recorded, FlowInv, Preparing, SingleFile,
     Splitting, Segments, NoId
<1>23. CASE SingleUnlist
  BY <1>23 DEF SingleUnlist, Remove, MayFail, Post, Kinds, Numbers, Tables, Job,
     Records, JobInv, CopyInv, Active, Done, Oldest, Published, Recorded, FlowInv,
     Preparing, SingleFile, Splitting, Segments, NoId
<1>24. CASE SplitMark
  BY <1>24 DEF SplitMark, UpdateFinalized, MayFail, Kinds, Numbers, Tables, Job,
     Records, JobInv, CopyInv, Active, Done, Oldest, Published, Recorded, FlowInv,
     Preparing, SingleFile, Splitting, Segments, NoId
<1>25. CASE SplitSchedule
  <2>1. QueueSegmentRemux(cur) \/ UNCHANGED <<job, listed>>
    BY <1>25 DEF SplitSchedule
  <2>2. CASE QueueSegmentRemux(cur)
    <3>1. /\ job'[cur].id = current_id /\ job'[cur].step = "queued"
          /\ Others(cur) /\ listed' = listed \cup {cur}
      BY <2>2, Queued DEF Numbers
    <3> QED
      BY <3>1, <1>25 DEF SplitSchedule, Others, Kinds, Numbers, Tables, Job, Records,
        JobInv, CopyInv, Active, Done, Published, Recorded, FlowInv, Preparing, SingleFile, Splitting, Segments, NoId
  <2>3. CASE UNCHANGED <<job, listed>>
    BY <2>3, <1>25 DEF SplitSchedule, Kinds, Numbers, Tables, Job, Records,
      JobInv, CopyInv, Active, Done, Published, Recorded, FlowInv, Preparing, SingleFile, Splitting, Segments, NoId
  <2> QED
    BY <2>1, <2>2, <2>3
<1>26. CASE Drain
  BY <1>26 DEF Drain, Post, AllOk, Kinds, Numbers, Tables, Job, Records, JobInv,
     CopyInv, Active, Done, Oldest, Published, Recorded, FlowInv, Preparing, SingleFile,
     Splitting, Segments, NoId
<1>27. ASSUME NEW seg \in Segments, JobRemux(seg)
      PROVE  CopyInv'
  <2>1. Remuxed(seg)
    BY <1>27, JobRemuxEffect
  <2>2. rec.step = "none" /\ rpc \notin SingleFile
    BY <2>1, JobStands DEF Remuxed
  <2>3. \A s \in Segments : /\ Published(s) => Published(s)'
                            /\ Recorded(s)' => Recorded(s)
    BY <2>1 DEF Remuxed, SourceQuality, Tables, Published, Recorded
  <2>4. \A s \in Segments : /\ job'[s].step \in {"delete", "unlist"} => Published(s)'
                            /\ Done(s)' /\ job'[s].ok => Published(s)'
    <3>1. ASSUME NEW s \in Segments, s # seg
          PROVE  /\ job'[s].step \in {"delete", "unlist"} => Published(s)'
                 /\ Done(s)' /\ job'[s].ok => Published(s)'
      BY <2>1, <2>3, <3>1 DEF Remuxed, JobIsAt, Others, CopyInv, Done
    <3>2. /\ job'[seg].step \in {"delete", "unlist"} => Published(seg)'
          /\ Done(seg)' /\ job'[seg].ok => Published(seg)'
      BY <2>1, <2>3 DEF Remuxed, JobIsAt, SourceQuality, Tables, CopyInv, Done, Published
    <3> QED
      BY <3>1, <3>2
  <2>5. 0 \in Segments
    BY DEF Segments
  <2> QED
    BY <2>1, <2>2, <2>3, <2>4, <2>5 DEF Remuxed, JobIsAt, JobKept, CopyInv, SingleFile
<1>28. ASSUME NEW seg \in Segments, JobMove(seg)
      PROVE  CopyInv'
  <2>1. Moved(seg)
    BY <1>28, JobMoveEffect
  <2>2. rec.step = "none" /\ rpc \notin SingleFile
    BY <2>1, JobStands DEF Moved
  <2>3. \A s \in Segments : /\ Published(s) => Published(s)'
                            /\ Recorded(s)' => Recorded(s)
    BY <2>1 DEF Moved, SourceQuality, Tables, Published, Recorded
  <2>4. \A s \in Segments : /\ job'[s].step \in {"delete", "unlist"} => Published(s)'
                            /\ Done(s)' /\ job'[s].ok => Published(s)'
    <3>1. ASSUME NEW s \in Segments, s # seg
          PROVE  /\ job'[s].step \in {"delete", "unlist"} => Published(s)'
                 /\ Done(s)' /\ job'[s].ok => Published(s)'
      BY <2>1, <2>3, <3>1 DEF Moved, JobIsAt, Others, CopyInv, Done
    <3>2. /\ job'[seg].step \in {"delete", "unlist"} => Published(seg)'
          /\ Done(seg)' /\ job'[seg].ok => Published(seg)'
      BY <2>1, <2>3 DEF Moved, JobIsAt, SourceQuality, Tables, CopyInv, Done, Published
    <3> QED
      BY <3>1, <3>2
  <2>5. 0 \in Segments
    BY DEF Segments
  <2> QED
    BY <2>1, <2>2, <2>3, <2>4, <2>5 DEF Moved, JobIsAt, JobKept, CopyInv, SingleFile
<1>29. ASSUME NEW seg \in Segments, JobDelete(seg)
      PROVE  CopyInv'
  <2>1. Deleted(seg)
    BY <1>29, JobDeleteEffect
  <2>2. rec.step = "none" /\ rpc \notin SingleFile
    BY <2>1, JobStands DEF Deleted
  <2>3. \A s \in Segments : /\ Published(s) => Published(s)'
                            /\ Recorded(s)' => Recorded(s)
    BY <2>1 DEF Deleted, SourceQuality, Tables, Published, Recorded
  <2>4. \A s \in Segments : /\ job'[s].step \in {"delete", "unlist"} => Published(s)'
                            /\ Done(s)' /\ job'[s].ok => Published(s)'
    <3>1. ASSUME NEW s \in Segments, s # seg
          PROVE  /\ job'[s].step \in {"delete", "unlist"} => Published(s)'
                 /\ Done(s)' /\ job'[s].ok => Published(s)'
      BY <2>1, <2>3, <3>1 DEF Deleted, JobIsAt, Others, CopyInv, Done
    <3>2. /\ job'[seg].step \in {"delete", "unlist"} => Published(seg)'
          /\ Done(seg)' /\ job'[seg].ok => Published(seg)'
      BY <2>1, <2>3 DEF Deleted, JobIsAt, SourceQuality, Tables, CopyInv, Done, Published
    <3> QED
      BY <3>1, <3>2
  <2>5. 0 \in Segments
    BY DEF Segments
  <2> QED
    BY <2>1, <2>2, <2>3, <2>4, <2>5 DEF Deleted, JobIsAt, JobKept, CopyInv, SingleFile
<1>30. ASSUME NEW seg \in Segments, JobUnlist(seg)
      PROVE  CopyInv'
  <2>1. Unlisted(seg)
    BY <1>30, JobUnlistEffect
  <2>2. rec.step = "none" /\ rpc \notin SingleFile
    BY <2>1, JobStands DEF Unlisted
  <2>3. \A s \in Segments : /\ Published(s) => Published(s)'
                            /\ Recorded(s)' => Recorded(s)
    BY <2>1 DEF Unlisted, SourceQuality, Tables, Published, Recorded
  <2>4. \A s \in Segments : /\ job'[s].step \in {"delete", "unlist"} => Published(s)'
                            /\ Done(s)' /\ job'[s].ok => Published(s)'
    <3>1. ASSUME NEW s \in Segments, s # seg
          PROVE  /\ job'[s].step \in {"delete", "unlist"} => Published(s)'
                 /\ Done(s)' /\ job'[s].ok => Published(s)'
      BY <2>1, <2>3, <3>1 DEF Unlisted, JobIsAt, Others, CopyInv, Done
    <3>2. /\ job'[seg].step \in {"delete", "unlist"} => Published(seg)'
          /\ Done(seg)' /\ job'[seg].ok => Published(seg)'
      BY <2>1, <2>3 DEF Unlisted, JobIsAt, SourceQuality, Tables, CopyInv, Done, Published
    <3> QED
      BY <3>1, <3>2
  <2>5. 0 \in Segments
    BY DEF Segments
  <2> QED
    BY <2>1, <2>2, <2>3, <2>4, <2>5 DEF Unlisted, JobIsAt, JobKept, CopyInv, SingleFile
<1>31. CASE Crash
  BY <1>31 DEF Crash, NoRecovery, Kinds, Numbers, Tables, Job, Records, JobInv, CopyInv,
     Active, Done, Oldest, Published, Recorded, FlowInv, Preparing, SingleFile,
     Splitting, Segments, NoId
<1>32. CASE Relaunch
  BY <1>32 DEF Relaunch, Kinds, Numbers, Tables, Job, Records, JobInv, CopyInv, Active,
     Done, Oldest, Published, Recorded, FlowInv, Preparing, SingleFile, Splitting,
     Segments, NoId
<1>33. CASE RecoverMove
  BY <1>33 DEF RecoverMove, SourceQuality, Kinds, Numbers, Tables, Job, Records, JobInv,
     CopyInv, Active, Done, Oldest, Published, Recorded, FlowInv, Preparing, SingleFile,
     Splitting, Segments, NoId
<1>34. CASE RecoverDelete
  BY <1>34 DEF RecoverDelete, MayFail, Kinds, Numbers, Tables, Job, Records, JobInv,
     CopyInv, Active, Done, Oldest, Published, Recorded, FlowInv, Preparing, SingleFile,
     Splitting, Segments, NoId
<1>35. CASE RecoverUnlist
  BY <1>35 DEF RecoverUnlist, Remove, MayFail, Kinds, Numbers, Tables, Job, Records,
     JobInv, CopyInv, Active, Done, Oldest, Published, Recorded, FlowInv, Preparing,
     SingleFile, Splitting, Segments, NoId
<1>36. ASSUME NEW seg \in Segments, RecoverFinish(seg)
      PROVE  CopyInv'
  BY <1>36 DEF RecoverFinish, Kinds, Numbers, Tables, Job, Records, JobInv, CopyInv,
     Active, Done, Oldest, Published, Recorded, FlowInv, Preparing, SingleFile,
     Splitting, Segments, NoId
<1>37. ASSUME NEW seg \in Segments, RecoverDiscard(seg)
      PROVE  CopyInv'
  BY <1>37 DEF RecoverDiscard, Kinds, Numbers, Tables, Job, Records, JobInv, CopyInv,
     Active, Done, Oldest, Published, Recorded, FlowInv, Preparing, SingleFile,
     Splitting, Segments, NoId
<1>38. CASE Idle \/ UNCHANGED vars
  BY <1>38 DEF Idle, vars, Kinds, Numbers, Tables, Job, Records, JobInv, CopyInv,
     Active, Done, Oldest, Published, Recorded, FlowInv, Preparing, SingleFile,
     Splitting, Segments, NoId
<1> QED
  BY <1>1, <1>2, <1>3, <1>4, <1>5, <1>6, <1>7, <1>8, <1>9, <1>10, <1>11, <1>12, <1>13,
     <1>14, <1>15, <1>16, <1>17, <1>18, <1>19, <1>20, <1>21, <1>22, <1>23, <1>24, <1>25,
     <1>26, <1>27, <1>28, <1>29, <1>30, <1>31, <1>32, <1>33, <1>34, <1>35, <1>36, <1>37,
     <1>38 DEF Next, UserNext, EngineNext, SessionNext, RecoveryNext, JobNext

\* A step that opens, finalizes and prepares nothing.
NoFile ==
  /\ UNCHANGED <<cur, missed, engine_ok>>
  /\ \A s \in Segments : artefact'[s] \in {artefact[s], "none"}
  /\ rpc' = "recording" => rpc = "recording" /\ (cpc' = "missed" <=> cpc = "missed")

\* Every step keeps MissedInv: a file appears only for the segment that begins.
LEMMA MissedStep ==
  ASSUME Kinds, Numbers, Tables, FlowInv, MissedInv, [Next]_vars
  PROVE  MissedInv'
<1>1. CASE EditSettings \/ RequestSplit \/ CancelRemux \/ BoundaryMark \/ BoundaryAdd
          \/ BoundarySchedule \/ BoundaryReap \/ PrepareProtect \/ PrepareCancel \/ Decide
          \/ PublishMkv \/ PublishMkvDone \/ Unlist \/ SingleMark \/ SingleRemux
          \/ SingleMove \/ SingleMaster \/ SingleUnlist \/ SplitMark \/ SplitSchedule
          \/ Drain \/ Crash \/ Relaunch \/ RecoverMove \/ RecoverDelete \/ RecoverUnlist
          \/ Idle \/ UNCHANGED vars
  <2>1. NoFile
    BY <1>1 DEF NoFile, Tables, EditSettings, RequestSplit, CancelRemux, BoundaryMark,
       BoundaryAdd, BoundarySchedule, BoundaryReap, PrepareProtect, PrepareCancel, Decide,
       PublishMkv, PublishMkvDone, Unlist, Post, SingleMark, SingleRemux, SingleMove,
       SingleMaster, SingleUnlist, SplitMark, SplitSchedule, Drain, Crash, Relaunch,
       RecoverMove, RecoverDelete, RecoverUnlist, Idle, vars, cb, finish, hist, disk
  <2> QED
    BY <2>1 DEF NoFile, MissedInv
<1>2. ASSUME NEW seg \in Segments,
             JobNext(seg) \/ RecoverFinish(seg) \/ RecoverDiscard(seg)
      PROVE  MissedInv'
  <2>1. NoFile
    BY <1>2 DEF NoFile, Tables, JobNext, JobRemux, JobMove, JobDelete, JobUnlist, JobFrame,
       RecoverFinish, RecoverDiscard, RecFrame, cb, finish, hist
  <2> QED
    BY <2>1 DEF NoFile, MissedInv
<1>3. CASE PrepareCreate \/ PrepareCommit
  <2>1. cur = 0 /\ rpc \in Preparing /\ cpc = "idle"
    BY <1>3 DEF PrepareCreate, PrepareCommit, FlowInv, Preparing
  <2>2. /\ UNCHANGED <<cur, missed, engine_ok>> /\ 0 \notin missed /\ cpc' = "idle"
        /\ \A s \in Segments : s # 0 => artefact'[s] = artefact[s]
    BY <1>3, <2>1 DEF PrepareCreate, PrepareCommit, Tables, MissedInv, finish, hist, cb
  <2> QED
    BY <2>1, <2>2 DEF MissedInv, Segments, Numbers
<1>4. CASE Boundary
  <2>1. /\ UNCHANGED <<cur, missed, engine_ok, rpc>> /\ cur \notin missed
        /\ \A s \in Segments : s # cur => artefact'[s] = artefact[s]
        /\ cpc' # "missed"
    BY <1>4 DEF Boundary, Tables, MissedInv, finish
  <2> QED
    BY <2>1 DEF MissedInv, Segments, Numbers
<1>5. CASE OpenNext
  <2>1. /\ cur' = cur + 1 /\ cur \in Nat /\ rpc = "recording" /\ UNCHANGED <<rpc, engine_ok>>
        /\ cur + 1 \in Segments /\ ~engine_ok
    BY <1>5 DEF OpenNext, FlowInv, Numbers, Segments, finish
  <2>2. cur + 1 \notin missed
    BY <2>1 DEF MissedInv
  <2>3. CASE /\ artefact' = [artefact EXCEPT ![cur + 1] = "open"] /\ cpc' = "idle"
             /\ UNCHANGED missed
    <3>1. \A s \in Segments : s # cur + 1 => artefact'[s] = artefact[s]
      BY <2>3 DEF Tables
    <3> QED
      BY <2>1, <2>2, <2>3, <3>1 DEF MissedInv, Segments, Numbers
  <2>4. CASE /\ missed' = missed \cup {cur + 1} /\ cpc' = "missed" /\ UNCHANGED artefact
    BY <2>1, <2>4 DEF MissedInv, Segments, Numbers
  <2> QED
    BY <1>5, <2>3, <2>4 DEF OpenNext
<1>6. CASE SessionEnd
  <2>1. /\ UNCHANGED <<cur, missed>> /\ rpc' = "ended" /\ (engine_ok' => missed = {})
        /\ rpc = "recording"
    BY <1>6 DEF SessionEnd, hist
  <2>2. \A s \in Segments : s > cur \/ s \in missed => artefact'[s] = artefact[s]
    BY <1>6, <2>1 DEF SessionEnd, Tables, MissedInv, Segments, Numbers
  <2> QED
    BY <2>1, <2>2 DEF MissedInv
<1> QED
  BY <1>1, <1>2, <1>3, <1>4, <1>5, <1>6 DEF Next, UserNext, EngineNext, SessionNext,
     RecoveryNext

\* Every step keeps WholeInv: before a process death only finalized
\* artefacts are remuxed.
LEMMA WholeStep ==
  ASSUME Kinds, Flags, Numbers, Tables, Records, FlowInv, MissedInv, JobInv, WholeInv, [Next]_vars
  PROVE  WholeInv'
<1>1. CASE EditSettings
  BY <1>1 DEF EditSettings, Kinds, Numbers, Tables, Job, Records, JobInv, WholeInv,
     Active, Done, Oldest, FlowInv, Preparing, SingleFile, Splitting, Segments, NoId
<1>2. CASE RequestSplit
  BY <1>2 DEF RequestSplit, Kinds, Numbers, Tables, Job, Records, JobInv, WholeInv,
     Active, Done, Oldest, FlowInv, Preparing, SingleFile, Splitting, Segments, NoId
<1>3. CASE CancelRemux
  BY <1>3 DEF CancelRemux, Kinds, Numbers, Tables, Job, Records, JobInv, WholeInv,
     Active, Done, Oldest, FlowInv, Preparing, SingleFile, Splitting, Segments, NoId
<1>4. CASE Boundary
  BY <1>4 DEF Boundary, Protecting, Kinds, Numbers, Tables, Job, Records, JobInv,
     WholeInv, Active, Done, Oldest, FlowInv, Preparing, SingleFile, Splitting,
     Segments, NoId
<1>5. CASE BoundaryMark
  BY <1>5 DEF BoundaryMark, UpdateFinalized, MayFail, Kinds, Numbers, Tables, Job,
     Records, JobInv, WholeInv, Active, Done, Oldest, FlowInv, Preparing, SingleFile,
     Splitting, Segments, NoId
<1>6. CASE BoundaryAdd
  BY <1>6 DEF BoundaryAdd, Add, MayFail, Kinds, Numbers, Tables, Job, Records, JobInv,
     WholeInv, Active, Done, Oldest, FlowInv, Preparing, SingleFile, Splitting,
     Segments, NoId
<1>7. CASE BoundarySchedule
  <2>1. QueueSegmentRemux(cur) \/ UNCHANGED <<job, listed>>
    BY <1>7 DEF BoundarySchedule
  <2>2. CASE QueueSegmentRemux(cur)
    <3>1. /\ job'[cur].id = current_id /\ job'[cur].step = "queued"
          /\ Others(cur) /\ listed' = listed \cup {cur}
      BY <2>2, Queued DEF Numbers
    <3> QED
      BY <3>1, <1>7 DEF BoundarySchedule, Others, Numbers, WholeInv, FlowInv, Splitting, SingleFile
  <2>3. CASE UNCHANGED <<job, listed>>
    BY <2>3, <1>7 DEF BoundarySchedule, Numbers, WholeInv, FlowInv, Splitting, SingleFile
  <2> QED
    BY <2>1, <2>2, <2>3
<1>8. CASE BoundaryReap
  BY <1>8 DEF BoundaryReap, Kinds, Numbers, Tables, Job, Records, JobInv, WholeInv,
     Active, Done, Oldest, FlowInv, Preparing, SingleFile, Splitting, Segments, NoId
<1>9. CASE OpenNext
  BY <1>9 DEF OpenNext, Kinds, Numbers, Tables, Job, Records, JobInv, MissedInv, WholeInv, Active,
     Done, Oldest, FlowInv, Preparing, SingleFile, Splitting, Segments, NoId
<1>10. CASE SessionEnd
  BY <1>10 DEF SessionEnd, MayFail, Kinds, Numbers, Tables, Job, Records, JobInv,
     WholeInv, Active, Done, Oldest, FlowInv, Preparing, SingleFile, Splitting,
     Segments, NoId
<1>11. CASE PrepareCreate
  BY <1>11 DEF PrepareCreate, Kinds, Numbers, Tables, Job, Records, JobInv, WholeInv,
     Active, Done, Oldest, FlowInv, Preparing, SingleFile, Splitting, Segments, NoId
<1>12. CASE PrepareProtect
  BY <1>12 DEF PrepareProtect, Add, MayFail, Kinds, Numbers, Tables, Job, Records,
     JobInv, WholeInv, Active, Done, Oldest, FlowInv, Preparing, SingleFile, Splitting,
     Segments, NoId
<1>13. CASE PrepareCancel
  BY <1>13 DEF PrepareCancel, Remove, MayFail, Kinds, Numbers, Tables, Job, Records,
     JobInv, WholeInv, Active, Done, Oldest, FlowInv, Preparing, SingleFile, Splitting,
     Segments, NoId
<1>14. CASE PrepareCommit
  BY <1>14 DEF PrepareCommit, Kinds, Numbers, Tables, Job, Records, JobInv, WholeInv,
     Active, Done, Oldest, FlowInv, Preparing, SingleFile, Splitting, Segments, NoId
<1>15. CASE Decide
  BY <1>15 DEF Decide, Kinds, Numbers, Tables, Job, Records, JobInv, WholeInv, Active,
     Done, Oldest, FlowInv, Preparing, SingleFile, Splitting, Segments, NoId
<1>16. CASE PublishMkv
  <2>1. /\ UNCHANGED <<crashes, cpc, cur, engine_ok, job>> /\ rpc' \in {"publish", "unlist"}
        /\ container = "mkv" /\ pub \in Segments
    BY <1>16 DEF PublishMkv, FlowInv, Numbers, Segments, remux, cb
  <2>2. \A s \in Segments : /\ artefact'[s] \in {artefact[s], "none"}
                            /\ output'[s] \in {output[s], "whole"}
    BY <1>16, <2>1 DEF PublishMkv, Tables
  <2>3. \A s \in Segments : job[s].step = "none"
    BY <2>1 DEF JobInv
  <2> QED
    BY <2>1, <2>2, <2>3 DEF WholeInv, Numbers
<1>17. CASE PublishMkvDone
  BY <1>17 DEF PublishMkvDone, Kinds, Numbers, Tables, Job, Records, JobInv, WholeInv,
     Active, Done, Oldest, FlowInv, Preparing, SingleFile, Splitting, Segments, NoId
<1>18. CASE Unlist
  BY <1>18 DEF Unlist, Remove, MayFail, Post, Kinds, Numbers, Tables, Job, Records,
     JobInv, WholeInv, Active, Done, Oldest, FlowInv, Preparing, SingleFile, Splitting,
     Segments, NoId
<1>19. CASE SingleMark
  BY <1>19 DEF SingleMark, UpdateFinalized, MayFail, Kinds, Numbers, Tables, Job,
     Records, JobInv, WholeInv, Active, Done, Oldest, FlowInv, Preparing, SingleFile,
     Splitting, Segments, NoId
<1>20. CASE SingleRemux
  <2>1. rpc' = "single_move" => artefact[0] \in {"open", "clean"}
    <3>1. 0 \in Segments
      BY DEF Segments
    <3>2. TRUE \in RemuxOutcomes(0) \/ rpc' = "posted"
      BY <1>20 DEF SingleRemux, Post
    <3> QED
      BY <3>1, <3>2, RemuxNeedsSource
  <2>2. UNCHANGED <<crashes, cur, cpc, engine_ok, job, artefact, output>>
    BY <1>20 DEF SingleRemux
  <2>3. crashes = 0 => artefact[0] \in {"clean", "none"}
    BY <1>20 DEF SingleRemux, FlowInv, SingleFile, WholeInv, Numbers, Segments
  <2> QED
    BY <2>1, <2>2, <2>3 DEF WholeInv
<1>21. CASE SingleMove
  BY <1>21 DEF SingleMove, Post, SourceQuality, Kinds, Numbers, Tables, Job, Records,
     JobInv, WholeInv, Active, Done, Oldest, FlowInv, Preparing, SingleFile, Splitting,
     Segments, NoId
<1>22. CASE SingleMaster
  BY <1>22 DEF SingleMaster, MayFail, Kinds, Numbers, Tables, Job, Records, JobInv,
     WholeInv, Active, Done, Oldest, FlowInv, Preparing, SingleFile, Splitting,
     Segments, NoId
<1>23. CASE SingleUnlist
  BY <1>23 DEF SingleUnlist, Remove, MayFail, Post, Kinds, Numbers, Tables, Job,
     Records, JobInv, WholeInv, Active, Done, Oldest, FlowInv, Preparing, SingleFile,
     Splitting, Segments, NoId
<1>24. CASE SplitMark
  BY <1>24 DEF SplitMark, UpdateFinalized, MayFail, Kinds, Numbers, Tables, Job,
     Records, JobInv, WholeInv, Active, Done, Oldest, FlowInv, Preparing, SingleFile,
     Splitting, Segments, NoId
<1>25. CASE SplitSchedule
  <2>1. QueueSegmentRemux(cur) \/ UNCHANGED <<job, listed>>
    BY <1>25 DEF SplitSchedule
  <2>2. CASE QueueSegmentRemux(cur)
    <3>1. /\ job'[cur].id = current_id /\ job'[cur].step = "queued"
          /\ Others(cur) /\ listed' = listed \cup {cur}
      BY <2>2, Queued DEF Numbers
    <3> QED
      BY <3>1, <1>25 DEF SplitSchedule, Others, Numbers, WholeInv, FlowInv, Splitting, SingleFile
  <2>3. CASE UNCHANGED <<job, listed>>
    BY <2>3, <1>25 DEF SplitSchedule, Numbers, WholeInv, FlowInv, Splitting, SingleFile
  <2> QED
    BY <2>1, <2>2, <2>3
<1>26. CASE Drain
  BY <1>26 DEF Drain, Post, AllOk, Kinds, Numbers, Tables, Job, Records, JobInv,
     WholeInv, Active, Done, Oldest, FlowInv, Preparing, SingleFile, Splitting,
     Segments, NoId
<1>27. ASSUME NEW seg \in Segments, JobRemux(seg)
      PROVE  WholeInv'
  <2>1. Remuxed(seg)
    BY <1>27, JobRemuxEffect
  <2>2. /\ rpc \notin SingleFile
        /\ \A s \in Segments : job'[s].step # "none" => job[s].step # "none"
    BY <2>1, JobStands DEF Remuxed
  <2>3. \A s \in Segments : artefact'[s] \in {artefact[s], "none"}
                            /\ (s # seg => artefact'[s] = artefact[s])
    BY <2>1 DEF Remuxed, Tables
  <2>4. \A s \in Segments : job'[s].step = "move" =>
          \/ s # seg /\ job[s].step = "move"
          \/ s = seg /\ job[s].step = "queued" /\ artefact[s] \in {"open", "clean"}
    BY <2>1 DEF Remuxed, JobIsAt, Others
  <2>5. crashes = 0 => \A s \in Segments : output'[s] \in {"none", "whole"}
    BY <2>1 DEF Remuxed, JobIsAt, SourceQuality, Tables, WholeInv
  <2>6. cur \in Segments
    BY DEF Numbers
  <2> QED
    BY <2>1, <2>2, <2>3, <2>4, <2>5, <2>6
    DEF Remuxed, JobIsAt, JobKept, WholeInv, SingleFile
<1>28. ASSUME NEW seg \in Segments, JobMove(seg)
      PROVE  WholeInv'
  <2>1. Moved(seg)
    BY <1>28, JobMoveEffect
  <2>2. /\ rpc \notin SingleFile
        /\ \A s \in Segments : job'[s].step # "none" => job[s].step # "none"
    BY <2>1, JobStands DEF Moved
  <2>3. \A s \in Segments : artefact'[s] \in {artefact[s], "none"}
                            /\ (s # seg => artefact'[s] = artefact[s])
    BY <2>1 DEF Moved, Tables
  <2>4. \A s \in Segments : job'[s].step = "move" =>
          \/ s # seg /\ job[s].step = "move"
          \/ s = seg /\ job[s].step = "queued" /\ artefact[s] \in {"open", "clean"}
    BY <2>1 DEF Moved, JobIsAt, Others
  <2>5. crashes = 0 => \A s \in Segments : output'[s] \in {"none", "whole"}
    BY <2>1 DEF Moved, JobIsAt, SourceQuality, Tables, WholeInv
  <2>6. cur \in Segments
    BY DEF Numbers
  <2> QED
    BY <2>1, <2>2, <2>3, <2>4, <2>5, <2>6
    DEF Moved, JobIsAt, JobKept, WholeInv, SingleFile
<1>29. ASSUME NEW seg \in Segments, JobDelete(seg)
      PROVE  WholeInv'
  <2>1. Deleted(seg)
    BY <1>29, JobDeleteEffect
  <2>2. /\ rpc \notin SingleFile
        /\ \A s \in Segments : job'[s].step # "none" => job[s].step # "none"
    BY <2>1, JobStands DEF Deleted
  <2>3. \A s \in Segments : artefact'[s] \in {artefact[s], "none"}
                            /\ (s # seg => artefact'[s] = artefact[s])
    BY <2>1 DEF Deleted, Tables
  <2>4. \A s \in Segments : job'[s].step = "move" =>
          \/ s # seg /\ job[s].step = "move"
          \/ s = seg /\ job[s].step = "queued" /\ artefact[s] \in {"open", "clean"}
    BY <2>1 DEF Deleted, JobIsAt, Others
  <2>5. crashes = 0 => \A s \in Segments : output'[s] \in {"none", "whole"}
    BY <2>1 DEF Deleted, JobIsAt, SourceQuality, Tables, WholeInv
  <2>6. cur \in Segments
    BY DEF Numbers
  <2> QED
    BY <2>1, <2>2, <2>3, <2>4, <2>5, <2>6
    DEF Deleted, JobIsAt, JobKept, WholeInv, SingleFile
<1>30. ASSUME NEW seg \in Segments, JobUnlist(seg)
      PROVE  WholeInv'
  <2>1. Unlisted(seg)
    BY <1>30, JobUnlistEffect
  <2>2. /\ rpc \notin SingleFile
        /\ \A s \in Segments : job'[s].step # "none" => job[s].step # "none"
    BY <2>1, JobStands DEF Unlisted
  <2>3. \A s \in Segments : artefact'[s] \in {artefact[s], "none"}
                            /\ (s # seg => artefact'[s] = artefact[s])
    BY <2>1 DEF Unlisted, Tables
  <2>4. \A s \in Segments : job'[s].step = "move" =>
          \/ s # seg /\ job[s].step = "move"
          \/ s = seg /\ job[s].step = "queued" /\ artefact[s] \in {"open", "clean"}
    BY <2>1 DEF Unlisted, JobIsAt, Others
  <2>5. crashes = 0 => \A s \in Segments : output'[s] \in {"none", "whole"}
    BY <2>1 DEF Unlisted, JobIsAt, SourceQuality, Tables, WholeInv
  <2>6. cur \in Segments
    BY DEF Numbers
  <2> QED
    BY <2>1, <2>2, <2>3, <2>4, <2>5, <2>6
    DEF Unlisted, JobIsAt, JobKept, WholeInv, SingleFile
<1>31. CASE Crash
  BY <1>31 DEF Crash, NoRecovery, Kinds, Numbers, Tables, Job, Records, JobInv,
     WholeInv, Active, Done, Oldest, FlowInv, Preparing, SingleFile, Splitting,
     Segments, NoId
<1>32. CASE Relaunch
  BY <1>32 DEF Relaunch, Kinds, Numbers, Tables, Job, Records, JobInv, WholeInv, Active,
     Done, Oldest, FlowInv, Preparing, SingleFile, Splitting, Segments, NoId
<1>33. CASE RecoverMove
  BY <1>33 DEF RecoverMove, SourceQuality, Kinds, Numbers, Tables, Job, Records, JobInv,
     WholeInv, Active, Done, Oldest, FlowInv, Preparing, SingleFile, Splitting,
     Segments, NoId
<1>34. CASE RecoverDelete
  BY <1>34 DEF RecoverDelete, MayFail, Kinds, Numbers, Tables, Job, Records, JobInv,
     WholeInv, Active, Done, Oldest, FlowInv, Preparing, SingleFile, Splitting,
     Segments, NoId
<1>35. CASE RecoverUnlist
  BY <1>35 DEF RecoverUnlist, Remove, MayFail, Kinds, Numbers, Tables, Job, Records,
     JobInv, WholeInv, Active, Done, Oldest, FlowInv, Preparing, SingleFile, Splitting,
     Segments, NoId
<1>36. ASSUME NEW seg \in Segments, RecoverFinish(seg)
      PROVE  WholeInv'
  BY <1>36 DEF RecoverFinish, Kinds, Numbers, Tables, Job, Records, JobInv, WholeInv,
     Active, Done, Oldest, FlowInv, Preparing, SingleFile, Splitting, Segments, NoId
<1>37. ASSUME NEW seg \in Segments, RecoverDiscard(seg)
      PROVE  WholeInv'
  BY <1>37 DEF RecoverDiscard, Kinds, Numbers, Tables, Job, Records, JobInv, WholeInv,
     Active, Done, Oldest, FlowInv, Preparing, SingleFile, Splitting, Segments, NoId
<1>38. CASE Idle \/ UNCHANGED vars
  BY <1>38 DEF Idle, vars, Kinds, Numbers, Tables, Job, Records, JobInv, WholeInv,
     Active, Done, Oldest, FlowInv, Preparing, SingleFile, Splitting, Segments, NoId
<1> QED
  BY <1>1, <1>2, <1>3, <1>4, <1>5, <1>6, <1>7, <1>8, <1>9, <1>10, <1>11, <1>12, <1>13,
     <1>14, <1>15, <1>16, <1>17, <1>18, <1>19, <1>20, <1>21, <1>22, <1>23, <1>24, <1>25,
     <1>26, <1>27, <1>28, <1>29, <1>30, <1>31, <1>32, <1>33, <1>34, <1>35, <1>36, <1>37,
     <1>38 DEF Next, UserNext, EngineNext, SessionNext, RecoveryNext, JobNext

\* Every step keeps IdInv: BoundarySchedule hands over the ids and schedules
\* in one transaction.
LEMMA IdStep ==
  ASSUME Kinds, Flags, Numbers, Tables, Records, FlowInv, MissedInv, JobInv, IdInv, [Next]_vars
  PROVE  IdInv'
<1>1. CASE EditSettings
  BY <1>1 DEF EditSettings, Kinds, Numbers, Tables, Job, Records, JobInv, IdInv, Asked,
     Active, Oldest, FlowInv, Preparing, SingleFile, Splitting, Segments, NoId
<1>2. CASE RequestSplit
  BY <1>2 DEF RequestSplit, Kinds, Numbers, Tables, Job, Records, JobInv, IdInv, Asked,
     Active, Oldest, FlowInv, Preparing, SingleFile, Splitting, Segments, NoId
<1>3. CASE CancelRemux
  BY <1>3 DEF CancelRemux, Kinds, Numbers, Tables, Job, Records, JobInv, IdInv, Asked,
     Active, Oldest, FlowInv, Preparing, SingleFile, Splitting, Segments, NoId
<1>4. CASE Boundary
  BY <1>4 DEF Boundary, Protecting, Kinds, Numbers, Tables, Job, Records, JobInv, IdInv,
     Asked, Active, Oldest, FlowInv, Preparing, SingleFile, Splitting, Segments, NoId
<1>5. CASE BoundaryMark
  BY <1>5 DEF BoundaryMark, UpdateFinalized, MayFail, Kinds, Numbers, Tables, Job,
     Records, JobInv, IdInv, Asked, Active, Oldest, FlowInv, Preparing, SingleFile,
     Splitting, Segments, NoId
<1>6. CASE BoundaryAdd
  BY <1>6 DEF BoundaryAdd, Add, MayFail, Kinds, Numbers, Tables, Job, Records, JobInv,
     IdInv, Asked, Active, Oldest, FlowInv, Preparing, SingleFile, Splitting, Segments,
     NoId
<1>7. CASE BoundarySchedule
  BY <1>7, Queued DEF BoundarySchedule, Others, Kinds, Numbers, Tables, Job, Records,
     JobInv, IdInv, Asked, Active, Oldest, FlowInv, Preparing, SingleFile, Splitting,
     Segments, NoId
<1>8. CASE BoundaryReap
  BY <1>8 DEF BoundaryReap, Kinds, Numbers, Tables, Job, Records, JobInv, IdInv, Asked,
     Active, Oldest, FlowInv, Preparing, SingleFile, Splitting, Segments, NoId
<1>9. CASE OpenNext
  <2>1. /\ UNCHANGED <<container, rpc, engine_ok, current_id, next_id, job, unasked>>
        /\ cur' = cur + 1 /\ cpc' \in {"idle", "missed"} /\ ~engine_ok /\ rpc = "recording"
    BY <1>9 DEF OpenNext, FlowInv, finish, remux
  <2>2. missed \subseteq missed'
    BY <1>9 DEF OpenNext
  <2>3. CASE cpc = "open"
    BY <2>1, <2>2, <2>3 DEF IdInv, Asked
  <2>4. CASE cpc = "missed"
    <3>1. cur \in missed
      BY <2>1, <2>4 DEF MissedInv
    <3> QED
      BY <2>1, <2>2, <2>4, <3>1 DEF IdInv, Asked
  <2> QED
    BY <1>9, <2>3, <2>4 DEF OpenNext
<1>10. CASE SessionEnd
  BY <1>10 DEF SessionEnd, MayFail, Kinds, Numbers, Tables, Job, Records, JobInv, IdInv,
     Asked, Active, Oldest, FlowInv, Preparing, SingleFile, Splitting, Segments, NoId
<1>11. CASE PrepareCreate
  BY <1>11 DEF PrepareCreate, Kinds, Numbers, Tables, Job, Records, JobInv, IdInv,
     Asked, Active, Oldest, FlowInv, Preparing, SingleFile, Splitting, Segments, NoId
<1>12. CASE PrepareProtect
  BY <1>12 DEF PrepareProtect, Add, MayFail, Kinds, Numbers, Tables, Job, Records,
     JobInv, IdInv, Asked, Active, Oldest, FlowInv, Preparing, SingleFile, Splitting,
     Segments, NoId
<1>13. CASE PrepareCancel
  BY <1>13 DEF PrepareCancel, Remove, MayFail, Kinds, Numbers, Tables, Job, Records,
     JobInv, IdInv, Asked, Active, Oldest, FlowInv, Preparing, SingleFile, Splitting,
     Segments, NoId
<1>14. CASE PrepareCommit
  BY <1>14 DEF PrepareCommit, Kinds, Numbers, Tables, Job, Records, JobInv, IdInv,
     Asked, Active, Oldest, FlowInv, Preparing, SingleFile, Splitting, Segments, NoId
<1>15. CASE Decide
  BY <1>15 DEF Decide, Kinds, Numbers, Tables, Job, Records, JobInv, IdInv, Asked,
     Active, Oldest, FlowInv, Preparing, SingleFile, Splitting, Segments, NoId
<1>16. CASE PublishMkv
  BY <1>16 DEF PublishMkv, Kinds, Numbers, Tables, Job, Records, JobInv, IdInv, Asked,
     Active, Oldest, FlowInv, Preparing, SingleFile, Splitting, Segments, NoId
<1>17. CASE PublishMkvDone
  BY <1>17 DEF PublishMkvDone, Kinds, Numbers, Tables, Job, Records, JobInv, IdInv,
     Asked, Active, Oldest, FlowInv, Preparing, SingleFile, Splitting, Segments, NoId
<1>18. CASE Unlist
  BY <1>18 DEF Unlist, Remove, MayFail, Post, Kinds, Numbers, Tables, Job, Records,
     JobInv, IdInv, Asked, Active, Oldest, FlowInv, Preparing, SingleFile, Splitting,
     Segments, NoId
<1>19. CASE SingleMark
  BY <1>19 DEF SingleMark, UpdateFinalized, MayFail, Kinds, Numbers, Tables, Job,
     Records, JobInv, IdInv, Asked, Active, Oldest, FlowInv, Preparing, SingleFile,
     Splitting, Segments, NoId
<1>20. CASE SingleRemux
  BY <1>20 DEF SingleRemux, Post, RemuxOutcomes, MayFail, Kinds, Numbers, Tables, Job,
     Records, JobInv, IdInv, Asked, Active, Oldest, FlowInv, Preparing, SingleFile,
     Splitting, Segments, NoId
<1>21. CASE SingleMove
  BY <1>21 DEF SingleMove, Post, SourceQuality, Kinds, Numbers, Tables, Job, Records,
     JobInv, IdInv, Asked, Active, Oldest, FlowInv, Preparing, SingleFile, Splitting,
     Segments, NoId
<1>22. CASE SingleMaster
  BY <1>22 DEF SingleMaster, MayFail, Kinds, Numbers, Tables, Job, Records, JobInv,
     IdInv, Asked, Active, Oldest, FlowInv, Preparing, SingleFile, Splitting, Segments,
     NoId
<1>23. CASE SingleUnlist
  BY <1>23 DEF SingleUnlist, Remove, MayFail, Post, Kinds, Numbers, Tables, Job,
     Records, JobInv, IdInv, Asked, Active, Oldest, FlowInv, Preparing, SingleFile,
     Splitting, Segments, NoId
<1>24. CASE SplitMark
  BY <1>24 DEF SplitMark, UpdateFinalized, MayFail, Kinds, Numbers, Tables, Job,
     Records, JobInv, IdInv, Asked, Active, Oldest, FlowInv, Preparing, SingleFile,
     Splitting, Segments, NoId
<1>25. CASE SplitSchedule
  BY <1>25, Queued DEF SplitSchedule, Others, Kinds, Numbers, Tables, Job, Records,
     JobInv, IdInv, Asked, Active, Oldest, FlowInv, Preparing, SingleFile, Splitting,
     Segments, NoId
<1>26. CASE Drain
  BY <1>26 DEF Drain, Post, AllOk, Kinds, Numbers, Tables, Job, Records, JobInv, IdInv,
     Asked, Active, Oldest, FlowInv, Preparing, SingleFile, Splitting, Segments, NoId
<1>27. ASSUME NEW seg \in Segments, JobRemux(seg)
      PROVE  IdInv'
  <2>1. Remuxed(seg)
    BY <1>27, JobRemuxEffect
  <2> QED
    BY <2>1 DEF Remuxed, JobIsAt, JobKept, Others, Kinds, Numbers, Tables, Job, Records,
       JobInv, IdInv, Asked, Active, Oldest, FlowInv, Preparing, SingleFile, Splitting,
       Segments, NoId
<1>28. ASSUME NEW seg \in Segments, JobMove(seg)
      PROVE  IdInv'
  <2>1. Moved(seg)
    BY <1>28, JobMoveEffect
  <2> QED
    BY <2>1 DEF Moved, JobIsAt, JobKept, Others, SourceQuality, Kinds, Numbers, Tables,
       Job, Records, JobInv, IdInv, Asked, Active, Oldest, FlowInv, Preparing, SingleFile,
       Splitting, Segments, NoId
<1>29. ASSUME NEW seg \in Segments, JobDelete(seg)
      PROVE  IdInv'
  <2>1. Deleted(seg)
    BY <1>29, JobDeleteEffect
  <2> QED
    BY <2>1 DEF Deleted, JobIsAt, JobKept, Others, Kinds, Numbers, Tables, Job, Records,
       JobInv, IdInv, Asked, Active, Oldest, FlowInv, Preparing, SingleFile, Splitting,
       Segments, NoId
<1>30. ASSUME NEW seg \in Segments, JobUnlist(seg)
      PROVE  IdInv'
  <2>1. Unlisted(seg)
    BY <1>30, JobUnlistEffect
  <2> QED
    BY <2>1 DEF Unlisted, JobIsAt, JobKept, Others, Kinds, Numbers, Tables, Job, Records,
       JobInv, IdInv, Asked, Active, Oldest, FlowInv, Preparing, SingleFile, Splitting,
       Segments, NoId
<1>31. CASE Crash
  BY <1>31 DEF Crash, NoRecovery, Kinds, Numbers, Tables, Job, Records, JobInv, IdInv,
     Asked, Active, Oldest, FlowInv, Preparing, SingleFile, Splitting, Segments, NoId
<1>32. CASE Relaunch
  BY <1>32 DEF Relaunch, Kinds, Numbers, Tables, Job, Records, JobInv, IdInv, Asked,
     Active, Oldest, FlowInv, Preparing, SingleFile, Splitting, Segments, NoId
<1>33. CASE RecoverMove
  BY <1>33 DEF RecoverMove, SourceQuality, Kinds, Numbers, Tables, Job, Records, JobInv,
     IdInv, Asked, Active, Oldest, FlowInv, Preparing, SingleFile, Splitting, Segments,
     NoId
<1>34. CASE RecoverDelete
  BY <1>34 DEF RecoverDelete, MayFail, Kinds, Numbers, Tables, Job, Records, JobInv,
     IdInv, Asked, Active, Oldest, FlowInv, Preparing, SingleFile, Splitting, Segments,
     NoId
<1>35. CASE RecoverUnlist
  BY <1>35 DEF RecoverUnlist, Remove, MayFail, Kinds, Numbers, Tables, Job, Records,
     JobInv, IdInv, Asked, Active, Oldest, FlowInv, Preparing, SingleFile, Splitting,
     Segments, NoId
<1>36. ASSUME NEW seg \in Segments, RecoverFinish(seg)
      PROVE  IdInv'
  BY <1>36 DEF RecoverFinish, Kinds, Numbers, Tables, Job, Records, JobInv, IdInv,
     Asked, Active, Oldest, FlowInv, Preparing, SingleFile, Splitting, Segments, NoId
<1>37. ASSUME NEW seg \in Segments, RecoverDiscard(seg)
      PROVE  IdInv'
  BY <1>37 DEF RecoverDiscard, Kinds, Numbers, Tables, Job, Records, JobInv, IdInv,
     Asked, Active, Oldest, FlowInv, Preparing, SingleFile, Splitting, Segments, NoId
<1>38. CASE Idle \/ UNCHANGED vars
  BY <1>38 DEF Idle, vars, Kinds, Numbers, Tables, Job, Records, JobInv, IdInv, Asked,
     Active, Oldest, FlowInv, Preparing, SingleFile, Splitting, Segments, NoId
<1> QED
  BY <1>1, <1>2, <1>3, <1>4, <1>5, <1>6, <1>7, <1>8, <1>9, <1>10, <1>11, <1>12, <1>13,
     <1>14, <1>15, <1>16, <1>17, <1>18, <1>19, <1>20, <1>21, <1>22, <1>23, <1>24, <1>25,
     <1>26, <1>27, <1>28, <1>29, <1>30, <1>31, <1>32, <1>33, <1>34, <1>35, <1>36, <1>37,
     <1>38 DEF Next, UserNext, EngineNext, SessionNext, RecoveryNext, JobNext

\* Every step keeps EntryInv: an entry is added before its segment opens and
\* goes after its segment is published.
LEMMA EntryStep ==
  ASSUME Kinds, Flags, Numbers, Tables, Records, FlowInv, MissedInv, JobInv, CopyInv, IdInv,
         EntryInv, [Next]_vars
  PROVE  EntryInv'
<1>1. CASE EditSettings
  BY <1>1, SameEntries DEF EditSettings, Kinds, Numbers, Tables, Job, Records, JobInv,
     CopyInv, IdInv, EntryInv, SegmentsProtected, Misrouted, Covered, Published,
     Recorded, Asked, Active, Oldest, FlowInv, Preparing, SingleFile, Splitting,
     Segments, NoId
<1>2. CASE RequestSplit
  BY <1>2, SameEntries DEF RequestSplit, Kinds, Numbers, Tables, Job, Records, JobInv,
     CopyInv, IdInv, EntryInv, SegmentsProtected, Misrouted, Covered, Published,
     Recorded, Asked, Active, Oldest, FlowInv, Preparing, SingleFile, Splitting,
     Segments, NoId
<1>3. CASE CancelRemux
  BY <1>3, SameEntries DEF CancelRemux, Kinds, Numbers, Tables, Job, Records, JobInv,
     CopyInv, IdInv, EntryInv, SegmentsProtected, Misrouted, Covered, Published,
     Recorded, Asked, Active, Oldest, FlowInv, Preparing, SingleFile, Splitting,
     Segments, NoId
<1>4. CASE Boundary
  <2>1. /\ UNCHANGED <<container, rpc, cur, output, route, unlisted>> /\ Entries' = Entries
        /\ rpc = "recording" /\ cpc = "idle" /\ cpc' \in {"mark", "open"}
        /\ unasked' = (unasked \/ ~split_pending)
        /\ artefact' = [artefact EXCEPT ![cur] = "clean"]
    BY <1>4, SameEntries DEF Boundary
  <2>2. Recorded(cur) /\ cur \in Segments
    BY <2>1 DEF EntryInv, Numbers
  <2>3. \A s \in Segments : Recorded(s)' <=> Recorded(s)
    BY <2>1, <2>2 DEF Recorded, Tables
  <2>4. SegmentsProtected'
    <3>1. 0 \in Segments /\ 0 .. cur \subseteq Segments
      BY <2>2 DEF Segments
    <3> QED
      BY <2>1, <2>3, <3>1
      DEF EntryInv, SegmentsProtected, Misrouted, Covered, Published, Flags
  <2>5. container = "mp4" /\ cpc' = "open" => unasked'
    BY <1>4 DEF Boundary, Protecting
  <2> QED
    BY <2>1, <2>4, <2>5 DEF EntryInv, Asked
<1>5. CASE BoundaryMark
  BY <1>5, FinalizedEntries DEF BoundaryMark, MayFail, Kinds, Numbers, Tables, Job,
     Records, JobInv, CopyInv, IdInv, EntryInv, SegmentsProtected, Misrouted, Covered,
     Published, Recorded, Asked, Active, Oldest, FlowInv, Preparing, SingleFile,
     Splitting, Segments, NoId
<1>6. CASE BoundaryAdd
  <2>1. PICK ok \in BOOLEAN :
          /\ Add(cur + 1, ok)
          /\ unlisted' = unlisted \cup Unprotected(cur + 1)
    BY <1>6 DEF BoundaryAdd, MayFail
  <2>2. cur + 1 \in Segments /\ rpc = "recording"
    BY <1>6 DEF BoundaryAdd, FlowInv
  <2>3. Entries \cup {cur + 1} \subseteq Entries' \cup unlisted'
    BY <2>1, <2>2, AddedEntries
  <2>4. /\ UNCHANGED <<container, rpc, cur, artefact, output, route, unasked>>
        /\ cpc' = "schedule" /\ unlisted \subseteq unlisted'
    BY <1>6, <2>1 DEF BoundaryAdd
  <2> QED
    BY <2>2, <2>3, <2>4
    DEF EntryInv, SegmentsProtected, Misrouted, Covered, Published, Recorded
<1>7. CASE BoundarySchedule
  BY <1>7, Queued, SameEntries DEF BoundarySchedule, Others, Kinds, Numbers, Tables,
     Job, Records, JobInv, CopyInv, IdInv, EntryInv, SegmentsProtected, Misrouted,
     Covered, Published, Recorded, Asked, Active, Oldest, FlowInv, Preparing,
     SingleFile, Splitting, Segments, NoId
<1>8. CASE BoundaryReap
  BY <1>8, SameEntries DEF BoundaryReap, Kinds, Numbers, Tables, Job, Records, JobInv,
     CopyInv, IdInv, EntryInv, SegmentsProtected, Misrouted, Covered, Published,
     Recorded, Asked, Active, Oldest, FlowInv, Preparing, SingleFile, Splitting,
     Segments, NoId
<1>9. CASE OpenNext
  BY <1>9, SameEntries DEF OpenNext, Kinds, Numbers, Tables, Job, Records, JobInv,
     CopyInv, IdInv, EntryInv, SegmentsProtected, Misrouted, Covered, Published,
     Recorded, Asked, Active, Oldest, FlowInv, Preparing, SingleFile, Splitting,
     Segments, NoId
<1>10. CASE SessionEnd
  BY <1>10, SameEntries DEF SessionEnd, MayFail, Kinds, Numbers, Tables, Job, Records,
     JobInv, CopyInv, IdInv, EntryInv, SegmentsProtected, Misrouted, Covered, Published,
     Recorded, Asked, Active, Oldest, FlowInv, Preparing, SingleFile, Splitting,
     Segments, NoId
<1>11. CASE PrepareCreate
  BY <1>11, SameEntries DEF PrepareCreate, Kinds, Numbers, Tables, Job, Records, JobInv,
     CopyInv, IdInv, EntryInv, SegmentsProtected, Misrouted, Covered, Published,
     Recorded, Asked, Active, Oldest, FlowInv, Preparing, SingleFile, Splitting,
     Segments, NoId
<1>12. CASE PrepareProtect
  <2>1. PICK ok \in BOOLEAN : /\ Add(0, ok)
                              /\ unlisted' = unlisted \cup Unprotected(0)
    BY <1>12 DEF PrepareProtect, MayFail
  <2>2. 0 \in Segments /\ rpc = "protect" /\ cpc = "idle" /\ cur = 0
    BY <1>12 DEF PrepareProtect, Segments, FlowInv, Preparing, Kinds
  <2>3. Entries \cup {0} \subseteq Entries' \cup unlisted'
    BY <2>1, <2>2, AddedEntries
  <2>4. /\ UNCHANGED <<container, cpc, cur, artefact, output, route, unasked>>
        /\ rpc' = "commit" /\ unlisted \subseteq unlisted'
    BY <1>12, <2>1 DEF PrepareProtect
  <2> QED
    BY <2>2, <2>3, <2>4
    DEF EntryInv, SegmentsProtected, Misrouted, Covered, Published, Recorded
<1>13. CASE PrepareCancel
  BY <1>13, RemovedEntries DEF PrepareCancel, MayFail, Kinds, Numbers, Tables, Job,
     Records, JobInv, CopyInv, IdInv, EntryInv, SegmentsProtected, Misrouted, Covered,
     Published, Recorded, Asked, Active, Oldest, FlowInv, Preparing, SingleFile,
     Splitting, Segments, NoId
<1>14. CASE PrepareCommit
  BY <1>14, SameEntries DEF PrepareCommit, Kinds, Numbers, Tables, Job, Records, JobInv,
     CopyInv, IdInv, EntryInv, SegmentsProtected, Misrouted, Covered, Published,
     Recorded, Asked, Active, Oldest, FlowInv, Preparing, SingleFile, Splitting,
     Segments, NoId
<1>15. CASE Decide
  BY <1>15, SameEntries DEF Decide, Kinds, Numbers, Tables, Job, Records, JobInv,
     CopyInv, IdInv, EntryInv, SegmentsProtected, Misrouted, Covered, Published,
     Recorded, Asked, Active, Oldest, FlowInv, Preparing, SingleFile, Splitting,
     Segments, NoId
<1>16. CASE PublishMkv
  BY <1>16, SameEntries DEF PublishMkv, Kinds, Numbers, Tables, Job, Records, JobInv,
     CopyInv, IdInv, EntryInv, SegmentsProtected, Misrouted, Covered, Published,
     Recorded, Asked, Active, Oldest, FlowInv, Preparing, SingleFile, Splitting,
     Segments, NoId
<1>17. CASE PublishMkvDone
  BY <1>17, SameEntries DEF PublishMkvDone, Kinds, Numbers, Tables, Job, Records,
     JobInv, CopyInv, IdInv, EntryInv, SegmentsProtected, Misrouted, Covered, Published,
     Recorded, Asked, Active, Oldest, FlowInv, Preparing, SingleFile, Splitting,
     Segments, NoId
<1>18. CASE Unlist
  <2>1. /\ rpc = "unlist" /\ rpc' = "posted" /\ cpc = "idle"
        /\ UNCHANGED <<container, cpc, cur, artefact, output, route, unasked, unlisted>>
        /\ \/ succeeded /\ Remove(current_id)
           \/ manifest' = manifest
    BY <1>18 DEF Unlist, Post, FlowInv, Kinds
  <2>2. CASE manifest' = manifest
    BY <2>1, <2>2, SameEntries
    DEF EntryInv, SegmentsProtected, Misrouted, Covered, Published, Recorded
  <2>3. CASE succeeded /\ Remove(current_id)
    <3>1. container = "mkv" /\ Entries \ {current_id} \subseteq Entries'
      BY <2>1, <2>3, RemovedEntries DEF FlowInv
    <3>2. current_id \in {0, NoId}
      BY <3>1 DEF IdInv, Asked
    <3>3. Published(0)
      BY <2>1, <2>3 DEF CopyInv, Numbers, Segments
    <3> QED
      BY <2>1, <3>1, <3>2, <3>3
      DEF EntryInv, SegmentsProtected, Misrouted, Covered, Published, Recorded, NoId
  <2> QED
    BY <2>1, <2>2, <2>3
<1>19. CASE SingleMark
  BY <1>19, FinalizedEntries DEF SingleMark, MayFail, Kinds, Numbers, Tables, Job,
     Records, JobInv, CopyInv, IdInv, EntryInv, SegmentsProtected, Misrouted, Covered,
     Published, Recorded, Asked, Active, Oldest, FlowInv, Preparing, SingleFile,
     Splitting, Segments, NoId
<1>20. CASE SingleRemux
  BY <1>20, SameEntries DEF SingleRemux, Post, RemuxOutcomes, MayFail, Kinds, Numbers,
     Tables, Job, Records, JobInv, CopyInv, IdInv, EntryInv, SegmentsProtected,
     Misrouted, Covered, Published, Recorded, Asked, Active, Oldest, FlowInv, Preparing,
     SingleFile, Splitting, Segments, NoId
<1>21. CASE SingleMove
  BY <1>21, SameEntries DEF SingleMove, Post, SourceQuality, Kinds, Numbers, Tables,
     Job, Records, JobInv, CopyInv, IdInv, EntryInv, SegmentsProtected, Misrouted,
     Covered, Published, Recorded, Asked, Active, Oldest, FlowInv, Preparing,
     SingleFile, Splitting, Segments, NoId
<1>22. CASE SingleMaster
  BY <1>22, SameEntries DEF SingleMaster, MayFail, Kinds, Numbers, Tables, Job, Records,
     JobInv, CopyInv, IdInv, EntryInv, SegmentsProtected, Misrouted, Covered, Published,
     Recorded, Asked, Active, Oldest, FlowInv, Preparing, SingleFile, Splitting,
     Segments, NoId
<1>23. CASE SingleUnlist
  BY <1>23, RemovedEntries DEF SingleUnlist, MayFail, Post, Kinds, Numbers, Tables, Job,
     Records, JobInv, CopyInv, IdInv, EntryInv, SegmentsProtected, Misrouted, Covered,
     Published, Recorded, Asked, Active, Oldest, FlowInv, Preparing, SingleFile,
     Splitting, Segments, NoId
<1>24. CASE SplitMark
  BY <1>24, FinalizedEntries DEF SplitMark, MayFail, Kinds, Numbers, Tables, Job,
     Records, JobInv, CopyInv, IdInv, EntryInv, SegmentsProtected, Misrouted, Covered,
     Published, Recorded, Asked, Active, Oldest, FlowInv, Preparing, SingleFile,
     Splitting, Segments, NoId
<1>25. CASE SplitSchedule
  BY <1>25, Queued, SameEntries DEF SplitSchedule, Others, Kinds, Numbers, Tables, Job,
     Records, JobInv, CopyInv, IdInv, EntryInv, SegmentsProtected, Misrouted, Covered,
     Published, Recorded, Asked, Active, Oldest, FlowInv, Preparing, SingleFile,
     Splitting, Segments, NoId
<1>26. CASE Drain
  BY <1>26, SameEntries DEF Drain, Post, AllOk, Kinds, Numbers, Tables, Job, Records,
     JobInv, CopyInv, IdInv, EntryInv, SegmentsProtected, Misrouted, Covered, Published,
     Recorded, Asked, Active, Oldest, FlowInv, Preparing, SingleFile, Splitting,
     Segments, NoId
<1>27. ASSUME NEW seg \in Segments, JobRemux(seg)
      PROVE  EntryInv'
  <2>1. Remuxed(seg)
    BY <1>27, JobRemuxEffect
  <2> QED
    BY <2>1 DEF Remuxed, JobIsAt, JobKept, Others, Kinds, Numbers, Tables, Job, Records,
       JobInv, CopyInv, IdInv, EntryInv, SegmentsProtected, Misrouted, Covered, Published,
       Recorded, Asked, Active, Oldest, FlowInv, Preparing, SingleFile, Splitting,
       Segments, NoId
<1>28. ASSUME NEW seg \in Segments, JobMove(seg)
      PROVE  EntryInv'
  <2>1. Moved(seg)
    BY <1>28, JobMoveEffect
  <2> QED
    BY <2>1 DEF Moved, JobIsAt, JobKept, Others, SourceQuality, Kinds, Numbers, Tables,
       Job, Records, JobInv, CopyInv, IdInv, EntryInv, SegmentsProtected, Misrouted,
       Covered, Published, Recorded, Asked, Active, Oldest, FlowInv, Preparing,
       SingleFile, Splitting, Segments, NoId
<1>29. ASSUME NEW seg \in Segments, JobDelete(seg)
      PROVE  EntryInv'
  <2>1. Deleted(seg)
    BY <1>29, JobDeleteEffect
  <2> QED
    BY <2>1 DEF Deleted, JobIsAt, JobKept, Others, Kinds, Numbers, Tables, Job, Records,
       JobInv, CopyInv, IdInv, EntryInv, SegmentsProtected, Misrouted, Covered, Published,
       Recorded, Asked, Active, Oldest, FlowInv, Preparing, SingleFile, Splitting,
       Segments, NoId
<1>30. ASSUME NEW seg \in Segments, JobUnlist(seg)
      PROVE  EntryInv'
  <2>1. Unlisted(seg)
    BY <1>30, JobUnlistEffect
  <2>2. /\ UNCHANGED <<container, rpc, cpc, cur, artefact, output, route, unasked, unlisted>>
        /\ job[seg].step = "unlist" /\ Entries \ {job[seg].id} \subseteq Entries'
    BY <2>1 DEF Unlisted, JobIsAt, JobKept
  <2>3. Published(seg) /\ (Asked => job[seg].id \in {seg, NoId} \cup missed)
    BY <2>2 DEF CopyInv, IdInv
  <2>4. container = "mp4" /\ seg <= cur /\ rpc \notin Preparing
    <3>1. container = "mp4" /\ seg <= cur
      BY <2>2 DEF JobInv
    <3>2. rpc \in Preparing => cur = 0 /\ cpc = "idle"
      BY DEF FlowInv, Preparing
    <3>3. rpc \in Preparing => seg = cur /\ job[cur].step = "none"
      BY <3>1, <3>2 DEF JobInv, Segments
    <3> QED
      BY <2>2, <3>1, <3>3
  <2>5. Asked => \A s \in Segments \ missed : s \in Entries /\ s # seg => s \in Entries'
    BY <2>2, <2>3 DEF Segments, NoId
  <2>6. SegmentsProtected'
    <3>1. 0 .. cur \subseteq Segments
      BY DEF Numbers, Segments
    <3>2. \A s \in missed : s \in Segments /\ ~Recorded(s)
      BY DEF MissedInv, Numbers, Recorded
    <3> QED
      BY <2>2, <2>3, <2>4, <2>5, <3>1, <3>2
      DEF EntryInv, SegmentsProtected, Misrouted, Covered, Published, Recorded, Asked
  <2>7. cpc \notin {"idle", "missed"} => cur + 1 \in Segments \ missed /\ cur + 1 # seg
    BY <2>4 DEF FlowInv, MissedInv, Numbers, Segments
  <2> QED
    BY <2>2, <2>4, <2>5, <2>6, <2>7 DEF EntryInv, Asked, Preparing, Recorded
<1>31. CASE Crash
  BY <1>31, SameEntries DEF Crash, NoRecovery, Kinds, Numbers, Tables, Job, Records,
     JobInv, CopyInv, IdInv, EntryInv, SegmentsProtected, Misrouted, Covered, Published,
     Recorded, Asked, Active, Oldest, FlowInv, Preparing, SingleFile, Splitting,
     Segments, NoId
<1>32. CASE Relaunch
  <2>1. /\ rpc' = "posted" /\ cpc' = "idle"
        /\ UNCHANGED <<container, cur, artefact, output, route, unasked, unlisted>>
    BY <1>32 DEF Relaunch
  <2>2. \A s \in Segments : Recorded(s) /\ s \in Entries => s \in Entries'
    <3>1. \A e \in manifest : artefact[e.seg] \notin {"none", "empty"} => e \in manifest'
      BY <1>32 DEF Relaunch
    <3> QED
      BY <3>1 DEF Recorded, Entries
  <2>3. 0 \in Segments /\ 0 .. cur \subseteq Segments
    BY DEF Numbers, Segments
  <2> QED
    BY <2>1, <2>2, <2>3
    DEF EntryInv, SegmentsProtected, Misrouted, Covered, Published, Recorded
<1>33. CASE RecoverMove
  BY <1>33, SameEntries DEF RecoverMove, SourceQuality, Kinds, Numbers, Tables, Job,
     Records, JobInv, CopyInv, IdInv, EntryInv, SegmentsProtected, Misrouted, Covered,
     Published, Recorded, Asked, Active, Oldest, FlowInv, Preparing, SingleFile,
     Splitting, Segments, NoId
<1>34. CASE RecoverDelete
  BY <1>34, SameEntries DEF RecoverDelete, MayFail, Kinds, Numbers, Tables, Job,
     Records, JobInv, CopyInv, IdInv, EntryInv, SegmentsProtected, Misrouted, Covered,
     Published, Recorded, Asked, Active, Oldest, FlowInv, Preparing, SingleFile,
     Splitting, Segments, NoId
<1>35. CASE RecoverUnlist
  BY <1>35, RemovedEntries DEF RecoverUnlist, MayFail, Kinds, Numbers, Tables, Job,
     Records, JobInv, CopyInv, IdInv, EntryInv, SegmentsProtected, Misrouted, Covered,
     Published, Recorded, Asked, Active, Oldest, FlowInv, Preparing, SingleFile,
     Splitting, Segments, NoId
<1>36. ASSUME NEW seg \in Segments, RecoverFinish(seg)
      PROVE  EntryInv'
  BY <1>36, SameEntries DEF RecoverFinish, Kinds, Numbers, Tables, Job, Records, JobInv,
     CopyInv, IdInv, EntryInv, SegmentsProtected, Misrouted, Covered, Published,
     Recorded, Asked, Active, Oldest, FlowInv, Preparing, SingleFile, Splitting,
     Segments, NoId
<1>37. ASSUME NEW seg \in Segments, RecoverDiscard(seg)
      PROVE  EntryInv'
  BY <1>37, SameEntries DEF RecoverDiscard, Kinds, Numbers, Tables, Job, Records,
     JobInv, CopyInv, IdInv, EntryInv, SegmentsProtected, Misrouted, Covered, Published,
     Recorded, Asked, Active, Oldest, FlowInv, Preparing, SingleFile, Splitting,
     Segments, NoId
<1>38. CASE Idle \/ UNCHANGED vars
  BY <1>38, SameEntries DEF Idle, vars, Kinds, Numbers, Tables, Job, Records, JobInv,
     CopyInv, IdInv, EntryInv, SegmentsProtected, Misrouted, Covered, Published,
     Recorded, Asked, Active, Oldest, FlowInv, Preparing, SingleFile, Splitting,
     Segments, NoId
<1> QED
  BY <1>1, <1>2, <1>3, <1>4, <1>5, <1>6, <1>7, <1>8, <1>9, <1>10, <1>11, <1>12, <1>13,
     <1>14, <1>15, <1>16, <1>17, <1>18, <1>19, <1>20, <1>21, <1>22, <1>23, <1>24, <1>25,
     <1>26, <1>27, <1>28, <1>29, <1>30, <1>31, <1>32, <1>33, <1>34, <1>35, <1>36, <1>37,
     <1>38 DEF Next, UserNext, EngineNext, SessionNext, RecoveryNext, JobNext

\* Every step keeps NameInv: no verdict of a job is lost when the job is
\* reaped.
LEMMA NameStep ==
  ASSUME Kinds, Flags, Numbers, Tables, Records, FlowInv, MissedInv, JobInv, CopyInv, NameInv,
         [Next]_vars
  PROVE  NameInv'
<1>1. CASE EditSettings
  BY <1>1 DEF EditSettings, Kinds, Numbers, Tables, Job, Records, JobInv, CopyInv,
     NameInv, NamedSegmentsPublished, Misrouted, Scheduled, Published, Asked, Active,
     Done, Oldest, FlowInv, Preparing, SingleFile, Splitting, Segments, NoId
<1>2. CASE RequestSplit
  BY <1>2 DEF RequestSplit, Kinds, Numbers, Tables, Job, Records, JobInv, CopyInv,
     NameInv, NamedSegmentsPublished, Misrouted, Scheduled, Published, Asked, Active,
     Done, Oldest, FlowInv, Preparing, SingleFile, Splitting, Segments, NoId
<1>3. CASE CancelRemux
  BY <1>3 DEF CancelRemux, Kinds, Numbers, Tables, Job, Records, JobInv, CopyInv,
     NameInv, NamedSegmentsPublished, Misrouted, Scheduled, Published, Asked, Active,
     Done, Oldest, FlowInv, Preparing, SingleFile, Splitting, Segments, NoId
<1>4. CASE Boundary
  BY <1>4 DEF Boundary, Protecting, Kinds, Numbers, Tables, Job, Records, JobInv,
     CopyInv, NameInv, NamedSegmentsPublished, Misrouted, Scheduled, Published, Asked,
     Active, Done, Oldest, FlowInv, Preparing, SingleFile, Splitting, Segments, NoId
<1>5. CASE BoundaryMark
  BY <1>5 DEF BoundaryMark, UpdateFinalized, MayFail, Kinds, Numbers, Tables, Job,
     Records, JobInv, CopyInv, NameInv, NamedSegmentsPublished, Misrouted, Scheduled,
     Published, Asked, Active, Done, Oldest, FlowInv, Preparing, SingleFile, Splitting,
     Segments, NoId
<1>6. CASE BoundaryAdd
  BY <1>6 DEF BoundaryAdd, Add, MayFail, Kinds, Numbers, Tables, Job, Records, JobInv,
     CopyInv, NameInv, NamedSegmentsPublished, Misrouted, Scheduled, Published, Asked,
     Active, Done, Oldest, FlowInv, Preparing, SingleFile, Splitting, Segments, NoId
<1>7. CASE BoundarySchedule
  BY <1>7, Queued DEF BoundarySchedule, Others, Kinds, Numbers, Tables, Job, Records,
     JobInv, CopyInv, NameInv, NamedSegmentsPublished, Misrouted, Scheduled, Published,
     Asked, Active, Done, Oldest, FlowInv, Preparing, SingleFile, Splitting, Segments,
     NoId
<1>8. CASE BoundaryReap
  BY <1>8 DEF BoundaryReap, Kinds, Numbers, Tables, Job, Records, JobInv, CopyInv,
     NameInv, NamedSegmentsPublished, Misrouted, Scheduled, Published, Asked, Active,
     Done, Oldest, FlowInv, Preparing, SingleFile, Splitting, Segments, NoId
<1>9. CASE OpenNext
  <2>1. /\ UNCHANGED <<container, rpc, job, listed, reaped_failed, unnamed, unasked, target,
                       result>>
        /\ cur' = cur + 1 /\ cpc' \in {"idle", "missed"} /\ rpc = "recording"
        /\ missed \subseteq missed' /\ result = "None"
    BY <1>9 DEF OpenNext, FlowInv, finish, remux
  <2>2. Asked /\ container = "mp4" => Scheduled(cur) \/ cur \in missed
    BY <1>9, <2>1 DEF OpenNext, NameInv, MissedInv
  <2>3. Asked /\ container = "mp4" =>
          \A s \in Segments : s < cur' => (Scheduled(s) \/ s \in missed)'
    BY <2>1, <2>2 DEF NameInv, Scheduled, Numbers, Segments
  <2> QED
    BY <2>1, <2>3 DEF NameInv, NamedSegmentsPublished, Asked, Done
<1>10. CASE SessionEnd
  BY <1>10 DEF SessionEnd, MayFail, Kinds, Numbers, Tables, Job, Records, JobInv,
     CopyInv, NameInv, NamedSegmentsPublished, Misrouted, Scheduled, Published, Asked,
     Active, Done, Oldest, FlowInv, Preparing, SingleFile, Splitting, Segments, NoId
<1>11. CASE PrepareCreate
  BY <1>11 DEF PrepareCreate, Kinds, Numbers, Tables, Job, Records, JobInv, CopyInv,
     NameInv, NamedSegmentsPublished, Misrouted, Scheduled, Published, Asked, Active,
     Done, Oldest, FlowInv, Preparing, SingleFile, Splitting, Segments, NoId
<1>12. CASE PrepareProtect
  BY <1>12 DEF PrepareProtect, Add, MayFail, Kinds, Numbers, Tables, Job, Records,
     JobInv, CopyInv, NameInv, NamedSegmentsPublished, Misrouted, Scheduled, Published,
     Asked, Active, Done, Oldest, FlowInv, Preparing, SingleFile, Splitting, Segments,
     NoId
<1>13. CASE PrepareCancel
  BY <1>13 DEF PrepareCancel, Remove, MayFail, Kinds, Numbers, Tables, Job, Records,
     JobInv, CopyInv, NameInv, NamedSegmentsPublished, Misrouted, Scheduled, Published,
     Asked, Active, Done, Oldest, FlowInv, Preparing, SingleFile, Splitting, Segments,
     NoId
<1>14. CASE PrepareCommit
  BY <1>14 DEF PrepareCommit, Kinds, Numbers, Tables, Job, Records, JobInv, CopyInv,
     NameInv, NamedSegmentsPublished, Misrouted, Scheduled, Published, Asked, Active,
     Done, Oldest, FlowInv, Preparing, SingleFile, Splitting, Segments, NoId
<1>15. CASE Decide
  BY <1>15 DEF Decide, Kinds, Numbers, Tables, Job, Records, JobInv, CopyInv, NameInv,
     NamedSegmentsPublished, Misrouted, Scheduled, Published, Asked, Active, Done,
     Oldest, FlowInv, Preparing, SingleFile, Splitting, Segments, NoId
<1>16. CASE PublishMkv
  <2>1. UNCHANGED <<container, cpc, cur, result, job, listed, reaped_failed, target,
                    route, unasked>>
    BY <1>16 DEF PublishMkv
  <2>2. rpc = "publish" /\ container = "mkv" /\ result = "None"
    BY <1>16 DEF PublishMkv, FlowInv
  <2>3. rpc' = "unlist" /\ succeeded' => \A s \in 0 .. cur : s < pub' \/ s \in unnamed'
    BY <1>16 DEF PublishMkv, Numbers, Segments
  <2>4. rpc' \in {"publish", "unlist"}
    BY <1>16 DEF PublishMkv
  <2> QED
    BY <2>1, <2>2, <2>3, <2>4 DEF NameInv, NamedSegmentsPublished, Done
<1>17. CASE PublishMkvDone
  BY <1>17 DEF PublishMkvDone, Kinds, Numbers, Tables, Job, Records, JobInv, CopyInv,
     NameInv, NamedSegmentsPublished, Misrouted, Scheduled, Published, Asked, Active,
     Done, Oldest, FlowInv, Preparing, SingleFile, Splitting, Segments, NoId
<1>18. CASE Unlist
  BY <1>18 DEF Unlist, Remove, MayFail, Post, Kinds, Numbers, Tables, Job, Records,
     JobInv, CopyInv, NameInv, NamedSegmentsPublished, Misrouted, Scheduled, Published,
     Asked, Active, Done, Oldest, FlowInv, Preparing, SingleFile, Splitting, Segments,
     NoId
<1>19. CASE SingleMark
  BY <1>19 DEF SingleMark, UpdateFinalized, MayFail, Kinds, Numbers, Tables, Job,
     Records, JobInv, CopyInv, NameInv, NamedSegmentsPublished, Misrouted, Scheduled,
     Published, Asked, Active, Done, Oldest, FlowInv, Preparing, SingleFile, Splitting,
     Segments, NoId
<1>20. CASE SingleRemux
  BY <1>20 DEF SingleRemux, Post, RemuxOutcomes, MayFail, Kinds, Numbers, Tables, Job,
     Records, JobInv, CopyInv, NameInv, NamedSegmentsPublished, Misrouted, Scheduled,
     Published, Asked, Active, Done, Oldest, FlowInv, Preparing, SingleFile, Splitting,
     Segments, NoId
<1>21. CASE SingleMove
  BY <1>21 DEF SingleMove, Post, SourceQuality, Kinds, Numbers, Tables, Job, Records,
     JobInv, CopyInv, NameInv, NamedSegmentsPublished, Misrouted, Scheduled, Published,
     Asked, Active, Done, Oldest, FlowInv, Preparing, SingleFile, Splitting, Segments,
     NoId
<1>22. CASE SingleMaster
  BY <1>22 DEF SingleMaster, MayFail, Kinds, Numbers, Tables, Job, Records, JobInv,
     CopyInv, NameInv, NamedSegmentsPublished, Misrouted, Scheduled, Published, Asked,
     Active, Done, Oldest, FlowInv, Preparing, SingleFile, Splitting, Segments, NoId
<1>23. CASE SingleUnlist
  BY <1>23 DEF SingleUnlist, Remove, MayFail, Post, Kinds, Numbers, Tables, Job,
     Records, JobInv, CopyInv, NameInv, NamedSegmentsPublished, Misrouted, Scheduled,
     Published, Asked, Active, Done, Oldest, FlowInv, Preparing, SingleFile, Splitting,
     Segments, NoId
<1>24. CASE SplitMark
  BY <1>24 DEF SplitMark, UpdateFinalized, MayFail, Kinds, Numbers, Tables, Job,
     Records, JobInv, CopyInv, NameInv, NamedSegmentsPublished, Misrouted, Scheduled,
     Published, Asked, Active, Done, Oldest, FlowInv, Preparing, SingleFile, Splitting,
     Segments, NoId
<1>25. CASE SplitSchedule
  BY <1>25, Queued DEF SplitSchedule, Others, Kinds, Numbers, Tables, Job, Records,
     JobInv, CopyInv, NameInv, NamedSegmentsPublished, Misrouted, Scheduled, Published,
     Asked, Active, Done, Oldest, FlowInv, Preparing, SingleFile, Splitting, Segments,
     NoId
<1>26. CASE Drain
  BY <1>26 DEF Drain, Post, AllOk, Kinds, Numbers, Tables, Job, Records, JobInv,
     CopyInv, MissedInv, NameInv, NamedSegmentsPublished, Misrouted, Scheduled, Published, Asked,
     Active, Done, Oldest, FlowInv, Preparing, SingleFile, Splitting, Segments, NoId
<1>27. ASSUME NEW seg \in Segments, JobRemux(seg)
      PROVE  NameInv'
  <2>1. Remuxed(seg)
    BY <1>27, JobRemuxEffect
  <2>2. seg \in listed
    BY <2>1, JobStands DEF Remuxed
  <2>3. \A s \in Segments : /\ Published(s) => Published(s)'
                            /\ Scheduled(s) => Scheduled(s)'
    BY <2>1 DEF Remuxed, JobIsAt, JobKept, Others, Scheduled, SourceQuality, Tables, Published
  <2>4. \A s \in Segments : s # seg => job'[s] = job[s]
    BY <2>1 DEF Remuxed, JobIsAt, Others
  <2>5. JobKept
    BY <2>1 DEF Remuxed, JobIsAt
  <2>6. cur \in Segments /\ 0 .. cur \subseteq Segments
    BY DEF Numbers, Segments
  <2>7. NamedSegmentsPublished'
    BY <2>3, <2>5, <2>6 DEF JobKept, NameInv, NamedSegmentsPublished, Misrouted
  <2> QED
    BY <2>2, <2>3, <2>4, <2>5, <2>6, <2>7
    DEF JobKept, NameInv, Asked, Done
<1>28. ASSUME NEW seg \in Segments, JobMove(seg)
      PROVE  NameInv'
  <2>1. Moved(seg)
    BY <1>28, JobMoveEffect
  <2>2. seg \in listed
    BY <2>1, JobStands DEF Moved
  <2>3. \A s \in Segments : /\ Published(s) => Published(s)'
                            /\ Scheduled(s) => Scheduled(s)'
    BY <2>1 DEF Moved, JobIsAt, JobKept, Others, Scheduled, SourceQuality, Tables, Published
  <2>4. \A s \in Segments : s # seg => job'[s] = job[s]
    BY <2>1 DEF Moved, JobIsAt, Others
  <2>5. JobKept
    BY <2>1 DEF Moved, JobIsAt
  <2>6. cur \in Segments /\ 0 .. cur \subseteq Segments
    BY DEF Numbers, Segments
  <2>7. NamedSegmentsPublished'
    BY <2>3, <2>5, <2>6 DEF JobKept, NameInv, NamedSegmentsPublished, Misrouted
  <2> QED
    BY <2>2, <2>3, <2>4, <2>5, <2>6, <2>7
    DEF JobKept, NameInv, Asked, Done
<1>29. ASSUME NEW seg \in Segments, JobDelete(seg)
      PROVE  NameInv'
  <2>1. Deleted(seg)
    BY <1>29, JobDeleteEffect
  <2>2. seg \in listed
    BY <2>1, JobStands DEF Deleted
  <2>3. \A s \in Segments : /\ Published(s) => Published(s)'
                            /\ Scheduled(s) => Scheduled(s)'
    BY <2>1 DEF Deleted, JobIsAt, JobKept, Others, Scheduled, SourceQuality, Tables, Published
  <2>4. \A s \in Segments : s # seg => job'[s] = job[s]
    BY <2>1 DEF Deleted, JobIsAt, Others
  <2>5. JobKept
    BY <2>1 DEF Deleted, JobIsAt
  <2>6. cur \in Segments /\ 0 .. cur \subseteq Segments
    BY DEF Numbers, Segments
  <2>7. NamedSegmentsPublished'
    BY <2>3, <2>5, <2>6 DEF JobKept, NameInv, NamedSegmentsPublished, Misrouted
  <2> QED
    BY <2>2, <2>3, <2>4, <2>5, <2>6, <2>7
    DEF JobKept, NameInv, Asked, Done
<1>30. ASSUME NEW seg \in Segments, JobUnlist(seg)
      PROVE  NameInv'
  <2>1. Unlisted(seg)
    BY <1>30, JobUnlistEffect
  <2>2. seg \in listed
    BY <2>1, JobStands DEF Unlisted
  <2>3. \A s \in Segments : /\ Published(s) => Published(s)'
                            /\ Scheduled(s) => Scheduled(s)'
    BY <2>1 DEF Unlisted, JobIsAt, JobKept, Others, Scheduled, SourceQuality, Tables, Published
  <2>4. \A s \in Segments : s # seg => job'[s] = job[s]
    BY <2>1 DEF Unlisted, JobIsAt, Others
  <2>5. JobKept
    BY <2>1 DEF Unlisted, JobIsAt
  <2>6. cur \in Segments /\ 0 .. cur \subseteq Segments
    BY DEF Numbers, Segments
  <2>7. NamedSegmentsPublished'
    BY <2>3, <2>5, <2>6 DEF JobKept, NameInv, NamedSegmentsPublished, Misrouted
  <2> QED
    BY <2>2, <2>3, <2>4, <2>5, <2>6, <2>7
    DEF JobKept, NameInv, Asked, Done
<1>31. CASE Crash
  BY <1>31 DEF Crash, NoRecovery, Kinds, Numbers, Tables, Job, Records, JobInv, CopyInv,
     NameInv, NamedSegmentsPublished, Misrouted, Scheduled, Published, Asked, Active,
     Done, Oldest, FlowInv, Preparing, SingleFile, Splitting, Segments, NoId
<1>32. CASE Relaunch
  BY <1>32 DEF Relaunch, Kinds, Numbers, Tables, Job, Records, JobInv, CopyInv, NameInv,
     NamedSegmentsPublished, Misrouted, Scheduled, Published, Asked, Active, Done,
     Oldest, FlowInv, Preparing, SingleFile, Splitting, Segments, NoId
<1>33. CASE RecoverMove
  BY <1>33 DEF RecoverMove, SourceQuality, Kinds, Numbers, Tables, Job, Records, JobInv,
     CopyInv, NameInv, NamedSegmentsPublished, Misrouted, Scheduled, Published, Asked,
     Active, Done, Oldest, FlowInv, Preparing, SingleFile, Splitting, Segments, NoId
<1>34. CASE RecoverDelete
  BY <1>34 DEF RecoverDelete, MayFail, Kinds, Numbers, Tables, Job, Records, JobInv,
     CopyInv, NameInv, NamedSegmentsPublished, Misrouted, Scheduled, Published, Asked,
     Active, Done, Oldest, FlowInv, Preparing, SingleFile, Splitting, Segments, NoId
<1>35. CASE RecoverUnlist
  BY <1>35 DEF RecoverUnlist, Remove, MayFail, Kinds, Numbers, Tables, Job, Records,
     JobInv, CopyInv, NameInv, NamedSegmentsPublished, Misrouted, Scheduled, Published,
     Asked, Active, Done, Oldest, FlowInv, Preparing, SingleFile, Splitting, Segments,
     NoId
<1>36. ASSUME NEW seg \in Segments, RecoverFinish(seg)
      PROVE  NameInv'
  BY <1>36 DEF RecoverFinish, Kinds, Numbers, Tables, Job, Records, JobInv, CopyInv,
     NameInv, NamedSegmentsPublished, Misrouted, Scheduled, Published, Asked, Active,
     Done, Oldest, FlowInv, Preparing, SingleFile, Splitting, Segments, NoId
<1>37. ASSUME NEW seg \in Segments, RecoverDiscard(seg)
      PROVE  NameInv'
  BY <1>37 DEF RecoverDiscard, Kinds, Numbers, Tables, Job, Records, JobInv, CopyInv,
     NameInv, NamedSegmentsPublished, Misrouted, Scheduled, Published, Asked, Active,
     Done, Oldest, FlowInv, Preparing, SingleFile, Splitting, Segments, NoId
<1>38. CASE Idle \/ UNCHANGED vars
  BY <1>38 DEF Idle, vars, Kinds, Numbers, Tables, Job, Records, JobInv, CopyInv,
     NameInv, NamedSegmentsPublished, Misrouted, Scheduled, Published, Asked, Active,
     Done, Oldest, FlowInv, Preparing, SingleFile, Splitting, Segments, NoId
<1> QED
  BY <1>1, <1>2, <1>3, <1>4, <1>5, <1>6, <1>7, <1>8, <1>9, <1>10, <1>11, <1>12, <1>13,
     <1>14, <1>15, <1>16, <1>17, <1>18, <1>19, <1>20, <1>21, <1>22, <1>23, <1>24, <1>25,
     <1>26, <1>27, <1>28, <1>29, <1>30, <1>31, <1>32, <1>33, <1>34, <1>35, <1>36, <1>37,
     <1>38 DEF Next, UserNext, EngineNext, SessionNext, RecoveryNext, JobNext

-----------------------------------------------------------------------------
(* The theorems *)

PublishInv ==
  /\ Kinds /\ Flags /\ Numbers /\ Tables /\ Records
  /\ FlowInv /\ JobInv /\ CopyInv /\ MissedInv /\ WholeInv /\ IdInv /\ EntryInv /\ NameInv

LEMMA PublishInit == Init => PublishInv
<1> SUFFICES ASSUME Init PROVE PublishInv
  OBVIOUS
<1>1. job = [s \in Segments |-> [id |-> NoId, step |-> "none", ok |-> FALSE]]
  BY DEF Init
<1>2. \A s \in Segments : job[s].step = "none" /\ job[s] \in Job
  BY <1>1 DEF Job
<1>3. Kinds /\ Flags /\ Numbers
  <2>1. Kinds
    BY DEF Init, Kinds
  <2>2. Flags
    BY DEF Init, Flags
  <2>3. Numbers
    BY DEF Init, Numbers, Segments, NoId
  <2> QED
    BY <2>1, <2>2, <2>3
<1>4. Tables
  BY <1>1, <1>2 DEF Init, Tables
<1>5. Records
  BY DEF Init, NoRecovery, Records
<1>6. cur = 0 /\ cur \in Segments
  BY DEF Init, Segments
<1>7. FlowInv /\ JobInv
  BY <1>2, <1>6 DEF Init, NoRecovery, FlowInv, JobInv, Active, Preparing, SingleFile, Splitting
<1>8. CopyInv /\ WholeInv
  BY <1>2, <1>6 DEF Init, NoRecovery, CopyInv, WholeInv, Published, Recorded, Done, Segments
<1>11. MissedInv
  BY <1>6 DEF Init, MissedInv, Segments
<1>9. IdInv /\ EntryInv
  BY <1>2, <1>6 DEF Init, IdInv, EntryInv, SegmentsProtected, Covered, Recorded, Preparing, NoId
<1>10. NameInv
  BY <1>2, <1>6 DEF Init, NameInv, NamedSegmentsPublished, Scheduled, Segments
<1> QED
  BY <1>3, <1>4, <1>5, <1>7, <1>8, <1>9, <1>10, <1>11 DEF PublishInv

LEMMA PublishNext == PublishInv /\ [Next]_vars => PublishInv'
<1> SUFFICES ASSUME PublishInv, [Next]_vars PROVE PublishInv'
  OBVIOUS
<1>1. Kinds /\ Flags /\ Numbers /\ Tables /\ Records
  BY DEF PublishInv
<1>2. /\ FlowInv /\ JobInv /\ CopyInv /\ MissedInv /\ WholeInv /\ IdInv /\ EntryInv
      /\ NameInv
  BY DEF PublishInv
<1>3. (Kinds /\ Flags /\ Numbers /\ Tables /\ Records)'
  BY <1>1, <1>2, KindStep, FlagStep, NumberStep, TableStep, RecordStep
<1>4. FlowInv' /\ JobInv' /\ CopyInv'
  BY <1>1, <1>2, FlowStep, JobStep, CopyStep
<1>5. MissedInv'
  BY <1>1, <1>2, MissedStep
<1>6. WholeInv' /\ IdInv'
  BY <1>1, <1>2, WholeStep, IdStep
<1>7. EntryInv' /\ NameInv'
  BY <1>1, <1>2, EntryStep, NameStep
<1> QED
  BY <1>3, <1>4, <1>5, <1>6, <1>7 DEF PublishInv

\* The invariant of the publication: for every number of segments, every set of
\* faults and every number of process deaths.
THEOREM PublishInvariant == Spec => []PublishInv
<1> QED
  BY PublishInit, PublishNext, PTL DEF Spec

\* Every variable keeps the type of its C++ counterpart.
THEOREM TypeCorrect == Spec => []TypeOK
<1>1. PublishInv => TypeOK
  BY TypeParts DEF PublishInv
<1> QED
  BY <1>1, PublishInvariant, PTL

\* Before the first process death nothing but whole segments appears at a final
\* name: the pool and the single-file path read only artefacts that Boundary or
\* a successful SessionEnd has finalized.
THEOREM PublishesWhole == Spec => []RunningPublishesWhole
<1>1. PublishInv => RunningPublishesWhole
  BY DEF PublishInv, WholeInv, RunningPublishesWhole
<1> QED
  BY <1>1, PublishInvariant, PTL

\* A recorded segment that is not published has a recovery entry: BoundaryAdd
\* writes it before the segment opens, and JobUnlist, SingleUnlist, Unlist and
\* RecoverUnlist remove only the entry of a segment that is published.
THEOREM EntriesProtect == Spec => []SegmentsProtected
<1>1. PublishInv => SegmentsProtected
  BY DEF PublishInv, EntryInv
<1> QED
  BY <1>1, PublishInvariant, PTL

\* Completed means that every segment with a name is published: Drain, Unlist
\* and SingleUnlist learn of every failure, also of jobs a boundary reaped.
THEOREM CompletedPublished == Spec => []NamedSegmentsPublished
<1>1. PublishInv => NamedSegmentsPublished
  BY DEF PublishInv, NameInv
<1> QED
  BY <1>1, PublishInvariant, PTL

\* No step removes the last copy of a segment that was not discarded.
LEMMA CopyKept ==
  ASSUME PublishInv, [Next]_vars,
         NEW s \in Segments \ discarded', Recorded(s) \/ Published(s)
  PROVE  (Recorded(s) \/ Published(s))'
<1>1. Kinds /\ Flags /\ Numbers /\ Tables /\ Records
  BY DEF PublishInv
<1>2. FlowInv /\ JobInv /\ CopyInv /\ EntryInv
  BY DEF PublishInv
<1>3. 0 \in Segments /\ cur \in Segments /\ s \in Segments
  BY <1>1 DEF Numbers, Segments
<1>4. CASE EditSettings \/ RequestSplit \/ CancelRemux \/ BoundaryMark \/ BoundaryAdd
          \/ BoundarySchedule \/ BoundaryReap \/ PrepareProtect \/ Decide \/
          PublishMkvDone \/ Unlist \/ SingleMark \/ SingleRemux \/ SingleUnlist
          \/ SplitMark \/ SplitSchedule \/ Drain \/ Crash \/ Relaunch \/
          RecoverUnlist \/ Idle \/ UNCHANGED vars
  BY <1>4 DEF EditSettings, RequestSplit, CancelRemux, BoundaryMark, BoundaryAdd,
     BoundarySchedule, BoundaryReap, PrepareProtect, Decide, PublishMkvDone, Unlist,
     SingleMark, SingleRemux, SingleUnlist, SplitMark, SplitSchedule, Drain, Crash,
     Relaunch, RecoverUnlist, Idle, vars, Recorded, Published
<1>5. ASSUME NEW seg \in Segments, JobRemux(seg) PROVE (Recorded(s) \/ Published(s))'
  BY <1>5 DEF JobRemux, Recorded, Published
<1>6. ASSUME NEW seg \in Segments, JobUnlist(seg) PROVE (Recorded(s) \/ Published(s))'
  BY <1>6 DEF JobUnlist, Recorded, Published
<1>7. ASSUME NEW seg \in Segments, RecoverFinish(seg) PROVE (Recorded(s) \/ Published(s))'
  BY <1>7 DEF RecoverFinish, Recorded, Published
<1>8. CASE Boundary
  BY <1>8, <1>1, <1>2, <1>3 DEF Boundary, Tables, Recorded, Published
<1>9. CASE OpenNext
  BY <1>9, <1>1, <1>2, <1>3 DEF OpenNext, Tables, Recorded, Published
<1>10. CASE SessionEnd
  BY <1>10, <1>1, <1>2, <1>3 DEF SessionEnd, Tables, Recorded, Published
<1>11. CASE PrepareCreate
  BY <1>11, <1>1, <1>2, <1>3 DEF PrepareCreate, CopyInv, Preparing, Tables, Recorded,
     Published
<1>12. CASE PrepareCancel
  BY <1>12, <1>1, <1>2, <1>3 DEF PrepareCancel, CopyInv, Preparing, Tables, Recorded,
     Published
<1>13. CASE PrepareCommit
  BY <1>13, <1>1, <1>2, <1>3 DEF PrepareCommit, Tables, Recorded, Published
<1>14. CASE PublishMkv
  BY <1>14, <1>1, <1>2, <1>3 DEF PublishMkv, Tables, Recorded, Published
<1>15. CASE SingleMove
  BY <1>15, <1>1, <1>2, <1>3 DEF SingleMove, SourceQuality, Tables, Recorded, Published
<1>16. CASE SingleMaster
  BY <1>16, <1>1, <1>2, <1>3 DEF SingleMaster, CopyInv, Tables, Recorded, Published
<1>17. CASE RecoverMove
  BY <1>17, <1>1, <1>2, <1>3 DEF RecoverMove, SourceQuality, Tables, Recorded, Published
<1>18. CASE RecoverDelete
  BY <1>18, <1>1, <1>2, <1>3 DEF RecoverDelete, CopyInv, Tables, Recorded, Published
<1>19. ASSUME NEW seg \in Segments, JobMove(seg) PROVE (Recorded(s) \/ Published(s))'
  BY <1>19, <1>1, <1>2 DEF JobMove, SourceQuality, Tables, Recorded, Published
<1>20. ASSUME NEW seg \in Segments, JobDelete(seg) PROVE (Recorded(s) \/ Published(s))'
  BY <1>20, <1>1, <1>2 DEF JobDelete, CopyInv, Tables, Recorded, Published
<1>21. ASSUME NEW seg \in Segments, RecoverDiscard(seg) PROVE (Recorded(s) \/ Published(s))'
  BY <1>21, <1>1, <1>2 DEF RecoverDiscard, Tables, Recorded, Published
<1> QED
  BY <1>4, <1>5, <1>6, <1>7, <1>8, <1>9, <1>10, <1>11, <1>12, <1>13, <1>14, <1>15,
     <1>16, <1>17, <1>18, <1>19, <1>20, <1>21 DEF Next, UserNext, EngineNext,
     SessionNext, RecoveryNext, JobNext

\* Wherever the process dies and whatever fails, a recorded segment exists as
\* its artefact or as its output until the user discards it: every deletion
\* (JobDelete, SingleMaster, RecoverDelete) follows the publication of the same
\* segment, and preparation only touches an artefact that holds nothing.
THEOREM LastCopyStays == Spec => LastCopyKept
<1>1. PublishInv /\ [Next]_vars =>
        [\A s \in Segments \ discarded' :
           Recorded(s) \/ Published(s) => (Recorded(s) \/ Published(s))']_vars
  BY CopyKept
<1> QED
  BY <1>1, PublishInvariant, PTL DEF Spec, LastCopyKept
=============================================================================
