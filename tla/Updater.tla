------------------------------ MODULE Updater ------------------------------
(***************************************************************************)
(* The self-updater: exosnap-updater.exe, its worker thread, the window's  *)
(* thread that follows it through queued signals, and the three sibling    *)
(* directories of a portable installation that a staged swap renames.      *)
(*                                                                         *)
(* The worker runs the pipeline Download, CloseApp, Install, Verify,       *)
(* Launch; `at' is its position, at the granularity of the file operations *)
(* between which the process can be killed.  The window keeps a published  *)
(* flow state (phase, failure, retry entry, installation state) that lags  *)
(* behind the worker by the contents of `sig'.                             *)
(*                                                                         *)
(* Bounds: Faults (renames and deletions that fail), Kills (the process    *)
(* ends in the middle of a step), Starts (updater processes).              *)
(***************************************************************************)
EXTENDS Integers, Sequences, FiniteSets

CONSTANTS
    Modes,          \* ways this updater may be started: {"manual", "handoff"}
    InstallModes,   \* {"portable", "msi"}
    PackageKinds,   \* what the signed package turns out to be
    MaxFaults, MaxKills, MaxStarts

ASSUME UpdaterAssumption ==
    /\ Modes \subseteq {"manual", "handoff"}
    /\ InstallModes \subseteq {"portable", "msi"}
    /\ PackageKinds \subseteq {"good", "mismatch", "noexe", "crashes", "hangs", "unlaunchable"}
    /\ MaxFaults \in Nat /\ MaxKills \in Nat /\ MaxStarts \in Nat

VARIABLES
    mode, imode, kind,  \* fixed when the process starts
    dir,        \* the directories: what each of them holds
    app,        \* the ExoSnap that runs from the install directory; "handed": its pid is ours
    msi,        \* the elevated msiexec
    proc,       \* "up", "closing" (event loop ended, worker unwinding), "dead"
    cmd,        \* the call queued to the worker thread
    w,          \* the worker: position, retained state, reason of a restore
    cancel,     \* std::atomic<bool> cancel_
    sig,        \* worker signals queued to the window's thread
    g,          \* what the window's thread holds
    confirmed,  \* history: the user confirmed this very package
    was,        \* history: the install tree the running call found
    doors,      \* history: the two ways the last whole tree has been exposed
    budget      \* faults, kills and starts spent

fixed == <<mode, imode, kind>>
vars  == <<mode, imode, kind, dir, app, msi, proc, cmd, w, cancel, sig, g, confirmed, was, doors, budget>>

Steps == <<"Download", "CloseApp", "Install", "Verify", "Launch">>
Step(s) == CHOOSE i \in 1..5 : Steps[i] = s

FailureCases ==
    {"DownloadFailed", "VerifyDownloadFailed", "TargetVersionMismatch", "HandoffRejected",
     "AppWontClose", "InstallFailed", "VerifyInstallFailed", "RestoreFailed",
     "VerifyInstallFailedMsi", "LaunchFailed", "UacDeclined", "MsiFailed", "MsiRebootRequired"}

-----------------------------------------------------------------------------
(* Directories.  A tree is the version it belongs to and the parts that are  *)
(* still there; a directory that does not exist has no parts at all.         *)

Dirs  == {"install", "staging", "backup"}
Parts == {"dir", "exe", "rest"}
Gone  == [ver |-> "old", parts |-> {}]
Tree(v) == [ver |-> v, parts |-> Parts]

Exists(t) == t.parts # {}
HasExe(t) == "exe" \in t.parts
Whole(t)  == t.parts = Parts

\* What is left of a tree when a recursive deletion stops half way.
Remnants(t) == {[t EXCEPT !.parts = q] : q \in {x \in SUBSET t.parts : "dir" \in x /\ x # t.parts}}

\* The image of a running process cannot be deleted, and its directory cannot be renamed.
Locked(n) == n = "install" /\ app # "none"

Fault == budget.faults < MaxFaults /\ budget' = [budget EXCEPT !.faults = @ + 1]
NoFault == UNCHANGED budget

\* RemoveTree(n): gone, or a remnant when a file is locked or the deletion fails.
RemoveGone(n) ==
    /\ ~(Locked(n) /\ HasExe(dir[n]))
    /\ dir' = [dir EXCEPT ![n] = Gone]
    /\ UNCHANGED <<budget, doors>>
RemoveFails(n) ==
    /\ Exists(dir[n])
    /\ doors' = doors \cup {"torn"}
    /\ IF Locked(n) /\ HasExe(dir[n])
       THEN /\ dir' = [dir EXCEPT ![n].parts = {"dir", "exe"}]
            /\ NoFault
       ELSE /\ \E r \in Remnants(dir[n]) : dir' = [dir EXCEPT ![n] = r]
            /\ Fault

\* RenameDirectory(from, to), its transient retries included.
RenameOk(from, to) ==
    /\ Exists(dir[from]) /\ ~Exists(dir[to]) /\ ~Locked(from)
    /\ dir' = [dir EXCEPT ![from] = Gone, ![to] = dir[from]]
    /\ UNCHANGED <<budget, doors>>
RenameFails(from, to) ==
    /\ UNCHANGED dir
    /\ IF Exists(dir[from]) /\ ~Exists(dir[to]) /\ ~Locked(from) THEN Fault ELSE NoFault

-----------------------------------------------------------------------------
(* The tables of update_flow_state.cpp.                                      *)

InstallStateForFailure(c) ==
    CASE c = "VerifyInstallFailed"    -> "Restored"
      [] c = "RestoreFailed"          -> "StrandedInBackup"
      [] c = "VerifyInstallFailedMsi" -> "Unknown"
      [] OTHER                        -> "Intact"

RetryEntryStep(c) ==
    CASE c \in {"DownloadFailed", "VerifyDownloadFailed", "TargetVersionMismatch",
                "HandoffRejected"}  -> "Download"
      [] c = "AppWontClose"         -> "CloseApp"
      [] c = "LaunchFailed"         -> "Launch"
      [] OTHER                      -> "Install"

RetryOffered(c, m) ==
    /\ ~(m = "handoff" /\ c = "VerifyDownloadFailed")
    /\ c \notin {"TargetVersionMismatch", "HandoffRejected", "LaunchFailed", "MsiFailed",
                 "MsiRebootRequired"}

PhaseForFailure(c) ==
    CASE c = "MsiRebootRequired" -> "RebootRequired"
      [] c = "LaunchFailed"      -> "RestartPending"
      [] OTHER                   -> "Failed"

PhaseForStep(s) ==
    CASE s = "Download" -> "Downloading"
      [] s = "CloseApp" -> "WaitingForParent"
      [] s = "Install"  -> "Applying"
      [] s = "Verify"   -> "Verifying"
      [] s = "Launch"   -> "Launching"

FailedStepFor(c) ==
    CASE c \in {"DownloadFailed", "VerifyDownloadFailed", "TargetVersionMismatch",
                "HandoffRejected"} -> "Download"
      [] c = "AppWontClose" -> "CloseApp"
      [] c \in {"InstallFailed", "UacDeclined", "MsiFailed", "MsiRebootRequired"} -> "Install"
      [] c \in {"VerifyInstallFailed", "RestoreFailed", "VerifyInstallFailedMsi"} -> "Verify"
      [] c = "LaunchFailed" -> "Launch"

-----------------------------------------------------------------------------
(* The window's thread.                                                      *)


Idle0 == [phase |-> "Idle", failure |-> "none", retry |-> "none", installState |-> "Intact",
          working |-> {}, lastFailure |-> "DownloadFailed", inFlight |-> FALSE, target |-> FALSE]

\* UpdaterController::setPhase for a phase that is not a failure outcome.
SetPhase(r, phase) ==
    [r EXCEPT !.phase = phase, !.failure = "none", !.retry = "none", !.installState = "Intact"]

\* MakeController: a fresh controller; its caller decides what the rest keeps.
Fresh(r) == [SetPhase(r, "Idle") EXCEPT !.working = {}]

Signal(name, arg) == [name |-> name, arg |-> arg]
Started(s) == Signal("stepStarted", s)
Done(s)    == Signal("stepDone", s)
Failed(c)  == Signal("failed", c)
Plain(n)   == Signal(n, "")

OnFailure(r, c) ==
    [r EXCEPT !.inFlight = FALSE, !.lastFailure = c,
              !.working = @ \ {FailedStepFor(c)},
              !.phase = PhaseForFailure(c), !.failure = c,
              !.retry = IF RetryOffered(c, mode) THEN RetryEntryStep(c) ELSE "none",
              !.installState = InstallStateForFailure(c)]

\* The slots main() connects to the worker's signals.
Handled(r, m) ==
    CASE m.name = "stepStarted"     -> [SetPhase(r, PhaseForStep(m.arg)) EXCEPT !.working = @ \cup {m.arg}]
      [] m.name = "stepDone"        -> [r EXCEPT !.working = @ \ {m.arg}]
      [] m.name = "allDone"         -> [SetPhase(r, "Completed") EXCEPT !.inFlight = FALSE, !.working = {}]
      [] m.name = "failed"          -> OnFailure(r, m.arg)
      [] m.name = "cancelled"       -> [SetPhase(r, "Cancelled") EXCEPT !.inFlight = FALSE, !.working = {}]
      [] m.name = "checkStarted"    -> SetPhase(r, "Checking")
      [] m.name = "upToDate"        -> [SetPhase(r, "UpToDate") EXCEPT !.inFlight = FALSE, !.target = FALSE]
      [] m.name = "updateAvailable" -> [SetPhase(r, "UpdateAvailable") EXCEPT !.inFlight = FALSE, !.target = TRUE]
      [] m.name = "readyToApply"    -> [SetPhase(r, "ReadyToApply") EXCEPT !.inFlight = FALSE]

Deliver ==
    /\ proc = "up" /\ sig # <<>>
    /\ sig' = Tail(sig)
    /\ g' = Handled(g, Head(sig))
    /\ UNCHANGED <<fixed, dir, app, msi, proc, cmd, w, cancel, confirmed, was, doors, budget>>

\* A call posted to the worker thread; in_flight refuses a second one.
Post(c, r) ==
    /\ proc = "up" /\ ~g.inFlight
    /\ cmd' = c
    /\ g' = [r EXCEPT !.inFlight = TRUE]
    /\ UNCHANGED <<fixed, dir, app, msi, proc, w, cancel, sig, was, doors, budget>>

Call(op, entry) == [op |-> op, entry |-> entry]
NoCall == Call("none", "none")

DoCheck ==
    /\ mode = "manual"
    /\ g.phase \in {"Idle", "UpToDate", "UpdateAvailable", "Failed", "Cancelled"}
    /\ Post(Call("check", "none"), [Fresh(g) EXCEPT !.target = FALSE])
    /\ UNCHANGED confirmed

DoDownload ==
    /\ mode = "manual" /\ g.phase = "UpdateAvailable"
    /\ Post(Call("download", "none"), g)
    /\ UNCHANGED confirmed

DoApply ==
    /\ mode = "manual" /\ g.phase = "ReadyToApply"
    /\ Post(Call("run", "CloseApp"), g)
    /\ confirmed' = TRUE

DoRetry ==
    /\ g.retry # "none"
    /\ LET entry == RetryEntryStep(g.lastFailure)
           call  == IF mode = "manual" /\ entry = "Download"
                    THEN IF g.target THEN Call("download", "none") ELSE Call("check", "none")
                    ELSE Call("run", entry)
       IN  Post(call, Fresh(g))
    /\ UNCHANGED confirmed

\* updater.cancel: accepted in the one phase the policy allows, as the window sees it.
DoCancel ==
    /\ proc = "up" /\ g.phase = "Downloading" /\ ~cancel
    /\ cancel' = TRUE
    /\ UNCHANGED <<fixed, dir, app, msi, proc, cmd, w, sig, g, confirmed, was, doors, budget>>

\* Closing the window ends the event loop, asks the worker to stop and gives it 30 s.
Critical == g.working \cap {"Install", "Verify", "Launch"} # {}
CloseOffered == ~Critical \/ g.phase \in {"Failed", "RestartPending", "RebootRequired"}
DoClose ==
    /\ proc = "up" /\ CloseOffered
    /\ proc' = "closing" /\ cancel' = TRUE
    /\ UNCHANGED <<fixed, dir, app, msi, cmd, w, sig, g, confirmed, was, doors, budget>>

-----------------------------------------------------------------------------
(* The worker thread.                                                        *)

At(p) == proc # "dead" /\ w.at = p
Emit(s) == sig' = sig \o s
Ends(s) == w' = [w EXCEPT !.at = "idle"] /\ Emit(s)
Goes(p, s) == w' = [w EXCEPT !.at = p] /\ Emit(s)

\* Everything a pipeline step leaves alone.
WorkerFrame == UNCHANGED <<fixed, proc, cmd, cancel, g, confirmed, was>>

\* The step a run enters first.
EntryAt(entry) ==
    CASE entry = "Download" -> "fetch"
      [] entry = "CloseApp" -> "closeApp"
      [] entry = "Install"  -> "install"
      [] entry = "Verify"   -> "verify"
      [] entry = "Launch"   -> "launch"

\* check(), download() and run(entry) all clear the cancel flag first.
StartCall ==
    /\ At("idle") /\ cmd # NoCall
    /\ cmd' = NoCall /\ cancel' = FALSE /\ was' = dir["install"]
    /\ LET entry == IF cmd.entry = "Download" \/ w.havePackage THEN cmd.entry ELSE "Download"
       IN  CASE cmd.op = "check"    -> Goes("resolve", <<Plain("checkStarted")>>)
             [] cmd.op = "download" -> Goes("fetch", <<Started("Download")>>)
             [] cmd.op = "run"      ->
                  IF mode = "manual" /\ ~w.havePackage
                  THEN Ends(<<Failed("DownloadFailed")>>)
                  ELSE Goes(EntryAt(entry), <<Started(entry)>>)
    /\ UNCHANGED <<fixed, dir, app, msi, proc, g, confirmed, doors, budget>>

Resolve ==
    /\ At("resolve")
    /\ \/ Ends(<<Failed("DownloadFailed")>>)
       \/ w' = [w EXCEPT !.at = "idle", !.haveRelease = FALSE] /\ Emit(<<Plain("upToDate")>>)
       \/ w' = [w EXCEPT !.at = "idle", !.haveRelease = TRUE] /\ Emit(<<Plain("updateAvailable")>>)
    /\ UNCHANGED <<dir, app, msi, budget, doors>> /\ WorkerFrame

\* fetchAndStage up to the verified, locked package.
Gates == IF mode = "handoff"
         THEN {"HandoffRejected", "VerifyDownloadFailed", "TargetVersionMismatch", "DownloadFailed"}
         ELSE {"VerifyDownloadFailed", "DownloadFailed"}

DownloadDone ==
    IF mode = "manual"
    THEN /\ w' = [w EXCEPT !.at = "idle", !.havePackage = TRUE]
         /\ Emit(<<Done("Download"), Plain("readyToApply")>>)
    ELSE /\ w' = [w EXCEPT !.at = "closeApp", !.havePackage = TRUE]
         /\ Emit(<<Done("Download"), Started("CloseApp")>>)

\* Mutant: a cancelled download returns without its cancelled() signal.
FetchFailsSilent ==
    /\ At("fetch")
    /\ IF mode = "manual" /\ ~w.haveRelease
       THEN Ends(<<Failed("DownloadFailed")>>)
       ELSE \/ cancel /\ Ends(<<>>)
            \/ \E c \in Gates : (c = "DownloadFailed" => ~cancel) /\ Ends(<<Failed(c)>>)
    /\ UNCHANGED <<dir, app, msi, budget, doors>> /\ WorkerFrame

FetchFails ==
    /\ At("fetch")
    /\ IF mode = "manual" /\ ~w.haveRelease
       THEN Ends(<<Failed("DownloadFailed")>>)
       ELSE \/ cancel /\ Ends(<<Plain("cancelled")>>)
            \/ \E c \in Gates : (c = "DownloadFailed" => ~cancel) /\ Ends(<<Failed(c)>>)
    /\ UNCHANGED <<dir, app, msi, budget, doors>> /\ WorkerFrame

Fetched ==
    /\ At("fetch") /\ ~cancel
    /\ mode = "manual" => w.haveRelease
    /\ IF imode = "msi"
       THEN DownloadDone
       ELSE w' = [w EXCEPT !.at = "stage", !.havePackage = TRUE, !.ret = "download"] /\ Emit(<<>>)
    /\ confirmed' = FALSE
    /\ UNCHANGED <<fixed, proc, cmd, cancel, g, dir, app, msi, was, doors, budget>>

\* StagePortablePackage: wipe, extract, descend into the single top-level folder.
AfterStage == IF w.ret = "download" THEN DownloadDone ELSE Goes("swap1", <<>>)

Staged ==
    /\ At("stage") /\ kind # "noexe"
    /\ dir' = [dir EXCEPT !["staging"] = Tree("new")]
    /\ AfterStage
    /\ UNCHANGED <<app, msi, budget, doors>> /\ WorkerFrame

\* A package without an exe can never be staged; otherwise clearing the old staging tree
\* failed, or extracting or arranging the new one did.  Either way the unfinished tree is
\* wiped again, and what that leaves is not looked at.
LeftInStaging(ts) ==
    /\ \E t \in ts : dir' = [dir EXCEPT !["staging"] = t]
    /\ doors' = doors \cup {"torn"}
    /\ Fault

StageUnusable ==
    /\ At("stage") /\ kind = "noexe"
    /\ \/ dir' = [dir EXCEPT !["staging"] = Gone] /\ UNCHANGED <<budget, doors>>
       \/ LeftInStaging({t \in Remnants(Tree("new")) : ~HasExe(t)})
    /\ w' = [w EXCEPT !.at = "idle", !.havePackage = FALSE]
    /\ Emit(<<Failed("DownloadFailed")>>)
    /\ UNCHANGED <<app, msi>> /\ WorkerFrame

StageFails ==
    /\ At("stage")
    /\ Ends(<<Failed("InstallFailed")>>)
    /\ \/ dir' = [dir EXCEPT !["staging"] = Gone] /\ Fault /\ UNCHANGED doors
       \/ LeftInStaging(Remnants(dir["staging"]) \cup Remnants(Tree("new")))
    /\ UNCHANGED <<app, msi>> /\ WorkerFrame

\* A build that came up holds the single-instance mutex; one that hangs before does not.
InstanceMutexPresent == app \in {"old", "handed", "new"}

\* The handed-over pid is waited for; a manual run only probes the instance mutex.
CloseApp ==
    /\ At("closeApp")
    /\ IF IF mode = "handoff" THEN app = "handed" ELSE InstanceMutexPresent
       THEN Ends(<<Failed("AppWontClose")>>)
       ELSE Goes("install", <<Done("CloseApp"), Started("Install")>>)
    /\ UNCHANGED <<dir, app, msi, budget, doors>> /\ WorkerFrame

\* runInstallPortable: heal an interrupted swap, whatever that achieves ...
\* Mutant: the swap starts without healing an interrupted one.
RepairSkipped ==
    /\ At("install") /\ imode = "portable"
    /\ Goes("restage", <<>>)
    /\ UNCHANGED <<dir, app, msi, budget, doors>> /\ WorkerFrame

Repair ==
    /\ At("install") /\ imode = "portable"
    /\ IF HasExe(dir["install"]) \/ ~Exists(dir["backup"])
       THEN Goes("restage", <<>>)
       ELSE w' = [w EXCEPT !.at = "restore", !.ret = "repair"] /\ Emit(<<>>)
    /\ UNCHANGED <<dir, app, msi, budget, doors>> /\ WorkerFrame

\* ... re-stage from the kept package when the staging tree has no exe ...
Restage ==
    /\ At("restage")
    /\ IF HasExe(dir["staging"]) THEN Goes("swap1", <<>>)
       ELSE w' = [w EXCEPT !.at = "stage", !.ret = "install"] /\ Emit(<<>>)
    /\ UNCHANGED <<dir, app, msi, budget, doors>> /\ WorkerFrame

\* ... and StageRename: clear the backup, install -> backup, staging -> install.
ClearBackup ==
    /\ At("swap1")
    /\ \/ RemoveGone("backup") /\ Goes("swap2", <<>>)
       \/ RemoveFails("backup") /\ Ends(<<Failed("InstallFailed")>>)
    /\ UNCHANGED <<app, msi>> /\ WorkerFrame

MoveOldAway ==
    /\ At("swap2")
    /\ \/ RenameOk("install", "backup") /\ Goes("swap3", <<>>)
       \/ RenameFails("install", "backup") /\ UNCHANGED doors /\ Ends(<<Failed("InstallFailed")>>)
    /\ UNCHANGED <<app, msi>> /\ WorkerFrame

\* Mutant: the second rename fails and the first is not undone.
MoveNewInUncompensated ==
    /\ At("swap3")
    /\ \/ RenameOk("staging", "install") /\ Goes("verify", <<Done("Install"), Started("Verify")>>)
       \/ /\ RenameFails("staging", "install") /\ UNCHANGED doors
          /\ Ends(<<Failed("VerifyInstallFailed")>>)
    /\ UNCHANGED <<app, msi>> /\ WorkerFrame

MoveNewIn ==
    /\ At("swap3")
    /\ \/ RenameOk("staging", "install") /\ Goes("verify", <<Done("Install"), Started("Verify")>>)
       \/ RenameFails("staging", "install") /\ UNCHANGED doors /\ Goes("swap4", <<>>)
    /\ UNCHANGED <<app, msi>> /\ WorkerFrame

MoveOldBack ==
    /\ At("swap4")
    /\ \/ RenameOk("backup", "install") /\ Ends(<<Failed("VerifyInstallFailed")>>)
       \/ RenameFails("backup", "install") /\ UNCHANGED doors /\ Ends(<<Failed("RestoreFailed")>>)
    /\ UNCHANGED <<app, msi>> /\ WorkerFrame

\* RestoreBackup: clear the install tree, then backup -> install.
RestoreEnds(ok) ==
    IF w.ret = "repair"
    THEN Goes("restage", <<>>)
    ELSE Ends(<<Failed(IF ok THEN "VerifyInstallFailed" ELSE "RestoreFailed")>>)

RestoreClear ==
    /\ At("restore")
    /\ IF ~Exists(dir["backup"])
       THEN RestoreEnds(FALSE) /\ UNCHANGED <<dir, budget, doors>>
       ELSE \/ RemoveGone("install") /\ Goes("restoreMove", <<>>)
            \/ RemoveFails("install") /\ RestoreEnds(FALSE)
    /\ UNCHANGED <<app, msi>> /\ WorkerFrame

RestoreMove ==
    /\ At("restoreMove")
    /\ \/ RenameOk("backup", "install") /\ RestoreEnds(TRUE)
       \/ /\ RenameFails("backup", "install")
          /\ RestoreEnds(FALSE)
          /\ doors' = IF w.ret = "repair" THEN doors \cup {"repairIgnored"} ELSE doors
    /\ UNCHANGED <<app, msi>> /\ WorkerFrame

\* runInstallMsi: elevation, then a bounded wait that also watches the cancel flag.
Elevate ==
    /\ At("install") /\ imode = "msi"
    /\ \/ Ends(<<Failed("UacDeclined")>>) /\ UNCHANGED msi
       \/ Ends(<<Failed("MsiFailed")>>) /\ UNCHANGED msi
       \/ msi # "running" /\ msi' = "running" /\ Goes("msiWait", <<>>)
    /\ UNCHANGED <<dir, app, budget, doors>> /\ WorkerFrame

MsiWait ==
    /\ At("msiWait")
    /\ \/ /\ msi = "running"
          /\ UNCHANGED msi
          /\ IF cancel THEN Ends(<<Plain("cancelled")>>) ELSE Ends(<<Failed("MsiFailed")>>)
       \/ /\ msi # "running"
          /\ msi' = "none"
          /\ CASE msi = "ok"     -> Goes("verify", <<Done("Install"), Started("Verify")>>)
               [] msi = "reboot" -> Ends(<<Failed("MsiRebootRequired")>>)
               [] msi = "failed" -> Ends(<<Failed("MsiFailed")>>)
    /\ UNCHANGED <<dir, app, budget, doors>> /\ WorkerFrame

\* The version string of the installed exe is compared with the target.
VerifiedVersion == HasExe(dir["install"]) /\ dir["install"].ver = "new" /\ kind # "mismatch"
Verify ==
    /\ At("verify")
    /\ IF VerifiedVersion THEN Goes("launch", <<Done("Verify"), Started("Launch")>>)
       ELSE IF imode = "portable"
       THEN w' = [w EXCEPT !.at = "restore", !.ret = "verify"] /\ Emit(<<>>)
       ELSE Ends(<<Failed("VerifyInstallFailedMsi")>>)
    /\ UNCHANGED <<dir, app, msi, budget, doors>> /\ WorkerFrame

\* CreateProcess; what the new build does next depends on the build.
Launch ==
    /\ At("launch")
    /\ IF ~HasExe(dir["install"]) \/ kind = "unlaunchable"
       THEN Ends(<<Failed("LaunchFailed")>>) /\ UNCHANGED app
       ELSE /\ Goes("mutex", <<>>)
            /\ app' = IF app = "none" /\ kind # "crashes"
                      THEN IF kind = "hangs" THEN "hung" ELSE "new" ELSE app
    /\ UNCHANGED <<dir, msi, budget, doors>> /\ WorkerFrame

\* The single-instance mutex answers whether a build came up.
MutexWait ==
    /\ At("mutex")
    /\ IF InstanceMutexPresent THEN Goes("cleanup", <<>>)
       ELSE IF imode = "portable"
       THEN w' = [w EXCEPT !.at = "restore", !.ret = "launch"] /\ Emit(<<>>)
       ELSE Ends(<<Failed("LaunchFailed")>>)
    /\ UNCHANGED <<dir, app, msi, budget, doors>> /\ WorkerFrame

Cleanup ==
    /\ At("cleanup")
    /\ IF imode = "portable" THEN RemoveGone("backup") \/ RemoveFails("backup")
       ELSE UNCHANGED <<dir, budget, doors>>
    /\ Ends(<<Done("Launch"), Plain("allDone")>>)
    /\ UNCHANGED <<app, msi>> /\ WorkerFrame

-----------------------------------------------------------------------------
(* Outside the updater.                                                      *)

\* The installer's transaction ends: committed, committed with a reboot pending, or rolled back.
MsiEnds ==
    /\ msi = "running"
    /\ \/ msi' \in {"ok", "reboot"} /\ dir' = [dir EXCEPT !["install"] = Tree("new")]
       \/ msi' = "failed" /\ UNCHANGED dir
    /\ UNCHANGED <<fixed, app, proc, cmd, w, cancel, sig, g, confirmed, was, doors, budget>>

\* ExoSnap ends: it accepted the close hand-off, the user closed it, or it crashed.
AppExit ==
    /\ app # "none"
    /\ app' = "none"
    /\ UNCHANGED <<fixed, dir, msi, proc, cmd, w, cancel, sig, g, confirmed, was, doors, budget>>

\* The process ends in the middle of whatever the worker was doing: killed, or
\* terminate()d when it has not unwound 30 s after the window closed.
Torn(n) == {[dir EXCEPT ![n] = t] : t \in Remnants(dir[n]) \cup {dir[n]}}
TornDirs ==
    CASE w.at \in {"swap1", "cleanup"} /\ imode = "portable" -> Torn("backup")
      [] w.at = "restore" -> IF Exists(dir["backup"]) THEN Torn("install") ELSE {dir}
      [] w.at = "stage"   -> {[dir EXCEPT !["staging"] = t] : t \in Remnants(Tree("new")) \cup {Gone}}
      [] OTHER            -> {dir}

Dies ==
    /\ proc' = "dead"
    /\ cmd' = NoCall /\ sig' = <<>> /\ cancel' = FALSE
    /\ w' = [w EXCEPT !.at = "idle", !.havePackage = FALSE, !.haveRelease = FALSE, !.ret = "none"]
    /\ g' = Idle0 /\ confirmed' = FALSE

Killed ==
    /\ proc # "dead" /\ w.at # "idle" /\ budget.kills < MaxKills
    /\ dir' \in TornDirs
    /\ doors' = IF dir' = dir THEN doors ELSE doors \cup {"torn"}
    /\ budget' = [budget EXCEPT !.kills = @ + 1]
    /\ Dies
    /\ UNCHANGED <<fixed, app, msi, was>>

Exits ==
    /\ proc = "closing" /\ w.at = "idle"
    /\ Dies
    /\ UNCHANGED <<fixed, dir, app, msi, was, doors, budget>>

\* Another updater process: by hand, or by the application that offers the update again.
StartUpdater ==
    /\ proc = "dead" /\ budget.starts < MaxStarts
    /\ budget' = [budget EXCEPT !.starts = @ + 1]
    /\ proc' = "up"
    /\ \E m \in Modes :
         /\ mode' = m
         /\ IF m = "handoff" THEN app \in {"old", "handed"} /\ app' = "handed" ELSE UNCHANGED app
         /\ IF m = "manual" THEN g' = Idle0 /\ cmd' = NoCall
            ELSE /\ g' = [SetPhase(Idle0, "Downloading") EXCEPT !.working = {"Download"},
                                                                !.inFlight = TRUE, !.target = TRUE]
                 /\ cmd' = Call("run", "Download")
    /\ UNCHANGED <<imode, kind, dir, msi, w, cancel, sig, confirmed, was, doors>>

\* The user starts ExoSnap from the install directory.
AppStart ==
    /\ app = "none" /\ HasExe(dir["install"])
    /\ dir["install"].ver = "new" => kind = "good"
    /\ app' = dir["install"].ver
    /\ UNCHANGED <<fixed, dir, msi, proc, cmd, w, cancel, sig, g, confirmed, was, doors, budget>>
-----------------------------------------------------------------------------
Init ==
    /\ mode \in Modes /\ imode \in InstallModes /\ kind \in PackageKinds
    /\ dir = [n \in Dirs |-> IF n = "install" THEN Tree("old") ELSE Gone]
    /\ app \in {"none", "old"}
    /\ msi = "none" /\ proc = "dead" /\ cmd = NoCall
    /\ w = [at |-> "idle", havePackage |-> FALSE, haveRelease |-> FALSE, ret |-> "none"]
    /\ cancel = FALSE /\ sig = <<>> /\ g = Idle0 /\ confirmed = FALSE
    /\ was = dir["install"] /\ doors = {}
    /\ budget = [faults |-> 0, kills |-> 0, starts |-> 0]

Window == DoCheck \/ DoDownload \/ DoApply \/ DoRetry \/ DoCancel \/ DoClose \/ Deliver
Worker ==
    \/ StartCall \/ Resolve \/ FetchFails \/ Fetched \/ Staged \/ StageUnusable \/ StageFails \/ CloseApp
    \/ Repair \/ Restage \/ ClearBackup \/ MoveOldAway \/ MoveNewIn \/ MoveOldBack
    \/ RestoreClear \/ RestoreMove \/ Elevate \/ MsiWait \/ Verify \/ Launch \/ MutexWait \/ Cleanup
Outside == MsiEnds \/ AppExit \/ AppStart \/ Killed \/ Exits \/ StartUpdater

Next == Window \/ Worker \/ Outside

Spec == Init /\ [][Next]_vars

-----------------------------------------------------------------------------
\* The published state settles: nothing in flight and every signal handled.
AtRest == proc = "up" /\ ~g.inFlight /\ sig = <<>>
Outcome == AtRest /\ g.phase \in {"Failed", "RestartPending", "RebootRequired", "Cancelled", "Completed"}

\* What each published installation state says of the directories (enum InstallState).
Truthful ==
    CASE g.phase = "Completed"               -> dir["install"] = Tree("new")
      [] g.installState = "Intact"           -> Whole(dir["install"])
      [] g.installState = "Restored"         -> Whole(dir["install"])
      [] g.installState = "StrandedInBackup" -> Whole(dir["backup"])
      [] OTHER                               -> TRUE

\* An outcome the updater publishes is true of the disk, through any retries, failed renames
\* and earlier killed processes, unless a deletion was left half done or a failed repair was
\* ignored (`doors'); a call that never reached the installation may find it already damaged.
InstallStateTruthful == Outcome /\ doors = {} => Truthful \/ dir["install"] = was

\* "A failed swap must always leave a runnable install behind": at every moment, between any
\* two file operations and after a kill at any of them, the install or the backup directory
\* holds a complete version -- again until one of the two doors has been opened.
SomeTreeWhole == doors = {} => Whole(dir["install"]) \/ Whole(dir["backup"])

\* in_flight, the flag that keeps two worker calls from overlapping, is exactly right: a call
\* is queued, running, or its one terminal signal is on its way -- never two of these, and
\* never none of them, which would leave the window waiting for ever.
Terminals == {"allDone", "failed", "cancelled", "upToDate", "updateAvailable", "readyToApply"}
OneCallInFlight ==
    proc = "up" =>
      LET ends == {i \in DOMAIN sig : sig[i].name \in Terminals}
          live == (IF cmd # NoCall THEN 1 ELSE 0) + (IF w.at # "idle" THEN 1 ELSE 0) + Cardinality(ends)
      IN  live = IF g.inFlight THEN 1 ELSE 0

\* InstallState: "Only states the updater can actually PROVE" -- with no failing file operation
\* and no kill, an outcome the updater publishes is true of the disk.
InstallStateProven == Outcome /\ budget.faults = 0 /\ budget.kills = 0 => Truthful

\* cancelled(): "nothing was installed and nothing broke".
CancelledMeansUntouched ==
    Outcome /\ g.phase = "Cancelled" => dir["install"] = was /\ msi # "running"

\* "A manual retry must re-enter the manual flow": a manual run replaces files only after the
\* user pressed "Install now" for the package that is being installed.
NoUnconfirmedInstall ==
    mode = "manual" /\ w.at \in {"swap1", "swap2", "swap3", "msiWait"} => confirmed
=============================================================================
