--------------------------- MODULE UpdaterProofs ---------------------------
(***************************************************************************)
(* What holds of the updater for every package, mode and bound on faults,  *)
(* kills and starts.                                                       *)
(*                                                                         *)
(* 1. in_flight is exact (OneCallInFlight).  InFlightInv counts: every     *)
(*    step of the worker is silent on the end of its call, or is the last  *)
(*    one and says exactly one terminal thing (Speaks).                    *)
(* 2. Install or backup holds a whole version (SomeTreeWhole).  DiskInv    *)
(*    says which of the two each position of the swap may rely on.         *)
(* 3. What the window publishes is true of the disk (InstallStateTruthful).*)
(*    ClaimInv: a terminal signal carries a claim that holds when it is    *)
(*    emitted and until the window has handled it, and afterwards.         *)
(***************************************************************************)
EXTENDS Updater, FiniteSetTheorems, TLAPS

StepNames == {"Download", "CloseApp", "Install", "Verify", "Launch"}
Ats == {"idle", "resolve", "fetch", "stage", "closeApp", "install", "restage", "swap1", "swap2",
        "swap3", "swap4", "restore", "restoreMove", "msiWait", "verify", "launch", "mutex", "cleanup"}
Workers == [at : Ats, havePackage : BOOLEAN, haveRelease : BOOLEAN,
            ret : {"none", "download", "install", "repair", "verify", "launch"}]
Trees == [ver : {"old", "new"}, parts : SUBSET Parts]
Names == {"stepStarted", "stepDone", "checkStarted"} \cup Terminals
Signals == {m \in [name : Names, arg : StepNames \cup FailureCases \cup {""}] :
              m.name = "stepStarted" => m.arg \in StepNames}
Quiets == {m \in Signals : m.name \notin Terminals}
Finals == {m \in Signals : m.name \in Terminals}

\* The calls the window posts; a run never enters at Verify or Launch.
Calls == {NoCall, Call("check", "none"), Call("download", "none"), Call("run", "Download"),
          Call("run", "CloseApp"), Call("run", "Install")}

\* The window's record: its fields, the flag, and no retry of a failed launch.
Fields == {"phase", "failure", "retry", "installState", "working", "lastFailure", "inFlight", "target"}
WindowOK(r) ==
    /\ DOMAIN r = Fields
    /\ r.inFlight \in BOOLEAN
    /\ r.retry # "none" => r.lastFailure # "LaunchFailed"

KindInv ==
    /\ w \in Workers /\ cmd \in Calls /\ sig \in Seq(Signals)
    /\ dir \in [Dirs -> Trees]
    /\ msi \in {"none", "running", "ok", "reboot", "failed"}
    /\ w.at = "msiWait" => msi # "none"
    /\ WindowOK(g)

\* A sequence of signals that holds a terminal one; that holds at most one.
HasEnd(s) == \E i \in DOMAIN s : s[i].name \in Terminals
OneEnd(s) == \A i, j \in DOMAIN s : s[i].name \in Terminals /\ s[j].name \in Terminals => i = j

InFlightInv ==
    /\ g.inFlight <=> cmd # NoCall \/ w.at # "idle" \/ HasEnd(sig)
    /\ cmd # NoCall => w.at = "idle" /\ ~HasEnd(sig)
    /\ w.at # "idle" => ~HasEnd(sig)
    /\ OneEnd(sig)
    /\ proc = "dead" => cmd = NoCall /\ w.at = "idle" /\ sig = <<>>

-----------------------------------------------------------------------------
(* Sequences of signals.                                                     *)

LEMMA EmptyEnd == <<>> \in Seq(Signals) /\ ~HasEnd(<<>>) /\ OneEnd(<<>>)
BY DEF HasEnd, OneEnd

LEMMA ConcatEnd ==
    ASSUME NEW s \in Seq(Signals), NEW t \in Seq(Signals)
    PROVE  /\ s \o t \in Seq(Signals)
           /\ HasEnd(s \o t) <=> HasEnd(s) \/ HasEnd(t)
           /\ OneEnd(s) /\ OneEnd(t) /\ ~(HasEnd(s) /\ HasEnd(t)) => OneEnd(s \o t)
<1>1. /\ s \o t \in Seq(Signals)
      /\ DOMAIN s = 1..Len(s) /\ DOMAIN t = 1..Len(t) /\ Len(s) \in Nat /\ Len(t) \in Nat
      /\ DOMAIN (s \o t) = 1..(Len(s) + Len(t))
      /\ \A i \in 1..Len(s) : (s \o t)[i] = s[i]
      /\ \A i \in 1..(Len(s) + Len(t)) : i > Len(s) => (s \o t)[i] = t[i - Len(s)]
      /\ \A i \in 1..Len(t) : (s \o t)[i + Len(s)] = t[i]
  OBVIOUS
<1>2. ASSUME NEW i \in DOMAIN (s \o t)
      PROVE  \/ i \in DOMAIN s /\ (s \o t)[i] = s[i]
             \/ i - Len(s) \in DOMAIN t /\ (s \o t)[i] = t[i - Len(s)]
  BY <1>1
<1>3. HasEnd(s \o t) => HasEnd(s) \/ HasEnd(t)
  BY <1>2 DEF HasEnd
<1>4. HasEnd(s) => HasEnd(s \o t)
  BY <1>1 DEF HasEnd
<1>5. HasEnd(t) => HasEnd(s \o t)
  <2> SUFFICES ASSUME NEW i \in DOMAIN t, t[i].name \in Terminals PROVE HasEnd(s \o t)
    BY DEF HasEnd
  <2>1. i + Len(s) \in DOMAIN (s \o t) /\ (s \o t)[i + Len(s)] = t[i]  BY <1>1
  <2> QED BY <2>1 DEF HasEnd
<1>6. ASSUME OneEnd(s), OneEnd(t), ~(HasEnd(s) /\ HasEnd(t)) PROVE OneEnd(s \o t)
  <2> SUFFICES ASSUME NEW i \in DOMAIN (s \o t), NEW j \in DOMAIN (s \o t),
                      (s \o t)[i].name \in Terminals, (s \o t)[j].name \in Terminals
               PROVE  i = j
    BY DEF OneEnd
  <2>0. i \in Int /\ j \in Int /\ Len(s) \in Int  BY <1>1
  <2>1. CASE i \in DOMAIN s /\ (s \o t)[i] = s[i]
    <3>1. HasEnd(s)  BY <2>1 DEF HasEnd
    <3>2. ~(j - Len(s) \in DOMAIN t /\ (s \o t)[j] = t[j - Len(s)])
      BY <3>1, <1>6 DEF HasEnd
    <3> QED BY <1>2, <1>6, <2>1, <3>2 DEF OneEnd
  <2>2. CASE i - Len(s) \in DOMAIN t /\ (s \o t)[i] = t[i - Len(s)]
    <3>1. HasEnd(t)  BY <2>2 DEF HasEnd
    <3>2. ~(j \in DOMAIN s /\ (s \o t)[j] = s[j])
      BY <3>1, <1>6 DEF HasEnd
    <3>3. j - Len(s) \in DOMAIN t /\ (s \o t)[j] = t[j - Len(s)]
      BY <1>2, <3>2
    <3>4. i - Len(s) = j - Len(s)
      BY <1>6, <2>2, <3>3 DEF OneEnd
    <3> QED BY <2>0, <3>4
  <2> QED BY <1>2, <2>1, <2>2
<1> QED BY <1>1, <1>3, <1>4, <1>5, <1>6

LEMMA TailEnd ==
    ASSUME NEW s \in Seq(Signals), s # <<>>, OneEnd(s)
    PROVE  /\ Tail(s) \in Seq(Signals) /\ Head(s) \in Signals
           /\ OneEnd(Tail(s))
           /\ Head(s).name \in Terminals => ~HasEnd(Tail(s))
           /\ Head(s).name \notin Terminals => (HasEnd(Tail(s)) <=> HasEnd(s))
<1>1. /\ Tail(s) \in Seq(Signals) /\ Head(s) \in Signals /\ Head(s) = s[1] /\ 1 \in DOMAIN s
      /\ DOMAIN s = 1..Len(s) /\ Len(s) \in Nat /\ DOMAIN Tail(s) = 1..(Len(s) - 1)
      /\ \A i \in 1..(Len(s) - 1) : Tail(s)[i] = s[i + 1]
  OBVIOUS
<1>2. ASSUME NEW i \in DOMAIN Tail(s)
      PROVE  i + 1 \in DOMAIN s /\ Tail(s)[i] = s[i + 1] /\ i \in Nat /\ i + 1 # 1
  BY <1>1
<1>3. OneEnd(Tail(s))
  <2> SUFFICES ASSUME NEW i \in DOMAIN Tail(s), NEW j \in DOMAIN Tail(s),
                      Tail(s)[i].name \in Terminals, Tail(s)[j].name \in Terminals
               PROVE  i = j
    BY DEF OneEnd
  <2>1. i + 1 = j + 1  BY <1>2 DEF OneEnd
  <2> QED BY <1>2, <2>1
<1>4. HasEnd(Tail(s)) => HasEnd(s) /\ Head(s).name \notin Terminals
  <2> SUFFICES ASSUME NEW i \in DOMAIN Tail(s), Tail(s)[i].name \in Terminals
               PROVE  HasEnd(s) /\ Head(s).name \notin Terminals
    BY DEF HasEnd
  <2>1. i + 1 \in DOMAIN s /\ s[i + 1].name \in Terminals /\ i + 1 # 1  BY <1>2
  <2> QED BY <1>1, <2>1 DEF HasEnd, OneEnd
<1>5. ASSUME HasEnd(s), Head(s).name \notin Terminals PROVE HasEnd(Tail(s))
  <2>1. PICK i \in DOMAIN s : s[i].name \in Terminals  BY <1>5 DEF HasEnd
  <2>2. i # 1  BY <1>1, <1>5, <2>1
  <2>3. i - 1 \in DOMAIN Tail(s) /\ Tail(s)[i - 1] = s[i]  BY <1>1, <2>2
  <2> QED BY <2>1, <2>3 DEF HasEnd
<1> QED BY <1>1, <1>3, <1>4, <1>5

\* What the worker says while a call goes on, and with what it ends one.
Quiet(t) == t \in Seq(Signals) /\ ~HasEnd(t)
Final(t) == t \in Seq(Signals) /\ HasEnd(t) /\ OneEnd(t)

LEMMA SayOne ==
    /\ Quiet(<<>>)
    /\ \A m \in Quiets : Quiet(<<m>>)
    /\ \A m \in Finals : Final(<<m>>)
<1>1. \A m \in Signals : <<m>> \in Seq(Signals) /\ DOMAIN <<m>> = {1} /\ <<m>>[1] = m
  OBVIOUS
<1>2. Quiet(<<>>)  BY EmptyEnd DEF Quiet
<1>3. \A m \in Quiets : Quiet(<<m>>)  BY <1>1 DEF Quiet, HasEnd, Quiets
<1>4. \A m \in Finals : Final(<<m>>)  BY <1>1 DEF Final, HasEnd, OneEnd, Finals
<1> QED BY <1>2, <1>3, <1>4

LEMMA SayTwo ==
    /\ \A a \in Quiets, b \in Quiets : Quiet(<<a, b>>)
    /\ \A a \in Quiets, b \in Finals : Final(<<a, b>>)
<1>1. \A a, b \in Signals : /\ <<a, b>> \in Seq(Signals) /\ DOMAIN <<a, b>> = {1, 2}
                            /\ <<a, b>>[1] = a /\ <<a, b>>[2] = b
  OBVIOUS
<1>2. \A a \in Quiets, b \in Quiets : Quiet(<<a, b>>)  BY <1>1 DEF Quiet, HasEnd, Quiets
<1>3. \A a \in Quiets, b \in Finals : Final(<<a, b>>)  BY <1>1 DEF Final, HasEnd, OneEnd, Quiets, Finals
<1> QED BY <1>2, <1>3

LEMMA SignalKinds ==
    /\ \A s \in StepNames : Started(s) \in Quiets /\ Done(s) \in Quiets
    /\ Plain("checkStarted") \in Quiets
    /\ \A c \in FailureCases : Failed(c) \in Finals
    /\ \A n \in Terminals : Plain(n) \in Finals
BY DEF Started, Done, Plain, Failed, Signal, Quiets, Finals, Signals, Names, Terminals

-----------------------------------------------------------------------------
(* Every step of the worker either goes on, saying nothing final, or is the  *)
(* last of its call and says exactly one final thing.                        *)

Speaks ==
    \/ w'.at = "idle" /\ \E t \in Seq(Signals) : Final(t) /\ sig' = sig \o t
    \/ w'.at # "idle" /\ \E t \in Seq(Signals) : Quiet(t) /\ sig' = sig \o t

LEMMA EndsSpeaks ==
    ASSUME w \in Workers, NEW t, Final(t), Emit(t), w' \in Workers, w'.at = "idle"
    PROVE  Speaks
BY DEF Emit, Speaks, Final

LEMMA GoesSpeaks ==
    ASSUME w \in Workers, NEW t, Quiet(t), Emit(t), w' \in Workers, w'.at # "idle"
    PROVE  Speaks
BY DEF Emit, Speaks, Quiet

LEMMA FailsSpeaks ==
    ASSUME w \in Workers, NEW c \in FailureCases, Ends(<<Failed(c)>>)
    PROVE  Speaks /\ w' \in Workers
<1>1. w' \in Workers /\ w'.at = "idle"  BY DEF Ends, Workers, Ats
<1>2. Final(<<Failed(c)>>)  BY SayOne, SignalKinds
<1> QED BY <1>1, <1>2, EndsSpeaks DEF Ends

LEMMA MovesSpeaks ==
    ASSUME w \in Workers, NEW p \in Ats \ {"idle"}, NEW t, Quiet(t), Goes(p, t)
    PROVE  Speaks /\ w' \in Workers
<1>1. w' \in Workers /\ w'.at # "idle"  BY DEF Goes, Workers, Ats
<1> QED BY <1>1, GoesSpeaks DEF Goes

\* The signals the steps emit.
LEMMA Sayings ==
    /\ Quiet(<<>>)
    /\ \A s \in StepNames : Quiet(<<Started(s)>>)
    /\ \A s, r \in StepNames : Quiet(<<Done(s), Started(r)>>)
    /\ Quiet(<<Plain("checkStarted")>>)
    /\ \A n \in Terminals : Final(<<Plain(n)>>)
    /\ \A s \in StepNames, n \in Terminals : Final(<<Done(s), Plain(n)>>)
BY SayOne, SayTwo, SignalKinds, Zenon

LEMMA DownloadSpeaks ==
    ASSUME w \in Workers, DownloadDone
    PROVE  Speaks /\ w' \in Workers
<1>1. CASE mode = "manual"
  <2>1. w' \in Workers /\ w'.at = "idle"  BY <1>1 DEF DownloadDone, Workers, Ats
  <2>2. Final(<<Done("Download"), Plain("readyToApply")>>)  BY Sayings DEF StepNames, Terminals
  <2> QED BY <1>1, <2>1, <2>2, EndsSpeaks DEF DownloadDone
<1>2. CASE mode # "manual"
  <2>1. w' \in Workers /\ w'.at # "idle"  BY <1>2 DEF DownloadDone, Workers, Ats
  <2>2. Quiet(<<Done("Download"), Started("CloseApp")>>)  BY Sayings DEF StepNames
  <2> QED BY <1>2, <2>1, <2>2, GoesSpeaks DEF DownloadDone
<1> QED BY <1>1, <1>2

LEMMA RestoreSpeaks ==
    ASSUME w \in Workers, NEW ok \in BOOLEAN, RestoreEnds(ok)
    PROVE  Speaks /\ w' \in Workers
<1>1. CASE w.ret = "repair"
  BY <1>1, MovesSpeaks, Sayings DEF RestoreEnds, Ats
<1>2. CASE w.ret # "repair"
  <2> DEFINE c == IF ok THEN "VerifyInstallFailed" ELSE "RestoreFailed"
  <2>1. c \in FailureCases /\ Ends(<<Failed(c)>>)  BY <1>2 DEF RestoreEnds, FailureCases
  <2> QED BY <2>1, FailsSpeaks
<1> QED BY <1>1, <1>2

\* w' = [w EXCEPT !.at = p, !.ret = r] with nothing said.
LEMMA TurnsSpeaks ==
    ASSUME w \in Workers, NEW p \in Ats \ {"idle"}, NEW hp \in BOOLEAN,
           NEW r \in {"none", "download", "install", "repair", "verify", "launch"},
           w' = [w EXCEPT !.at = p, !.havePackage = hp, !.ret = r], Emit(<<>>)
    PROVE  Speaks /\ w' \in Workers
<1>1. w' \in Workers /\ w'.at # "idle"  BY DEF Workers, Ats
<1> QED BY <1>1, Sayings, GoesSpeaks

LEMMA TurnsOnly ==
    ASSUME w \in Workers, NEW p \in Ats \ {"idle"},
           NEW r \in {"none", "download", "install", "repair", "verify", "launch"},
           w' = [w EXCEPT !.at = p, !.ret = r], Emit(<<>>)
    PROVE  Speaks /\ w' \in Workers
<1>1. w' \in Workers /\ w'.at # "idle"  BY DEF Workers, Ats
<1> QED BY <1>1, Sayings, GoesSpeaks

LEMMA StartSpeaks ==
    ASSUME KindInv, StartCall
    PROVE  Speaks /\ w' \in Workers /\ (w'.at \in {"idle", "resolve", "fetch", "closeApp", "install"})
<1> w \in Workers /\ cmd \in Calls  BY DEF KindInv
<1> DEFINE entry == IF cmd.entry = "Download" \/ w.havePackage THEN cmd.entry ELSE "Download"
<1>1. cmd.op \in {"check", "download", "run"} /\ (cmd.op = "run" => cmd.entry \in {"Download", "CloseApp", "Install"})
  BY DEF StartCall, Calls, NoCall, Call
<1>2. CASE cmd.op = "check"
  <2>1. Goes("resolve", <<Plain("checkStarted")>>)  BY <1>2 DEF StartCall
  <2>2. Speaks /\ w' \in Workers  BY <2>1, MovesSpeaks, Sayings DEF Ats
  <2> QED BY <2>1, <2>2 DEF Goes, Workers
<1>3. CASE cmd.op = "download"
  <2>1. Goes("fetch", <<Started("Download")>>)  BY <1>3 DEF StartCall
  <2>2. Speaks /\ w' \in Workers  BY <2>1, MovesSpeaks, Sayings DEF Ats, StepNames
  <2> QED BY <2>1, <2>2 DEF Goes, Workers
<1>4. CASE cmd.op = "run" /\ mode = "manual" /\ ~w.havePackage
  <2>1. Ends(<<Failed("DownloadFailed")>>)  BY <1>4 DEF StartCall
  <2>2. Speaks /\ w' \in Workers  BY <2>1, FailsSpeaks DEF FailureCases
  <2> QED BY <2>1, <2>2 DEF Ends, Workers
<1>5. CASE cmd.op = "run" /\ ~(mode = "manual" /\ ~w.havePackage)
  <2>1. Goes(EntryAt(entry), <<Started(entry)>>)  BY <1>5 DEF StartCall
  <2>2. entry \in {"Download", "CloseApp", "Install"}  BY <1>1, <1>5
  <2>3. EntryAt(entry) \in {"fetch", "closeApp", "install"} /\ entry \in StepNames
    BY <2>2 DEF EntryAt, StepNames
  <2>4. Quiet(<<Started(entry)>>)  BY <2>3, Sayings
  <2> HIDE DEF entry
  <2>5. Speaks /\ w' \in Workers  BY <2>1, <2>3, <2>4, MovesSpeaks DEF Ats
  <2> QED BY <2>1, <2>3, <2>5 DEF Goes, Workers
<1> QED BY <1>1, <1>2, <1>3, <1>4, <1>5

\* The steps of a running call.
Running ==
    \/ Resolve \/ FetchFails \/ Fetched \/ Staged \/ StageUnusable \/ StageFails \/ CloseApp
    \/ Repair \/ Restage \/ ClearBackup \/ MoveOldAway \/ MoveNewIn \/ MoveOldBack
    \/ RestoreClear \/ RestoreMove \/ Elevate \/ MsiWait \/ Verify \/ Launch \/ MutexWait \/ Cleanup

LEMMA RunningFrame ==
    ASSUME Running
    PROVE  w.at # "idle" /\ proc # "dead" /\ UNCHANGED <<mode, imode, kind, proc, cmd, g, was>>
BY DEF Running, At, WorkerFrame, fixed, Resolve, FetchFails, Fetched, Staged, StageUnusable, StageFails,
       CloseApp, Repair, Restage, ClearBackup, MoveOldAway, MoveNewIn, MoveOldBack, RestoreClear,
       RestoreMove, Elevate, MsiWait, Verify, Launch, MutexWait, Cleanup

LEMMA RunningSpeaks ==
    ASSUME KindInv, Running
    PROVE  Speaks /\ w' \in Workers
<1> w \in Workers  BY DEF KindInv
<1>0. \A c \in {"DownloadFailed", "VerifyDownloadFailed", "TargetVersionMismatch", "HandoffRejected",
                "AppWontClose", "InstallFailed", "VerifyInstallFailed", "RestoreFailed",
                "VerifyInstallFailedMsi", "LaunchFailed", "UacDeclined", "MsiFailed", "MsiRebootRequired"} :
        Ends(<<Failed(c)>>) => Speaks /\ w' \in Workers
  BY FailsSpeaks DEF FailureCases
<1>c. Ends(<<Plain("cancelled")>>) => Speaks /\ w' \in Workers
  <2> SUFFICES ASSUME Ends(<<Plain("cancelled")>>) PROVE Speaks /\ w' \in Workers
    OBVIOUS
  <2>1. w' \in Workers /\ w'.at = "idle"  BY DEF Ends, Workers, Ats
  <2>2. Final(<<Plain("cancelled")>>)  BY Sayings DEF Terminals
  <2> QED BY <2>1, <2>2, EndsSpeaks DEF Ends
<1>g. \A p \in Ats \ {"idle"} : Goes(p, <<>>) => Speaks /\ w' \in Workers
  BY MovesSpeaks, Sayings
<1>s. \A p \in Ats \ {"idle"}, s, r \in StepNames : Goes(p, <<Done(s), Started(r)>>) => Speaks /\ w' \in Workers
  BY MovesSpeaks, Sayings
<1>1. CASE Resolve
  <2>1. CASE Ends(<<Failed("DownloadFailed")>>)  BY <1>0, <2>1
  <2>2. CASE w' = [w EXCEPT !.at = "idle", !.haveRelease = FALSE] /\ Emit(<<Plain("upToDate")>>)
    <3>1. w' \in Workers /\ w'.at = "idle"  BY <2>2 DEF Workers, Ats
    <3>2. Final(<<Plain("upToDate")>>)  BY Sayings DEF Terminals
    <3> QED BY <2>2, <3>1, <3>2, EndsSpeaks
  <2>3. CASE w' = [w EXCEPT !.at = "idle", !.haveRelease = TRUE] /\ Emit(<<Plain("updateAvailable")>>)
    <3>1. w' \in Workers /\ w'.at = "idle"  BY <2>3 DEF Workers, Ats
    <3>2. Final(<<Plain("updateAvailable")>>)  BY Sayings DEF Terminals
    <3> QED BY <2>3, <3>1, <3>2, EndsSpeaks
  <2> QED BY <1>1, <2>1, <2>2, <2>3 DEF Resolve
<1>2. CASE FetchFails
  <2>1. CASE mode = "manual" /\ ~w.haveRelease  BY <1>0, <1>2, <2>1 DEF FetchFails
  <2>2. CASE ~(mode = "manual" /\ ~w.haveRelease)
    BY <1>0, <1>c, <1>2, <2>2 DEF FetchFails, Gates
  <2> QED BY <2>1, <2>2
<1>3. CASE Fetched
  <2>1. CASE imode = "msi"  BY <1>3, <2>1, DownloadSpeaks DEF Fetched
  <2>2. CASE imode # "msi"
    BY <1>3, <2>2, TurnsSpeaks DEF Fetched, Ats
  <2> QED BY <2>1, <2>2
<1>4. CASE Staged
  <2>1. CASE w.ret = "download"  BY <1>4, <2>1, DownloadSpeaks DEF Staged, AfterStage
  <2>2. CASE w.ret # "download"  BY <1>g, <1>4, <2>2 DEF Staged, AfterStage, Ats
  <2> QED BY <2>1, <2>2
<1>5. CASE StageUnusable
  <2>1. w' \in Workers /\ w'.at = "idle"  BY <1>5 DEF StageUnusable, Workers, Ats
  <2>2. Final(<<Failed("DownloadFailed")>>)  BY SayOne, SignalKinds DEF FailureCases
  <2> QED BY <1>5, <2>1, <2>2, EndsSpeaks DEF StageUnusable
<1>6. CASE StageFails  BY <1>0, <1>6 DEF StageFails
<1>7. CASE CloseApp  BY <1>0, <1>s, <1>7 DEF CloseApp, Ats, StepNames
<1>8. CASE Repair
  <2>1. CASE Goes("restage", <<>>)  BY <1>g, <2>1 DEF Ats
  <2>2. CASE w' = [w EXCEPT !.at = "restore", !.ret = "repair"] /\ Emit(<<>>)
    BY <2>2, TurnsOnly DEF Ats
  <2> QED BY <1>8, <2>1, <2>2 DEF Repair
<1>9. CASE Restage
  <2>1. CASE Goes("swap1", <<>>)  BY <1>g, <2>1 DEF Ats
  <2>2. CASE w' = [w EXCEPT !.at = "stage", !.ret = "install"] /\ Emit(<<>>)
    BY <2>2, TurnsOnly DEF Ats
  <2> QED BY <1>9, <2>1, <2>2 DEF Restage
<1>10. CASE ClearBackup  BY <1>0, <1>g, <1>10 DEF ClearBackup, Ats
<1>11. CASE MoveOldAway  BY <1>0, <1>g, <1>11 DEF MoveOldAway, Ats
<1>12. CASE MoveNewIn  BY <1>g, <1>s, <1>12 DEF MoveNewIn, Ats, StepNames
<1>13. CASE MoveOldBack  BY <1>0, <1>13 DEF MoveOldBack
<1>14. CASE RestoreClear
  BY <1>g, <1>14, RestoreSpeaks DEF RestoreClear, Ats
<1>15. CASE RestoreMove  BY <1>15, RestoreSpeaks DEF RestoreMove
<1>16. CASE Elevate  BY <1>0, <1>g, <1>16 DEF Elevate, Ats
<1>17. CASE MsiWait
  <2>1. CASE msi = "running"  BY <1>0, <1>c, <1>17, <2>1 DEF MsiWait
  <2>2. CASE msi # "running"
    <3>1. msi \in {"ok", "reboot", "failed"}  BY <1>17, <2>2 DEF MsiWait, At, KindInv
    <3> QED BY <1>0, <1>s, <1>17, <2>2, <3>1 DEF MsiWait, Ats, StepNames
  <2> QED BY <2>1, <2>2
<1>18. CASE Verify
  <2>1. CASE Goes("launch", <<Done("Verify"), Started("Launch")>>)  BY <1>s, <2>1 DEF Ats, StepNames
  <2>2. CASE w' = [w EXCEPT !.at = "restore", !.ret = "verify"] /\ Emit(<<>>)
    BY <2>2, TurnsOnly DEF Ats
  <2>3. CASE Ends(<<Failed("VerifyInstallFailedMsi")>>)  BY <1>0, <2>3
  <2> QED BY <1>18, <2>1, <2>2, <2>3 DEF Verify
<1>19. CASE Launch  BY <1>0, <1>g, <1>19 DEF Launch, Ats
<1>20. CASE MutexWait
  <2>1. CASE Goes("cleanup", <<>>)  BY <1>g, <2>1 DEF Ats
  <2>2. CASE w' = [w EXCEPT !.at = "restore", !.ret = "launch"] /\ Emit(<<>>)
    BY <2>2, TurnsOnly DEF Ats
  <2>3. CASE Ends(<<Failed("LaunchFailed")>>)  BY <1>0, <2>3
  <2> QED BY <1>20, <2>1, <2>2, <2>3 DEF MutexWait
<1>21. CASE Cleanup
  <2>1. Ends(<<Done("Launch"), Plain("allDone")>>)  BY <1>21 DEF Cleanup
  <2>2. w' \in Workers /\ w'.at = "idle"  BY <2>1 DEF Ends, Workers, Ats
  <2>3. Final(<<Done("Launch"), Plain("allDone")>>)  BY Sayings DEF StepNames, Terminals
  <2> QED BY <2>1, <2>2, <2>3, EndsSpeaks DEF Ends
<1> QED BY <1>1, <1>2, <1>3, <1>4, <1>5, <1>6, <1>7, <1>8, <1>9, <1>10, <1>11, <1>12, <1>13, <1>14,
           <1>15, <1>16, <1>17, <1>18, <1>19, <1>20, <1>21 DEF Running

-----------------------------------------------------------------------------
(* The window's record.                                                      *)

LEMMA PhaseSet ==
    ASSUME NEW r, WindowOK(r), NEW p
    PROVE  WindowOK(SetPhase(r, p)) /\ SetPhase(r, p).inFlight = r.inFlight /\ SetPhase(r, p).phase = p
BY DEF WindowOK, SetPhase, Fields

LEMMA FreshWindow ==
    ASSUME NEW r, WindowOK(r)
    PROVE  WindowOK(Fresh(r)) /\ Fresh(r).phase = "Idle"
<1>1. WindowOK(SetPhase(r, "Idle")) /\ SetPhase(r, "Idle").phase = "Idle"  BY PhaseSet
<1> QED BY <1>1 DEF Fresh, WindowOK, Fields

LEMMA IdleWindow == WindowOK(Idle0) /\ Idle0.inFlight = FALSE /\ Idle0.phase = "Idle"
BY DEF WindowOK, Idle0, Fields

LEMMA FlightWindow ==
    ASSUME NEW r, WindowOK(r)
    PROVE  WindowOK([r EXCEPT !.inFlight = TRUE])
BY DEF WindowOK, Fields

\* A slot clears in_flight for a terminal signal and for no other.
LEMMA HandledWindow ==
    ASSUME WindowOK(g), NEW m \in Signals
    PROVE  /\ WindowOK(Handled(g, m))
           /\ Handled(g, m).inFlight = IF m.name \in Terminals THEN FALSE ELSE g.inFlight
<1> DEFINE R(h) == WindowOK(h) /\ h.inFlight = IF m.name \in Terminals THEN FALSE ELSE g.inFlight
<1>0. m.name \in {"stepStarted", "stepDone", "checkStarted", "allDone", "failed", "cancelled", "upToDate",
                  "updateAvailable", "readyToApply"}
  BY DEF Signals, Names, Terminals
<1>1. CASE m.name = "stepStarted"
  <2> DEFINE r == SetPhase(g, PhaseForStep(m.arg))
  <2>1. Handled(g, m) = [r EXCEPT !.working = @ \cup {m.arg}]  BY <1>1 DEF Handled
  <2>2. WindowOK(r) /\ r.inFlight = g.inFlight  BY PhaseSet
  <2> HIDE DEF r
  <2> QED BY <1>1, <2>1, <2>2 DEF WindowOK, Fields, Terminals
<1>2. CASE m.name = "stepDone"
  <2>1. Handled(g, m) = [g EXCEPT !.working = @ \ {m.arg}]  BY <1>2 DEF Handled
  <2> QED BY <1>2, <2>1 DEF WindowOK, Fields, Terminals
<1>3. CASE m.name = "checkStarted"
  <2>1. Handled(g, m) = SetPhase(g, "Checking")  BY <1>3 DEF Handled
  <2> QED BY <1>3, <2>1, PhaseSet DEF Terminals
<1>4. CASE m.name = "failed"
  <2>1. Handled(g, m) = OnFailure(g, m.arg)  BY <1>4 DEF Handled
  <2>2. /\ DOMAIN OnFailure(g, m.arg) = Fields
        /\ OnFailure(g, m.arg).inFlight = FALSE
        /\ OnFailure(g, m.arg).lastFailure = m.arg
        /\ OnFailure(g, m.arg).retry = IF RetryOffered(m.arg, mode) THEN RetryEntryStep(m.arg) ELSE "none"
    BY DEF OnFailure, WindowOK, Fields
  <2>3. OnFailure(g, m.arg).retry # "none" => m.arg # "LaunchFailed"
    BY <2>2 DEF RetryOffered
  <2> QED BY <1>4, <2>1, <2>2, <2>3 DEF WindowOK, Terminals
<1>5. CASE m.name \in {"allDone", "cancelled", "upToDate", "updateAvailable", "readyToApply"}
  <2>1. PICK p : Handled(g, m) \in
            {[SetPhase(g, p) EXCEPT !.inFlight = FALSE, !.working = {}],
             [SetPhase(g, p) EXCEPT !.inFlight = FALSE, !.target = FALSE],
             [SetPhase(g, p) EXCEPT !.inFlight = FALSE, !.target = TRUE],
             [SetPhase(g, p) EXCEPT !.inFlight = FALSE]}
    <3>1. CASE m.name = "allDone"  BY <3>1 DEF Handled
    <3>2. CASE m.name = "cancelled"  BY <3>2 DEF Handled
    <3>3. CASE m.name = "upToDate"  BY <3>3 DEF Handled
    <3>4. CASE m.name = "updateAvailable"  BY <3>4 DEF Handled
    <3>5. CASE m.name = "readyToApply"  BY <3>5 DEF Handled
    <3> QED BY <1>5, <3>1, <3>2, <3>3, <3>4, <3>5
  <2> DEFINE r == SetPhase(g, p)
  <2>2. WindowOK(r)  BY PhaseSet
  <2>3. m.name \in Terminals  BY <1>5 DEF Terminals
  <2> HIDE DEF r
  <2>4. /\ WindowOK([r EXCEPT !.inFlight = FALSE, !.working = {}])
        /\ [r EXCEPT !.inFlight = FALSE, !.working = {}].inFlight = FALSE
    BY <2>2 DEF WindowOK, Fields
  <2>5. /\ WindowOK([r EXCEPT !.inFlight = FALSE, !.target = FALSE])
        /\ [r EXCEPT !.inFlight = FALSE, !.target = FALSE].inFlight = FALSE
    BY <2>2 DEF WindowOK, Fields
  <2>6. /\ WindowOK([r EXCEPT !.inFlight = FALSE, !.target = TRUE])
        /\ [r EXCEPT !.inFlight = FALSE, !.target = TRUE].inFlight = FALSE
    BY <2>2 DEF WindowOK, Fields
  <2>7. /\ WindowOK([r EXCEPT !.inFlight = FALSE])
        /\ [r EXCEPT !.inFlight = FALSE].inFlight = FALSE
    BY <2>2 DEF WindowOK, Fields
  <2> QED BY <2>1, <2>3, <2>4, <2>5, <2>6, <2>7 DEF r
<1> QED BY <1>0, <1>1, <1>2, <1>3, <1>4, <1>5

-----------------------------------------------------------------------------
(* The directories hold trees.                                               *)

LEMMA TreeFacts ==
    /\ Gone \in Trees /\ Tree("old") \in Trees /\ Tree("new") \in Trees
    /\ \A t \in Trees : Remnants(t) \subseteq Trees
    /\ ~Exists(Gone) /\ Whole(Tree("old")) /\ Whole(Tree("new"))
BY DEF Gone, Tree, Trees, Remnants, Exists, Whole, Parts

LEMMA RemoveKind ==
    ASSUME dir \in [Dirs -> Trees], NEW n \in Dirs, RemoveGone(n) \/ RemoveFails(n)
    PROVE  dir' \in [Dirs -> Trees]
<1>1. CASE RemoveGone(n)  BY <1>1, TreeFacts DEF RemoveGone
<1>2. CASE RemoveFails(n) /\ dir' = [dir EXCEPT ![n].parts = {"dir", "exe"}]
  BY <1>2 DEF Trees, Parts
<1>3. CASE RemoveFails(n) /\ \E r \in Remnants(dir[n]) : dir' = [dir EXCEPT ![n] = r]
  BY <1>3, TreeFacts
<1> QED BY <1>1, <1>2, <1>3 DEF RemoveFails

LEMMA RenameKind ==
    ASSUME dir \in [Dirs -> Trees], NEW a \in Dirs, NEW b \in Dirs, RenameOk(a, b) \/ RenameFails(a, b)
    PROVE  dir' \in [Dirs -> Trees]
BY TreeFacts DEF RenameOk, RenameFails

LEMMA RunningDirs ==
    ASSUME dir \in [Dirs -> Trees], Running
    PROVE  dir' \in [Dirs -> Trees]
<1> "install" \in Dirs /\ "staging" \in Dirs /\ "backup" \in Dirs  BY DEF Dirs
<1>1. CASE Resolve \/ FetchFails \/ Fetched \/ CloseApp \/ Repair \/ Restage \/ Elevate \/ MsiWait
           \/ Verify \/ Launch \/ MutexWait
  BY <1>1 DEF Resolve, FetchFails, Fetched, CloseApp, Repair, Restage, Elevate, MsiWait, Verify, Launch,
              MutexWait
<1>2. CASE Staged  BY <1>2, TreeFacts DEF Staged
<1>3. CASE StageUnusable  BY <1>3, TreeFacts DEF StageUnusable, LeftInStaging
<1>4. CASE StageFails  BY <1>4, TreeFacts DEF StageFails, LeftInStaging
<1>5. CASE ClearBackup  BY <1>5, RemoveKind DEF ClearBackup
<1>6. CASE MoveOldAway  BY <1>6, RenameKind DEF MoveOldAway
<1>7. CASE MoveNewIn  BY <1>7, RenameKind DEF MoveNewIn
<1>8. CASE MoveOldBack  BY <1>8, RenameKind DEF MoveOldBack
<1>9. CASE RestoreClear  BY <1>9, RemoveKind DEF RestoreClear
<1>10. CASE RestoreMove  BY <1>10, RenameKind DEF RestoreMove
<1>11. CASE Cleanup  BY <1>11, RemoveKind DEF Cleanup
<1> QED BY <1>1, <1>2, <1>3, <1>4, <1>5, <1>6, <1>7, <1>8, <1>9, <1>10, <1>11 DEF Running

\* The installer's process: a wait is entered only with one started.
LEMMA RunningMsi ==
    ASSUME KindInv, Running
    PROVE  /\ msi' \in {"none", "running", "ok", "reboot", "failed"}
           /\ w'.at = "msiWait" => msi' # "none"
<1> w \in Workers /\ msi \in {"none", "running", "ok", "reboot", "failed"} /\ DOMAIN w = {"at", "havePackage", "haveRelease", "ret"}
  BY DEF KindInv, Workers
<1>1. CASE Elevate  BY <1>1 DEF Elevate, Goes, Ends
<1>2. CASE MsiWait
  <2>1. msi = "running" \/ msi \in {"ok", "reboot", "failed"}  BY <1>2 DEF MsiWait, At, KindInv
  <2> QED BY <1>2, <2>1 DEF MsiWait, Goes, Ends
<1>3. CASE ~Elevate /\ ~MsiWait
  <2>1. UNCHANGED msi
    BY <1>3 DEF Running, Resolve, FetchFails, Fetched, Staged, StageUnusable, StageFails, CloseApp,
                Repair, Restage, ClearBackup, MoveOldAway, MoveNewIn, MoveOldBack, RestoreClear,
                RestoreMove, Verify, Launch, MutexWait, Cleanup
  <2>2. w'.at # "msiWait"
    <3>1. CASE Resolve \/ FetchFails \/ CloseApp \/ Repair \/ Restage
      BY <3>1 DEF Resolve, FetchFails, CloseApp, Repair, Restage, Goes, Ends
    <3>2. CASE Fetched \/ Staged \/ StageUnusable \/ StageFails
      <4>1. DownloadDone => w'.at \in {"idle", "closeApp"}  BY DEF DownloadDone
      <4>2. CASE Fetched
        <5>1. DownloadDone \/ w' = [w EXCEPT !.at = "stage", !.havePackage = TRUE, !.ret = "download"]
          BY <4>2 DEF Fetched
        <5>2. w' = [w EXCEPT !.at = "stage", !.havePackage = TRUE, !.ret = "download"] => w'.at = "stage"
          OBVIOUS
        <5> QED BY <4>1, <5>1, <5>2
      <4>3. CASE Staged  BY <4>1, <4>3 DEF Staged, AfterStage, Goes
      <4>4. CASE StageUnusable \/ StageFails  BY <4>4 DEF StageUnusable, StageFails, Ends
      <4> QED BY <3>2, <4>2, <4>3, <4>4
    <3>3. CASE ClearBackup \/ MoveOldAway \/ MoveNewIn \/ MoveOldBack
      BY <3>3 DEF ClearBackup, MoveOldAway, MoveNewIn, MoveOldBack, Goes, Ends
    <3>4. CASE RestoreClear \/ RestoreMove
      BY <3>4 DEF RestoreClear, RestoreMove, RestoreEnds, Goes, Ends
    <3>5. CASE Verify \/ Launch \/ MutexWait \/ Cleanup
      BY <3>5 DEF Verify, Launch, MutexWait, Cleanup, Goes, Ends
    <3> QED BY <1>3, <3>1, <3>2, <3>3, <3>4, <3>5 DEF Running
  <2> QED BY <2>1, <2>2
<1> QED BY <1>1, <1>2, <1>3

LEMMA TornKind ==
    ASSUME dir \in [Dirs -> Trees], dir' \in TornDirs
    PROVE  dir' \in [Dirs -> Trees]
<1> "install" \in Dirs /\ "staging" \in Dirs /\ "backup" \in Dirs  BY DEF Dirs
<1>1. \A n \in Dirs : Torn(n) \subseteq [Dirs -> Trees]
  BY TreeFacts DEF Torn
<1>2. {[dir EXCEPT !["staging"] = t] : t \in Remnants(Tree("new")) \cup {Gone}} \subseteq [Dirs -> Trees]
  BY TreeFacts
<1> QED BY <1>1, <1>2 DEF TornDirs

-----------------------------------------------------------------------------
(* KindInv and InFlightInv are inductive.                                    *)

LEMMA InitCall == Init => KindInv /\ InFlightInv
<1> SUFFICES ASSUME Init PROVE KindInv /\ InFlightInv
  OBVIOUS
<1>1. w \in Workers /\ w.at = "idle"  BY DEF Init, Workers, Ats
<1>2. cmd = NoCall /\ cmd \in Calls  BY DEF Init, Calls
<1>3. dir \in [Dirs -> Trees]  BY TreeFacts DEF Init
<1>4. sig = <<>> /\ sig \in Seq(Signals) /\ ~HasEnd(sig) /\ OneEnd(sig)  BY EmptyEnd DEF Init
<1>5. WindowOK(g) /\ g.inFlight = FALSE  BY IdleWindow DEF Init
<1>6. msi = "none"  BY DEF Init
<1> QED BY <1>1, <1>2, <1>3, <1>4, <1>5, <1>6 DEF KindInv, InFlightInv

\* A step of a running call.
LEMMA RunningCall ==
    ASSUME KindInv, InFlightInv, Running
    PROVE  KindInv' /\ InFlightInv'
<1>1. w.at # "idle" /\ proc # "dead" /\ UNCHANGED <<proc, cmd, g>>  BY RunningFrame
<1>2. Speaks /\ w' \in Workers  BY RunningSpeaks
<1>3. dir' \in [Dirs -> Trees]  BY RunningDirs DEF KindInv
<1>4. cmd = NoCall /\ g.inFlight /\ ~HasEnd(sig) /\ OneEnd(sig) /\ sig \in Seq(Signals)
  BY <1>1 DEF InFlightInv, KindInv
<1>5. CASE w'.at = "idle"
  <2>1. PICK t \in Seq(Signals) : Final(t) /\ sig' = sig \o t  BY <1>2, <1>5 DEF Speaks
  <2>2. sig' \in Seq(Signals) /\ HasEnd(sig') /\ OneEnd(sig')  BY <1>4, <2>1, ConcatEnd DEF Final
  <2>3. KindInv'  BY <1>1, <1>2, <1>3, <2>2, RunningMsi DEF KindInv
  <2> QED BY <1>1, <1>4, <1>5, <2>2, <2>3 DEF InFlightInv
<1>6. CASE w'.at # "idle"
  <2>1. PICK t \in Seq(Signals) : Quiet(t) /\ sig' = sig \o t  BY <1>2, <1>6 DEF Speaks
  <2>2. OneEnd(t)  BY <2>1 DEF Quiet, HasEnd, OneEnd
  <2>3. sig' \in Seq(Signals) /\ ~HasEnd(sig') /\ OneEnd(sig')  BY <1>4, <2>1, <2>2, ConcatEnd DEF Quiet
  <2>4. KindInv'  BY <1>1, <1>2, <1>3, <2>3, RunningMsi DEF KindInv
  <2> QED BY <1>1, <1>4, <1>6, <2>3, <2>4 DEF InFlightInv
<1> QED BY <1>5, <1>6

\* The worker takes the queued call.
LEMMA StartsCall ==
    ASSUME KindInv, InFlightInv, StartCall
    PROVE  KindInv' /\ InFlightInv'
<1>1. w.at = "idle" /\ proc # "dead" /\ cmd # NoCall /\ cmd' = NoCall /\ UNCHANGED <<proc, g, dir, msi>>
  BY DEF StartCall, At
<1>2. Speaks /\ w' \in Workers /\ w'.at # "msiWait"  BY StartSpeaks
<1>4. g.inFlight /\ ~HasEnd(sig) /\ OneEnd(sig) /\ sig \in Seq(Signals) /\ NoCall \in Calls
  BY <1>1 DEF InFlightInv, KindInv, Calls
<1>5. CASE w'.at = "idle"
  <2>1. PICK t \in Seq(Signals) : Final(t) /\ sig' = sig \o t  BY <1>2, <1>5 DEF Speaks
  <2>2. sig' \in Seq(Signals) /\ HasEnd(sig') /\ OneEnd(sig')  BY <1>4, <2>1, ConcatEnd DEF Final
  <2>3. KindInv'  BY <1>1, <1>2, <1>4, <2>2 DEF KindInv
  <2> QED BY <1>1, <1>4, <1>5, <2>2, <2>3 DEF InFlightInv
<1>6. CASE w'.at # "idle"
  <2>1. PICK t \in Seq(Signals) : Quiet(t) /\ sig' = sig \o t  BY <1>2, <1>6 DEF Speaks
  <2>2. OneEnd(t)  BY <2>1 DEF Quiet, HasEnd, OneEnd
  <2>3. sig' \in Seq(Signals) /\ ~HasEnd(sig') /\ OneEnd(sig')  BY <1>4, <2>1, <2>2, ConcatEnd DEF Quiet
  <2>4. KindInv'  BY <1>1, <1>2, <1>4, <2>3 DEF KindInv
  <2> QED BY <1>1, <1>4, <1>6, <2>3, <2>4 DEF InFlightInv
<1> QED BY <1>5, <1>6

\* The window handles one signal.
LEMMA DeliverCall ==
    ASSUME KindInv, InFlightInv, Deliver
    PROVE  KindInv' /\ InFlightInv'
<1>1. proc = "up" /\ sig # <<>> /\ sig' = Tail(sig) /\ g' = Handled(g, Head(sig))
      /\ UNCHANGED <<proc, cmd, w, dir, msi>>
  BY DEF Deliver
<1>2. sig \in Seq(Signals) /\ OneEnd(sig) /\ WindowOK(g)  BY DEF KindInv, InFlightInv
<1>3. /\ sig' \in Seq(Signals) /\ Head(sig) \in Signals /\ OneEnd(sig')
      /\ Head(sig).name \in Terminals => ~HasEnd(sig')
      /\ Head(sig).name \notin Terminals => (HasEnd(sig') <=> HasEnd(sig))
  BY <1>1, <1>2, TailEnd
<1>4. WindowOK(g') /\ g'.inFlight = IF Head(sig).name \in Terminals THEN FALSE ELSE g.inFlight
  BY <1>1, <1>2, <1>3, HandledWindow
<1>5. Head(sig).name \in Terminals => HasEnd(sig)
  BY <1>1, <1>2 DEF HasEnd
<1>6. KindInv'  BY <1>1, <1>3, <1>4 DEF KindInv
<1> QED BY <1>1, <1>3, <1>4, <1>5, <1>6 DEF InFlightInv

\* The window posts a call.
LEMMA PostCall ==
    ASSUME KindInv, InFlightInv, NEW c \in Calls \ {NoCall}, NEW r, WindowOK(r), Post(c, r)
    PROVE  KindInv' /\ InFlightInv'
<1>1. /\ proc = "up" /\ ~g.inFlight /\ cmd' = c /\ g' = [r EXCEPT !.inFlight = TRUE]
      /\ UNCHANGED <<proc, w, sig, dir, msi>>
  BY DEF Post
<1>2. WindowOK(g') /\ g'.inFlight = TRUE  BY <1>1, FlightWindow DEF WindowOK, Fields
<1>3. KindInv'  BY <1>1, <1>2 DEF KindInv
<1> QED BY <1>1, <1>2, <1>3 DEF InFlightInv

LEMMA WindowCall ==
    ASSUME KindInv, InFlightInv, Window
    PROVE  KindInv' /\ InFlightInv'
<1>0. /\ WindowOK(g) /\ WindowOK(Fresh(g)) /\ WindowOK([Fresh(g) EXCEPT !.target = FALSE])
      /\ Call("check", "none") \in Calls \ {NoCall} /\ Call("download", "none") \in Calls \ {NoCall}
      /\ \A e \in {"Download", "CloseApp", "Install"} : Call("run", e) \in Calls \ {NoCall}
  <2>1. WindowOK(g) /\ WindowOK(Fresh(g))  BY FreshWindow DEF KindInv
  <2>2. WindowOK([Fresh(g) EXCEPT !.target = FALSE])
    <3> DEFINE r == Fresh(g)
    <3>1. WindowOK(r)  BY <2>1
    <3> HIDE DEF r
    <3> WindowOK([r EXCEPT !.target = FALSE])  BY <3>1 DEF WindowOK, Fields
    <3> QED BY DEF r
  <2> QED BY <2>1, <2>2 DEF Calls, NoCall, Call
<1>1. CASE DoCheck  BY <1>0, <1>1, PostCall DEF DoCheck
<1>2. CASE DoDownload  BY <1>0, <1>2, PostCall DEF DoDownload
<1>3. CASE DoApply  BY <1>0, <1>3, PostCall DEF DoApply
<1>4. CASE DoRetry
  <2> DEFINE entry == RetryEntryStep(g.lastFailure)
             call == IF mode = "manual" /\ entry = "Download"
                     THEN IF g.target THEN Call("download", "none") ELSE Call("check", "none")
                     ELSE Call("run", entry)
  <2>1. g.lastFailure # "LaunchFailed"  BY <1>4 DEF DoRetry, KindInv, WindowOK
  <2>2. entry \in {"Download", "CloseApp", "Install"}  BY <2>1 DEF RetryEntryStep
  <2>3. Post(call, Fresh(g))  BY <1>4 DEF DoRetry
  <2> HIDE DEF entry
  <2>4. call \in Calls \ {NoCall}  BY <1>0, <2>2
  <2> HIDE DEF call
  <2> QED BY <1>0, <2>3, <2>4, PostCall
<1>5. CASE DoCancel \/ DoClose
  BY <1>5 DEF DoCancel, DoClose, KindInv, InFlightInv
<1>6. CASE Deliver  BY <1>6, DeliverCall
<1> QED BY <1>1, <1>2, <1>3, <1>4, <1>5, <1>6 DEF Window

\* The installer, the application, and the updater's process.
LEMMA OutsideCall ==
    ASSUME KindInv, InFlightInv, Outside
    PROVE  KindInv' /\ InFlightInv'
<1>0. dir \in [Dirs -> Trees] /\ w \in Workers  BY DEF KindInv
<1>d. ASSUME Dies, dir' \in [Dirs -> Trees], UNCHANGED msi
      PROVE  KindInv' /\ InFlightInv'
  <2>1. w' \in Workers /\ w'.at = "idle"  BY <1>0, <1>d DEF Dies, Workers, Ats
  <2>2. cmd' = NoCall /\ cmd' \in Calls  BY <1>d DEF Dies, Calls
  <2>3. sig' = <<>> /\ sig' \in Seq(Signals) /\ ~HasEnd(sig') /\ OneEnd(sig')  BY <1>d, EmptyEnd DEF Dies
  <2>4. WindowOK(g') /\ g'.inFlight = FALSE  BY <1>d, IdleWindow DEF Dies
  <2>5. KindInv'  BY <1>d, <2>1, <2>2, <2>3, <2>4 DEF KindInv
  <2> QED BY <2>1, <2>2, <2>3, <2>4, <2>5 DEF InFlightInv
<1>1. CASE MsiEnds
  <2>1. dir' \in [Dirs -> Trees]  BY <1>0, <1>1, TreeFacts DEF MsiEnds
  <2>2. UNCHANGED <<proc, cmd, w, sig, g>> /\ msi' \in {"ok", "reboot", "failed"}  BY <1>1 DEF MsiEnds
  <2> QED BY <2>1, <2>2 DEF KindInv, InFlightInv
<1>2. CASE AppExit \/ AppStart
  BY <1>2 DEF AppExit, AppStart, KindInv, InFlightInv
<1>3. CASE Killed  BY <1>0, <1>d, <1>3, TornKind DEF Killed
<1>4. CASE Exits  BY <1>0, <1>d, <1>4 DEF Exits
<1>5. CASE StartUpdater
  <2>1. proc = "dead" /\ proc' = "up" /\ UNCHANGED <<dir, msi, w, sig>>  BY <1>5 DEF StartUpdater
  <2>2. sig = <<>> /\ w.at = "idle" /\ ~HasEnd(sig)  BY <2>1, EmptyEnd DEF InFlightInv
  <2>3. CASE g' = Idle0 /\ cmd' = NoCall
    <3>1. KindInv'  BY <2>1, <2>3, IdleWindow DEF KindInv, Calls
    <3> QED BY <2>1, <2>2, <2>3, <3>1, IdleWindow DEF InFlightInv
  <2>4. CASE /\ g' = [SetPhase(Idle0, "Downloading") EXCEPT !.working = {"Download"},
                                                          !.inFlight = TRUE, !.target = TRUE]
             /\ cmd' = Call("run", "Download")
    <3> DEFINE r == SetPhase(Idle0, "Downloading")
    <3>1. WindowOK(r)  BY IdleWindow, PhaseSet
    <3>2. g' = [r EXCEPT !.working = {"Download"}, !.inFlight = TRUE, !.target = TRUE]  BY <2>4
    <3> HIDE DEF r
    <3>3. WindowOK(g') /\ g'.inFlight = TRUE  BY <3>1, <3>2 DEF WindowOK, Fields
    <3>4. cmd' \in Calls /\ cmd' # NoCall  BY <2>4 DEF Calls, NoCall, Call
    <3>5. KindInv'  BY <2>1, <3>3, <3>4 DEF KindInv
    <3> QED BY <2>1, <2>2, <3>3, <3>4, <3>5 DEF InFlightInv
  <2> QED BY <1>5, <2>3, <2>4 DEF StartUpdater
<1> QED BY <1>1, <1>2, <1>3, <1>4, <1>5 DEF Outside

LEMMA NextCall == KindInv /\ InFlightInv /\ [Next]_vars => KindInv' /\ InFlightInv'
<1> SUFFICES ASSUME KindInv, InFlightInv, [Next]_vars PROVE KindInv' /\ InFlightInv'
  OBVIOUS
<1>1. CASE UNCHANGED vars  BY <1>1 DEF vars, KindInv, InFlightInv
<1>2. CASE Worker  BY <1>2, RunningCall, StartsCall DEF Worker, Running
<1>3. CASE Window  BY <1>3, WindowCall
<1>4. CASE Outside  BY <1>4, OutsideCall
<1> QED BY <1>1, <1>2, <1>3, <1>4 DEF Next

\* Counting what InFlightInv tells apart.
LEMMA CountInFlight == KindInv /\ InFlightInv => OneCallInFlight
<1> SUFFICES ASSUME KindInv, InFlightInv PROVE OneCallInFlight
  OBVIOUS
<1> DEFINE ends == {i \in DOMAIN sig : sig[i].name \in Terminals}
<1>1. CASE HasEnd(sig)
  <2>1. PICK i \in DOMAIN sig : sig[i].name \in Terminals  BY <1>1 DEF HasEnd
  <2>2. ends = {i}  BY <2>1 DEF InFlightInv, OneEnd
  <2>3. Cardinality(ends) = 1  BY <2>2, FS_Singleton, Zenon
  <2>4. g.inFlight /\ cmd = NoCall /\ w.at = "idle"  BY <1>1 DEF InFlightInv
  <2> HIDE DEF ends
  <2> QED BY <2>3, <2>4 DEF OneCallInFlight, ends
<1>2. CASE ~HasEnd(sig)
  <2>1. ends = {}  BY <1>2 DEF HasEnd
  <2>2. Cardinality(ends) = 0  BY <2>1, FS_EmptySet, Zenon
  <2>3. g.inFlight \in BOOLEAN  BY DEF KindInv, WindowOK
  <2> HIDE DEF ends
  <2> QED BY <1>2, <2>2, <2>3 DEF OneCallInFlight, ends, InFlightInv
<1> QED BY <1>1, <1>2

\* Two worker calls never overlap and the window never waits for a call that is over: in_flight is
\* exactly right through refused posts, cancels, closes, kills and restarts (main.cpp, in_flight).
THEOREM FlightExact == Spec => []OneCallInFlight
BY InitCall, NextCall, CountInFlight, PTL DEF Spec

-----------------------------------------------------------------------------
(* The directories, until a door is opened: every tree is whole or gone, one *)
(* of install and backup is whole, and the position of the worker says which *)
(* one it may rely on.                                                       *)

Portable == imode = "portable"

DiskInv ==
    doors = {} =>
      /\ \A n \in Dirs : ~Exists(dir[n]) \/ Whole(dir[n])
      /\ Whole(dir["install"]) \/ Whole(dir["backup"])
      /\ w.at \in {"restage", "swap1", "swap2", "launch", "mutex", "cleanup"} => Whole(dir["install"])
      /\ w.at = "stage" /\ w.ret # "download" => Whole(dir["install"])
      /\ w.at \in {"swap3", "swap4", "restore", "restoreMove"} => Whole(dir["backup"])
      /\ w.at \in {"verify", "launch", "mutex"} /\ Portable => Whole(dir["backup"])
      /\ w.at \in {"launch", "mutex", "cleanup"} => dir["install"] = Tree("new")
      /\ w.at = "msiWait" => ~Portable

-----------------------------------------------------------------------------
LEMMA TreeWhole ==
    /\ \A t \in Trees : Whole(t) => Exists(t) /\ HasExe(t)
    /\ \A t \in Trees : HasExe(t) => Exists(t)
    /\ \A t \in Trees : Whole(t) /\ t.ver = "new" => t = Tree("new")
<1>1. \A t \in Trees : (Whole(t) => Exists(t) /\ HasExe(t)) /\ (HasExe(t) => Exists(t))
  BY DEF Whole, Exists, HasExe, Parts
<1>2. ASSUME NEW t \in Trees, Whole(t), t.ver = "new" PROVE t = Tree("new")
  BY <1>2 DEF Whole, Trees, Tree
<1> QED BY <1>1, <1>2

LEMMA RemovedDirs ==
    ASSUME dir \in [Dirs -> Trees], NEW n \in Dirs, RemoveGone(n)
    PROVE  dir'[n] = Gone /\ (\A k \in Dirs : k # n => dir'[k] = dir[k]) /\ doors' = doors
BY DEF RemoveGone

LEMMA RenamedDirs ==
    ASSUME dir \in [Dirs -> Trees], NEW a \in Dirs, NEW b \in Dirs, a # b, RenameOk(a, b)
    PROVE  /\ dir'[a] = Gone /\ dir'[b] = dir[a] /\ Exists(dir[a])
           /\ (\A k \in Dirs : k \notin {a, b} => dir'[k] = dir[k]) /\ doors' = doors
BY DEF RenameOk

\* A step that changes neither a directory nor the doors keeps what its new position asks for.
LEMMA SameDisk ==
    ASSUME DiskInv, UNCHANGED <<dir, imode>>, doors = {} \/ doors' # {},
           doors = {} =>
             /\ w'.at \in {"restage", "swap1", "swap2", "launch", "mutex", "cleanup"} => Whole(dir["install"])
             /\ w'.at = "stage" /\ w'.ret # "download" => Whole(dir["install"])
             /\ w'.at \in {"swap3", "swap4", "restore", "restoreMove"} => Whole(dir["backup"])
             /\ w'.at \in {"verify", "launch", "mutex"} /\ Portable => Whole(dir["backup"])
             /\ w'.at \in {"launch", "mutex", "cleanup"} => dir["install"] = Tree("new")
             /\ w'.at = "msiWait" => ~Portable
    PROVE  DiskInv'
BY DEF DiskInv, Portable

LEMMA RunningDisk ==
    ASSUME KindInv, DiskInv, Running
    PROVE  DiskInv'
<1> SUFFICES ASSUME doors' = {} PROVE DiskInv'
  BY DEF DiskInv
<1>w. w \in Workers /\ dir \in [Dirs -> Trees] /\ DOMAIN w = {"at", "havePackage", "haveRelease", "ret"}
  BY DEF KindInv, Workers
<1>i. "install" \in Dirs /\ "staging" \in Dirs /\ "backup" \in Dirs /\ Dirs = {"install", "staging", "backup"}
  BY DEF Dirs
<1>f. imode' = imode  BY RunningFrame
<1>t. /\ dir["install"] \in Trees /\ dir["backup"] \in Trees /\ dir["staging"] \in Trees
      /\ ~Exists(Gone) /\ Whole(Tree("new"))
  BY <1>w, <1>i, TreeFacts
<1>1. CASE Resolve \/ FetchFails
  <2>1. doors' = doors /\ dir' = dir /\ w'.at = "idle"
    BY <1>1, <1>w DEF Resolve, FetchFails, Ends
  <2> QED BY <2>1, <1>f, SameDisk
<1>d. DownloadDone => w'.at \in {"idle", "closeApp"}  BY <1>w DEF DownloadDone
<1>2. CASE Fetched
  <2>1. CASE DownloadDone
    <3>1. doors' = doors /\ dir' = dir /\ w'.at \in {"idle", "closeApp"}  BY <1>2, <1>d, <2>1 DEF Fetched
    <3> QED BY <3>1, <1>f, SameDisk
  <2>2. CASE w' = [w EXCEPT !.at = "stage", !.havePackage = TRUE, !.ret = "download"]
    <3>1. w'.at = "stage" /\ w'.ret = "download"  BY <1>w, <2>2
    <3>2. doors' = doors /\ dir' = dir  BY <1>2 DEF Fetched
    <3> QED BY <3>1, <3>2, <1>f, SameDisk
  <2> QED BY <1>2, <2>1, <2>2 DEF Fetched
<1>3. CASE Staged
  <2>1. /\ dir'["staging"] = Tree("new") /\ dir'["install"] = dir["install"] /\ dir'["backup"] = dir["backup"]
        /\ doors' = doors
    BY <1>3, <1>w, <1>i DEF Staged
  <2>2. CASE w.ret = "download"
    <3>1. w'.at \in {"idle", "closeApp"}  BY <1>3, <1>d, <2>2 DEF Staged, AfterStage
    <3> QED BY <2>1, <3>1, <1>i, <1>t DEF DiskInv
  <2>3. CASE w.ret # "download"
    <3>1. w'.at = "swap1" /\ w.at = "stage"  BY <1>3, <1>w, <2>3 DEF Staged, AfterStage, Goes, At
    <3> QED BY <2>1, <2>3, <3>1, <1>i, <1>t DEF DiskInv
  <2> QED BY <2>2, <2>3
<1>4. CASE StageUnusable \/ StageFails
  <2>1. w'.at = "idle" /\ dir' = [dir EXCEPT !["staging"] = Gone] /\ doors' = doors
    BY <1>4, <1>w DEF StageUnusable, StageFails, LeftInStaging, Ends
  <2>2. dir'["staging"] = Gone /\ dir'["install"] = dir["install"] /\ dir'["backup"] = dir["backup"]
    BY <2>1, <1>w, <1>i
  <2> QED BY <2>1, <2>2, <1>i, <1>t DEF DiskInv
<1>5. CASE CloseApp
  <2>1. doors' = doors /\ dir' = dir /\ w'.at \in {"idle", "install"}
    BY <1>5, <1>w DEF CloseApp, Goes, Ends
  <2> QED BY <2>1, <1>f, SameDisk
<1>6. CASE Repair
  <2>1. doors' = doors /\ dir' = dir  BY <1>6 DEF Repair
  <2>2. CASE HasExe(dir["install"]) \/ ~Exists(dir["backup"])
    <3>1. w'.at = "restage"  BY <1>6, <1>w, <2>2 DEF Repair, Goes
    <3>2. Whole(dir["install"])  BY <2>1, <2>2, <1>t, <1>i, TreeWhole DEF DiskInv
    <3> QED BY <2>1, <3>1, <3>2, <1>f, SameDisk
  <2>3. CASE ~(HasExe(dir["install"]) \/ ~Exists(dir["backup"]))
    <3>1. w'.at = "restore"  BY <1>6, <1>w, <2>3 DEF Repair
    <3>2. Whole(dir["backup"])  BY <2>1, <2>3, <1>t, <1>i, TreeWhole DEF DiskInv
    <3> QED BY <2>1, <3>1, <3>2, <1>f, SameDisk
  <2> QED BY <2>2, <2>3
<1>7. CASE Restage
  <2>1. doors' = doors /\ dir' = dir /\ w.at = "restage" /\ w'.at \in {"swap1", "stage"}
    BY <1>7, <1>w DEF Restage, Goes, At
  <2>2. Whole(dir["install"])  BY <2>1 DEF DiskInv
  <2> QED BY <2>1, <2>2, <1>f, SameDisk
<1>8. CASE ClearBackup
  <2>1. RemoveGone("backup") /\ w'.at = "swap2" /\ w.at = "swap1"
    BY <1>8, <1>w DEF ClearBackup, RemoveFails, Goes, At
  <2>2. dir'["backup"] = Gone /\ dir'["install"] = dir["install"] /\ dir'["staging"] = dir["staging"]
        /\ doors' = doors
    BY <2>1, <1>w, <1>i, RemovedDirs
  <2> QED BY <2>1, <2>2, <1>i, <1>t DEF DiskInv
<1>9. CASE MoveOldAway
  <2>1. w.at = "swap2"  BY <1>9 DEF MoveOldAway, At
  <2>2. CASE RenameOk("install", "backup") /\ Goes("swap3", <<>>)
    <3>1. dir'["install"] = Gone /\ dir'["backup"] = dir["install"] /\ dir'["staging"] = dir["staging"]
          /\ doors' = doors
      BY <2>2, <1>w, <1>i, RenamedDirs
    <3>2. w'.at = "swap3"  BY <2>2, <1>w DEF Goes
    <3> QED BY <2>1, <3>1, <3>2, <1>i, <1>t DEF DiskInv
  <2>3. CASE RenameFails("install", "backup") /\ UNCHANGED doors /\ Ends(<<Failed("InstallFailed")>>)
    <3>1. dir' = dir /\ w'.at = "idle"  BY <2>3, <1>w DEF RenameFails, Ends
    <3> QED BY <2>3, <3>1, <1>f, SameDisk
  <2> QED BY <1>9, <2>2, <2>3 DEF MoveOldAway
<1>10. CASE MoveNewIn
  <2>1. w.at = "swap3"  BY <1>10 DEF MoveNewIn, At
  <2>2. CASE RenameOk("staging", "install") /\ Goes("verify", <<Done("Install"), Started("Verify")>>)
    <3>1. dir'["staging"] = Gone /\ dir'["install"] = dir["staging"] /\ dir'["backup"] = dir["backup"]
          /\ doors' = doors
      BY <2>2, <1>w, <1>i, RenamedDirs
    <3>2. w'.at = "verify"  BY <2>2, <1>w DEF Goes
    <3> QED BY <2>1, <3>1, <3>2, <1>i, <1>t DEF DiskInv
  <2>3. CASE RenameFails("staging", "install") /\ UNCHANGED doors /\ Goes("swap4", <<>>)
    <3>1. dir' = dir /\ w'.at = "swap4"  BY <2>3, <1>w DEF RenameFails, Goes
    <3>2. Whole(dir["backup"])  BY <2>1, <2>3 DEF DiskInv
    <3> QED BY <2>3, <3>1, <3>2, <1>f, SameDisk
  <2> QED BY <1>10, <2>2, <2>3 DEF MoveNewIn
<1>11. CASE MoveOldBack
  <2>1. w.at = "swap4"  BY <1>11 DEF MoveOldBack, At
  <2>2. CASE RenameOk("backup", "install") /\ Ends(<<Failed("VerifyInstallFailed")>>)
    <3>1. dir'["backup"] = Gone /\ dir'["install"] = dir["backup"] /\ dir'["staging"] = dir["staging"]
          /\ doors' = doors
      BY <2>2, <1>w, <1>i, RenamedDirs
    <3>2. w'.at = "idle"  BY <2>2, <1>w DEF Ends
    <3> QED BY <2>1, <3>1, <3>2, <1>i, <1>t DEF DiskInv
  <2>3. CASE RenameFails("backup", "install") /\ UNCHANGED doors /\ Ends(<<Failed("RestoreFailed")>>)
    <3>1. dir' = dir /\ w'.at = "idle"  BY <2>3, <1>w DEF RenameFails, Ends
    <3> QED BY <2>3, <3>1, <1>f, SameDisk
  <2> QED BY <1>11, <2>2, <2>3 DEF MoveOldBack
<1>r. ASSUME NEW ok \in BOOLEAN, RestoreEnds(ok) PROVE w'.at \in {"restage", "idle"} /\ (w'.at = "restage" => w.ret = "repair")
  BY <1>r, <1>w DEF RestoreEnds, Goes, Ends
<1>12. CASE RestoreClear
  <2>1. w.at = "restore"  BY <1>12 DEF RestoreClear, At
  <2>2. CASE ~Exists(dir["backup"])
    <3>1. UNCHANGED doors  BY <1>12, <2>2 DEF RestoreClear
    <3> QED BY <2>1, <2>2, <3>1, <1>t, TreeWhole DEF DiskInv
  <2>3. CASE Exists(dir["backup"])
    <3>1. RemoveGone("install") /\ w'.at = "restoreMove"
      BY <1>12, <1>w, <2>3 DEF RestoreClear, RemoveFails, Goes
    <3>2. dir'["install"] = Gone /\ dir'["backup"] = dir["backup"] /\ dir'["staging"] = dir["staging"]
          /\ doors' = doors
      BY <3>1, <1>w, <1>i, RemovedDirs
    <3> QED BY <2>1, <3>1, <3>2, <1>i, <1>t DEF DiskInv
  <2> QED BY <2>2, <2>3
<1>13. CASE RestoreMove
  <2>1. w.at = "restoreMove"  BY <1>13 DEF RestoreMove, At
  <2>2. CASE RenameOk("backup", "install") /\ RestoreEnds(TRUE)
    <3>1. dir'["backup"] = Gone /\ dir'["install"] = dir["backup"] /\ dir'["staging"] = dir["staging"]
          /\ doors' = doors
      BY <2>2, <1>w, <1>i, RenamedDirs
    <3>2. w'.at \in {"restage", "idle"}  BY <2>2, <1>r
    <3> QED BY <2>1, <3>1, <3>2, <1>i, <1>t DEF DiskInv
  <2>3. CASE /\ RenameFails("backup", "install") /\ RestoreEnds(FALSE)
             /\ doors' = IF w.ret = "repair" THEN doors \cup {"repairIgnored"} ELSE doors
    <3>1. w.ret # "repair" /\ doors' = doors  BY <2>3
    <3>2. dir' = dir /\ w'.at = "idle"  BY <2>3, <3>1, <1>r DEF RenameFails
    <3> QED BY <3>1, <3>2, <1>f, SameDisk
  <2> QED BY <1>13, <2>2, <2>3 DEF RestoreMove
<1>14. CASE Elevate \/ MsiWait
  <2>1. doors' = doors /\ dir' = dir  BY <1>14 DEF Elevate, MsiWait
  <2>2. \/ w'.at = "idle"
        \/ w'.at = "msiWait" /\ imode = "msi"
        \/ w'.at = "verify" /\ w.at = "msiWait"
    BY <1>14, <1>w DEF Elevate, MsiWait, Goes, Ends, At, KindInv
  <2>3. w.at = "msiWait" => ~Portable  BY <2>1 DEF DiskInv
  <2> QED BY <2>1, <2>2, <2>3, <1>f, SameDisk DEF Portable
<1>15. CASE Verify
  <2>1. doors' = doors /\ dir' = dir /\ w.at = "verify"  BY <1>15 DEF Verify, At
  <2>2. Portable => Whole(dir["backup"])  BY <2>1 DEF DiskInv
  <2>3. CASE VerifiedVersion
    <3>1. w'.at = "launch"  BY <1>15, <1>w, <2>3 DEF Verify, Goes
    <3>2. Whole(dir["install"])  BY <2>1, <2>3, <1>t, <1>i, TreeWhole DEF DiskInv, VerifiedVersion
    <3>3. dir["install"] = Tree("new")  BY <2>3, <3>2, <1>t, TreeWhole DEF VerifiedVersion
    <3> QED BY <2>1, <2>2, <3>1, <3>2, <3>3, <1>f, SameDisk
  <2>4. CASE ~VerifiedVersion
    <3>1. (w'.at = "restore" /\ Portable) \/ w'.at = "idle"
      BY <1>15, <1>w, <2>4 DEF Verify, Ends, Portable
    <3> QED BY <2>1, <2>2, <3>1, <1>f, SameDisk
  <2> QED BY <2>3, <2>4
<1>16. CASE Launch
  <2>1. doors' = doors /\ dir' = dir /\ w.at = "launch" /\ w'.at \in {"idle", "mutex"}
    BY <1>16, <1>w DEF Launch, At, Goes, Ends
  <2>2. /\ Portable => Whole(dir["backup"])
        /\ Whole(dir["install"]) /\ dir["install"] = Tree("new")
    BY <2>1 DEF DiskInv
  <2> QED BY <2>1, <2>2, <1>f, SameDisk
<1>17. CASE MutexWait
  <2>1. doors' = doors /\ dir' = dir /\ w.at = "mutex"  BY <1>17 DEF MutexWait, At
  <2>2. w'.at \in {"cleanup", "idle"} \/ (w'.at = "restore" /\ Portable)
    BY <1>17, <1>w DEF MutexWait, Goes, Ends, Portable
  <2>3. /\ Portable => Whole(dir["backup"])
        /\ Whole(dir["install"]) /\ dir["install"] = Tree("new")
    BY <2>1 DEF DiskInv
  <2> QED BY <2>1, <2>2, <2>3, <1>f, SameDisk
<1>18. CASE Cleanup
  <2>1. w.at = "cleanup" /\ w'.at = "idle"  BY <1>18, <1>w DEF Cleanup, At, Ends
  <2>2. CASE RemoveGone("backup")
    <3>1. dir'["backup"] = Gone /\ dir'["install"] = dir["install"] /\ dir'["staging"] = dir["staging"]
          /\ doors' = doors
      BY <2>2, <1>w, <1>i, RemovedDirs
    <3> QED BY <2>1, <3>1, <1>i, <1>t DEF DiskInv
  <2>3. CASE UNCHANGED <<dir, budget, doors>>
    BY <2>1, <2>3, <1>f, SameDisk
  <2> QED BY <1>18, <2>2, <2>3 DEF Cleanup, RemoveFails
<1> QED BY <1>1, <1>2, <1>3, <1>4, <1>5, <1>6, <1>7, <1>8, <1>9, <1>10, <1>11, <1>12, <1>13, <1>14, <1>15,
           <1>16, <1>17, <1>18 DEF Running

LEMMA InitDisk == Init => DiskInv
<1> SUFFICES ASSUME Init PROVE DiskInv
  OBVIOUS
<1>1. dir["install"] = Tree("old") /\ dir["staging"] = Gone /\ dir["backup"] = Gone /\ w.at = "idle"
  BY DEF Init, Dirs
<1> QED BY <1>1, TreeFacts DEF DiskInv, Dirs

\* Outside the running call: a new call relies on nothing, a kill tears or leaves alone.
LEMMA RestDisk ==
    ASSUME KindInv, DiskInv, StartCall \/ Window \/ Outside
    PROVE  DiskInv'
<1>1. CASE StartCall
  <2>1. UNCHANGED <<dir, imode, doors>>  BY <1>1 DEF StartCall, fixed
  <2>2. w'.at \in {"idle", "resolve", "fetch", "closeApp", "install"}  BY <1>1, StartSpeaks
  <2> QED BY <2>1, <2>2, SameDisk
<1>2. CASE Window
  <2>1. UNCHANGED <<dir, imode, doors, w>>
    BY <1>2 DEF Window, DoCheck, DoDownload, DoApply, DoRetry, DoCancel, DoClose, Deliver, Post, fixed
  <2> QED BY <2>1 DEF DiskInv, Portable
<1>3. CASE MsiEnds
  <2>1. UNCHANGED <<imode, doors, w>>  BY <1>3 DEF MsiEnds, fixed
  <2>2. CASE dir' = [dir EXCEPT !["install"] = Tree("new")]
    <3>1. dir'["install"] = Tree("new") /\ dir'["staging"] = dir["staging"] /\ dir'["backup"] = dir["backup"]
      BY <2>2 DEF KindInv, Dirs
    <3> QED BY <2>1, <3>1, TreeFacts DEF DiskInv, Dirs, Portable
  <2>3. CASE UNCHANGED dir  BY <2>1, <2>3 DEF DiskInv, Portable
  <2> QED BY <1>3, <2>2, <2>3 DEF MsiEnds
<1>4. CASE AppExit \/ AppStart
  <2>1. UNCHANGED <<dir, imode, doors, w>>  BY <1>4 DEF AppExit, AppStart, fixed
  <2> QED BY <2>1 DEF DiskInv, Portable
<1>d. Dies => w'.at = "idle"  BY DEF Dies, KindInv, Workers
<1>5. CASE Killed
  <2>1. imode' = imode /\ w'.at = "idle"  BY <1>5, <1>d DEF Killed, fixed
  <2>2. CASE dir' = dir
    <3>1. doors' = doors  BY <1>5, <2>2 DEF Killed
    <3> QED BY <2>1, <2>2, <3>1, SameDisk
  <2>3. CASE dir' # dir
    <3>1. doors' # {}  BY <1>5, <2>3 DEF Killed
    <3> QED BY <3>1 DEF DiskInv
  <2> QED BY <2>2, <2>3
<1>6. CASE Exits
  <2>1. UNCHANGED <<dir, imode, doors>> /\ w'.at = "idle"  BY <1>6, <1>d DEF Exits, fixed
  <2> QED BY <2>1, SameDisk
<1>7. CASE StartUpdater
  <2>1. UNCHANGED <<dir, imode, doors, w>>  BY <1>7 DEF StartUpdater
  <2> QED BY <2>1 DEF DiskInv, Portable
<1> QED BY <1>1, <1>2, <1>3, <1>4, <1>5, <1>6, <1>7 DEF Outside

LEMMA NextDisk == KindInv /\ DiskInv /\ [Next]_vars => DiskInv'
<1> SUFFICES ASSUME KindInv, DiskInv, [Next]_vars PROVE DiskInv'
  OBVIOUS
<1>1. CASE UNCHANGED vars  BY <1>1 DEF vars, DiskInv, Portable
<1>2. CASE Worker  BY <1>2, RunningDisk, RestDisk DEF Worker, Running
<1>3. CASE Window \/ Outside  BY <1>3, RestDisk
<1> QED BY <1>1, <1>2, <1>3 DEF Next

\* "A failed swap must always leave a runnable install behind" (swap_engine.h): between any two file
\* operations, after any failed rename and after a kill at any point, until a door is opened.
THEOREM TreeSurvives == Spec => []SomeTreeWhole
<1>1. DiskInv => SomeTreeWhole  BY DEF DiskInv, SomeTreeWhole
<1> QED BY InitCall, NextCall, InitDisk, NextDisk, <1>1, PTL DEF Spec

-----------------------------------------------------------------------------
(* What is published is true of the disk.  A terminal signal carries a claim *)
(* that holds when it is emitted and that nothing undoes before the window   *)
(* handles it, nor after: the worker is idle until then, and the only other  *)
(* writer, a late msiexec, leaves a whole new tree.                          *)

\* Of an installation i, a backup b and the installation x the call found.
Claimed(m, i, b, x) ==
    /\ m.name = "allDone" => i = Tree("new")
    /\ m.name = "cancelled" => Whole(i) \/ i = x
    /\ m.name = "failed" =>
         /\ m.arg = "RestoreFailed" => Whole(b)
         /\ m.arg \notin {"RestoreFailed", "VerifyInstallFailedMsi"} => Whole(i) \/ i = x

\* The installation a call has not touched yet: whole, or as the call found it.
Fine == Whole(dir["install"]) \/ dir["install"] = was
FineInv ==
    /\ w.at \in {"resolve", "fetch", "closeApp", "install", "msiWait"} => Fine
    /\ w.at = "stage" /\ w.ret = "download" => Fine

Outcomes == {"Failed", "RestartPending", "RebootRequired", "Cancelled", "Completed"}

\* A call that never reached the installation may have found it damaged; it does not speak of a backup.
Published == Truthful \/ (dir["install"] = was /\ g.installState # "StrandedInBackup")

ClaimInv ==
    /\ g.phase \in Outcomes => ~g.inFlight
    /\ doors = {} =>
         /\ g.phase \in Outcomes => Published
         /\ \A k \in DOMAIN sig : Claimed(sig[k], dir["install"], dir["backup"], was)
         /\ FineInv

\* A step adds only signals whose claims hold of the disk it leaves.
SaysTruth ==
    \E t \in Seq(Signals) :
       /\ sig' = sig \o t
       /\ \A k \in DOMAIN t : Claimed(t[k], dir'["install"], dir'["backup"], was')

LEMMA QuietClaim == \A m \in Signals : \A i, b, x : m.name \notin Terminals => Claimed(m, i, b, x)
BY DEF Claimed, Terminals

LEMMA QuietTruth ==
    ASSUME Speaks, w'.at # "idle"
    PROVE  SaysTruth
<1>1. PICK t \in Seq(Signals) : Quiet(t) /\ sig' = sig \o t  BY DEF Speaks
<1>2. \A k \in DOMAIN t : t[k] \in Signals /\ t[k].name \notin Terminals  BY <1>1 DEF Quiet, HasEnd
<1>3. \A k \in DOMAIN t : Claimed(t[k], dir'["install"], dir'["backup"], was')  BY <1>2, QuietClaim
<1> QED BY <1>1, <1>3 DEF SaysTruth

LEMMA OneTruth ==
    ASSUME NEW m \in Signals, Emit(<<m>>), Claimed(m, dir'["install"], dir'["backup"], was')
    PROVE  SaysTruth
<1>1. <<m>> \in Seq(Signals) /\ DOMAIN <<m>> = {1} /\ <<m>>[1] = m  OBVIOUS
<1>2. \A k \in DOMAIN <<m>> : Claimed(<<m>>[k], dir'["install"], dir'["backup"], was')  BY <1>1
<1> QED BY <1>1, <1>2 DEF SaysTruth, Emit

LEMMA TwoTruth ==
    ASSUME NEW a \in Quiets, NEW m \in Signals, Emit(<<a, m>>),
           Claimed(m, dir'["install"], dir'["backup"], was')
    PROVE  SaysTruth
<1>1. /\ <<a, m>> \in Seq(Signals) /\ DOMAIN <<a, m>> = {1, 2} /\ <<a, m>>[1] = a /\ <<a, m>>[2] = m
  BY DEF Quiets
<1>2. Claimed(a, dir'["install"], dir'["backup"], was')  BY QuietClaim DEF Quiets
<1>3. \A k \in DOMAIN <<a, m>> : Claimed(<<a, m>>[k], dir'["install"], dir'["backup"], was')  BY <1>1, <1>2
<1> QED BY <1>1, <1>3 DEF SaysTruth, Emit

LEMMA FailedTruth ==
    ASSUME NEW c \in FailureCases, Emit(<<Failed(c)>>),
           c = "RestoreFailed" => Whole(dir'["backup"]),
           c \notin {"RestoreFailed", "VerifyInstallFailedMsi"} => Fine'
    PROVE  SaysTruth
<1>1. Failed(c) \in Signals  BY SignalKinds DEF Finals
<1>2. Failed(c).name = "failed" /\ Failed(c).arg = c  BY DEF Failed, Signal
<1>3. Claimed(Failed(c), dir'["install"], dir'["backup"], was')  BY <1>2 DEF Claimed, Fine
<1> QED BY <1>1, <1>3, OneTruth

\* Terminal signals that claim nothing of the disk.
LEMMA PlainTruth ==
    ASSUME NEW n \in {"upToDate", "updateAvailable", "readyToApply"}
    PROVE  /\ Emit(<<Plain(n)>>) => SaysTruth
           /\ \A s \in StepNames : Emit(<<Done(s), Plain(n)>>) => SaysTruth
<1>1. Plain(n) \in Signals /\ Plain(n).name = n
  BY SignalKinds DEF Finals, Terminals, Plain, Signal
<1>2. Claimed(Plain(n), dir'["install"], dir'["backup"], was')  BY <1>1 DEF Claimed
<1>3. \A s \in StepNames : Done(s) \in Quiets  BY SignalKinds
<1> QED BY <1>1, <1>2, <1>3, OneTruth, TwoTruth

LEMMA CancelledTruth ==
    ASSUME Emit(<<Plain("cancelled")>>), Fine'
    PROVE  SaysTruth
<1>1. Plain("cancelled") \in Signals /\ Plain("cancelled").name = "cancelled"
  BY SignalKinds DEF Finals, Terminals, Plain, Signal
<1>2. Claimed(Plain("cancelled"), dir'["install"], dir'["backup"], was')  BY <1>1 DEF Claimed, Fine
<1> QED BY <1>1, <1>2, OneTruth

LEMMA AllDoneTruth ==
    ASSUME NEW s \in StepNames, Emit(<<Done(s), Plain("allDone")>>), dir'["install"] = Tree("new")
    PROVE  SaysTruth
<1>1. Plain("allDone") \in Signals /\ Plain("allDone").name = "allDone"
  BY SignalKinds DEF Finals, Terminals, Plain, Signal
<1>2. Claimed(Plain("allDone"), dir'["install"], dir'["backup"], was')  BY <1>1 DEF Claimed
<1>3. Done(s) \in Quiets  BY SignalKinds
<1> QED BY <1>1, <1>2, <1>3, TwoTruth


LEMMA RunningTruth ==
    ASSUME KindInv, DiskInv, FineInv, Running, doors = {}, doors' = {}
    PROVE  SaysTruth /\ FineInv'
<1>w. w \in Workers /\ dir \in [Dirs -> Trees] /\ DOMAIN w = {"at", "havePackage", "haveRelease", "ret"}
  BY DEF KindInv, Workers
<1>i. "install" \in Dirs /\ "staging" \in Dirs /\ "backup" \in Dirs  BY DEF Dirs
<1>f. was' = was  BY RunningFrame
<1>s. Speaks  BY RunningSpeaks
<1>c. FailureCases = {"DownloadFailed", "VerifyDownloadFailed", "TargetVersionMismatch", "HandoffRejected",
     "AppWontClose", "InstallFailed", "VerifyInstallFailed", "RestoreFailed",
     "VerifyInstallFailedMsi", "LaunchFailed", "UacDeclined", "MsiFailed", "MsiRebootRequired"}
  BY DEF FailureCases
<1>n. ASSUME dir'["install"] = dir["install"], Fine PROVE Fine'
  BY <1>f, <1>n DEF Fine
<1>e. ASSUME w'.at = "idle" PROVE FineInv'
  BY <1>e DEF FineInv
<1>g. ASSUME w'.at \notin {"idle", "resolve", "fetch", "closeApp", "install", "msiWait", "stage"}
      PROVE  SaysTruth /\ FineInv'
  BY <1>g, <1>s, QuietTruth DEF FineInv
<1>a. \A t : Ends(t) => w'.at = "idle" /\ Emit(t)  BY <1>w DEF Ends
<1>b. \A p, t : Goes(p, t) => w'.at = p  BY <1>w DEF Goes
<1>d. ASSUME DownloadDone, Fine' PROVE SaysTruth /\ FineInv'
  <2>1. CASE mode = "manual"
    <3>1. w'.at = "idle" /\ Emit(<<Done("Download"), Plain("readyToApply")>>)
      BY <1>d, <1>w, <2>1 DEF DownloadDone
    <3> QED BY <3>1, <1>e, PlainTruth DEF StepNames
  <2>2. CASE mode # "manual"
    <3>1. w'.at = "closeApp"  BY <1>d, <1>w, <2>2 DEF DownloadDone
    <3> QED BY <1>d, <1>s, <3>1, QuietTruth DEF FineInv
  <2> QED BY <2>1, <2>2
<1>1. CASE Resolve
  <2>1. dir' = dir /\ Fine /\ w'.at = "idle"  BY <1>1, <1>w DEF Resolve, Ends, FineInv, At
  <2>2. Fine'  BY <2>1, <1>n
  <2>3. \/ Emit(<<Failed("DownloadFailed")>>) \/ Emit(<<Plain("upToDate")>>)
        \/ Emit(<<Plain("updateAvailable")>>)
    BY <1>1 DEF Resolve, Ends
  <2> QED BY <2>1, <2>2, <2>3, <1>c, <1>e, FailedTruth, PlainTruth
<1>2. CASE FetchFails
  <2>1. dir' = dir /\ Fine /\ w'.at = "idle"  BY <1>2, <1>w DEF FetchFails, Ends, FineInv, At
  <2>2. Fine'  BY <2>1, <1>n
  <2>3. \/ Emit(<<Plain("cancelled")>>)
        \/ \E c \in {"HandoffRejected", "VerifyDownloadFailed", "TargetVersionMismatch", "DownloadFailed"} :
             Emit(<<Failed(c)>>)
    BY <1>2 DEF FetchFails, Ends, Gates
  <2> QED BY <2>1, <2>2, <2>3, <1>c, <1>e, FailedTruth, CancelledTruth
<1>3. CASE Fetched
  <2>1. dir' = dir /\ Fine  BY <1>3, <1>w DEF Fetched, FineInv, At
  <2>2. Fine'  BY <2>1, <1>n
  <2>3. CASE DownloadDone  BY <2>2, <2>3, <1>d
  <2>4. CASE w' = [w EXCEPT !.at = "stage", !.havePackage = TRUE, !.ret = "download"]
    <3>1. w'.at = "stage"  BY <1>w, <2>4
    <3> QED BY <2>2, <3>1, <1>s, QuietTruth DEF FineInv
  <2> QED BY <1>3, <2>3, <2>4 DEF Fetched
<1>4. CASE Staged
  <2>1. dir'["install"] = dir["install"] /\ w.at = "stage"  BY <1>4, <1>w, <1>i DEF Staged, At
  <2>2. CASE w.ret = "download"
    <3>1. Fine'  BY <2>1, <2>2, <1>n DEF FineInv
    <3> QED BY <1>4, <1>d, <2>2, <3>1 DEF Staged, AfterStage
  <2>3. CASE w.ret # "download"
    <3>1. w'.at = "swap1"  BY <1>4, <1>b, <2>3 DEF Staged, AfterStage
    <3> QED BY <1>g, <3>1
  <2> QED BY <2>2, <2>3
<1>5. CASE StageUnusable \/ StageFails
  <2>1. w.at = "stage" /\ w'.at = "idle" /\ dir'["install"] = dir["install"]
    BY <1>5, <1>w, <1>i DEF StageUnusable, StageFails, LeftInStaging, At, Ends
  <2>2. Fine  BY <2>1 DEF FineInv, DiskInv, Fine
  <2>3. Fine'  BY <2>1, <2>2, <1>n
  <2>4. Emit(<<Failed("DownloadFailed")>>) \/ Emit(<<Failed("InstallFailed")>>)
    BY <1>5 DEF StageUnusable, StageFails, Ends
  <2> QED BY <2>1, <2>3, <2>4, <1>c, <1>e, FailedTruth
<1>6. CASE CloseApp
  <2>1. dir' = dir /\ Fine  BY <1>6 DEF CloseApp, FineInv, At
  <2>2. Fine'  BY <2>1, <1>n
  <2>3. CASE Ends(<<Failed("AppWontClose")>>)  BY <2>2, <2>3, <1>a, <1>c, <1>e, FailedTruth
  <2>4. CASE Goes("install", <<Done("CloseApp"), Started("Install")>>)
    <3>1. w'.at = "install"  BY <2>4, <1>b
    <3> QED BY <2>2, <3>1, <1>s, QuietTruth DEF FineInv
  <2> QED BY <1>6, <2>3, <2>4 DEF CloseApp
<1>7. CASE Repair
  <2>1. w'.at \in {"restage", "restore"}  BY <1>7, <1>w DEF Repair, Goes
  <2> QED BY <2>1, <1>g
<1>8. CASE Restage
  <2>1. w'.at = "swap1" \/ (w'.at = "stage" /\ w'.ret = "install")  BY <1>8, <1>w DEF Restage, Goes
  <2> QED BY <2>1, <1>s, QuietTruth DEF FineInv
<1>9. CASE ClearBackup
  <2>1. w'.at = "swap2"  BY <1>9, <1>b DEF ClearBackup, RemoveFails
  <2> QED BY <2>1, <1>g
<1>10. CASE MoveOldAway
  <2>1. CASE Goes("swap3", <<>>)  BY <2>1, <1>b, <1>g
  <2>2. CASE RenameFails("install", "backup") /\ Ends(<<Failed("InstallFailed")>>)
    <3>1. dir' = dir /\ Fine  BY <1>10, <2>2 DEF MoveOldAway, At, RenameFails, DiskInv, Fine
    <3> QED BY <2>2, <3>1, <1>n, <1>a, <1>c, <1>e, FailedTruth
  <2> QED BY <1>10, <2>1, <2>2 DEF MoveOldAway
<1>11. CASE MoveNewIn
  <2>1. w'.at \in {"verify", "swap4"}  BY <1>11, <1>b DEF MoveNewIn
  <2> QED BY <2>1, <1>g
<1>12. CASE MoveOldBack
  <2>0. Whole(dir["backup"])  BY <1>12 DEF MoveOldBack, At, DiskInv
  <2>1. CASE RenameOk("backup", "install") /\ Ends(<<Failed("VerifyInstallFailed")>>)
    <3>1. dir'["install"] = dir["backup"]  BY <2>1, <1>w, <1>i, RenamedDirs
    <3>2. Fine'  BY <2>0, <3>1 DEF Fine
    <3> QED BY <2>1, <3>2, <1>a, <1>c, <1>e, FailedTruth
  <2>2. CASE RenameFails("backup", "install") /\ Ends(<<Failed("RestoreFailed")>>)
    <3>1. Whole(dir'["backup"])  BY <2>0, <2>2 DEF RenameFails
    <3> QED BY <2>2, <3>1, <1>a, <1>c, <1>e, FailedTruth
  <2> QED BY <1>12, <2>1, <2>2 DEF MoveOldBack
<1>13. CASE RestoreClear
  <2>1. Whole(dir["backup"]) /\ Exists(dir["backup"])
    BY <1>13, <1>w, <1>i, TreeWhole DEF RestoreClear, At, DiskInv
  <2>2. w'.at = "restoreMove"  BY <1>13, <2>1, <1>b DEF RestoreClear, RemoveFails
  <2> QED BY <2>2, <1>g
<1>14. CASE RestoreMove
  <2>0. Whole(dir["backup"])  BY <1>14 DEF RestoreMove, At, DiskInv
  <2>1. CASE w.ret = "repair"
    <3>1. w'.at = "restage"  BY <1>14, <1>b, <2>1 DEF RestoreMove, RestoreEnds
    <3> QED BY <3>1, <1>g
  <2>2. CASE w.ret # "repair" /\ RenameOk("backup", "install") /\ RestoreEnds(TRUE)
    <3>1. dir'["install"] = dir["backup"]  BY <2>2, <1>w, <1>i, RenamedDirs
    <3>2. Fine'  BY <2>0, <3>1 DEF Fine
    <3>3. Ends(<<Failed("VerifyInstallFailed")>>)  BY <2>2 DEF RestoreEnds
    <3> QED BY <3>2, <3>3, <1>a, <1>c, <1>e, FailedTruth
  <2>3. CASE w.ret # "repair" /\ RenameFails("backup", "install") /\ RestoreEnds(FALSE)
    <3>1. Whole(dir'["backup"])  BY <2>0, <2>3 DEF RenameFails
    <3>2. Ends(<<Failed("RestoreFailed")>>)  BY <2>3 DEF RestoreEnds
    <3> QED BY <3>1, <3>2, <1>a, <1>c, <1>e, FailedTruth
  <2> QED BY <1>14, <2>1, <2>2, <2>3 DEF RestoreMove
<1>15. CASE Elevate
  <2>1. dir' = dir /\ Fine  BY <1>15 DEF Elevate, FineInv, At
  <2>2. Fine'  BY <2>1, <1>n
  <2>3. CASE Ends(<<Failed("UacDeclined")>>) \/ Ends(<<Failed("MsiFailed")>>)
    BY <2>2, <2>3, <1>a, <1>c, <1>e, FailedTruth
  <2>4. CASE Goes("msiWait", <<>>)
    <3>1. w'.at = "msiWait"  BY <2>4, <1>b
    <3> QED BY <2>2, <3>1, <1>s, QuietTruth DEF FineInv
  <2> QED BY <1>15, <2>3, <2>4 DEF Elevate
<1>16. CASE MsiWait
  <2>1. dir' = dir /\ Fine  BY <1>16 DEF MsiWait, FineInv, At
  <2>2. Fine'  BY <2>1, <1>n
  <2>3. CASE Ends(<<Failed("MsiRebootRequired")>>) \/ Ends(<<Failed("MsiFailed")>>)
    BY <2>2, <2>3, <1>a, <1>c, <1>e, FailedTruth
  <2>4. CASE Ends(<<Plain("cancelled")>>)
    BY <2>2, <2>4, <1>a, <1>e, CancelledTruth
  <2>5. CASE Goes("verify", <<Done("Install"), Started("Verify")>>)
    BY <2>5, <1>b, <1>g
  <2>6. msi = "running" \/ msi \in {"ok", "reboot", "failed"}  BY <1>16 DEF MsiWait, At, KindInv
  <2> QED BY <1>16, <2>3, <2>4, <2>5, <2>6 DEF MsiWait
<1>17. CASE Verify
  <2>1. CASE Ends(<<Failed("VerifyInstallFailedMsi")>>)
    BY <2>1, <1>a, <1>c, <1>e, FailedTruth
  <2>2. CASE w'.at \in {"launch", "restore"}  BY <2>2, <1>g
  <2>3. \/ Ends(<<Failed("VerifyInstallFailedMsi")>>) \/ w'.at \in {"launch", "restore"}
    BY <1>17, <1>w DEF Verify, Goes
  <2> QED BY <2>1, <2>2, <2>3
<1>18. CASE Launch
  <2>1. dir' = dir /\ Fine  BY <1>18 DEF Launch, At, DiskInv, Fine
  <2>2. Fine'  BY <2>1, <1>n
  <2>3. CASE Ends(<<Failed("LaunchFailed")>>)  BY <2>2, <2>3, <1>a, <1>c, <1>e, FailedTruth
  <2>4. CASE Goes("mutex", <<>>)  BY <2>4, <1>b, <1>g
  <2> QED BY <1>18, <2>3, <2>4 DEF Launch
<1>19. CASE MutexWait
  <2>1. dir' = dir /\ Fine  BY <1>19 DEF MutexWait, At, DiskInv, Fine
  <2>2. Fine'  BY <2>1, <1>n
  <2>3. CASE Ends(<<Failed("LaunchFailed")>>)  BY <2>2, <2>3, <1>a, <1>c, <1>e, FailedTruth
  <2>4. CASE w'.at \in {"cleanup", "restore"}  BY <2>4, <1>g
  <2>5. \/ Ends(<<Failed("LaunchFailed")>>) \/ w'.at \in {"cleanup", "restore"}
    BY <1>19, <1>w DEF MutexWait, Goes
  <2> QED BY <2>3, <2>4, <2>5
<1>20. CASE Cleanup
  <2>1. dir["install"] = Tree("new")  BY <1>20 DEF Cleanup, At, DiskInv
  <2>2. Ends(<<Done("Launch"), Plain("allDone")>>)  BY <1>20 DEF Cleanup
  <2>3. dir'["install"] = dir["install"]
    <3>1. CASE RemoveGone("backup")  BY <3>1, <1>w, <1>i, RemovedDirs
    <3>2. CASE UNCHANGED dir  BY <3>2
    <3> QED BY <1>20, <3>1, <3>2 DEF Cleanup, RemoveFails
  <2>4. "Launch" \in StepNames  BY DEF StepNames
  <2> QED BY <2>1, <2>2, <2>3, <2>4, <1>a, <1>e, AllDoneTruth
<1> QED BY <1>1, <1>2, <1>3, <1>4, <1>5, <1>6, <1>7, <1>8, <1>9, <1>10, <1>11, <1>12, <1>13, <1>14, <1>15,
           <1>16, <1>17, <1>18, <1>19, <1>20 DEF Running

\* While nothing terminal is queued, the queue as a whole claims what was just added to it.
LEMMA AddedClaims ==
    ASSUME sig \in Seq(Signals), ~HasEnd(sig), SaysTruth
    PROVE  \A k \in DOMAIN sig' : Claimed(sig'[k], dir'["install"], dir'["backup"], was')
<1>1. PICK t \in Seq(Signals) : /\ sig' = sig \o t
                                /\ \A k \in DOMAIN t : Claimed(t[k], dir'["install"], dir'["backup"], was')
  BY DEF SaysTruth
<1>2. \A k \in DOMAIN sig : sig[k] \in Signals /\ sig[k].name \notin Terminals
  BY DEF HasEnd
<1>3. ASSUME NEW k \in DOMAIN sig'
      PROVE  \/ k \in DOMAIN sig /\ sig'[k] = sig[k]
             \/ k - Len(sig) \in DOMAIN t /\ sig'[k] = t[k - Len(sig)]
  BY <1>1
<1> QED BY <1>1, <1>2, <1>3, QuietClaim

LEMMA WorkerClaim ==
    ASSUME KindInv, InFlightInv, DiskInv, ClaimInv, Worker
    PROVE  ClaimInv'
<1>1. CASE Running
  <2>1. w.at # "idle" /\ UNCHANGED <<g, was>>  BY <1>1, RunningFrame
  <2>2. sig \in Seq(Signals) /\ ~HasEnd(sig) /\ g.inFlight  BY <2>1 DEF InFlightInv, KindInv
  <2>3. g'.phase \notin Outcomes  BY <2>1, <2>2 DEF ClaimInv
  <2>4. ASSUME doors' = {}
        PROVE  FineInv' /\ \A k \in DOMAIN sig' : Claimed(sig'[k], dir'["install"], dir'["backup"], was')
    <3>1. doors = {}
      BY <1>1, <2>4 DEF Running, Resolve, FetchFails, Fetched, Staged, StageUnusable, StageFails, CloseApp,
                Repair, Restage, ClearBackup, MoveOldAway, MoveNewIn, MoveOldBack, RestoreClear,
                RestoreMove, Elevate, MsiWait, Verify, Launch, MutexWait, Cleanup, LeftInStaging, RemoveGone,
                RemoveFails, RenameOk, RenameFails
    <3>2. SaysTruth /\ FineInv'  BY <1>1, <2>4, <3>1, RunningTruth DEF ClaimInv
    <3> QED BY <2>2, <3>2, AddedClaims
  <2> QED BY <2>3, <2>4 DEF ClaimInv
<1>2. CASE StartCall
  <2>1. cmd # NoCall /\ UNCHANGED <<g, dir, doors>> /\ was' = dir["install"]  BY <1>2 DEF StartCall
  <2>2. sig \in Seq(Signals) /\ ~HasEnd(sig) /\ g.inFlight  BY <2>1 DEF InFlightInv, KindInv
  <2>3. g'.phase \notin Outcomes  BY <2>1, <2>2 DEF ClaimInv
  <2>4. Fine' /\ FineInv'  BY <2>1 DEF Fine, FineInv
  <2>5. SaysTruth
    <3>1. Speaks /\ w' \in Workers  BY <1>2, StartSpeaks
    <3>2. CASE w'.at # "idle"  BY <3>1, <3>2, QuietTruth
    <3>3. CASE w'.at = "idle"
      <4>1. DOMAIN w = {"at", "havePackage", "haveRelease", "ret"} /\ cmd \in Calls
        BY DEF KindInv, Workers
      <4>2. cmd.op \in {"check", "download", "run"} /\ (cmd.op = "run" => cmd.entry \in {"Download", "CloseApp", "Install"})
        BY <2>1, <4>1 DEF Calls, NoCall, Call
      <4>3. \A e \in {"Download", "CloseApp", "Install"} : EntryAt(e) # "idle"  BY DEF EntryAt
      <4>4. Emit(<<Failed("DownloadFailed")>>)
        BY <1>2, <3>3, <4>1, <4>2, <4>3 DEF StartCall, Goes, Ends
      <4> QED BY <2>4, <4>4, FailedTruth DEF FailureCases
    <3> QED BY <3>2, <3>3
  <2>6. \A k \in DOMAIN sig' : Claimed(sig'[k], dir'["install"], dir'["backup"], was')
    BY <2>2, <2>5, AddedClaims
  <2> QED BY <2>3, <2>4, <2>6 DEF ClaimInv
<1> QED BY <1>1, <1>2 DEF Worker, Running

\* What a handled signal publishes.
LEMMA HandledPhase ==
    ASSUME WindowOK(g), NEW m \in Signals
    PROVE  LET h == Handled(g, m) IN
           /\ m.name \in {"stepStarted", "checkStarted", "upToDate", "updateAvailable", "readyToApply"} =>
                h.phase \notin Outcomes
           /\ m.name = "stepDone" => h.phase = g.phase /\ h.installState = g.installState
           /\ m.name = "allDone" => h.phase = "Completed" /\ h.installState = "Intact"
           /\ m.name = "cancelled" => h.phase = "Cancelled" /\ h.installState = "Intact"
           /\ m.name = "failed" => /\ h.phase = PhaseForFailure(m.arg)
                                   /\ h.installState = InstallStateForFailure(m.arg)
<1>d. DOMAIN g = Fields  BY DEF WindowOK
<1>0. \A p : /\ DOMAIN SetPhase(g, p) = Fields /\ SetPhase(g, p).phase = p
             /\ SetPhase(g, p).installState = "Intact"
  BY <1>d DEF SetPhase, Fields
<1>1. CASE m.name = "stepStarted"
  <2> DEFINE p == PhaseForStep(m.arg)
             r == SetPhase(g, p)
  <2>1. Handled(g, m) = [r EXCEPT !.working = @ \cup {m.arg}]  BY <1>1 DEF Handled
  <2>2. m.arg \in StepNames  BY <1>1 DEF Signals
  <2>3. p \notin Outcomes  BY <2>2 DEF PhaseForStep, StepNames, Outcomes
  <2>4. DOMAIN r = Fields /\ r.phase = p  BY <1>0
  <2> HIDE DEF r, p
  <2> QED BY <1>1, <2>1, <2>3, <2>4 DEF Fields
<1>2. CASE m.name = "stepDone"
  <2>1. Handled(g, m) = [g EXCEPT !.working = @ \ {m.arg}]  BY <1>2 DEF Handled
  <2> QED BY <1>2, <1>d, <2>1 DEF Fields
<1>3. CASE m.name = "checkStarted"
  <2>1. Handled(g, m) = SetPhase(g, "Checking")  BY <1>3 DEF Handled
  <2> QED BY <1>3, <1>0, <2>1 DEF Outcomes
<1>4. CASE m.name = "failed"
  <2>1. Handled(g, m) = OnFailure(g, m.arg)  BY <1>4 DEF Handled
  <2>2. /\ OnFailure(g, m.arg).phase = PhaseForFailure(m.arg)
        /\ OnFailure(g, m.arg).installState = InstallStateForFailure(m.arg)
    BY <1>d DEF OnFailure, Fields
  <2> QED BY <1>4, <2>1, <2>2
<1>5. CASE m.name = "allDone"
  <2> DEFINE r == SetPhase(g, "Completed")
  <2>1. Handled(g, m) = [r EXCEPT !.inFlight = FALSE, !.working = {}]  BY <1>5 DEF Handled
  <2>2. DOMAIN r = Fields /\ r.phase = "Completed" /\ r.installState = "Intact"  BY <1>0
  <2> HIDE DEF r
  <2> QED BY <1>5, <2>1, <2>2 DEF Fields
<1>6. CASE m.name = "cancelled"
  <2> DEFINE r == SetPhase(g, "Cancelled")
  <2>1. Handled(g, m) = [r EXCEPT !.inFlight = FALSE, !.working = {}]  BY <1>6 DEF Handled
  <2>2. DOMAIN r = Fields /\ r.phase = "Cancelled" /\ r.installState = "Intact"  BY <1>0
  <2> HIDE DEF r
  <2> QED BY <1>6, <2>1, <2>2 DEF Fields
<1>7. CASE m.name = "upToDate"
  <2> DEFINE r == SetPhase(g, "UpToDate")
  <2>1. Handled(g, m) = [r EXCEPT !.inFlight = FALSE, !.target = FALSE]  BY <1>7 DEF Handled
  <2>2. DOMAIN r = Fields /\ r.phase = "UpToDate"  BY <1>0
  <2> HIDE DEF r
  <2> QED BY <1>7, <2>1, <2>2 DEF Fields, Outcomes
<1>8. CASE m.name = "updateAvailable"
  <2> DEFINE r == SetPhase(g, "UpdateAvailable")
  <2>1. Handled(g, m) = [r EXCEPT !.inFlight = FALSE, !.target = TRUE]  BY <1>8 DEF Handled
  <2>2. DOMAIN r = Fields /\ r.phase = "UpdateAvailable"  BY <1>0
  <2> HIDE DEF r
  <2> QED BY <1>8, <2>1, <2>2 DEF Fields, Outcomes
<1>9. CASE m.name = "readyToApply"
  <2> DEFINE r == SetPhase(g, "ReadyToApply")
  <2>1. Handled(g, m) = [r EXCEPT !.inFlight = FALSE]  BY <1>9 DEF Handled
  <2>2. DOMAIN r = Fields /\ r.phase = "ReadyToApply"  BY <1>0
  <2> HIDE DEF r
  <2> QED BY <1>9, <2>1, <2>2 DEF Fields, Outcomes
<1>10. m.name \in {"stepStarted", "stepDone", "checkStarted", "allDone", "failed", "cancelled", "upToDate",
                   "updateAvailable", "readyToApply"}
  BY DEF Signals, Names, Terminals
<1> QED BY <1>1, <1>2, <1>3, <1>4, <1>5, <1>6, <1>7, <1>8, <1>9, <1>10

\* The claim of a terminal signal is what the window then publishes.
LEMMA DeliverClaim ==
    ASSUME KindInv, InFlightInv, ClaimInv, Deliver
    PROVE  ClaimInv'
<1> DEFINE m == Head(sig)
<1>1. /\ sig # <<>> /\ sig' = Tail(sig) /\ g' = Handled(g, m)
      /\ UNCHANGED <<dir, doors, was, w>>
  BY DEF Deliver
<1>2. sig \in Seq(Signals) /\ OneEnd(sig) /\ WindowOK(g)  BY DEF KindInv, InFlightInv
<1>3. m \in Signals /\ m = sig[1] /\ 1 \in DOMAIN sig  BY <1>1, <1>2
<1>4. \A k \in DOMAIN sig' : k + 1 \in DOMAIN sig /\ sig'[k] = sig[k + 1]  BY <1>1, <1>2
<1>5. m.name \in Terminals => g'.inFlight = FALSE
  BY <1>1, <1>2, <1>3, HandledWindow
<1>6. m.name \notin Terminals => g'.inFlight = g.inFlight
  BY <1>1, <1>2, <1>3, HandledWindow
<1>7. m.name \in {"stepStarted", "stepDone", "checkStarted", "allDone", "failed", "cancelled", "upToDate",
                  "updateAvailable", "readyToApply"}
  BY <1>3 DEF Signals, Names, Terminals
<1>8. ASSUME doors' = {} PROVE Claimed(m, dir["install"], dir["backup"], was)
  BY <1>1, <1>3, <1>8 DEF ClaimInv
<1> HIDE DEF m
<1>9. ASSUME doors' = {}
      PROVE  FineInv' /\ \A k \in DOMAIN sig' : Claimed(sig'[k], dir'["install"], dir'["backup"], was')
  BY <1>1, <1>4, <1>9 DEF ClaimInv, FineInv, Fine
<1>10. CASE m.name \in {"stepStarted", "checkStarted", "upToDate", "updateAvailable", "readyToApply"}
  <2>1. g'.phase \notin Outcomes  BY <1>1, <1>2, <1>3, <1>10, HandledPhase
  <2> QED BY <1>9, <2>1 DEF ClaimInv
<1>11. CASE m.name = "stepDone"
  <2>1. g'.phase = g.phase /\ g'.installState = g.installState  BY <1>1, <1>2, <1>3, <1>11, HandledPhase
  <2>2. g'.inFlight = g.inFlight  BY <1>6, <1>11 DEF Terminals
  <2>3. Truthful' = Truthful  BY <1>1, <2>1 DEF Truthful
  <2> QED BY <1>1, <1>9, <2>1, <2>2, <2>3 DEF ClaimInv, Published
<1>12. CASE m.name = "allDone"
  <2>1. g'.phase = "Completed" /\ g'.installState = "Intact"  BY <1>1, <1>2, <1>3, <1>12, HandledPhase
  <2>2. ~g'.inFlight  BY <1>5, <1>12 DEF Terminals
  <2>3. doors' = {} => Truthful'
    BY <1>1, <1>8, <1>12, <2>1, TreeFacts DEF Truthful, Claimed
  <2> QED BY <1>9, <2>2, <2>3 DEF ClaimInv, Published
<1>13. CASE m.name = "cancelled"
  <2>1. g'.phase = "Cancelled" /\ g'.installState = "Intact"  BY <1>1, <1>2, <1>3, <1>13, HandledPhase
  <2>2. ~g'.inFlight  BY <1>5, <1>13 DEF Terminals
  <2>3. doors' = {} => Published'
    BY <1>1, <1>8, <1>13, <2>1 DEF Truthful, Claimed, Published
  <2> QED BY <1>9, <2>2, <2>3 DEF ClaimInv
<1>14. CASE m.name = "failed"
  <2>1. g'.phase = PhaseForFailure(m.arg) /\ g'.installState = InstallStateForFailure(m.arg)
    BY <1>1, <1>2, <1>3, <1>14, HandledPhase
  <2>2. ~g'.inFlight  BY <1>5, <1>14 DEF Terminals
  <2>3. g'.phase # "Completed"  BY <2>1 DEF PhaseForFailure
  <2>4. ASSUME doors' = {} PROVE Published'
    <3>1. CASE m.arg = "RestoreFailed"
      <4>1. g'.installState = "StrandedInBackup"  BY <2>1, <3>1 DEF InstallStateForFailure
      <4>2. Whole(dir'["backup"])  BY <1>1, <1>8, <1>14, <2>4, <3>1 DEF Claimed
      <4> QED BY <2>3, <4>1, <4>2 DEF Truthful, Published
    <3>2. CASE m.arg = "VerifyInstallFailedMsi"
      <4>1. g'.installState = "Unknown"  BY <2>1, <3>2 DEF InstallStateForFailure
      <4> QED BY <2>3, <4>1 DEF Truthful, Published
    <3>3. CASE m.arg \notin {"RestoreFailed", "VerifyInstallFailedMsi"}
      <4>1. g'.installState \in {"Intact", "Restored"}  BY <2>1, <3>3 DEF InstallStateForFailure
      <4>2. Whole(dir'["install"]) \/ dir'["install"] = was'  BY <1>1, <1>8, <1>14, <2>4, <3>3 DEF Claimed
      <4> QED BY <2>3, <4>1, <4>2 DEF Truthful, Published
    <3> QED BY <3>1, <3>2, <3>3
  <2> QED BY <1>9, <2>2, <2>4 DEF ClaimInv
<1> QED BY <1>7, <1>10, <1>11, <1>12, <1>13, <1>14

\* A posted call takes the outcome of the one before it off the window.
LEMMA PostClaim ==
    ASSUME ClaimInv, NEW c, NEW r, WindowOK(r), r.phase \notin Outcomes, Post(c, r)
    PROVE  ClaimInv'
<1>1. g' = [r EXCEPT !.inFlight = TRUE] /\ UNCHANGED <<dir, doors, was, w, sig>>  BY DEF Post
<1>2. g'.phase = r.phase  BY <1>1 DEF WindowOK, Fields
<1> QED BY <1>1, <1>2 DEF ClaimInv, FineInv, Fine

LEMMA WindowClaim ==
    ASSUME KindInv, InFlightInv, ClaimInv, Window
    PROVE  ClaimInv'
<1>0. WindowOK(g) /\ WindowOK(Fresh(g)) /\ Fresh(g).phase = "Idle"  BY FreshWindow DEF KindInv
<1>1. CASE DoCheck
  <2> DEFINE f == Fresh(g)
             r == [f EXCEPT !.target = FALSE]
  <2>1. WindowOK(f) /\ f.phase = "Idle"  BY <1>0
  <2>2. Post(Call("check", "none"), r)  BY <1>1 DEF DoCheck
  <2> HIDE DEF f
  <2>3. WindowOK(r) /\ r.phase = "Idle"  BY <2>1 DEF WindowOK, Fields
  <2> HIDE DEF r
  <2> QED BY <2>2, <2>3, PostClaim DEF Outcomes
<1>2. CASE DoDownload
  BY <1>0, <1>2, PostClaim DEF DoDownload, Outcomes
<1>3. CASE DoApply
  BY <1>0, <1>3, PostClaim DEF DoApply, Outcomes
<1>4. CASE DoRetry
  <2>1. \E c : Post(c, Fresh(g))  BY <1>4 DEF DoRetry
  <2> QED BY <1>0, <2>1, PostClaim DEF Outcomes
<1>5. CASE DoCancel \/ DoClose
  <2>1. UNCHANGED <<dir, doors, was, w, sig, g>>  BY <1>5 DEF DoCancel, DoClose
  <2> QED BY <2>1 DEF ClaimInv, FineInv, Fine, Truthful, Published
<1>6. CASE Deliver  BY <1>6, DeliverClaim
<1> QED BY <1>1, <1>2, <1>3, <1>4, <1>5, <1>6 DEF Window

\* A late msiexec can only make a claim truer; a new process publishes nothing.
LEMMA OutsideClaim ==
    ASSUME KindInv, InFlightInv, ClaimInv, Outside
    PROVE  ClaimInv'
<1>1. CASE MsiEnds
  <2>1. UNCHANGED <<doors, was, w, sig, g>>  BY <1>1 DEF MsiEnds
  <2>2. CASE UNCHANGED dir  BY <2>1, <2>2 DEF ClaimInv, FineInv, Fine, Truthful, Published
  <2>3. CASE dir' = [dir EXCEPT !["install"] = Tree("new")]
    <3>1. dir'["install"] = Tree("new") /\ dir'["backup"] = dir["backup"] /\ Whole(Tree("new"))
      BY <2>3, TreeFacts DEF KindInv, Dirs
    <3>2. \A n : \A x, y : Claimed(n, x, dir["backup"], y) => Claimed(n, Tree("new"), dir["backup"], y)
      BY <3>1 DEF Claimed
    <3>3. Published => Truthful'
      <4>1. CASE g.installState = "StrandedInBackup"
        BY <2>1, <3>1, <4>1 DEF Published, Truthful
      <4>2. CASE g.installState # "StrandedInBackup"
        BY <2>1, <3>1, <4>2 DEF Truthful
      <4> QED BY <4>1, <4>2
    <3>4. FineInv'  BY <3>1 DEF FineInv, Fine
    <3>5. ASSUME doors = {}, NEW k \in DOMAIN sig
          PROVE  Claimed(sig[k], Tree("new"), dir["backup"], was)
      BY <3>2, <3>5 DEF ClaimInv
    <3> QED BY <2>1, <3>1, <3>3, <3>4, <3>5 DEF ClaimInv, Published
  <2> QED BY <1>1, <2>2, <2>3 DEF MsiEnds
<1>2. CASE AppExit \/ AppStart
  <2>1. UNCHANGED <<dir, doors, was, w, sig, g>>  BY <1>2 DEF AppExit, AppStart
  <2> QED BY <2>1 DEF ClaimInv, FineInv, Fine, Truthful, Published
<1>3. CASE Killed \/ Exits
  <2>1. Dies  BY <1>3 DEF Killed, Exits
  <2>2. w'.at = "idle" /\ sig' = <<>> /\ g' = Idle0  BY <2>1 DEF Dies, KindInv, Workers
  <2>3. g'.phase \notin Outcomes  BY <2>2, IdleWindow DEF Outcomes
  <2>4. DOMAIN sig' = {}  BY <2>2
  <2> QED BY <2>2, <2>3, <2>4 DEF ClaimInv, FineInv
<1>4. CASE StartUpdater
  <2>1. UNCHANGED <<dir, doors, was, w, sig>>  BY <1>4 DEF StartUpdater
  <2>2. g'.phase \notin Outcomes
    <3>1. CASE g' = Idle0  BY <3>1, IdleWindow DEF Outcomes
    <3>2. CASE g' = [SetPhase(Idle0, "Downloading") EXCEPT !.working = {"Download"},
                                                          !.inFlight = TRUE, !.target = TRUE]
      <4> DEFINE r == SetPhase(Idle0, "Downloading")
      <4>1. WindowOK(r) /\ r.phase = "Downloading"  BY IdleWindow, PhaseSet
      <4>2. g' = [r EXCEPT !.working = {"Download"}, !.inFlight = TRUE, !.target = TRUE]  BY <3>2
      <4> HIDE DEF r
      <4> QED BY <4>1, <4>2 DEF WindowOK, Fields, Outcomes
    <3> QED BY <1>4, <3>1, <3>2 DEF StartUpdater
  <2> QED BY <2>1, <2>2 DEF ClaimInv, FineInv, Fine
<1> QED BY <1>1, <1>2, <1>3, <1>4 DEF Outside

LEMMA InitClaim == Init => ClaimInv
<1> SUFFICES ASSUME Init PROVE ClaimInv
  OBVIOUS
<1>1. g.phase \notin Outcomes  BY IdleWindow DEF Init, Outcomes
<1>2. sig = <<>> /\ DOMAIN sig = {} /\ w.at = "idle"  BY DEF Init
<1> QED BY <1>1, <1>2 DEF ClaimInv, FineInv

LEMMA NextClaim == KindInv /\ InFlightInv /\ DiskInv /\ ClaimInv /\ [Next]_vars => ClaimInv'
<1> SUFFICES ASSUME KindInv, InFlightInv, DiskInv, ClaimInv, [Next]_vars PROVE ClaimInv'
  OBVIOUS
<1>1. CASE UNCHANGED vars  BY <1>1 DEF vars, ClaimInv, FineInv, Fine, Truthful, Published
<1>2. CASE Worker  BY <1>2, WorkerClaim
<1>3. CASE Window  BY <1>3, WindowClaim
<1>4. CASE Outside  BY <1>4, OutsideClaim
<1> QED BY <1>1, <1>2, <1>3, <1>4 DEF Next

\* The published installation state (enum InstallState) is true of the disk whenever the window is at
\* rest, through retries, failed renames, kills and a late msiexec, until a door is opened.
THEOREM StateTruthful == Spec => []InstallStateTruthful
<1>1. ClaimInv => InstallStateTruthful
  BY DEF ClaimInv, InstallStateTruthful, Outcome, Outcomes, Published
<1> QED BY InitCall, NextCall, InitDisk, NextDisk, InitClaim, NextClaim, <1>1, PTL DEF Spec
=============================================================================
