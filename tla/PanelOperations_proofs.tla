----------------------- MODULE PanelOperations_proofs -----------------------
(***************************************************************************)
(* Proofs about PanelOperations, for any set of builds, any version names  *)
(* and any number of sessions: the reservation has one holder, the app     *)
(* leaves a panel only when HOME and the vendor's setting are back, an     *)
(* unfinished update stays on record, and a record is withdrawn only once  *)
(* the panel has run the build.                                            *)
(***************************************************************************)
EXTENDS PanelOperations, TLAPS

\* The slot runs a build, and a task past its route installs one.
BuildsAreKnown ==
  /\ Busy => panel.op.to \in Builds
  /\ install.pc \notin {"idle", "route"} => install.target \in Builds

Typed == TypeOK /\ BuildsAreKnown

-----------------------------------------------------------------------------
(***************************************************************************)
(* What the operators of PanelUpdates return.                              *)
(***************************************************************************)
Attempts == {None, "begun", "installing", "away", "back"}

LEMMA EnteredTyped ==
  ASSUME NEW a \in Attempts, NEW stage \in {"installing", "away", "back"}
  PROVE  Entered(a, stage) \in Attempts /\ Held(a) \in Attempts /\ Begun(a) \in Attempts
BY DEF Entered, Held, Begun, Attempts

LEMMA ClearedTyped ==
  ASSUME NEW b, NEW verified, NEW web,
         record \in Reports \cup {None}, issue \in BOOLEAN, Cleared(b, verified, web)
  PROVE  record' \in Reports \cup {None} /\ issue' \in BOOLEAN
BY DEF Cleared, reportVars

LEMMA RecordedTyped ==
  ASSUME NEW target \in Builds \cup {None}, NEW before \in Builds \cup {None},
         NEW web \in BOOLEAN, NEW raised \in BOOLEAN,
         record \in Reports \cup {None}, issue \in BOOLEAN,
         Recorded(target, before, web, raised)
  PROVE  record' \in Reports \cup {None} /\ issue' \in BOOLEAN
BY DEF Recorded, reportVars, Reports

-----------------------------------------------------------------------------
(***************************************************************************)
(* Every step keeps the shape of the state.                                *)
(***************************************************************************)
Panels ==
  [app : {"up", "down", "stopped", "gone"}, build : Builds, home : {"app", "vendor"},
   owes : BOOLEAN, shelly : BOOLEAN, op : Slot \cup {None}]

LEMMA InitTyped == Init => Typed
<1> SUFFICES ASSUME Init PROVE Typed
  OBVIOUS
<1>1. DeviceTypeOK /\ panel.op = None
  BY DEF Init, DeviceInit, DeviceTypeOK
<1>2. UpdateTypeOK
  BY <1>1 DEF Init, UpdateInit, UpdateTypeOK, DeviceTypeOK, Idle
<1>3. RemovalTypeOK
  BY DEF Init, RemovalInit, RemovalTypeOK, NoRemoval
<1>4. RecoveryTypeOK
  <2>1. closing \in BOOLEAN BY DEF Init, RecoveryInit
  <2> QED BY <2>1, SessionsBounded DEF Init, RecoveryInit, RecoveryTypeOK, NoTask, Generations
<1>5. BuildsAreKnown
  BY <1>1 DEF Init, UpdateInit, Idle, BuildsAreKnown, Busy
<1> QED BY <1>1, <1>2, <1>3, <1>4, <1>5 DEF Typed, TypeOK

LEMMA PanelStepTyped == Typed /\ PanelStep => Typed'
<1> SUFFICES ASSUME Typed, PanelStep PROVE Typed'
  OBVIOUS
<1>0. /\ DeviceTypeOK /\ UpdateTypeOK /\ RemovalTypeOK /\ RecoveryTypeOK
      /\ BuildsAreKnown
  BY DEF Typed, TypeOK
<1>1. UpdateTypeOK' /\ RemovalTypeOK' /\ RecoveryTypeOK'
  BY <1>0 DEF PanelStep, updateVars, taskVars, known, reportVars, removalVars, recoveryVars,
     UpdateTypeOK, RemovalTypeOK, RecoveryTypeOK
<1>2. install' = install
  BY DEF PanelStep, updateVars, taskVars
<1>3. DeviceTypeOK' /\ (Busy => panel.op.to \in Builds)'
  <2>1. CASE SlotEnds
    <3>1. panel \in Panels /\ panel.op \in Slot /\ panel.op.to \in Builds
      BY <1>0, <2>1 DEF SlotEnds, DeviceTypeOK, BuildsAreKnown, Busy, Panels
    <3>2. [panel EXCEPT !.op.state = "done", !.op.to = None, !.build = panel.op.to,
                        !.app = "down"] \in Panels
      BY <3>1 DEF Panels, Slot
    <3>3. ASSUME NEW s \in {"refused", "failed"}
          PROVE  [panel EXCEPT !.op.state = s, !.op.to = None] \in Panels
      BY <3>1 DEF Panels, Slot
    <3>4. panel' \in Panels
      BY <2>1, <3>2, <3>3 DEF SlotEnds
    <3>5. ~Busy'
      <4>1. [panel EXCEPT !.op.state = "done", !.op.to = None, !.build = panel.op.to,
                          !.app = "down"].op.state = "done"
        BY <3>1 DEF Panels, Slot
      <4>2. ASSUME NEW s \in {"refused", "failed"}
            PROVE  [panel EXCEPT !.op.state = s, !.op.to = None].op.state = s
        BY <3>1 DEF Panels, Slot
      <4> QED BY <2>1, <4>1, <4>2 DEF SlotEnds, Busy
    <3> QED BY <1>0, <2>1, <3>4, <3>5 DEF SlotEnds, DeviceTypeOK, Panels
  <2>2. CASE UpdatesItself
    BY <1>0, <2>2 DEF UpdatesItself, DeviceTypeOK, Busy, Slot
  <2>3. CASE Comes \/ VendorStops \/ TakesHome \/ DeleteEntry
    BY <1>0, <2>3 DEF Comes, VendorStops, TakesHome, DeleteEntry, DeviceTypeOK,
       BuildsAreKnown, Busy
  <2> QED BY <2>1, <2>2, <2>3 DEF PanelStep
<1> QED BY <1>0, <1>1, <1>2, <1>3 DEF Typed, TypeOK, BuildsAreKnown

RemovalStates ==
  [pc : RemovalPcs \cup {"idle"}, local : BOOLEAN, home : {"app", "vendor", None}]

LEMMA RemovalGoesOn ==
  ASSUME removal \in RemovalStates, claim \in Actors \cup {Free},
         NEW pc \in RemovalPcs
  PROVE  /\ Proceeds(pc) => removal' \in RemovalStates
         /\ Stops => removal' \in RemovalStates /\ claim' \in Actors \cup {Free}
         /\ Required(pc) => removal' \in RemovalStates /\ claim' \in Actors \cup {Free}
<1>1. Proceeds(pc) => removal' \in RemovalStates
  BY DEF Proceeds, RemovalStates
<1>2. Stops => removal' \in RemovalStates /\ claim' \in Actors \cup {Free}
  BY DEF Stops, Released, NoRemoval, RemovalStates
<1> QED BY <1>1, <1>2 DEF Required

LEMMA RemovalTyped == Typed /\ Removal => Typed'
<1> SUFFICES ASSUME Typed, Removal PROVE Typed'
  OBVIOUS
<1>0. /\ DeviceTypeOK /\ UpdateTypeOK /\ RemovalTypeOK /\ RecoveryTypeOK
      /\ BuildsAreKnown
  BY DEF Typed, TypeOK
<1>1. UpdateTypeOK' /\ RecoveryTypeOK' /\ install' = install
  BY <1>0 DEF Removal, updateVars, taskVars, known, reportVars, recoveryVars,
     UpdateTypeOK, RecoveryTypeOK
<1>2. removal \in RemovalStates /\ claim \in Actors \cup {Free}
  BY <1>0 DEF RemovalTypeOK, RemovalStates, DeviceTypeOK
<1>3. removal' \in RemovalStates /\ claim' \in Actors \cup {Free}
  <2>0. {"observe", "hand", "setup", "shell", "vendor", "sizing", "network", "remove",
         "leave", "again"} \subseteq RemovalPcs
    BY DEF RemovalPcs
  <2>1. CASE StartRemoval
    BY <1>2, <2>1 DEF StartRemoval, Claimable, NoRemoval, RemovalStates, RemovalPcs, Actors
  <2>2. CASE Target
    <3>1. [removal EXCEPT !.pc = "observe"] \in RemovalStates
      BY <1>2, <2>0 DEF RemovalStates
    <3>2. ASSUME NEW local \in BOOLEAN
          PROVE  [removal EXCEPT !.pc = "observe", !.local = local] \in RemovalStates
      BY <1>2, <2>0 DEF RemovalStates
    <3> QED BY <1>2, <2>0, <2>2, <3>1, <3>2, RemovalGoesOn DEF Target
  <2>3. CASE Observe
    <3>1. [removal EXCEPT !.pc = "hand", !.home = panel.home] \in RemovalStates
      BY <1>0, <1>2, <2>0 DEF RemovalStates, DeviceTypeOK
    <3> QED BY <1>2, <2>0, <2>3, <3>1, RemovalGoesOn DEF Observe
  <2>4. CASE HandBack BY <1>2, <2>0, <2>4, RemovalGoesOn DEF HandBack
  <2>5. CASE SetLauncher BY <1>2, <2>0, <2>5, RemovalGoesOn DEF SetLauncher
  <2>6. CASE Restore BY <1>2, <2>0, <2>6, RemovalGoesOn DEF Restore
  <2>7. CASE Detach BY <1>2, <2>0, <2>7, RemovalGoesOn DEF Detach
  <2>8. CASE Remove BY <1>2, <2>0, <2>8, RemovalGoesOn DEF Remove
  <2>9. CASE LookAgain BY <1>2, <2>0, <2>9, RemovalGoesOn DEF LookAgain
  <2>10. CASE Leave BY <1>2, <2>0, <2>10, RemovalGoesOn DEF Leave
  <2> QED BY <2>1, <2>2, <2>3, <2>4, <2>5, <2>6, <2>7, <2>8, <2>9, <2>10
      DEF Removal, RemovalStep
<1>4. entry' \in BOOLEAN /\ bound' \in BOOLEAN
  BY <1>0 DEF Removal, RemovalStep, StartRemoval, Target, Observe, HandBack, SetLauncher,
     Restore, Detach, Remove, LookAgain, Leave, DeviceTypeOK, RemovalTypeOK
<1>5. /\ panel' \in Panels
      /\ (Busy => panel.op.to \in Builds)'
  <2>0. panel \in Panels BY <1>0 DEF DeviceTypeOK, Panels
  <2>1. CASE HandBack BY <1>0, <2>0, <2>1 DEF HandBack, HandsBack, Busy, BuildsAreKnown, Panels
  <2>2. CASE SetLauncher BY <1>0, <2>0, <2>2 DEF SetLauncher, Busy, BuildsAreKnown, Panels
  <2>3. CASE Remove BY <1>0, <2>0, <2>3 DEF Remove, Busy, BuildsAreKnown, Panels
  <2>4. CASE UNCHANGED panel BY <1>0, <2>0, <2>4 DEF Busy, BuildsAreKnown
  <2> QED BY <2>1, <2>2, <2>3, <2>4 DEF Removal, RemovalStep, StartRemoval, Target, Observe,
      Restore, Detach, LookAgain, Leave
<1> QED BY <1>0, <1>1, <1>2, <1>3, <1>4, <1>5
    DEF Typed, TypeOK, BuildsAreKnown, DeviceTypeOK, RemovalTypeOK, RemovalStates, Panels

LEMMA RecoveryTyped == Typed /\ Recovery => Typed'
<1> SUFFICES ASSUME Typed, Recovery PROVE Typed'
  OBVIOUS
<1>0. /\ DeviceTypeOK /\ UpdateTypeOK /\ RemovalTypeOK /\ RecoveryTypeOK
      /\ BuildsAreKnown /\ 0 \in Generations
  BY SessionsBounded DEF Typed, TypeOK, Generations
<1>1. UpdateTypeOK' /\ RemovalTypeOK' /\ install' = install
  BY <1>0 DEF Recovery, updateVars, taskVars, known, reportVars, removalVars,
     UpdateTypeOK, RemovalTypeOK
<1>2. RecoveryTypeOK'
  <2> USE <1>0 DEF RecoveryTypeOK, Replaced, TaskEnds, Reserved
  <2>1. CASE Changed BY <2>1 DEF Changed, Used
  <2>2. CASE SessionOpens
    <3>1. session.gen + 1 \in Generations
      BY <2>2, SessionsBounded DEF SessionOpens, Generations
    <3> QED BY <2>2, <3>1 DEF SessionOpens
  <2>3. CASE SessionEnds BY <2>3 DEF SessionEnds
  <2>4. CASE Observed BY <2>4 DEF Observed
  <2>5. CASE Arm BY <2>5 DEF Arm, NoTask
  <2>6. CASE GivesUp BY <2>6 DEF GivesUp, NoTask
  <2>7. CASE Grace BY <2>7 DEF Grace
  <2>8. CASE Health BY <2>8 DEF Health
  <2>9. CASE Look BY <2>9 DEF Look
  <2>10. CASE Press BY <2>10 DEF Press, NoTask
  <2>11. CASE Closes BY <2>11 DEF Closes
  <2> QED BY <2>1, <2>2, <2>3, <2>4, <2>5, <2>6, <2>7, <2>8, <2>9, <2>10, <2>11
      DEF Recovery, RecoveryStep
<1>3. claim' \in Actors \cup {Free} /\ entry' \in BOOLEAN
  BY <1>0 DEF Recovery, RecoveryStep, Changed, Used, SessionOpens, SessionEnds, Observed,
     Arm, GivesUp, Grace, Health, Look, Press, Closes, Released, Claimable,
     deviceVars, DeviceTypeOK, Actors
<1>4. panel' \in {panel, [panel EXCEPT !.app = "up"]}
  BY DEF Recovery, RecoveryStep, Changed, SessionOpens, SessionEnds, Observed,
     Arm, GivesUp, Grace, Health, Look, Press, Closes, deviceVars
<1>5. panel' \in Panels /\ panel'.op = panel.op
  BY <1>0, <1>4 DEF DeviceTypeOK, Panels
<1> QED BY <1>0, <1>1, <1>2, <1>3, <1>5
    DEF Typed, TypeOK, BuildsAreKnown, Busy, DeviceTypeOK, Panels

InstallStates ==
  [pc : Pcs \cup {"idle"}, route : Routes \cup {None}, target : Builds \cup {None},
   before : Builds \cup {None}, again : BOOLEAN, web : BOOLEAN]

\* The task has no build to install before its route is chosen.
HasBuild(i) == i.pc \notin {"idle", "route"} => i.target \in Builds

LEMMA InstallGoesOn ==
  ASSUME install \in InstallStates, HasBuild(install),
         install.pc \notin {"idle", "route"}, NEW pc \in Pcs
  PROVE  [install EXCEPT !.pc = pc] \in InstallStates
         /\ HasBuild([install EXCEPT !.pc = pc])
BY DEF InstallStates, HasBuild

LEMMA UpdateInstallTyped ==
  ASSUME Typed, UpdateStep
  PROVE  install' \in InstallStates /\ HasBuild(install')
<1>0. install \in InstallStates /\ HasBuild(install) /\ seen \in Builds
  BY DEF Typed, TypeOK, UpdateTypeOK, InstallStates, BuildsAreKnown, HasBuild
<1>1. Idle \in InstallStates /\ HasBuild(Idle)
  BY DEF Idle, InstallStates, HasBuild
<1>2. {"bundle", "prepare", "adb", "stage", "commit", "wait", "webview", "clear", "fail",
       "relaunch", "route"} \subseteq Pcs
  BY DEF Pcs
<1> USE <1>0
<1>3. CASE StartInstall
  <2>1. [Idle EXCEPT !.pc = "route"] \in InstallStates
        /\ HasBuild([Idle EXCEPT !.pc = "route"])
    BY <1>2 DEF Idle, InstallStates, HasBuild
  <2> QED BY <1>3, <2>1 DEF StartInstall
<1>4. CASE RouteChosen
  <2>1. ASSUME NEW route \in Routes, NEW target \in Builds
        PROVE  LET i == [install EXCEPT !.pc = "bundle", !.route = route, !.target = target]
               IN  i \in InstallStates /\ HasBuild(i)
    BY <1>2 DEF InstallStates, HasBuild
  <2> QED BY <1>1, <1>4, <2>1 DEF RouteChosen, Refused
<1>5. CASE BundleSaved
  <2>1. install.pc = "bundle" BY <1>5 DEF BundleSaved, InstallAt
  <2>2. LET i == [install EXCEPT !.pc = "prepare", !.before = seen]
        IN  i \in InstallStates /\ HasBuild(i)
    BY <1>2, <2>1 DEF InstallStates, HasBuild
  <2> QED BY <1>1, <1>5, <2>2 DEF BundleSaved, Refused
<1>6. CASE Prepared
  BY <1>2, <1>6, InstallGoesOn DEF Prepared, Goes, InstallAt
<1>7. CASE Staged
  BY <1>2, <1>7, InstallGoesOn DEF Staged, Goes, InstallAt
<1>8. CASE Commit
  BY <1>2, <1>8, InstallGoesOn DEF Commit, Goes, InstallAt
<1>9. CASE AdbInstall
  BY <1>2, <1>9, InstallGoesOn DEF AdbInstall, Goes, InstallAt
<1>10. CASE LookForBuild
  BY <1>2, <1>10, InstallGoesOn DEF LookForBuild, Goes, InstallAt
<1>11. CASE RefusalSeen
  <2>1. install.pc = "wait" BY <1>11 DEF RefusalSeen, InstallAt
  <2>2. LET i == [install EXCEPT !.pc = "prepare", !.route = "adb", !.before = seen]
        IN  i \in InstallStates /\ HasBuild(i)
    BY <1>2, <2>1 DEF InstallStates, HasBuild, Routes
  <2> QED BY <1>2, <1>11, <2>1, <2>2, InstallGoesOn DEF RefusalSeen, Goes
<1>12. CASE WaitEnds
  BY <1>2, <1>12, InstallGoesOn DEF WaitEnds, Goes, InstallAt
<1>13. CASE Relaunch
  <2>1. install.pc = "relaunch" BY <1>13 DEF Relaunch, InstallAt
  <2>2. LET i == [install EXCEPT !.pc = "wait", !.again = TRUE]
        IN  i \in InstallStates /\ HasBuild(i)
    BY <1>2, <2>1 DEF InstallStates, HasBuild
  <2> QED BY <1>2, <1>13, <2>1, <2>2, InstallGoesOn DEF Relaunch, Goes
<1>14. CASE WebView
  <2>1. install.pc = "webview" BY <1>14 DEF WebView, InstallAt
  <2>2. ASSUME NEW web \in BOOLEAN
        PROVE  LET i == [install EXCEPT !.pc = "fail", !.web = web]
               IN  i \in InstallStates /\ HasBuild(i)
    BY <1>2, <2>1 DEF InstallStates, HasBuild
  <2> QED BY <1>2, <1>14, <2>1, <2>2, InstallGoesOn DEF WebView, Goes
<1>15. CASE Succeed \/ Fail
  BY <1>1, <1>15 DEF Succeed, Fail, Finished
<1>16. CASE UNCHANGED install
  BY <1>16
<1>17. \/ StartInstall \/ RouteChosen \/ BundleSaved \/ Prepared \/ Staged \/ Commit
       \/ AdbInstall \/ LookForBuild \/ RefusalSeen \/ WaitEnds \/ Relaunch \/ WebView
       \/ Succeed \/ Fail \/ UNCHANGED install
  BY DEF UpdateStep, StartObserver, ObserverPolls, ObserverVerifies, ObserverGivesUp,
     PollReads, PollClears, ReportWebView, RetryWebView, RetryWebViewEnds, Reload, taskVars
<1> QED BY <1>3, <1>4, <1>5, <1>6, <1>7, <1>8, <1>9, <1>10, <1>11, <1>12, <1>13, <1>14,
    <1>15, <1>16, <1>17

LEMMA UpdatePanelTyped ==
  ASSUME Typed, UpdateStep
  PROVE  panel' \in Panels /\ (Busy => panel.op.to \in Builds)'
<1>0. panel \in Panels /\ (Busy => panel.op.to \in Builds) /\ HasBuild(install)
  BY DEF Typed, TypeOK, DeviceTypeOK, Panels, BuildsAreKnown, HasBuild
<1>1. CASE Commit
  <2>1. install.target \in Builds BY <1>0, <1>1 DEF Commit, InstallAt, HasBuild
  <2>2. [component |-> "APK", to |-> install.target, state |-> "running"] \in Slot
    BY <2>1 DEF Slot
  <2>3. Committed \in Panels /\ Committed.op.to = install.target
    BY <1>0, <2>2 DEF Committed, Panels
  <2> QED BY <1>0, <1>1, <2>1, <2>3 DEF Commit, Busy
<1>2. CASE AdbInstall
  <2>1. install.target \in Builds BY <1>0, <1>2 DEF AdbInstall, InstallAt, HasBuild
  <2>2. ASSUME NEW app \in {"up", "down"}
        PROVE  LET p == [panel EXCEPT !.build = install.target, !.app = app]
               IN  p \in Panels /\ p.op = panel.op
    BY <1>0, <2>1 DEF Panels
  <2>3. panel' \in Panels /\ panel'.op = panel.op
    BY <1>0, <1>2, <2>2 DEF AdbInstall
  <2> QED BY <1>0, <2>3 DEF Busy
<1>3. CASE Relaunch
  <2>1. LET p == [panel EXCEPT !.app = "up"] IN p \in Panels /\ p.op = panel.op
    BY <1>0 DEF Panels
  <2>2. panel' \in Panels /\ panel'.op = panel.op
    BY <1>0, <1>3, <2>1 DEF Relaunch
  <2> QED BY <1>0, <2>2 DEF Busy
<1>4. CASE UNCHANGED panel
  BY <1>0, <1>4 DEF Busy
<1>5. Commit \/ AdbInstall \/ Relaunch \/ UNCHANGED panel
  BY DEF UpdateStep, StartInstall, RouteChosen, BundleSaved, Prepared, Staged, LookForBuild,
     RefusalSeen, WaitEnds, WebView, Succeed, Fail, StartObserver, ObserverPolls,
     ObserverVerifies, ObserverGivesUp, PollReads, PollClears, ReportWebView, RetryWebView,
     RetryWebViewEnds, Reload
<1> QED BY <1>1, <1>2, <1>3, <1>4, <1>5

LEMMA UpdateClaimTyped ==
  ASSUME Typed, UpdateStep
  PROVE  claim' \in Actors \cup {Free} /\ UNCHANGED entry
<1>0. claim \in Actors \cup {Free} /\ {"update", "webview"} \subseteq Actors
  BY DEF Typed, TypeOK, DeviceTypeOK, Actors
<1> QED BY <1>0 DEF UpdateStep, StartInstall, RouteChosen, BundleSaved, Prepared, Staged,
    Commit, AdbInstall, LookForBuild, RefusalSeen, WaitEnds, Relaunch, WebView, Succeed, Fail,
    StartObserver, ObserverPolls, ObserverVerifies, ObserverGivesUp, PollReads, PollClears,
    ReportWebView, RetryWebView, RetryWebViewEnds, Reload, Refused, Finished, Claimable,
    Released, taskVars, known, reportVars

LEMMA UpdateAttemptTyped ==
  ASSUME Typed, UpdateStep
  PROVE  attempt' \in Attempts
<1>0. attempt \in Attempts /\ None \in Attempts
  BY DEF Typed, TypeOK, UpdateTypeOK, Attempts
<1>1. CASE StartObserver
  <2>1. Begun(attempt) \in Attempts BY <1>0, EnteredTyped
  <2> QED BY <1>1, <2>1, EnteredTyped DEF StartObserver
<1>2. CASE ~StartObserver
  BY <1>0, <1>2, EnteredTyped DEF UpdateStep, StartInstall, RouteChosen, BundleSaved, Prepared,
    Staged, Commit, AdbInstall, LookForBuild, RefusalSeen, WaitEnds, Relaunch, WebView, Succeed,
    Fail, ObserverPolls, ObserverVerifies, ObserverGivesUp, ObserverGone, PollReads,
    PollClears, ReportWebView, RetryWebView, RetryWebViewEnds, Reload, Refused, Finished,
    taskVars
<1> QED BY <1>1, <1>2

LEMMA UpdateKnownTyped ==
  ASSUME Typed, UpdateStep
  PROVE  /\ observer' \in Builds \cup {None} /\ seen' \in Builds
         /\ reading' \in Builds \cup {None}
<1>0. /\ observer \in Builds \cup {None} /\ seen \in Builds
      /\ reading \in Builds \cup {None} /\ panel.build \in Builds
  BY DEF Typed, TypeOK, UpdateTypeOK, DeviceTypeOK
<1> QED BY <1>0 DEF UpdateStep, StartInstall, RouteChosen, BundleSaved, Prepared,
    Staged, Commit, AdbInstall, LookForBuild, RefusalSeen, WaitEnds, Relaunch, WebView, Succeed,
    Fail, StartObserver, ObserverPolls, ObserverVerifies, ObserverGivesUp, ObserverGone,
    PollReads, PollClears, ReportWebView, RetryWebView, RetryWebViewEnds, Reload,
    taskVars, known

LEMMA UpdateReportTyped ==
  ASSUME Typed, UpdateStep
  PROVE  /\ record' \in Reports \cup {None} /\ issue' \in BOOLEAN
         /\ begun' \in Builds \cup {None}
<1>0. /\ record \in Reports \cup {None} /\ issue \in BOOLEAN
      /\ begun \in Builds \cup {None} /\ observer \in Builds \cup {None}
      /\ install \in InstallStates /\ HasBuild(install)
  BY DEF Typed, TypeOK, UpdateTypeOK, InstallStates, BuildsAreKnown, HasBuild
<1>1. install.target \in Builds \cup {None} /\ install.web \in BOOLEAN
  BY <1>0 DEF InstallStates
<1>2. CASE BundleSaved
  <2>1. install.target \in Builds BY <1>0, <1>2 DEF BundleSaved, InstallAt, HasBuild
  <2>2. Bundled => record' \in Reports \cup {None} /\ issue' \in BOOLEAN
    BY <1>0, <2>1, RecordedTyped DEF Bundled, reportVars
  <2> QED BY <1>0, <1>2, <2>1, <2>2 DEF BundleSaved
<1>3. CASE RouteChosen
  <2>1. ASSUME NEW target \in Builds, Recorded(target, None, FALSE, TRUE)
        PROVE  record' \in Reports \cup {None} /\ issue' \in BOOLEAN
    BY <1>0, <2>1, RecordedTyped
  <2> QED BY <1>0, <1>3, <2>1 DEF RouteChosen, reportVars
<1>4. CASE Succeed
  BY <1>0, <1>4, ClearedTyped DEF Succeed
<1>5. CASE Fail
  BY <1>0, <1>1, <1>5, RecordedTyped DEF Fail, reportVars
<1>6. CASE ObserverVerifies
  BY <1>0, <1>6, ClearedTyped DEF ObserverVerifies
<1>7. CASE ObserverGivesUp
  BY <1>0, <1>7, RecordedTyped DEF ObserverGivesUp, reportVars
<1>8. CASE PollClears
  BY <1>0, <1>8, ClearedTyped DEF PollClears, reportVars
<1>9. CASE ReportWebView
  BY <1>0, <1>9, RecordedTyped DEF ReportWebView, reportVars
<1>10. CASE RetryWebViewEnds
  BY <1>0, <1>10, ClearedTyped DEF RetryWebViewEnds, reportVars
<1>11. CASE UNCHANGED reportVars /\ begun' \in {begun, None}
  BY <1>0, <1>11 DEF reportVars
<1>12. \/ BundleSaved \/ RouteChosen \/ Succeed \/ Fail \/ ObserverVerifies
       \/ ObserverGivesUp \/ PollClears \/ ReportWebView \/ RetryWebViewEnds
       \/ UNCHANGED reportVars /\ begun' \in {begun, None}
  BY DEF UpdateStep, StartInstall, Prepared, Staged, Commit, AdbInstall, LookForBuild,
     RefusalSeen, WaitEnds, Relaunch, WebView, StartObserver, ObserverPolls, PollReads,
     RetryWebView, Reload
<1> QED BY <1>2, <1>3, <1>4, <1>5, <1>6, <1>7, <1>8, <1>9, <1>10, <1>11, <1>12

LEMMA UpdateTyped == Typed /\ Update => Typed'
<1> SUFFICES ASSUME Typed, Update PROVE Typed'
  OBVIOUS
<1>1. UpdateStep /\ RemovalTypeOK' /\ RecoveryTypeOK' /\ entry \in BOOLEAN
  BY DEF Update, Typed, TypeOK, DeviceTypeOK, removalVars, recoveryVars, RemovalTypeOK,
     RecoveryTypeOK
<1>2. DeviceTypeOK'
  BY <1>1, UpdatePanelTyped, UpdateClaimTyped DEF DeviceTypeOK, Panels
<1>3. UpdateTypeOK'
  BY <1>1, UpdateInstallTyped, UpdateAttemptTyped, UpdateKnownTyped, UpdateReportTyped
     DEF UpdateTypeOK, InstallStates, Attempts
<1>4. BuildsAreKnown'
  BY <1>1, UpdatePanelTyped, UpdateInstallTyped DEF BuildsAreKnown, HasBuild
<1> QED BY <1>1, <1>2, <1>3, <1>4 DEF Typed, TypeOK

LEMMA RestartTyped == Typed /\ Restart => Typed'
<1> SUFFICES ASSUME Typed, Restart PROVE Typed'
  OBVIOUS
<1>0. /\ DeviceTypeOK /\ UpdateTypeOK /\ RemovalTypeOK /\ RecoveryTypeOK
      /\ BuildsAreKnown /\ 0 \in Generations
  BY SessionsBounded DEF Typed, TypeOK, Generations
<1>1. DeviceTypeOK'
  BY <1>0 DEF Restart, DeviceTypeOK
<1>2. UpdateTypeOK'
  BY <1>0 DEF Restart, UpdatesStop, UpdateTypeOK, Idle
<1>3. RemovalTypeOK'
  BY <1>0 DEF Restart, RemovalStops, RemovalTypeOK, NoRemoval
<1>4. RecoveryTypeOK'
  BY <1>0 DEF Restart, RecoveryStops, RecoveryTypeOK, NoTask
<1>5. BuildsAreKnown'
  BY <1>0 DEF Restart, UpdatesStop, BuildsAreKnown, Busy, Idle
<1> QED BY <1>1, <1>2, <1>3, <1>4, <1>5 DEF Typed, TypeOK

LEMMA StutterTyped == Typed /\ UNCHANGED vars => Typed'
BY DEF vars, deviceVars, updateVars, taskVars, known, reportVars, removalVars, recoveryVars,
   Typed, TypeOK, DeviceTypeOK, UpdateTypeOK, RemovalTypeOK, RecoveryTypeOK, BuildsAreKnown,
   Busy

LEMMA NextTyped == Typed /\ [Next]_vars => Typed'
BY PanelStepTyped, UpdateTyped, RemovalTyped, RecoveryTyped, RestartTyped, StutterTyped
   DEF Next

(***************************************************************************)
(* The panel, the reservation and the operations on them keep their shape, *)
(* and a busy slot of the panel, or an install task past its route, always *)
(* has a build to install (async_install).                                 *)
(***************************************************************************)
THEOREM OperationsTyped == Spec => []Typed
BY InitTyped, NextTyped, PTL DEF Spec

-----------------------------------------------------------------------------
(***************************************************************************)
(* The reservation: what each operation's steps do to it, and whether they *)
(* begin or end the operation.                                             *)
(***************************************************************************)
Reserves(who, was, is) ==
  \/ claim' = claim /\ (is <=> was)
  \/ claim = Free /\ claim' = who /\ is
  \/ was /\ claim' = Free /\ ~is

LEMMA InstallIsWorking ==
  ASSUME Typed, NEW pc \in Pcs
  PROVE  [install EXCEPT !.pc = pc].pc # "idle"
BY DEF Typed, TypeOK, UpdateTypeOK, Pcs

LEMMA UpdateHolds ==
  ASSUME Typed, UpdateStep
  PROVE  \/ Reserves("update", install.pc # "idle", install'.pc # "idle")
         \/ claim = Free /\ claim' = "webview" /\ UNCHANGED install
         \/ claim = "webview" /\ claim' = Free /\ UNCHANGED install
<1>0. Idle.pc = "idle" /\ [Idle EXCEPT !.pc = "route"].pc = "route"
  BY DEF Idle
<1>1. {"bundle", "prepare", "adb", "stage", "commit", "wait", "webview", "clear", "fail",
       "relaunch", "route"} \subseteq Pcs
  BY DEF Pcs
<1>shape. install \in InstallStates
  BY DEF Typed, TypeOK, UpdateTypeOK, InstallStates
<1> USE <1>0, <1>1, InstallIsWorking DEF Reserves, InstallAt, Goes, Claimable, Refused, Finished,
        Released
<1>2. CASE StartInstall BY <1>2 DEF StartInstall
<1>3. CASE RouteChosen
  <2>1. ASSUME NEW route \in Routes, NEW target \in Builds
        PROVE  [install EXCEPT !.pc = "bundle", !.route = route, !.target = target].pc # "idle"
    BY <1>shape DEF InstallStates
  <2> QED BY <1>3, <2>1 DEF RouteChosen
<1>4. CASE BundleSaved
  <2>1. [install EXCEPT !.pc = "prepare", !.before = seen].pc # "idle"
    BY <1>shape DEF InstallStates
  <2> QED BY <1>4, <2>1 DEF BundleSaved
<1>5. CASE Prepared \/ Staged BY <1>5 DEF Prepared, Staged
<1>6. CASE Commit \/ AdbInstall BY <1>6 DEF Commit, AdbInstall
<1>7. CASE LookForBuild BY <1>7 DEF LookForBuild
<1>8. CASE RefusalSeen
  <2>1. [install EXCEPT !.pc = "prepare", !.route = "adb", !.before = seen].pc # "idle"
    BY <1>shape DEF InstallStates
  <2> QED BY <1>8, <2>1 DEF RefusalSeen
<1>9. CASE WaitEnds BY <1>9 DEF WaitEnds
<1>10. CASE Relaunch
  <2>1. [install EXCEPT !.pc = "wait", !.again = TRUE].pc # "idle"
    BY <1>shape DEF InstallStates
  <2> QED BY <1>10, <2>1 DEF Relaunch
<1>11. CASE WebView
  <2>1. ASSUME NEW web \in BOOLEAN
        PROVE  [install EXCEPT !.pc = "fail", !.web = web].pc # "idle"
    BY <1>shape DEF InstallStates
  <2> QED BY <1>11, <2>1 DEF WebView
<1>12. CASE Succeed \/ Fail BY <1>12 DEF Succeed, Fail
<1>13. CASE RetryWebView \/ RetryWebViewEnds
  BY <1>13 DEF RetryWebView, RetryWebViewEnds, taskVars
<1>14. CASE UNCHANGED <<install, claim>> BY <1>14
<1>15. \/ StartInstall \/ RouteChosen \/ BundleSaved \/ Prepared \/ Staged \/ Commit
       \/ AdbInstall \/ LookForBuild \/ RefusalSeen \/ WaitEnds \/ Relaunch \/ WebView
       \/ Succeed \/ Fail \/ RetryWebView \/ RetryWebViewEnds \/ UNCHANGED <<install, claim>>
  BY DEF UpdateStep, StartObserver, ObserverPolls, ObserverVerifies, ObserverGivesUp,
     PollReads, PollClears, ReportWebView, Reload, taskVars
<1> QED BY <1>2, <1>3, <1>4, <1>5, <1>6, <1>7, <1>8, <1>9, <1>10, <1>11, <1>12, <1>13,
    <1>14, <1>15

LEMMA RemovalHolds ==
  ASSUME Typed, RemovalStep
  PROVE  Reserves("removal", removal.pc # "idle", removal'.pc # "idle")
<1>0. NoRemoval.pc = "idle" /\ [NoRemoval EXCEPT !.pc = "target"].pc = "target"
  BY DEF NoRemoval
<1>1. ASSUME NEW pc \in RemovalPcs
      PROVE  [removal EXCEPT !.pc = pc].pc # "idle"
  BY DEF Typed, TypeOK, RemovalTypeOK, RemovalPcs
<1>shape. removal \in RemovalStates
  BY DEF Typed, TypeOK, RemovalTypeOK, RemovalStates
<1>2. {"observe", "hand", "setup", "shell", "vendor", "sizing", "network", "remove", "leave",
       "again"} \subseteq RemovalPcs
  BY DEF RemovalPcs
<1> USE <1>0, <1>1, <1>2 DEF Reserves, RemovalAt, Proceeds, Stops, Required, Claimable, Released
<1>3. CASE StartRemoval BY <1>3 DEF StartRemoval
<1>4. CASE Target
  <2>1. ASSUME NEW local \in BOOLEAN
        PROVE  [removal EXCEPT !.pc = "observe", !.local = local].pc # "idle"
    BY <1>shape DEF RemovalStates
  <2> QED BY <1>4, <2>1 DEF Target
<1>5. CASE Observe
  <2>1. [removal EXCEPT !.pc = "hand", !.home = panel.home].pc # "idle"
    BY <1>shape DEF RemovalStates
  <2> QED BY <1>5, <2>1 DEF Observe
<1>6. CASE HandBack BY <1>6 DEF HandBack
<1>7. CASE SetLauncher BY <1>7 DEF SetLauncher
<1>8. CASE Restore BY <1>8 DEF Restore
<1>9. CASE Detach \/ Leave BY <1>9 DEF Detach, Leave
<1>10. CASE Remove \/ LookAgain BY <1>10 DEF Remove, LookAgain
<1> QED BY <1>3, <1>4, <1>5, <1>6, <1>7, <1>8, <1>9, <1>10 DEF RemovalStep

LEMMA RecoveryHolds ==
  ASSUME Typed, RecoveryStep, ~(Reserved /\ closing)
  PROVE  \/ UNCHANGED claim /\ (Reserved' \/ closing' <=> Reserved \/ closing)
            /\ ~(Reserved' /\ closing')
         \/ claim = Free /\ claim' = "recovery" /\ Reserved' /\ closing' = closing
         \/ claim' = Free /\ ~Reserved' /\ ~closing' /\ closing
<1>0. ASSUME NEW pc
      PROVE  [task EXCEPT !.pc = pc].pc = pc
  BY DEF Typed, TypeOK, RecoveryTypeOK
<1>1. NoTask.pc = "idle"
  BY DEF NoTask
<1> USE <1>0, <1>1 DEF TaskAt, Replaced, TaskEnds, Reserved, deviceVars
<1>2. CASE Changed BY <1>2 DEF Changed, Used
<1>3. CASE SessionOpens \/ SessionEnds BY <1>3 DEF SessionOpens, SessionEnds
<1>4. CASE Observed BY <1>4 DEF Observed
<1>5. CASE Arm BY <1>5 DEF Arm
<1>6. CASE GivesUp \/ Press BY <1>6 DEF GivesUp, Press
<1>7. CASE Grace BY <1>7 DEF Grace, Claimable
<1>8. CASE Health \/ Look BY <1>8 DEF Health, Look
<1>9. CASE Closes BY <1>9 DEF Closes, Released
<1> QED BY <1>2, <1>3, <1>4, <1>5, <1>6, <1>7, <1>8, <1>9 DEF RecoveryStep

LEMMA ClaimStep == Typed /\ ClaimHasHolder /\ [Next]_vars => ClaimHasHolder'
<1> SUFFICES ASSUME Typed, ClaimHasHolder, [Next]_vars PROVE ClaimHasHolder'
  OBVIOUS
<1>0. /\ Free # "update" /\ Free # "removal" /\ Free # "recovery" /\ Free # "webview"
  BY DeviceAssumption DEF Actors
<1> USE <1>0 DEF ClaimHasHolder, Reserves
<1>1. CASE PanelStep
  BY <1>1 DEF PanelStep, SlotEnds, UpdatesItself, Comes, VendorStops, TakesHome, DeleteEntry,
     updateVars, taskVars, removalVars, recoveryVars, Reserved
<1>2. CASE Update
  BY <1>2, UpdateHolds DEF Update, removalVars, recoveryVars, Reserved
<1>3. CASE Removal
  BY <1>3, RemovalHolds DEF Removal, updateVars, taskVars, recoveryVars, Reserved
<1>4. CASE Recovery
  BY <1>4, RecoveryHolds DEF Recovery, updateVars, taskVars, removalVars
<1>5. CASE Restart
  BY <1>5 DEF Restart, UpdatesStop, RemovalStops, RecoveryStops, Idle, NoRemoval, NoTask,
     Reserved
<1>6. CASE UNCHANGED vars
  BY <1>6 DEF vars, deviceVars, updateVars, taskVars, removalVars, recoveryVars, Reserved
<1> QED BY <1>1, <1>2, <1>3, <1>4, <1>5, <1>6 DEF Next

(***************************************************************************)
(* The panel is reserved for an operation exactly while that operation is  *)
(* past its reservation: two operations never change one panel at the same *)
(* time, and none leaves the panel reserved (claim_panel_operation and     *)
(* release_panel_operation).                                               *)
(***************************************************************************)
THEOREM OneHolder == Spec => []ClaimHasHolder
<1>1. Init => ClaimHasHolder
  BY DeviceAssumption DEF Init, DeviceInit, UpdateInit, RemovalInit, RecoveryInit, Idle,
     NoRemoval, NoTask, Actors, ClaimHasHolder, Reserved
<1> QED BY <1>1, ClaimStep, OperationsTyped, PTL DEF Spec

-----------------------------------------------------------------------------
(***************************************************************************)
(* The removal.  A setting is owed to the vendor only on its own panels;   *)
(* from the hand-back on, HOME is another launcher's only with the setting *)
(* back, although somebody may give HOME to the app again at any time.     *)
(***************************************************************************)
HandedBack ==
  /\ panel.owes => panel.shelly
  /\ removal.pc \in {"shell", "vendor"} => panel.home = "app" /\ ~panel.owes
  /\ removal.pc \in {"setup", "sizing", "network", "remove", "again", "leave"}
       => panel.home = "app" \/ ~panel.owes

Left ==
  /\ panel.app = "gone" => panel.op = None
  /\ RemovalIsComplete

\* A step of another operation, or of the panel, that keeps a removal's gains.
Undisturbed ==
  /\ UNCHANGED removal
  /\ panel'.home = panel.home /\ panel'.owes = panel.owes /\ panel'.shelly = panel.shelly
  /\ panel.app = "gone" <=> panel'.app = "gone"
  /\ panel.app = "gone" => UNCHANGED panel

LEMMA UndisturbedKeeps ==
  ASSUME Typed, HandedBack, Left, Undisturbed
  PROVE  HandedBack' /\ Left'
BY DEF Undisturbed, HandedBack, Left, RemovalIsComplete

LEMMA PanelStepKeeps ==
  ASSUME Typed, HandedBack, Left, PanelStep
  PROVE  HandedBack' /\ Left'
<1>0. panel \in Panels /\ removal' = removal
  BY DEF Typed, TypeOK, DeviceTypeOK, Panels, PanelStep, removalVars
<1>1. CASE SlotEnds
  <2>1. panel.app # "gone" /\ panel.op \in Slot
    BY <1>0, <1>1 DEF SlotEnds, Busy, Left, Panels
  <2>2. LET p == [panel EXCEPT !.op.state = "done", !.op.to = None, !.build = panel.op.to,
                               !.app = "down"]
        IN  p.app = "down" /\ p.home = panel.home /\ p.owes = panel.owes
            /\ p.shelly = panel.shelly
    BY <1>0 DEF Panels
  <2>3. ASSUME NEW s \in {"refused", "failed"}
        PROVE  LET p == [panel EXCEPT !.op.state = s, !.op.to = None]
               IN  p.app = panel.app /\ p.home = panel.home /\ p.owes = panel.owes
                   /\ p.shelly = panel.shelly
    BY <1>0 DEF Panels
  <2>4. Undisturbed
    BY <1>0, <1>1, <2>1, <2>2, <2>3 DEF SlotEnds, Undisturbed
  <2> QED BY <2>4, UndisturbedKeeps
<1>2. CASE UpdatesItself \/ Comes \/ VendorStops \/ DeleteEntry
  <2>1. Undisturbed
    BY <1>0, <1>2 DEF UpdatesItself, Comes, VendorStops, DeleteEntry, Answers, Undisturbed, Panels
  <2> QED BY <2>1, UndisturbedKeeps
<1>3. CASE TakesHome
  <2>1. /\ panel.app = "up" /\ panel'.app = "up" /\ panel'.home = "app"
        /\ panel'.shelly = panel.shelly /\ panel'.owes = panel.shelly /\ panel.home = "vendor"
    BY <1>0, <1>3 DEF TakesHome, Answers, Panels
  <2> QED BY <1>0, <2>1 DEF HandedBack, Left, RemovalIsComplete
<1> QED BY <1>1, <1>2, <1>3 DEF PanelStep

LEMMA UpdateKeeps ==
  ASSUME Typed, HandedBack, Left, Update
  PROVE  HandedBack' /\ Left'
<1>0. panel \in Panels /\ removal' = removal /\ UpdateStep
  BY DEF Typed, TypeOK, DeviceTypeOK, Panels, Update, removalVars
<1>1. CASE Commit
  <2>1. Committed.app = panel.app /\ Committed.home = panel.home
        /\ Committed.owes = panel.owes /\ Committed.shelly = panel.shelly
    BY <1>0 DEF Committed, Panels
  <2>2. Undisturbed
    BY <1>0, <1>1, <2>1 DEF Commit, Answers, Undisturbed
  <2> QED BY <2>2, UndisturbedKeeps
<1>2. CASE AdbInstall
  <2>1. ASSUME NEW app \in {"up", "down"}
        PROVE  LET p == [panel EXCEPT !.build = install.target, !.app = app]
               IN  p.app = app /\ p.home = panel.home /\ p.owes = panel.owes
                   /\ p.shelly = panel.shelly
    BY <1>0 DEF Panels
  <2>2. Undisturbed
    BY <1>0, <1>2, <2>1 DEF AdbInstall, Undisturbed
  <2> QED BY <2>2, UndisturbedKeeps
<1>3. CASE Relaunch
  <2>1. Undisturbed
    BY <1>0, <1>3 DEF Relaunch, Answers, Undisturbed, Panels
  <2> QED BY <2>1, UndisturbedKeeps
<1>4. CASE UNCHANGED panel
  <2>1. Undisturbed BY <1>0, <1>4 DEF Undisturbed
  <2> QED BY <2>1, UndisturbedKeeps
<1>5. Commit \/ AdbInstall \/ Relaunch \/ UNCHANGED panel
  BY <1>0 DEF UpdateStep, StartInstall, RouteChosen, BundleSaved, Prepared, Staged, LookForBuild,
     RefusalSeen, WaitEnds, WebView, Succeed, Fail, StartObserver, ObserverPolls,
     ObserverVerifies, ObserverGivesUp, PollReads, PollClears, ReportWebView, RetryWebView,
     RetryWebViewEnds, Reload
<1> QED BY <1>1, <1>2, <1>3, <1>4, <1>5

LEMMA RecoveryKeeps ==
  ASSUME Typed, HandedBack, Left, Recovery
  PROVE  HandedBack' /\ Left'
<1>0. panel \in Panels /\ removal' = removal /\ RecoveryStep
  BY DEF Typed, TypeOK, DeviceTypeOK, Panels, Recovery, removalVars
<1>1. CASE Press
  BY <1>0, <1>1, UndisturbedKeeps DEF Press, Undisturbed, Panels
<1>2. CASE UNCHANGED panel
  BY <1>0, <1>2, UndisturbedKeeps DEF Undisturbed
<1> QED BY <1>0, <1>1, <1>2 DEF RecoveryStep, Changed, SessionOpens, SessionEnds, Observed, Arm,
    GivesUp, Grace, Health, Look, Closes, deviceVars

\* The phases from the hand-back on.
Late == {"setup", "sizing", "network", "remove", "again", "leave"}

LEMMA Proceeding ==
  ASSUME Typed, NEW pc, Proceeds(pc)
  PROVE  removal'.pc = pc
BY DEF Typed, TypeOK, RemovalTypeOK, Proceeds

LEMMA Stopping == Stops => removal'.pc = "idle"
BY DEF Stops, NoRemoval

LEMMA Requiring ==
  ASSUME Typed, NEW pc, Required(pc)
  PROVE  removal'.pc \in {pc, "idle"}
BY Proceeding, Stopping DEF Required

LEMMA RemovalKeeps ==
  ASSUME Typed, HandedBack, Left, Removal
  PROVE  HandedBack' /\ Left'
<1>0. panel \in Panels /\ removal \in RemovalStates /\ RemovalStep
  BY DEF Typed, TypeOK, DeviceTypeOK, Panels, Removal, RemovalTypeOK, RemovalStates
<1> USE <1>0 DEF HandedBack, Left, RemovalIsComplete, RemovalAt
<1>1. CASE StartRemoval
  <2>1. removal'.pc = "target" BY <1>1 DEF StartRemoval, NoRemoval
  <2> QED BY <1>1, <2>1 DEF StartRemoval
<1>2. CASE Target
  <2>1. ASSUME NEW local \in BOOLEAN
        PROVE  [removal EXCEPT !.pc = "observe", !.local = local].pc = "observe"
    BY DEF RemovalStates
  <2>2. \/ removal'.pc \in {"observe", "idle"}
        \/ panel.app = "gone" /\ removal'.pc = "leave"
    BY <1>2, <2>1, Proceeding, Stopping DEF Target
  <2> QED BY <1>2, <2>2 DEF Target
<1>3. CASE Observe
  <2>1. [removal EXCEPT !.pc = "hand", !.home = panel.home].pc = "hand"
    BY DEF RemovalStates
  <2>2. removal'.pc \in {"hand", "idle"} /\ UNCHANGED panel
    BY <1>3, <2>1, Stopping DEF Observe
  <2> QED BY <2>2
<1>4. CASE HandBack
  <2>1. \/ Answers /\ panel' \in HandsBack(panel)
        \/ UNCHANGED panel
    BY <1>4 DEF HandBack
  <2>2. /\ panel'.app = panel.app /\ panel'.op = panel.op /\ panel'.shelly = panel.shelly
        /\ panel'.owes => panel.owes
        /\ panel.home = "vendor" => panel'.home = "vendor"
    BY <2>1 DEF HandsBack, Panels
  <2>3. \/ removal'.pc = "idle"
        \/ removal'.pc \in {"shell", "vendor"} /\ ~panel'.owes /\ panel'.home = "app"
        \/ removal'.pc = "setup" /\ ~panel'.owes
    <3>1. CASE Answers /\ panel' \in HandsBack(panel)
               /\ \/ Confirmed(panel') /\ Required("setup")
                  \/ ~panel'.owes /\ panel'.home = "app" /\ Required("shell")
                  \/ ~panel'.owes /\ panel'.home = "app" /\ Proceeds("vendor")
                  \/ Stops
      BY <3>1, Requiring, Proceeding, Stopping DEF Confirmed
    <3>2. CASE IF removal.home = "vendor" /\ ~panel.shelly THEN Required("setup") ELSE Stops
      BY <2>2, <3>2, Requiring, Stopping
    <3> QED BY <1>4, <3>1, <3>2 DEF HandBack
  <2> QED BY <2>1, <2>2, <2>3 DEF Answers
<1>5. CASE SetLauncher
  <2>1. /\ panel'.app = panel.app /\ panel'.op = panel.op /\ panel'.shelly = panel.shelly
        /\ panel'.owes = panel.owes /\ panel'.home \in {panel.home, "vendor"}
    BY <1>5 DEF SetLauncher, Panels
  <2>2. removal'.pc \in {"setup", "idle"} /\ ~panel.owes
    BY <1>5, Requiring, Stopping DEF SetLauncher
  <2> QED BY <2>1, <2>2
<1>6. CASE Restore
  <2>1. removal.pc \in Late /\ removal'.pc \in {"sizing", "network", "remove", "idle"}
    BY <1>6, Requiring DEF Restore, Late
  <2> QED BY <1>6, <2>1 DEF Restore, Late
<1>7. CASE Detach
  <2>1. removal'.pc \in {"remove", "idle"}
    BY <1>7, Requiring, Stopping DEF Detach
  <2> QED BY <1>7, <2>1 DEF Detach
<1>8. CASE Remove
  <2>1. LET p == [panel EXCEPT !.app = "gone", !.op = None]
        IN  p.app = "gone" /\ p.op = None /\ p.home = panel.home /\ p.owes = panel.owes
            /\ p.shelly = panel.shelly
    BY DEF Panels
  <2>2. /\ panel'.home = panel.home /\ panel'.owes = panel.owes
        /\ panel'.shelly = panel.shelly
        /\ \/ panel'.app = "gone" /\ panel'.op = None /\ panel.home = "vendor"
           \/ UNCHANGED panel
    BY <1>8, <2>1 DEF Remove, HomeIsOther
  <2>3. \/ removal'.pc \in {"idle", "again"}
        \/ removal'.pc = "leave" /\ panel'.app = "gone"
    BY <1>8, Proceeding, Stopping DEF Remove
  <2>4. panel.home = "app" \/ ~panel.owes
    BY <1>8 DEF Remove
  <2> QED BY <2>2, <2>3, <2>4
<1>9. CASE LookAgain
  <2>1. /\ removal'.pc = "idle" \/ (removal'.pc = "leave" /\ panel.app = "gone")
        /\ UNCHANGED panel
    BY <1>9, Proceeding, Stopping DEF LookAgain
  <2> QED BY <1>9, <2>1 DEF LookAgain
<1>10. CASE Leave
  BY <1>10, Stopping DEF Leave
<1> QED BY <1>1, <1>2, <1>3, <1>4, <1>5, <1>6, <1>7, <1>8, <1>9, <1>10 DEF RemovalStep

LEMMA NextKeeps == Typed /\ HandedBack /\ Left /\ [Next]_vars => HandedBack' /\ Left'
<1> SUFFICES ASSUME Typed, HandedBack, Left, [Next]_vars PROVE HandedBack' /\ Left'
  OBVIOUS
<1>1. CASE Restart
  BY <1>1 DEF Restart, RemovalStops, NoRemoval, HandedBack, Left, RemovalIsComplete
<1>2. CASE UNCHANGED vars
  BY <1>2 DEF vars, deviceVars, removalVars, HandedBack, Left, RemovalIsComplete
<1> QED BY <1>1, <1>2, PanelStepKeeps, UpdateKeeps, RemovalKeeps, RecoveryKeeps DEF Next

(***************************************************************************)
(* The app is uninstalled only while another launcher is HOME and the      *)
(* vendor has its setting back, and a removal ends, with its entry, only   *)
(* once the app has left: over any interruption, refusal, lost answer or   *)
(* repeat of the removal (async_remove_app).                               *)
(***************************************************************************)
THEOREM RemovalCompletes == Spec => []RemovalIsComplete
<1>1. Init => HandedBack /\ Left
  BY DEF Init, DeviceInit, RemovalInit, NoRemoval, HandedBack, Left, RemovalIsComplete
<1>2. Left => RemovalIsComplete
  BY DEF Left
<1> QED BY <1>1, <1>2, NextKeeps, OperationsTyped, PTL DEF Spec

-----------------------------------------------------------------------------
(***************************************************************************)
(* The record.  Builds only grow, so what was seen once is a lower bound   *)
(* of what the panel runs; a begun install is on record, for its build or  *)
(* a later one, until a build as new has been seen.                        *)
(***************************************************************************)
OnRecord(b) == record # None /\ record.target # None /\ record.target >= b

SeenIsRun ==
  /\ seen <= panel.build
  /\ reading # None => reading <= seen
  /\ install.pc \in {"webview", "clear"} => seen >= install.target

BegunIsTarget ==
  /\ install.pc \in {"route", "bundle"} => begun = None
  /\ install.pc \notin {"idle", "route", "bundle"} => begun \in {None, install.target}

BegunIsKept == entry /\ begun # None => OnRecord(begun) \/ seen >= begun

Followed == SeenIsRun /\ BegunIsTarget /\ BegunIsKept

LEMMA BuildsAreNumbers ==
  ASSUME Typed
  PROVE  /\ panel.build \in Builds /\ seen \in Builds /\ None \notin Builds
         /\ Builds \subseteq Nat /\ reading \in Builds \cup {None}
         /\ begun \in Builds \cup {None} /\ record \in Reports \cup {None}
         /\ (record # None => record.target \in Builds \cup {None})
         /\ install \in InstallStates /\ HasBuild(install) /\ None \notin Reports
BY DeviceAssumption, ReportAssumption
   DEF Typed, TypeOK, DeviceTypeOK, UpdateTypeOK, BuildsAreKnown, Reports, InstallStates, HasBuild

\* Android never replaces the app by an older build.
LEMMA BuildGrows ==
  ASSUME Typed, Next
  PROVE  panel'.build >= panel.build
<1>0. panel \in Panels /\ panel.build \in Nat /\ (Busy => panel.op.to \in Nat)
  BY DeviceAssumption DEF Typed, TypeOK, DeviceTypeOK, BuildsAreKnown, Panels
<1>1. CASE PanelStep
  <2>1. CASE SlotEnds
    <3>1. [panel EXCEPT !.op.state = "done", !.op.to = None, !.build = panel.op.to,
                        !.app = "down"].build = panel.op.to
      BY <1>0 DEF Panels
    <3>2. ASSUME NEW s \in {"refused", "failed"}
          PROVE  [panel EXCEPT !.op.state = s, !.op.to = None].build = panel.build
      BY <1>0 DEF Panels
    <3>3. \/ panel'.build = panel.op.to /\ panel.op.to >= panel.build
          \/ panel'.build = panel.build
      BY <2>1, <3>1, <3>2 DEF SlotEnds
    <3>4. Busy BY <2>1 DEF SlotEnds
    <3> QED BY <1>0, <3>3, <3>4
  <2>2. CASE UpdatesItself \/ Comes \/ VendorStops \/ TakesHome \/ DeleteEntry
    <3>1. panel'.build = panel.build
      BY <1>0, <2>2 DEF UpdatesItself, Comes, VendorStops, TakesHome, DeleteEntry, Panels
    <3> QED BY <1>0, <3>1
  <2> QED BY <1>1, <2>1, <2>2 DEF PanelStep
<1>2. CASE Update
  <2>1. CASE Commit
    BY <1>0, <2>1 DEF Commit, Committed, Panels
  <2>2. CASE AdbInstall
    <3>1. ASSUME NEW app \in {"up", "down"}
          PROVE  [panel EXCEPT !.build = install.target, !.app = app].build = install.target
      BY <1>0 DEF Panels
    <3>2. \/ panel'.build = install.target /\ install.target >= panel.build
          \/ panel' = panel
      BY <2>2, <3>1 DEF AdbInstall
    <3>3. install.target \in Nat
      BY <2>2, BuildsAreNumbers DEF AdbInstall, InstallAt, HasBuild
    <3> QED BY <1>0, <3>2, <3>3
  <2>3. CASE Relaunch
    BY <1>0, <2>3 DEF Relaunch, Panels
  <2>4. CASE UNCHANGED panel
    BY <1>0, <2>4
  <2> QED BY <1>2, <2>1, <2>2, <2>3, <2>4 DEF Update, UpdateStep, StartInstall, RouteChosen,
      BundleSaved, Prepared, Staged, LookForBuild, RefusalSeen, WaitEnds, WebView, Succeed, Fail,
      StartObserver, ObserverPolls, ObserverVerifies, ObserverGivesUp, PollReads, PollClears,
      ReportWebView, RetryWebView, RetryWebViewEnds, Reload
<1>3. CASE Removal
  <2>1. CASE HandBack
    <3>1. panel'.build = panel.build
      BY <1>0, <2>1 DEF HandBack, HandsBack, Panels
    <3> QED BY <1>0, <3>1
  <2>2. CASE SetLauncher BY <1>0, <2>2 DEF SetLauncher, Panels
  <2>3. CASE Remove
    <3>1. panel'.build = panel.build
      BY <1>0, <2>3 DEF Remove, Panels
    <3> QED BY <1>0, <3>1
  <2>4. CASE UNCHANGED panel BY <1>0, <2>4
  <2> QED BY <1>3, <2>1, <2>2, <2>3, <2>4 DEF Removal, RemovalStep, StartRemoval, Target, Observe,
      Restore, Detach, LookAgain, Leave
<1>4. CASE Recovery
  <2>1. panel' \in {panel, [panel EXCEPT !.app = "up"]}
    BY <1>4 DEF Recovery, RecoveryStep, Changed, SessionOpens, SessionEnds, Observed,
       Arm, GivesUp, Grace, Health, Look, Press, Closes, deviceVars
  <2> QED BY <1>0, <2>1 DEF Panels
<1>5. CASE Restart
  BY <1>0, <1>5 DEF Restart
<1> QED BY <1>1, <1>2, <1>3, <1>4, <1>5 DEF Next

\* A report is withdrawn for a build as new, or a report without a build.
LEMMA ClearedReached ==
  ASSUME Typed, NEW b \in Builds, NEW verified, NEW web, Cleared(b, verified, web)
  PROVE  \/ record' = record
         \/ record # None /\ record.target # None => b >= record.target
BY DEF Cleared, Reached, reportVars

LEMMA RecordedIsNew ==
  ASSUME Typed, NEW target \in Builds \cup {None}, NEW before \in Builds \cup {None},
         NEW web \in BOOLEAN, NEW raised, Recorded(target, before, web, raised)
  PROVE  /\ entry => record' # None /\ record'.target = target
         /\ ~entry => record' = record
         /\ record # None => record' # None
<1>1. [target |-> target, before |-> before, web |-> web] \in Reports
  BY DEF Reports
<1> QED BY <1>1, ReportAssumption DEF Recorded, reportVars

LEMMA SeenMoves ==
  ASSUME UpdateStep
  PROVE  seen' \in {seen, panel.build} /\ reading' \in {reading, None, seen'}
BY DEF UpdateStep, StartInstall, RouteChosen, BundleSaved, Prepared, Staged, Commit,
   AdbInstall, LookForBuild, RefusalSeen, WaitEnds, Relaunch, WebView, Succeed, Fail,
   StartObserver, ObserverPolls, ObserverVerifies, ObserverGivesUp, PollReads, PollClears,
   ReportWebView, RetryWebView, RetryWebViewEnds, Reload, taskVars, known

\* Where the task goes: with its build the same once it is past its bundle, and
\* to the WebView only when that build has been seen.
Past == Pcs \ {"route", "bundle"}

InstallMoves ==
  \/ install'.pc = "idle" /\ begun' = begun
  \/ install'.pc \in {"route", "bundle"} /\ begun' = None
  \/ install.pc = "bundle" /\ install'.pc = "prepare" /\ install'.target = install.target
     /\ begun' = install.target
  \/ /\ install.pc \in Past /\ install'.pc \in Past /\ install'.target = install.target
     /\ begun' = begun
     /\ \/ install'.pc \notin {"webview", "clear"}
        \/ install.pc \in {"webview", "clear"}
        \/ seen' = install.target
  \/ install' = install /\ begun' \in {begun, None}

LEMMA InstallMovesSo ==
  ASSUME Typed, BegunIsTarget, UpdateStep
  PROVE  InstallMoves
<1>0. install \in InstallStates
  BY BuildsAreNumbers
<1>1. Idle.pc = "idle" /\ [Idle EXCEPT !.pc = "route"].pc = "route"
  BY DEF Idle
<1>2. {"prepare", "adb", "stage", "commit", "wait", "webview", "clear", "fail", "relaunch"}
        \subseteq Past
  BY DEF Past, Pcs
<1>3. ASSUME install.pc \in Past, NEW pc \in Past, Goes(pc), begun' = begun,
             \/ pc \notin {"webview", "clear"}
             \/ install.pc \in {"webview", "clear"}
             \/ seen' = install.target
      PROVE  InstallMoves
  BY <1>0, <1>3 DEF InstallMoves, Goes, InstallStates
<1>18. \/ StartInstall \/ RouteChosen \/ BundleSaved \/ Prepared \/ Staged \/ Commit
       \/ AdbInstall \/ LookForBuild \/ RefusalSeen \/ WaitEnds \/ Relaunch \/ WebView
       \/ Succeed \/ Fail
       \/ UNCHANGED install /\ begun' \in {begun, None}
  <2>1. StartObserver \/ ObserverPolls \/ ObserverVerifies \/ ObserverGivesUp
          => UNCHANGED install /\ begun' \in {begun, None}
    BY DEF StartObserver, ObserverPolls, ObserverVerifies, ObserverGivesUp
  <2>2. PollReads \/ PollClears \/ ReportWebView \/ RetryWebView \/ RetryWebViewEnds \/ Reload
          => UNCHANGED install /\ begun' \in {begun, None}
    BY DEF PollReads, PollClears, ReportWebView, RetryWebView, RetryWebViewEnds, Reload, taskVars
  <2> QED BY <2>1, <2>2 DEF UpdateStep
<1>4. CASE StartInstall BY <1>1, <1>4 DEF StartInstall, InstallMoves
<1>5. CASE RouteChosen
  <2>1. ASSUME NEW route \in Routes, NEW target \in Builds
        PROVE  [install EXCEPT !.pc = "bundle", !.route = route, !.target = target].pc = "bundle"
    BY <1>0 DEF InstallStates
  <2>2. begun = None /\ begun' = None
    BY <1>5 DEF RouteChosen, InstallAt, BegunIsTarget
  <2>3. install'.pc \in {"bundle", "idle"}
    BY <1>1, <1>5, <2>1 DEF RouteChosen, Refused
  <2> QED BY <2>2, <2>3 DEF InstallMoves
<1>6. CASE BundleSaved
  <2>1. LET i == [install EXCEPT !.pc = "prepare", !.before = seen]
        IN  i.pc = "prepare" /\ i.target = install.target
    BY <1>0 DEF InstallStates
  <2> QED BY <1>1, <1>6, <2>1 DEF BundleSaved, Refused, InstallAt, InstallMoves
<1>7. CASE Prepared
  <2>1. install.pc = "prepare" /\ begun' = begun
        /\ (Goes("adb") \/ Goes("stage") \/ Goes("fail"))
    BY <1>7 DEF Prepared, InstallAt
  <2> QED BY <1>2, <1>3, <2>1
<1>8. CASE Staged BY <1>2, <1>3, <1>8 DEF Staged, InstallAt
<1>9. CASE Commit BY <1>2, <1>3, <1>9 DEF Commit, InstallAt
<1>10. CASE AdbInstall
  <2>1. install.pc = "adb" /\ begun' = begun /\ (Goes("wait") \/ Goes("fail"))
    BY <1>10 DEF AdbInstall, InstallAt
  <2> QED BY <1>2, <1>3, <2>1
<1>11. CASE LookForBuild
  <2>1. /\ install.pc = "wait" /\ begun' = begun
        /\ install' = install \/ (Goes("webview") /\ seen' = install.target)
    BY <1>11 DEF LookForBuild, IsTheBuild, InstallAt
  <2>2. CASE install' = install
    BY <2>1, <2>2 DEF InstallMoves
  <2> QED BY <1>2, <1>3, <2>1, <2>2
<1>12. CASE RefusalSeen
  <2>1. LET i == [install EXCEPT !.pc = "prepare", !.route = "adb", !.before = seen]
        IN  i.pc = "prepare" /\ i.target = install.target
    BY <1>0 DEF InstallStates
  <2>2. install.pc = "wait" /\ begun' = begun
        /\ \/ install'.pc = "prepare" /\ install'.target = install.target
           \/ Goes("fail")
    BY <1>12, <2>1 DEF RefusalSeen, InstallAt
  <2> QED BY <1>2, <1>3, <2>2 DEF InstallMoves
<1>13. CASE WaitEnds
  <2>1. install.pc = "wait" /\ begun' = begun /\ (Goes("relaunch") \/ Goes("fail"))
    BY <1>13 DEF WaitEnds, InstallAt
  <2> QED BY <1>2, <1>3, <2>1
<1>14. CASE Relaunch
  <2>1. LET i == [install EXCEPT !.pc = "wait", !.again = TRUE]
        IN  i.pc = "wait" /\ i.target = install.target
    BY <1>0 DEF InstallStates
  <2>2. install.pc = "relaunch" /\ begun' = begun
        /\ \/ install'.pc = "wait" /\ install'.target = install.target
           \/ Goes("fail")
    BY <1>14, <2>1 DEF Relaunch, InstallAt
  <2> QED BY <1>2, <1>3, <2>2 DEF InstallMoves
<1>15. CASE WebView
  <2>1. ASSUME NEW web \in BOOLEAN
        PROVE  LET i == [install EXCEPT !.pc = "fail", !.web = web]
               IN  i.pc = "fail" /\ i.target = install.target
    BY <1>0 DEF InstallStates
  <2>2. install.pc = "webview" /\ begun' = begun
        /\ \/ install'.pc = "fail" /\ install'.target = install.target
           \/ Goes("clear")
    BY <1>15, <2>1 DEF WebView, InstallAt
  <2> QED BY <1>2, <1>3, <2>2 DEF InstallMoves
<1>16. CASE Succeed \/ Fail BY <1>1, <1>16 DEF Succeed, Fail, Finished, InstallMoves
<1>17. CASE UNCHANGED install /\ begun' \in {begun, None} BY <1>17 DEF InstallMoves
<1> QED BY <1>4, <1>5, <1>6, <1>7, <1>8, <1>9, <1>10, <1>11, <1>12, <1>13, <1>14, <1>15,
    <1>16, <1>17, <1>18

\* How a step changes the record.
RecordMoves ==
  \/ record' = record
  \/ \* withdrawn for a build as new, which has been seen
     record # None /\ (record.target # None => seen' >= record.target)
  \/ \* or replaced by the report of the install
     /\ record' # None
     /\ begun' # None => record'.target = begun'
  \/ \* or a first one, of the WebView or by the owner of no install
     record = None

LEMMA RecordMovesSo ==
  ASSUME Typed, SeenIsRun, BegunIsTarget, UpdateStep
  PROVE  RecordMoves
<1>0. /\ seen \in Builds /\ panel.build \in Builds /\ Builds \subseteq Nat
      /\ None \notin Builds /\ reading \in Builds \cup {None}
      /\ (record # None => record.target \in Builds \cup {None})
      /\ install \in InstallStates /\ HasBuild(install)
      /\ observer \in Builds \cup {None}
  BY BuildsAreNumbers DEF Typed, TypeOK, UpdateTypeOK
<1>11. ASSUME NEW b \in Builds, b <= seen, seen' = seen,
              \/ record' = record
              \/ record # None /\ record.target # None => b >= record.target
       PROVE  RecordMoves
  <2>1. CASE record # None /\ record.target # None
    <3>1. record.target \in Nat /\ b \in Nat /\ seen \in Nat
      BY <1>0, <2>1
    <3> QED BY <1>11, <2>1, <3>1 DEF RecordMoves
  <2> QED BY <1>11, <2>1 DEF RecordMoves
<1> USE DEF RecordMoves
<1>1. CASE RouteChosen
  <2>1. begun' = None
    BY <1>1 DEF RouteChosen, InstallAt, BegunIsTarget
  <2>2. ASSUME NEW target \in Builds, Recorded(target, None, FALSE, TRUE)
        PROVE  record' # None \/ record' = record
    BY <2>2, RecordedIsNew DEF Recorded, reportVars
  <2> QED BY <1>1, <2>1, <2>2 DEF RouteChosen, reportVars
<1>2. CASE BundleSaved
  <2>1. install.target \in Builds BY <1>0, <1>2 DEF BundleSaved, InstallAt, HasBuild
  <2>2. ASSUME NEW web \in BOOLEAN, Recorded(install.target, None, web, FALSE),
               begun' = install.target
        PROVE  RecordMoves
    BY <2>1, <2>2, RecordedIsNew DEF Recorded, reportVars
  <2> QED BY <1>2, <2>2 DEF BundleSaved, Bundled, reportVars
<1>3. CASE Succeed
  <2>1. install.pc = "clear" /\ install.target \in Builds
    BY <1>0, <1>3 DEF Succeed, InstallAt, HasBuild
  <2>2. seen' = seen /\ seen >= install.target
    BY <1>3, <2>1 DEF Succeed, SeenIsRun, known
  <2>3. \/ record' = record
        \/ record # None /\ record.target # None => install.target >= record.target
    BY <1>3, <2>1, ClearedReached DEF Succeed
  <2> QED BY <1>11, <2>1, <2>2, <2>3
<1>4. CASE Fail
  <2>1. /\ install.target \in Builds /\ install.web \in BOOLEAN
        /\ begun' \in {None, install.target}
    BY <1>0, <1>4 DEF Fail, InstallAt, HasBuild, InstallStates, BegunIsTarget
  <2>2. ASSUME Recorded(install.target, None, install.web, TRUE)
        PROVE  RecordMoves
    BY <2>1, <2>2, RecordedIsNew DEF Recorded, reportVars
  <2> QED BY <1>4, <2>2 DEF Fail, reportVars
<1>5. CASE ObserverVerifies
  <2>1. seen' = panel.build BY <1>5 DEF ObserverVerifies
  <2> QED BY <1>0, <1>5, <2>1, ClearedReached DEF ObserverVerifies
<1>6. CASE ObserverGivesUp
  <2>1. ASSUME Recorded(None, observer, FALSE, TRUE), record' # record
        PROVE  record' # None /\ begun' = None
    BY <1>0, <1>6, <2>1, RecordedIsNew DEF ObserverGivesUp, Recorded, reportVars
  <2> QED BY <1>6, <2>1 DEF ObserverGivesUp, reportVars
<1>7. CASE PollClears
  <2>1. reading \in Builds /\ reading <= seen /\ seen' = seen
    BY <1>0, <1>7 DEF PollClears, SeenIsRun
  <2>2. \/ record' = record
        \/ record # None /\ record.target # None => reading >= record.target
    BY <1>7, <2>1, ClearedReached DEF PollClears, reportVars
  <2> QED BY <1>11, <2>1, <2>2
<1>8. CASE ReportWebView
  BY <1>8 DEF ReportWebView, reportVars
<1>9. CASE RetryWebViewEnds
  <2>1. seen' = seen BY <1>9 DEF RetryWebViewEnds, known
  <2>2. \/ record' = record
        \/ record # None /\ record.target # None => seen >= record.target
    BY <1>0, <1>9, ClearedReached DEF RetryWebViewEnds, reportVars
  <2> QED BY <2>1, <2>2
<1>10. CASE UNCHANGED record
  BY <1>10
<1> QED BY <1>1, <1>2, <1>3, <1>4, <1>5, <1>6, <1>7, <1>8, <1>9, <1>10
    DEF UpdateStep, StartInstall, Prepared, Staged, Commit, AdbInstall, LookForBuild,
        RefusalSeen, WaitEnds, Relaunch, WebView, StartObserver, ObserverPolls, PollReads,
        RetryWebView, Reload, reportVars

LEMMA UpdateFollows ==
  ASSUME Typed, Followed, Update
  PROVE  Followed'
<1>0. /\ seen \in Nat /\ panel.build \in Nat /\ panel'.build \in Nat
      /\ (reading # None => reading \in Nat)
      /\ (begun # None => begun \in Nat) /\ Builds \subseteq Nat /\ None \notin Builds
      /\ (record # None /\ record.target # None => record.target \in Nat)
      /\ HasBuild(install) /\ HasBuild(install') /\ entry' = entry /\ UpdateStep
  BY BuildsAreNumbers, DeviceAssumption, UpdatePanelTyped, UpdateInstallTyped,
     UpdateClaimTyped DEF Panels, Update
<1>1. SeenIsRun /\ BegunIsTarget /\ BegunIsKept /\ panel'.build >= panel.build
  BY BuildGrows DEF Followed, Next
<1>2. seen' \in {seen, panel.build} /\ reading' \in {reading, None, seen'}
  BY <1>0, SeenMoves
<1>3. InstallMoves /\ RecordMoves
  BY <1>0, <1>1, InstallMovesSo, RecordMovesSo
<1>4. seen' \in Nat /\ seen' >= seen /\ seen' <= panel'.build
  BY <1>0, <1>1, <1>2 DEF SeenIsRun
<1>5. SeenIsRun'
  <2>1. reading' # None => reading' <= seen'
    BY <1>0, <1>1, <1>2, <1>4 DEF SeenIsRun
  <2>2. ASSUME install'.pc \in {"webview", "clear"}
        PROVE  seen' >= install'.target
    <3>1. install'.target \in Nat
      BY <1>0, <2>2 DEF HasBuild
    <3>2. \/ install.pc \in {"webview", "clear"} /\ install'.target = install.target
          \/ seen' = install'.target
      BY <1>3, <2>2 DEF InstallMoves
    <3> QED BY <1>0, <1>1, <1>4, <3>1, <3>2 DEF SeenIsRun
  <2> QED BY <1>4, <2>1, <2>2 DEF SeenIsRun
<1>6. BegunIsTarget'
  BY <1>1, <1>3 DEF BegunIsTarget, InstallMoves, Past, Pcs
<1>7. BegunIsKept'
  <2>1. CASE BundleSaved /\ begun' # begun
    <3>1. Bundled /\ begun' = install.target /\ install.target \in Builds
      BY <1>0, <2>1 DEF BundleSaved, InstallAt, HasBuild
    <3>2. ASSUME NEW web \in BOOLEAN, Recorded(install.target, None, web, FALSE), entry
          PROVE  record' # None /\ record'.target = install.target
      BY <3>1, <3>2, RecordedIsNew
    <3>3. CASE record # None /\ record.target # None /\ record.target > install.target
      <4>1. record' = record BY <3>1, <3>3 DEF Bundled, reportVars
      <4>2. install.target \in Nat /\ record.target \in Nat
        BY <1>0, <3>1, <3>3
      <4>3. record'.target >= begun'
        BY <3>1, <3>3, <4>1, <4>2
      <4> QED BY <3>3, <4>1, <4>3 DEF BegunIsKept, OnRecord
    <3>4. CASE ~(record # None /\ record.target # None /\ record.target > install.target)
      <4>1. entry => record' # None /\ record'.target = install.target
        BY <3>1, <3>2, <3>4 DEF Bundled
      <4>2. install.target \in Nat /\ install.target # None
        BY <1>0, <3>1
      <4>3. entry' => record'.target >= begun' /\ record'.target # None /\ record' # None
        BY <1>0, <3>1, <4>1, <4>2
      <4> QED BY <4>3 DEF BegunIsKept, OnRecord
    <3> QED BY <3>3, <3>4
  <2>2. CASE begun' = begun
    <3> SUFFICES ASSUME entry, begun # None PROVE OnRecord(begun)' \/ seen' >= begun
      BY <1>0, <2>2 DEF BegunIsKept
    <3>1. CASE seen >= begun
      BY <1>0, <1>4, <3>1
    <3>2. CASE OnRecord(begun)
      <4>1. record # None /\ record.target # None /\ record.target >= begun
        BY <3>2 DEF OnRecord
      <4>2. CASE record' = record
        BY <2>2, <4>1, <4>2 DEF OnRecord
      <4>3. CASE seen' >= record.target
        BY <1>0, <1>4, <4>1, <4>3
      <4>4. CASE record' # None /\ record'.target = begun'
        BY <1>0, <2>2, <4>4 DEF OnRecord
      <4> QED BY <1>3, <2>2, <4>1, <4>2, <4>3, <4>4 DEF RecordMoves
    <3> QED BY <1>1, <3>1, <3>2 DEF BegunIsKept
  <2>3. CASE begun' = None
    BY <2>3 DEF BegunIsKept
  <2>4. begun' \in {begun, None} \/ BundleSaved
    BY <1>0 DEF UpdateStep, StartInstall, RouteChosen, Prepared, Staged, Commit, AdbInstall,
       LookForBuild, RefusalSeen, WaitEnds, Relaunch, WebView, Succeed, Fail, StartObserver,
       ObserverPolls, ObserverVerifies, ObserverGivesUp, PollReads, PollClears, ReportWebView,
       RetryWebView, RetryWebViewEnds, Reload
  <2> QED BY <2>1, <2>2, <2>3, <2>4
<1> QED BY <1>5, <1>6, <1>7 DEF Followed

LEMMA OthersFollow ==
  ASSUME Typed, Followed, PanelStep \/ Removal \/ Recovery \/ Restart
  PROVE  Followed'
<1>0. /\ seen \in Nat /\ panel.build \in Nat /\ Typed'
      /\ panel'.build >= panel.build
  BY BuildsAreNumbers, BuildGrows, PanelStepTyped, RemovalTyped, RecoveryTyped, RestartTyped
     DEF Next
<1>1. panel'.build \in Nat
  BY <1>0, DeviceAssumption DEF Typed, TypeOK, DeviceTypeOK
<1>2. seen' = seen /\ begun' = begun /\ record' = record
  BY DEF PanelStep, Removal, Recovery, Restart, UpdatesStop, updateVars, known, reportVars
<1>3. \/ install' = install /\ reading' = reading
      \/ install' = Idle /\ reading' = None
  BY DEF PanelStep, Removal, Recovery, Restart, UpdatesStop, updateVars, known, taskVars
<1>4. entry' => entry
  BY DEF PanelStep, SlotEnds, UpdatesItself, Comes, VendorStops, TakesHome, DeleteEntry,
     Removal, RemovalStep, StartRemoval, Target, Observe, HandBack, SetLauncher, Restore,
     Detach, Remove, LookAgain, Leave, Recovery, RecoveryStep, Changed, SessionOpens,
     SessionEnds, Observed, Arm, GivesUp, Grace, Health, Look, Press, Closes, deviceVars, Restart
<1>5. SeenIsRun'
  <2>1. seen' <= panel'.build
    BY <1>0, <1>1, <1>2 DEF Followed, SeenIsRun
  <2> QED BY <1>2, <1>3, <2>1 DEF Followed, SeenIsRun, Idle
<1>6. BegunIsTarget'
  BY <1>2, <1>3 DEF Followed, BegunIsTarget, Idle
<1>7. BegunIsKept'
  BY <1>2, <1>4 DEF Followed, BegunIsKept, OnRecord
<1> QED BY <1>5, <1>6, <1>7 DEF Followed

LEMMA NextFollows == Typed /\ Followed /\ [Next]_vars => Followed'
<1>1. Typed /\ Followed /\ UNCHANGED vars => Followed'
  BY DEF vars, deviceVars, updateVars, taskVars, known, reportVars, Followed, SeenIsRun,
     BegunIsTarget, BegunIsKept, OnRecord
<1> QED BY <1>1, UpdateFollows, OthersFollow DEF Next

LEMMA FollowedFirst == Init => Followed
<1> SUFFICES ASSUME Init PROVE Followed
  OBVIOUS
<1>1. seen = panel.build /\ seen \in Nat
  BY InitTyped, BuildsAreNumbers DEF Init, UpdateInit
<1> QED BY <1>1 DEF Init, UpdateInit, Idle, Followed, SeenIsRun, BegunIsTarget, BegunIsKept

(***************************************************************************)
(* What the coordinator has seen, and what a poll still holds, is never    *)
(* ahead of the panel; and a begun install is on record, for its build or  *)
(* a later one, until a build as new has been seen.                        *)
(***************************************************************************)
THEOREM AlwaysFollowed == Spec => [](Typed /\ Followed)
BY InitTyped, NextTyped, FollowedFirst, NextFollows, PTL DEF Spec

(***************************************************************************)
(* An update that was under way when Home Assistant stopped, or whose      *)
(* panel did not come back, stays on record until a build as new has been  *)
(* seen, over restarts, polls that act late, the observer's own reports    *)
(* and retries (async_clear_update_failure_if_installed).                  *)
(***************************************************************************)
THEOREM UnfinishedStays == Spec => []UnfinishedIsRecorded
<1>1. Typed /\ Followed => UnfinishedIsRecorded
  <2> SUFFICES ASSUME Typed, Followed, install.pc = "idle", begun # None, entry, seen < begun
               PROVE  record # None
    BY DEF UnfinishedIsRecorded
  <2>1. begun \in Nat /\ seen \in Nat
    BY BuildsAreNumbers
  <2> QED BY <2>1 DEF Followed, BegunIsKept, OnRecord
<1> QED BY <1>1, AlwaysFollowed, PTL

(***************************************************************************)
(* A record with a build is withdrawn only once the panel has run that     *)
(* build or a later one, whoever withdraws it and however old its reading  *)
(* of the panel is (async_clear_update_failure_if_installed).              *)
(***************************************************************************)
THEOREM WithdrawnWhenReached == Spec => ForgottenOnlyWhenReached
<1> DEFINE Withdrawal == record # None /\ record' = None /\ record.target # None
                           => panel.build >= record.target
<1>1. Typed /\ Followed /\ [Next]_vars => Withdrawal
  <2> SUFFICES ASSUME Typed, Followed, [Next]_vars, record # None, record' = None,
                      record.target # None
               PROVE  panel.build >= record.target
    OBVIOUS
  <2>1. Update
    BY DEF Next, PanelStep, Removal, Recovery, Restart, UpdatesStop, vars, updateVars, reportVars
  <2>2. RecordMoves /\ seen' \in {seen, panel.build}
    BY <2>1, RecordMovesSo, SeenMoves DEF Update, Followed
  <2>3. seen' >= record.target
    BY <2>2 DEF RecordMoves
  <2>4. /\ seen \in Nat /\ panel.build \in Nat /\ record.target \in Nat
        /\ seen <= panel.build
    BY BuildsAreNumbers DEF Followed, SeenIsRun
  <2> QED BY <2>2, <2>3, <2>4
<1> QED BY <1>1, AlwaysFollowed, PTL DEF Spec, ForgottenOnlyWhenReached
=============================================================================
