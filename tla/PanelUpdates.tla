---------------------------- MODULE PanelUpdates ----------------------------
(***************************************************************************)
(* An update of one panel from the owner's Install to the panel's proven   *)
(* return (update.py, update_staging.py, update_route.py,                  *)
(* update_progress.py), the observer of an update the panel runs by itself,*)
(* the report of a failed update (repairs_failure.py) and the polls that   *)
(* withdraw it.                                                            *)
(*                                                                         *)
(*   install   the task of async_install: where it waits, the route and    *)
(*             build it chose, and the build it replaces                   *)
(*   attempt   UpdateProgress.attempt: what the entity shows               *)
(*   observer  the build the panel's own update started from, while it is  *)
(*             being followed                                              *)
(*   seen      the build of the coordinator's last snapshot                *)
(*   reading   the build a poll has read and not acted on yet              *)
(*   record    the last update event of the saved report; it survives a    *)
(*             restart                                                     *)
(*   issue     the report has its Repair                                   *)
(*   begun     the build of the last install, until a report of another    *)
(*             kind takes its place: history, for the properties only      *)
(*                                                                         *)
(* A step runs from one await to the next.  Deadlines may pass at any turn *)
(* of a wait; how long they are is not modelled.                           *)
(***************************************************************************)
EXTENDS ManagedPanel, Functions

VARIABLES install, attempt, observer, seen, reading, record, issue, begun

taskVars   == <<install, attempt, observer>>
known      == <<seen, reading>>
reportVars == <<record, issue>>
updateVars == <<taskVars, known, reportVars, begun>>

Routes == {"staged", "session", "adb"}
Stages == <<"installing", "away", "back">>
Rank(s) == IF s \in Range(Stages) THEN CHOOSE i \in 1..3 : Stages[i] = s ELSE 0

\* Where the task waits: for the route, for the bundle's save, for backup and
\* download, for the staged upload, for the commit, for the ADB install, for
\* the panel's return, for the relaunch, for the WebView, for the report.
Pcs == {"route", "bundle", "prepare", "stage", "commit", "adb", "wait",
        "relaunch", "webview", "clear", "fail"}

Idle == [pc |-> "idle", route |-> None, target |-> None, before |-> None,
         again |-> FALSE, web |-> FALSE]

Reports == [target : Builds \cup {None}, before : Builds \cup {None}, web : BOOLEAN]

ASSUME ReportAssumption == None \notin Reports

UpdateTypeOK ==
  /\ install \in [pc : Pcs \cup {"idle"}, route : Routes \cup {None},
                  target : Builds \cup {None}, before : Builds \cup {None},
                  again : BOOLEAN, web : BOOLEAN]
  /\ attempt \in {None, "begun", "installing", "away", "back"}
  /\ observer \in Builds \cup {None} /\ seen \in Builds
  /\ reading \in Builds \cup {None}
  /\ record \in Reports \cup {None} /\ issue \in BOOLEAN
  /\ begun \in Builds \cup {None}

UpdateInit ==
  /\ install = Idle /\ attempt = None /\ observer = None
  /\ seen = panel.build /\ reading = None
  /\ record = None /\ issue = FALSE
  /\ begun = None

-----------------------------------------------------------------------------
(***************************************************************************)
(* What the entity shows.                                                  *)
(***************************************************************************)
\* begin: a running attempt is kept.
Begun(a) == IF a = None THEN "begun" ELSE a

\* enter: a stage never goes back, and there is none without an attempt.
Entered(a, stage) ==
  IF a # None /\ Rank(stage) > Rank(a) THEN stage ELSE a

\* hold_through_restart, after a poll that did not reach the panel.
Held(a) == IF Rank(a) > 0 THEN Entered(a, "away") ELSE a

-----------------------------------------------------------------------------
(***************************************************************************)
(* The saved report.                                                       *)
(***************************************************************************)
\* reached, in async_clear_update_failure_if_installed: whether the build b
\* resolves the report r.
Reached(r, b, verified, web) ==
  /\ r # None /\ r.web => web
  /\ IF r # None /\ r.target # None THEN b >= r.target
     ELSE verified \/ (r # None /\ r.before # None /\ b > r.before)

\* async_clear_update_failure_if_installed: the report and its Repair go, or
\* both stay.
Cleared(b, verified, web) ==
  IF Reached(record, b, verified, web)
  THEN record' = None /\ issue' = FALSE
  ELSE UNCHANGED reportVars

\* async_record_update_failure; a deleted entry keeps neither report nor Repair.
Recorded(target, before, web, raised) ==
  IF entry
  THEN /\ record' = [target |-> target, before |-> before, web |-> web]
       /\ issue' = (issue \/ raised)
  ELSE UNCHANGED reportVars

\* Faulty variant: the unfinished update is noted only once it has failed.
BundledLater == UNCHANGED reportVars

\* async_record_update_bundle: an unfinished later build is not forgotten.
Bundled ==
  IF record # None /\ record.target # None /\ record.target > install.target
  THEN UNCHANGED reportVars
  ELSE \E web \in BOOLEAN : Recorded(install.target, None, web, FALSE)

-----------------------------------------------------------------------------
(***************************************************************************)
(* The install task.                                                       *)
(***************************************************************************)
InstallAt(pc) == install.pc = pc

Goes(pc) == install' = [install EXCEPT !.pc = pc]

\* The finally clauses of _async_install_claimed and async_install.
Finished == install' = Idle /\ attempt' = None /\ Released

\* A refusal before the attempt begins leaves through async_install alone.
Refused == install' = Idle /\ UNCHANGED attempt /\ Released

\* async_install, up to the wait for the route.
StartInstall ==
  /\ InstallAt("idle") /\ Claimable("update")
  /\ install' = [Idle EXCEPT !.pc = "route"]
  /\ begun' = None
  /\ UNCHANGED <<panel, entry, attempt, observer, known, reportVars>>

\* async_install_route has answered.  With a route and a build to install the
\* task goes on, unless an update is already in progress.
RouteChosen ==
  /\ InstallAt("route")
  /\ \/ \E route \in Routes, target \in Builds :
          /\ target > seen
          /\ route = "staged" => Answers
          /\ attempt = None /\ observer = None
          /\ install' = [install EXCEPT !.pc = "bundle", !.route = route,
                                        !.target = target]
          /\ UNCHANGED <<claim, attempt, record, issue>>
     \/ \* no route for the build on offer, which the report says
        \E target \in Builds :
          target > seen /\ Recorded(target, None, FALSE, TRUE) /\ Refused
     \/ Refused /\ UNCHANGED reportVars
  /\ UNCHANGED <<panel, entry, observer, known, begun>>

\* The bundle is saved, and the attempt begins; a failed save ends the task.
BundleSaved ==
  /\ InstallAt("bundle")
  /\ \/ /\ Bundled
        /\ install' = [install EXCEPT !.pc = "prepare", !.before = seen]
        /\ attempt' = Begun(attempt) /\ begun' = install.target
        /\ UNCHANGED claim
     \/ Refused /\ UNCHANGED <<record, issue, begun>>
  /\ UNCHANGED <<panel, entry, observer, known>>

\* UpdateOffer.allowed: the build is not older than the one the panel reported.
Allowed == install.target >= seen

\* _async_backup_panel and async_download_build, whose failures end the update.
\* The ADB route then proves the same panel and credential again.
Prepared ==
  /\ InstallAt("prepare")
  /\ \/ Allowed /\ Goes(IF install.route = "adb" THEN "adb" ELSE "stage")
     \/ Goes("fail")
  /\ UNCHANGED <<panel, claim, entry, attempt, observer, known, reportVars, begun>>

\* async_stage_apk and the checks of what was staged.
Staged ==
  /\ InstallAt("stage")
  /\ \/ Answers /\ Goes("commit")
     \/ Goes("fail")
  /\ UNCHANGED <<panel, claim, entry, attempt, observer, known, reportVars, begun>>

\* The slot takes the staged build.
Committed ==
  [panel EXCEPT !.op = [component |-> "APK", to |-> install.target, state |-> "running"]]

\* async_admit, then async_commit_apk; the answer of an accepted commit may be
\* lost, which reads as a panel that did not accept it.
Commit ==
  /\ InstallAt("commit")
  /\ \/ /\ Answers /\ ~Busy /\ Allowed
        /\ panel' = Committed
        /\ \/ Goes("wait") /\ attempt' = Entered(attempt, "installing")
           \/ Goes("fail") /\ UNCHANGED attempt
     \/ Goes("fail") /\ UNCHANGED <<panel, attempt>>
  /\ UNCHANGED <<claim, entry, observer, known, reportVars, begun>>

\* async_update_installed_apk after its second proof of the panel, then
\* async_launch_installed_app.  Android's installer refuses, or replaces the
\* app and starts it; a connection lost in between leaves either.
AdbInstall ==
  /\ InstallAt("adb")
  /\ \/ /\ panel.app # "gone" /\ Allowed /\ install.target >= panel.build
        /\ \E app \in {"up", "down"} :
             panel' = [panel EXCEPT !.build = install.target, !.app = app]
        /\ \/ Goes("wait") /\ attempt' = Entered(attempt, "installing")
           \/ Goes("fail") /\ attempt' \in {attempt, Entered(attempt, "installing")}
     \/ Goes("fail") /\ UNCHANGED <<panel, attempt>>
  /\ UNCHANGED <<claim, entry, observer, known, reportVars, begun>>

\* Faulty variant: the version name is taken for the build.
IsTheVersion(b) == b # install.before /\ Version[b] = Version[install.target]

\* The running build is the one sent: another build than before, of the exact
\* version, package and number.
IsTheBuild(b) == b # install.before /\ b = install.target

\* One turn of async_wait_for_build.  The poll sets what the coordinator knows;
\* the build is proven once its dashboard shows as well.
LookForBuild ==
  /\ InstallAt("wait")
  /\ IF Answers
     THEN /\ seen' = panel.build
          /\ IF IsTheBuild(panel.build)
             THEN /\ attempt' = Entered(attempt, "back")
                  /\ \/ Goes("webview")
                     \/ UNCHANGED install  \* the dashboard does not show yet
             ELSE UNCHANGED <<install, attempt>>
     ELSE /\ attempt' = Held(attempt)
          /\ UNCHANGED <<seen, install>>
  /\ UNCHANGED <<panel, claim, entry, observer, reading, reportVars, begun>>

\* With watch_refusal and over HTTP, the panel's own answer is final.  A build
\* that only its name order ranks lower goes over ADB instead, from its backup on.
RefusalSeen ==
  /\ InstallAt("wait") /\ install.route = "staged" /\ Answers
  /\ panel.op # None /\ panel.op.component = "APK"
  /\ \/ /\ panel.op.state = "refused" /\ install.target > install.before
        /\ install' = [install EXCEPT !.pc = "prepare", !.route = "adb",
                                      !.before = seen]
     \/ panel.op.state \in {"refused", "failed"} /\ Goes("fail")
  /\ UNCHANGED <<panel, claim, entry, attempt, observer, known, reportVars, begun>>

\* The deadline passes.  An app that does not answer is started once over ADB.
WaitEnds ==
  /\ InstallAt("wait")
  /\ Goes(IF Answers \/ install.again THEN "fail" ELSE "relaunch")
  /\ UNCHANGED <<panel, claim, entry, attempt, observer, known, reportVars, begun>>

\* async_relaunch_stopped_app, only for the exact build and an absent app.
\* Started here, or back by itself, the app must still prove the build.
Relaunch ==
  /\ InstallAt("relaunch")
  /\ \/ /\ panel.app \in {"down", "stopped"} /\ panel.build = install.target
        /\ panel' = [panel EXCEPT !.app = "up"]
        /\ install' = [install EXCEPT !.pc = "wait", !.again = TRUE]
     \/ /\ Answers
        /\ install' = [install EXCEPT !.pc = "wait", !.again = TRUE]
        /\ UNCHANGED panel
     \/ ~Answers /\ Goes("fail") /\ UNCHANGED panel
  /\ UNCHANGED <<claim, entry, attempt, observer, known, reportVars, begun>>

\* async_update_webview: nothing to do or done, work left on the panel, or a
\* step that could not be taken.
WebView ==
  /\ InstallAt("webview")
  /\ \/ Goes("clear")
     \/ \E web \in BOOLEAN : install' = [install EXCEPT !.pc = "fail", !.web = web]
  /\ UNCHANGED <<panel, claim, entry, attempt, observer, known, reportVars, begun>>

Succeed ==
  /\ InstallAt("clear")
  /\ Cleared(install.target, TRUE, TRUE)
  /\ Finished
  /\ UNCHANGED <<panel, entry, observer, known, begun>>

\* The report is saved, or its save fails; the task ends either way.
Fail ==
  /\ InstallAt("fail")
  /\ \/ Recorded(install.target, None, install.web, TRUE)
     \/ UNCHANGED reportVars
  /\ Finished
  /\ UNCHANGED <<panel, entry, observer, known, begun>>

-----------------------------------------------------------------------------
(***************************************************************************)
(* The observer of an update the panel runs by itself; it reserves nothing.*)
(***************************************************************************)
\* _resume_running_operation and _start_observer.
StartObserver ==
  /\ observer = None /\ Answers /\ Running("ha-paneld")
  /\ observer' = seen
  /\ attempt' = Entered(Begun(attempt), "installing")
  /\ UNCHANGED <<panel, claim, entry, install, known, reportVars, begun>>

ObserverGone == observer' = None /\ attempt' = None

\* One turn of async_wait_for_installed_version without a result.
ObserverPolls ==
  /\ observer # None
  /\ IF Answers THEN seen' = panel.build /\ UNCHANGED attempt
     ELSE attempt' = Held(attempt) /\ UNCHANGED seen
  /\ UNCHANGED <<panel, claim, entry, install, observer, reading, reportVars, begun>>

\* A later build with its dashboard.
ObserverVerifies ==
  /\ observer # None /\ Answers /\ panel.build > observer
  /\ seen' = panel.build
  /\ Cleared(panel.build, TRUE, FALSE)
  /\ ObserverGone
  /\ UNCHANGED <<panel, claim, entry, install, reading, begun>>

\* The wait ends without one: unknown after a finished slot or a deadline, or
\* as a failure while the panel is still busy or its dashboard does not show.
ObserverGivesUp ==
  /\ observer # None
  /\ \/ UNCHANGED reportVars
     \/ /\ Running("ha-paneld") \/ panel.build > observer
        /\ Recorded(None, observer, FALSE, TRUE)
  /\ begun' = IF record' = record THEN begun ELSE None
  /\ ObserverGone
  /\ UNCHANGED <<panel, claim, entry, install, known>>

-----------------------------------------------------------------------------
(***************************************************************************)
(* Polls, the report's other owners, and restarts.                         *)
(***************************************************************************)
\* A poll reads health.  The answer is used after further awaits.
PollReads ==
  /\ entry
  /\ \/ Answers /\ seen' = panel.build /\ reading' = panel.build /\ UNCHANGED attempt
     \/ ~Answers /\ attempt' = Held(attempt) /\ UNCHANGED <<seen, reading>>
  /\ UNCHANGED <<panel, claim, entry, install, observer, reportVars, begun>>

\* _async_clear_update_failure: only a report with its Repair is looked at.
PollClears ==
  /\ reading # None
  /\ reading' = None
  /\ \E web \in BOOLEAN :
       IF issue THEN Cleared(reading, FALSE, web) ELSE UNCHANGED reportVars
  /\ UNCHANGED <<panel, claim, entry, taskVars, seen, begun>>

\* async_reconcile_webview_issue, in a poll: WebView work the panel holds is
\* reported when no update is.
ReportWebView ==
  /\ entry /\ Answers /\ claim = Free
  /\ IF record = None THEN Recorded(None, None, TRUE, TRUE) ELSE UNCHANGED reportVars
  /\ UNCHANGED <<panel, claim, entry, taskVars, seen, reading, begun>>

\* The Repair's Retry, when only the WebView is left (repairs.py): it reserves
\* the panel itself.
RetryWebView ==
  /\ entry /\ attempt = None /\ observer = None /\ Claimable("webview")
  /\ record # None /\ record.web
  /\ record.target # None => seen >= record.target
  /\ UNCHANGED <<panel, entry, taskVars, known, reportVars, begun>>

RetryWebViewEnds ==
  /\ claim = "webview"
  /\ Cleared(seen, TRUE, TRUE) \/ UNCHANGED reportVars
  /\ Released
  /\ UNCHANGED <<panel, entry, taskVars, known, begun>>

\* The entity is unloaded and set up again; an install in progress goes on.
Reload ==
  /\ ObserverGone
  /\ observer # None \/ attempt # None
  /\ UNCHANGED <<panel, claim, entry, install, known, reportVars, begun>>

\* Home Assistant stops.  Setup gives a saved report its Repair
\* (async_restore_update_failure).
UpdatesStop ==
  /\ install' = Idle /\ attempt' = None /\ observer' = None /\ reading' = None
  /\ issue' = (record # None /\ entry)
  /\ UNCHANGED <<seen, record, begun>>

UpdateStep ==
  \/ StartInstall \/ RouteChosen \/ BundleSaved \/ Prepared \/ Staged \/ Commit
  \/ AdbInstall \/ LookForBuild \/ RefusalSeen \/ WaitEnds \/ Relaunch \/ WebView
  \/ Succeed \/ Fail
  \/ StartObserver \/ ObserverPolls \/ ObserverVerifies \/ ObserverGivesUp
  \/ PollReads \/ PollClears \/ ReportWebView \/ RetryWebView \/ RetryWebViewEnds
  \/ Reload
=============================================================================
