--------------------------- MODULE InstallDevice ---------------------------
(***************************************************************************)
(* What an install does to the panel: the ADB operations of                *)
(* install_adb.py, the shell programs they run there (adb_protocol.py,     *)
(* previous_home.py, home_chooser.py) and the order install_executor.py    *)
(* and update_staging.py call them in.                                     *)
(*                                                                         *)
(* Home Assistant runs one operation at a time.  Each opens a connection,  *)
(* proves on it which panel answered, reads what it needs, and then sends  *)
(* programs.  The panel runs a program step by step; when the connection   *)
(* is lost, or Home Assistant stops waiting, the program may stop, or run  *)
(* on with nobody to read its answer.                                      *)
(***************************************************************************)
EXTENDS Naturals, Sequences, FiniteSets

CONSTANTS
  Panel,      \* the panel the owner approved
  Stranger,   \* another device that can get its address
  Launcher,   \* the HOME component the panel had
  Unset,      \* no record
  MaxJobs,    \* bound: installs and updates the owner starts
  MaxLosses,  \* bound: times Home Assistant is left without an answer
  MaxSwaps,   \* bound: times another device answers at the address
  MaxChoices  \* bound: changes of the renderer at the panel

VARIABLES
  dev,        \* the two devices
  linked,     \* the program of the present connection
  left,       \* a program whose connection is gone
  address,    \* the device that answers at the panel's address
  op,         \* the operation under way: of which phase, how far, on what
  job,        \* the number of the owner's install or update
  denied,     \* those the owner was told had installed nothing
  custody,    \* the panel had no app, and no job began while another's program
              \* still ran: the previous HOME is answered for
  losses, swaps, choices

deviceVars == <<dev, linked, left, address, op, job, denied, custody,
                losses, swaps, choices>>

\* A component's name is none of the words for what else HOME can be.
ASSUME HomeAssumption ==
  Panel # Stranger /\ Launcher \notin {"app", "chooser", "none", Unset} /\ Unset # "none"

Devices == {Panel, Stranger}

NoProgram == [steps |-> <<>>, answer |-> "", on |-> Panel, by |-> 0]

Busy(p) == p.steps # <<>>

\* HOME, the app and the renderer it shows, the HOME record it keeps, the
\* slot's HOME record, the slot, an update's own file, and the job that
\* installed the app.
DeviceState(home, app) ==
  [home |-> home, app |-> app, renderer |-> "builtin", kept |-> Unset,
   note |-> Unset, slot |-> "absent", file |-> "absent", by |-> 0]

NoOperation == [phase |-> "none", pc |-> "", on |-> Panel]

DeviceInit ==
  /\ \E app \in {"none", "old"} :
       /\ custody = (app = "none")
       /\ dev = [d \in Devices |-> DeviceState(Launcher, IF d = Panel THEN app ELSE "none")]
  /\ linked = NoProgram /\ left = NoProgram
  /\ address = Panel /\ op = NoOperation
  /\ job = 0 /\ denied = {}
  /\ losses = 0 /\ swaps = 0 /\ choices = 0

-----------------------------------------------------------------------------
(* The programs.  A step's operator is the set of what it can make of the  *)
(* device; a step that fails ends its program.                             *)

InstallProgram == <<"snapshot", "install", "hand", "drop">>
UpdateProgram == <<"replace">>
TransferProgram == <<"hand", "drop">>
GrantProgram == <<"policy", "home", "tap">>
LaunchProgram == <<"launch">>

\* Faulty variant: every cleanup drops the HOME record.
CleanupDiscards(phase) == <<"discard", "remove">>

\* Only the cleanup after an install that succeeded keeps the HOME record.
CleanupProgram(phase) ==
  IF phase = "installed" THEN <<"remove">> ELSE <<"discard", "remove">>

\* A record is never overwritten; the app and the chooser are recorded as none.
Snapshot(d) ==
  {IF d.note # Unset THEN d
   ELSE [d EXCEPT !.note = IF d.home = Launcher THEN Launcher ELSE "none"]}

\* Android may forget the preferred HOME when an app is added.
Install(d, by) ==
  IF d.app = "none" /\ d.slot = "whole"
  THEN {[d EXCEPT !.app = "new", !.home = home, !.by = by] :
          home \in {d.home, "chooser"}}
  ELSE {}

\* Each update has a path of its own; d.file is the last one's.
Replace(d, by) ==
  IF d.app # "none" /\ (by = job => d.file = "whole")
  THEN {[d EXCEPT !.app = "new", !.home = home, !.by = by] :
          home \in {d.home, "chooser"}}
  ELSE {}

\* The app stores the record, or is proven too old to.
Hand(d) ==
  IF d.note = Unset \/ d.app = "old" THEN {d}
  ELSE IF d.app = "new" THEN {[d EXCEPT !.kept = d.note]}
  ELSE {}

Drop(d) == {[d EXCEPT !.note = Unset]}

RemoveSlot(d) == {[d EXCEPT !.slot = "absent"]}

Erase(d, by) == {IF by = job THEN [d EXCEPT !.file = "absent"] ELSE d}

\* The app is asked for leave just before HOME is set, and again after the
\* wait for Android's chooser; a build from before the question needs none.
MayClaim(d) == d.app = "old" \/ d.renderer = "builtin"

SetHome(d) == IF MayClaim(d) THEN {d, [d EXCEPT !.home = "app"]} ELSE {d}


TapAlways(d) == IF MayClaim(d) THEN {d, [d EXCEPT !.home = "app"]} ELSE {d}

\* An external renderer gets the HOME back that the app keeps for it.
Restore(d) ==
  IF d.renderer = "restore" /\ d.kept = Launcher
  THEN {d, [d EXCEPT !.home = Launcher]} ELSE {d}

Effects(d, p) ==
  CASE Head(p.steps) = "snapshot" -> Snapshot(d)
    [] Head(p.steps) = "install" -> Install(d, p.by)
    [] Head(p.steps) = "replace" -> Replace(d, p.by)
    [] Head(p.steps) = "hand" -> Hand(d)
    [] Head(p.steps) \in {"drop", "discard"} -> Drop(d)
    [] Head(p.steps) = "remove" -> RemoveSlot(d)
    [] Head(p.steps) = "erase" -> Erase(d, p.by)
    [] Head(p.steps) = "home" -> SetHome(d)
    [] Head(p.steps) = "tap" -> TapAlways(d)
    [] Head(p.steps) = "restore" -> Restore(d)
    [] OTHER -> {d}

\* What the app answers about HOME decides the rest of the grants.
HomePolicy(d) ==
  IF MayClaim(d) THEN {<<"home", "tap">>, <<>>}
  ELSE IF d.renderer = "restore" THEN {<<"restore">>, <<>>}
  ELSE {<<>>}

Rest(d, p) ==
  CASE Head(p.steps) = "policy" -> HomePolicy(d)
    [] Head(p.steps) = "home" -> {IF d.home = "chooser" /\ MayClaim(d) THEN <<"tap">> ELSE <<>>}
    [] OTHER -> {Tail(p.steps)}

\* p after its first step, taken on a device that is now d.
Stepped(p, d) ==
  {[p EXCEPT !.steps = rest, !.answer = IF rest = <<>> THEN "ok" ELSE @] :
     rest \in Rest(d, p)}

\* The package manager's own refusal is told apart from any other failure.
Failed(p) ==
  [p EXCEPT !.steps = <<>>,
            !.answer = IF Head(p.steps) \in {"install", "replace"}
                       THEN "refused" ELSE "bad"]

LinkedSteps ==
  /\ Busy(linked)
  /\ \/ \E d \in Effects(dev[linked.on], linked) :
          /\ dev' = [dev EXCEPT ![linked.on] = d]
          /\ linked' \in Stepped(linked, d)
     \/ linked' = Failed(linked) /\ UNCHANGED dev
  /\ UNCHANGED <<left, address, op, job, denied, custody, losses, swaps, choices>>

LeftSteps ==
  /\ Busy(left)
  /\ \/ \E d \in Effects(dev[left.on], left) :
          /\ dev' = [dev EXCEPT ![left.on] = d]
          /\ \E p \in Stepped(left, d) : left' = IF Busy(p) THEN p ELSE NoProgram
     \/ left' = NoProgram /\ UNCHANGED dev
  /\ UNCHANGED <<linked, address, op, job, denied, custody, losses, swaps, choices>>

-----------------------------------------------------------------------------
(* Home Assistant                                                          *)

At(phase, pc) == op' = [op EXCEPT !.phase = phase, !.pc = pc]

Sends(steps, pc) ==
  /\ linked' = [steps |-> steps, answer |-> "", on |-> op.on, by |-> job]
  /\ op' = [op EXCEPT !.pc = pc]

\* Phases that end before a package is touched.
NothingInstalledBy(phase) == phase \in {"preflight", "stage", "update"}

Ends(told) ==
  /\ op' = NoOperation
  /\ linked' = NoProgram
  /\ denied' = IF told THEN denied \cup {job} ELSE denied

Goes(phase, pc) == At(phase, pc) /\ linked' = NoProgram /\ UNCHANGED denied

Quiet == UNCHANGED <<dev, left, address, job, custody, losses, swaps, choices>>

\* The owner starts an install, or an update to a path of its own.
StartJob(phase) ==
  /\ op.phase = "none" /\ job < MaxJobs
  /\ job' = job + 1
  /\ At(phase, "connect")
  /\ dev' = [dev EXCEPT ![Panel].file = "absent"]
  /\ custody' = (custody /\ ~Busy(left))
  /\ UNCHANGED <<linked, left, address, denied, losses, swaps, choices>>

\* The identity is read on the connection itself, before anything else.
PinnedPanel(d) == d = Panel

\* The panel may hold this build already, and only these bytes.
ExactBuild(d) == d.app = "new"

\* What the connection has to find before the operation goes on.
Admits(d, phase) ==
  CASE phase = "preflight" -> d.app = "none" \/ ExactBuild(d)
    [] phase = "stage" -> d.app = "none"
    [] phase = "install" -> d.app = "none" /\ d.slot = "whole"
    [] phase \in {"update", "start", "launch"} -> d.app # "none"
    [] OTHER -> TRUE

NotAdmitted ==
  /\ op.pc = "connect"
  /\ Ends(NothingInstalledBy(op.phase))
  /\ Quiet

Proves ==
  /\ op.pc = "connect" /\ PinnedPanel(address) /\ Admits(dev[address], op.phase)
  /\ op' = IF op.phase # "preflight"
           THEN [op EXCEPT !.pc = "proved", !.on = address]
           ELSE [op EXCEPT !.phase = IF ExactBuild(dev[address])
                                     THEN "installed" ELSE "stage"]
  /\ UNCHANGED <<linked, denied>>
  /\ Quiet

\* A leftover of an earlier attempt is removed, with its HOME record.
LooksAtSlot ==
  /\ op.phase = "stage" /\ op.pc = "proved"
  /\ IF dev[op.on].slot = "absent" THEN At("stage", "push") /\ UNCHANGED linked
     ELSE Sends(CleanupProgram("stage"), "clearing")
  /\ UNCHANGED denied /\ Quiet

SlotCleared ==
  /\ op.pc = "clearing" /\ ~Busy(linked)
  /\ IF linked.answer = "ok" THEN Goes("stage", "push") ELSE Ends(TRUE)
  /\ Quiet

\* The bytes cross: into the fixed slot, or to an update's own path.
Receives(d, file) ==
  IF op.phase = "stage" THEN [d EXCEPT !.slot = file] ELSE [d EXCEPT !.file = file]

Push ==
  /\ \/ op.pc \in {"push", "pushing"}
     \/ op.phase = "update" /\ op.pc = "proved"
  /\ dev' = [dev EXCEPT ![op.on] =
               Receives(@, IF op.pc = "pushing" THEN "whole" ELSE "part")]
  /\ At(op.phase, IF op.pc = "pushing" THEN "pushed" ELSE "pushing")
  /\ UNCHANGED <<linked, left, address, job, denied, custody, losses, swaps, choices>>

\* Size and hash of what arrived.
Arrived(d) == (IF op.phase = "stage" THEN d.slot ELSE d.file) = "whole"

Verifies ==
  /\ op.pc = "pushed" /\ Arrived(dev[op.on])
  /\ IF op.phase = "stage" THEN At("install", "connect") ELSE At("update", "ready")
  /\ UNCHANGED <<linked, denied>> /\ Quiet

\* A copy that broke off is cleared once: a clean install's on a connection of
\* its own, an update's on the one it has.
ClearsSlot == op.phase = "stage" /\ op.pc \in {"pushing", "pushed"}

ClearsFile == op.phase = "update" /\ op.pc \in {"pushing", "pushed", "ready"}

NotArrived ==
  /\ op.pc = "pushed" /\ ~Arrived(dev[op.on])
  /\ IF ClearsSlot THEN At("stage", "reconnect") /\ UNCHANGED linked
     ELSE Sends(<<"erase">>, "clearing again")
  /\ UNCHANGED denied /\ Quiet

Reconnects ==
  /\ op.pc = "reconnect"
  /\ \/ /\ PinnedPanel(address)
        /\ linked' = [NoProgram EXCEPT !.steps = CleanupProgram("stage"),
                                       !.on = address, !.by = job]
        /\ op' = [op EXCEPT !.on = address, !.pc = "clearing again"]
        /\ UNCHANGED denied
     \/ Ends(TRUE)
  /\ Quiet

StageCleared ==
  /\ op.pc = "clearing again" /\ ~Busy(linked)
  /\ Ends(TRUE)
  /\ Quiet

\* What a phase sends once the panel is proved.
Program(phase) ==
  CASE phase = "install" -> InstallProgram
    [] phase = "update" -> UpdateProgram
    [] phase = "start" -> TransferProgram
    [] phase = "launch" -> GrantProgram
    [] OTHER -> CleanupProgram(phase)

SendsProgram ==
  /\ \/ op.pc = "proved" /\ op.phase \notin {"stage", "update"}
     \/ op.pc = "ready"
  /\ Sends(Program(op.phase), "running")
  /\ UNCHANGED denied /\ Quiet

\* Faulty variant: a program that did not succeed was refused.
AnyFailure(p) == p.answer # "ok"

\* The package manager's refusal is told by its own words; another failure of
\* the program is no answer.
Refused(p) == p.answer = "refused"

InstallAnswers ==
  /\ op.phase = "install" /\ op.pc = "running" /\ ~Busy(linked)
  /\ IF linked.answer = "ok" THEN Goes("installed", "connect")
     ELSE IF Refused(linked) THEN Goes("refused", "connect")
     ELSE Ends(FALSE)
  /\ Quiet

\* An update's file goes after a definite answer.
UpdateAnswers ==
  /\ op.phase = "update" /\ op.pc = "running" /\ ~Busy(linked)
  /\ IF linked.answer = "ok" THEN Sends(<<"erase">>, "erasing") /\ UNCHANGED denied
     ELSE IF Refused(linked) THEN Sends(<<"erase">>, "erasing refused") /\ UNCHANGED denied
     ELSE Ends(FALSE)
  /\ Quiet

UpdateErased ==
  /\ op.pc \in {"erasing", "erasing refused"} /\ ~Busy(linked)
  /\ IF op.pc = "erasing" /\ linked.answer = "ok" THEN Goes("launch", "connect")
     ELSE Ends(linked.answer = "ok")
  /\ Quiet

\* A clean install goes on to start the app; the others have ended.
CleanupAnswers ==
  /\ op.phase \in {"installed", "refused", "cancelled"}
  /\ op.pc = "running" /\ ~Busy(linked)
  /\ IF op.phase = "installed" /\ linked.answer = "ok" THEN Goes("start", "connect")
     ELSE Ends(op.phase # "installed" /\ linked.answer = "ok")
  /\ Quiet

\* The HOME record first, then the grants and HOME, then the start.
StartAnswers ==
  /\ op.phase \in {"start", "launch"} /\ ~Busy(linked)
  /\ op.pc \in {"running", "granting", "launching"}
  /\ IF linked.answer = "ok" /\ op.pc # "launching"
     THEN /\ IF op.phase = "start" /\ op.pc = "running" THEN Sends(GrantProgram, "granting")
             ELSE Sends(LaunchProgram, "launching")
          /\ UNCHANGED denied
     ELSE Ends(FALSE)
  /\ Quiet

\* The owner cancels between the stage and the install.
Cancel ==
  /\ op.phase = "install" /\ op.pc = "connect"
  /\ At("cancelled", "connect")
  /\ UNCHANGED <<linked, denied>> /\ Quiet

\* Home Assistant waits no longer, or the connection is gone.  What runs may
\* run on; one such program at a time.
Loses ==
  /\ op.pc \notin {"", "connect", "reconnect"} /\ losses < MaxLosses
  /\ losses' = losses + 1
  /\ left' = IF Busy(linked) /\ ~Busy(left) THEN linked ELSE left
  /\ \/ ClearsSlot /\ Goes("stage", "reconnect")
     \/ ClearsFile /\ Sends(<<"erase">>, "clearing again") /\ UNCHANGED denied
     \/ ~ClearsSlot /\ Ends(NothingInstalledBy(op.phase)
                             /\ op.pc \notin {"running", "erasing", "erasing refused"})
  /\ UNCHANGED <<dev, address, job, custody, swaps, choices>>

-----------------------------------------------------------------------------
(* Around them                                                             *)

AddressMoves ==
  /\ swaps < MaxSwaps /\ swaps' = swaps + 1
  /\ address' \in Devices \ {address}
  /\ UNCHANGED <<dev, linked, left, op, job, denied, custody, losses, choices>>

\* Somebody chooses another renderer in the app.
RendererChanges ==
  /\ choices < MaxChoices /\ choices' = choices + 1
  /\ dev[Panel].app = "new"
  /\ \E renderer \in {"builtin", "retained", "restore"} :
       dev' = [dev EXCEPT ![Panel].renderer = renderer]
  /\ UNCHANGED <<linked, left, address, op, job, denied, custody, losses, swaps>>

DeviceNext ==
  \/ LinkedSteps \/ LeftSteps
  \/ StartJob("preflight") \/ StartJob("update")
  \/ NotAdmitted \/ Proves \/ LooksAtSlot \/ SlotCleared \/ Push \/ Verifies
  \/ NotArrived \/ Reconnects \/ StageCleared \/ SendsProgram
  \/ InstallAnswers \/ UpdateAnswers \/ UpdateErased \/ CleanupAnswers
  \/ StartAnswers \/ Cancel \/ Loses
  \/ AddressMoves \/ RendererChanges

DeviceSpec == DeviceInit /\ [][DeviceNext]_deviceVars

-----------------------------------------------------------------------------
(* Properties                                                              *)

\* The types, and where an operation and its programs can be.
DeviceRecords ==
  [home : {Launcher, "app", "chooser"}, app : {"none", "old", "new"},
   renderer : {"builtin", "retained", "restore"},
   kept : {Launcher, "none", Unset}, note : {Launcher, "none", Unset},
   slot : {"absent", "part", "whole"}, file : {"absent", "part", "whole"}, by : Nat]

\* What a program can have left to do.
Remainders ==
  {<<>>, InstallProgram, <<"install", "hand", "drop">>, TransferProgram, <<"drop">>,
   UpdateProgram, GrantProgram, <<"home", "tap">>, <<"tap">>, <<"restore">>,
   LaunchProgram, <<"erase">>, <<"discard", "remove">>, <<"remove">>}

ProgramRecords ==
  [steps : Remainders, answer : {"", "ok", "bad", "refused"}, on : {Panel}, by : Nat]

\* How far each phase goes.
PcsOf(phase) ==
  CASE phase = "none" -> {""}
    [] phase = "preflight" -> {"connect"}
    [] phase = "stage" -> {"connect", "proved", "clearing", "push", "pushing", "pushed",
                           "reconnect", "clearing again"}
    [] phase = "update" -> {"connect", "proved", "pushing", "pushed", "ready", "running",
                            "erasing", "erasing refused", "clearing again"}
    [] phase = "start" -> {"connect", "proved", "running", "granting", "launching"}
    [] phase = "launch" -> {"connect", "proved", "running", "launching"}
    [] OTHER -> {"connect", "proved", "running"}

Phases == {"none", "preflight", "stage", "install", "installed", "refused", "cancelled",
           "start", "update", "launch"}

\* Where Home Assistant waits for a program.
Awaiting == {"clearing", "clearing again", "running", "erasing", "erasing refused",
             "granting", "launching"}

DeviceTypeOK ==
  /\ dev \in [Devices -> DeviceRecords]
  /\ linked \in ProgramRecords /\ left \in ProgramRecords
  /\ Busy(linked) => linked.answer = "" /\ op.pc \in Awaiting
  /\ address \in Devices /\ job \in Nat /\ denied \subseteq 1..job
  /\ op \in [phase : Phases, pc : PcsOf(op.phase), on : {Panel}]
  /\ op.phase # "none" => job > 0
  /\ custody \in BOOLEAN

\* A job whose answer says that nothing was installed (a stage that broke off,
\* a refused package, a cancelled install) has not installed the app, and no
\* program it left on the panel installs it later.
FailedJobNeverInstalls == dev[Panel].by \notin denied

\* While the app is HOME on a panel that came without it, the HOME it had is
\* in the app's own record or still in the slot's, through refused, broken-off
\* and repeated installs (previous_home.py).
PreviousHomeIsKept ==
  custody /\ dev[Panel].home = "app" => Launcher \in {dev[Panel].kept, dev[Panel].note}

=============================================================================
