---------------------------- MODULE AddPanelFlow ----------------------------
(***************************************************************************)
(* The flow that adds a panel by its address (config_flow.py): it looks at *)
(* what is there, connects an app it finds, or proves a clean panel, shows *)
(* what it would install on which panel, and makes that durable when it is *)
(* pressed (install_plan.py, install_network.py, provisioning.py).         *)
(*                                                                         *)
(*   site      who is at a network address                                 *)
(*   resolves  the network addresses a host's name has                     *)
(*   unit      each panel: its app, whether ADB trusts Home Assistant's    *)
(*             key, and whether its own setup is done                      *)
(*   entryAt   the address of the entry of each panel                      *)
(*   install   the durable install job of each address                     *)
(*   pending   the flow's memory, read before an await and used after it   *)
(*   listed    the tags the flow offers, loaded once                       *)
(*   form      the step Core shows, with what it says of the panel         *)
(*   waiter    the task that waits for Allow at the panel                  *)
(*   run       each dialog open on the flow and the step it runs: where it *)
(*             awaits, its locals, and what was shown when it was pressed  *)
(*   changes   how often the world has changed                             *)
(*                                                                         *)
(* Awaits that nothing shared is read across are one step.  Core hands an  *)
(* input to the step it shows, and the input that ended a wait to the step *)
(* after it.  External: Core, the install itself (InstallExecutor) and its *)
(* verification (InstallFinalizer), and which releases are published.  Home*)
(* Assistant runs a test release of the integration, so that test releases *)
(* are offered, and a panel keeps its identity (PanelIdentity: reinstalls).*)
(***************************************************************************)
EXTENDS Naturals, FiniteSets

CONSTANTS
  Hosts, Addresses,         \* the names that are typed in, and what they resolve to
  Units, Dialogs,
  Releases, TestReleases,   \* what may be offered; the prereleases among them
  Blank,                    \* nothing
  MaxChanges                \* bounds the changes of the world

ASSUME ChangesBounded == MaxChanges \in Nat

VARIABLES site, resolves, unit, entryAt, install, pending, listed, form, waiter, run, changes

world   == <<site, resolves, unit, changes>>
addVars == <<world, entryAt, install, pending, listed, form, waiter, run>>

Optional(S) == S \cup {Blank}

Apps == {"none", "silent", "running", "old", "retained"}
UnitStates ==
  [app : Apps, adb : {"open", "trusts", "asks"},
   ready : BOOLEAN]

Proved == {"install_candidate", "installed"}
Probes == [unit : Units, state : Proved]

\* What a name was pinned to.
Targets == [host : Hosts, pinned : Addresses]

\* What an install question says, and what a plan binds.
Offered == [at : Hosts, unit : Units, release : Releases, warned : BOOLEAN]

FormSteps ==
  {"add_panel", "found", "panel_setup", "choose_version", "authorize", "authorizing",
   "preview_only", "confirm", "progress", "result", "ended"}

StepPcs ==
  {"idle", "pin", "active", "health", "setup_state", "setup_done", "reread", "new_setup",
   "probe", "resolve", "offer", "reprove", "inspect", "create", "receipt", "verify",
   "owner_setup"}

Pending ==
  [address : Optional(Hosts), target : Optional(Targets), health : Optional(Units),
   probe : Optional(Probes), probe_state : Optional(Proved \cup {"adb_unauthorized"}),
   release : Optional(Releases), described : BOOLEAN, tag : Optional(Releases),
   job : Optional(Hosts), reinstall : Optional(Units)]

\* _reset_pending_panel
NothingPending ==
  [address |-> Blank, target |-> Blank, health |-> Blank, probe |-> Blank,
   probe_state |-> Blank, release |-> Blank, described |-> FALSE, tag |-> Blank,
   job |-> Blank, reinstall |-> Blank]

NoStep == [pc |-> "idle", host |-> Blank, at |-> Blank, custom |-> FALSE, seen |-> Blank,
           plan |-> Blank, shown |-> Blank]

AddTypeOK ==
  /\ site \in [Addresses -> Optional(Units)] /\ unit \in [Units -> UnitStates]
  /\ resolves \in [Hosts -> SUBSET Addresses]
  /\ entryAt \in [Units -> Optional(Hosts)]
  /\ \A x \in Hosts : install[x] # Blank =>
       install[x] \in [plan : Offered, pinned : Addresses,
                       phase : {"running", "healthy", "ended", "consumed"}]
  /\ pending \in Pending
  /\ listed # Blank => listed \subseteq Optional(Releases)
  /\ form.step \in FormSteps /\ form.shown \in Optional(Offered)
  /\ waiter # Blank => waiter.at \in Addresses
                       /\ (waiter.probe = Blank \/ waiter.probe \in Probes)
  /\ \A d \in Dialogs : /\ run[d].pc \in StepPcs /\ run[d].at \in Optional(Addresses)
                        /\ run[d].plan \in Optional(Offered)
  /\ changes \in 0..MaxChanges

AddInit ==
  /\ site \in [Addresses -> Optional(Units)]
  /\ \A a, b \in Addresses : site[a] = site[b] /\ site[a] # Blank => a = b
  /\ resolves \in [Hosts -> SUBSET Addresses]
  /\ unit \in [Units -> UnitStates]
  /\ entryAt \in [Units -> Optional(Hosts)]
  /\ \A u, v \in Units : entryAt[u] = entryAt[v] /\ entryAt[u] # Blank => u = v
  /\ install = [x \in Hosts |-> Blank] /\ pending = NothingPending
  /\ listed = Blank
  /\ form = [step |-> "add_panel", shown |-> Blank] /\ waiter = Blank
  /\ run = [d \in Dialogs |-> NoStep] /\ changes = 0

-----------------------------------------------------------------------------
(***************************************************************************)
(* What the steps share.                                                   *)
(***************************************************************************)
OnForm(d, step) == run[d].pc = "idle" /\ form.step = step
InStep(d, pc) == run[d].pc = pc
Awaits(d, pc) == run' = [run EXCEPT ![d].pc = pc] /\ UNCHANGED form
AwaitsAt(d, pc, a) == run' = [run EXCEPT ![d].pc = pc, ![d].at = a] /\ UNCHANGED form

\* A step ends by showing another, unless the flow is over by then.
ShowsWith(d, step, shown) ==
  /\ form' = IF form.step = "ended" THEN form ELSE [step |-> step, shown |-> shown]
  /\ run' = [run EXCEPT ![d] = NoStep]
Shows(d, step) == ShowsWith(d, step, Blank)

\* An assertion fails: the dialog says so and the flow stays where it was.
Breaks(d) == run' = [run EXCEPT ![d] = NoStep] /\ UNCHANGED form

AddressIsConfigured(x) == \E u \in Units : entryAt[u] = x

EntryHolder(x) ==
  IF AddressIsConfigured(x) THEN CHOOSE u \in Units : entryAt[u] = x ELSE Blank

\* async_pin_install_target: one of a name's addresses, if it has any and the
\* installer may go to all of them.
Pinned(x) == [host : {x}, pinned : resolves[x]]

\* async_revalidate_install_target: the name still has the pinned address.
StillPinned(target) == target.pinned \in resolves[target.host]

\* A client of the pinned address when there is one, and of the name otherwise.
ReachedAt(target, x) == IF target = Blank THEN Optional(resolves[x]) ELSE {target.pinned}
PanelAt(a) == IF a = Blank THEN Blank ELSE site[a]

\* Health at an address; a panel may also fail to answer.
Health(a) == {Blank} \cup {u \in {PanelAt(a)} \ {Blank} : unit[u].app = "running"}

\* The panel's own setup, as far as it can be read.
SetupIsDone(a) == {FALSE} \cup {unit[u].ready : u \in Health(a) \ {Blank}}

\* _parse_package_presence and _parse_retained_package_data: what the package
\* manager's two frames say, unless they do not read.
PackageSeen(app) ==
  {"unreadable", CASE app \in {"silent", "running"} -> "new"
                   [] app = "old" -> "old"
                   [] OTHER -> "none"}
DataSeen(app) == {"unreadable", IF app = "retained" THEN "retained" ELSE "none"}

\* async_probe_install_target, with the key or without: the app makes it
\* installed; neither app nor data makes a clean panel; anything else, an
\* incompatible panel too, is no target.
Classified(a, signed) ==
  {"adb_unreachable"} \cup
    IF PanelAt(a) = Blank THEN {}
    ELSE LET u == unit[site[a]] IN
         IF u.adb = "asks" \/ (u.adb = "trusts" /\ ~signed) THEN {"adb_unauthorized"}
         ELSE {"unfit"}
              \cup {"installed" : seen \in PackageSeen(u.app) \cap {"new"}}
              \cup {"install_candidate" :
                      seen \in {p \in PackageSeen(u.app) \X DataSeen(u.app) :
                                  p = <<"none", "none">>}}

ProbeAt(a, state) == [unit |-> site[a], state |-> state]

\* The install question warns of a test release that was chosen by its tag.
Warns(p) == p.tag # Blank /\ p.release \in TestReleases

\* _show_install_candidate_preview, of what the flow remembers
ShowsPreview(d, p) ==
  IF Blank \in {p.address, p.probe, p.release} THEN Breaks(d)
  ELSE ShowsWith(d, "confirm", [at |-> p.address, unit |-> p.probe.unit,
                                release |-> p.release, warned |-> Warns(p)])

IsAtWork(x) == install[x] # Blank /\ install[x].phase \in {"running", "healthy"}

\* The active jobs that a name, or the address it is pinned to, has; any but the
\* very one conflicts.
JobsAt(x, a) == {y \in Hosts : IsAtWork(y) /\ (y = x \/ install[y].pinned = a)}
IsJobOf(x, a) == IsAtWork(x) /\ install[x].pinned = a

-----------------------------------------------------------------------------
(***************************************************************************)
(* The address, and what is there.                                         *)
(***************************************************************************)

\* async_step_add_panel with an address; a menu also leads back to its form.
SubmitAddress(d, x, custom) ==
  /\ OnForm(d, "add_panel")
  /\ pending' = [NothingPending EXCEPT !.reinstall = EntryHolder(x)]
  /\ run' = [run EXCEPT ![d] = [NoStep EXCEPT !.pc = "pin", !.host = x, !.custom = custom]]
  /\ UNCHANGED <<world, entryAt, install, form, listed, waiter>>

ShowAddressForm(d) ==
  /\ OnForm(d, "found")
  /\ pending' = NothingPending /\ Shows(d, "add_panel")
  /\ UNCHANGED <<world, entryAt, install, listed, waiter>>

\* An address beyond the installer's networks is only read, and only when it has
\* a port of its own.
Pin(d) ==
  /\ InStep(d, "pin")
  /\ LET x == run[d].host IN
     \/ \E target \in Pinned(x) :
          /\ pending' = [pending EXCEPT !.address = x, !.target = target]
          /\ AwaitsAt(d, "active", target.pinned)
     \/ /\ run[d].custom
        /\ pending' = [pending EXCEPT !.address = x, !.target = Blank]
        /\ \E a \in ReachedAt(Blank, x) : AwaitsAt(d, "health", a)
     \/ ~run[d].custom /\ Shows(d, "add_panel") /\ UNCHANGED pending
  /\ UNCHANGED <<world, entryAt, install, listed, waiter>>

\* async_find_active: an install already started here resumes as it was planned.
FindActive(d) ==
  /\ InStep(d, "active")
  /\ LET x == run[d].host IN
     \/ Shows(d, "add_panel") /\ UNCHANGED pending
     \/ JobsAt(x, run[d].at) = {} /\ Awaits(d, "health") /\ UNCHANGED pending
     \/ /\ IsJobOf(x, run[d].at)
        /\ pending' = [pending EXCEPT !.job = x]
        /\ IF install[x].phase = "healthy" THEN Awaits(d, "receipt")
           ELSE Shows(d, "progress") \/ Shows(d, "ended")
  /\ UNCHANGED <<world, entryAt, install, listed, waiter>>

\* _async_create_panel_entry, until it awaits a new panel's own setup: a known
\* panel's entry follows it, and an address that has an entry gets no other.
ToPanelEntry(d, x, u) ==
  \/ AddressIsConfigured(x) /\ Shows(d, "ended") /\ UNCHANGED entryAt
  \/ /\ ~AddressIsConfigured(x) /\ entryAt[u] # Blank
     /\ entryAt' = [entryAt EXCEPT ![u] = x] /\ Shows(d, "ended")
  \/ /\ ~AddressIsConfigured(x) /\ entryAt[u] = Blank
     /\ run' = [run EXCEPT ![d].pc = "new_setup", ![d].host = x, ![d].seen = u]
     /\ UNCHANGED <<form, entryAt>>

\* _async_show_found_panel, until it awaits the panel's setup state
ToFoundPanel(d, x, u, job) ==
  IF job = Blank /\ entryAt[u] # Blank THEN ToPanelEntry(d, x, u)
  ELSE Awaits(d, "setup_state") /\ UNCHANGED entryAt

\* The first contact: an app that answers is found; where none does, ADB is
\* asked, unless only health could have admitted the address.
ReadHealth(d) ==
  /\ InStep(d, "health")
  /\ \E u \in Health(run[d].at) :
       IF u # Blank
       THEN IF AddressIsConfigured(run[d].host)
            THEN ToPanelEntry(d, run[d].host, u) /\ UNCHANGED pending
            ELSE /\ pending' = [pending EXCEPT !.health = u]
                 /\ ToFoundPanel(d, run[d].host, u, pending.job)
       ELSE /\ UNCHANGED <<pending, entryAt>>
            /\ \/ Shows(d, "add_panel")
               \/ ~run[d].custom /\ Awaits(d, "probe")
  /\ UNCHANGED <<world, install, listed, waiter>>

\* async_step_connect_found, until it awaits health at the address it still has
Connects(d) ==
  IF pending.address = Blank THEN Shows(d, "ended")
  ELSE \/ Shows(d, "add_panel")
       \/ /\ pending.target # Blank => StillPinned(pending.target)
          /\ \E a \in ReachedAt(pending.target, pending.address) : AwaitsAt(d, "reread", a)

\* The menu over the found panel: connect it, or its setup page first.
ReadSetupState(d) ==
  /\ InStep(d, "setup_state")
  /\ IF pending.health = Blank THEN Breaks(d) ELSE Shows(d, "found")
  /\ UNCHANGED <<world, entryAt, install, pending, listed, waiter>>

\* async_step_found_panel, async_step_found_unconfigured
ShowFoundAgain(d) ==
  /\ OnForm(d, "found")
  /\ IF pending.address = Blank \/ pending.health = Blank
     THEN pending' = NothingPending /\ Shows(d, "add_panel") /\ UNCHANGED entryAt
     ELSE UNCHANGED pending /\ ToFoundPanel(d, pending.address, pending.health, pending.job)
  /\ UNCHANGED <<world, install, listed, waiter>>

\* async_step_connect_found
ConnectFound(d) ==
  /\ OnForm(d, "found")
  /\ Connects(d)
  /\ UNCHANGED <<world, entryAt, install, pending, listed, waiter>>

\* The health it reads again decides which panel is connected.  A reinstalled
\* panel's own entry stands, and is only confirmed.
RereadHealth(d) ==
  /\ InStep(d, "reread")
  /\ \E u \in Health(run[d].at) :
       \/ u = Blank /\ Shows(d, "add_panel") /\ UNCHANGED entryAt
       \/ /\ u # Blank
          /\ IF pending.address = Blank THEN Breaks(d) /\ UNCHANGED entryAt
             ELSE ToPanelEntry(d, pending.address, u)
  /\ UNCHANGED <<world, install, pending, listed, waiter>>

\* A new panel gets its entry once its own setup is done, and its setup page
\* until then.
CreatePanelEntry(d) ==
  /\ InStep(d, "new_setup")
  /\ LET x == run[d].host IN
     \E a \in ReachedAt(Blank, x) : \E done \in SetupIsDone(a) :
       IF done
       THEN /\ entryAt' = [entryAt EXCEPT ![run[d].seen] = x]
            /\ Shows(d, "ended") /\ UNCHANGED pending
       ELSE /\ pending' = [pending EXCEPT !.address = x, !.health = run[d].seen]
            /\ Shows(d, "panel_setup") /\ UNCHANGED entryAt
  /\ UNCHANGED <<world, install, listed, waiter>>

\* async_step_panel_setup, from the menu
OpenSetup(d) ==
  /\ OnForm(d, "found")
  /\ Shows(d, IF pending.address = Blank THEN "ended" ELSE "panel_setup")
  /\ UNCHANGED <<world, entryAt, install, pending, listed, waiter>>

SubmitSetup(d) ==
  /\ OnForm(d, "panel_setup")
  /\ IF pending.address = Blank THEN Shows(d, "ended")
     ELSE \E a \in ReachedAt(pending.target, pending.address) : AwaitsAt(d, "setup_done", a)
  /\ UNCHANGED <<world, entryAt, install, pending, listed, waiter>>

\* _async_panel_setup_form: done, an install is finished and a found panel is
\* connected.
ReadSetupDone(d) ==
  /\ InStep(d, "setup_done")
  /\ \E done \in SetupIsDone(run[d].at) :
       CASE ~done -> Shows(d, "panel_setup")
         [] done /\ pending.job # Blank /\ pending.reinstall = Blank -> Awaits(d, "receipt")
         [] done /\ ~(pending.job # Blank /\ pending.reinstall = Blank) ->
              Connects(d)
  /\ UNCHANGED <<world, entryAt, install, pending, listed, waiter>>

-----------------------------------------------------------------------------
(***************************************************************************)
(* A clean panel, the release for it, and Allow.                           *)
(***************************************************************************)

\* async_list_install_choices: one for each channel at most, the newest first and
\* without a tag; none when nothing can be read.
Choices == {{}, {Blank}} \cup {{Blank, r} : r \in Releases}

\* The list is loaded once; what is alone on offer is not asked about.
OffersVersions(d) ==
  \E offers \in IF listed = Blank \/ listed = {} THEN Choices ELSE {listed} :
    /\ listed' = offers
    /\ IF offers = {Blank} THEN Awaits(d, "resolve") ELSE Shows(d, "choose_version")

\* The first probe has no key, so that it never asks the owner for anything.
FirstProbe(d) ==
  /\ InStep(d, "probe")
  /\ LET x == run[d].host IN
     \E state \in Classified(run[d].at, FALSE) :
       \/ /\ AddressIsConfigured(x) /\ state \notin {"install_candidate", "adb_unauthorized"}
          /\ Shows(d, "ended") /\ UNCHANGED <<pending, listed>>
       \/ /\ ~(AddressIsConfigured(x) /\ state = "installed")
          /\ state \in Proved \cup {"adb_unauthorized"}
          /\ pending' = [pending EXCEPT
               !.probe = IF state \in Proved THEN ProbeAt(run[d].at, state) ELSE Blank,
               !.probe_state = state, !.tag = Blank]
          /\ IF pending.address = Blank \/ pending.target = Blank
             THEN Shows(d, "ended") /\ UNCHANGED listed
             ELSE OffersVersions(d)
       \/ /\ ~AddressIsConfigured(x) /\ state \in {"unfit", "adb_unreachable"}
          /\ Shows(d, "add_panel") /\ UNCHANGED <<pending, listed>>
  /\ UNCHANGED <<world, entryAt, install, waiter>>

\* async_step_choose_version: a tag that is on offer, or none for the newest.
\* After an error the submit loads the list again.
SubmitVersion(d, tag) ==
  /\ OnForm(d, "choose_version")
  /\ CASE \/ Blank \in {pending.address, pending.probe_state}
          \/ pending.target = Blank ->
            Shows(d, "ended") /\ UNCHANGED <<pending, listed>>
       [] /\ Blank \notin {pending.address, pending.probe_state}
          /\ pending.target # Blank ->
            IF listed = {}
            THEN OffersVersions(d) /\ pending' = [pending EXCEPT !.tag = Blank]
            ELSE /\ tag \in listed /\ UNCHANGED listed
                 /\ pending' = [pending EXCEPT !.tag = tag] /\ Awaits(d, "resolve")
  /\ UNCHANGED <<world, entryAt, install, waiter>>

\* _async_authorize_adb, while the name has the pinned address
AsksAdb(d) ==
  IF StillPinned(pending.target) THEN AwaitsAt(d, "offer", pending.target.pinned)
  ELSE Shows(d, "authorize")

\* async_resolve_install_bundle_choice: a tag names its own release; without one it
\* is the newest, whichever that is by now.
ResolvedBy(tag) == IF tag = Blank THEN Releases ELSE {tag}

\* The answer to the choice of a version, or none and the form again.  Only a
\* described release can be installed here.
ResolveRelease(d) ==
  /\ InStep(d, "resolve")
  /\ \/ Shows(d, "choose_version") /\ UNCHANGED pending
     \/ \E r \in ResolvedBy(pending.tag), described \in BOOLEAN :
          LET resolved == [pending EXCEPT !.release = r, !.described = described] IN
          /\ pending' = resolved
          /\ CASE ~described -> Shows(d, "preview_only")
               [] described /\ pending.probe_state = "adb_unauthorized" ->
                    IF pending.target = Blank THEN Breaks(d) ELSE AsksAdb(d)
               [] described /\ pending.probe_state # "adb_unauthorized" ->
                    ShowsPreview(d, resolved)
  /\ UNCHANGED <<world, entryAt, install, listed, waiter>>

\* async_step_release_preview_only: pick another.
SubmitPreviewOnly(d) ==
  /\ OnForm(d, "preview_only")
  /\ IF Blank \in {pending.address, pending.release}
     THEN Shows(d, "ended") /\ UNCHANGED pending
     ELSE pending' = [pending EXCEPT !.release = Blank] /\ Shows(d, "choose_version")
  /\ UNCHANGED <<world, entryAt, install, listed, waiter>>

MayAuthorize ==
  /\ Blank \notin {pending.address, pending.release} /\ pending.target # Blank
  /\ pending.described

\* async_step_authorize_adb, from its form: while a task waits it is shown.
SubmitAuthorize(d) ==
  /\ OnForm(d, "authorize")
  /\ CASE ~MayAuthorize -> Shows(d, "ended")
       [] MayAuthorize /\ waiter # Blank -> Shows(d, "authorizing")
       [] MayAuthorize /\ waiter = Blank -> AsksAdb(d)
  /\ UNCHANGED <<world, entryAt, install, pending, listed, waiter>>

\* _accept_authorized_probe
Accepted(a, state) ==
  [pending EXCEPT !.probe = ProbeAt(a, state), !.probe_state = state]

\* What ADB says with the key: a key the panel trusts already, or an offer of the key.
AuthorizeAdb(d) ==
  /\ InStep(d, "offer")
  /\ \/ Shows(d, "authorize") /\ UNCHANGED <<pending, listed, waiter>>
     \/ \E state \in Classified(run[d].at, TRUE) :
          \/ /\ state \in Proved
             /\ pending' = Accepted(run[d].at, state)
             /\ ShowsPreview(d, Accepted(run[d].at, state)) /\ UNCHANGED waiter
          \/ /\ state = "adb_unauthorized"
             /\ waiter' = [at |-> run[d].at, done |-> FALSE, probe |-> Blank]
             /\ Shows(d, "authorizing") /\ UNCHANGED pending
  /\ UNCHANGED <<world, entryAt, install, listed>>

\* async_wait_for_adb_allow: the owner allows the key and a connection that the
\* panel trusts says what is there, or nobody does in time.
WaitForAllow ==
  /\ waiter # Blank /\ ~waiter.done
  /\ \E state \in Classified(waiter.at, TRUE) :
       waiter' = [waiter EXCEPT !.done = TRUE,
                    !.probe = IF state \in Proved THEN ProbeAt(waiter.at, state) ELSE Blank]
  /\ UNCHANGED <<world, entryAt, install, pending, listed, form, run>>

\* async_step_authorize_adb_done: the install question, or the form again; the
\* input that ended the wait comes along, and presses nothing.
AfterWait(d, p) ==
  IF p.probe = Blank THEN Shows(d, "authorize") ELSE ShowsPreview(d, p)

\* async_step_authorize_adb once the wait is over, and what Core shows next.
EndWait(d) ==
  /\ OnForm(d, "authorizing") /\ waiter # Blank /\ waiter.done
  /\ IF ~MayAuthorize THEN Shows(d, "ended") /\ UNCHANGED <<pending, listed, waiter>>
     ELSE LET p == IF waiter.probe = Blank THEN pending
                   ELSE [pending EXCEPT !.probe = waiter.probe,
                                        !.probe_state = waiter.probe.state] IN
          /\ waiter' = Blank /\ pending' = p
          /\ AfterWait(d, p)
  /\ UNCHANGED <<world, entryAt, install, listed>>

-----------------------------------------------------------------------------
(***************************************************************************)
(* The press, and what it makes durable.                                   *)
(***************************************************************************)

ReadyToInstall ==
  /\ Blank \notin {pending.address, pending.release}
  /\ pending.probe # Blank /\ pending.target # Blank

\* async_step_confirm_install_candidate: an address that has an entry takes an
\* install only for that entry's own panel, found clean.
PressInstall(d) ==
  /\ OnForm(d, "confirm")
  /\ CASE ~ReadyToInstall -> Shows(d, "ended")
       [] ReadyToInstall /\ ~pending.described -> Shows(d, "preview_only")
       [] OTHER ->
            IF /\ AddressIsConfigured(pending.address)
               /\ \/ pending.reinstall = Blank
                  \/ entryAt[pending.reinstall] = Blank
                  \/ pending.probe.state # "install_candidate"
            THEN Shows(d, "ended")
            ELSE \/ ShowsPreview(d, pending)
                 \/ /\ StillPinned(pending.target)
                    /\ run' = [run EXCEPT ![d].pc = "reprove", ![d].shown = form.shown,
                                          ![d].host = pending.target.host,
                                          ![d].at = pending.target.pinned]
                    /\ UNCHANGED form
  /\ UNCHANGED <<world, entryAt, install, pending, listed, waiter>>

\* Faulty variant: only what is installed must be as it was shown.
SameInstallState(expected, observed) ==
  /\ observed.state \in Proved
  /\ ~(expected.state = "installed" /\ observed.state = "install_candidate")

\* _same_install_target: the panel that was shown, still clean or adoptable.
SameInstallTarget(expected, observed) ==
  /\ observed.state \in Proved
  /\ ~(expected.state = "installed" /\ observed.state = "install_candidate")
  /\ observed.unit = expected.unit

\* _build_artifact: an authenticated release, and the one its tag selects.
PlanFits ==
  /\ pending.release # Blank /\ pending.described
  /\ pending.tag # Blank => pending.release = pending.tag

\* _build_target: the plan is for the host that was typed, and for the panel that
\* was proved at its pinned address.
BuiltPlan(d, u) ==
  [at |-> run[d].host, unit |-> u, release |-> pending.release, warned |-> Warns(pending)]

\* build_install_plan binds the target, the panel as it was proved and the release
\* the flow remembers; then the job is asked for.
BindsPlan(d, u) ==
  IF ~PlanFits
  THEN ShowsPreview(d, pending)
  ELSE /\ run' = [run EXCEPT ![d].pc = "create", ![d].plan = BuiltPlan(d, u)]
       /\ UNCHANGED form

\* The address, the key and the panel are proved again; each may fail.
Reprove(d) ==
  /\ InStep(d, "reprove")
  /\ \/ ShowsPreview(d, pending)
     \/ \E state \in Classified(run[d].at, TRUE) :
          LET observed == ProbeAt(run[d].at, state) IN
          CASE pending.probe = Blank -> Breaks(d)
            [] pending.probe # Blank /\ ~SameInstallTarget(pending.probe, observed) ->
                 ShowsPreview(d, pending)
            [] pending.probe # Blank /\ SameInstallTarget(pending.probe, observed) ->
                 IF state = "installed"
                 THEN /\ run' = [run EXCEPT ![d].pc = "inspect", ![d].seen = observed.unit]
                      /\ UNCHANGED form
                 ELSE BindsPlan(d, observed.unit)
  /\ UNCHANGED <<world, entryAt, install, pending, listed, waiter>>

\* An installed app must be the very release: preflight, its size and digest.
Inspect(d) ==
  /\ InStep(d, "inspect")
  /\ \/ ShowsPreview(d, pending)
     \/ /\ site[run[d].at] = run[d].seen
        /\ unit[run[d].seen].app \in {"silent", "running"}
        /\ BindsPlan(d, run[d].seen)
  /\ UNCHANGED <<world, entryAt, install, pending, listed, waiter>>

\* async_create_or_join: the same plan is joined and another one conflicts; the
\* manager may also refuse.  Then _async_show_install_progress.
CreateOrJoin(d) ==
  /\ InStep(d, "create")
  /\ LET x == run[d].plan.at IN
     \/ ShowsPreview(d, pending) /\ UNCHANGED <<install, pending>>
     \/ /\ \A y \in JobsAt(x, run[d].at) : IsJobOf(y, run[d].at) /\ install[y].plan = run[d].plan
        /\ install' = IF IsAtWork(x) THEN install
                      ELSE [install EXCEPT ![x] = [plan |-> run[d].plan, pinned |-> run[d].at,
                                                   phase |-> "running"]]
        /\ pending' = [pending EXCEPT !.job = x]
        /\ Shows(d, "progress") \/ Shows(d, "ended")
  /\ UNCHANGED <<world, entryAt, listed, waiter>>

\* async_step_install_progress, when the wait for the worker is over, and
\* async_step_install_result, which its retry form leads to again.
ToInstallResult(d) ==
  /\ \/ OnForm(d, "progress") /\ pending.job # Blank /\ install[pending.job].phase # "running"
     \/ OnForm(d, "result")
  /\ IF pending.job = Blank THEN Shows(d, "ended") ELSE Awaits(d, "receipt")
  /\ UNCHANGED <<world, entryAt, install, pending, listed, waiter>>

\* The receipt decides; a healthy one is verified for the entry that is at its
\* address before.
ReadReceipt(d) ==
  /\ InStep(d, "receipt")
  /\ \/ Shows(d, "ended")
     \/ /\ pending.job # Blank
        /\ CASE install[pending.job].phase = "running" -> Shows(d, "progress")
             [] install[pending.job].phase \in {"ended", "consumed"} -> Shows(d, "ended")
             [] install[pending.job].phase = "healthy" ->
                  /\ run' = [run EXCEPT ![d].pc = "verify", ![d].host = pending.job,
                                        ![d].seen = EntryHolder(pending.job)]
                  /\ UNCHANGED form
  /\ UNCHANGED <<world, entryAt, install, pending, listed, waiter>>

\* _async_finalize_healthy_install, up to the owner's setup: an entry that was
\* there before, and is this panel's, takes the install.
Finalize(d) ==
  /\ InStep(d, "verify")
  /\ LET x == run[d].host
         kept == run[d].seen
         u == install[x].plan.unit IN
     \/ (Shows(d, "result") \/ Shows(d, "ended")) /\ UNCHANGED <<install, pending>>
     \/ /\ install[x].phase = "healthy" /\ u \in Health(install[x].pinned)
        /\ CASE ~AddressIsConfigured(x) ->
                  /\ pending' = [pending EXCEPT !.address = x, !.health = u]
                  /\ Awaits(d, "owner_setup") /\ UNCHANGED install
             [] AddressIsConfigured(x) /\ kept = u /\ entryAt[u] = x ->
                  /\ install' = [install EXCEPT ![x].phase = "consumed"]
                  /\ pending' = [pending EXCEPT !.reinstall = u, !.address = x, !.health = u]
                  /\ Shows(d, "panel_setup")
             [] AddressIsConfigured(x) /\ ~(kept = u /\ entryAt[u] = x) ->
                  Shows(d, "ended") /\ UNCHANGED <<install, pending>>
  /\ UNCHANGED <<world, entryAt, listed, waiter>>

\* The install stays unconsumed while its owner's wizard is open.
FinishInstall(d) ==
  /\ InStep(d, "owner_setup")
  /\ LET x == run[d].host IN
     \E a \in ReachedAt(Blank, x) : \E done \in SetupIsDone(a) :
       IF done
       THEN /\ entryAt' = [entryAt EXCEPT ![install[x].plan.unit] = x]
            /\ install' = [install EXCEPT ![x].phase = "consumed"]
            /\ Shows(d, "ended")
       ELSE Shows(d, "panel_setup") /\ UNCHANGED <<entryAt, install>>
  /\ UNCHANGED <<world, pending, listed, waiter>>

-----------------------------------------------------------------------------
(***************************************************************************)
(* The world: panels move between addresses, their apps come and go, their *)
(* owners press Allow and end a setup, other flows add and remove entries, *)
(* and an install goes on.                                                 *)
(***************************************************************************)
UnitMoves(u, a) ==
  /\ site' = [b \in Addresses |-> CASE b = a -> u
                                    [] b # a /\ site[b] = u -> Blank
                                    [] OTHER -> site[b]]
  /\ site' # site /\ UNCHANGED <<resolves, unit, entryAt>>

NameChanges(x, as) ==
  /\ as # resolves[x] /\ resolves' = [resolves EXCEPT ![x] = as]
  /\ UNCHANGED <<site, unit, entryAt>>

UnitChanges(u) ==
  /\ \/ \E app \in Apps \ {unit[u].app} :
          unit' = [unit EXCEPT ![u].app = app, ![u].ready = FALSE]
     \/ unit[u].adb = "asks" /\ unit' = [unit EXCEPT ![u].adb = "trusts"]
     \/ unit[u].app = "running" /\ ~unit[u].ready /\ unit' = [unit EXCEPT ![u].ready = TRUE]
  /\ UNCHANGED <<site, resolves, entryAt>>

EntryChanges(u, x) ==
  /\ x # entryAt[u] /\ (x # Blank => ~AddressIsConfigured(x))
  /\ entryAt' = [entryAt EXCEPT ![u] = x]
  /\ UNCHANGED <<site, resolves, unit>>

WorldChanges ==
  /\ changes < MaxChanges /\ changes' = changes + 1
  /\ \/ \E u \in Units : \/ \E a \in Addresses : UnitMoves(u, a)
                         \/ UnitChanges(u)
                         \/ \E x \in Optional(Hosts) : EntryChanges(u, x)
     \/ \E x \in Hosts, as \in SUBSET Addresses : NameChanges(x, as)
  /\ UNCHANGED <<install, pending, form, listed, waiter, run>>

InstallGoesOn(x) ==
  /\ IsAtWork(x)
  /\ \/ install' = [install EXCEPT ![x].phase = "ended"] /\ UNCHANGED unit
     \/ /\ install[x].phase = "healthy" /\ UNCHANGED unit
        /\ install' = [install EXCEPT ![x].phase = "consumed"]
     \/ /\ install[x].phase = "running" /\ site[install[x].pinned] = install[x].plan.unit
        /\ install' = [install EXCEPT ![x].phase = "healthy"]
        /\ unit' = [unit EXCEPT ![install[x].plan.unit].app = "running"]
  /\ UNCHANGED <<site, resolves, changes, entryAt, pending, form, listed, waiter, run>>

AddNext ==
  \/ \E d \in Dialogs :
       \/ \E x \in Hosts, custom \in BOOLEAN : SubmitAddress(d, x, custom)
       \/ \E tag \in Optional(Releases) : SubmitVersion(d, tag)
       \/ ShowAddressForm(d) \/ Pin(d) \/ FindActive(d) \/ ReadHealth(d) \/ ReadSetupState(d)
       \/ ShowFoundAgain(d) \/ ConnectFound(d) \/ RereadHealth(d) \/ CreatePanelEntry(d)
       \/ OpenSetup(d) \/ SubmitSetup(d) \/ ReadSetupDone(d)
       \/ FirstProbe(d) \/ ResolveRelease(d) \/ SubmitPreviewOnly(d) \/ SubmitAuthorize(d)
       \/ AuthorizeAdb(d) \/ EndWait(d) \/ PressInstall(d) \/ Reprove(d) \/ Inspect(d)
       \/ CreateOrJoin(d) \/ ToInstallResult(d) \/ ReadReceipt(d) \/ Finalize(d)
       \/ FinishInstall(d)
  \/ WaitForAllow \/ WorldChanges
  \/ \E x \in Hosts : InstallGoesOn(x)

AddSpec == AddInit /\ [][AddNext]_addVars

-----------------------------------------------------------------------------
(***************************************************************************)
(* Properties.                                                             *)
(***************************************************************************)

\* What is about to be made durable is what was on the question when it was
\* pressed: that panel, at that address, with that release, and with the warning
\* if it is let in as a test release.  Between the two the flow awaits the network,
\* the key store, a probe and perhaps an inspection, while panels change places.
ApprovedIsShown ==
  \A d \in Dialogs : run[d].pc = "create" => run[d].plan = run[d].shown
=============================================================================
