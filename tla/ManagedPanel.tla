---------------------------- MODULE ManagedPanel ----------------------------
(***************************************************************************)
(* One configured panel as the operations that change its app see it, and  *)
(* the reservation they take first (panel_operations.py).                  *)
(*                                                                         *)
(*   panel  app    "up" answers; "down" is restarting or crashed;          *)
(*                 "stopped" was force-stopped by the vendor's launcher;   *)
(*                 "gone" is uninstalled                                   *)
(*          build  the installed build                                     *)
(*          home   whose launcher HOME resolves to                         *)
(*          owes   the app still holds the vendor's own brightness setting *)
(*          shelly the panel has the vendor's launcher that has one        *)
(*          op     the panel's install slot: its last operation            *)
(*   claim  who has reserved the panel, Free when nobody has               *)
(*   entry  the config entry is still there                                *)
(*                                                                         *)
(* The panel is not part of this repository: its steps below are the       *)
(* answers the integration's parsers and waits distinguish.                *)
(***************************************************************************)
EXTENDS Naturals

CONSTANTS
  Builds,     \* build numbers, in the order Android's installer knows
  Version,    \* the version name of each build; two builds may share one
  None, Free

VARIABLES panel, claim, entry

deviceVars == <<panel, claim, entry>>

Actors == {"update", "removal", "recovery", "webview"}

Slot == [component : {"APK", "ha-paneld"}, to : Builds \cup {None},
         state : {"running", "refused", "failed", "done"}]

\* None and Free are nobody and nothing else.
ASSUME DeviceAssumption ==
  /\ Builds \subseteq Nat
  /\ None \notin Builds
  /\ Free \notin Actors

DeviceTypeOK ==
  /\ panel \in [app : {"up", "down", "stopped", "gone"}, build : Builds,
                home : {"app", "vendor"}, owes : BOOLEAN, shelly : BOOLEAN,
                op : Slot \cup {None}]
  /\ claim \in Actors \cup {Free}
  /\ entry \in BOOLEAN

DeviceInit ==
  /\ \E b \in Builds, shelly \in BOOLEAN :
       panel = [app |-> "up", build |-> b, home |-> "app", owes |-> shelly,
                shelly |-> shelly, op |-> None]
  /\ claim = Free
  /\ entry = TRUE

\* Faulty variant: the set already holds the panel, and that is not looked at.
ClaimableAlways(who) == claim' = who

\* claim_panel_operation, for a caller that goes on only when it succeeds.
Claimable(who) == claim = Free /\ claim' = who

\* release_panel_operation.
Released == claim' = Free

Answers == panel.app = "up"

Running(component) ==
  panel.op # None /\ panel.op.component = component /\ panel.op.state = "running"

Busy == panel.op # None /\ panel.op.state = "running"

-----------------------------------------------------------------------------
(***************************************************************************)
(* What happens on the panel by itself.                                    *)
(***************************************************************************)
\* The install in the slot ends: the app is replaced and restarts, or the
\* panel's own rule refuses the build, or the install fails.  Android does not
\* replace an app by an older build.
SlotEnds ==
  /\ Busy
  /\ \/ /\ panel.op.to >= panel.build
        /\ panel' = [panel EXCEPT !.op.state = "done", !.op.to = None,
                                  !.build = panel.op.to,
                                  !.app = "down"]
     \/ \E s \in {"refused", "failed"} : panel' = [panel EXCEPT !.op.state = s, !.op.to = None]
  /\ UNCHANGED <<claim, entry>>

\* An older app's own update, started on the panel.
UpdatesItself ==
  /\ Answers /\ ~Busy
  /\ \E b \in Builds :
       /\ b > panel.build
       /\ panel' = [panel EXCEPT !.op = [component |-> "ha-paneld", to |-> b,
                                         state |-> "running"]]
  /\ UNCHANGED <<claim, entry>>

Comes ==
  /\ panel.app = "down"
  /\ panel' = [panel EXCEPT !.app = "up"]
  /\ UNCHANGED <<claim, entry>>

\* The vendor's launcher force-stops the app, which is still HOME.
VendorStops ==
  /\ Answers /\ panel.shelly /\ panel.home = "app" /\ ~Busy
  /\ panel' = [panel EXCEPT !.app = "stopped"]
  /\ UNCHANGED <<claim, entry>>

\* Somebody at the panel chooses the app as HOME again.
TakesHome ==
  /\ Answers /\ panel.home = "vendor"
  /\ panel' = [panel EXCEPT !.home = "app", !.owes = panel.shelly]
  /\ UNCHANGED <<claim, entry>>

\* The owner deletes the entry, which withdraws every consent given for it.
DeleteEntry ==
  /\ entry
  /\ entry' = FALSE
  /\ UNCHANGED <<panel, claim>>
=============================================================================
