---------------------------- MODULE PanelRemoval ----------------------------
(***************************************************************************)
(* The removal of the app from a panel, as the owner's Repair runs it      *)
(* (removal.py, repairs_removal.py, the move steps of install_adb.py and   *)
(* the hand-back of client.py).                                            *)
(*                                                                         *)
(*   removal  pc     where the task waits: for the panel over ADB, for its *)
(*                   state, for the app's hand-back, for a launcher set by *)
(*                   the shell, for the vendor's setup, for the display's  *)
(*                   sizing, for the network route, for the uninstall, for *)
(*                   a second look, for the entry's removal                *)
(*            local  it reaches the panel through the app's own session    *)
(*            home   the HOME it observed first                            *)
(*   bound    the entry carries the identity of the device (the saved      *)
(*            CONF_REMOVAL_TARGET); it survives a restart                  *)
(*                                                                         *)
(* A removal that stops leaves its Repair, so that it can be run again.    *)
(* That a device at the address is another one is not modelled: every      *)
(* connection then fails as if nothing answered.                           *)
(***************************************************************************)
EXTENDS ManagedPanel

VARIABLES removal, bound

removalVars == <<removal, bound>>

NoRemoval == [pc |-> "idle", local |-> FALSE, home |-> None]

RemovalPcs == {"target", "observe", "hand", "shell", "vendor", "setup", "sizing",
               "network", "remove", "again", "leave"}

RemovalTypeOK ==
  /\ removal \in [pc : RemovalPcs \cup {"idle"}, local : BOOLEAN,
                  home : {"app", "vendor", None}]
  /\ bound \in BOOLEAN

RemovalInit == removal = NoRemoval /\ bound = FALSE

RemovalAt(pc) == removal.pc = pc

Proceeds(pc) == removal' = [removal EXCEPT !.pc = pc]

\* A RemovalError, or the removal's end: the finally clause.
Stops == removal' = NoRemoval /\ Released

\* _require_entry, between two steps.
Required(pc) == IF entry THEN Proceeds(pc) /\ UNCHANGED claim ELSE Stops

\* async_remove_app.
StartRemoval ==
  /\ RemovalAt("idle") /\ entry /\ Claimable("removal")
  /\ removal' = [NoRemoval EXCEPT !.pc = "target"]
  /\ UNCHANGED <<panel, entry, bound>>

\* async_app_target with verify_entry: over the session, or over the network.
\* A panel without the app has nothing left to remove.  One that was not bound
\* yet has to answer with the entry's identity, and is bound then.
Target ==
  /\ RemovalAt("target")
  /\ \/ /\ Answers /\ entry
        /\ bound' = TRUE
        /\ \E local \in BOOLEAN :
             removal' = [removal EXCEPT !.pc = "observe", !.local = local]
        /\ UNCHANGED claim
     \/ /\ ~Answers /\ panel.app # "gone" /\ bound
        /\ Proceeds("observe") /\ UNCHANGED <<claim, bound>>
     \/ panel.app = "gone" /\ Proceeds("leave") /\ UNCHANGED <<claim, bound>>
     \/ Stops /\ UNCHANGED bound
  /\ UNCHANGED <<panel, entry>>

Observe ==
  /\ RemovalAt("observe")
  /\ \/ /\ entry
        /\ removal' = [removal EXCEPT !.pc = "hand", !.home = panel.home]
        /\ UNCHANGED claim
     \/ Stops
  /\ UNCHANGED <<panel, entry, bound>>

\* What the app does when it is asked to hand HOME back: it gives the vendor its
\* setting back first and then lets go of HOME, or cannot do one of the two.
HandsBack(p) ==
  {[p EXCEPT !.home = "vendor", !.owes = FALSE], [p EXCEPT !.owes = FALSE],
   [p EXCEPT !.home = "vendor"], p}

\* check_vendor_brightness_restore, and the launcher that took HOME.
Confirmed(p) == ~p.owes /\ p.home = "vendor"

\* async_hand_back_home.  Without a launcher, the shell sets the one the app
\* names, or the vendor's; every other refusal ends the removal.  Without an
\* answer, only a panel whose HOME was another launcher's already goes on, and
\* only where no vendor setting can still be held by the app.
HandBack ==
  /\ RemovalAt("hand")
  /\ \/ /\ Answers
        /\ panel' \in HandsBack(panel)
        /\ \/ Confirmed(panel') /\ Required("setup")
           \/ ~panel'.owes /\ panel'.home = "app" /\ Required("shell")
           \/ ~panel'.owes /\ panel'.home = "app"
              /\ Proceeds("vendor") /\ UNCHANGED claim
           \/ Stops
     \/ /\ IF removal.home = "vendor" /\ ~panel.shelly
           THEN Required("setup") ELSE Stops
        /\ \/ Answers /\ panel' \in HandsBack(panel)  \* its answer is lost
           \/ UNCHANGED panel
  /\ UNCHANGED <<entry, bound>>

\* HAND_BACK_HOME and VENDOR_HOME: the shell sets the launcher and reads HOME
\* back; a connection lost in between leaves either.
SetLauncher ==
  /\ RemovalAt("shell") \/ RemovalAt("vendor")
  /\ \/ panel' = [panel EXCEPT !.home = "vendor"] /\ (Required("setup") \/ Stops)
     \/ UNCHANGED panel /\ Stops
  /\ UNCHANGED <<entry, bound>>

\* _async_restore_vendor_setup and _async_restore_display_sizing: what fails in
\* them is logged, and never keeps the app on the panel.
Restore ==
  /\ RemovalAt("setup") \/ RemovalAt("sizing")
  /\ Required(IF RemovalAt("setup") THEN "sizing"
              ELSE IF removal.local THEN "network" ELSE "remove")
  /\ UNCHANGED <<panel, entry, bound>>

\* async_recover of local_adb, and the same panel again over the network.
Detach ==
  /\ RemovalAt("network")
  /\ \/ panel.app # "gone" /\ Required("remove")
     \/ Stops
  /\ UNCHANGED <<panel, entry, bound>>

\* Faulty variant: HOME as it was observed when it was handed back.
HomeWasOther == TRUE

\* REMOVE_APP's test of HOME, in the shell that uninstalls.
HomeIsOther == panel.home = "vendor"

\* The uninstall asks the app to give up a device admin, which it may not.
\* The answer may be lost either way.
Remove ==
  /\ RemovalAt("remove")
  /\ \/ HomeIsOther /\ panel' = [panel EXCEPT !.app = "gone", !.op = None]
     \/ UNCHANGED panel
  /\ \/ panel'.app = "gone" /\ Proceeds("leave") /\ UNCHANGED claim
     \/ panel'.app # "gone" /\ Stops
     \/ Proceeds("again") /\ UNCHANGED claim
  /\ UNCHANGED <<entry, bound>>

\* The second look, and _app_left.
LookAgain ==
  /\ RemovalAt("again")
  /\ \/ panel.app = "gone" /\ Proceeds("leave") /\ UNCHANGED claim
     \/ Stops
  /\ UNCHANGED <<panel, entry, bound>>

\* The flow removes the entry once the app is gone, or keeps the Repair.
Leave ==
  /\ RemovalAt("leave")
  /\ entry' \in {entry, FALSE}
  /\ Stops
  /\ UNCHANGED <<panel, bound>>

\* A restart keeps the entry's data.
RemovalStops == removal' = NoRemoval /\ UNCHANGED bound

RemovalStep ==
  \/ StartRemoval \/ Target \/ Observe \/ HandBack \/ SetLauncher \/ Restore
  \/ Detach \/ Remove \/ LookAgain \/ Leave
=============================================================================
