-------------------------- MODULE PanelOperations --------------------------
(***************************************************************************)
(* The operations that change one panel's app, together: an update         *)
(* (PanelUpdates), a removal (PanelRemoval), the recovery after a stop by  *)
(* the vendor (VendorRecovery) and the panel's own steps (ManagedPanel),   *)
(* over one panel and the one reservation of panel_operations.py, with     *)
(* restarts of Home Assistant.                                             *)
(***************************************************************************)
EXTENDS PanelUpdates, PanelRemoval, VendorRecovery

vars == <<deviceVars, updateVars, removalVars, recoveryVars>>

Init == DeviceInit /\ UpdateInit /\ RemovalInit /\ RecoveryInit

PanelStep ==
  /\ SlotEnds \/ UpdatesItself \/ Comes \/ VendorStops \/ TakesHome \/ DeleteEntry
  /\ UNCHANGED <<updateVars, removalVars, recoveryVars>>

Update == UpdateStep /\ UNCHANGED <<removalVars, recoveryVars>>

Removal == RemovalStep /\ UNCHANGED <<updateVars, recoveryVars>>

Recovery == RecoveryStep /\ UNCHANGED <<updateVars, removalVars>>

\* Home Assistant stops; what reserved the panel is gone with it.
Restart ==
  /\ UpdatesStop /\ RemovalStops /\ RecoveryStops
  /\ claim' = Free
  /\ UNCHANGED <<panel, entry>>

Next == PanelStep \/ Update \/ Removal \/ Recovery \/ Restart

Spec == Init /\ [][Next]_vars

-----------------------------------------------------------------------------
TypeOK == DeviceTypeOK /\ UpdateTypeOK /\ RemovalTypeOK /\ RecoveryTypeOK

(***************************************************************************)
(* The reservation and its holder agree: each operation is past its        *)
(* reservation exactly while the set holds the panel for it, so that two   *)
(* never change one panel at the same time, and no ended, cancelled or     *)
(* failed operation leaves it reserved; a recovery keeps it until its      *)
(* connection is closed, and its successor does not work until then        *)
(* (panel_operations.py:28-40).                                            *)
(***************************************************************************)
ClaimHasHolder ==
  /\ claim = "update" <=> install.pc # "idle"
  /\ claim = "removal" <=> removal.pc # "idle"
  /\ claim = "recovery" <=> Reserved \/ closing
  /\ ~(Reserved /\ closing)

(***************************************************************************)
(* The app leaves a panel only when another launcher is its HOME and the   *)
(* vendor has its brightness setting back, whatever was interrupted,       *)
(* refused or repeated before; and the removal only ends, and takes the    *)
(* entry along, once the app has left (removal.py:224-305).                *)
(***************************************************************************)
RemovalIsComplete ==
  /\ panel.app = "gone" => panel.home = "vendor" /\ ~panel.owes
  /\ removal.pc = "leave" => panel.app = "gone"

(***************************************************************************)
(* An update under way when Home Assistant stopped, or whose panel did not *)
(* come back in time, stays on record while its entry is there and no      *)
(* build as new has been seen: nothing else would make the Repair that     *)
(* finishes it (repairs_failure.py:367-402).                               *)
(***************************************************************************)
UnfinishedIsRecorded ==
  install.pc = "idle" /\ begun # None /\ entry /\ seen < begun => record # None

(***************************************************************************)
(* The record of an update is withdrawn only after the panel has run a     *)
(* build as new: not for another build of the same version, nor by a poll  *)
(* that read the panel before the record was made                          *)
(* (repairs_failure.py:493-562).                                           *)
(***************************************************************************)
ForgottenOnlyWhenReached ==
  [][record # None /\ record' = None /\ record.target # None
       => panel.build >= record.target]_vars

=============================================================================
