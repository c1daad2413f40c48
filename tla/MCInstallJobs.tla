---------------------------- MODULE MCInstallJobs ----------------------------
(***************************************************************************)
(* The two ends of an install: its receipts (InstallJobs) and the panel    *)
(* (InstallDevice).  What joins them is the executor, which has a run of   *)
(* its own; here they share no state, so a behaviour explores one of them: *)
(* part.                                                                   *)
(*                                                                         *)
(* Receipts: two job ids and three plans: b meets a again at another       *)
(* address (the panel moved), c is another panel.  Panel: three installs   *)
(* or updates, two of whose answers are lost, one change of the device at  *)
(* the address and one of the renderer.                                    *)
(***************************************************************************)
EXTENDS InstallJobs, InstallDevice, TLC

CONSTANTS j1, j2, j3, e1

VARIABLE part

MCPlans ==
  {[address |-> "a", pinned |-> "a", serial |-> "s1"],
   [address |-> "b", pinned |-> "b", serial |-> "s1"],
   [address |-> "c", pinned |-> "c", serial |-> "s2"]}

JobSymmetry == Permutations(Jobs)

partVars == <<jobVars, deviceVars, part>>

PartInit ==
  /\ part \in {"receipts", "panel"}
  /\ Init /\ DeviceInit
  /\ part = "receipts" => custody

PartNext ==
  /\ UNCHANGED part
  /\ \/ part = "receipts" /\ Next /\ UNCHANGED deviceVars
     \/ part = "panel" /\ DeviceNext /\ UNCHANGED jobVars

PartSpec == PartInit /\ [][PartNext]_partVars
=============================================================================
