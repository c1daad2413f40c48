------------------------------ MODULE MCFlows ------------------------------
(***************************************************************************)
(* How a panel gets its entry: the flows that finish an install            *)
(* (InstallFinalizer), those behind the discovery cards (DiscoveryCards),  *)
(* and the one that adds a panel by its address (AddPanelFlow).  They share*)
(* no state, so a behaviour explores one of them: part.                    *)
(*                                                                         *)
(* Install: one healthy install, two flows that show it, and room for two  *)
(* entries.  Cards: a device on two channels and another on one, with two  *)
(* steps of a flow at a time.  Add: one dialog, a panel in any state at one*)
(* address with or without an entry, a clean one that may take its place   *)
(* and may have an entry at another name, and two changes of the world; of *)
(* two releases one is a test release.                                     *)
(***************************************************************************)
EXTENDS InstallFinalizer, DiscoveryCards, AddPanelFlow, TLC

CONSTANTS j1, e1, e2, f1, f2, u1, u2, x1, x2, a1, a2

VARIABLE part

MCPlans == {[address |-> "a", pinned |-> "a", serial |-> "s1"]}

MCHealthy ==
  [plan |-> [address |-> "a", pinned |-> "a", serial |-> "s1"],
   revision |-> 12, executor_generation |-> 1, attempt |-> 1,
   phase |-> "healthy_unclaimed", cancel_requested |-> FALSE,
   preflight_root_mode |-> TRUE, actual_apk_bytes |-> TRUE,
   health_checked_at |-> TRUE, result_code |-> None, failure_stage |-> None,
   consumed_entry_id |-> None]

MCOffers == {[channel |-> "app", at |-> "a"], [channel |-> "adb", at |-> "a"],
             [channel |-> "adb", at |-> "b"]}

FlowSymmetry == Permutations(Flows) \cup Permutations(Entries)

\* The world of the part "add"; in the others nothing of it changes.
AddWorld ==
  /\ site = (a1 :> u1 @@ a2 :> Blank) /\ resolves = (x1 :> {a1} @@ x2 :> {})
  /\ unit[u1].ready => unit[u1].app = "running"
  /\ unit[u2] = [app |-> "none", adb |-> "open", ready |-> FALSE]
  /\ entryAt[u1] \in {Blank, x1} /\ entryAt[u2] \in {Blank, x2}
  /\ entryAt[u2] = x2 => entryAt[u1] = Blank /\ unit[u1].app = "running"
                         /\ unit[u1].adb = "open"
  /\ unit[u1].app \in {"old", "retained"} => unit[u1].adb = "open"
  /\ part # "add" => entryAt[u1] = x1 /\ entryAt[u2] = Blank
                     /\ unit[u1] = [app |-> "running", adb |-> "open", ready |-> TRUE]

partVars == <<vars, cardVars, addVars, part>>

PartInit ==
  /\ part \in {"install", "cards", "add"}
  /\ FinInit /\ CardInit /\ AddInit /\ AddWorld

PartNext ==
  /\ UNCHANGED part
  /\ \/ part = "install" /\ FinNext /\ UNCHANGED <<cardVars, addVars>>
     \/ part = "cards" /\ CardNext /\ UNCHANGED <<vars, addVars>>
     \/ part = "add" /\ AddNext /\ UNCHANGED <<vars, cardVars>>

PartSpec == PartInit /\ [][PartNext]_partVars
=============================================================================
