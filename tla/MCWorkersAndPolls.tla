------------------------- MODULE MCWorkersAndPolls -------------------------
(***************************************************************************)
(* The work Home Assistant keeps up by itself until it is done: the worker *)
(* of an install (InstallExecutor), the polls of a panel (PanelAddress)    *)
(* and the calls that set a room back (RoomDuck).  They share no state, so *)
(* a behaviour explores one of them: part.                                 *)
(*                                                                         *)
(* Install: as in MCInstallExecutor, one job, every phase, cancellation at *)
(* any point, two restarts and every kind of failure.  Address: one poll,  *)
(* three addresses, of which hellos name a3 beside the panel's own, two    *)
(* panels that move twice in all.  Room: two panels and two players, of    *)
(* which one can only be muted, and two turns.  What is changed, goes off  *)
(* or answers late is the other one, of which TurnedDownIsRemembered speaks.*)
(***************************************************************************)
EXTENDS MCInstallExecutor, PanelAddress, RoomDuck

CONSTANTS a1, a2, a3, q1, p1, p2, v1, v2

VARIABLE part

partVars == <<vars, addrVars, duckVars, part>>

PartInit ==
  /\ part \in {"install", "address", "room"} /\ ExecInit /\ AddrInit /\ DuckInit
  /\ part # "install" => app = [j \in Jobs |-> FALSE]

\* A hello names the panel's address, and beside it a3 or none.
HelloNames ==
  link' \notin {link, Nil} => link'.said \subseteq {at.own, a3}

\* The player that can only be muted.
OneIsSteady == on'[v2] /\ volume'[v2] # "set" /\ promised'[v2] = {}

PartNext ==
  /\ UNCHANGED part
  /\ \/ part = "install" /\ ExecNext /\ UNCHANGED <<addrVars, duckVars>>
     \/ part = "address" /\ AddrNext /\ HelloNames /\ UNCHANGED <<vars, duckVars>>
     \/ part = "room" /\ DuckNext /\ OneIsSteady /\ UNCHANGED <<vars, addrVars>>

\* The fairness of each specification, in its part.
PartSpec ==
  /\ PartInit /\ [][PartNext]_partVars
  /\ \A j \in Jobs : WF_vars(part = "install" /\ WorkerStep(j))
  /\ \A q \in Polls : /\ WF_addrVars(part = "address" /\ BeginPoll(q))
                      /\ WF_addrVars(part = "address" /\ PollStep(q))
  /\ \A p \in Rooms : WF_duckVars(part = "room" /\ LimitExpires(p))
  /\ \A e \in Players : WF_duckVars(part = "room" /\ (CallBegins(e) \/ CallReturns(e)))
=============================================================================
