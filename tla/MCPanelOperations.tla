------------------------- MODULE MCPanelOperations -------------------------
(***************************************************************************)
(* What is done to a panel and what is watched of it over its session: the *)
(* operations on its app (PanelOperations) and the subscriptions relayed   *)
(* from it (UiRelay).  They share no state, so a behaviour explores one of *)
(* them: part.                                                             *)
(*                                                                         *)
(* Operations: three builds, the second and third of one version name; the *)
(* panel starts on the oldest or the newest of them, and opens up to two   *)
(* sessions.  Relays: two subscriptions of one feed, and beside them a     *)
(* third one or a snapshot of the log; when all is over nothing follows.   *)
(***************************************************************************)
EXTENDS PanelOperations, UiRelay

CONSTANTS s1, s2, s3, g1

VARIABLE part

VersionOf == <<1, 2, 2>>

Newest == 3
Oldest == 1

\* Bound: removals and recoveries are explored on panels that start with the
\* newest build; there an update ends at its route, or only finishes the
\* WebView's.  The other panels start with the oldest build, without the
\* vendor's launcher.
Settled == panel.build = Newest /\ panel.op = None /\ begun = None

Starts == panel.build = Newest \/ (panel.build = Oldest /\ ~panel.shelly)

\* Next within these bounds.
Explored ==
  \/ PanelStep \/ Update \/ Restart
  \/ Settled /\ (Removal \/ Recovery)

MCFeed == [r \in Relays |-> IF r = g1 THEN "logs" ELSE "perf"]

\* Beside two subscriptions, a third or a snapshot.
ThreeRelay == relay[s3].st = "new" \/ relay[g1].st = "new"

partVars == <<vars, relayVars, part>>

\* One start of the operations is enough beside the relays.
PartInit ==
  /\ part \in {"operations", "relays"} /\ Init /\ Starts /\ RelayInit
  /\ part = "relays" => panel.build = Newest /\ ~panel.shelly

PartNext ==
  /\ UNCHANGED part
  /\ \/ part = "operations" /\ Explored /\ UNCHANGED relayVars
     \/ part = "relays" /\ RelayNext /\ ThreeRelay' /\ UNCHANGED vars
     \/ part = "relays" /\ UNCHANGED <<vars, relayVars>>

PartSpec == PartInit /\ [][PartNext]_partVars
=============================================================================
