-------------------------- MODULE MCPanelSessions --------------------------
(***************************************************************************)
(* Two accounts, and a panel with a socket on each.                        *)
(***************************************************************************)
EXTENDS PanelSessions, TLC

CONSTANTS e1, e2, d1, d2, u1, u2, c1, c2

MCUserOf == [c \in Connections |-> IF c = c1 THEN u1 ELSE u2]

\* Accounts change places together with their sockets.
Swap == (u1 :> u2) @@ (u2 :> u1) @@ (c1 :> c2) @@ (c2 :> c1)

PanelSymmetry == Permutations(Entries) \cup Permutations(Dids) \cup {Swap}
=============================================================================
