--------------------------- MODULE MCPanelIdentity ---------------------------
(***************************************************************************)
(* Two panels, which share a legacy identity or do not, two places for     *)
(* entries and two installations of each panel.                            *)
(***************************************************************************)
EXTENDS PanelIdentity, TLC

CONSTANTS e1, e2, p1, p2, l1, l2

Products(F, G) == {f @@ g : f \in F, g \in G}
IdSymmetry ==
  Products(Permutations(Entries),
           Products(Permutations(Panels), Permutations(Legacies)))
=============================================================================
