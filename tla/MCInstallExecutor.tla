------------------------- MODULE MCInstallExecutor -------------------------
(***************************************************************************)
(* One job on one panel: every phase, cancellation at any point, two       *)
(* restarts and every kind of failure.                                     *)
(***************************************************************************)
EXTENDS InstallExecutor

CONSTANTS j1, e1

MCPlans == {[address |-> "a", pinned |-> "a", serial |-> "s1"]}
=============================================================================
