------------------------- MODULE MCSessionCommands -------------------------
(***************************************************************************)
(* Two commands, of which one is kept when its wait ends, so that the      *)
(* second one evicts it; and two events.                                   *)
(***************************************************************************)
EXTENDS SessionCommands, TLC

CONSTANTS k1, k2

CommandSymmetry == Permutations(Commands)
=============================================================================
