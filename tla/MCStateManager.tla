--------------------------- MODULE MCStateManager ---------------------------
(* Instances of StateManager for TLC: a few invocations of the CLI and a    *)
(* hand edit of the state file.                                             *)
EXTENDS StateManager, TLC

CONSTANTS i1, i2, f1, e1

Symmetry == Permutations(Intents)
=============================================================================
