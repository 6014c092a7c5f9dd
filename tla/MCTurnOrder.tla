----------------------------- MODULE MCTurnOrder -----------------------------
(* TurnOrder for TLC: nothing compares the keys of clicks.                  *)
EXTENDS TurnOrder

Symmetry == Permutations(Intent)
==============================================================================
