---------------------------- MODULE MCTokenBudget ----------------------------
(* TokenBudget for TLC: nothing compares identities of campaigns or of the  *)
(* calls of one kind.                                                       *)
EXTENDS TokenBudget, TLC

Symmetry ==
    Permutations(Campaign) \cup Permutations(Driver) \cup Permutations(Direct)
==============================================================================
