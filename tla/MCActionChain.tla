---------------------------- MODULE MCActionChain ----------------------------
(* ActionChain for TLC: combatants and chains are interchangeable.          *)
EXTENDS ActionChain, TLC

Symmetry == Permutations(Who) \cup Permutations(Chain)
==============================================================================
