----------------------------- MODULE MCLiveFight -----------------------------
(* LiveFight for TLC: fights are interchangeable.                           *)
EXTENDS LiveFight, TLC

Symmetry == Permutations(Fight)
==============================================================================
