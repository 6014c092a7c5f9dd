---------------------------- MODULE MCDriverTurns ----------------------------
(* DriverTurns for TLC: requests are interchangeable.                       *)
EXTENDS DriverTurns

Symmetry == Permutations(Request)
==============================================================================
