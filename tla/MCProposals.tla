---------------------------- MODULE MCProposals ----------------------------
(* Proposals for TLC: requests are interchangeable.                         *)
EXTENDS Proposals, TLC

Symmetry == Permutations(Request)
=============================================================================
