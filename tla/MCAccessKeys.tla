---------------------------- MODULE MCAccessKeys ----------------------------
(* Instances of AccessKeys for TLC. *)
EXTENDS AccessKeys, TLC

(* Players and claims are interchangeable; keys are not, they have an order. *)
MCSymmetry == Permutations(Users) \cup Permutations(Claims)
=============================================================================
