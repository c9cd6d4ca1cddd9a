------------------------------ MODULE MCApply ------------------------------
(* Instances of Apply for TLC. *)
EXTENDS Apply, TLC

Symmetry ==
  Permutations(PRs) \cup Permutations(Planners) \cup Permutations(Appliers)
=============================================================================
