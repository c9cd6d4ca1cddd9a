------------------------------ MODULE MCStage ------------------------------
(* Instances of Stage for TLC. *)
EXTENDS Stage, TLC

CallSymmetry ==
  Permutations(Calls) \cup Permutations(PRs) \cup Permutations(Workspaces)
=============================================================================
