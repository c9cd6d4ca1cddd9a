----------------------------- MODULE MCPlanRun -----------------------------
(* Instances of PlanRun for TLC. *)
EXTENDS PlanRun

Workspace(name, dir, tfws) ==
  [name |-> name, dir |-> dir, terraform_workspace |-> tfws, plan_timeout |-> 20]

\* Nothing in scope; one root module with three terraform workspaces; one of
\* two root modules between two workspaces of the other.
Lists ==
  {<<>>,
   <<Workspace("w1", "x", "a"), Workspace("w2", "x", "b"), Workspace("w3", "x", "")>>,
   <<Workspace("w1", "x", "a"), Workspace("w2", ".", ""), Workspace("w3", "x", "b")>>}
=============================================================================
