------------------------------- MODULE Apply -------------------------------
(***************************************************************************)
(* "tfgh plan --stage-gcs" and "tfgh apply verify" (cmd/tfgh/main.go,      *)
(* internal/scope/scope.go, internal/apply/verify.go) over a GitHub that   *)
(* moves under them.  Each run of a verb is a process that reads GitHub    *)
(* and the buckets one request at a time; reads of a commit, which cannot  *)
(* change, are taken with the request before them.                         *)
(*                                                                         *)
(* Staging one plan is one step here: Stage publishes at most one signed   *)
(* plan per key, whole and of one author (Stage, StageProofs).  A run that *)
(* dies is a run that takes no more steps.                                 *)
(***************************************************************************)
EXTENDS GitHub

CONSTANTS
  Planners,     \* runs of "tfgh plan"
  Appliers,     \* runs of "tfgh apply verify"
  None,         \* no pull request, no workspace
  FreshRoot     \* whether --root is always a checkout of the head being planned

ASSUME FreshRootAssumption == FreshRoot \in BOOLEAN

VARIABLES
  plans,     \* [Planners -> the locals of runPlan]
  staged,    \* the signed plans in the plan bucket
  applies,   \* [Appliers -> the locals of runApply and Verify]
  cleared    \* <<pr, ws>> such that ws was configured at some time after pr merged

vars == <<commits, tip, pulls, config, plans, staged, applies, cleared>>

\* A staged plan: the fields of meta.json, and one fact it does not record, the
\* tree terraform really ran on.
Meta(pr, ws, base, head, tree, ran) ==
  [pr |-> pr, ws |-> ws, base |-> base, head |-> head, tree |-> tree, ran |-> ran]

NoMeta == Meta(None, None, 0, 0, {}, {})

SameKey(m, ws, base, head) == m.ws = ws /\ m.base = base /\ m.head = head

\* The staged plan a key names, if any.
At(ws, base, head) == {m \in staged : SameKey(m, ws, base, head)}

SysInit ==
  /\ Init
  /\ plans \in [Planners -> [pc : {"load"}, pr : PRs, ws : Workspaces,
                             head : {0}, base : {0}, ran : {{}}]]
  /\ staged = {}
  /\ applies \in [Appliers -> [pc : {"pull"}, pr : PRs, ws : Workspaces, head : {0},
                               base : {0}, meta : {NoMeta}, merge : {0}, outcome : {"none"}]]
  /\ cleared = {}

NoteCleared ==
  cleared' = cleared \cup
    {x \in PRs \X Workspaces : pulls'[x[1]].landed # 0 /\ x[2] \in config'}

-----------------------------------------------------------------------------
(* tfgh plan *)

PlanFrame == UNCHANGED <<commits, tip, pulls, config, applies, cleared>>

\* loadConfig, and the workspace named by --workspace looked up in it.
PlanLoad(q) ==
  /\ plans[q].pc = "load"
  /\ plans' = [plans EXCEPT ![q].pc = IF plans[q].ws \in config THEN "pull" ELSE "end"]
  /\ PlanFrame /\ UNCHANGED staged

\* Scope reads the pull request ...
PlanPull(q) ==
  /\ plans[q].pc = "pull"
  /\ plans' = [plans EXCEPT ![q].head = HeadSHA(plans[q].pr), ![q].pc = "resolve"]
  /\ PlanFrame /\ UNCHANGED staged

\* Bug: a pull request that is behind its base is planned all the same.
BugUpToDate(base, head) == AheadBy(base, head) > 0

\* Up to date is neither behind nor diverged; with nothing ahead no file changed
\* and no workspace is in scope.
UpToDate(base, head) == AheadBy(base, head) > 0 /\ BehindBy(base, head) = 0

\* ... then the tip of its base ref, compares the two, and runPlan refuses what
\* is not up to date.
PlanResolve(q) ==
  /\ plans[q].pc = "resolve"
  /\ plans' = [plans EXCEPT ![q].base = tip,
                 ![q].pc = IF UpToDate(tip, plans[q].head) THEN "run" ELSE "end"]
  /\ PlanFrame /\ UNCHANGED staged

\* terraform init, plan and show in --root, whatever is checked out there.
PlanRun(q) ==
  /\ plans[q].pc = "run"
  /\ \E i \in IF FreshRoot THEN {plans[q].head} ELSE Ids :
       plans' = [plans EXCEPT ![q].ran = GetCommitTree(i), ![q].pc = "stage"]
  /\ PlanFrame /\ UNCHANGED staged

\* Stage under the key of the base and head Scope read, with the head's tree as
\* the planned tree; a key that has its plan keeps it.
PlanStage(q) ==
  /\ plans[q].pc = "stage"
  /\ LET p == plans[q]
         m == Meta(p.pr, p.ws, p.base, p.head, GetCommitTree(p.head), p.ran)
     IN  staged' = IF At(p.ws, p.base, p.head) = {} THEN staged \cup {m} ELSE staged
  /\ plans' = [plans EXCEPT ![q].pc = "end"]
  /\ PlanFrame

PlanStep(q) == PlanLoad(q) \/ PlanPull(q) \/ PlanResolve(q) \/ PlanRun(q) \/ PlanStage(q)

-----------------------------------------------------------------------------
(* tfgh apply verify *)

ApplyFrame == UNCHANGED <<commits, tip, pulls, config, plans, staged, cleared>>

Conclude(a, o) == applies' = [applies EXCEPT ![a].pc = "end", ![a].outcome = o]

\* Bug: the base ref is not resolved.
BugApplyPull(a) ==
  /\ applies[a].pc = "pull"
  /\ applies' = [applies EXCEPT ![a].head = HeadSHA(applies[a].pr), ![a].pc = "fetch"]
  /\ ApplyFrame

\* runApply reads the pull request ...
ApplyPull(a) ==
  /\ applies[a].pc = "pull"
  /\ applies' = [applies EXCEPT ![a].head = HeadSHA(applies[a].pr), ![a].pc = "resolve"]
  /\ ApplyFrame

\* ... and the tip of its base ref as it is now.
ApplyResolve(a) ==
  /\ applies[a].pc = "resolve"
  /\ applies' = [applies EXCEPT ![a].base = tip, ![a].pc = "fetch"]
  /\ ApplyFrame

\* Bug: the base is left out of the key.
BugFetch(a) ==
  /\ applies[a].pc = "fetch"
  /\ \E m \in staged :
       /\ m.ws = applies[a].ws /\ m.head = applies[a].head
       /\ applies' = [applies EXCEPT ![a].meta = m, ![a].pc = "merged"]
  /\ ApplyFrame

\* Verify fetches meta.json and tfplan under the key of what was asked.  Both are
\* what one call of Stage signed, so the signature, the kind and the digest hold.
Fetch(a) ==
  /\ applies[a].pc = "fetch"
  /\ \E m \in At(applies[a].ws, applies[a].base, applies[a].head) :
       applies' = [applies EXCEPT ![a].meta = m, ![a].pc = "merged"]
  /\ ApplyFrame

NotStaged(a) ==
  /\ applies[a].pc = "fetch"
  /\ At(applies[a].ws, applies[a].base, applies[a].head) = {}
  /\ Conclude(a, "not_staged")
  /\ ApplyFrame

\* The pull request is read again: not merged, or its merge commit not shown yet.
NotMerged(a) ==
  /\ applies[a].pc = "merged"
  /\ MergeCommitSHA(applies[a].pr) = 0
  /\ Conclude(a, "not_merged")
  /\ ApplyFrame

\* Bug: the merge commit's parent is not compared with the planned base.
BugBaseHeld(m, base, merge) == m.base = base

\* Step 4: the base asked for, the base planned and the merge commit's first
\* parent are one commit.
BaseHeld(m, base, merge) ==
  /\ m.base = base
  /\ CommitParents(merge) # <<>>
  /\ CommitParents(merge)[1] = base

\* Bug: the merged tree is not compared with the planned one.
BugTreeHeld(m, merge) == TRUE

\* Step 5: the merge commit's tree is the planned tree.
TreeHeld(m, merge) == GetCommitTree(merge) = m.tree

\* Steps 4 and 5, on the merge commit the pull request shows.
CheckMerge(a) ==
  /\ applies[a].pc = "merged"
  /\ LET p == applies[a]
         merge == MergeCommitSHA(p.pr)
     IN  /\ merge # 0
         /\ \/ /\ ~BaseHeld(p.meta, p.base, merge)
               /\ Conclude(a, "base_moved")
            \/ /\ BaseHeld(p.meta, p.base, merge)
               /\ ~TreeHeld(p.meta, merge)
               /\ Conclude(a, "tree_mismatch")
            \/ /\ BaseHeld(p.meta, p.base, merge)
               /\ TreeHeld(p.meta, merge)
               /\ applies' = [applies EXCEPT ![a].merge = merge, ![a].pc = "config"]
  /\ ApplyFrame

\* Bug: the config is not read again after the merge.
BugCheckConfig(a) ==
  /\ applies[a].pc = "config"
  /\ Conclude(a, "applicable")
  /\ ApplyFrame

\* Step 6: the workspace is still in the config at the trusted ref's tip.
CheckConfig(a) ==
  /\ applies[a].pc = "config"
  /\ Conclude(a, IF applies[a].ws \in config THEN "applicable" ELSE "unauthorized")
  /\ ApplyFrame

ApplyStep(a) ==
  \/ ApplyPull(a) \/ ApplyResolve(a)
  \/ Fetch(a) \/ NotStaged(a)
  \/ NotMerged(a) \/ CheckMerge(a)
  \/ CheckConfig(a)

-----------------------------------------------------------------------------

GitHubStep == Next /\ NoteCleared /\ UNCHANGED <<plans, staged, applies>>

SysNext ==
  \/ GitHubStep
  \/ \E q \in Planners : PlanStep(q)
  \/ \E a \in Appliers : ApplyStep(a)

Spec == SysInit /\ [][SysNext]_vars

-----------------------------------------------------------------------------
(* Properties *)

Metas ==
  [pr : PRs \cup {None}, ws : Workspaces \cup {None}, base : Nat, head : Nat,
   tree : SUBSET Nat, ran : SUBSET Nat]

Outcomes == {"none", "not_staged", "not_merged", "base_moved", "tree_mismatch",
             "unauthorized", "applicable"}

\* The variables have the types given with their declarations, every commit they
\* name exists, and a run that is past its reads holds what they returned.
TypeOK ==
  /\ GitHubTypeOK
  /\ staged \subseteq Metas
  /\ plans \in [Planners ->
       [pc : {"load", "pull", "resolve", "run", "stage", "end"}, pr : PRs, ws : Workspaces,
        head : {0} \cup Ids, base : {0} \cup Ids, ran : SUBSET Ids]]
  /\ applies \in [Appliers ->
       [pc : {"pull", "resolve", "fetch", "merged", "config", "end"}, pr : PRs,
        ws : Workspaces, head : {0} \cup Ids, base : {0} \cup Ids, meta : Metas,
        merge : {0} \cup Ids, outcome : Outcomes]]
  /\ \A q \in Planners : plans[q].pc \in {"resolve", "run", "stage"} => plans[q].head # 0
  /\ \A a \in Appliers :
       /\ applies[a].pc # "pull" => applies[a].head # 0
       /\ applies[a].pc \notin {"pull", "resolve"} => applies[a].base # 0
  /\ cleared \subseteq PRs \X Workspaces

Applicable(a) == applies[a].outcome = "applicable"

\* A plan found applicable was planned on top of exactly the base its pull request
\* landed on, and, if the checkout was of the head, ran on exactly the tree that
\* the merge commit has, though the head was pushed, the base moved and the request
\* merged between any two reads (verify.go:151-186).
AppliesWhatMerged ==
  \A a \in Appliers : Applicable(a) =>
    LET m == applies[a].meta
        pull == pulls[applies[a].pr]
    IN  /\ pull.landed # 0
        /\ m.ran = GetCommitTree(m.head) => m.ran = GetCommitTree(pull.landed)
        /\ pull.onto = m.base
        /\ m.ws = applies[a].ws

\* One signed plan is never applicable to two merges, also when two pull requests
\* share their commits and both may find it (verify.go:162-186).
OneMergePerPlan ==
  \A a, b \in Appliers :
    (Applicable(a) /\ Applicable(b) /\ applies[a].meta = applies[b].meta) =>
      applies[a].merge = applies[b].merge

\* The tree comparison refuses only a pull request whose head is no longer the one
\* that was planned: planning up-to-date heads only makes every other merge keep
\* the head's tree (main.go:225-229, verify.go:177-186).
MismatchMeansHeadMoved ==
  \A a \in Appliers : applies[a].outcome = "tree_mismatch" =>
    HeadSHA(applies[a].pr) # applies[a].head

\* A workspace that was out of the config from before the merge until the verdict
\* is never applicable (verify.go:188-197).
AuthorizedAfterMerge ==
  \A a \in Appliers : Applicable(a) => <<applies[a].pr, applies[a].ws>> \in cleared

\* Both verbs take the plan bucket for the store that Stage and Verify implement:
\* a key that GitHub's commits make is signed once, a verification makes up its
\* mind about the key before it finds a plan, and goes on with the plan of that
\* key and no other (main.go:365-383, stage.go:144-152, verify.go:113-149).
Store == INSTANCE PlanStore WITH
           Keys <- Workspaces \X Nat \X Nat, Plans <- Metas \ {NoMeta},
           Readers <- Appliers, None <- NoMeta,
           asked <- [a \in Appliers |-> <<applies[a].ws, applies[a].base, applies[a].head>>],
           signed <- {<< <<m.ws, m.base, m.head>>, m >> : m \in staged},
           found <- [a \in Appliers |-> applies[a].meta]
ImplementsPlanStore == Store!Spec

-----------------------------------------------------------------------------
(* What documents and comments say and the code does not keep *)

\* Documented: a pull request merged on its planned base finds its plan, the key
\* being composed of the base SHA the plan side scoped against.
MergedFindsItsPlan ==
  \A a \in Appliers : applies[a].outcome = "not_staged" =>
    LET pull == pulls[applies[a].pr]
    IN  ~ /\ pull.landed # 0
          /\ pull.head = applies[a].head
          /\ At(applies[a].ws, pull.onto, applies[a].head) # {}

\* Documented: the base is refused as moved only when the request landed on a
\* base other than the planned one; every merge strategy survives.
MovedMeansMoved ==
  \A a \in Appliers : applies[a].outcome = "base_moved" =>
    pulls[applies[a].pr].onto # applies[a].base
=============================================================================
