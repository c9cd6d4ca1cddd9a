------------------------------ MODULE PlanRun ------------------------------
(***************************************************************************)
(* The loop of "tfgh plan" over its target workspaces (runPlan,            *)
(* cmd/tfgh/main.go) with plan.Run (internal/plan/plan.go) and the         *)
(* terraform commands of internal/tf/executor.go in one checkout.          *)
(* Terraform is external: a command succeeds, fails or never answers.      *)
(*                                                                         *)
(* A terraform plan is named by the position of its target; 0 is a plan    *)
(* that is not of this run.  A directory remembers the terraform workspace *)
(* selected in it last.  Another run of tfgh may work in the same checkout *)
(* at any time.  Staging is the call of Stage (module Stage) or the local  *)
(* write of --stage.                                                       *)
(***************************************************************************)
EXTENDS Integers, Sequences

CONSTANTS
  TargetLists,   \* the lists of workspaces in scope: sequences of
                 \* [name, dir, terraform_workspace, plan_timeout]
  Dirs,          \* the root module directories of the checkout
  None,
  Hangs,         \* the commands that may never answer
  Roots,         \* what --root may be: absolute, ".", its default, or another relative path
  Leftover,      \* the terraform workspaces an earlier run may have left selected
  Shared         \* whether another run may work in the same checkout

ASSUME NoneAssumption == None \notin {0, 1}
ASSUME HangsAssumption == Hangs \subseteq {"init", "select", "plan", "show_json", "show_raw"}
ASSUME TargetsAssumption ==
  \A list \in TargetLists : /\ Len(list) \in Nat
                           /\ \A i \in 1..Len(list) : list[i].dir \in Dirs
ASSUME SharedAssumption == Shared \in BOOLEAN
ASSUME RootAssumption == Roots \subseteq {"absolute", "current", "relative"}

VARIABLES
  targets,   \* the list of this run
  json,      \* --json
  root,      \* --root
  stage,     \* "none", "local" (--stage) or "gcs" (--stage-gcs)
  pc,        \* the command or step in progress, "end" when the process is gone
  at,        \* the position of the target in progress
  hung,      \* the command in progress does not answer
  tfplan,    \* [Dirs -> the plan in the tfplan file there]
  selected,  \* [Dirs -> the terraform workspace selected there]
  disturbed, \* another run worked in the target's directory since it was begun
  res,       \* the WorkspaceResult being built
  results,   \* what --json has kept for the end
  printed,   \* the targets whose summary was printed
  failed,    \* a result with an exit code other than 0 and 2 was seen
  staged,    \* the artifact sets staged so far
  exit       \* the exit status and the error of the process

vars == <<targets, json, root, stage, pc, at, hung, tfplan, selected, disturbed, res,
          results, printed, failed, staged, exit>>

Commands == {"init", "select", "plan", "show_json", "show_raw"}

Running == [status |-> None, error |-> ""]
NoResult ==
  [exit_code |-> 0, has_changes |-> FALSE, state |-> "default",
   plan_json |-> None, plan_raw |-> None]

Target == targets[at]

Init ==
  /\ targets \in TargetLists
  /\ json \in BOOLEAN
  /\ root \in Roots
  /\ stage \in {"none", "local", "gcs"}
  /\ pc = "next" /\ at = 0 /\ hung = FALSE
  /\ tfplan \in [Dirs -> {None, 0}] /\ selected \in [Dirs -> Leftover] /\ disturbed = FALSE
  /\ res = NoResult /\ results = <<>> /\ printed = {} /\ failed = FALSE /\ staged = {}
  /\ exit = Running

Run == <<targets, json, root, stage>>    \* never change
Checkout == <<tfplan, selected, disturbed>>
Output == <<results, printed, failed, staged>>

-----------------------------------------------------------------------------
(* The end of the process *)

\* fatalf: the process is gone, with what it has kept.
Fatal(error) ==
  /\ exit' = [status |-> 1, error |-> error]
  /\ pc' = "end"
  /\ UNCHANGED <<Run, at, hung, Checkout, res, Output>>

\* Bug: the error of a command is logged and the loop goes on with the next target.
BugFails ==
  /\ pc \in Commands /\ ~hung
  /\ pc' = "next"
  /\ UNCHANGED <<Run, at, hung, Checkout, res, Output, exit>>

\* Every error of plan.Run ends the process.
Fails ==
  /\ pc \in Commands /\ ~hung
  /\ Fatal("failure")

\* Bug: the deadline is set once the workspace is selected.
BugDeadline == pc = "plan" /\ Target.plan_timeout > 0 /\ Fatal("timeout")

\* plan_timeout covers the selection of the workspace and the plan, and only an
\* error of the plan is reported as a timeout.
Deadline ==
  /\ pc \in {"select", "plan"}
  /\ Target.plan_timeout > 0
  /\ Fatal(IF pc = "plan" THEN "timeout" ELSE "failure")

Hang ==
  /\ pc \in Hangs /\ ~hung
  /\ hung' = TRUE
  /\ UNCHANGED <<Run, pc, at, Checkout, res, Output, exit>>

-----------------------------------------------------------------------------
(* One target: init, select, plan, show -json, show *)

Answers(command, next) == pc = command /\ ~hung /\ pc' = next

NextTarget ==
  /\ pc = "next" /\ at < Len(targets)
  /\ at' = at + 1 /\ pc' = "init"
  /\ disturbed' = FALSE
  /\ UNCHANGED <<Run, hung, tfplan, selected, res, Output, exit>>

\* Bug: a directory this run has been in is taken to have its workspace selected.
BugTerraformInit ==
  /\ Answers("init",
       IF Target.terraform_workspace = "" \/ \E i \in 1..(at - 1) : targets[i].dir = Target.dir
       THEN "plan" ELSE "select")
  /\ UNCHANGED <<Run, at, hung, Checkout, res, Output, exit>>

\* A workspace is selected only for a target that names one.
TerraformInit ==
  /\ Answers("init", IF Target.terraform_workspace = "" THEN "plan" ELSE "select")
  /\ UNCHANGED <<Run, at, hung, Checkout, res, Output, exit>>

\* The selection is kept in the directory, for the next target and the next run.
WorkspaceSelect ==
  /\ Answers("select", "plan")
  /\ selected' = [selected EXCEPT ![Target.dir] = Target.terraform_workspace]
  /\ UNCHANGED <<Run, at, hung, tfplan, disturbed, res, Output, exit>>

\* -out is filepath.Join(workDir, "tfplan") and terraform runs in workDir, so a
\* relative workDir names a directory below itself that is not there, unless it is
\* the current directory.
Writable(dir) == root = "absolute" \/ (root = "current" /\ dir = ".")

\* Bug: without changes the exit code stays at its preset of 1.
BugExitCode(changes) == IF changes THEN 2 ELSE 1

\* tfexec tells success without changes from success with changes.
ExitCode(changes) == IF changes THEN 2 ELSE 0

\* terraform plan plans the state of the selected workspace and writes tfplan, with
\* or without changes.
TerraformPlan ==
  /\ Answers("plan", "show_json")
  /\ Writable(Target.dir)
  /\ tfplan' = [tfplan EXCEPT ![Target.dir] = at]
  /\ \E changes \in BOOLEAN :
       res' = [NoResult EXCEPT !.exit_code = ExitCode(changes), !.has_changes = changes,
                               !.state = selected[Target.dir]]
  /\ UNCHANGED <<Run, at, hung, selected, disturbed, Output, exit>>

PlanNotWritten ==
  /\ pc = "plan" /\ ~hung /\ ~Writable(Target.dir)
  /\ Fatal("unwritable")

\* The tfplan file is read back twice.
ShowPlanJSON ==
  /\ Answers("show_json", "show_raw")
  /\ res' = [res EXCEPT !.plan_json = tfplan[Target.dir]]
  /\ UNCHANGED <<Run, at, hung, Checkout, Output, exit>>

ShowPlanRaw ==
  /\ Answers("show_raw", "report")
  /\ res' = [res EXCEPT !.plan_raw = tfplan[Target.dir]]
  /\ UNCHANGED <<Run, at, hung, Checkout, Output, exit>>

-----------------------------------------------------------------------------
(* Its result: printed or kept for the end, then staged *)

\* Bug: a summary is printed only for a plan with changes.
BugReport ==
  /\ pc = "report"
  /\ results' = IF json THEN Append(results, at) ELSE results
  /\ printed' = IF json \/ ~res.has_changes THEN printed ELSE printed \cup {at}
  /\ failed' = (failed \/ res.exit_code \notin {0, 2})
  /\ pc' = IF stage = "none" THEN "next" ELSE "stage"
  /\ UNCHANGED <<Run, at, hung, Checkout, res, staged, exit>>

Report ==
  /\ pc = "report"
  /\ results' = IF json THEN Append(results, at) ELSE results
  /\ printed' = IF json THEN printed ELSE printed \cup {at}
  /\ failed' = (failed \/ res.exit_code \notin {0, 2})
  /\ pc' = IF stage = "none" THEN "next" ELSE "stage"
  /\ UNCHANGED <<Run, at, hung, Checkout, res, staged, exit>>

\* Bug: the tfplan bytes are those of the last directory a plan ran in.
BugStagedSet ==
  [at |-> at, state |-> res.state, alone |-> ~disturbed,
   json |-> res.plan_json, raw |-> res.plan_raw,
   bytes |-> tfplan[targets[Len(targets)].dir]]

\* Stage reads the tfplan file again; the local write keeps no tfplan.  The state
\* planned and whether another run interfered are history.
StagedSet ==
  [at |-> at, state |-> res.state, alone |-> ~disturbed,
   json |-> res.plan_json, raw |-> res.plan_raw,
   bytes |-> IF stage = "gcs" THEN tfplan[Target.dir] ELSE None]

StageResult ==
  /\ pc = "stage"
  /\ staged' = staged \cup {StagedSet}
  /\ pc' = "next"
  /\ UNCHANGED <<Run, at, hung, Checkout, res, results, printed, failed, exit>>

StageFails == pc = "stage" /\ Fatal("staging")

\* The loop is over: --json prints what it has kept.
Finish ==
  /\ pc = "next" /\ at = Len(targets)
  /\ printed' = printed \cup {results[i] : i \in DOMAIN results}
  /\ exit' = [status |-> IF failed THEN 1 ELSE 0, error |-> ""]
  /\ pc' = "end"
  /\ UNCHANGED <<Run, at, hung, Checkout, res, results, failed, staged>>

\* Another run of tfgh in the same checkout plans or selects a workspace there:
\* nothing keeps two runs apart.
OtherRun ==
  /\ Shared /\ pc # "end"
  /\ \E dir \in Dirs :
       /\ \/ tfplan' = [tfplan EXCEPT ![dir] = 0] /\ UNCHANGED selected
          \/ \E w \in Leftover : selected' = [selected EXCEPT ![dir] = w] /\ UNCHANGED tfplan
       /\ disturbed' = (disturbed \/ (at > 0 /\ dir = Target.dir))
  /\ UNCHANGED <<Run, pc, at, hung, res, Output, exit>>

Step ==
  \/ NextTarget \/ TerraformInit \/ WorkspaceSelect \/ TerraformPlan \/ PlanNotWritten
  \/ ShowPlanJSON \/ ShowPlanRaw \/ Report \/ StageResult \/ Finish

Next == Step \/ Fails \/ Deadline \/ Hang \/ StageFails \/ OtherRun

Spec == Init /\ [][Next]_vars

\* The process runs, and the context of a command is cancelled at its deadline.
FairSpec == Spec /\ WF_vars(Step) /\ WF_vars(Deadline)

-----------------------------------------------------------------------------
(* Properties *)

Plans == 0..Len(targets) \cup {None}
States ==
  {"default"} \cup Leftover
  \cup UNION {{list[i].terraform_workspace : i \in 1..Len(list)} : list \in TargetLists}

\* The variables have the types given with their declarations.
TypeOK ==
  /\ targets \in TargetLists /\ json \in BOOLEAN /\ root \in Roots
  /\ stage \in {"none", "local", "gcs"}
  /\ pc \in Commands \cup {"next", "report", "stage", "end"}
  /\ at \in 0..Len(targets) /\ (pc # "next" /\ pc # "end" => at > 0)
  /\ hung \in BOOLEAN /\ (hung => pc \in Commands \cup {"end"})
  /\ tfplan \in [Dirs -> Plans] /\ selected \in [Dirs -> States] /\ disturbed \in BOOLEAN
  /\ res \in [exit_code : {0, 2}, has_changes : BOOLEAN, state : States,
              plan_json : Plans, plan_raw : Plans]
  /\ results \in Seq(1..Len(targets)) /\ printed \subseteq 1..Len(targets)
  /\ failed \in BOOLEAN /\ {s.at : s \in staged} \subseteq 1..Len(targets)
  /\ exit.status \in {None, 0, 1}

\* The plan.json, the plan.txt and the tfplan staged for a workspace are of the
\* one plan this run made for it, though workspaces share a directory and a
\* tfplan of an earlier run or target may lie there; when another run worked there
\* meanwhile they may be of its plan, never of another target's
\* (executor.go:77-81, plan.go:94-121, stage.go:92-101).
StagedIsOnePlan ==
  \A s \in staged :
    LET read == {s.json, s.raw} \cup (IF stage = "gcs" THEN {s.bytes} ELSE {})
    IN  read \subseteq IF s.alone THEN {s.at} ELSE {s.at, 0}

\* What is staged for a workspace that names a terraform workspace was planned
\* against that one's state, though targets and runs share the selection of a
\* directory, unless another run worked there meanwhile (executor.go:67-72).
NamedStateIsPlanned ==
  \A s \in staged :
    s.alone /\ targets[s.at].terraform_workspace # "" =>
      s.state = targets[s.at].terraform_workspace

\* Without --json, what is staged has been shown, whichever later target or request
\* fails (main.go:280-317).
StagedWasShown == ~json => {s.at : s \in staged} \subseteq printed

\* What is staged is a prefix of the targets; a run that exits with 0 has staged
\* and printed all of them, one that exits with 1 stopped at a target it did not
\* stage (main.go:267-325).
ExitTellsStaged ==
  /\ stage # "none" => \E n \in {at, at - 1} : {s.at : s \in staged} = 1..n
  /\ exit.status = 0 => /\ printed = 1..Len(targets)
                        /\ stage # "none" => {s.at : s \in staged} = 1..Len(targets)
  /\ exit.status = 1 => at \notin {s.at : s \in staged}

\* A run ends even when the selection of a workspace or the plan hangs, every
\* accepted workspace having a plan_timeout (executor.go:56-60).
RunEnds == <>(pc = "end")

-----------------------------------------------------------------------------
(* What a comment says and the code does not keep *)

\* Documented: a run plans each workspace end to end, and two workspaces of one
\* directory are not the same when one has no terraform workspace: that one is
\* planned in the default workspace of a fresh checkout.
UnnamedStateIsDefault ==
  \A s \in staged :
    s.alone /\ targets[s.at].terraform_workspace = "" => s.state = "default"
=============================================================================
