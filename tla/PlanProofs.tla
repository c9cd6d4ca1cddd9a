----------------------------- MODULE PlanProofs -----------------------------
(***************************************************************************)
(* Proofs about PlanRun, for every list of targets, every directory layout *)
(* and everything another run does in the checkout.                        *)
(*                                                                         *)
(* What a step reads back of the checkout is what this run put there since *)
(* the target was begun, or another run disturbed it (OwnInv).  How far    *)
(* the loop has come is how much is staged and shown (DoneInv).            *)
(***************************************************************************)
EXTENDS PlanRun, TLAPS

\* A plan read back in the target's directory.
Own(plan) == plan \in {at, 0} /\ (~disturbed => plan = at)

OwnInv ==
  /\ pc \in {"show_json", "show_raw", "report", "stage"} => Own(tfplan[Target.dir])
  /\ pc \in {"show_raw", "report", "stage"} => Own(res.plan_json)
  /\ pc \in {"report", "stage"} => Own(res.plan_raw)

StateInv ==
  (~disturbed /\ at > 0 /\ Target.terraform_workspace # "") =>
    /\ pc = "plan" => selected[Target.dir] = Target.terraform_workspace
    /\ pc \in {"show_json", "show_raw", "report", "stage"} =>
         res.state = Target.terraform_workspace

StagedAts == {s.at : s \in staged}
Kept == {results[i] : i \in DOMAIN results}

\* The last target that is staged, and the last that is reported, while the loop runs.
Done == IF pc = "next" THEN at ELSE at - 1
Told == IF pc \in {"stage", "next"} THEN at ELSE at - 1

DoneInv ==
  /\ ~failed
  /\ stage = "none" => staged = {}
  /\ pc # "end" => /\ exit.status = None
                   /\ stage # "none" => StagedAts = 1..Done
                   /\ IF json THEN Kept = 1..Told /\ printed = {}
                              ELSE printed = 1..Told /\ results = <<>>
  /\ pc = "stage" => stage # "none"
  /\ pc = "end" =>
       \/ /\ exit.status = 0 /\ at = Len(targets)
          /\ printed = 1..at
          /\ stage # "none" => StagedAts = 1..at
       \/ /\ exit.status = 1 /\ at > 0
          /\ stage # "none" => StagedAts = 1..(at - 1)
          /\ ~json => 1..(at - 1) \subseteq printed

PInv == TypeOK /\ OwnInv /\ StateInv /\ DoneInv /\ StagedIsOnePlan /\ NamedStateIsPlanned

-----------------------------------------------------------------------------

LEMMA TargetTypes ==
  ASSUME TypeOK
  PROVE  /\ Len(targets) \in Nat /\ at \in Nat
         /\ at > 0 => /\ at \in 1..Len(targets)
                      /\ Target.dir \in Dirs
                      /\ Target.terraform_workspace \in States
  BY TargetsAssumption DEF TypeOK, Target, States

LEMMA InitPInv == Init => PInv
<1> SUFFICES ASSUME Init PROVE PInv
  OBVIOUS
<1>1. TypeOK
  <2>1. res \in [exit_code : {0, 2}, has_changes : BOOLEAN, state : States,
                plan_json : Plans, plan_raw : Plans]
    BY DEF Init, NoResult, Plans, States
  <2>2. results \in Seq(1..Len(targets)) /\ {s.at : s \in staged} = {}
    BY DEF Init
  <2>3. tfplan \in [Dirs -> Plans] /\ selected \in [Dirs -> States] /\ Len(targets) \in Nat
    BY TargetsAssumption DEF Init, Plans, States
  <2>4. /\ at \in 0..Len(targets) /\ (pc # "next" /\ pc # "end" => at > 0)
        /\ printed \subseteq 1..Len(targets) /\ pc = "next"
    BY <2>3 DEF Init
  <2>5. exit.status \in {None, 0, 1}
    BY DEF Init, Running
  <2>6. hung \in BOOLEAN /\ (hung => pc \in Commands \cup {"end"}) /\ failed \in BOOLEAN
        /\ disturbed \in BOOLEAN
    BY DEF Init
  <2> QED
    BY <2>1, <2>2, <2>3, <2>4, <2>5, <2>6, Zenon DEF Init, TypeOK
<1>2. OwnInv /\ StateInv
  BY DEF Init, OwnInv, StateInv
<1>3. DoneInv
  <2>1. StagedAts = {} /\ Kept = {} /\ Done = 0 /\ Told = 0 /\ 1..0 = {}
    BY DEF Init, StagedAts, Kept, Done, Told
  <2> QED
    BY <2>1 DEF Init, DoneInv, Running
<1>4. StagedIsOnePlan /\ NamedStateIsPlanned
  BY DEF Init, StagedIsOnePlan, NamedStateIsPlanned
<1> QED
  BY <1>1, <1>2, <1>3, <1>4 DEF PInv

\* An error ends the process where it is: only the status is new.
LEMMA FatalKeepsPInv ==
  ASSUME PInv, NEW e, Fatal(e), pc # "next", pc # "end"
  PROVE  PInv'
<1>1. at > 0
  BY DEF PInv, TypeOK
<1>2. TypeOK'
  BY <1>1 DEF PInv, TypeOK, Fatal, Run, Checkout, Output, Plans, States
<1>3. OwnInv' /\ StateInv'
  BY DEF Fatal, OwnInv, StateInv, Run, Checkout, Target
<1>4. DoneInv'
  <2>1. Done = at - 1 /\ 1..(at - 1) \subseteq 1..Told
    BY <1>1, TargetTypes DEF PInv, Done, Told
  <2> QED
    BY <1>1, <2>1 DEF PInv, DoneInv, Fatal, Run, Checkout, Output, StagedAts
<1>5. StagedIsOnePlan' /\ NamedStateIsPlanned'
  BY DEF PInv, StagedIsOnePlan, NamedStateIsPlanned, Fatal, Run, Output
<1> QED
  BY <1>2, <1>3, <1>4, <1>5 DEF PInv

\* A step that stages nothing leaves what was staged as it was.
LEMMA StagedKept ==
  ASSUME PInv, UNCHANGED <<Run, staged>>
  PROVE  StagedIsOnePlan' /\ NamedStateIsPlanned' /\ StagedAts' = StagedAts
  BY DEF PInv, StagedIsOnePlan, NamedStateIsPlanned, StagedAts, Run

\* A command that answers moves the target on by one step of plan.Run.
LEMMA CommandKeepsPInv ==
  ASSUME PInv,
         TerraformInit \/ WorkspaceSelect \/ TerraformPlan \/ ShowPlanJSON \/ ShowPlanRaw \/ Hang
  PROVE  PInv'
<1>s. StagedIsOnePlan' /\ NamedStateIsPlanned' /\ StagedAts' = StagedAts
  BY StagedKept DEF TerraformInit, WorkspaceSelect, TerraformPlan, ShowPlanJSON, ShowPlanRaw,
     Hang, Output
<1>t. /\ TypeOK /\ at > 0 /\ at \in 1..Len(targets) /\ Len(targets) \in Nat
      /\ Target.dir \in Dirs /\ Target.terraform_workspace \in States
      /\ Target' = Target /\ pc \in Commands /\ UNCHANGED <<at, exit, disturbed, Run, Output>>
  <2>1. pc \in Commands /\ UNCHANGED <<at, exit, disturbed, Run, Output>>
    BY HangsAssumption DEF TerraformInit, WorkspaceSelect, TerraformPlan, ShowPlanJSON,
       ShowPlanRaw, Hang, Answers, Commands, Checkout
  <2> QED
    BY <2>1, TargetTypes DEF PInv, TypeOK, Commands, Target, Run
<1>p. pc' \in Commands \cup {"report"}
  BY <1>t DEF TerraformInit, WorkspaceSelect, TerraformPlan, ShowPlanJSON, ShowPlanRaw,
     Hang, Answers, Commands
<1>1. TypeOK'
  <2>1. CASE TerraformInit
    BY <1>t, <2>1 DEF TypeOK, TerraformInit, Answers, Commands, Run, Checkout, Output, Plans, States
  <2>2. CASE WorkspaceSelect
    BY <1>t, <2>2 DEF TypeOK, WorkspaceSelect, Answers, Commands, Run, Output, Plans, States
  <2>3. CASE TerraformPlan
    <3>1. PICK changes \in BOOLEAN :
            res' = [NoResult EXCEPT !.exit_code = ExitCode(changes), !.has_changes = changes,
                                    !.state = selected[Target.dir]]
      BY <2>3 DEF TerraformPlan
    <3>2. res' \in [exit_code : {0, 2}, has_changes : BOOLEAN, state : States,
                    plan_json : Plans, plan_raw : Plans]
      BY <1>t, <3>1 DEF TypeOK, NoResult, ExitCode, Plans
    <3>3. tfplan' \in [Dirs -> Plans]
      BY <1>t, <2>3 DEF TypeOK, TerraformPlan, Plans
    <3> QED
      BY <1>t, <2>3, <3>2, <3>3
      DEF TypeOK, TerraformPlan, Answers, Commands, Run, Output, Plans, States
  <2>4. CASE ShowPlanJSON
    BY <1>t, <2>4 DEF TypeOK, ShowPlanJSON, Answers, Commands, Run, Checkout, Output, Plans, States
  <2>5. CASE ShowPlanRaw
    BY <1>t, <2>5 DEF TypeOK, ShowPlanRaw, Answers, Commands, Run, Checkout, Output, Plans, States
  <2>6. CASE Hang
    BY <1>t, <2>6, HangsAssumption
    DEF TypeOK, Hang, Commands, Run, Checkout, Output, Plans, States
  <2> QED
    BY <2>1, <2>2, <2>3, <2>4, <2>5, <2>6
<1>2. OwnInv'
  <2>1. CASE TerraformInit \/ WorkspaceSelect
    BY <2>1 DEF TerraformInit, WorkspaceSelect, Answers, OwnInv
  <2>2. CASE TerraformPlan
    BY <1>t, <2>2 DEF TerraformPlan, Answers, OwnInv, Own, TypeOK
  <2>3. CASE ShowPlanJSON
    BY <1>t, <2>3 DEF ShowPlanJSON, Answers, OwnInv, Own, TypeOK, PInv, Checkout
  <2>4. CASE ShowPlanRaw
    BY <1>t, <2>4 DEF ShowPlanRaw, Answers, OwnInv, Own, TypeOK, PInv, Checkout
  <2>5. CASE Hang
    BY <1>t, <2>5 DEF Hang, OwnInv, Own, PInv, Checkout
  <2> QED
    BY <2>1, <2>2, <2>3, <2>4, <2>5
<1>3. StateInv'
  <2>1. CASE TerraformInit
    BY <1>t, <2>1 DEF TerraformInit, Answers, StateInv
  <2>2. CASE WorkspaceSelect
    BY <1>t, <2>2 DEF WorkspaceSelect, Answers, StateInv, TypeOK
  <2>3. CASE TerraformPlan
    <3>1. pc = "plan" /\ pc' = "show_json" /\ res'.state = selected[Target.dir]
      BY <2>3 DEF TerraformPlan, Answers, NoResult
    <3> QED
      BY <1>t, <3>1 DEF PInv, StateInv
  <2>4. CASE ShowPlanJSON \/ ShowPlanRaw
    BY <1>t, <2>4 DEF ShowPlanJSON, ShowPlanRaw, Answers, StateInv, TypeOK, PInv
  <2>5. CASE Hang
    <3>1. pc' = pc /\ at' = at /\ disturbed' = disturbed /\ selected' = selected /\ res' = res
      BY <2>5 DEF Hang, Checkout
    <3>2. Target' = Target /\ StateInv
      BY <1>t DEF PInv
    <3> QED
      BY <3>1, <3>2, Zenon DEF StateInv
  <2> QED
    BY <2>1, <2>2, <2>3, <2>4, <2>5
<1>4. DoneInv'
  <2>1. Done' = Done /\ Told' = Told /\ Kept' = Kept /\ pc # "end" /\ pc' # "end" /\ pc' # "stage"
    BY <1>t, <1>p DEF Done, Told, Kept, Commands, Output
  <2> QED
    BY <1>s, <1>t, <2>1 DEF PInv, DoneInv, Run, Output
<1> QED
  BY <1>s, <1>1, <1>2, <1>3, <1>4 DEF PInv

LEMMA NextTargetKeepsPInv == PInv /\ NextTarget => PInv'
<1> SUFFICES ASSUME PInv, NextTarget PROVE PInv'
  OBVIOUS
<1>s. StagedIsOnePlan' /\ NamedStateIsPlanned' /\ StagedAts' = StagedAts
  BY StagedKept DEF NextTarget, Output
<1>1. TypeOK'
  <2>1. at' \in 0..Len(targets) /\ at' > 0
    BY TargetTypes DEF PInv, NextTarget
  <2>2. targets' = targets /\ pc' = "init" /\ disturbed' = FALSE
        /\ UNCHANGED <<json, root, stage, hung, tfplan, selected, res, results, printed,
                       failed, staged, exit>>
    BY DEF NextTarget, Run, Output
  <2>3. pc = "next" /\ hung' = hung /\ (hung => pc \in Commands \cup {"end"}) /\ "next" \notin Commands
    BY <2>2 DEF NextTarget, PInv, TypeOK, Commands
  <2>4. pc' \in Commands
    BY <2>2 DEF Commands
  <2>5. \A s \in staged : s.at \in 1..Len(targets)
    BY DEF PInv, TypeOK
  <2> QED
    BY <2>1, <2>2, <2>3, <2>4, <2>5 DEF PInv, TypeOK, Plans
<1>2. OwnInv' /\ StateInv'
  BY DEF NextTarget, OwnInv, StateInv
<1>3. DoneInv'
  BY <1>s, TargetTypes DEF PInv, DoneInv, NextTarget, Done, Told, Kept, Run, Output
<1> QED
  BY <1>s, <1>1, <1>2, <1>3 DEF PInv

LEMMA ReportKeepsPInv == PInv /\ Report => PInv'
<1> SUFFICES ASSUME PInv, Report PROVE PInv'
  OBVIOUS
<1>s. StagedIsOnePlan' /\ NamedStateIsPlanned' /\ StagedAts' = StagedAts
  BY StagedKept DEF Report
<1>t. TypeOK /\ at > 0 /\ at \in 1..Len(targets) /\ Len(targets) \in Nat /\ pc = "report"
  BY TargetTypes DEF PInv, TypeOK, Report
<1>1. TypeOK'
  <2>1. printed' \subseteq 1..Len(targets) /\ pc' \in {"next", "stage"}
    BY <1>t DEF TypeOK, Report
  <2>3. results' \in Seq(1..Len(targets))
    <3>1. results \in Seq(1..Len(targets)) /\ results' = IF json THEN Append(results, at) ELSE results
      BY <1>t DEF TypeOK, Report
    <3>2. Append(results, at) \in Seq(1..Len(targets))
      BY <1>t, <3>1
    <3> QED
      BY <3>1, <3>2, Zenon
  <2>2. failed' \in BOOLEAN
    BY DEF Report
  <2> QED
    BY <1>s, <1>t, <2>1, <2>2, <2>3 DEF TypeOK, Report, Run, Checkout, Commands, Plans, States, StagedAts
<1>2. OwnInv' /\ StateInv'
  BY DEF PInv, Report, OwnInv, StateInv, Own, Run, Checkout, Target
<1>3. DoneInv'
  <2>1. /\ Told = at - 1 /\ Done = at - 1 /\ Told' = at
        /\ pc' = IF stage = "none" THEN "next" ELSE "stage"
        /\ stage # "none" => Done' = at - 1
    BY <1>t DEF Report, Done, Told
  <2>2. 1..at = 1..(at - 1) \cup {at}
    BY <1>t
  <2>3. CASE json
    <3>1. Kept' = Kept \cup {at}
      <4>1. Kept' = {Append(results, at)[i] : i \in DOMAIN Append(results, at)}
        BY <2>3 DEF Report, Kept
      <4>2. results \in Seq(1..Len(targets))
        BY <1>t DEF TypeOK
      <4>3. {Append(results, at)[i] : i \in DOMAIN Append(results, at)}
              = {results[i] : i \in DOMAIN results} \cup {at}
        <5>1. /\ DOMAIN Append(results, at) = 1..(Len(results) + 1)
              /\ DOMAIN results = 1..Len(results) /\ Len(results) \in Nat
              /\ Append(results, at)[Len(results) + 1] = at
              /\ \A i \in 1..Len(results) : Append(results, at)[i] = results[i]
          BY <1>t, <4>2
        <5> QED
          BY <5>1
      <4> QED
        BY <4>1, <4>3 DEF Kept
    <3> QED
      BY <1>s, <1>t, <2>1, <2>2, <2>3, <3>1 DEF PInv, DoneInv, Report, Run, TypeOK
  <2>4. CASE ~json
    BY <1>s, <1>t, <2>1, <2>2, <2>4 DEF PInv, DoneInv, Report, Run, TypeOK
  <2> QED
    BY <2>3, <2>4
<1> QED
  BY <1>s, <1>1, <1>2, <1>3 DEF PInv

LEMMA StageResultKeepsPInv == PInv /\ StageResult => PInv'
<1> SUFFICES ASSUME PInv, StageResult PROVE PInv'
  OBVIOUS
<1>t. TypeOK /\ at > 0 /\ at \in 1..Len(targets) /\ Len(targets) \in Nat /\ pc = "stage"
  BY TargetTypes DEF PInv, TypeOK, StageResult
<1>a. StagedAts' = StagedAts \cup {at}
  <2>1. staged' = staged \cup {StagedSet} /\ StagedSet.at = at
    BY DEF StageResult, StagedSet
  <2> QED
    BY <2>1 DEF StagedAts
<1>1. TypeOK'
  <2>1. {s.at : s \in staged'} \subseteq 1..Len(targets)
    BY <1>t, <1>a DEF StagedAts, TypeOK
  <2> QED
    BY <1>t, <2>1 DEF TypeOK, StageResult, Run, Checkout, Commands, Plans, States
<1>2. OwnInv' /\ StateInv'
  BY DEF StageResult, OwnInv, StateInv
<1>3. DoneInv'
  <2>1. Told = at /\ Done = at - 1 /\ Told' = at /\ Done' = at /\ Kept' = Kept
    BY <1>t DEF StageResult, Done, Told, Kept
  <2>2. 1..at = 1..(at - 1) \cup {at}
    BY <1>t
  <2> QED
    BY <1>t, <1>a, <2>1, <2>2 DEF PInv, DoneInv, StageResult, Run
<1>4. StagedIsOnePlan'
  <2>1. Own(res.plan_json) /\ Own(res.plan_raw) /\ Own(tfplan[Target.dir])
    BY <1>t DEF PInv, OwnInv
  <2>2. /\ StagedSet.at = at /\ StagedSet.json = res.plan_json /\ StagedSet.raw = res.plan_raw
        /\ StagedSet.alone = ~disturbed
        /\ stage = "gcs" => StagedSet.bytes = tfplan[Target.dir]
        /\ staged' = staged \cup {StagedSet} /\ stage' = stage
    BY DEF StageResult, StagedSet, Run
  <2>3. {StagedSet.json, StagedSet.raw} \cup (IF stage = "gcs" THEN {StagedSet.bytes} ELSE {})
          \subseteq IF StagedSet.alone THEN {at} ELSE {at, 0}
    BY <2>1, <2>2 DEF Own
  <2> QED
    BY <2>2, <2>3 DEF PInv, StagedIsOnePlan
<1>5. NamedStateIsPlanned'
  <2>1. /\ StagedSet.at = at /\ StagedSet.state = res.state /\ StagedSet.alone = ~disturbed
        /\ staged' = staged \cup {StagedSet} /\ targets' = targets
    BY DEF StageResult, StagedSet, Run
  <2>2. (~disturbed /\ targets[at].terraform_workspace # "") =>
          res.state = targets[at].terraform_workspace
    BY <1>t DEF PInv, StateInv, Target
  <2> QED
    BY <2>1, <2>2 DEF PInv, NamedStateIsPlanned
<1> QED
  BY <1>1, <1>2, <1>3, <1>4, <1>5 DEF PInv

LEMMA FinishKeepsPInv == PInv /\ Finish => PInv'
<1> SUFFICES ASSUME PInv, Finish PROVE PInv'
  OBVIOUS
<1>s. StagedIsOnePlan' /\ NamedStateIsPlanned' /\ StagedAts' = StagedAts
  BY StagedKept DEF Finish
<1>t. TypeOK /\ Len(targets) \in Nat /\ at = Len(targets) /\ pc = "next"
  BY TargetTypes DEF PInv, Finish
<1>1. TypeOK'
  <2>1. \A i \in DOMAIN results : results[i] \in 1..Len(targets)
    BY <1>t DEF TypeOK
  <2>2. printed' \subseteq 1..Len(targets) /\ exit'.status \in {None, 0, 1}
    BY <1>t, <2>1 DEF TypeOK, Finish
  <2>3. pc' = "end"
        /\ UNCHANGED <<targets, json, root, stage, at, hung, tfplan, selected, disturbed, res,
                       results, failed, staged>>
    BY DEF Finish, Run, Checkout
  <2> QED
    BY <1>t, <2>2, <2>3 DEF TypeOK, Plans
<1>2. OwnInv' /\ StateInv'
  BY DEF Finish, OwnInv, StateInv
<1>3. DoneInv'
  <2>1. Told = at /\ Done = at
    BY <1>t DEF Done, Told
  <2>2. printed' = printed \cup Kept /\ exit'.status = 0 /\ pc' = "end"
    BY DEF Finish, Kept, PInv, DoneInv
  <2>3. printed' = 1..at
    <3>1. CASE json
      BY <1>t, <2>1, <2>2, <3>1 DEF PInv, DoneInv
    <3>2. CASE ~json
      <4>1. Kept = {}
        BY <1>t, <3>2 DEF PInv, DoneInv, Kept
      <4> QED
        BY <1>t, <2>1, <2>2, <3>2, <4>1 DEF PInv, DoneInv
    <3> QED
      BY <3>1, <3>2
  <2> QED
    BY <1>s, <1>t, <2>1, <2>2, <2>3 DEF PInv, DoneInv, Finish, Run
<1> QED
  BY <1>s, <1>1, <1>2, <1>3 DEF PInv

\* Another run changes a directory; if it is the target's, this run is disturbed.
LEMMA OtherRunKeepsPInv == PInv /\ OtherRun => PInv'
<1> SUFFICES ASSUME PInv, OtherRun PROVE PInv'
  OBVIOUS
<1>s. StagedIsOnePlan' /\ NamedStateIsPlanned' /\ StagedAts' = StagedAts
  BY StagedKept DEF OtherRun, Output
<1>t. /\ TypeOK /\ Len(targets) \in Nat /\ Target' = Target
      /\ at > 0 => at \in 1..Len(targets) /\ Target.dir \in Dirs
      /\ UNCHANGED <<Run, pc, at, hung, res, Output, exit>>
  BY TargetTypes DEF PInv, OtherRun, Run, Target
<1>1. PICK dir \in Dirs :
        /\ \/ tfplan' = [tfplan EXCEPT ![dir] = 0] /\ UNCHANGED selected
           \/ \E w \in Leftover : selected' = [selected EXCEPT ![dir] = w] /\ UNCHANGED tfplan
        /\ disturbed' = (disturbed \/ (at > 0 /\ dir = Target.dir))
  BY DEF OtherRun
<1>2. TypeOK'
  <2>1. tfplan' \in [Dirs -> Plans]
    BY <1>1, <1>t DEF TypeOK, Plans
  <2>2. selected' \in [Dirs -> States]
    BY <1>1, <1>t DEF TypeOK, States
  <2> QED
    BY <1>1, <1>t, <2>1, <2>2 DEF TypeOK, Run, Output, Plans, States
<1>3. at > 0 => /\ disturbed' \in BOOLEAN /\ (disturbed => disturbed')
                /\ tfplan'[Target.dir] \in {tfplan[Target.dir], 0}
                /\ ~disturbed' => /\ tfplan'[Target.dir] = tfplan[Target.dir]
                                  /\ selected'[Target.dir] = selected[Target.dir]
  BY <1>1, <1>t DEF TypeOK
<1>4. pc \in {"show_json", "show_raw", "report", "stage"} => at > 0
  BY <1>t DEF TypeOK
<1>5. OwnInv'
  BY <1>3, <1>4, <1>t DEF PInv, OwnInv, Own
<1>6. StateInv'
  BY <1>3, <1>t DEF PInv, StateInv
<1>7. DoneInv'
  <2>1. Done' = Done /\ Told' = Told /\ Kept' = Kept
    BY <1>t DEF Done, Told, Kept, Output
  <2> QED
    BY <1>s, <1>t, <2>1 DEF PInv, DoneInv, Run, Output
<1> QED
  BY <1>s, <1>2, <1>5, <1>6, <1>7 DEF PInv

LEMMA NextPInv == PInv /\ [Next]_vars => PInv'
<1> SUFFICES ASSUME PInv, [Next]_vars PROVE PInv'
  OBVIOUS
<1>1. CASE UNCHANGED vars
  <2>1. StagedIsOnePlan' /\ NamedStateIsPlanned' /\ StagedAts' = StagedAts
    BY <1>1, StagedKept DEF vars, Run
  <2>2. TypeOK' /\ OwnInv' /\ StateInv'
    <3>1. TypeOK'
      BY <1>1, <2>1 DEF vars, PInv, TypeOK, Plans, States, StagedAts
    <3>2. OwnInv' /\ StateInv'
      BY <1>1 DEF vars, PInv, OwnInv, Own, StateInv, Target
    <3> QED
      BY <3>1, <3>2
  <2>3. DoneInv'
    BY <1>1, <2>1 DEF vars, PInv, DoneInv, Done, Told, Kept
  <2> QED
    BY <2>1, <2>2, <2>3 DEF PInv
<1>2. CASE Fails \/ Deadline \/ StageFails \/ PlanNotWritten
  <2>1. pc # "next" /\ pc # "end" /\ \E e \in {"failure", "timeout", "staging", "unwritable"} : Fatal(e)
    BY <1>2 DEF Fails, Deadline, StageFails, PlanNotWritten, Commands
  <2> QED
    BY <2>1, FatalKeepsPInv
<1>3. CASE TerraformInit \/ WorkspaceSelect \/ TerraformPlan \/ ShowPlanJSON \/ ShowPlanRaw \/ Hang
  BY <1>3, CommandKeepsPInv
<1> QED
  BY <1>1, <1>2, <1>3, NextTargetKeepsPInv, ReportKeepsPInv, StageResultKeepsPInv,
     FinishKeepsPInv, OtherRunKeepsPInv
  DEF Next, Step

LEMMA PInvariant == Spec => []PInv
  BY InitPInv, NextPInv, PTL DEF Spec

-----------------------------------------------------------------------------

\* Every variable keeps its type.
THEOREM PlanTypeCorrect == Spec => []TypeOK
<1>1. PInv => TypeOK
  BY DEF PInv
<1> QED
  BY <1>1, PInvariant, PTL

\* What is staged for a target is the plan made for it, however targets share
\* directories, or partly that of another run that worked there meanwhile.
THEOREM StagedSetsAreOnePlan == Spec => []StagedIsOnePlan
<1>1. PInv => StagedIsOnePlan
  BY DEF PInv
<1> QED
  BY <1>1, PInvariant, PTL

\* A target that names a terraform workspace is planned in it.
THEOREM NamedStatesArePlanned == Spec => []NamedStateIsPlanned
<1>1. PInv => NamedStateIsPlanned
  BY DEF PInv
<1> QED
  BY <1>1, PInvariant, PTL

\* Without --json nothing is staged that was not shown.
THEOREM StagedPlansWereShown == Spec => []StagedWasShown
<1>1. PInv => StagedWasShown
  <2> SUFFICES ASSUME PInv, ~json PROVE StagedAts \subseteq printed
    BY DEF StagedWasShown, StagedAts
  <2>1. at \in Nat /\ Len(targets) \in Nat /\ Done \in Int /\ Told \in Int /\ Done <= Told
    BY TargetTypes DEF PInv, Done, Told
  <2>2. CASE stage = "none"
    BY <2>2 DEF PInv, DoneInv, StagedAts
  <2>3. CASE stage # "none"
    BY <2>1, <2>3 DEF PInv, DoneInv
  <2> QED
    BY <2>2, <2>3
<1> QED
  BY <1>1, PInvariant, PTL

\* The exit status and the position of the loop tell what was staged and printed.
THEOREM ExitsTellWhatIsStaged == Spec => []ExitTellsStaged
<1>1. PInv => ExitTellsStaged
  <2> SUFFICES ASSUME PInv PROVE ExitTellsStaged
    OBVIOUS
  <2>1. at \in Nat /\ Len(targets) \in Nat /\ Done \in {at, at - 1}
    BY TargetTypes DEF PInv, Done
  <2>2. stage # "none" => \E n \in {at, at - 1} : StagedAts = 1..n
    BY <2>1 DEF PInv, DoneInv
  <2>3. exit.status = 0 => /\ printed = 1..Len(targets)
                           /\ stage # "none" => StagedAts = 1..Len(targets)
    BY <2>1, NoneAssumption DEF PInv, DoneInv
  <2>4. exit.status = 1 => at \notin StagedAts
    <3>1. stage = "none" => StagedAts = {}
      BY DEF PInv, DoneInv, StagedAts
    <3>2. exit.status = 1 => pc = "end" /\ (stage # "none" => StagedAts = 1..(at - 1))
      BY NoneAssumption DEF PInv, DoneInv
    <3> QED
      BY <2>1, <3>1, <3>2
  <2> QED
    BY <2>2, <2>3, <2>4 DEF ExitTellsStaged, StagedAts
<1> QED
  BY <1>1, PInvariant, PTL
=============================================================================
