---------------------------- MODULE StoreProofs ----------------------------
(***************************************************************************)
(* The two verbs over GitHub implement PlanStore, the store that Stage and *)
(* Verify implement (VerifyProofs).                                        *)
(***************************************************************************)
EXTENDS ApplyProofs

\* A key has one plan, of commits that exist; a verification that has not found one
\* holds none.
StoreInv ==
  /\ \A m, n \in staged : SameKey(m, n.ws, n.base, n.head) => m = n
  /\ \A m \in staged : m.ws \in Workspaces /\ m # NoMeta
  /\ \A a \in Appliers : applies[a].pc \in {"pull", "resolve", "fetch"} => applies[a].meta = NoMeta

SInv == AInv /\ StoreInv

LEMMA InitSInv == SysInit => SInv
<1> SUFFICES ASSUME SysInit PROVE StoreInv
  BY InitAInv DEF SInv
<1>1. /\ staged = {}
      /\ \A a \in Appliers : applies[a].meta = NoMeta
  BY DEF SysInit
<1> QED
  BY <1>1 DEF StoreInv

\* A step of GitHub leaves the store and its readers alone.
LEMMA GitHubKeepsSInv == SInv /\ GitHubStep => StoreInv'
  BY DEF SInv, StoreInv, GitHubStep, SameKey

\* The plan that a run of plan stages.
Planned(q) ==
  Meta(plans[q].pr, plans[q].ws, plans[q].base, plans[q].head,
       GetCommitTree(plans[q].head), plans[q].ran)

LEMMA PlannedFields ==
  ASSUME NEW q \in Planners
  PROVE  /\ Planned(q).ws = plans[q].ws /\ Planned(q).base = plans[q].base
         /\ Planned(q).head = plans[q].head
  BY DEF Planned, Meta

\* What a step of plan does to the store: nothing, or a plan for a key without one.
LEMMA PlanSigns ==
  ASSUME AInv, NEW q \in Planners, PlanStep(q)
  PROVE  \/ UNCHANGED staged
         \/ /\ plans[q].pc = "stage"
            /\ staged' = staged \cup {Planned(q)}
            /\ At(plans[q].ws, plans[q].base, plans[q].head) = {}
            /\ Planned(q) \in Metas /\ Planned(q) # NoMeta
            /\ plans[q].ws \in Workspaces
            /\ plans[q].base \in Nat /\ plans[q].head \in Nat
<1>1. CASE plans[q].pc # "stage"
  BY <1>1 DEF PlanStep, PlanLoad, PlanPull, PlanResolve, PlanRun, PlanStage
<1>2. CASE plans[q].pc = "stage"
  <2>1. PlanStage(q)
    BY <1>2 DEF PlanStep, PlanLoad, PlanPull, PlanResolve, PlanRun
  <2>2. staged' = IF At(plans[q].ws, plans[q].base, plans[q].head) = {}
                    THEN staged \cup {Planned(q)} ELSE staged
    BY <2>1 DEF PlanStage, Planned
  <2>3. /\ plans[q].pr \in PRs /\ plans[q].ws \in Workspaces
        /\ plans[q].base \in {0} \cup Ids /\ plans[q].head \in Ids
        /\ plans[q].ran \in SUBSET Ids
    BY <1>2 DEF AInv, TypeOK
  <2>4. /\ Ids \in SUBSET Nat /\ GetCommitTree(plans[q].head) \in SUBSET Ids
        /\ 0 \notin Ids
    BY <2>3, LenCommits DEF AInv, TypeOK, GitHubTypeOK, CommitsOK, GetCommitTree, Ids
  <2>5. /\ plans[q].base \in Nat /\ plans[q].head \in Nat
        /\ GetCommitTree(plans[q].head) \in SUBSET Nat /\ plans[q].ran \in SUBSET Nat
    <3>1. \A S \in SUBSET Ids : S \in SUBSET Nat
      BY <2>4
    <3>2. \A x \in {0} \cup Ids : x \in Nat
      BY <2>4
    <3> QED
      BY <2>3, <2>4, <3>1, <3>2
  <2>6. Planned(q) \in Metas
    BY <2>3, <2>5 DEF Planned, Meta, Metas
  <2>7. Planned(q) # NoMeta
    <3>1. NoMeta.head = 0
      BY DEF NoMeta, Meta
    <3> QED
      BY <2>3, <2>4, <3>1, PlannedFields
  <2> QED
    BY <1>2, <2>2, <2>3, <2>5, <2>6, <2>7
<1> QED
  BY <1>1, <1>2

LEMMA PlanKeepsSInv ==
  ASSUME SInv, NEW q \in Planners, PlanStep(q)
  PROVE  StoreInv'
<1>u. UNCHANGED <<commits, tip, pulls, config, applies, cleared>>
  BY DEF PlanStep, PlanLoad, PlanPull, PlanResolve, PlanRun, PlanStage, PlanFrame
<1>s. \/ UNCHANGED staged
      \/ /\ plans[q].pc = "stage"
         /\ staged' = staged \cup {Planned(q)}
         /\ At(plans[q].ws, plans[q].base, plans[q].head) = {}
         /\ Planned(q) # NoMeta /\ plans[q].ws \in Workspaces
  BY PlanSigns DEF SInv
<1>1. CASE UNCHANGED staged
  BY <1>u, <1>1 DEF SInv, StoreInv, SameKey
<1>2. CASE staged' = staged \cup {Planned(q)}
           /\ At(plans[q].ws, plans[q].base, plans[q].head) = {}
           /\ Planned(q) # NoMeta /\ plans[q].ws \in Workspaces
  <2>1. \A m \in staged : ~ /\ m.ws = Planned(q).ws /\ m.base = Planned(q).base
                            /\ m.head = Planned(q).head
    BY <1>2, PlannedFields DEF At, SameKey
  <2>2. \A m, n \in staged' : SameKey(m, n.ws, n.base, n.head) => m = n
    BY <1>2, <2>1 DEF SInv, StoreInv, SameKey
  <2>3. \A m \in staged' : m.ws \in Workspaces /\ m # NoMeta
    BY <1>2, PlannedFields DEF SInv, StoreInv
  <2> QED
    BY <1>u, <2>2, <2>3 DEF SInv, StoreInv, SameKey
<1> QED
  BY <1>s, <1>1, <1>2

LEMMA ApplyKeepsSInv ==
  ASSUME SInv, NEW a \in Appliers, ApplyStep(a)
  PROVE  StoreInv'
<1>u. UNCHANGED <<commits, tip, pulls, config, plans, staged, cleared>>
  BY DEF ApplyStep, ApplyPull, ApplyResolve, Fetch, NotStaged, NotMerged, CheckMerge,
     CheckConfig, ApplyFrame
<1>1. \A b \in Appliers \ {a} : applies'[b] = applies[b]
  BY DEF ApplyStep, ApplyPull, ApplyResolve, Fetch, NotStaged, NotMerged, CheckMerge,
     CheckConfig, Conclude, SInv, AInv, TypeOK
<1>2. applies'[a].pc \in {"pull", "resolve", "fetch"} => applies'[a].meta = NoMeta
  <2>1. CASE ApplyPull(a) \/ ApplyResolve(a)
    <3>1. applies'[a].meta = applies[a].meta /\ applies[a].pc \in {"pull", "resolve"}
      BY <2>1 DEF ApplyPull, ApplyResolve, SInv, AInv, TypeOK
    <3> QED
      BY <3>1 DEF SInv, StoreInv
  <2>2. CASE ~(ApplyPull(a) \/ ApplyResolve(a))
    <3>1. applies \in [Appliers -> [pc : {"pull", "resolve", "fetch", "merged", "config", "end"},
            pr : PRs, ws : Workspaces, head : {0} \cup Ids, base : {0} \cup Ids, meta : Metas,
            merge : {0} \cup Ids, outcome : Outcomes]]
      BY DEF SInv, AInv, TypeOK
    <3>2. CASE Fetch(a)
      BY <3>1, <3>2 DEF Fetch
    <3>3. CASE CheckMerge(a)
      BY <3>1, <3>3 DEF CheckMerge, Conclude
    <3>4. CASE NotStaged(a) \/ NotMerged(a) \/ CheckConfig(a)
      BY <3>1, <3>4 DEF NotStaged, NotMerged, CheckConfig, Conclude
    <3> QED
      BY <2>2, <3>2, <3>3, <3>4 DEF ApplyStep
  <2> QED
    BY <2>1, <2>2
<1> QED
  BY <1>u, <1>1, <1>2 DEF SInv, StoreInv, SameKey

LEMMA NextSInv == SInv /\ [SysNext]_vars => SInv'
<1> SUFFICES ASSUME SInv, [SysNext]_vars PROVE StoreInv'
  BY NextAInv DEF SInv
<1>1. CASE UNCHANGED vars
  BY <1>1 DEF vars, SInv, StoreInv, SameKey
<1> QED
  BY <1>1, GitHubKeepsSInv, PlanKeepsSInv, ApplyKeepsSInv DEF SysNext

LEMMA SInvariant == Spec => []SInv
  BY InitSInv, NextSInv, PTL DEF Spec

-----------------------------------------------------------------------------
(* Refinement of PlanStore *)

Wanted == [a \in Appliers |-> <<applies[a].ws, applies[a].base, applies[a].head>>]
Signed == {<< <<m.ws, m.base, m.head>>, m >> : m \in staged}
Found == [a \in Appliers |-> applies[a].meta]

LEMMA InitImplementsStore == SysInit => Store!Init
<1> SUFFICES ASSUME SysInit PROVE Store!Init
  OBVIOUS
<1>1. staged = {}
  BY DEF SysInit
<1>2. \A a \in Appliers : /\ applies[a].ws \in Workspaces /\ applies[a].base = 0
                          /\ applies[a].head = 0 /\ applies[a].meta = NoMeta
  BY DEF SysInit
<1>3. Wanted \in [Appliers -> Workspaces \X Nat \X Nat]
  BY <1>2 DEF Wanted
<1>4. Signed = {} /\ Found = [a \in Appliers |-> NoMeta]
  BY <1>1, <1>2 DEF Signed, Found
<1> QED
  BY <1>3, <1>4 DEF Store!Init, Wanted, Signed, Found

\* A run of plan signs one more key, or none.
LEMMA PlanImplementsStore ==
  ASSUME SInv, NEW q \in Planners, PlanStep(q)
  PROVE  [Store!Next]_(Store!vars)
<1>1. Wanted' = Wanted /\ Found' = Found
  BY DEF PlanStep, PlanLoad, PlanPull, PlanResolve, PlanRun, PlanStage, PlanFrame, Wanted, Found
<1>2. CASE UNCHANGED staged
  <2>1. Signed' = Signed
    BY <1>2 DEF Signed
  <2> QED
    BY <1>1, <2>1 DEF Store!vars, Wanted, Signed, Found
<1>3. CASE /\ staged' = staged \cup {Planned(q)}
           /\ At(plans[q].ws, plans[q].base, plans[q].head) = {}
           /\ Planned(q) \in Metas /\ Planned(q) # NoMeta
           /\ plans[q].ws \in Workspaces
           /\ plans[q].base \in Nat /\ plans[q].head \in Nat
  <2>1. PICK p, k : p = Planned(q) /\ k = <<p.ws, p.base, p.head>>
    OBVIOUS
  <2>2. k \in Workspaces \X Nat \X Nat /\ p \in Metas \ {NoMeta}
    BY <1>3, <2>1, PlannedFields
  <2>3. \A s \in Signed : s[1] # k
    <3> SUFFICES ASSUME NEW m \in staged, <<m.ws, m.base, m.head>> = k PROVE FALSE
      BY DEF Signed
    <3> QED
      BY <1>3, <2>1, PlannedFields DEF At, SameKey
  <2>4. Signed' = Signed \cup {<<k, p>>}
    BY <1>3, <2>1 DEF Signed
  <2>5. Store!Sign(k, p)
    BY <1>1, <2>2, <2>3, <2>4 DEF Store!Sign, Wanted, Signed, Found
  <2>6. <<k, p>> \in Signed' /\ <<k, p>>[1] = k /\ <<k, p>>[2] = p
    BY <2>4
  <2>7. \E s \in Signed' : Store!Sign(s[1], s[2])
    BY <2>5, <2>6
  <2> QED
    BY <2>7 DEF Store!Next, Signed
<1> QED
  BY <1>2, <1>3, PlanSigns DEF SInv

\* A run of apply makes up its mind about the key, finds its plan, or is unseen.
LEMMA ApplyImplementsStore ==
  ASSUME SInv, SInv', NEW a \in Appliers, ApplyStep(a)
  PROVE  [Store!Next]_(Store!vars)
<1>1. Signed' = Signed
  BY DEF ApplyStep, ApplyPull, ApplyResolve, Fetch, NotStaged, NotMerged, CheckMerge,
     CheckConfig, ApplyFrame, Signed
<1>2. applies \in [Appliers -> [pc : {"pull", "resolve", "fetch", "merged", "config", "end"},
        pr : PRs, ws : Workspaces, head : {0} \cup Ids, base : {0} \cup Ids, meta : Metas,
        merge : {0} \cup Ids, outcome : Outcomes]]
  BY DEF SInv, AInv, TypeOK
<1>3. CASE ApplyPull(a) \/ ApplyResolve(a)
  <2>1. /\ \A b \in Appliers \ {a} : applies'[b] = applies[b]
        /\ applies'[a].meta = applies[a].meta
    BY <1>2, <1>3 DEF ApplyPull, ApplyResolve
  <2>2. Found' = Found /\ Found[a] = NoMeta
    BY <1>3, <2>1 DEF Found, SInv, StoreInv, ApplyPull, ApplyResolve
  <2>3. Wanted'[a] \in Workspaces \X Nat \X Nat
    <3>1. applies'[a].ws \in Workspaces /\ applies'[a].base \in {0} \cup Ids'
          /\ applies'[a].head \in {0} \cup Ids'
      BY DEF SInv, AInv, TypeOK
    <3>2. {0} \cup Ids' \subseteq Nat
      <4>1. Len(commits') \in Nat
        BY DEF SInv, AInv, TypeOK, GitHubTypeOK, CommitsOK
      <4> QED
        BY <4>1 DEF Ids
    <3> QED
      BY <3>1, <3>2 DEF Wanted
  <2>4. Wanted' = [Wanted EXCEPT ![a] = Wanted'[a]]
    BY <2>1, <1>3 DEF Wanted, ApplyPull, ApplyResolve
  <2>5. Store!Ask(a)
    BY <1>1, <2>2, <2>3, <2>4 DEF Store!Ask, Wanted, Signed, Found
  <2> QED
    BY <2>5 DEF Store!Next
<1>4. CASE Fetch(a)
  <2>1. PICK m \in At(applies[a].ws, applies[a].base, applies[a].head) :
          applies' = [applies EXCEPT ![a].meta = m, ![a].pc = "merged"]
    BY <1>4 DEF Fetch
  <2>2. Wanted' = Wanted
    BY <1>2, <2>1 DEF Wanted
  <2>3. Found' = [Found EXCEPT ![a] = Found'[a]] /\ Found'[a] = m
    BY <1>2, <2>1 DEF Found
  <2>4. <<Wanted[a], m>> \in Signed
    BY <2>1 DEF Wanted, Signed, At, SameKey
  <2>5. Store!Find(a)
    BY <1>1, <2>2, <2>3, <2>4 DEF Store!Find, Wanted, Signed, Found
  <2> QED
    BY <2>5 DEF Store!Next
<1>5. CASE NotStaged(a) \/ NotMerged(a) \/ CheckMerge(a) \/ CheckConfig(a)
  <2>1. \A b \in Appliers : /\ applies'[b].ws = applies[b].ws /\ applies'[b].base = applies[b].base
                            /\ applies'[b].head = applies[b].head
                            /\ applies'[b].meta = applies[b].meta
    BY <1>2, <1>5 DEF NotStaged, NotMerged, CheckMerge, CheckConfig, Conclude
  <2>2. Wanted' = Wanted /\ Found' = Found
    BY <2>1 DEF Wanted, Found
  <2> QED
    BY <1>1, <2>2 DEF Store!vars, Wanted, Signed, Found
<1> QED
  BY <1>3, <1>4, <1>5 DEF ApplyStep

LEMMA NextImplementsStore == SInv /\ SInv' /\ [SysNext]_vars => [Store!Next]_(Store!vars)
<1> SUFFICES ASSUME SInv, SInv', [SysNext]_vars PROVE [Store!Next]_(Store!vars)
  OBVIOUS
<1>1. CASE GitHubStep \/ UNCHANGED vars
  <2>1. Wanted' = Wanted /\ Signed' = Signed /\ Found' = Found
    BY <1>1 DEF GitHubStep, vars, Wanted, Signed, Found
  <2> QED
    BY <2>1 DEF Store!vars, Wanted, Signed, Found
<1> QED
  BY <1>1, PlanImplementsStore, ApplyImplementsStore DEF SysNext

\* To the verbs the plan bucket is the store that Stage and Verify implement,
\* whatever GitHub does meanwhile.
THEOREM VerbsImplementPlanStore == Spec => ImplementsPlanStore
<1>1. SInv /\ [SysNext]_vars => [Store!Next]_(Store!vars)
  BY NextSInv, NextImplementsStore
<1> QED
  BY <1>1, InitImplementsStore, SInvariant, PTL DEF Spec, ImplementsPlanStore, Store!Spec
=============================================================================
