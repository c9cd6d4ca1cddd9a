---------------------------- MODULE ConfigProofs ----------------------------
(***************************************************************************)
(* Proofs about Config, for every set of files, refs, branches and changed *)
(* paths: what a config that is accepted has in each workspace, whatever   *)
(* it inherits, and that the rules for directories and patterns by which   *)
(* it is accepted agree with those by which a pull request is scoped.      *)
(***************************************************************************)
EXTENDS PathProofs

\* Parse and Normalize keep the workspaces of a file, and every one of them ends
\* up with a plan_timeout.
LEMMA NormalizedTypes ==
  ASSUME NEW f \in Files
  PROVE  LET c == Normalize(Parse(f))
         IN  /\ c.defaults.plan_timeout \in Nat
             /\ \A i \in DOMAIN c.workspaces : c.workspaces[i].plan_timeout \in Nat \ {0}
<1> DEFINE p == Parse(f)
           c == Normalize(p)
<1>1. f.defaults \in Settings /\ f.workspaces \in Seq(Entries)
  BY FilesAssumption
<1>2. \A d : Duration(d) \in Nat
  BY DEF Duration
<1>3. p.defaults.plan_timeout \in Nat
  BY <1>1, <1>2 DEF Parse, Settings
<1>4. /\ DOMAIN p.workspaces = DOMAIN f.workspaces
      /\ \A i \in DOMAIN f.workspaces :
           p.workspaces[i] = [f.workspaces[i] EXCEPT !.plan_timeout = Duration(@)]
  BY DEF Parse
<1>5. \A i \in DOMAIN f.workspaces : f.workspaces[i] \in Entries
  BY <1>1
<1>6. \A i \in DOMAIN p.workspaces : /\ p.workspaces[i].plan_timeout \in Nat
                                     /\ "plan_timeout" \in DOMAIN p.workspaces[i]
  <2>1. \A w \in Entries : "plan_timeout" \in DOMAIN w
    BY DEF Entries
  <2>2. \A w : "plan_timeout" \in DOMAIN w =>
          LET v == [w EXCEPT !.plan_timeout = Duration(@)]
          IN  DOMAIN v = DOMAIN w /\ v.plan_timeout = Duration(w.plan_timeout)
    OBVIOUS
  <2> QED
    <3> SUFFICES ASSUME NEW i \in DOMAIN p.workspaces
                 PROVE  /\ p.workspaces[i].plan_timeout \in Nat
                        /\ "plan_timeout" \in DOMAIN p.workspaces[i]
      OBVIOUS
    <3>1. /\ "plan_timeout" \in DOMAIN f.workspaces[i]
          /\ p.workspaces[i] = [f.workspaces[i] EXCEPT !.plan_timeout = Duration(@)]
      BY <1>4, <1>5, <2>1
    <3> HIDE DEF p
    <3> QED
      BY <1>2, <2>2, <3>1
<1>7. c.defaults = p.defaults
  BY DEF Parse, Normalize
<1>8. /\ DOMAIN c.workspaces = DOMAIN p.workspaces
      /\ \A i \in DOMAIN p.workspaces : c.workspaces[i] = Inherit(p.workspaces[i], p.defaults)
  BY DEF Parse, Normalize
<1>9. \A w, d : "plan_timeout" \in DOMAIN w =>
        Inherit(w, d).plan_timeout = Or(w.plan_timeout, 0, Or(d.plan_timeout, 0, 20))
  BY DEF Inherit
<1>10. \A i \in DOMAIN p.workspaces : c.workspaces[i].plan_timeout \in Nat \ {0}
  BY <1>3, <1>6, <1>8, <1>9 DEF Or
<1> QED
  BY <1>3, <1>7, <1>8, <1>10

CInv == file \in Files \cup {NoFile} /\ TypeOK /\ AcceptedIsRunnable

LEMMA InitCInv == Init => CInv
<1> SUFFICES ASSUME Init PROVE CInv
  OBVIOUS
<1>1. cfg.workspaces = <<>> /\ cfg.defaults.plan_timeout = 0
  BY DEF Init, EmptyConfig
<1>2. DOMAIN cfg.workspaces = {}
  BY <1>1
<1> QED
  BY <1>1, <1>2 DEF Init, CInv, TypeOK, AcceptedIsRunnable, Checked

LEMMA GotoKeepsCInv ==
  ASSUME CInv, pc # "scoped", NEW l \in {"read"} \cup Outcomes, Goto(l)
  PROVE  CInv'
<1>1. pc' \notin {"loaded", "scoped"} /\ pc' \in {"read"} \cup Outcomes /\ scoped' = {}
  BY DEF Goto, Outcomes, CInv, TypeOK
<1> QED
  BY <1>1 DEF CInv, Goto, TypeOK, AcceptedIsRunnable, Checked, Outcomes

LEMMA LoadKeepsCInv == CInv /\ Load => CInv'
<1> SUFFICES ASSUME CInv, Load PROVE CInv'
  OBVIOUS
<1> DEFINE c == Normalize(Parse(file))
<1>1. CASE ~Accepts(c)
  BY <1>1 DEF CInv, Load, TypeOK, AcceptedIsRunnable, Checked, Outcomes
<1>2. CASE Accepts(c)
  <2>1. PICK f \in Files : file = f
    BY DEF Load, CInv
  <2>2. /\ cfg' = c /\ pc' = "loaded" /\ scoped' = {}
        /\ UNCHANGED <<file, verb, ref, base, changed>>
    BY <1>2 DEF Load, CInv, TypeOK
  <2>3. /\ c.defaults.plan_timeout \in Nat
        /\ \A i \in DOMAIN c.workspaces : c.workspaces[i].plan_timeout \in Nat \ {0}
    BY <2>1, NormalizedTypes
  <2>4. TypeOK'
    BY <2>2, <2>3 DEF CInv, TypeOK
  <2>5. verb # "scope" => \A i \in DOMAIN c.workspaces : ValidWorkspace(c.workspaces[i])
    BY <1>2 DEF Accepts, Validate
  <2>6. AcceptedIsRunnable'
    BY <2>2, <2>3, <2>5 DEF AcceptedIsRunnable, Checked, ValidWorkspace, Reserved
  <2> QED
    BY <2>2, <2>4, <2>6 DEF CInv
<1> QED
  BY <1>1, <1>2

LEMMA ScopeKeepsCInv == CInv /\ Scope => CInv'
  BY DEF CInv, Scope, TypeOK, AcceptedIsRunnable, Checked

LEMMA NextCInv == CInv /\ [Next]_vars => CInv'
<1> SUFFICES ASSUME CInv, [Next]_vars PROVE CInv'
  OBVIOUS
<1>1. CASE Resolve \/ ReadNothing \/ ParseFails
  <2>1. pc # "scoped" /\ \E l \in {"read"} \cup Outcomes : Goto(l)
    BY <1>1 DEF Resolve, ReadNothing, ParseFails, Outcomes
  <2> QED
    BY <2>1, GotoKeepsCInv
<1>2. CASE UNCHANGED vars
  BY <1>2 DEF vars, CInv, TypeOK, AcceptedIsRunnable, Checked
<1> QED
  BY <1>1, <1>2, LoadKeepsCInv, ScopeKeepsCInv DEF Next

LEMMA CInvariant == Spec => []CInv
  BY InitCInv, NextCInv, PTL DEF Spec

-----------------------------------------------------------------------------
(* What was loaded, and what was scoped with it *)

\* Parse and Normalize leave directories and branches as they are in the file.
LEMMA LoadedPaths ==
  ASSUME NEW f \in Files, NEW i \in DOMAIN Normalize(Parse(f)).workspaces
  PROVE  LET w == Normalize(Parse(f)).workspaces[i]
         IN  w.dir \in Seq(STRING) \ {<<>>} /\ w.branch \in Seq(STRING)
<1>1. f.workspaces \in Seq(Entries)
  BY FilesAssumption
<1>2. /\ i \in DOMAIN f.workspaces
      /\ Normalize(Parse(f)).workspaces[i]
           = Inherit([f.workspaces[i] EXCEPT !.plan_timeout = Duration(@)], Parse(f).defaults)
  BY DEF Normalize, Parse
<1>3. f.workspaces[i] \in Entries
  BY <1>1, <1>2
<1>4. \A w, d : LET v == Inherit([w EXCEPT !.plan_timeout = Duration(@)], d)
                IN  w \in Entries => v.dir = w.dir /\ v.branch = w.branch
  BY DEF Entries, Inherit
<1>5. \A w \in Entries : w.dir \in Seq(STRING) \ {<<>>} /\ w.branch \in Seq(STRING)
  BY DEF Entries
<1> QED
  BY <1>2, <1>3, <1>4, <1>5

LEMMA LoadedDomain ==
  ASSUME NEW f \in Files
  PROVE  DOMAIN Normalize(Parse(f)).workspaces \subseteq Nat \ {0}
<1>1. DOMAIN Normalize(Parse(f)).workspaces = DOMAIN f.workspaces
  BY DEF Normalize, Parse
<1>2. f.workspaces \in Seq(Entries)
  BY FilesAssumption
<1>3. DOMAIN f.workspaces = 1..Len(f.workspaces) /\ Len(f.workspaces) \in Nat
  BY <1>2, LenProperties
<1> QED
  BY <1>1, <1>3

\* The workspaces in scope, as Scope finds them.
InScope ==
  {i \in DOMAIN cfg.workspaces :
     /\ BranchMatches(cfg.workspaces[i].branch, base)
     /\ IsWorkspaceAffected(cfg.workspaces[i], CompareCommits(changed))}

LoadedInv ==
  /\ file \in Files \cup {NoFile}
  /\ pc \in {"loaded", "scoped"} =>
       /\ file \in Files /\ cfg = Normalize(Parse(file))
       /\ verb # "scope" => Validate(cfg)
  /\ pc = "scoped" => base \in Bases /\ changed \in Changes /\ scoped = InScope
  /\ pc # "scoped" => scoped = {}

LEMMA InitLoadedInv == Init => LoadedInv
  BY DEF Init, LoadedInv

LEMMA NextLoadedInv == LoadedInv /\ [Next]_vars => LoadedInv'
<1> SUFFICES ASSUME LoadedInv, [Next]_vars PROVE LoadedInv'
  OBVIOUS
<1>1. CASE Resolve \/ ReadNothing \/ ParseFails
  <2>1. pc # "scoped" /\ \E l \in {"read"} \cup Outcomes : Goto(l)
    BY <1>1 DEF Resolve, ReadNothing, ParseFails, Outcomes
  <2>2. pc' \notin {"loaded", "scoped"}
    BY <2>1 DEF Goto, Outcomes
  <2> QED
    BY <2>1, <2>2 DEF LoadedInv, Goto
<1>2. CASE Load
  BY <1>2 DEF Load, LoadedInv, Accepts
<1>3. CASE Scope
  BY <1>3 DEF Scope, LoadedInv, InScope
<1>4. CASE UNCHANGED vars
  BY <1>4 DEF vars, LoadedInv, InScope
<1> QED
  BY <1>1, <1>2, <1>3, <1>4 DEF Next

LEMMA LoadedInvariant == Spec => []LoadedInv
  BY InitLoadedInv, NextLoadedInv, PTL DEF Spec

\* The types that the lemmas about paths and globs ask for.
LEMMA LoadedInvTypes ==
  ASSUME LoadedInv, pc \in {"loaded", "scoped"}
  PROVE  /\ \A i \in DOMAIN cfg.workspaces :
              /\ i \in Nat \ {0}
              /\ cfg.workspaces[i].dir \in Seq(STRING) \ {<<>>}
              /\ cfg.workspaces[i].branch \in Seq(STRING)
         /\ pc = "scoped" => /\ base \in Seq(STRING) /\ changed \in Seq(GitPaths)
                            /\ scoped \subseteq DOMAIN cfg.workspaces
  BY LoadedPaths, LoadedDomain, BasesAssumption, ChangesAssumption DEF LoadedInv, InScope

-----------------------------------------------------------------------------

\* The variables keep their types, a deadline in every loaded workspace included.
THEOREM ConfigTypeCorrect == Spec => []TypeOK
<1>1. CInv => TypeOK
  BY DEF CInv
<1> QED
  BY <1>1, CInvariant, PTL

\* No file makes an accepted workspace without a deadline, with another version or
\* with a reserved argument, whatever it takes from the defaults.
THEOREM AcceptedWorkspacesAreRunnable == Spec => []AcceptedIsRunnable
<1>1. CInv => AcceptedIsRunnable
  BY DEF CInv
<1> QED
  BY <1>1, CInvariant, PTL

\* No accepted directory leads out of the checkout at any of its segments,
\* however many names and ".." it is made of.
THEOREM AcceptedDirsStayInside == Spec => []AcceptedStaysInside
<1>1. ASSUME LoadedInv, Checked, NEW i \in DOMAIN cfg.workspaces
      PROVE  LET dir == cfg.workspaces[i].dir
             IN  dir[1] # Empty /\ \A n \in 0..Len(dir) : Depth(dir, n) >= 0
  <2> DEFINE dir == cfg.workspaces[i].dir
  <2>1. dir \in Seq(STRING) \ {<<>>}
    BY <1>1, LoadedInvTypes DEF Checked
  <2>2. ValidateRepoPath(dir)
    BY <1>1 DEF LoadedInv, Checked, Validate, ValidWorkspace
  <2>3. dir[1] # Empty
    BY <2>2 DEF ValidateRepoPath
  <2> HIDE DEF dir
  <2>4. \A n \in 0..Len(dir) : Depth(dir, n) >= 0
    BY <2>1, <2>2, ValidStaysInside
  <2> QED
    BY <2>3, <2>4 DEF dir
<1>2. LoadedInv => AcceptedStaysInside
  BY <1>1 DEF AcceptedStaysInside
<1> QED
  BY <1>2, LoadedInvariant, PTL

\* What validation decides about two patterns and two directories covers what
\* scoping finds of any pull request: no root module is planned twice for it.
THEOREM RootsArePlannedOnce == Spec => []NoRootPlannedTwice
<1>1. ASSUME LoadedInv, Checked, NEW i \in scoped, NEW j \in scoped, i # j,
             StarsOnly(cfg.workspaces[i].branch), StarsOnly(cfg.workspaces[j].branch),
             cfg.workspaces[i].terraform_workspace = cfg.workspaces[j].terraform_workspace,
             NEW k \in DOMAIN changed,
             PathUnderDir(changed[k], cfg.workspaces[i].dir),
             PathUnderDir(changed[k], cfg.workspaces[j].dir)
      PROVE  FALSE
  <2> DEFINE v == cfg.workspaces[i]
             w == cfg.workspaces[j]
             f == changed[k]
  <2>1. pc = "scoped" /\ scoped = InScope /\ Validate(cfg)
    BY <1>1 DEF LoadedInv, Checked
  <2>2. /\ i \in DOMAIN cfg.workspaces /\ j \in DOMAIN cfg.workspaces
        /\ v.dir \in Seq(STRING) \ {<<>>} /\ w.dir \in Seq(STRING) \ {<<>>}
        /\ v.branch \in Seq(STRING) /\ w.branch \in Seq(STRING)
        /\ base \in Seq(STRING) /\ changed \in Seq(GitPaths)
    BY <1>1, <2>1, LoadedInvTypes
  <2>3. GlobMatch(v.branch, base) /\ GlobMatch(w.branch, base)
    BY <1>1, <2>1 DEF InScope, BranchMatches
  <2>4. f \in GitPaths
    BY <1>1, <2>2
  <2>5. BranchPatternsOverlap(v.branch, w.branch) /\ BranchPatternsOverlap(w.branch, v.branch)
    BY <1>1, <2>2, <2>3, MatchesOverlap
  <2>6. DirsOverlap(v.dir, w.dir) /\ DirsOverlap(w.dir, v.dir)
    BY <1>1, <2>2, <2>4, OwnersOverlap
  <2>7. Duplicates(v, w) /\ Duplicates(w, v)
    BY <1>1, <2>5, <2>6 DEF Duplicates
  <2>8. \A m \in DOMAIN cfg.workspaces : \A n \in 1..(m - 1) :
          ~ Duplicates(cfg.workspaces[n], cfg.workspaces[m])
    BY <2>1 DEF Validate
  <2>9. i \in Nat \ {0} /\ j \in Nat \ {0}
    BY <1>1, <2>1, <2>2, LoadedInvTypes
  <2>10. i \in 1..(j - 1) \/ j \in 1..(i - 1)
    BY <1>1, <2>9
  <2> QED
    BY <2>2, <2>7, <2>8, <2>10
<1>2. LoadedInv => NoRootPlannedTwice
  BY <1>1 DEF NoRootPlannedTwice
<1> QED
  BY <1>2, LoadedInvariant, PTL

\* Scoping misses no change below a directory that is spelled clean, or with a
\* slash behind it.
THEOREM TouchedWorkspacesAreScoped == Spec => []TouchedIsScoped
<1>1. ASSUME LoadedInv, NEW i \in DOMAIN cfg.workspaces, Touched(i),
             Place(cfg.workspaces[i].dir) # <<>>,
             cfg.workspaces[i].dir \in {Place(cfg.workspaces[i].dir),
                                        Append(Place(cfg.workspaces[i].dir), Empty)}
      PROVE  i \in scoped
  <2> DEFINE w == cfg.workspaces[i]
  <2>1. pc = "scoped" /\ scoped = InScope /\ GlobMatch(w.branch, base)
    BY <1>1 DEF Touched, LoadedInv
  <2>2. PICK k \in DOMAIN CompareCommits(changed) :
          IsStrictPrefix(Place(w.dir), CompareCommits(changed)[k])
    BY <1>1 DEF Touched
  <2>3. w.dir \in Seq(STRING) \ {<<>>}
    BY <1>1, <2>1, LoadedInvTypes
  <2>4. PathUnderDir(CompareCommits(changed)[k], w.dir)
    BY <1>1, <2>2, <2>3, PlaceIsOwned
  <2> HIDE DEF w
  <2>5. IsWorkspaceAffected(w, CompareCommits(changed))
    BY <2>2, <2>4 DEF IsWorkspaceAffected, w
  <2> QED
    BY <2>1, <2>5 DEF InScope, BranchMatches, w
<1>2. LoadedInv => TouchedIsScoped
  BY <1>1 DEF TouchedIsScoped
<1> QED
  BY <1>2, LoadedInvariant, PTL
=============================================================================
