------------------------------- MODULE Config -------------------------------
(***************************************************************************)
(* The config file, from the ref it is read at to the workspaces a pull    *)
(* request touches: loadConfig (cmd/tfgh/main.go), LoadFromTrustedRef,     *)
(* Normalize and Validate (internal/config), Scope (internal/scope) and    *)
(* the ref and compare calls of internal/ghapp.                            *)
(*                                                                         *)
(* A path is the sequence of its segments between slashes ("a/" is         *)
(* <<"a", "">>), a branch name or a glob the sequence of its characters,   *)
(* where "*" and "?" are wildcards.  Character classes, alternatives and   *)
(* escapes of globs are left out.                                          *)
(***************************************************************************)
EXTENDS Integers, FiniteSets, SequencesExt

CONSTANTS
  Files,      \* the config files a repository may have on its trusted ref
  NoFile,     \* no config file there
  Verbs,      \* the verbs of tfgh that are run: see Mode below
  Refs,       \* values of --config-ref
  Bases,      \* base branches of pull requests
  Changes,    \* lists of changed files of pull requests
  PageFiles   \* how many changed files one reply of the compare API lists

ASSUME PageAssumption == PageFiles \in Nat

ASSUME BasesAssumption == Bases \subseteq Seq(STRING)

\* The segment in front of a leading slash and behind a trailing one.
Empty == ""

\* Git lists a changed file by names alone.
GitPaths == Seq(STRING \ {Empty, ".", ".."}) \ {<<>>}

ASSUME ChangesAssumption == Changes \subseteq Seq(GitPaths)

\* The fields of a config file, as strict YAML decoding lets them be.
PlanArgs == Seq([flag : STRING, value : STRING])
Settings == [terraform_version : STRING, plan_timeout : STRING, plan_args : PlanArgs]
Entries ==
  [name : STRING, branch : Seq(STRING), dir : Seq(STRING) \ {<<>>}, watch : Seq(Seq(STRING)),
   terraform_workspace : STRING, terraform_version : STRING, plan_timeout : STRING,
   plan_args : PlanArgs, on_stale : STRING, well_formed : BOOLEAN]

ASSUME FilesAssumption == Files \subseteq [defaults : Settings, workspaces : Seq(Entries)]

VARIABLES
  file,     \* what the trusted ref holds
  verb,     \* "config", "scope", "plan" or "verify"
  ref,      \* --config-ref, "" when it is not given
  pc,       \* "resolve", "read", "loaded", "scoped", or an outcome that ends the run
  cfg,      \* the config in memory
  base, changed,  \* the pull request scoped: its base branch and changed files
  scoped    \* the indices of the workspaces in scope

vars == <<file, verb, ref, pc, cfg, base, changed, scoped>>

Outcomes == {"unresolved", "failed", "no_config", "rejected"}

-----------------------------------------------------------------------------
(* Refs *)

DefaultRef == <<"refs", "heads", "main">>

\* A bare branch name gets its "heads/".
NormalizeRef(r) ==
  IF Len(r) > 1 /\ r[1] \in {"refs", "heads", "tags"} THEN r ELSE <<"heads">> \o r

\* The refs API, whose client strips "refs/": the repository has one branch.
ResolveRef(r) ==
  LET q == NormalizeRef(r)
  IN  (IF q[1] = "refs" THEN Tail(q) ELSE q) = <<"heads", "main">>

-----------------------------------------------------------------------------
(* Globs and paths *)

\* gobwas/glob compiled without separators: "*" also matches slashes.  Where each
\* character of the pattern may start in the name, and the pattern end with it.
GlobMatch(pattern, name) ==
  \E at \in [1..(Len(pattern) + 1) -> 1..(Len(name) + 1)] :
    /\ at[1] = 1 /\ at[Len(pattern) + 1] = Len(name) + 1
    /\ \A i \in DOMAIN pattern :
         IF pattern[i] = "*"
         THEN at[i] <= at[i + 1]
         ELSE at[i + 1] = at[i] + 1 /\ pattern[i] \in {"?", name[at[i]]}

\* The text of a path, its segments taken for characters.
Text(path) == Tail(FlattenSeq([i \in DOMAIN path |-> <<"/", path[i]>>]))

\* path.Clean: "." and empty segments go, ".." takes the segment before it.
Push(stack, s) ==
  IF s \in {Empty, "."} THEN stack
  ELSE IF s = ".." /\ stack # <<>> /\ Last(stack) # ".." THEN Front(stack)
  ELSE Append(stack, s)

\* What is left of the first n segments of a path.
Stacks(path) ==
  LET stack[n \in 0..Len(path)] == IF n = 0 THEN <<>> ELSE Push(stack[n - 1], path[n])
  IN  stack

Clean(path) ==
  LET stack == Stacks(path)[Len(path)]
  IN  IF stack = <<>> THEN <<".">> ELSE stack

-----------------------------------------------------------------------------
(* Parse and Normalize *)

\* UnmarshalYAML of a duration, in minutes; a negative one fails the parse.
Parses(d) == d # "-1m"
Duration(d) == IF d = "30m" THEN 30 ELSE 0

Or(value, unset, default) == IF value = unset THEN default ELSE value

Parse(f) ==
  [defaults |-> [f.defaults EXCEPT !.plan_timeout = Duration(@)],
   workspaces |-> [i \in DOMAIN f.workspaces |->
                     [f.workspaces[i] EXCEPT !.plan_timeout = Duration(@)]]]

\* Bug: there is no built-in plan_timeout.
BugInherit(w, d) ==
  [w EXCEPT !.terraform_version = Or(@, "", d.terraform_version),
            !.plan_timeout = Or(@, 0, d.plan_timeout),
            !.plan_args = Or(@, <<>>, d.plan_args),
            !.on_stale = Or(@, "", "fail")]

\* Fields that are unset get the default, then the built-in default.
Inherit(w, d) ==
  [w EXCEPT !.terraform_version = Or(@, "", d.terraform_version),
            !.plan_timeout = Or(@, 0, Or(d.plan_timeout, 0, 20)),
            !.plan_args = Or(@, <<>>, d.plan_args),
            !.on_stale = Or(@, "", "fail")]

Normalize(c) ==
  [c EXCEPT !.workspaces =
     [i \in DOMAIN c.workspaces |-> Inherit(c.workspaces[i], c.defaults)]]

-----------------------------------------------------------------------------
(* Validate *)

\* Bug: ".." is looked for in front of the raw path.
BugValidateRepoPath(p) == p # <<Empty>> /\ p[1] # Empty /\ p[1] # ".."

\* Not empty, not absolute, not outside the repository once it is clean.
ValidateRepoPath(p) == p # <<Empty>> /\ p[1] # Empty /\ Clean(p)[1] # ".."

ReservedPlanArgs == {"-lock", "-out", "-input", "-state", "-var-file", "-chdir"}

\* An argument is the flag before its first "=" and the value behind it.
Reserved(arg) == arg.flag \in ReservedPlanArgs

\* "well_formed" stands for the checks of one field on its own: the name, the
\* backend, the two service accounts and summary_detail.
ValidWorkspace(w) ==
  /\ w.well_formed
  /\ ValidateRepoPath(w.dir)
  /\ w.branch # <<>>
  /\ \A i \in DOMAIN w.plan_args : ~Reserved(w.plan_args[i])
  /\ w.on_stale = "fail"
  /\ w.terraform_version = "1.9.8"

\* The name starts with what the pattern has before its first "*".
MatchGlob(pattern, name) ==
  \E n \in DOMAIN pattern :
    /\ pattern[n] = "*" /\ \A i \in 1..(n - 1) : pattern[i] # "*"
    /\ IsPrefix(SubSeq(pattern, 1, n - 1), name)

BranchPatternsOverlap(a, b) == a = b \/ MatchGlob(a, b) \/ MatchGlob(b, a)

\* Bug: a directory above the other one is not found to overlap it.
BugDirsOverlap(a, b) == IsPrefix(Clean(a), Clean(b))

DirsOverlap(a, b) == IsPrefix(Clean(a), Clean(b)) \/ IsPrefix(Clean(b), Clean(a))

Duplicates(a, b) ==
  /\ DirsOverlap(a.dir, b.dir)
  /\ a.terraform_workspace = b.terraform_workspace
  /\ BranchPatternsOverlap(a.branch, b.branch)

\* version is one of the things a file gets wrong: it is left to Files.
Validate(c) ==
  /\ c.workspaces # <<>>
  /\ \A i \in DOMAIN c.workspaces :
       /\ ValidWorkspace(c.workspaces[i])
       /\ \A j \in 1..(i - 1) :
            /\ c.workspaces[i].name # c.workspaces[j].name
            /\ ~Duplicates(c.workspaces[j], c.workspaces[i])

-----------------------------------------------------------------------------
(* Loading *)

EmptyConfig ==
  [defaults |-> [terraform_version |-> "", plan_timeout |-> 0, plan_args |-> <<>>],
   workspaces |-> <<>>]

Init ==
  /\ file \in Files \cup {NoFile}
  /\ verb \in Verbs
  /\ ref \in Refs
  /\ pc = "resolve"
  /\ cfg = EmptyConfig
  /\ base = <<>> /\ changed = <<>> /\ scoped = {}

Goto(l) == pc' = l /\ UNCHANGED <<file, verb, ref, cfg, base, changed, scoped>>

\* loadConfig puts the default in for a ref that is not given and reads at the
\* ref; "tfgh apply verify" resolves the ref it was given first.
Resolve ==
  /\ pc = "resolve"
  /\ LET r == IF verb # "verify" /\ ref = <<"">> THEN DefaultRef ELSE ref
     IN  Goto(IF ResolveRef(r) THEN "read" ELSE "unresolved")

\* A file that does not exist is an error like any other: the client returns no
\* ErrFileNotFound.
ReadNothing ==
  /\ pc = "read" /\ file = NoFile
  /\ Goto("failed")

ParseFails ==
  /\ pc = "read" /\ file # NoFile
  /\ ~Parses(file.defaults.plan_timeout)
     \/ \E i \in DOMAIN file.workspaces : ~Parses(file.workspaces[i].plan_timeout)
  /\ Goto("rejected")

\* Bug: the config is validated before its defaults are put in.
BugAccepts(c) == verb = "scope" \/ Validate(Parse(file))

\* "tfgh scope" only normalizes.
Accepts(c) == verb = "scope" \/ Validate(c)

Load ==
  /\ pc = "read" /\ file # NoFile
  /\ Parses(file.defaults.plan_timeout)
  /\ \A i \in DOMAIN file.workspaces : Parses(file.workspaces[i].plan_timeout)
  /\ LET c == Normalize(Parse(file))
     IN  IF Accepts(c)
         THEN pc' = "loaded" /\ cfg' = c
         ELSE pc' = "rejected" /\ UNCHANGED cfg
  /\ UNCHANGED <<file, verb, ref, base, changed, scoped>>

-----------------------------------------------------------------------------
(* Scoping *)

BranchMatches(pattern, branch) == GlobMatch(pattern, branch)

\* Bug: a directory that ends in a slash gets another one.
BugPathUnderDir(path, dir) == path = dir \/ (dir # <<Empty>> /\ IsStrictPrefix(dir, path))

\* The directory is compared as it is spelled, with a slash behind it.
PathUnderDir(path, dir) ==
  \/ path = dir
  \/ /\ dir # <<Empty>>
     /\ IsStrictPrefix(IF Last(dir) = Empty THEN Front(dir) ELSE dir, path)

IsWorkspaceAffected(w, files) ==
  \E i \in DOMAIN files :
    \/ PathUnderDir(files[i], w.dir)
    \/ \E k \in DOMAIN w.watch : GlobMatch(w.watch[k], Text(files[i]))

\* The compare call asks for one page.
CompareCommits(files) == SubSeq(files, 1, Min({PageFiles, Len(files)}))

Scope ==
  /\ pc = "loaded" /\ verb \in {"scope", "plan"}
  /\ base' \in Bases
  /\ changed' \in Changes
  /\ scoped' = {i \in DOMAIN cfg.workspaces :
                  /\ BranchMatches(cfg.workspaces[i].branch, base')
                  /\ IsWorkspaceAffected(cfg.workspaces[i], CompareCommits(changed'))}
  /\ pc' = "scoped"
  /\ UNCHANGED <<file, verb, ref, cfg>>

Next == Resolve \/ ReadNothing \/ ParseFails \/ Load \/ Scope

Spec == Init /\ [][Next]_vars

-----------------------------------------------------------------------------
(* Properties *)

\* The variables have the types given with their declarations.
TypeOK ==
  /\ verb \in Verbs /\ ref \in Refs
  /\ pc \in {"resolve", "read", "loaded", "scoped"} \cup Outcomes
  /\ cfg.defaults.plan_timeout \in Nat
  /\ \A i \in DOMAIN cfg.workspaces : cfg.workspaces[i].plan_timeout \in Nat \ {0}
  /\ base \in Bases \cup {<<>>} /\ changed \in Changes \cup {<<>>}
  /\ scoped \subseteq DOMAIN cfg.workspaces /\ (pc # "scoped" => scoped = {})

Checked == pc \in {"loaded", "scoped"} /\ verb # "scope"

StarsOnly(pattern) == \A i \in DOMAIN pattern : pattern[i] # "?"

\* Two workspaces of one terraform workspace name that a pull request puts in
\* scope never own the same changed file, so no root module is planned twice for
\* it: what validateNoOverlap decides about patterns and cleaned directories
\* holds for the branches and the raw paths scoping matches, as long as "*" is
\* the only wildcard (load.go:308-353, scope.go:113-147).
NoRootPlannedTwice ==
  Checked => \A i, j \in scoped :
    LET v == cfg.workspaces[i]
        w == cfg.workspaces[j]
    IN  (i # j /\ StarsOnly(v.branch) /\ StarsOnly(w.branch)) =>
          ~ /\ v.terraform_workspace = w.terraform_workspace
            /\ \E k \in DOMAIN changed : /\ PathUnderDir(changed[k], v.dir)
                                         /\ PathUnderDir(changed[k], w.dir)

\* How far below the root of the checkout the first n segments of a path lead.
Depth(path, n) ==
  Cardinality({i \in 1..n : path[i] \notin {Empty, ".", ".."}})
    - Cardinality({i \in 1..n : path[i] = ".."})

\* The directory of an accepted workspace, followed segment by segment from the
\* root of the checkout, never leaves it (load.go:355-375).
AcceptedStaysInside ==
  Checked => \A i \in DOMAIN cfg.workspaces :
    LET dir == cfg.workspaces[i].dir
    IN  dir[1] # Empty /\ \A n \in 0..Len(dir) : Depth(dir, n) >= 0

\* Whatever a workspace inherits, an accepted one has a deadline, one exact
\* version and no argument the worker sets itself (load.go:168-181, 262-301).
AcceptedIsRunnable ==
  Checked => \A i \in DOMAIN cfg.workspaces :
    LET w == cfg.workspaces[i]
    IN  /\ w.plan_timeout > 0
        /\ w.terraform_version = "1.9.8"
        /\ \A k \in DOMAIN w.plan_args : w.plan_args[k].flag \notin ReservedPlanArgs

\* Where a directory is once it is clean, the root of the checkout being <<>>.
Place(dir) == IF Clean(dir) = <<".">> THEN <<>> ELSE Clean(dir)

\* The pull request is against a branch of the workspace and changes a file in its
\* directory, on the page of changes that is read.
Touched(i) ==
  /\ pc = "scoped"
  /\ GlobMatch(cfg.workspaces[i].branch, base)
  /\ LET read == CompareCommits(changed)
     IN  \E k \in DOMAIN read : IsStrictPrefix(Place(cfg.workspaces[i].dir), read[k])

\* A workspace that the pull request touches is in scope when its directory is
\* spelled clean or with a slash behind it (scope.go:88-102, 120-147).
TouchedIsScoped ==
  \A i \in DOMAIN cfg.workspaces :
    LET dir == cfg.workspaces[i].dir
        place == Place(dir)
    IN  (Touched(i) /\ place # <<>> /\ dir \in {place, Append(place, Empty)}) => i \in scoped
=============================================================================
