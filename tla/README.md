# terraform-on-github in TLA+

A verification development for `tfgh`, the command line tool of terraform-on-github:
TLA+ modules of its core logic, TLC configurations that check them on small
instances, and theorems that TLAPS checks for every instance. Paths below are
relative to the repository.

## 1. What the system is

`tfgh` has four verbs, each one process that runs to its end and keeps nothing
in memory for the next one. What one run leaves for another lies in two GCS
buckets, and what a run acts on is read from GitHub, one request at a time, while
others change it.

| Component | Code | State it keeps | Operations | Talks to |
|---|---|---|---|---|
| config | `internal/config` | none; a config in memory | resolve the ref, read, `Parse`, `Normalize`, `Validate` | GitHub, at the trusted ref |
| scoping | `internal/scope` | none | `Scope`: pull request, base tip, comparison, workspaces touched | GitHub, config |
| plan verb | `cmd/tfgh/main.go` `runPlan`, `internal/plan`, `internal/tf` | `tfplan` files and selected terraform workspaces in the checkout | per target: init, select, plan, show, show, report, stage | terraform, scoping, staging |
| staging | `internal/store` `Stage` | plan bucket: `tfplan`, `plan.json`, `plan.txt`, `meta.json` per key; coordination bucket: run objects, pending-apply markers | write-once uploads, marker, claim and compare-and-swap of the run | the two buckets, KMS |
| verification | `runApply`, `internal/apply` | none | derive the key, fetch, check signature, kind, digest, merge, tree, config | GitHub, plan bucket, KMS, config |
| GitHub | external, through `internal/ghapp` | commits, refs, pull requests, the config file | pushes, merges, API reads | |
| summaries, output | `internal/tf/summary.go`, `print*`, `WouldApply` | none | formatting | |
| reconciler, supersede, leases, webhooks, drift | `docs/` only | | no code yet | |

Data flow: *config* and *scoping* choose workspaces; the *plan verb* plans them in
a checkout and hands each result to *staging*; *verification*, at another time and
on another machine, finds the staged plan by a key it derives from GitHub alone
and decides whether it may be applied.

What is hard here, and what the properties are about:

- **Staging has no transaction.** Four uploads, a marker and a run object are
  written one request at a time, by any number of workers, any of which may die;
  replies get lost and are resent. (`Stage`)
- **Reading an object takes two requests**, so a generation can be older than the
  content it is paired with. (`Stage`)
- **A verification reads a set of objects while it is written**, and must not
  take half a set, or two halves of two sets, for a plan. (`Verify`)
- **Everything verification reads from GitHub may move** between two reads: heads,
  the base ref, the merge, the config. (`Apply`)
- **Three merge strategies** make different commits of one tree. (`GitHub`, `Apply`)
- **Two sets of rules for globs and paths**, one to accept a config and one to
  scope a pull request, must agree. (`Config`)
- **A failure or a hang in the middle of a loop** of targets. (`PlanRun`)
- **A checkout remembers**: the `tfplan` file and the terraform workspace selected
  in a directory outlive the target and the run, and two runs may share them.
  (`PlanRun`)

The full list, line by line, with the properties that cover each item, is under
`hazards` in `PROJECT.json`.

## 2. Modules

| Module | Models | Kind |
|---|---|---|
| `Stage` | concurrent calls of `store.Stage` over the two buckets | system, properties |
| `Ledger` | what staging promises to whoever reads the buckets | abstract specification |
| `Verify` | verifications reading the plan bucket while calls of `Stage` write it | composition, properties |
| `PlanStore` | what the plan bucket is to the verbs: one plan per key, in one step | abstract specification |
| `GitHub` | the repository, its pull requests and merges, as `ghapp` reads them | environment |
| `Apply` | `plan --stage-gcs` and `apply verify` composed with `GitHub` | composition, properties |
| `Config` | ref, load, `Normalize`, `Validate`, `Scope` as operators under a five-step machine | algorithms, properties |
| `PlanRun` | the loop of the plan verb over terraform's commands in a shared checkout | system, properties |
| `StageProofs`, `VerifyProofs`, `PlanProofs` | theorems about `Stage`, `Verify`, `PlanRun` | proofs |
| `ApplyProofs`, `TreeProofs`, `StoreProofs` | theorems about `Apply`: its order of commits, its trees, its use of the plan bucket | proofs |
| `PathProofs`, `ConfigProofs` | lemmas about paths and globs, and theorems about `Config` | proofs |
| `MCStage`, `MCVerify`, `MCApply`, `MCConfig`, `MCPlanRun` | symmetry sets, families of inputs | TLC instances |

Operators named `Bug...` stand before the definition they deviate from: each is
one plausible mistake in that code, and putting it in place of the definition makes
TLC find one of the checked properties violated. `PROJECT.json` pairs them with the
properties (`mutants`) and every definition with its source lines (`map`).

### Stage

State: `objects[key][name]`, `runs[key]` and `markers[m]` are the buckets; `pc`,
`hit` and `seen` are the locals of each call (what it does next, whether it met a
collision, the generation and record it read). A key is (workspace, base, head), a
marker's name is (pull request, base, head), as `Key`, `RunKey` and `PendingKey`
compose them. Contents are abstracted to who wrote them: two plans of the same
commits never have the same bytes, so "the signature covers the plan beside it"
is "all objects of the key have one author".

| Action | Code (`internal/store`) |
|---|---|
| `Upload` | `Create` of the next artifact; `meta.json` after signing (`stage.go:132-180`) |
| `Collide` | the cache-hit path, from any name (`stage.go:135-152`, `170-177`) |
| `PutMarker` | the marker, on both paths (`stage.go:181-188`, `268-272`) |
| `ClaimRun`, `ClaimTaken` | `ensureRun` (`stage.go:241-264`) |
| `ReadAttrs`, `ReadPlanned`, `ReadPlanning` | the two requests of `GCSBucket.Read` (`gcs.go:52-67`) and the decision on them |
| `Flip`, `FlipLost` | the compare-and-swap (`stage.go:294-304`) |
| `CollideWithSelf`, `FlipLostToSelf` | a write that lands, whose reply is lost and that the client sends again |
| `Abort` | a crash, any error return, or a refused write that `translate` does not recognise |

A conditional write that is resent is what the storage client does for writes with
a precondition; the constant `Resends` turns it off. `translate` (`gcs.go:101-109`)
knows a refused write by its gRPC code only. With `Misses` a refusal may arrive as
some other error, and the call then ends where the code would have gone on.

### Verify

One verification after the key is derived: `asked` is that key, `vpc` the next
request or the verdict, `meta` and `tfplan` what was read, `keyless` who did not
get the public key. An object is read as its author and its flaw. `Replace` is
somebody outside `tfgh` putting another object in place of one that was written, which
`instead` then holds: the object with a flaw (`verify_test.go` does so with undecodable,
unsigned and unfit ones, and a `tfplan` of other bytes), or a copy of the object of that
name of another key, whole and with its signature. `BaseOf` gives the base SHA of a pair
of commits, since the base is all that the code compares of the key a `meta.json` was
written for.

| Action | Code (`internal/apply/verify.go`, `cmd/tfgh/main.go`) |
|---|---|
| `FetchMeta` | read and decode `meta.json` (`verify.go:113-126`) |
| `CheckSignature`, `NoPublicKey` | `meta.Verify` through the KMS key, then `meta.Validate` |
| `FetchPlan` | read `tfplan`, compare its digest |
| `ReadPull`, `ReadParents`, `ReadTree`, `ReadConfig` | the four requests to GitHub, here with any reply |
| `RequestFails` | an error return of any request but the one for the key |

What GitHub's replies mean is the subject of `Apply`. What the two have in common is
`PlanStore`: a key gets at most one plan, in one step and for good, and a reader
makes up its mind about a key and then gets that key's plan or none. It is
implemented twice, by `Stage` and `Verify` with objects and signatures, and by
`Apply` with keys and plans that come from GitHub; both modules call that property
`ImplementsPlanStore`. Together they say that the two halves of the model agree
about the bucket between them: what the verbs of `Apply` assume of it is what
`Stage` and `Verify` make of it. There is one exception, which `MetaBindsKey` shows
real: a verification that goes on with the set of another key, copied over both objects
of its own, goes on with no plan of its key, and the mapping takes it for one that has
found nothing. `Apply` has no replaced objects.

### GitHub and Apply

A tree is a set of edits, a commit its tree, parents and ancestors. `MergeOrSquash`
and `Rebase` make the commits that GitHub makes of them (a rebase replays each
commit), `Update` merges the base into a head, `PushToBase` adds or reverts an edit,
`ShowMergeCommit` publishes `merge_commit_sha` with a delay, `ChangeConfig` adds a
workspace to the config or takes one out. Merges are free of conflicts, the base
branch is never force-pushed and merged pull requests stay merged.

`plans[q]` and `applies[a]` are the locals of the verbs. One action is one read
that others may precede or follow: `PlanLoad`, `PlanPull`, `PlanResolve` (base tip
and comparison), `PlanRun` (terraform in `--root`), `PlanStage`; `ApplyPull`,
`ApplyResolve`, `Fetch`/`NotStaged`, `NotMerged`/`CheckMerge`, `CheckConfig`. Reads
of an existing commit cannot be raced and go with the read before them. The
field `ran` of a staged plan is history, the tree terraform really ran on, which
`meta.json` does not record; so is `cleared`. The code never compares `--root` with
the head, so with `FreshRoot = FALSE` terraform runs on any commit, and
`AppliesWhatMerged` says what is left of its promise: *if* the checkout was of the
head's tree, the plan ran on the tree that was merged. With `FreshRoot = TRUE` every
checkout is of the head the run read, which makes a smaller instance for properties
that `ran` plays no part in. Of the two readings of the key, `ApplyPull` and `ApplyResolve` are `Ask`
of `PlanStore`, `Fetch` is `Find`, `PlanStage` is `Sign`.

### Config

Algorithms as operators (`Normalize`, `Validate`, `DirsOverlap`,
`BranchPatternsOverlap`, `PathUnderDir`, `GlobMatch`, ...) under a machine that
resolves the ref, reads, parses, accepts or rejects, and scopes one pull request.
Paths are sequences of segments and names sequences of characters, so that
`path.Clean`, prefixes and globs do what they do to strings. Checks of one field's
syntax are the flag `well_formed`. The reference definitions the code is compared
with are `Depth` (walking a path), `Place` and `Touched` (where a directory is and
which pull requests change it), and, for the overlap of patterns, the match of both
on one branch. `Clean` is the last of `Stacks`, one stack of segments for each prefix
of the path. `GlobMatch` is stated as an alignment: where each character of the
pattern starts in the name. `NoRootPlannedTwice` is about patterns whose only wildcard
is `*`, since with `?` it does not hold of the code (see what was met while reading).

### PlanRun

`pc` is the terraform command in progress or the step of the loop; `tfplan` the
files in the checkout and `selected` the terraform workspace each directory
remembers; a terraform plan is named by the target it was made for, and 0 is a plan
of another run. A command succeeds, fails, hangs, or meets the deadline; `Fatal` is
`fatalf`. `Leftover` is what an earlier run may have left selected. With `Shared`,
`OtherRun` may replace a `tfplan` or change a selection at any time: no lock keeps
two runs out of one checkout. `disturbed`, and the fields `state` and `alone` of a
staged set, are history.

## 3. Runs

Passing runs (two cores):

| Run | Properties | Instance | Distinct states |
|---|---|---|---|
| `stage_calls` | `TypeOK`, `ArtifactsCoherent`, `RunHasMarker`, `ReturnedIsPublished`, `LostIsPublished`, `HalfStagedHasCause`, `SignedIsInHand`, `RunLifecycle`, `ImplementsLedger`, `SignedLeadsToPlanned` | 3 calls, 2 pull requests, 1 workspace, 1 pair, 1 fault, resends, misses | 189 k, 25 s |
| `verify_checks` | `VTypeOK`, `TrustedIsOnePlan`, `RefusedHasCause`, `VerdictsAgree`, `StagedIsFound`, `ImplementsPlanStore` | 2 calls, 2 verifications, 1 pull request, 1 workspace, 3 pairs on 2 bases, 2 replaced objects | 714 k, 90 s |
| `apply_races` | `TypeOK`, `AppliesWhatMerged`, `MismatchMeansHeadMoved`, `AuthorizedAfterMerge` | 1 pull request, 1 plan, 1 verification, 7 commits, any checkout | 0.9 M, 30 s |
| `apply_shared` | `OneMergePerPlan`, `ImplementsPlanStore` | 2 pull requests, 1 plan, 2 verifications, 5 commits, checkouts of the head | 1.5 M, 80 s |
| `config_rules` | `TypeOK`, `NoRootPlannedTwice`, `AcceptedStaysInside`, `AcceptedIsRunnable`, `TouchedIsScoped` | all families of `MCConfig`, 5 lists of changed files, pages of 1 file | 0.9 M, 25 s |
| `plan_loop` | `TypeOK`, `StagedIsOnePlan`, `NamedStateIsPlanned`, `StagedWasShown`, `ExitTellsStaged`, `RunEnds` | up to 3 targets in 2 directories, 2 leftover selections, another run, 3 kinds of `--root`, `select` and `plan` may hang | 1.4 M, 90 s |

What they show: whatever workers race or die, a plan that is signed is whole, is
found through its marker, is published exactly once, and until then is in the hands
of a call of its key, unless one died; a run over a half-staged set is there only
while the author is uploading or after a fault; a verification racing with
them finds that plan or none, and refuses nothing for being half written; what it
trusts is one call's whole set, and that of its key unless both objects of the key were
replaced; a plan that is found applicable was made for the base it landed on and the
tree that was merged, and for one merge only, and if the checkout was of the head's
tree it ran on that tree; an accepted config has no two workspaces that plan
one root module for one pull request, and no directory outside the checkout; what a
plan run stages is of one plan of the workspace it names, and its exit status and
output tell what it staged.

Why the bounds are enough for the cases to happen.

- *Stage*: a race needs two calls on one key and a third to see its result; a second
  pull request shares the run but not the marker; the fault is a crash of one of the
  racing calls or a lost reply, and refusals that go unrecognised (`Misses`) are not
  counted at all. Keys of another pair or workspace share nothing but a marker,
  which `stage_shared_marker` has two workspaces for.
- *Verify*: the two calls may be on one key or on two, and so may the verifications;
  three keys give a key another one on the same base and one on another base, so that
  the comparison of the bases goes both ways when the set of another key lies there. One
  replaced object is enough to separate any one check from the others, two
  (`MaxReplaced`) are what takes the set of another key past the digest. A call that
  dies is one that takes no more steps: its half-written set stays. To make the
  instance small enough, `SettledCalls` stops calls at their marker once an object was
  replaced: what they write from there on is in the coordination bucket, which no
  verification reads. The uploads still race with replacements and with verifications.
  Resent writes make objects only in ways that a second call makes them too.
- *Apply*: three commits are there from the start, so seven leave room for a push, a
  move of the base and an update, or for a rebase merge of two commits and what
  comes after it; two pull requests may have one head. The plan and the verification
  read only what GitHub holds, so a second plan adds only a second key or a plan
  that staging drops.
- *Config*: the overlap rules relate two workspaces; all others one.
- *PlanRun*: three targets let the first and last share a directory with another
  between them; `Leftover` has the default and a workspace that a target names, so
  a selection left over may be right, wrong or the target's own.

Every property above is also proved without bounds, but for the two liveness
properties `SignedLeadsToPlanned` and `RunEnds` (section 4).

`CHECK_DEADLOCK FALSE` is set everywhere: calls and verbs end, and the bounds on
commits and faults end the rest.

**Fairness.** `stage_calls` assumes weak fairness of each call's next step: `Stage`
is straight-line code whose requests are answered or fail, and a call that fails or
dies is `Abort`, which is never forced. `SignedLeadsToPlanned` therefore promises
nothing for a key one of whose calls was aborted: somebody has to stage it again.
`plan_loop` assumes weak fairness of the process and of the deadline, which is a timer
of the Go context; it does not assume that terraform answers. `init` and `show` have
no deadline in the code, so a run with a hung `init` never ends and `RunEnds` is
claimed for `select` and `plan` only.

### Disagreements between code and documents

Each of these runs checks one property that a document, comment or test states, and
TLC finds a behaviour of the code that violates it. The quotes are in
`PROJECT.json` under `findings`.

1. `stage_stuck_planned`: a collision on *any* artifact counts as a complete set, so
   after a crash in the uploads the re-stage publishes a run as planned that never
   gets a signed plan. This is why `Ledger` does not ask for the order "signed, then
   planned", and why `StagedIsFound` excepts calls that met a cache hit.
2. `stage_shared_marker`: marker keys have no workspace, so a pull request of two
   workspaces has one marker.
3. `verify_binding`: of what a `meta.json` says it was planned for, the base alone is
   compared (`verify.go:162`), neither the repository, the pull request, the workspace
   nor the head, against "assert meta binds (repo, ws, base, head)" (`DESIGN.md:595`).
   Two workspaces of one pull request have the same base, head and tree, so the set of
   one, copied to where the other has its own, passes all checks for the other. It takes
   a writer outside `tfgh`: by `TrustedIsOnePlan` both objects have to be replaced.
4. `apply_after_merge`: the base ref is resolved at verification time. After the
   merge it is past the planned base, so the plan of a merged request is looked up
   under another key. A verification succeeds only if its base read comes before the
   merge and its second read of the pull request after: the states in which the
   properties of `apply_races` matter are exactly those, and its mutants show that
   they occur.
5. `apply_rebase`: a rebase merge of two commits is refused as a moved base.
6. `plan_leftover`: a workspace without a `terraform_workspace` selects nothing, so it
   is planned, signed and staged against whatever an earlier target or run selected
   in its directory (`executor.go:67-72`). It takes two workspaces of one directory
   with the same backend; with another backend `init` fails first.

Met while reading, without a run of their own:

- staging: two calls alone, without a fault, make a run planned while the set is still
  being uploaded (`stage.go:132-151`); a crash between `meta.json` and the run leaves
  no run object, where the comment says it is there in planning (`stage.go:69-71`,
  `277`); the loser of the swap returns an error although it met a cache hit
  (`stage.go:300`);
- apply: since the pull request is not compared either, a plan of another request of the
  same commits is applicable without any replaced object; nothing compares `--root` with
  the head; the re-read of the config asks for the workspace's name only
  (`verify.go:195`); a deauthorized workspace is refused with `ErrTreeMismatch`
  (`verify.go:196`); a failed request for the public key is reported as a bad signature
  (in the model as `NoPublicKey`); `WouldApply` prints a merge commit that `Stage` never
  records (`verify.go:233`); flag parsing stops at the word "verify", so `tfgh apply
  verify --repo ...` parses no flag (`main.go:334-348`, against the usage at `46` and
  `328`); the ref of the config is empty by default where the help says
  `refs/heads/main`;
- config: directories are accepted cleaned and matched as spelled, so a workspace at
  `.`, `./x` or `x/../y` is never in scope (`scope.go:135-147`, against `DESIGN.md:271`),
  which `TouchedIsScoped` excepts; overlap of branch patterns knows `*` only, matching knows all globs
  (`load.go:339-347`): two workspaces of one directory with the branches `?` and `a` are
  accepted, and a pull request against `a` plans their root module twice; a workspace at the root overlaps nothing (`load.go:350-353`); an
  explicit zero timeout is taken for an unset one (`load.go:202`); an empty ref resolves
  to nothing instead of the default branch (`client.go:60-67`); a missing config is
  reported as a failed read (`client.go:33`); the validation in use does not reserve
  two-dash spellings (`load.go:23`); the comparison is read one page deep
  (`client.go:125`); CONFIG.md forbids `..` in a directory while the code accepts one
  that stays inside;
- plan: a deadline met in `workspace select` is reported as a failure, not as a
  timeout (`executor.go:68-72`, in the model as `Deadline`); plan arguments are passed
  as variables (`executor.go:89-91`); with a relative `--root`, such as its default, the
  plan file's path is resolved in the wrong directory (`executor.go:79`, in the model as
  `PlanNotWritten`); `res.Failed()` is never true because every failing plan returns an
  error (`main.go:291`);
- output: a plan that only forgets or reads resources prints "no resource changes", as
  `WouldApply` leaves them out; a plan that changes only outputs has changes and the
  summary "No changes.".

## 4. Proofs

Eight modules prove, for every value of the constants, all invariants and action
properties of the passing runs and all three refinements. `PathProofs` has lemmas only;
the theorems of the others are:

| Module | Theorem | States |
|---|---|---|
| `StageProofs` | `TypeCorrect` | `Spec => []TypeOK` |
| | `ArtifactsAreCoherent` | `Spec => []ArtifactsCoherent` |
| | `RunsHaveMarkers` | `Spec => []RunHasMarker` |
| | `ReturnsArePublished` | `Spec => []ReturnedIsPublished` |
| | `LostSwapsArePublished` | `Spec => []LostIsPublished` |
| | `HalfStagedSetsHaveCauses` | `Spec => []HalfStagedHasCause` |
| | `SignedPlansAreInHand` | `Spec => []SignedIsInHand` |
| | `RunsKeepTheirLifecycle` | `Spec => RunLifecycle` |
| | `StagingImplementsLedger` | `Spec => ImplementsLedger` |
| `VerifyProofs` | `VTypeCorrect` | `VSpec => []VTypeOK` |
| | `TrustedPlansAreWhole` | `VSpec => []TrustedIsOnePlan` |
| | `RefusalsHaveCauses` | `VSpec => []RefusedHasCause` |
| | `VerdictsAreOfOnePlan` | `VSpec => []VerdictsAgree` |
| | `StagedPlansAreFound` | `VSpec => StagedIsFound` |
| | `VerificationImplementsPlanStore` | `VSpec => ImplementsPlanStore` |
| `ApplyProofs` | `ApplyTypeCorrect` | `Spec => []TypeOK` |
| | `AppliedPlansAreWhatMerged` | `Spec => []AppliesWhatMerged` |
| | `PlansHaveOneMerge` | `Spec => []OneMergePerPlan` |
| | `AppliesAreAuthorized` | `Spec => []AuthorizedAfterMerge` |
| `TreeProofs` | `MismatchesAreOfMovedHeads` | `Spec => []MismatchMeansHeadMoved` |
| `StoreProofs` | `VerbsImplementPlanStore` | `Spec => ImplementsPlanStore` |
| `ConfigProofs` | `ConfigTypeCorrect` | `Spec => []TypeOK` |
| | `AcceptedWorkspacesAreRunnable` | `Spec => []AcceptedIsRunnable` |
| | `AcceptedDirsStayInside` | `Spec => []AcceptedStaysInside` |
| | `RootsArePlannedOnce` | `Spec => []NoRootPlannedTwice` |
| | `TouchedWorkspacesAreScoped` | `Spec => []TouchedIsScoped` |
| `PlanProofs` | `PlanTypeCorrect` | `Spec => []TypeOK` |
| | `StagedSetsAreOnePlan` | `Spec => []StagedIsOnePlan` |
| | `NamedStatesArePlanned` | `Spec => []NamedStateIsPlanned` |
| | `StagedPlansWereShown` | `Spec => []StagedWasShown` |
| | `ExitsTellWhatIsStaged` | `Spec => []ExitTellsStaged` |

**Assumptions**, each named in the module that declares the constant: `None` differs
from calls, pull requests and keys (`Stage`) or from plans 0 and 1 (`PlanRun`); the
bounds on faults and replaced objects are numbers (`FaultsAssumption`,
`ReplacedAssumption`), as is the page size (`PageAssumption`); flags are Booleans
(`FreshRootAssumption`, `SharedAssumption`); `HangsAssumption` and `RootAssumption`
name the commands and the kinds of `--root`; `TargetsAssumption` says that a list of
targets is one, with directories of the checkout, `FilesAssumption` that a config
file has settings and workspaces of the types that decoding gives them,
`BasesAssumption` that a branch is a sequence of characters, and `ChangesAssumption`
that git names a changed file by a nonempty path without empty, `.` and `..` segments.

**Staging** (`StageProofs`). Three layers, each inductive over the one before:

1. `TypeInv` is `TypeOK` and `ClaimInv`: a call past its claim has a run object to
   read. Without it the type of `seen` is not preserved, since nothing else says
   that the record read is one.
2. `ArtifactInv` adds `OneAuthor`, `PrefixInv` and `UploadInv`. `ArtifactsCoherent`
   is not inductive: it does not say why the names still to be uploaded are free.
   `PrefixInv` says that the names present under a key are a prefix of the upload order,
   `UploadInv` that a call in the uploads is the author of all names before the
   one it is at. A free name then means that the call at it owns the whole prefix
   (`FreeMeansOwner`), and an upload extends it by one.
3. `RunInv` adds `RunGenInv`, `PublishInv` and `SeenInv` to `RunHasMarker`.
   `RunGenInv` ties status to generation (1 planning, 2 planned), so a swap at
   generation 1 is the only one there is; `SeenInv` says that a call about to swap
   with the current generation read the current record, which makes the two-request read
   harmless; `PublishInv` says what is in place for each `pc`.

Two more invariants stand beside these layers and say who has the work in hand.
`WriterInv`: a call at its first upload has written nothing. With `PrefixInv` it shows
that the author of a complete set is past its uploads, hence between the marker and
the flip, returned, or aborted; when it returned, the run is planned by `PublishInv`.
That is `SignedIsInHand` (`AuthorHasItInHand`). `WholeInv`: no call leaves the
uploads and no run is claimed before the first artifact is there, and without a fault
the author of a first artifact has completed its set or is at a later name. The
last part does not depend on the other calls, because the name an author comes to is
always free (`AuthorGoesOn`): nobody else can stop it, and only a fault does.

The refinement maps `objects[k]["meta.json"]`, the status of `runs[k]` and the set of
markers to `Ledger`'s variables: `Upload` of `meta.json` is `Sign`, `PutMarker` is
`Announce`, `ClaimRun` is `Claim`, the flips are `Publish`, everything else
stutters (`StepRefines`).

**A verification and the bucket** (`VerifyProofs`). A verification writes nothing, so
`ArtifactInv` still holds, and a name that is taken keeps its object (`Written`).
`VInv` adds what lies in place of an object: something a call wrote under its own key,
where it still is (`InsteadInv`). It also adds what was read: from `FetchMeta` on,
`meta` is what its own key names, and that key is the one asked about unless the object
was replaced; the `tfplan` that hashes to it is of the same call, so it was replaced too
if the key is another (`FoundInv`). Beside a `meta.json` lies the `tfplan` of the same
call, uploaded before it (`Beside`), so the second request cannot come too early. `StagedInv` says
that a call past its uploads without a collision has uploaded `meta.json`, which
`StagedIsFound` needs. For `PlanStore`, the upload of `meta.json` is `Sign`, the
`FetchPlan` that goes on to GitHub is `Find`, a `RequestFails` after it is `GiveUp`,
and the rest stutters: a replaced object changes neither what is signed nor what
was found, and a `FetchPlan` that goes on with another key's set finds nothing.

**Verification and GitHub** (`ApplyProofs`). Commits are numbered in the order they
are made, and the argument is about these numbers. A step of GitHub only adds
commits, never moves the base ref back, and lands a pull request on the tip
(`Moved`). Each landing spans the commits from the base it landed on to its merge
commit, and no two spans overlap (`LandInv`); the tip that a verification read lies
in none of them (`BaseInv`). So when it equals a merge commit's first parent, it is
the base of that landing and of no other, also for a rebase, whose first parent may
be a replayed commit. `StagedInv` and `VerdictInv` carry the comparisons to the
verdict, `ClearedInv` the history of the config.

**Trees** (`TreeProofs`). That the comparison of trees refuses nothing that landed as
planned needs to know where the edits of a tree come from, which `TreeInv` says. Its
last line is the heart: a head with the tip among its ancestors holds the tip's tree,
and of the edits made on the base itself, which a revert takes back, no others.
Merging it therefore keeps its tree (`LandTree`), for merge commits and squashes by
`MergedTree`, for rebases because what is replayed is what the head has and the base
does not. `PlannedInv` says that what is staged was up to date, `MismatchInv` what a
run that reports a mismatch has compared.

**The verbs and the bucket** (`StoreProofs`). To `AInv`, the invariant of
`ApplyProofs`, `StoreInv` adds that a key has one plan and that a run of `apply verify`
holds no plan before its `Fetch`, which is what lets it still change its mind about
the key. Each of the three actors is then taken in turn: a step
of GitHub leaves the store alone, a step of `plan` signs one free key or nothing
(`PlanSigns`), a step of `apply verify` asks, finds or is not seen. Keys are pairs of
any commits, so `PlanStore` allows infinitely many; it names the key and the plan of a
step by what is in the next state, so that TLC can evaluate it.

**The plan loop** (`PlanProofs`). `OwnInv` says that what is read back from the
target's directory is this target's plan, or another run's if that one disturbed it;
`StateInv` that the selection is the one named; `DoneInv` how much is staged and shown
at each `pc`, from which the exit status follows.

**Config** (`PathProofs`, `ConfigProofs`). `CInv` carries the file that was read:
`Parse` and `Normalize` leave every workspace with a deadline (`NormalizedTypes`), and
validation rejects what is left unset of the rest, so that inheriting first and
validating afterwards leaves no gap. `LoadedInv` says that the config in memory is that
file's, normalized and, but for `tfgh scope`, validated, and that `scoped` is what
`Scope` finds in it. What remains is about paths and globs of any length:

- *Directories.* `Stacks` gives what `path.Clean` has kept after each segment. A `..`
  that is once in front of the stack stays there (`ClimbStays`), so a clean path that does
  not start with one never had one on the stack, and then the stack is as high as the
  path is deep at every segment (`DepthIsHeight`): the check of the *clean* path
  decides about every step of the *raw* one.
- *Overlap of directories.* A file of git has no `.` and `..`, so a directory that
  `PathUnderDir` finds it under is clean as it is spelled, or has one slash too many
  behind it, and its clean path is a prefix of the file's (`OwnerIsClean`). Two prefixes of one path nest
  (`PrefixesNest`), which is what `DirsOverlap` looks for.
- *Overlap of patterns.* Up to its first `*` a pattern without `?` is aligned with the
  name character by character (`GlobBeginning`), so the name starts with it
  (`MatchCases`). Of two patterns that match one name, the one with the shorter such
  beginning therefore matches the text of the other one in `matchGlob`
  (`MatchesOverlap`).

Clean paths, depths and alignments are built up segment by segment, which takes
induction. The library's theorems of induction have an operator as a parameter, which no
prover here instantiates; `Induction` is stated for sets instead, a set that holds 0 and
`n + 1` with every `n`, and follows from the well-foundedness of `<` on the natural
numbers. Recursion is written as functions over `0..Len(path)`; no module declares a
RECURSIVE operator.

**Only model-checked.** `SignedLeadsToPlanned` and `RunEnds`: liveness under fairness
and ENABLED are outside this prover's reach. The invariant part of the first is proved:
by `SignedPlansAreInHand` there is always a call left to publish a signed plan, and that
it goes on is what fairness adds. The six properties of the violation runs are not
theorems, since the code violates them.

## 5. What is not modelled

- The cryptography and the encodings of signatures and digests. What they tell apart
  is in `Verify`; that the EC encoding in `main.go:434` is the one KMS uses is not.
- `MapBucket` and `FakeSigner`, which only tests use.
- Rendering of summaries: `BuildPlanSummary`, `countChanges`, `printConfig`,
  `printJSON`, `WouldApply`. Nothing is decided from them; when they are printed is part
  of `PlanRun`.
- YAML decoding beyond its outcome, the syntax of single fields, and character classes,
  alternatives and escapes of globs.
- Authentication, and the clients of GCS, KMS and GitHub below the calls the code makes.
- How `plan_args` become flags of terraform, and terraform itself beyond success,
  failure, silence, the file it writes and the state it plans.
- `Bucket.List`, `Bucket.Delete`, `LoadAtSHA`, `LoadFromFile`, `ResolveBaseRef`,
  `ApplyPullRequestState`, `PendingPrefix`, `ValidatePlanArgs`, which no verb calls.
- The v0.2 components (reconciler, supersede, leases, webhooks, drift scans), which
  exist in documents only.

## 6. Plan

Done, in this order: `Ledger`, `Stage`, `StageProofs`; `GitHub`, `Apply`; `Config`;
`PlanRun`; `Verify` and its proofs; `PlanStore` and the refinement; `ApplyProofs`,
`TreeProofs`; the shared checkout in `PlanRun`, `PlanProofs`; `ConfigProofs`; `PathProofs`
and the theorems about directories and patterns; `Apply` as a second implementation of
`PlanStore`, `StoreProofs`; who has a half-staged set and a signed plan in hand, in
`StageProofs`; the objects of one key under another, in `Verify` and its proofs.

What would come next:

1. Theorems about the causes of the disagreements: that a planned run without a signed
   plan takes a crash, that `not_staged` after a merge takes a base that was read after
   it, that only a rebase is refused as a moved base when the base has not moved.
2. Two runs of the plan verb composed with `Stage` itself, instead of `OtherRun` and
   one step of staging: which of two plans of one checkout is signed.
3. `Reconciler` and `Supersede`, once there is code: `Ledger` is what they will read,
   and findings 1 and 2 are what they will meet.
