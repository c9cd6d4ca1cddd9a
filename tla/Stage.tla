------------------------------- MODULE Stage -------------------------------
(***************************************************************************)
(* Concurrent calls of store.Stage (internal/store/stage.go) over the two  *)
(* buckets, as Bucket.Create and Bucket.Read (internal/store/bucket.go,    *)
(* internal/store/gcs.go) serve them.                                      *)
(*                                                                         *)
(* A call is one invocation of Stage by one process: a first pass, a       *)
(* second worker, or the re-stage after a crash.  What a call writes under *)
(* a name of its own is told apart only by the call that wrote it, since   *)
(* two terraform plans of the same commits (PlannedAt, tfplan bytes, the   *)
(* signature) are never the same bytes.  One action is one storage request *)
(* and what the code does with its reply; every error return and every     *)
(* crash is Abort.                                                         *)
(***************************************************************************)
EXTENDS Naturals

CONSTANTS
  Calls,        \* the invocations of Stage
  PRs,          \* pull request numbers
  Workspaces,   \* workspace names
  Pairs,        \* (base SHA, head SHA) pairs
  None,         \* no object under this name
  MaxFaults,    \* bound on crashes, failed requests and lost replies
  Resends,      \* whether the storage client resends a write whose reply is lost
  Misses        \* whether translate may miss that a write was refused: it knows a
                \* failed precondition by its gRPC code only

ASSUME NoneAssumption == None \notin Calls \cup PRs \cup (Workspaces \X Pairs)
ASSUME FaultsAssumption == MaxFaults \in Nat /\ Resends \in BOOLEAN /\ Misses \in BOOLEAN

VARIABLES
  in,        \* [Calls -> StageInput], what each call was asked to stage
  pc,        \* [Calls -> Locations], the next request of each call
  hit,       \* [Calls -> BOOLEAN], the call met a write-once collision
  seen,      \* [Calls -> what the call last read of its run object]
  objects,   \* plan bucket: [Keys -> [Names -> author or None]]
  runs,      \* coordination bucket: [Keys -> run object]
  markers,   \* coordination bucket: [Markers -> the key the body names, or None]
  faults     \* faults so far

vars == <<in, pc, hit, seen, objects, runs, markers, faults>>

-----------------------------------------------------------------------------
(* Keys, objects and locations *)

Keys == Workspaces \X Pairs
Markers == PRs \X Pairs
StageInput == [pr : PRs, ws : Workspaces, pair : Pairs]

\* The prefix of the artifacts of a call, which is also its run key.
KeyOf(c) == <<in[c].ws, in[c].pair>>

\* The name of the pending-apply marker of a call: it has no workspace in it.
MarkerOf(c) == <<in[c].pr, in[c].pair>>

\* The artifact names.  A call uploads the first three in sorted order and
\* meta.json last; the location of an upload is the name it uploads.
Names == {"plan.json", "plan.txt", "tfplan", "meta.json"}

\* Bug: meta.json is signed and uploaded before the plan it signs.
BugAfter(name) ==
  CASE name = "plan.json" -> "plan.txt"
    [] name = "plan.txt"  -> "meta.json"
    [] name = "meta.json" -> "tfplan"
    [] name = "tfplan"    -> "marker"

After(name) ==
  CASE name = "plan.json" -> "plan.txt"
    [] name = "plan.txt"  -> "tfplan"
    [] name = "tfplan"    -> "meta.json"
    [] name = "meta.json" -> "marker"

\* "lost" is the error return of a compare-and-swap whose generation moved,
\* "aborted" every other error return, and a crash.
Returned == {"done", "lost", "aborted"}
Locations == Names \cup {"marker", "claim", "attrs", "content", "flip"} \cup Returned

\* A run object: generation 0 is "no such object"; the writes of Create number
\* the generations from 1.
NoRun == [gen |-> 0, status |-> "absent", pr |-> None]
RunObject ==
  {NoRun} \cup [gen : Nat \ {0}, status : {"planning", "planned"}, pr : PRs]
Unread == [gen |-> 0, pr |-> None]

Init ==
  /\ in \in [Calls -> StageInput]
  /\ pc = [c \in Calls |-> "plan.json"]
  /\ hit = [c \in Calls |-> FALSE]
  /\ seen = [c \in Calls |-> Unread]
  /\ objects = [k \in Keys |-> [n \in Names |-> None]]
  /\ runs = [k \in Keys |-> NoRun]
  /\ markers = [m \in Markers |-> None]
  /\ faults = 0

Goto(c, l) == pc' = [pc EXCEPT ![c] = l]

\* Bug: a call collides with anything stored under its key, its own objects too.
BugTaken(c) == pc[c] \in Names /\ \E n \in Names : objects[KeyOf(c)][n] # None

\* The name the call is about to upload is free, or taken.
Free(c) == pc[c] \in Names /\ objects[KeyOf(c)][pc[c]] = None
Taken(c) == pc[c] \in Names /\ objects[KeyOf(c)][pc[c]] # None

-----------------------------------------------------------------------------
(* Step 1: the artifacts, write-once *)

\* Bug: the upload of an artifact is not conditional on its absence.
BugUpload(c) ==
  /\ pc[c] \in Names
  /\ objects' = [objects EXCEPT ![KeyOf(c)][pc[c]] = c]
  /\ Goto(c, After(pc[c]))
  /\ UNCHANGED <<in, hit, seen, runs, markers, faults>>

\* Create of the next artifact, signed in between when it is meta.json.
Upload(c) ==
  /\ Free(c)
  /\ objects' = [objects EXCEPT ![KeyOf(c)][pc[c]] = c]
  /\ Goto(c, After(pc[c]))
  /\ UNCHANGED <<in, hit, seen, runs, markers, faults>>

\* Bug: a collision skips the name that exists and the uploads go on.
BugCollideGoesOn(c) ==
  /\ Taken(c)
  /\ hit' = [hit EXCEPT ![c] = TRUE]
  /\ Goto(c, After(pc[c]))
  /\ UNCHANGED <<in, seen, objects, runs, markers, faults>>

\* Bug: the cache-hit path flips the run without putting the marker in place.
BugCollideUnmarked(c) ==
  /\ Taken(c)
  /\ hit' = [hit EXCEPT ![c] = TRUE]
  /\ Goto(c, "claim")
  /\ UNCHANGED <<in, seen, objects, runs, markers, faults>>

\* Bug: the cache-hit path returns like a first pass.
BugCollideUntold(c) ==
  /\ Taken(c)
  /\ Goto(c, "marker")
  /\ UNCHANGED <<in, hit, seen, objects, runs, markers, faults>>

\* The name exists: whichever name it is, the call stops uploading and goes on
\* with refreshRun, the cache hit.
Collide(c) ==
  /\ Taken(c)
  /\ hit' = [hit EXCEPT ![c] = TRUE]
  /\ Goto(c, "marker")
  /\ UNCHANGED <<in, seen, objects, runs, markers, faults>>

\* The write lands but its reply is lost, and the storage client sends the
\* conditional request again: the call collides with its own object.
CollideWithSelf(c) ==
  /\ Free(c)
  /\ Resends /\ faults < MaxFaults
  /\ faults' = faults + 1
  /\ objects' = [objects EXCEPT ![KeyOf(c)][pc[c]] = c]
  /\ hit' = [hit EXCEPT ![c] = TRUE]
  /\ Goto(c, "marker")
  /\ UNCHANGED <<in, seen, runs, markers>>

-----------------------------------------------------------------------------
(* Step 2: the pending-apply marker, on the first pass and on a cache hit *)

\* Bug: the run is not flipped once the marker is in place.
BugPutMarker(c) ==
  /\ pc[c] = "marker"
  /\ markers' = [markers EXCEPT ![MarkerOf(c)] = IF @ = None THEN KeyOf(c) ELSE @]
  /\ Goto(c, "done")
  /\ UNCHANGED <<in, hit, seen, objects, runs, faults>>

\* An existing marker is left as it is: the collision is ignored.
PutMarker(c) ==
  /\ pc[c] = "marker"
  /\ markers' = [markers EXCEPT ![MarkerOf(c)] = IF @ = None THEN KeyOf(c) ELSE @]
  /\ Goto(c, "claim")
  /\ UNCHANGED <<in, hit, seen, objects, runs, faults>>

-----------------------------------------------------------------------------
(* Step 3: the run object is created if need be, read and flipped by CAS *)

\* Bug: the claim does not record the pull request.
BugClaimRun(c) ==
  /\ pc[c] = "claim"
  /\ runs[KeyOf(c)] = NoRun
  /\ runs' = [runs EXCEPT ![KeyOf(c)] = [gen |-> 1, status |-> "planning", pr |-> None]]
  /\ Goto(c, "attrs")
  /\ UNCHANGED <<in, hit, seen, objects, markers, faults>>

ClaimRun(c) ==
  /\ pc[c] = "claim"
  /\ runs[KeyOf(c)] = NoRun
  /\ runs' = [runs EXCEPT ![KeyOf(c)] =
                [gen |-> 1, status |-> "planning", pr |-> in[c].pr]]
  /\ Goto(c, "attrs")
  /\ UNCHANGED <<in, hit, seen, objects, markers, faults>>

\* Bug: a run that exists is taken for one that is planned.
BugClaimTaken(c) ==
  /\ pc[c] = "claim"
  /\ runs[KeyOf(c)] # NoRun
  /\ Goto(c, "done")
  /\ UNCHANGED <<in, hit, seen, objects, runs, markers, faults>>

\* The run object exists.  ensureRun reads its generation and flipRunPlanned
\* drops the value, so that read is not a step of its own.
ClaimTaken(c) ==
  /\ pc[c] = "claim"
  /\ runs[KeyOf(c)] # NoRun
  /\ Goto(c, "attrs")
  /\ UNCHANGED <<in, hit, seen, objects, runs, markers, faults>>

\* Bug: the generation compared is one behind the one read.
BugReadAttrs(c) ==
  /\ pc[c] = "attrs"
  /\ seen' = [seen EXCEPT ![c].gen = runs[KeyOf(c)].gen - 1]
  /\ Goto(c, "content")
  /\ UNCHANGED <<in, hit, objects, runs, markers, faults>>

\* The first request of a Read: the attributes, with the generation.
ReadAttrs(c) ==
  /\ pc[c] = "attrs"
  /\ seen' = [seen EXCEPT ![c].gen = runs[KeyOf(c)].gen]
  /\ Goto(c, "content")
  /\ UNCHANGED <<in, hit, objects, runs, markers, faults>>

\* The second request of the Read, the content, which may be newer than the
\* generation: a run read as planned is left alone.
ReadPlanned(c) ==
  /\ pc[c] = "content"
  /\ runs[KeyOf(c)].status = "planned"
  /\ Goto(c, "done")
  /\ UNCHANGED <<in, hit, seen, objects, runs, markers, faults>>

ReadPlanning(c) ==
  /\ pc[c] = "content"
  /\ runs[KeyOf(c)].status # "planned"
  /\ seen' = [seen EXCEPT ![c].pr = runs[KeyOf(c)].pr]
  /\ Goto(c, "flip")
  /\ UNCHANGED <<in, hit, objects, runs, markers, faults>>

\* The record read, with the new status, as the next generation.
Flipped(c) ==
  [runs EXCEPT ![KeyOf(c)] =
     [gen |-> runs[KeyOf(c)].gen + 1, status |-> "planned", pr |-> seen[c].pr]]

\* Bug: the write of the flip is unconditional.
BugFlip(c) ==
  /\ pc[c] = "flip"
  /\ runs' = Flipped(c)
  /\ Goto(c, "done")
  /\ UNCHANGED <<in, hit, seen, objects, markers, faults>>

Flip(c) ==
  /\ pc[c] = "flip"
  /\ runs[KeyOf(c)].gen = seen[c].gen
  /\ runs' = Flipped(c)
  /\ Goto(c, "done")
  /\ UNCHANGED <<in, hit, seen, objects, markers, faults>>

\* The generation moved: the call returns an error.
FlipLost(c) ==
  /\ pc[c] = "flip"
  /\ runs[KeyOf(c)].gen # seen[c].gen
  /\ Goto(c, "lost")
  /\ UNCHANGED <<in, hit, seen, objects, runs, markers, faults>>

\* The swap lands, its reply is lost and its own retry finds the generation
\* moved: the call returns an error.
FlipLostToSelf(c) ==
  /\ pc[c] = "flip"
  /\ runs[KeyOf(c)].gen = seen[c].gen
  /\ Resends /\ faults < MaxFaults
  /\ faults' = faults + 1
  /\ runs' = Flipped(c)
  /\ Goto(c, "lost")
  /\ UNCHANGED <<in, hit, seen, objects, markers>>

-----------------------------------------------------------------------------

\* The write in progress meets an object that is there already.
Refused(c) ==
  \/ Taken(c)
  \/ pc[c] = "marker" /\ markers[MarkerOf(c)] # None
  \/ pc[c] = "claim" /\ runs[KeyOf(c)] # NoRun

\* A crash, a request that fails with anything but a collision, or a collision that
\* is not recognised as one: the call is over and what it wrote stays.  (A write
\* that lands and is then reported as failed is the write followed by Abort.)
Abort(c) ==
  /\ pc[c] \notin Returned
  /\ \/ faults < MaxFaults /\ faults' = faults + 1
     \/ Misses /\ Refused(c) /\ UNCHANGED faults
  /\ Goto(c, "aborted")
  /\ UNCHANGED <<in, hit, seen, objects, runs, markers>>

Step(c) ==
  \/ Upload(c) \/ Collide(c) \/ CollideWithSelf(c)
  \/ PutMarker(c)
  \/ ClaimRun(c) \/ ClaimTaken(c)
  \/ ReadAttrs(c) \/ ReadPlanned(c) \/ ReadPlanning(c)
  \/ Flip(c) \/ FlipLost(c) \/ FlipLostToSelf(c)

Next == \E c \in Calls : Step(c) \/ Abort(c)

Spec == Init /\ [][Next]_vars

\* Stage is straight-line code and every request is answered: a call that can
\* take its next step takes it, or is aborted.
Fairness == \A c \in Calls : WF_vars(Step(c))
FairSpec == Spec /\ Fairness

-----------------------------------------------------------------------------
(* Properties *)

\* The variables have the types given with their declarations.
TypeOK ==
  /\ in \in [Calls -> StageInput]
  /\ pc \in [Calls -> Locations]
  /\ hit \in [Calls -> BOOLEAN]
  /\ seen \in [Calls -> [gen : Nat, pr : PRs \cup {None}]]
  /\ objects \in [Keys -> [Names -> Calls \cup {None}]]
  /\ runs \in [Keys -> RunObject]
  /\ markers \in [Markers -> Keys \cup {None}]
  /\ faults \in 0..MaxFaults

\* The artifacts of a key are complete when its meta.json is there
\* (stage.go:154-155, "meta's presence is what makes the artifact set complete").
Complete(k) == objects[k]["meta.json"] # None

\* All objects of one key were written by one call that staged that key, so the
\* plan a signature covers is the plan stored beside it, whatever calls raced or
\* died (stage.go:117-142, 169-179).
OneAuthor ==
  \A k \in Keys : \A n1, n2 \in Names :
    (objects[k][n1] # None /\ objects[k][n2] # None) =>
      /\ objects[k][n1] = objects[k][n2]
      /\ KeyOf(objects[k][n1]) = k

\* meta.json is there only when the three artifacts are (stage.go:154-169).
MetaLast ==
  \A k \in Keys : Complete(k) => \A n \in Names : objects[k][n] # None

\* A signed plan is whole and of one origin.
ArtifactsCoherent == OneAuthor /\ MetaLast

\* A run object, planning or planned, never exists without the pending-apply
\* marker of the pull request it records, at any crash point: the reconciler
\* that lists markers misses no run (stage.go:181-193, 268-274).
RunHasMarker ==
  \A k \in Keys : runs[k] # NoRun => markers[<<runs[k].pr, k[2]>>] # None

\* A call that returns without an error leaves its run planned and its own pull
\* request's marker in place, whichever call did the work (stage.go:144-152,
\* 181-200).
ReturnedIsPublished ==
  \A c \in Calls : pc[c] = "done" =>
    /\ runs[KeyOf(c)].status = "planned"
    /\ markers[MarkerOf(c)] # None

\* A call that fails on the compare-and-swap has lost nothing: somebody, perhaps
\* itself, has published the run (stage.go:300-302).
LostIsPublished ==
  \A c \in Calls : pc[c] = "lost" => runs[KeyOf(c)].status = "planned"

\* A run object is only ever created as planning and swapped once to planned,
\* with the pull request it was created with: no late reader overwrites it
\* (stage.go:241-304 over the non-atomic Read of gcs.go:52-67).
RunLifecycle ==
  [][\A k \in Keys : runs'[k] # runs[k] =>
       \/ runs[k] = NoRun /\ runs'[k].status = "planning"
       \/ /\ runs[k].status = "planning" /\ runs'[k].status = "planned"
          /\ runs'[k].gen = runs[k].gen + 1
          /\ runs'[k].pr = runs[k].pr]_vars

\* A call that takes a collision for a finished set may publish the run while its
\* author is still uploading; unless something failed, the set is complete or its
\* author is on the way to completing it (stage.go:132-152).
HalfStagedHasCause ==
  faults = 0 => \A k \in Keys : runs[k] # NoRun =>
    \/ Complete(k)
    \/ \E c \in Calls : KeyOf(c) = k /\ pc[c] \in Names \ {"plan.json"}

\* A signed plan is never left to nobody: while its run is not planned, some call
\* of its key is still on the way from the marker to the flip, unless one died,
\* though all but one of them took another call's objects, marker or run for the
\* work done (stage.go:144-152, 181-193, 286-304).
SignedIsInHand ==
  \A k \in Keys : Complete(k) =>
    \/ runs[k].status = "planned"
    \/ \E c \in Calls : /\ KeyOf(c) = k
                        /\ pc[c] \in {"marker", "claim", "attrs", "content", "flip", "aborted"}

\* A signed plan is eventually published as planned, whoever wins the races,
\* unless a call that staged its key died (stage.go:132-200).
SignedLeadsToPlanned ==
  \A k \in Keys : Complete(k) ~>
    (runs[k].status = "planned" \/ \E c \in Calls : KeyOf(c) = k /\ pc[c] = "aborted")

\* Concurrent staging implements the abstract ledger: one signed plan per key,
\* no run without an announced apply, no way back from planned.
L == INSTANCE Ledger WITH
       Plans <- Calls,
       signed <- [k \in Keys |-> objects[k]["meta.json"]],
       status <- [k \in Keys |-> runs[k].status],
       announced <- {m \in Markers : markers[m] # None}
ImplementsLedger == L!Spec

-----------------------------------------------------------------------------
(* What documents and comments say and the code does not keep *)

\* Documented: a planned run has its artifacts, at least once every call has
\* returned.
PlannedHasArtifacts ==
  (\A c \in Calls : pc[c] \in Returned) =>
    \A k \in Keys : runs[k].status = "planned" => Complete(k)

\* Documented: one marker per outstanding apply, naming its run.
PlannedHasOwnMarker ==
  \A k \in Keys : runs[k].status = "planned" => \E m \in Markers : markers[m] = k
=============================================================================
