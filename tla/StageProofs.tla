---------------------------- MODULE StageProofs ----------------------------
(***************************************************************************)
(* Proofs about Stage, for any number of calls, pull requests, workspaces, *)
(* commit pairs and faults.                                                *)
(*                                                                         *)
(* The artifacts: the first upload is the claim.  Of all calls for a key   *)
(* only the one that created plan.json ever gets past it, so a call that   *)
(* is past it owns everything stored so far and nothing is stored ahead of *)
(* it (UploadInv), and what is stored is a prefix of the upload order      *)
(* (PrefixInv).                                                            *)
(*                                                                         *)
(* The run object: its generation tells its status (RunGenInv), a call     *)
(* past the marker has its marker in place and a call past the claim has   *)
(* its run (PublishInv), and what a call has read of the run is either     *)
(* current or behind a flip (SeenInv).                                     *)
(***************************************************************************)
EXTENDS Stage, TLAPS

PastMarker == {"claim", "attrs", "content", "flip", "done", "lost"}
PastClaim == {"attrs", "content", "flip", "done", "lost"}

\* TypeOK alone is not inductive: the flip writes the pull request it has read.
ClaimInv ==
  \A c \in Calls :
    /\ pc[c] \in PastClaim => runs[KeyOf(c)] # NoRun
    /\ pc[c] = "flip" => seen[c].pr \in PRs

TypeInv == TypeOK /\ ClaimInv

\* The names uploaded before a name.
Before(n) ==
  CASE n = "plan.json" -> {}
    [] n = "plan.txt"  -> {"plan.json"}
    [] n = "tfplan"    -> {"plan.json", "plan.txt"}
    [] n = "meta.json" -> {"plan.json", "plan.txt", "tfplan"}
    [] OTHER           -> {}

UploadInv ==
  \A c \in Calls : (pc[c] \in Names /\ pc[c] # "plan.json") =>
    \A n \in Names :
      objects[KeyOf(c)][n] = IF n \in Before(pc[c]) THEN c ELSE None

PrefixInv ==
  \A k \in Keys : \A n \in Names :
    objects[k][n] # None => \A m \in Before(n) : objects[k][m] # None

ArtifactInv == TypeInv /\ OneAuthor /\ PrefixInv /\ UploadInv

RunGenInv ==
  \A k \in Keys :
    \/ runs[k] = NoRun
    \/ runs[k].gen = 1 /\ runs[k].status = "planning"
    \/ runs[k].gen = 2 /\ runs[k].status = "planned"

\* A call that has written anything is past its first upload.
WriterInv ==
  \A c \in Calls : pc[c] = "plan.json" => \A k \in Keys, n \in Names : objects[k][n] # c

PublishInv ==
  \A c \in Calls :
    /\ pc[c] \in PastMarker => markers[MarkerOf(c)] # None
    /\ pc[c] \in {"done", "lost"} => runs[KeyOf(c)].status = "planned"

SeenInv ==
  \A c \in Calls :
    /\ pc[c] \in {"content", "flip"} =>
         runs[KeyOf(c)].gen = seen[c].gen \/ runs[KeyOf(c)].status = "planned"
    /\ pc[c] = "flip" => seen[c].gen = 1 /\ seen[c].pr = runs[KeyOf(c)].pr

RunInv == TypeInv /\ RunGenInv /\ RunHasMarker /\ PublishInv /\ SeenInv

-----------------------------------------------------------------------------
(* Types *)

\* Where a call may go next is a location, and its key and marker name exist.
LEMMA CallTypes ==
  ASSUME TypeOK, NEW c \in Calls
  PROVE  /\ in[c] \in StageInput
         /\ KeyOf(c) \in Keys
         /\ MarkerOf(c) \in Markers
         /\ pc[c] \in Names => After(pc[c]) \in Locations
  BY DEF TypeOK, StageInput, KeyOf, MarkerOf, Keys, Markers, After, Names, Locations

LEMMA RunTypes ==
  ASSUME TypeOK, NEW k \in Keys
  PROVE  /\ runs[k].gen \in Nat
         /\ runs[k].pr \in PRs \cup {None}
         /\ runs[k] # NoRun => /\ runs[k].gen # 0
                              /\ runs[k].pr \in PRs
                              /\ runs[k].status \in {"planning", "planned"}
<1>1. runs[k] \in RunObject
  BY DEF TypeOK
<1>2. CASE runs[k] = NoRun
  BY <1>2 DEF NoRun
<1>3. CASE runs[k] \in [gen : Nat \ {0}, status : {"planning", "planned"}, pr : PRs]
  BY <1>3
<1> QED
  BY <1>1, <1>2, <1>3 DEF RunObject

LEMMA InitTypeInv == Init => TypeInv
  BY FaultsAssumption
  DEF Init, TypeInv, TypeOK, ClaimInv, PastClaim, Locations, Names, Unread, NoRun, RunObject

\* No step of any call, and no abort, takes a variable out of its type.
LEMMA NextTypeInv == TypeInv /\ [Next]_vars => TypeInv'
<1> SUFFICES ASSUME TypeInv, [Next]_vars PROVE TypeInv'
  OBVIOUS
<1>1. CASE UNCHANGED vars
  BY <1>1 DEF vars, TypeInv, TypeOK, ClaimInv, KeyOf
<1>2. ASSUME NEW c \in Calls, Step(c) \/ Abort(c) PROVE TypeInv'
  <2>t. TypeOK /\ ClaimInv
    BY DEF TypeInv
  <2>a. TypeOK'
    <3> USE DEF TypeOK
    <3>1. CASE Upload(c)
      BY <2>t, <3>1, CallTypes DEF Upload, Free, Goto, Locations
    <3>2. CASE Collide(c)
      BY <2>t, <3>2, CallTypes DEF Collide, Goto, Locations
    <3>3. CASE CollideWithSelf(c)
      BY <2>t, <3>3, CallTypes, FaultsAssumption DEF CollideWithSelf, Free, Goto, Locations
    <3>4. CASE PutMarker(c)
      BY <2>t, <3>4, CallTypes DEF PutMarker, Goto, Locations
    <3>5. CASE ClaimRun(c)
      BY <2>t, <3>5, CallTypes DEF ClaimRun, Goto, Locations, RunObject, StageInput
    <3>6. CASE ClaimTaken(c)
      BY <2>t, <3>6, CallTypes DEF ClaimTaken, Goto, Locations
    <3>7. CASE ReadAttrs(c)
      BY <2>t, <3>7, CallTypes, RunTypes DEF ReadAttrs, Goto, Locations
    <3>8. CASE ReadPlanned(c)
      BY <2>t, <3>8, CallTypes DEF ReadPlanned, Goto, Locations, Returned
    <3>9. CASE ReadPlanning(c)
      BY <2>t, <3>9, CallTypes, RunTypes DEF ReadPlanning, Goto, Locations
    <3>10. CASE Flip(c)
      BY <2>t, <3>10, CallTypes DEF Flip, Flipped, Goto, Locations, Returned, RunObject, NoRun, ClaimInv, PastClaim
    <3>11. CASE FlipLost(c)
      BY <2>t, <3>11, CallTypes DEF FlipLost, Goto, Locations, Returned
    <3>12. CASE FlipLostToSelf(c)
      BY <2>t, <3>12, CallTypes, FaultsAssumption DEF FlipLostToSelf, Flipped, Goto, Locations, Returned, RunObject, NoRun, ClaimInv, PastClaim
    <3>13. CASE Abort(c)
      BY <2>t, <3>13, CallTypes, FaultsAssumption DEF Abort, Goto, Locations, Returned
    <3> QED
      BY <1>2, <3>1, <3>2, <3>3, <3>4, <3>5, <3>6, <3>7, <3>8, <3>9, <3>10, <3>11, <3>12, <3>13 DEF Step
  <2>b. ClaimInv'
    <3> USE DEF TypeOK, ClaimInv, PastClaim, KeyOf
    <3>1. CASE Upload(c)
      BY <2>t, <3>1, CallTypes DEF Upload, Goto, Free, After, Names
    <3>2. CASE Collide(c)
      BY <2>t, <3>2, CallTypes DEF Collide, Goto
    <3>3. CASE CollideWithSelf(c)
      BY <2>t, <3>3, CallTypes DEF CollideWithSelf, Goto
    <3>4. CASE PutMarker(c)
      BY <2>t, <3>4, CallTypes DEF PutMarker, Goto
    <3>5. CASE ClaimRun(c)
      BY <2>t, <3>5, CallTypes DEF ClaimRun, Goto, NoRun, StageInput
    <3>6. CASE ClaimTaken(c)
      BY <2>t, <3>6, CallTypes DEF ClaimTaken, Goto
    <3>7. CASE ReadAttrs(c)
      BY <2>t, <3>7, CallTypes DEF ReadAttrs, Goto
    <3>8. CASE ReadPlanned(c)
      BY <2>t, <3>8, CallTypes DEF ReadPlanned, Goto
    <3>9. CASE ReadPlanning(c)
      BY <2>t, <3>9, CallTypes, RunTypes DEF ReadPlanning, Goto
    <3>10. CASE Flip(c)
      BY <2>t, <3>10, CallTypes DEF Flip, Flipped, Goto, NoRun, RunObject
    <3>11. CASE FlipLost(c)
      BY <2>t, <3>11, CallTypes DEF FlipLost, Goto
    <3>12. CASE FlipLostToSelf(c)
      BY <2>t, <3>12, CallTypes DEF FlipLostToSelf, Flipped, Goto, NoRun, RunObject
    <3>13. CASE Abort(c)
      BY <2>t, <3>13, CallTypes DEF Abort, Goto
    <3> QED
      BY <1>2, <3>1, <3>2, <3>3, <3>4, <3>5, <3>6, <3>7, <3>8, <3>9, <3>10, <3>11, <3>12, <3>13 DEF Step
  <2> QED
    BY <2>a, <2>b DEF TypeInv
<1> QED
  BY <1>1, <1>2 DEF Next

\* Every variable keeps its type, in every behaviour of the staging calls.
THEOREM TypeCorrect == Spec => []TypeOK
<1>1. Spec => []TypeInv
  BY InitTypeInv, NextTypeInv, PTL DEF Spec
<1>2. TypeInv => TypeOK
  BY DEF TypeInv
<1> QED
  BY <1>1, <1>2, PTL

-----------------------------------------------------------------------------
(* Artifacts *)

\* A call about to create a name finds everything uploaded before it there and
\* of its own making, and nothing from that name on.
LEMMA FreeMeansOwner ==
  ASSUME ArtifactInv, NEW c \in Calls, Free(c), NEW n \in Names
  PROVE  objects[KeyOf(c)][n] = IF n \in Before(pc[c]) THEN c ELSE None
<1>1. KeyOf(c) \in Keys
  BY CallTypes DEF ArtifactInv, TypeInv
<1>2. CASE pc[c] = "plan.json"
  <2>1. \A m \in Names : objects[KeyOf(c)][m] = None
    BY <1>1, <1>2 DEF ArtifactInv, PrefixInv, Free, Names, Before
  <2> QED
    BY <1>2, <2>1 DEF Before
<1>3. CASE pc[c] # "plan.json"
  BY <1>3 DEF ArtifactInv, UploadInv, Free
<1> QED
  BY <1>2, <1>3

\* Creating the next name keeps one author per key and leaves no gap.
LEMMA CreateArtifact ==
  ASSUME ArtifactInv, NEW c \in Calls, Free(c), UNCHANGED in,
         objects' = [objects EXCEPT ![KeyOf(c)][pc[c]] = c]
  PROVE  OneAuthor' /\ PrefixInv'
<1> DEFINE K == KeyOf(c)
<1>1. TypeOK /\ K \in Keys /\ pc[c] \in Names
  BY CallTypes DEF ArtifactInv, TypeInv, Free
<1>2. \A k \in Keys : k # K => objects'[k] = objects[k]
  BY <1>1 DEF TypeOK
<1>3. \A n \in Names : objects'[K][n] = IF n = pc[c] THEN c ELSE objects[K][n]
  BY <1>1 DEF TypeOK
<1>4. \A n \in Names :
        objects'[K][n] = IF n \in Before(pc[c]) \cup {pc[c]} THEN c ELSE None
  BY <1>1, <1>3, FreeMeansOwner DEF Before, Names
<1>a. OneAuthor'
  <2> SUFFICES ASSUME NEW k \in Keys, NEW n1 \in Names, NEW n2 \in Names,
                      objects'[k][n1] # None, objects'[k][n2] # None
               PROVE  /\ objects'[k][n1] = objects'[k][n2]
                      /\ KeyOf(objects[k][n1])' = k
    BY DEF OneAuthor
  <2>k. KeyOf(objects[k][n1])' = KeyOf(objects'[k][n1])
    BY DEF KeyOf
  <2>1. CASE k = K
    BY <2>k, <2>1, <1>4
  <2>2. CASE k # K
    BY <2>k, <2>2, <1>2 DEF ArtifactInv, OneAuthor
  <2> QED
    BY <2>1, <2>2
<1>b. PrefixInv'
  <2> SUFFICES ASSUME NEW k \in Keys, NEW n \in Names, objects'[k][n] # None,
                      NEW m \in Before(n)
               PROVE  objects'[k][m] # None
    BY DEF PrefixInv
  <2>1. CASE k = K
    BY <2>1, <1>1, <1>4, NoneAssumption DEF Before, Names
  <2>2. CASE k # K
    BY <2>2, <1>2 DEF ArtifactInv, PrefixInv
  <2> QED
    BY <2>1, <2>2
<1> QED
  BY <1>a, <1>b

LEMMA InitArtifactInv == Init => ArtifactInv
  BY InitTypeInv
  DEF Init, ArtifactInv, OneAuthor, PrefixInv, UploadInv, Names, Before

\* The artifact invariant is inductive.
LEMMA NextArtifactInv == ArtifactInv /\ [Next]_vars => ArtifactInv'
<1> SUFFICES ASSUME ArtifactInv, [Next]_vars PROVE ArtifactInv'
  OBVIOUS
<1>t. TypeInv' /\ TypeOK
  BY NextTypeInv DEF ArtifactInv, TypeInv
<1>1. CASE UNCHANGED vars
  BY <1>1, <1>t DEF vars, ArtifactInv, OneAuthor, PrefixInv, UploadInv, KeyOf
<1>2. ASSUME NEW c \in Calls, Step(c) \/ Abort(c) PROVE ArtifactInv'
  <2>1. CASE Upload(c)
    <3>1. OneAuthor' /\ PrefixInv'
      BY <2>1, CreateArtifact DEF Upload
    <3>2. ASSUME NEW d \in Calls, pc'[d] \in Names, pc'[d] # "plan.json", NEW n \in Names
          PROVE  objects'[KeyOf(d)'][n] = IF n \in Before(pc'[d]) THEN d ELSE None
      <4>1. KeyOf(d)' = KeyOf(d) /\ KeyOf(c) \in Keys /\ KeyOf(d) \in Keys /\ pc[c] \in Names
        BY <2>1, <1>t, CallTypes DEF Upload, Free, KeyOf
      <4>2. objects'[KeyOf(c)][n] = IF n \in Before(pc[c]) \cup {pc[c]} THEN c ELSE None
        BY <2>1, <1>t, <4>1, FreeMeansOwner DEF Upload, TypeOK, Before, Names
      <4>3. CASE d = c
        <5>1. pc'[d] = After(pc[c])
          BY <2>1, <4>3, <1>t DEF Upload, Goto, TypeOK
        <5> QED
          BY <4>1, <4>2, <4>3, <5>1, <3>2 DEF After, Before, Names
      <4>4. CASE d # c /\ KeyOf(d) = KeyOf(c)
        <5>1. pc[d] = pc'[d]
          BY <2>1, <4>4, <1>t DEF Upload, Goto, TypeOK
        <5>2. objects[KeyOf(c)]["plan.json"] = d
          BY <3>2, <4>4, <5>1 DEF ArtifactInv, UploadInv, Before, Names
        <5>3. objects[KeyOf(c)]["plan.json"] \in {c, None}
          BY <2>1, FreeMeansOwner DEF Upload, Names
        <5> QED
          BY <4>4, <5>2, <5>3, NoneAssumption
      <4>5. CASE KeyOf(d) # KeyOf(c)
        <5>1. d # c
          BY <4>5
        <5>2. pc[d] = pc'[d]
          BY <5>1, <2>1, <1>t DEF Upload, Goto, TypeOK
        <5>3. objects'[KeyOf(d)] = objects[KeyOf(d)]
          BY <2>1, <1>t, <4>1, <4>5 DEF Upload, TypeOK
        <5> QED
          BY <3>2, <4>1, <5>2, <5>3 DEF ArtifactInv, UploadInv
      <4> QED
        BY <4>3, <4>4, <4>5
    <3> QED
      BY <1>t, <3>1, <3>2 DEF ArtifactInv, UploadInv
  <2>2. CASE CollideWithSelf(c)
    <3>1. OneAuthor' /\ PrefixInv'
      BY <2>2, CreateArtifact DEF CollideWithSelf
    <3>2. ASSUME NEW d \in Calls, pc'[d] \in Names, pc'[d] # "plan.json", NEW n \in Names
          PROVE  objects'[KeyOf(d)'][n] = IF n \in Before(pc'[d]) THEN d ELSE None
      <4>1. KeyOf(d)' = KeyOf(d) /\ KeyOf(c) \in Keys /\ KeyOf(d) \in Keys /\ pc[c] \in Names
        BY <2>2, <1>t, CallTypes DEF CollideWithSelf, Free, KeyOf
      <4>2. d # c /\ pc[d] = pc'[d]
        BY <2>2, <3>2, <1>t DEF CollideWithSelf, Goto, TypeOK, Names
      <4>3. CASE KeyOf(d) = KeyOf(c)
        <5>1. objects[KeyOf(c)]["plan.json"] = d
          BY <3>2, <4>2, <4>3 DEF ArtifactInv, UploadInv, Before, Names
        <5>2. objects[KeyOf(c)]["plan.json"] \in {c, None}
          BY <2>2, FreeMeansOwner DEF CollideWithSelf, Names
        <5> QED
          BY <4>2, <5>1, <5>2, NoneAssumption
      <4>4. CASE KeyOf(d) # KeyOf(c)
        <5>1. objects'[KeyOf(d)] = objects[KeyOf(d)]
          BY <2>2, <1>t, <4>1, <4>4 DEF CollideWithSelf, TypeOK
        <5> QED
          BY <3>2, <4>1, <4>2, <5>1 DEF ArtifactInv, UploadInv
      <4> QED
        BY <4>3, <4>4
    <3> QED
      BY <1>t, <3>1, <3>2 DEF ArtifactInv, UploadInv
  <2>3. CASE ~Upload(c) /\ ~CollideWithSelf(c)
    <3>1. UNCHANGED <<in, objects>>
      BY <2>3, <1>2 DEF Step, Collide, PutMarker, ClaimRun, ClaimTaken, ReadAttrs,
         ReadPlanned, ReadPlanning, Flip, FlipLost, FlipLostToSelf, Abort
    <3>2. \A d \in Calls : pc'[d] \in Names => pc'[d] = pc[d]
      BY <2>3, <1>2, <1>t DEF Step, Collide, PutMarker, ClaimRun, ClaimTaken, ReadAttrs,
         ReadPlanned, ReadPlanning, Flip, FlipLost, FlipLostToSelf, Abort, Goto, TypeOK, Names
    <3> QED
      BY <1>t, <3>1, <3>2 DEF ArtifactInv, OneAuthor, PrefixInv, UploadInv, KeyOf
  <2> QED
    BY <2>1, <2>2, <2>3
<1> QED
  BY <1>1, <1>2 DEF Next

LEMMA ArtifactInvariant == Spec => []ArtifactInv
  BY InitArtifactInv, NextArtifactInv, PTL DEF Spec

\* Whatever calls race or die, a signed plan is whole: meta.json is there only
\* with the three artifacts, and one call that staged that key wrote all four.
THEOREM ArtifactsAreCoherent == Spec => []ArtifactsCoherent
<1>1. ArtifactInv => ArtifactsCoherent
  BY DEF ArtifactInv, ArtifactsCoherent, MetaLast, Complete, PrefixInv, Before, Names
<1> QED
  BY <1>1, ArtifactInvariant, PTL

-----------------------------------------------------------------------------
(* Markers and run objects *)

LEMMA InitRunInv == Init => RunInv
  BY InitTypeInv
  DEF Init, RunInv, RunGenInv, RunHasMarker, PublishInv, SeenInv, PastMarker, NoRun

\* A write of the flip publishes the run it has read, as generation 2.
LEMMA FlipWrites ==
  ASSUME RunInv, NEW c \in Calls, pc[c] = "flip",
         runs[KeyOf(c)].gen = seen[c].gen, runs' = Flipped(c)
  PROVE  /\ KeyOf(c) \in Keys
         /\ runs[KeyOf(c)].status = "planning"
         /\ runs[KeyOf(c)].gen = 1
         /\ runs' = [runs EXCEPT ![KeyOf(c)] =
                       [gen |-> 2, status |-> "planned", pr |-> runs[KeyOf(c)].pr]]
<1>1. KeyOf(c) \in Keys
  BY CallTypes DEF RunInv, TypeInv
<1>2. seen[c].gen = 1 /\ seen[c].pr = runs[KeyOf(c)].pr
  BY DEF RunInv, SeenInv
<1>3. runs[KeyOf(c)].gen = 1 /\ runs[KeyOf(c)].status = "planning"
  BY <1>1, <1>2 DEF RunInv, RunGenInv, NoRun
<1> QED
  BY <1>1, <1>2, <1>3 DEF Flipped

\* Publishing a run that is planning disturbs no marker, no claim and no reader.
LEMMA FlipKeepsRunInv ==
  ASSUME RunInv, TypeInv', NEW c \in Calls, pc[c] = "flip",
         runs[KeyOf(c)].gen = seen[c].gen, runs' = Flipped(c),
         NEW l \in {"done", "lost"}, Goto(c, l), UNCHANGED <<in, seen, markers>>
  PROVE  RunInv'
<1> DEFINE K == KeyOf(c)
<1>t. TypeOK
  BY DEF RunInv, TypeInv
<1>1. /\ K \in Keys
      /\ runs[K].status = "planning" /\ runs[K].gen = 1
      /\ runs' = [runs EXCEPT ![K] = [gen |-> 2, status |-> "planned", pr |-> runs[K].pr]]
  BY FlipWrites
<1>2. \A k \in Keys : IF k = K THEN /\ runs'[k].gen = 2
                                    /\ runs'[k].status = "planned"
                                    /\ runs'[k].pr = runs[k].pr
                                    /\ runs[k] # NoRun
                               ELSE runs'[k] = runs[k]
  BY <1>1, <1>t DEF TypeOK, NoRun
<1>3. \A d \in Calls : /\ KeyOf(d)' = KeyOf(d) /\ KeyOf(d) \in Keys
                       /\ MarkerOf(d)' = MarkerOf(d)
                       /\ pc'[d] = IF d = c THEN l ELSE pc[d]
  BY <1>t, CallTypes DEF KeyOf, MarkerOf, Goto, TypeOK
<1>a. RunGenInv'
  BY <1>2 DEF RunInv, RunGenInv
<1>b. RunHasMarker'
  BY <1>2 DEF RunInv, RunHasMarker
<1>c. PublishInv'
  BY <1>2, <1>3 DEF RunInv, PublishInv, PastMarker
<1>d. SeenInv'
  BY <1>2, <1>3 DEF RunInv, SeenInv
<1> QED
  BY <1>a, <1>b, <1>c, <1>d DEF RunInv

\* The marker, claim and reader invariant is inductive.
LEMMA NextRunInv == RunInv /\ [Next]_vars => RunInv'
<1> SUFFICES ASSUME RunInv, [Next]_vars PROVE RunInv'
  OBVIOUS
<1>t. TypeInv' /\ TypeOK /\ ClaimInv
  BY NextTypeInv DEF RunInv, TypeInv
<1>1. CASE UNCHANGED vars
  BY <1>1, <1>t DEF vars, RunInv, RunGenInv, RunHasMarker, PublishInv, SeenInv, KeyOf, MarkerOf
<1>2. ASSUME NEW c \in Calls, Step(c) \/ Abort(c) PROVE RunInv'
  <2>f. \A d \in Calls : KeyOf(d) \in Keys /\ MarkerOf(d) \in Markers
    BY <1>t, CallTypes
  <2>g. in' = in
    BY <1>2 DEF Step, Upload, Collide, CollideWithSelf, PutMarker, ClaimRun, ClaimTaken,
       ReadAttrs, ReadPlanned, ReadPlanning, Flip, FlipLost, FlipLostToSelf, Abort
  <2>h. \A d \in Calls : KeyOf(d)' = KeyOf(d) /\ MarkerOf(d)' = MarkerOf(d)
    BY <2>g DEF KeyOf, MarkerOf
  <2>1. CASE Upload(c) \/ Collide(c) \/ CollideWithSelf(c) \/ Abort(c)
    <3>1. UNCHANGED <<runs, markers, seen>>
      BY <2>1 DEF Upload, Collide, CollideWithSelf, Abort
    <3>2. \A d \in Calls : pc'[d] \in PastMarker => pc'[d] = pc[d]
      BY <2>1, <1>t DEF Upload, Collide, CollideWithSelf, Abort, Goto, Free, Names, After,
         PastMarker, TypeOK
    <3> QED
      BY <1>t, <2>h, <3>1, <3>2
      DEF RunInv, RunGenInv, RunHasMarker, PublishInv, SeenInv, PastMarker
  <2>2. CASE PutMarker(c)
    <3>1. UNCHANGED <<runs, seen>> /\ \A d \in Calls : pc'[d] = IF d = c THEN "claim" ELSE pc[d]
      BY <2>2, <1>t DEF PutMarker, Goto, TypeOK
    <3>2. markers'[MarkerOf(c)] # None
      BY <2>2, <2>f, <1>t, NoneAssumption DEF PutMarker, TypeOK, Keys
    <3>3. \A m \in Markers : markers[m] # None => markers'[m] # None
      BY <2>2, <3>2, <1>t DEF PutMarker, TypeOK
    <3>4. RunHasMarker'
      <4> SUFFICES ASSUME NEW k \in Keys, runs[k] # NoRun
                   PROVE  markers'[<<runs[k].pr, k[2]>>] # None
        BY <3>1 DEF RunHasMarker
      <4>1. <<runs[k].pr, k[2]>> \in Markers
        BY <1>t, RunTypes DEF Keys, Markers
      <4> QED
        BY <3>3, <4>1 DEF RunInv, RunHasMarker
    <3>5. PublishInv'
      BY <2>f, <2>h, <3>1, <3>2, <3>3 DEF RunInv, PublishInv, PastMarker
    <3> QED
      BY <1>t, <2>h, <3>1, <3>4, <3>5 DEF RunInv, RunGenInv, SeenInv
  <2>3. CASE ClaimRun(c)
    <3>1. UNCHANGED <<markers, seen>> /\ \A d \in Calls : pc'[d] = IF d = c THEN "attrs" ELSE pc[d]
      BY <2>3, <1>t DEF ClaimRun, Goto, TypeOK
    <3>2. \A k \in Keys : runs'[k] = IF k = KeyOf(c)
                                     THEN [gen |-> 1, status |-> "planning", pr |-> in[c].pr]
                                     ELSE runs[k]
      BY <2>3, <2>f, <1>t DEF ClaimRun, TypeOK
    <3>3. \A d \in Calls : pc[d] \in PastClaim => KeyOf(d) # KeyOf(c)
      BY <2>3, <1>t DEF ClaimRun, ClaimInv
    <3>4. markers[MarkerOf(c)] # None
      BY <2>3 DEF ClaimRun, RunInv, PublishInv, PastMarker
    <3>5. RunHasMarker'
      BY <3>1, <3>2, <3>4 DEF RunInv, RunHasMarker, KeyOf, MarkerOf
    <3>6. PublishInv'
      BY <2>3, <2>f, <2>h, <3>1, <3>2, <3>3, <3>4
      DEF RunInv, PublishInv, PastMarker, PastClaim
    <3>7. SeenInv'
      BY <2>f, <2>h, <3>1, <3>2, <3>3 DEF RunInv, SeenInv, PastClaim
    <3> QED
      BY <1>t, <3>2, <3>5, <3>6, <3>7 DEF RunInv, RunGenInv
  <2>4. CASE ClaimTaken(c)
    <3>1. UNCHANGED <<runs, markers, seen>>
          /\ \A d \in Calls : pc'[d] = IF d = c THEN "attrs" ELSE pc[d]
      BY <2>4, <1>t DEF ClaimTaken, Goto, TypeOK
    <3> QED
      BY <1>t, <2>4, <2>h, <3>1
      DEF ClaimTaken, RunInv, RunGenInv, RunHasMarker, PublishInv, SeenInv, PastMarker
  <2>5. CASE ReadAttrs(c)
    <3>1. UNCHANGED <<runs, markers>>
          /\ \A d \in Calls : pc'[d] = IF d = c THEN "content" ELSE pc[d]
      BY <2>5, <1>t DEF ReadAttrs, Goto, TypeOK
    <3>2. /\ seen'[c].gen = runs[KeyOf(c)].gen
          /\ \A d \in Calls : d # c => seen'[d] = seen[d]
      BY <2>5, <1>t DEF ReadAttrs, TypeOK
    <3> QED
      BY <1>t, <2>5, <2>h, <3>1, <3>2
      DEF ReadAttrs, RunInv, RunGenInv, RunHasMarker, PublishInv, SeenInv, PastMarker
  <2>6. CASE ReadPlanned(c)
    <3>1. UNCHANGED <<runs, markers, seen>>
          /\ \A d \in Calls : pc'[d] = IF d = c THEN "done" ELSE pc[d]
      BY <2>6, <1>t DEF ReadPlanned, Goto, TypeOK
    <3> QED
      BY <1>t, <2>6, <2>h, <3>1
      DEF ReadPlanned, RunInv, RunGenInv, RunHasMarker, PublishInv, SeenInv, PastMarker
  <2>7. CASE ReadPlanning(c)
    <3>1. UNCHANGED <<runs, markers>>
          /\ \A d \in Calls : pc'[d] = IF d = c THEN "flip" ELSE pc[d]
      BY <2>7, <1>t DEF ReadPlanning, Goto, TypeOK
    <3>2. /\ seen'[c].gen = seen[c].gen /\ seen'[c].pr = runs[KeyOf(c)].pr
          /\ \A d \in Calls : d # c => seen'[d] = seen[d]
      BY <2>7, <1>t DEF ReadPlanning, TypeOK
    <3>3. runs[KeyOf(c)].gen = 1 /\ seen[c].gen = 1
      <4>1. runs[KeyOf(c)] # NoRun
        BY <2>7, <1>t DEF ReadPlanning, ClaimInv, PastClaim
      <4>2. runs[KeyOf(c)].gen = 1
        BY <2>7, <2>f, <4>1 DEF ReadPlanning, RunInv, RunGenInv
      <4> QED
        BY <2>7, <4>2 DEF ReadPlanning, RunInv, SeenInv
    <3> QED
      BY <1>t, <2>7, <2>h, <3>1, <3>2, <3>3
      DEF ReadPlanning, RunInv, RunGenInv, RunHasMarker, PublishInv, SeenInv, PastMarker
  <2>8. CASE Flip(c)
    BY <1>t, <2>8, FlipKeepsRunInv DEF Flip
  <2>9. CASE FlipLostToSelf(c)
    BY <1>t, <2>9, FlipKeepsRunInv DEF FlipLostToSelf
  <2>10. CASE FlipLost(c)
    <3>1. UNCHANGED <<runs, markers, seen>>
          /\ \A d \in Calls : pc'[d] = IF d = c THEN "lost" ELSE pc[d]
      BY <2>10, <1>t DEF FlipLost, Goto, TypeOK
    <3> QED
      BY <1>t, <2>10, <2>h, <3>1
      DEF FlipLost, RunInv, RunGenInv, RunHasMarker, PublishInv, SeenInv, PastMarker
  <2> QED
    BY <1>2, <2>1, <2>2, <2>3, <2>4, <2>5, <2>6, <2>7, <2>8, <2>9, <2>10 DEF Step
<1> QED
  BY <1>1, <1>2 DEF Next

LEMMA RunInvariant == Spec => []RunInv
  BY InitRunInv, NextRunInv, PTL DEF Spec

\* A run object never exists without the pending-apply marker of the pull
\* request it records, whichever calls die between the two writes.
THEOREM RunsHaveMarkers == Spec => []RunHasMarker
<1>1. RunInv => RunHasMarker
  BY DEF RunInv
<1> QED
  BY <1>1, RunInvariant, PTL

\* A call that returns normally leaves its run planned and its marker in place.
THEOREM ReturnsArePublished == Spec => []ReturnedIsPublished
<1>1. RunInv => ReturnedIsPublished
  BY DEF RunInv, PublishInv, ReturnedIsPublished, PastMarker
<1> QED
  BY <1>1, RunInvariant, PTL

\* A call whose compare-and-swap is refused finds its run published.
THEOREM LostSwapsArePublished == Spec => []LostIsPublished
<1>1. RunInv => LostIsPublished
  BY DEF RunInv, PublishInv, LostIsPublished
<1> QED
  BY <1>1, RunInvariant, PTL

-----------------------------------------------------------------------------
(* The call that has a signed plan in hand *)

\* A call writes as it leaves its first upload, and never comes back to it.
LEMMA NextWriterInv == TypeInv /\ WriterInv /\ [Next]_vars => WriterInv'
<1> SUFFICES ASSUME TypeInv, WriterInv, [Next]_vars,
                    NEW d \in Calls, pc'[d] = "plan.json", NEW k \in Keys, NEW n \in Names
             PROVE  objects'[k][n] # d
  BY DEF WriterInv
<1>t. TypeOK
  BY DEF TypeInv
<1>1. CASE UNCHANGED vars
  BY <1>1 DEF vars, WriterInv
<1>2. ASSUME NEW c \in Calls, Step(c) \/ Abort(c) PROVE objects'[k][n] # d
  <2>1. c # d /\ pc[d] = "plan.json"
    BY <1>2, <1>t DEF Step, Upload, CollideWithSelf, Free, Collide, PutMarker, ClaimRun, ClaimTaken,
       ReadAttrs, ReadPlanned, ReadPlanning, Flip, FlipLost, FlipLostToSelf, Abort, Goto, TypeOK,
       After, Names
  <2>2. \/ objects' = objects
        \/ objects' = [objects EXCEPT ![KeyOf(c)][pc[c]] = c]
    BY <1>2 DEF Step, Upload, CollideWithSelf, Collide, PutMarker, ClaimRun, ClaimTaken,
       ReadAttrs, ReadPlanned, ReadPlanning, Flip, FlipLost, FlipLostToSelf, Abort
  <2>3. objects'[k][n] \in {objects[k][n], c}
    BY <2>2, <1>t DEF TypeOK
  <2> QED
    BY <2>1, <2>3 DEF WriterInv
<1> QED
  BY <1>1, <1>2 DEF Next

\* The author of a meta.json is past its uploads; if it has returned, the run is
\* planned.
LEMMA AuthorHasItInHand ==
  ASSUME ArtifactInv, WriterInv, PublishInv, NEW k \in Keys, Complete(k)
  PROVE  \/ runs[k].status = "planned"
         \/ \E c \in Calls :
              /\ KeyOf(c) = k
              /\ pc[c] \in {"marker", "claim", "attrs", "content", "flip", "aborted"}
<1>1. PICK c \in Calls : objects[k]["meta.json"] = c
  BY DEF Complete, ArtifactInv, TypeInv, TypeOK, Names
<1>2. KeyOf(c) = k
  BY <1>1, NoneAssumption DEF ArtifactInv, OneAuthor, Names
<1>3. pc[c] \notin Names
  <2>1. pc[c] # "plan.json"
    BY <1>1 DEF WriterInv, Names
  <2>2. ~(pc[c] \in Names /\ pc[c] # "plan.json")
    <3> SUFFICES ASSUME pc[c] \in Names, pc[c] # "plan.json" PROVE FALSE
      OBVIOUS
    <3>1. objects[k]["meta.json"] = None
      BY <1>2 DEF ArtifactInv, UploadInv, Before, Names
    <3> QED
      BY <1>1, <3>1, NoneAssumption
  <2> QED
    BY <2>1, <2>2
<1>4. CASE pc[c] \in {"done", "lost"}
  BY <1>2, <1>4 DEF PublishInv
<1>5. CASE pc[c] \in {"marker", "claim", "attrs", "content", "flip", "aborted"}
  BY <1>2, <1>5
<1> QED
  BY <1>3, <1>4, <1>5 DEF ArtifactInv, TypeInv, TypeOK, Locations, Returned, Names

\* What is signed and not planned is in the hands of a call: the invariant part of
\* SignedLeadsToPlanned.
THEOREM SignedPlansAreInHand == Spec => []SignedIsInHand
<1>1. Init => WriterInv
  BY NoneAssumption DEF Init, WriterInv, Names
<1>2. ArtifactInv => TypeInv
  BY DEF ArtifactInv
<1>3. Spec => []WriterInv
  BY <1>1, <1>2, NextWriterInv, ArtifactInvariant, PTL DEF Spec
<1>4. ArtifactInv /\ WriterInv /\ RunInv => SignedIsInHand
  BY AuthorHasItInHand DEF RunInv, SignedIsInHand
<1> QED
  BY <1>3, <1>4, ArtifactInvariant, RunInvariant, PTL

-----------------------------------------------------------------------------
(* Half-staged sets *)

\* A call past its uploads, and a run object, have the first artifact there; without
\* a fault its author goes on to the last.
WholeInv ==
  /\ \A c \in Calls : pc[c] \notin Names \cup {"aborted"} => objects[KeyOf(c)]["plan.json"] # None
  /\ \A k \in Keys : runs[k] # NoRun => objects[k]["plan.json"] # None
  /\ faults = 0 => \A k \in Keys, c \in Calls : objects[k]["plan.json"] = c =>
       Complete(k) \/ pc[c] \in Names \ {"plan.json"}

\* A call only adds objects, at the name it is about to upload.
LEMMA StepWrites ==
  ASSUME ArtifactInv, NEW c \in Calls, Step(c) \/ Abort(c)
  PROVE  /\ in' = in
         /\ \A d \in Calls \ {c} : pc'[d] = pc[d]
         /\ \/ objects' = objects
            \/ Free(c) /\ objects' = [objects EXCEPT ![KeyOf(c)][pc[c]] = c]
         /\ \A k \in Keys, n \in Names : objects[k][n] # None => objects'[k][n] = objects[k][n]
<1>1. in' = in /\ \A d \in Calls \ {c} : pc'[d] = pc[d]
  BY DEF Step, Upload, CollideWithSelf, Collide, PutMarker, ClaimRun, ClaimTaken, ReadAttrs,
     ReadPlanned, ReadPlanning, Flip, FlipLost, FlipLostToSelf, Abort, Goto, ArtifactInv, TypeInv,
     TypeOK
<1>2. \/ objects' = objects
      \/ Free(c) /\ objects' = [objects EXCEPT ![KeyOf(c)][pc[c]] = c]
  BY DEF Step, Upload, CollideWithSelf, Collide, PutMarker, ClaimRun, ClaimTaken, ReadAttrs,
     ReadPlanned, ReadPlanning, Flip, FlipLost, FlipLostToSelf, Abort
<1>3. \A k \in Keys, n \in Names : objects[k][n] # None => objects'[k][n] = objects[k][n]
  BY <1>2 DEF Free, ArtifactInv, TypeInv, TypeOK
<1> QED
  BY <1>1, <1>2, <1>3

\* A call leaves its uploads with the first artifact there.
LEMMA PastUploads ==
  ASSUME ArtifactInv, WholeInv, NEW c \in Calls, Step(c) \/ Abort(c),
         pc'[c] \notin Names \cup {"aborted"}
  PROVE  objects'[KeyOf(c)]["plan.json"] # None
<1> DEFINE K == KeyOf(c)
<1>1. K \in Keys /\ TypeOK /\ "plan.json" \in Names
  BY CallTypes DEF ArtifactInv, TypeInv, Names
<1>2. CASE pc[c] \notin Names
  <2>1. pc[c] # "aborted"
    BY <1>1, <1>2 DEF Step, Upload, CollideWithSelf, Free, Collide, Taken, PutMarker, ClaimRun,
       ClaimTaken, ReadAttrs, ReadPlanned, ReadPlanning, Flip, FlipLost, FlipLostToSelf, Abort,
       Returned, Goto
  <2>2. objects[K]["plan.json"] # None
    BY <1>2, <2>1 DEF WholeInv
  <2> QED
    BY <1>1, <2>2, StepWrites
<1>3. CASE Taken(c)
  <2>1. objects[K]["plan.json"] # None
    BY <1>1, <1>3 DEF Taken, ArtifactInv, PrefixInv, Before, Names
  <2> QED
    BY <1>1, <2>1, StepWrites
<1>4. CASE Free(c)
  <2>1. Upload(c) \/ CollideWithSelf(c)
    <3>1. ~Abort(c)
      BY <1>1 DEF Abort, Goto, TypeOK
    <3> QED
      BY <1>4, <3>1 DEF Step, Free, Collide, Taken, PutMarker, ClaimRun, ClaimTaken, ReadAttrs,
         ReadPlanned, ReadPlanning, Flip, FlipLost, FlipLostToSelf, Names
  <2>2. objects' = [objects EXCEPT ![K][pc[c]] = c] /\ pc[c] \in Names
    BY <1>4, <2>1 DEF Upload, CollideWithSelf, Free
  <2>3. CASE pc[c] = "plan.json"
    BY <1>1, <2>2, <2>3, NoneAssumption DEF TypeOK
  <2>4. CASE pc[c] # "plan.json"
    <3>1. objects[K]["plan.json"] = c
      BY <1>1, <1>4, <2>2, <2>4, FreeMeansOwner DEF Before, Names
    <3> QED
      BY <1>1, <3>1, StepWrites, NoneAssumption
  <2> QED
    BY <2>3, <2>4
<1> QED
  BY <1>2, <1>3, <1>4 DEF Free, Taken

\* The author of a set uploads on, or has failed.
LEMMA AuthorGoesOn ==
  ASSUME ArtifactInv, NEW c \in Calls, Step(c) \/ Abort(c), faults' = 0, NEW k \in Keys,
         objects[k]["plan.json"] = c, pc[c] \in Names \ {"plan.json"}
  PROVE  Complete(k)' \/ pc'[c] \in Names \ {"plan.json"}
<1>1. KeyOf(c) = k /\ TypeOK /\ faults \in Nat
  BY NoneAssumption, FaultsAssumption DEF ArtifactInv, TypeInv, TypeOK, OneAuthor, Names
<1>2. objects[k][pc[c]] = None
  BY <1>1 DEF ArtifactInv, UploadInv, Before, Names
<1>3. Upload(c)
  BY <1>1, <1>2 DEF Step, CollideWithSelf, Free, Collide, Taken, PutMarker, ClaimRun, ClaimTaken,
     ReadAttrs, ReadPlanned, ReadPlanning, Flip, FlipLost, FlipLostToSelf, Abort, Refused, Names
<1>4. CASE pc[c] = "meta.json"
  BY <1>1, <1>3, <1>4, NoneAssumption DEF Upload, Complete, TypeOK, Names
<1>5. CASE pc[c] # "meta.json"
  BY <1>1, <1>3, <1>5 DEF Upload, Goto, After, TypeOK, Names
<1> QED
  BY <1>4, <1>5

LEMMA NextWholeInv == ArtifactInv /\ WholeInv /\ [Next]_vars => WholeInv'
<1> SUFFICES ASSUME ArtifactInv, WholeInv, [Next]_vars PROVE WholeInv'
  OBVIOUS
<1>1. CASE UNCHANGED vars
  BY <1>1 DEF vars, WholeInv, Complete, KeyOf
<1>2. ASSUME NEW c \in Calls, Step(c) \/ Abort(c) PROVE WholeInv'
  <2>t. /\ TypeOK /\ "plan.json" \in Names /\ "meta.json" \in Names
        /\ \A d \in Calls : KeyOf(d) \in Keys /\ KeyOf(d)' = KeyOf(d)
    BY <1>2, CallTypes, StepWrites DEF ArtifactInv, TypeInv, Names, KeyOf
  <2>k. \A k \in Keys, n \in Names : objects[k][n] # None => objects'[k][n] # None
    BY <1>2, StepWrites
  <2>1. ASSUME NEW d \in Calls, pc'[d] \notin Names \cup {"aborted"}
        PROVE  objects'[KeyOf(d)']["plan.json"] # None
    <3>1. CASE d = c
      BY <1>2, <2>1, <2>t, <3>1, PastUploads
    <3>2. CASE d # c
      BY <1>2, <2>1, <2>t, <2>k, <3>2, StepWrites DEF WholeInv
    <3> QED
      BY <3>1, <3>2
  <2>2. ASSUME NEW k \in Keys, runs'[k] # NoRun
        PROVE  objects'[k]["plan.json"] # None
    <3>1. CASE runs[k] # NoRun
      BY <2>t, <2>k, <3>1 DEF WholeInv
    <3>2. CASE runs[k] = NoRun
      <4>1. k = KeyOf(c) /\ pc[c] \in {"claim", "flip"}
        BY <1>2, <2>2, <2>t, <3>2 DEF Step, Upload, CollideWithSelf, Collide, PutMarker, ClaimRun,
           ClaimTaken, ReadAttrs, ReadPlanned, ReadPlanning, Flip, FlipLost, FlipLostToSelf,
           Flipped, Abort, TypeOK
      <4> QED
        BY <2>t, <2>k, <4>1 DEF WholeInv, Names
    <3> QED
      BY <3>1, <3>2
  <2>3. ASSUME faults' = 0, NEW k \in Keys, NEW d \in Calls, objects'[k]["plan.json"] = d
        PROVE  Complete(k)' \/ pc'[d] \in Names \ {"plan.json"}
    <3>1. faults = 0
      BY <1>2, <2>3, <2>t, FaultsAssumption DEF Step, Upload, CollideWithSelf, Collide, PutMarker,
         ClaimRun, ClaimTaken, ReadAttrs, ReadPlanned, ReadPlanning, Flip, FlipLost,
         FlipLostToSelf, Abort, TypeOK
    <3>2. CASE objects[k]["plan.json"] = d
      <4>1. CASE Complete(k)
        BY <2>t, <2>k, <4>1 DEF Complete
      <4>2. CASE pc[d] \in Names \ {"plan.json"} /\ d # c
        BY <1>2, <4>2, StepWrites
      <4>3. CASE pc[d] \in Names \ {"plan.json"} /\ d = c
        BY <1>2, <2>3, <3>2, <4>3, AuthorGoesOn
      <4> QED
        BY <3>1, <3>2, <4>1, <4>2, <4>3 DEF WholeInv
    <3>3. CASE objects[k]["plan.json"] # d
      <4>1. d = c /\ pc[c] = "plan.json" /\ Free(c)
        <5>1. Free(c) /\ objects' = [objects EXCEPT ![KeyOf(c)][pc[c]] = c]
          BY <1>2, <2>3, <3>3, StepWrites
        <5>2. /\ \A j \in Keys \ {KeyOf(c)} : objects'[j] = objects[j]
              /\ \A n \in Names \ {pc[c]} : objects'[KeyOf(c)][n] = objects[KeyOf(c)][n]
              /\ pc[c] \in Names /\ objects'[KeyOf(c)][pc[c]] = c
          BY <2>t, <5>1 DEF Free, TypeOK
        <5> QED
          BY <2>3, <2>t, <3>3, <5>1, <5>2
      <4>2. Upload(c)
        <5>1. ~Abort(c) /\ ~CollideWithSelf(c)
          BY <2>3, <2>t, <3>1, <3>3, <4>1 DEF Abort, CollideWithSelf
        <5> QED
          BY <1>2, <4>1, <5>1 DEF Step, Free, Collide, Taken, PutMarker, ClaimRun, ClaimTaken,
             ReadAttrs, ReadPlanned, ReadPlanning, Flip, FlipLost, FlipLostToSelf, Names
      <4> QED
        BY <2>t, <4>1, <4>2 DEF Upload, Goto, After, TypeOK, Names
    <3> QED
      BY <3>2, <3>3
  <2> QED
    BY <2>1, <2>2, <2>3 DEF WholeInv
<1> QED
  BY <1>1, <1>2 DEF Next

\* A run is published over a half-staged set only after a fault, or while the author
\* of the set is still uploading it.
THEOREM HalfStagedSetsHaveCauses == Spec => []HalfStagedHasCause
<1>1. Init => WholeInv
  BY NoneAssumption DEF Init, WholeInv, Names, Complete, Keys
<1>2. Spec => []WholeInv
  BY <1>1, NextWholeInv, ArtifactInvariant, PTL DEF Spec
<1>3. ArtifactInv /\ WholeInv => HalfStagedHasCause
  <2> SUFFICES ASSUME ArtifactInv, WholeInv, faults = 0, NEW k \in Keys, runs[k] # NoRun
               PROVE  \/ Complete(k)
                      \/ \E c \in Calls : KeyOf(c) = k /\ pc[c] \in Names \ {"plan.json"}
    BY DEF HalfStagedHasCause
  <2>1. PICK c \in Calls : objects[k]["plan.json"] = c
    BY DEF WholeInv, ArtifactInv, TypeInv, TypeOK, Names
  <2>2. KeyOf(c) = k
    BY <2>1, NoneAssumption DEF ArtifactInv, OneAuthor, Names
  <2> QED
    BY <2>1, <2>2 DEF WholeInv
<1> QED
  BY <1>2, <1>3, ArtifactInvariant, PTL

-----------------------------------------------------------------------------
(* Steps of a run object, and the abstract ledger *)

\* What one step does to the run objects: nothing, the claim of one that has its
\* marker, or the swap of one from planning to planned.
LEMMA RunStep ==
  ASSUME RunInv, [Next]_vars
  PROVE  \/ UNCHANGED runs
         \/ \E k \in Keys, pr \in PRs :
              /\ runs[k] = NoRun
              /\ runs' = [runs EXCEPT ![k] = [gen |-> 1, status |-> "planning", pr |-> pr]]
              /\ markers[<<pr, k[2]>>] # None
              /\ UNCHANGED <<objects, markers>>
         \/ \E k \in Keys :
              /\ runs[k].status = "planning" /\ runs[k].gen = 1
              /\ runs' = [runs EXCEPT ![k] =
                            [gen |-> 2, status |-> "planned", pr |-> runs[k].pr]]
              /\ UNCHANGED <<objects, markers>>
<1>1. CASE UNCHANGED vars
  BY <1>1 DEF vars
<1>2. ASSUME NEW c \in Calls, ClaimRun(c)
      PROVE  \E k \in Keys, pr \in PRs :
               /\ runs[k] = NoRun
               /\ runs' = [runs EXCEPT ![k] = [gen |-> 1, status |-> "planning", pr |-> pr]]
               /\ markers[<<pr, k[2]>>] # None
               /\ UNCHANGED <<objects, markers>>
  <2>1. KeyOf(c) \in Keys /\ in[c].pr \in PRs
    BY CallTypes DEF RunInv, TypeInv, StageInput
  <2>2. markers[<<in[c].pr, KeyOf(c)[2]>>] # None
    BY <1>2 DEF ClaimRun, RunInv, PublishInv, PastMarker, MarkerOf, KeyOf
  <2> QED
    BY <1>2, <2>1, <2>2 DEF ClaimRun
<1>3. ASSUME NEW c \in Calls, Flip(c) \/ FlipLostToSelf(c)
      PROVE  \E k \in Keys :
               /\ runs[k].status = "planning" /\ runs[k].gen = 1
               /\ runs' = [runs EXCEPT ![k] =
                             [gen |-> 2, status |-> "planned", pr |-> runs[k].pr]]
               /\ UNCHANGED <<objects, markers>>
  BY <1>3, FlipWrites DEF Flip, FlipLostToSelf
<1>4. ASSUME NEW c \in Calls, Step(c) \/ Abort(c),
             ~ClaimRun(c), ~Flip(c), ~FlipLostToSelf(c)
      PROVE  UNCHANGED runs
  BY <1>4 DEF Step, Upload, Collide, CollideWithSelf, PutMarker, ClaimTaken, ReadAttrs,
     ReadPlanned, ReadPlanning, FlipLost, Abort
<1> QED
  BY <1>1, <1>2, <1>3, <1>4 DEF Next

\* A run object is created as planning and swapped once to planned, keeping its
\* pull request, though the generation and the content a flip acts on are read
\* in two requests.
THEOREM RunsKeepTheirLifecycle == Spec => RunLifecycle
<1>1. RunInv /\ [Next]_vars =>
        [\A k \in Keys : runs'[k] # runs[k] =>
           \/ runs[k] = NoRun /\ runs'[k].status = "planning"
           \/ /\ runs[k].status = "planning" /\ runs'[k].status = "planned"
              /\ runs'[k].gen = runs[k].gen + 1
              /\ runs'[k].pr = runs[k].pr]_vars
  <2> SUFFICES ASSUME RunInv, [Next]_vars, NEW k \in Keys, runs'[k] # runs[k]
               PROVE  \/ runs[k] = NoRun /\ runs'[k].status = "planning"
                      \/ /\ runs[k].status = "planning" /\ runs'[k].status = "planned"
                         /\ runs'[k].gen = runs[k].gen + 1
                         /\ runs'[k].pr = runs[k].pr
    OBVIOUS
  <2>1. runs \in [Keys -> RunObject]
    BY DEF RunInv, TypeInv, TypeOK
  <2>2. CASE \E j \in Keys, pr \in PRs :
               /\ runs[j] = NoRun
               /\ runs' = [runs EXCEPT ![j] = [gen |-> 1, status |-> "planning", pr |-> pr]]
    BY <2>1, <2>2
  <2>3. CASE \E j \in Keys :
               /\ runs[j].status = "planning" /\ runs[j].gen = 1
               /\ runs' = [runs EXCEPT ![j] =
                             [gen |-> 2, status |-> "planned", pr |-> runs[j].pr]]
    BY <2>1, <2>3
  <2> QED
    BY <2>2, <2>3, RunStep
<1> QED
  BY <1>1, RunInvariant, PTL DEF Spec, RunLifecycle

LEMMA InitRefines == Init => L!Init
  BY DEF Init, L!Init, L!Keys, Keys, NoRun, Names, Markers

\* What one step does to the signed plans: nothing, or one more key has one.
LEMMA SignStep ==
  ASSUME ArtifactInv, [Next]_vars
  PROVE  \/ \A k \in Keys : objects'[k]["meta.json"] = objects[k]["meta.json"]
         \/ \E k \in Keys, c \in Calls :
              /\ objects[k]["meta.json"] = None
              /\ \A j \in Keys : objects'[j]["meta.json"] =
                                 IF j = k THEN c ELSE objects[j]["meta.json"]
              /\ UNCHANGED <<runs, markers>>
<1>t. TypeOK
  BY DEF ArtifactInv, TypeInv
<1>1. CASE UNCHANGED vars
  BY <1>1 DEF vars
<1>2. ASSUME NEW c \in Calls, Free(c), UNCHANGED <<runs, markers>>,
             objects' = [objects EXCEPT ![KeyOf(c)][pc[c]] = c]
      PROVE  \/ \A k \in Keys : objects'[k]["meta.json"] = objects[k]["meta.json"]
             \/ \E k \in Keys, d \in Calls :
                  /\ objects[k]["meta.json"] = None
                  /\ \A j \in Keys : objects'[j]["meta.json"] =
                                     IF j = k THEN d ELSE objects[j]["meta.json"]
                  /\ UNCHANGED <<runs, markers>>
  <2>1. KeyOf(c) \in Keys /\ pc[c] \in Names
    BY <1>2, <1>t, CallTypes DEF Free
  <2>2. CASE pc[c] = "meta.json"
    <3>1. objects[KeyOf(c)]["meta.json"] = None
      BY <1>2, <2>2 DEF Free
    <3>2. \A j \in Keys : objects'[j]["meta.json"] =
                          IF j = KeyOf(c) THEN c ELSE objects[j]["meta.json"]
      BY <1>2, <1>t, <2>1, <2>2 DEF TypeOK
    <3> QED
      BY <1>2, <2>1, <3>1, <3>2
  <2>3. CASE pc[c] # "meta.json"
    BY <1>2, <1>t, <2>1, <2>3 DEF TypeOK
  <2> QED
    BY <2>2, <2>3
<1>3. ASSUME NEW c \in Calls, Upload(c) \/ CollideWithSelf(c)
      PROVE  Free(c) /\ UNCHANGED <<runs, markers>>
             /\ objects' = [objects EXCEPT ![KeyOf(c)][pc[c]] = c]
  BY <1>3 DEF Upload, CollideWithSelf
<1>4. ASSUME NEW c \in Calls, Step(c) \/ Abort(c), ~Upload(c), ~CollideWithSelf(c)
      PROVE  UNCHANGED objects
  BY <1>4 DEF Step, Collide, PutMarker, ClaimRun, ClaimTaken, ReadAttrs, ReadPlanned,
     ReadPlanning, Flip, FlipLost, FlipLostToSelf, Abort
<1> QED
  BY <1>1, <1>2, <1>3, <1>4 DEF Next

\* What one step does to the markers: nothing, or one more is written.
LEMMA MarkerStep ==
  ASSUME TypeInv, [Next]_vars
  PROVE  \/ UNCHANGED markers
         \/ \E m \in Markers :
              /\ {n \in Markers : markers'[n] # None}
                   = {n \in Markers : markers[n] # None} \cup {m}
              /\ UNCHANGED <<objects, runs>>
<1>t. TypeOK
  BY DEF TypeInv
<1>1. CASE UNCHANGED vars
  BY <1>1 DEF vars
<1>2. ASSUME NEW c \in Calls, PutMarker(c)
      PROVE  \E m \in Markers :
              /\ {n \in Markers : markers'[n] # None}
                   = {n \in Markers : markers[n] # None} \cup {m}
              /\ UNCHANGED <<objects, runs>>
  <2>1. MarkerOf(c) \in Markers /\ KeyOf(c) # None
    BY <1>t, CallTypes, NoneAssumption DEF Keys
  <2>2. \A n \in Markers : markers'[n] # None <=> (markers[n] # None \/ n = MarkerOf(c))
    BY <1>2, <1>t, <2>1 DEF PutMarker, TypeOK
  <2> QED
    BY <1>2, <2>1, <2>2 DEF PutMarker
<1>3. ASSUME NEW c \in Calls, Step(c) \/ Abort(c), ~PutMarker(c)
      PROVE  UNCHANGED markers
  BY <1>3 DEF Step, Upload, Collide, CollideWithSelf, ClaimRun, ClaimTaken, ReadAttrs,
     ReadPlanned, ReadPlanning, Flip, FlipLost, FlipLostToSelf, Abort
<1> QED
  BY <1>1, <1>2, <1>3 DEF Next

\* Every step of the staging calls is a step of the ledger or leaves it alone.
LEMMA StepRefines == ArtifactInv /\ RunInv /\ [Next]_vars => [L!Next]_(L!vars)
<1> SUFFICES ASSUME ArtifactInv, RunInv, [Next]_vars PROVE [L!Next]_(L!vars)
  OBVIOUS
<1> DEFINE Signed == [k \in Keys |-> objects[k]["meta.json"]]
           Status == [k \in Keys |-> runs[k].status]
           Announced == {m \in Markers : markers[m] # None}
<1>t. TypeInv /\ TypeOK /\ runs \in [Keys -> RunObject]
  BY DEF ArtifactInv, TypeInv, TypeOK
<1>k. L!Keys = Keys
  BY DEF L!Keys, Keys
<1>1. CASE \E k \in Keys, c \in Calls :
             /\ objects[k]["meta.json"] = None
             /\ \A j \in Keys : objects'[j]["meta.json"] =
                                IF j = k THEN c ELSE objects[j]["meta.json"]
             /\ UNCHANGED <<runs, markers>>
  <2>1. PICK k \in Keys, c \in Calls :
             /\ objects[k]["meta.json"] = None
             /\ \A j \in Keys : objects'[j]["meta.json"] =
                                IF j = k THEN c ELSE objects[j]["meta.json"]
             /\ UNCHANGED <<runs, markers>>
    BY <1>1
  <2>2. Signed' = [Signed EXCEPT ![k] = c]
    BY <2>1
  <2>3. L!Sign(k)
    BY <2>1, <2>2 DEF L!Sign
  <2> QED
    BY <2>3, <1>k DEF L!Next
<1>2. CASE \E m \in Markers : Announced' = Announced \cup {m} /\ UNCHANGED <<objects, runs>>
  <2>1. \E m \in Markers : L!Announce(m)
    BY <1>2 DEF L!Announce
  <2> QED
    BY <2>1 DEF L!Next, Markers
<1>3. CASE \E k \in Keys, pr \in PRs :
             /\ runs[k] = NoRun
             /\ runs' = [runs EXCEPT ![k] = [gen |-> 1, status |-> "planning", pr |-> pr]]
             /\ markers[<<pr, k[2]>>] # None
             /\ UNCHANGED <<objects, markers>>
  <2>1. PICK k \in Keys, pr \in PRs :
             /\ runs[k] = NoRun
             /\ runs' = [runs EXCEPT ![k] = [gen |-> 1, status |-> "planning", pr |-> pr]]
             /\ markers[<<pr, k[2]>>] # None
             /\ UNCHANGED <<objects, markers>>
    BY <1>3
  <2>a. Status[k] = "absent"
    BY <2>1 DEF NoRun
  <2>b. Status' = [Status EXCEPT ![k] = "planning"]
    BY <1>t, <2>1
  <2>3. <<pr, k[2]>> \in Announced
    BY <2>1 DEF Keys, Markers
  <2>4. L!Claim(k)
    BY <2>1, <2>a, <2>b, <2>3 DEF L!Claim
  <2> QED
    BY <2>4, <1>k DEF L!Next
<1>4. CASE \E k \in Keys :
             /\ runs[k].status = "planning" /\ runs[k].gen = 1
             /\ runs' = [runs EXCEPT ![k] =
                           [gen |-> 2, status |-> "planned", pr |-> runs[k].pr]]
             /\ UNCHANGED <<objects, markers>>
  <2>1. PICK k \in Keys :
             /\ runs[k].status = "planning"
             /\ runs' = [runs EXCEPT ![k] =
                           [gen |-> 2, status |-> "planned", pr |-> runs[k].pr]]
             /\ UNCHANGED <<objects, markers>>
    BY <1>4
  <2>2. Status[k] = "planning" /\ Status' = [Status EXCEPT ![k] = "planned"]
    BY <1>t, <2>1
  <2>3. L!Publish(k)
    BY <2>1, <2>2 DEF L!Publish
  <2> QED
    BY <2>3, <1>k DEF L!Next
<1>5. CASE UNCHANGED <<runs, markers>>
           /\ \A k \in Keys : objects'[k]["meta.json"] = objects[k]["meta.json"]
  BY <1>5 DEF L!vars
<1>6. CASE \A k \in Keys : objects'[k]["meta.json"] = objects[k]["meta.json"]
  <2>1. CASE UNCHANGED runs
    <3>1. CASE UNCHANGED markers
      BY <1>5, <1>6, <2>1, <3>1
    <3>2. CASE \E m \in Markers :
                 /\ {n \in Markers : markers'[n] # None}
                      = {n \in Markers : markers[n] # None} \cup {m}
                 /\ UNCHANGED <<objects, runs>>
      BY <1>2, <3>2
    <3> QED
      BY <1>t, <3>1, <3>2, MarkerStep
  <2> QED
    BY <1>3, <1>4, <2>1, RunStep
<1> QED
  BY <1>1, <1>6, SignStep

\* Concurrent staging, with any crashes and lost replies, implements the ledger.
THEOREM StagingImplementsLedger == Spec => ImplementsLedger
<1>1. Spec => [](ArtifactInv /\ RunInv)
  BY InitArtifactInv, NextArtifactInv, RunInvariant, PTL DEF Spec
<1> QED
  BY <1>1, InitRefines, StepRefines, PTL DEF Spec, ImplementsLedger, L!Spec
=============================================================================
