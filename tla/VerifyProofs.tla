---------------------------- MODULE VerifyProofs ----------------------------
(***************************************************************************)
(* Proofs about Verify, for any number of calls, verifications, keys,      *)
(* faults and replaced objects.                                            *)
(*                                                                         *)
(* A verification only reads, so ArtifactInv of StageProofs still holds,   *)
(* and an object that is written stays (Written).  What lies in place of   *)
(* an object was itself written, under this key or another (InsteadInv).   *)
(* Hence what was read as meta.json is still what its own key names, and   *)
(* that key is the one asked about unless the object was replaced          *)
(* (FoundInv); the tfplan beside it was there first, by the same call.     *)
(***************************************************************************)
EXTENDS Verify, StageProofs

\* A call that is past its uploads without a collision has uploaded meta.json.
StagedInv ==
  \A c \in Calls : (pc[c] \in PastMarker \cup {"marker"} /\ ~hit[c]) => Complete(KeyOf(c))

MetaRead == {"key", "plan"} \cup Remote \cup RemoteVerdicts
            \cup {"undecodable", "bad_signature", "inapplicable_kind", "no_plan", "plan_sha"}
MetaChecked == {"plan"} \cup Remote \cup RemoteVerdicts

\* What lies in place of an object, which is there as well, a call wrote under its key.
InsteadInv ==
  \A k \in Keys, n \in {"meta.json", "tfplan"} : Replaced(k, n) =>
    LET c == instead[k][n].by
    IN /\ objects[k][n] # None
       /\ c \in Calls /\ objects[KeyOf(c)][n] = c

\* What each location says of the contents read so far.
FoundAt(v) ==
  LET c == meta[v].by
      Own == KeyOf(c) = asked[v]
  IN /\ vpc[v] \in MetaRead => /\ c \in Calls /\ objects[KeyOf(c)]["meta.json"] = c
                               /\ Own \/ Replaced(asked[v], "meta.json")
     /\ vpc[v] = "key" => meta[v].flaw # "undecodable"
     /\ vpc[v] \in MetaChecked => meta[v].flaw = Whole
     /\ meta[v].flaw # Whole => Replaced(asked[v], "meta.json")
     /\ Trusted(v) => tfplan[v] = meta[v] /\ (Own \/ Replaced(asked[v], "tfplan"))
     /\ vpc[v] \in Based => SameBase(v)
FoundInv == \A v \in Verifications : FoundAt(v)

VInv == ArtifactInv /\ StagedInv /\ VTypeOK /\ InsteadInv /\ FoundInv /\ RefusedHasCause

-----------------------------------------------------------------------------
(* The bucket *)

\* A name that is taken keeps its object, whoever writes.
LEMMA Written ==
  ASSUME ArtifactInv, [Next]_vars,
         NEW k \in Keys, NEW n \in Names, objects[k][n] # None
  PROVE  objects'[k][n] = objects[k][n]
<1>1. CASE UNCHANGED vars
  BY <1>1 DEF vars
<1>2. ASSUME NEW c \in Calls, Step(c) \/ Abort(c) PROVE objects'[k][n] = objects[k][n]
  <2>1. CASE Upload(c) \/ CollideWithSelf(c)
    <3>1. Free(c) /\ objects' = [objects EXCEPT ![KeyOf(c)][pc[c]] = c]
      BY <2>1 DEF Upload, CollideWithSelf
    <3> QED
      BY <3>1 DEF Free, ArtifactInv, TypeInv, TypeOK
  <2>2. CASE ~Upload(c) /\ ~CollideWithSelf(c)
    BY <1>2, <2>2 DEF Step, Collide, PutMarker, ClaimRun, ClaimTaken, ReadAttrs,
       ReadPlanned, ReadPlanning, Flip, FlipLost, FlipLostToSelf, Abort
  <2> QED
    BY <2>1, <2>2
<1> QED
  BY <1>1, <1>2 DEF Next

\* Beside a meta.json lies the tfplan of the same call, which staged that key.
LEMMA Beside ==
  ASSUME ArtifactInv, NEW k \in Keys, objects[k]["meta.json"] # None
  PROVE  /\ objects[k]["tfplan"] = objects[k]["meta.json"]
         /\ objects[k]["meta.json"] \in Calls
         /\ KeyOf(objects[k]["meta.json"]) = k
<1>1. objects[k]["tfplan"] # None
  BY DEF ArtifactInv, PrefixInv, Before, Names
<1> QED
  BY <1>1 DEF ArtifactInv, OneAuthor, TypeInv, TypeOK, Names

\* What a call is asked to stage, and so its key, stays.
LEMMA SameKeys == [Next]_vars => UNCHANGED in
  BY DEF vars, Next, Step, Upload, Collide, CollideWithSelf, PutMarker, ClaimRun, ClaimTaken,
     ReadAttrs, ReadPlanned, ReadPlanning, Flip, FlipLost, FlipLostToSelf, Abort

\* What a call of the key wrote is still there, and is still of the key.
LEMMA WrittenByCall ==
  ASSUME ArtifactInv, [Next]_vars,
         NEW c \in Calls, NEW n \in {"meta.json", "tfplan"}, objects[KeyOf(c)][n] = c
  PROVE  KeyOf(c)' = KeyOf(c) /\ (objects[KeyOf(c)][n] = c)'
<1>1. KeyOf(c) \in Keys /\ n \in Names /\ c # None
  BY CallTypes, NoneAssumption DEF ArtifactInv, TypeInv, Names
<1>2. KeyOf(c)' = KeyOf(c)
  BY SameKeys DEF KeyOf
<1> QED
  BY <1>1, <1>2, Written

\* The calls of Stage keep StagedInv.
LEMMA NextStagedInv == ArtifactInv /\ StagedInv /\ [Next]_vars => StagedInv'
<1> SUFFICES ASSUME ArtifactInv, StagedInv, [Next]_vars,
                    NEW d \in Calls, pc'[d] \in PastMarker \cup {"marker"}, ~hit'[d]
             PROVE  Complete(KeyOf(d))'
  BY DEF StagedInv
<1>t. TypeOK /\ TypeOK' /\ KeyOf(d) \in Keys /\ KeyOf(d)' = KeyOf(d)
  <2>1. TypeOK /\ TypeOK'
    BY NextTypeInv DEF ArtifactInv, TypeInv
  <2> QED
    BY <2>1, SameKeys, CallTypes DEF KeyOf
<1>1. CASE Complete(KeyOf(d))
  BY <1>1, <1>t, Written DEF Complete, Names
<1>2. CASE ~Complete(KeyOf(d))
  <2>1. ~(pc[d] \in PastMarker \cup {"marker"} /\ ~hit[d])
    BY <1>2 DEF StagedInv
  <2>2. PICK c \in Calls : Step(c) \/ Abort(c)
    BY <2>1 DEF Next, vars
  <2>3. CASE Upload(c)
    <3>1. d = c /\ pc[c] = "meta.json"
      BY <2>1, <2>3, <1>t DEF Upload, Free, Goto, After, TypeOK, PastMarker, Names
    <3> QED
      BY <2>3, <3>1, <1>t, NoneAssumption DEF Upload, Complete, TypeOK, Names
  <2>4. CASE Collide(c) \/ CollideWithSelf(c)
    BY <2>1, <2>4, <1>t DEF Collide, CollideWithSelf, Goto, TypeOK
  <2>5. CASE ~Upload(c) /\ ~Collide(c) /\ ~CollideWithSelf(c)
    <3>1. hit' = hit
      BY <2>2, <2>5 DEF Step, PutMarker, ClaimRun, ClaimTaken, ReadAttrs,
         ReadPlanned, ReadPlanning, Flip, FlipLost, FlipLostToSelf, Abort
    <3>2. pc'[d] \in PastMarker \cup {"marker"} => pc[d] \in PastMarker \cup {"marker"}
      BY <2>2, <2>5, <1>t DEF Step, PutMarker, ClaimRun, ClaimTaken, ReadAttrs,
         ReadPlanned, ReadPlanning, Flip, FlipLost, FlipLostToSelf, Abort, Goto, TypeOK, PastMarker
    <3> QED
      BY <2>1, <3>1, <3>2
  <2> QED
    BY <2>2, <2>3, <2>4, <2>5
<1> QED
  BY <1>1, <1>2

-----------------------------------------------------------------------------
(* The verifications *)

LEMMA InitVInv == VInit => VInv
<1> SUFFICES ASSUME VInit PROVE VInv
  OBVIOUS
<1>1. ArtifactInv /\ TypeOK
  BY InitArtifactInv DEF VInit, ArtifactInv, TypeInv
<1>2. StagedInv
  BY DEF VInit, Init, StagedInv, PastMarker
<1>3. VTypeOK
  BY <1>1, ReplacedAssumption
  DEF VInit, VTypeOK, Local, Unfetched, Content, Whole, MetaContents, PlanContents
<1>4. InsteadInv
  BY DEF VInit, InsteadInv, Replaced, Unfetched, Content
<1>5. FoundInv /\ RefusedHasCause
  BY DEF VInit, FoundInv, FoundAt, RefusedHasCause, MetaRead, MetaChecked, Trusted, Remote,
     RemoteVerdicts, Based, Unfetched, Content
<1> QED
  BY <1>1, <1>2, <1>3, <1>4, <1>5 DEF VInv

\* What is read of an object has the type of a content.
LEMMA ReadTypes ==
  ASSUME VTypeOK, NEW v \in Verifications
  PROVE  Read(v, "meta.json") \in MetaContents /\ Read(v, "tfplan") \in PlanContents
<1>1. asked[v] \in Keys
  BY DEF VTypeOK
<1>2. \A n \in Names : objects[asked[v]][n] \in Calls \cup {None}
  BY <1>1 DEF VTypeOK, TypeOK
<1>3. /\ instead[asked[v]]["meta.json"] \in MetaContents
      /\ instead[asked[v]]["tfplan"] \in PlanContents
  BY <1>1 DEF VTypeOK
<1> QED
  BY <1>2, <1>3 DEF Read, Lying, Content, MetaContents, PlanContents, Names

\* What lies under a name of a key a call wrote there, or under its own key if the
\* object was replaced; nothing does only if the key has no such object.
LEMMA LyingWritten ==
  ASSUME ArtifactInv, VTypeOK, InsteadInv, NEW k \in Keys, NEW n \in {"meta.json", "tfplan"},
         objects[k]["meta.json"] # None
  PROVE  LET c == Lying(k, n).by
         IN /\ c \in Calls /\ objects[KeyOf(c)][n] = c
            /\ ~Replaced(k, n) =>
                 KeyOf(c) = k /\ Lying(k, n) = Content(objects[k]["meta.json"], Whole)
<1>1. CASE Replaced(k, n)
  BY <1>1 DEF InsteadInv, Lying
<1>2. CASE ~Replaced(k, n)
  <2>1. Lying(k, n) = Content(objects[k]["meta.json"], Whole)
    BY <1>2, Beside DEF Lying
  <2>2. Lying(k, n).by = objects[k]["meta.json"]
    BY <2>1 DEF Content
  <2> QED
    BY <2>1, <2>2, Beside
<1> QED
  BY <1>1, <1>2

\* A key with a meta.json read from it has one.
LEMMA ReadWritten ==
  ASSUME VInv, NEW v \in Verifications, vpc[v] \in MetaRead
  PROVE  asked[v] \in Keys /\ objects[asked[v]]["meta.json"] # None
<1>1. asked[v] \in Keys
  BY DEF VInv, VTypeOK
<1>2. CASE Replaced(asked[v], "meta.json")
  BY <1>1, <1>2 DEF VInv, InsteadInv
<1>3. CASE ~Replaced(asked[v], "meta.json")
  BY <1>1, <1>3, NoneAssumption DEF VInv, FoundInv, FoundAt
<1> QED
  BY <1>1, <1>2, <1>3

\* A step of the calls leaves every verification where it is, and what it found there.
LEMMA StageKeepsVInv ==
  ASSUME VInv, [Next]_vars, UNCHANGED vvars
  PROVE  VInv'
<1>1. ArtifactInv' /\ StagedInv'
  BY NextArtifactInv, NextStagedInv DEF VInv
<1>2. VTypeOK'
  BY <1>1 DEF VInv, ArtifactInv, TypeInv, VTypeOK, vvars
<1>3. InsteadInv'
  <2> SUFFICES ASSUME NEW k \in Keys, NEW n \in {"meta.json", "tfplan"}, Replaced(k, n)
               PROVE  /\ objects'[k][n] # None
                      /\ instead[k][n].by \in Calls
                      /\ (objects[KeyOf(instead[k][n].by)][n] = instead[k][n].by)'
    BY DEF InsteadInv, Replaced, vvars
  <2>1. /\ objects[k][n] # None
        /\ instead[k][n].by \in Calls
        /\ objects[KeyOf(instead[k][n].by)][n] = instead[k][n].by
    BY DEF VInv, InsteadInv
  <2>2. objects'[k][n] # None
    BY <2>1, Written DEF VInv, Names
  <2> DEFINE c == instead[k][n].by
  <2>3. c' = c
    BY DEF vvars
  <2> HIDE DEF c
  <2>4. (objects[KeyOf(c)][n] = c)'
    <3>1. c \in Calls /\ objects[KeyOf(c)][n] = c
      BY <2>1 DEF c
    <3>2. KeyOf(c) \in Keys /\ n \in Names /\ c # None
      BY <3>1, CallTypes, NoneAssumption DEF VInv, ArtifactInv, TypeInv, Names
    <3>3. objects'[KeyOf(c)][n] = c
      BY <3>1, <3>2, Written DEF VInv
    <3>4. KeyOf(c)' = KeyOf(c)
      BY <2>3, SameKeys DEF KeyOf
    <3> QED
      BY <2>3, <3>3, <3>4
  <2> QED
    BY <2>1, <2>2, <2>4 DEF c
<1>4. FoundInv'
  <2>1. \A v \in Verifications : vpc[v] \in MetaRead =>
           objects'[KeyOf(meta[v].by)]["meta.json"] = objects[KeyOf(meta[v].by)]["meta.json"]
    <3> SUFFICES ASSUME NEW v \in Verifications, vpc[v] \in MetaRead
                 PROVE  objects'[KeyOf(meta[v].by)]["meta.json"]
                          = objects[KeyOf(meta[v].by)]["meta.json"]
      OBVIOUS
    <3>1. meta[v].by \in Calls /\ objects[KeyOf(meta[v].by)]["meta.json"] = meta[v].by
      BY DEF VInv, FoundInv, FoundAt
    <3>2. KeyOf(meta[v].by) \in Keys /\ meta[v].by # None
      BY <3>1, CallTypes, NoneAssumption DEF VInv, ArtifactInv, TypeInv
    <3> QED
      BY <3>1, <3>2, Written DEF VInv, Names
  <2>2. UNCHANGED in
    BY SameKeys
  <2> QED
    BY <2>1, <2>2 DEF VInv, FoundInv, FoundAt, vvars, Trusted, Replaced, SameBase, KeyOf
<1>5. RefusedHasCause'
  BY DEF VInv, RefusedHasCause, vvars, Replaced
<1> QED
  BY <1>1, <1>2, <1>3, <1>4, <1>5 DEF VInv

\* What may come to lie in place of an object has its type, and was written.
LEMMA InPlaceWritten ==
  ASSUME VInv, NEW k \in Keys, NEW n \in {"meta.json", "tfplan"},
         objects[k][n] # None, NEW x \in Flawed(k, n) \cup Foreign(k, n)
  PROVE  /\ n = "meta.json" => x \in MetaContents
         /\ n = "tfplan" => x \in PlanContents
         /\ x.by \in Calls /\ objects[KeyOf(x.by)][n] = x.by
<1>1. PICK j \in Keys : objects[j][n] # None /\ x.by = objects[j][n]
  BY DEF Flawed, Foreign, Content
<1>2. objects[j][n] \in Calls /\ KeyOf(objects[j][n]) = j
  BY <1>1 DEF VInv, ArtifactInv, OneAuthor, TypeInv, TypeOK, Names
<1>3. /\ x \in [by : {x.by}, flaw : MetaFlaws \cup {Whole, "other_bytes"}]
      /\ n = "meta.json" => x.flaw \in MetaFlaws \cup {Whole}
      /\ n = "tfplan" => x.flaw \in {"other_bytes", Whole}
  BY DEF Flawed, Foreign, Content, MetaFlaws, Whole
<1> QED
  BY <1>1, <1>2, <1>3 DEF MetaContents, PlanContents

\* A replaced object is one more cause.
LEMMA ReplaceKeepsVInv ==
  ASSUME VInv, NEW k \in Keys, NEW n \in {"meta.json", "tfplan"},
         NEW x \in Flawed(k, n) \cup Foreign(k, n), Replace(k, n, x)
  PROVE  VInv'
<1>1. ArtifactInv' /\ StagedInv'
  BY NextArtifactInv, NextStagedInv DEF VInv, Replace
<1>x. /\ n = "meta.json" => x \in MetaContents
      /\ n = "tfplan" => x \in PlanContents
      /\ x.by \in Calls /\ objects[KeyOf(x.by)][n] = x.by /\ x.by # None
  BY InPlaceWritten, NoneAssumption DEF Replace
<1>2. \A j \in Keys : \A m \in {"meta.json", "tfplan"} :
        instead'[j][m] = IF j = k /\ m = n THEN x ELSE instead[j][m]
  BY DEF VInv, VTypeOK, Replace
<1>3. VTypeOK'
  <2>1. instead' \in [Keys -> [{"meta.json", "tfplan"} -> MetaContents \cup PlanContents]]
    BY <1>x DEF VInv, VTypeOK, Replace
  <2>2. replaced' \in 0..MaxReplaced
    BY ReplacedAssumption DEF VInv, VTypeOK, Replace
  <2>3. \A j \in Keys : /\ instead'[j]["meta.json"] \in MetaContents
                        /\ instead'[j]["tfplan"] \in PlanContents
    BY <1>x, <1>2 DEF VInv, VTypeOK
  <2> QED
    BY <1>1, <2>1, <2>2, <2>3 DEF VInv, VTypeOK, Replace, ArtifactInv, TypeInv
<1>4. \A j \in Keys : \A m \in {"meta.json", "tfplan"} : Replaced(j, m) => Replaced(j, m)'
  BY <1>x, <1>2 DEF Replaced
<1>5. InsteadInv'
  <2> SUFFICES ASSUME NEW j \in Keys, NEW m \in {"meta.json", "tfplan"}, Replaced(j, m)'
               PROVE  /\ objects[j][m] # None
                      /\ instead'[j][m].by \in Calls
                      /\ objects[KeyOf(instead'[j][m].by)][m] = instead'[j][m].by
    BY DEF InsteadInv, Replace, vars, KeyOf
  <2>1. CASE j = k /\ m = n
    BY <2>1, <1>x, <1>2 DEF Replace
  <2>2. CASE ~(j = k /\ m = n)
    BY <2>2, <1>2 DEF VInv, InsteadInv, Replaced
  <2> QED
    BY <2>1, <2>2
<1>6. \A v \in Verifications : \A m \in {"meta.json", "tfplan"} :
        Replaced(asked[v], m) => Replaced(asked[v], m)'
  BY <1>4 DEF VInv, VTypeOK, Replace, Replaced
<1>7. FoundInv'
  BY <1>6 DEF VInv, FoundInv, FoundAt, Replace, vars, Trusted, SameBase, KeyOf
<1>8. RefusedHasCause'
  BY <1>6 DEF VInv, RefusedHasCause, Replace
<1> QED
  BY <1>1, <1>3, <1>5, <1>7, <1>8 DEF VInv

VLocations == Local \cup Remote \cup Verdicts

\* A step of a verification moves it alone, to a location that the contents it has
\* read by then justify.
LEMMA VStepKeepsVInv ==
  ASSUME VInv, NEW v \in Verifications, VStep(v)
  PROVE  VInv'
<1>f. VFrame /\ UNCHANGED <<objects, in, asked, instead>>
  BY DEF VFrame, vars, VStep, FetchMeta, CheckSignature, NoPublicKey, FetchPlan, ReadPull, ReadParents,
     ReadTree, ReadConfig, Reply, RequestFails
<1>1. ArtifactInv' /\ StagedInv'
  BY <1>f, NextArtifactInv, NextStagedInv DEF VInv, VFrame
<1>k. asked[v] \in Keys
  BY DEF VInv, VTypeOK
<1>2. PICK l \in VLocations : vpc' = [vpc EXCEPT ![v] = l]
  BY DEF VStep, VGoto, FetchMeta, CheckSignature, NoPublicKey, FetchPlan, ReadPull, ReadParents,
     ReadTree, ReadConfig, Reply, RequestFails, VLocations, Local, Remote, Verdicts,
     LocalVerdicts, RemoteVerdicts
<1>3. /\ meta' \in [Verifications -> MetaContents]
      /\ tfplan' \in [Verifications -> PlanContents]
      /\ keyless' \subseteq Verifications
  BY ReadTypes DEF VInv, VTypeOK, VStep, FetchMeta, CheckSignature, NoPublicKey, FetchPlan,
     ReadPull, ReadParents, ReadTree, ReadConfig, Reply, RequestFails
<1>4. VTypeOK'
  BY <1>f, <1>1, <1>2, <1>3 DEF VInv, VTypeOK, VFrame, VLocations, ArtifactInv, TypeInv
<1>5. \A u \in Verifications : u # v =>
        /\ vpc'[u] = vpc[u] /\ meta'[u] = meta[u] /\ tfplan'[u] = tfplan[u]
        /\ u \in keyless => u \in keyless'
  BY <1>2 DEF VInv, VTypeOK, VStep, FetchMeta, CheckSignature, NoPublicKey, FetchPlan,
     ReadPull, ReadParents, ReadTree, ReadConfig, Reply, RequestFails
<1>6. vpc'[v] = l
  BY <1>2 DEF VInv, VTypeOK
<1>7. InsteadInv'
  BY <1>f DEF VInv, InsteadInv, Replaced, KeyOf
<1> DEFINE c == meta'[v].by
           Spoilt(n) == Replaced(asked[v], n)
           Own == KeyOf(c) = asked[v]
           Same == BaseOf[KeyOf(c)[2]] = BaseOf[asked[v][2]]
           Found == /\ l \in MetaRead => /\ c \in Calls /\ objects[KeyOf(c)]["meta.json"] = c
                                         /\ Own \/ Spoilt("meta.json")
                    /\ l = "key" => meta'[v].flaw # "undecodable"
                    /\ l \in MetaChecked => meta'[v].flaw = Whole
                    /\ meta'[v].flaw # Whole => Spoilt("meta.json")
                    /\ l \in Remote \cup RemoteVerdicts =>
                         tfplan'[v] = meta'[v] /\ (Own \/ Spoilt("tfplan"))
                    /\ l \in Based => Same
           Cause == /\ l # "no_plan"
                    /\ l \in {"undecodable", "inapplicable_kind"} => Spoilt("meta.json")
                    /\ l = "bad_signature" => Spoilt("meta.json") \/ v \in keyless'
                    /\ l = "plan_sha" => Spoilt("meta.json") \/ Spoilt("tfplan")
<1> USE DEF MetaRead, MetaChecked, Local, Remote, RemoteVerdicts, Based, Whole
<1>8. Found /\ Cause
  <2>1. CASE FetchMeta(v)
    <3>1. meta'[v] = Lying(asked[v], "meta.json")
      BY <2>1 DEF FetchMeta, Read, VInv, VTypeOK
    <3>2. l = IF c = None THEN "no_meta"
              ELSE IF meta'[v].flaw = "undecodable" THEN "undecodable" ELSE "key"
      BY <2>1, <1>6 DEF FetchMeta, VGoto, VInv, VTypeOK
    <3>3. meta'[v].flaw # Whole => Spoilt("meta.json")
      BY <3>1 DEF Lying, Content
    <3>4. CASE c = None
      BY <3>2, <3>3, <3>4
    <3>5. CASE c # None
      <4>1. objects[asked[v]]["meta.json"] # None
        BY <1>k, <3>1, <3>5 DEF Lying, Content, VInv, InsteadInv
      <4>2. /\ c \in Calls /\ objects[KeyOf(c)]["meta.json"] = c
            /\ Own \/ Spoilt("meta.json")
        BY <1>k, <3>1, <4>1, LyingWritten DEF VInv
      <4> QED
        BY <3>2, <3>3, <4>2
    <3> QED
      BY <3>4, <3>5
  <2>2. CASE CheckSignature(v)
    <3>1. meta' = meta /\ vpc[v] = "key"
      BY <2>2 DEF CheckSignature
    <3>2. l = IF meta[v].flaw = "unsigned" THEN "bad_signature"
              ELSE IF meta[v].flaw = "unfit" THEN "inapplicable_kind" ELSE "plan"
      BY <2>2, <1>6 DEF CheckSignature, VGoto, SignatureHolds, Validate, VInv, VTypeOK
    <3>3. meta[v].flaw \in MetaFlaws \cup {Whole}
      BY DEF VInv, VTypeOK, MetaContents
    <3> QED
      BY <3>1, <3>2, <3>3 DEF VInv, FoundInv, FoundAt, MetaFlaws
  <2>3. CASE NoPublicKey(v)
    <3>1. meta' = meta /\ vpc[v] = "key" /\ l = "bad_signature" /\ v \in keyless'
      BY <2>3, <1>6 DEF NoPublicKey, VGoto, VInv, VTypeOK
    <3> QED
      BY <3>1 DEF VInv, FoundInv, FoundAt
  <2>4. CASE FetchPlan(v)
    <3>1. meta' = meta /\ vpc[v] = "plan" /\ tfplan'[v] = Lying(asked[v], "tfplan")
      BY <2>4 DEF FetchPlan, Read, VInv, VTypeOK
    <3>2. l = IF tfplan'[v].by = None THEN "no_plan"
              ELSE IF ~DigestHolds(meta[v], tfplan'[v]) THEN "plan_sha" ELSE "pull"
      BY <2>4, <1>6 DEF FetchPlan, VGoto, VInv, VTypeOK
    <3>3. /\ c \in Calls /\ objects[KeyOf(c)]["meta.json"] = c
          /\ Own \/ Spoilt("meta.json")
          /\ meta'[v].flaw = Whole
      BY <3>1 DEF VInv, FoundInv, FoundAt
    <3>4. meta'[v] = Content(c, Whole)
      BY <3>1, <3>3 DEF VInv, VTypeOK, MetaContents, Content
    <3>5. objects[asked[v]]["meta.json"] # None
      BY <3>1, ReadWritten
    <3>6. /\ tfplan'[v].by # None
          /\ ~Spoilt("tfplan") => /\ KeyOf(tfplan'[v].by) = asked[v]
                                  /\ tfplan'[v] = Content(objects[asked[v]]["meta.json"], Whole)
      BY <1>k, <3>1, <3>5, LyingWritten, NoneAssumption DEF VInv
    <3>7. CASE DigestHolds(meta[v], tfplan'[v])
      <4>1. l = "pull" /\ tfplan'[v] = meta'[v]
        BY <3>1, <3>2, <3>4, <3>6, <3>7 DEF DigestHolds
      <4> QED
        BY <3>3, <3>6, <4>1
    <3>8. CASE ~DigestHolds(meta[v], tfplan'[v])
      <4>1. l = "plan_sha"
        BY <3>2, <3>6, <3>8
      <4>2. Spoilt("meta.json") \/ Spoilt("tfplan")
        BY <3>1, <3>3, <3>6, <3>8 DEF DigestHolds
      <4> QED
        BY <3>3, <4>1, <4>2
    <3> QED
      BY <3>7, <3>8
  <2>5. CASE ReadPull(v) \/ ReadParents(v) \/ ReadTree(v) \/ ReadConfig(v)
    <3>1. /\ meta' = meta /\ tfplan' = tfplan /\ vpc[v] \in Remote
          /\ l \in Remote \cup RemoteVerdicts
      BY <2>5, <1>6 DEF ReadPull, ReadParents, ReadTree, ReadConfig, Reply, VGoto, VInv, VTypeOK
    <3>2. /\ c \in Calls /\ objects[KeyOf(c)]["meta.json"] = c
          /\ Own \/ Spoilt("meta.json")
          /\ meta[v].flaw = Whole /\ tfplan[v] = meta[v] /\ (Own \/ Spoilt("tfplan"))
      BY <3>1 DEF VInv, FoundInv, FoundAt, Trusted
    <3>3. l \in Based => Same
      <4>1. CASE ReadPull(v)
        <5>1. l \in {IF SameBase(v) THEN "parents" ELSE "base_moved", "not_merged"}
          BY <4>1, <1>6 DEF ReadPull, Reply, VGoto, VInv, VTypeOK
        <5> QED
          BY <3>1, <5>1 DEF SameBase
      <4>2. CASE ReadParents(v) \/ ReadTree(v) \/ ReadConfig(v)
        <5>1. vpc[v] \in Based
          BY <4>2 DEF ReadParents, ReadTree, ReadConfig, Reply
        <5> QED
          BY <3>1, <5>1 DEF VInv, FoundInv, FoundAt, SameBase
      <4> QED
        BY <2>5, <4>1, <4>2
    <3> QED
      BY <3>1, <3>2, <3>3
  <2>6. CASE RequestFails(v)
    <3>1. meta' = meta /\ l = "error"
      BY <2>6, <1>6 DEF RequestFails, VGoto, VInv, VTypeOK
    <3> QED
      BY <3>1 DEF VInv, FoundInv, FoundAt
  <2> QED
    BY <2>1, <2>2, <2>3, <2>4, <2>5, <2>6 DEF VStep
<1>9. FoundInv'
  <2>1. FoundAt(v)'
    BY <1>f, <1>6, <1>8 DEF FoundAt, Trusted, Replaced, SameBase, KeyOf
  <2>2. \A u \in Verifications : u # v => FoundAt(u)'
    <3>1. \A u \in Verifications : FoundAt(u)
      BY DEF VInv, FoundInv
    <3> QED
      BY <1>f, <1>5, <3>1 DEF FoundAt, Trusted, Replaced, SameBase, KeyOf
  <2> QED
    BY <2>1, <2>2 DEF FoundInv
<1>10. RefusedHasCause'
  BY <1>f, <1>5, <1>6, <1>8 DEF VInv, RefusedHasCause, Replaced
<1> QED
  BY <1>1, <1>4, <1>7, <1>9, <1>10 DEF VInv

LEMMA NextVInv == VInv /\ [VNext]_allvars => VInv'
<1> SUFFICES ASSUME VInv, [VNext]_allvars PROVE VInv'
  OBVIOUS
<1>1. CASE UNCHANGED allvars
  BY <1>1, StageKeepsVInv DEF allvars
<1>2. CASE Next /\ UNCHANGED vvars
  BY <1>2, StageKeepsVInv
<1>3. CASE \E v \in Verifications : VStep(v)
  BY <1>3, VStepKeepsVInv
<1>4. ASSUME NEW k \in Keys, NEW n \in {"meta.json", "tfplan"},
             NEW x \in Flawed(k, n) \cup Foreign(k, n), Replace(k, n, x)
      PROVE  VInv'
  BY <1>4, ReplaceKeepsVInv
<1> QED
  BY <1>1, <1>2, <1>3, <1>4 DEF VNext

LEMMA VInvariant == VSpec => []VInv
  BY InitVInv, NextVInv, PTL DEF VSpec

-----------------------------------------------------------------------------

\* Every variable keeps its type while calls and verifications run together.
THEOREM VTypeCorrect == VSpec => []VTypeOK
<1>1. VInv => VTypeOK
  BY DEF VInv
<1> QED
  BY <1>1, VInvariant, PTL

\* GitHub is only asked about a meta.json and a tfplan that one call of Stage wrote,
\* for the key in question unless both objects of that key were replaced, and then
\* for its base at least if the verification gets past the comparison.
THEOREM TrustedPlansAreWhole == VSpec => []TrustedIsOnePlan
<1>1. VInv => TrustedIsOnePlan
  <2> SUFFICES ASSUME VInv, NEW v \in Verifications, Trusted(v)
               PROVE  /\ meta[v].by \in Calls /\ meta[v].flaw = Whole
                      /\ tfplan[v] = meta[v]
                      /\ KeyOf(meta[v].by) # asked[v] => SetReplaced(asked[v])
                      /\ vpc[v] \in Based => SameBase(v)
    BY DEF TrustedIsOnePlan
  <2>1. vpc[v] \in MetaRead /\ vpc[v] \in MetaChecked
    BY DEF Trusted, MetaRead, MetaChecked
  <2> QED
    BY <2>1 DEF VInv, FoundInv, FoundAt, SetReplaced
<1> QED
  BY <1>1, VInvariant, PTL

\* A set that is being written is never taken for a broken one.
THEOREM RefusalsHaveCauses == VSpec => []RefusedHasCause
<1>1. VInv => RefusedHasCause
  BY DEF VInv
<1> QED
  BY <1>1, VInvariant, PTL

\* Two verifications of one key judge the same plan, at any two times, unless both
\* objects of the key were replaced.
THEOREM VerdictsAreOfOnePlan == VSpec => []VerdictsAgree
<1>1. VInv => VerdictsAgree
  <2> SUFFICES ASSUME VInv, NEW v \in Verifications, NEW u \in Verifications,
                      Trusted(v), Trusted(u), asked[v] = asked[u], ~SetReplaced(asked[v])
               PROVE  meta[v] = meta[u]
    BY DEF VerdictsAgree
  <2>1. \A w \in {v, u} : meta[w].by = objects[asked[v]]["meta.json"] /\ meta[w].flaw = Whole
    BY DEF VInv, FoundInv, FoundAt, SetReplaced, Trusted, MetaRead, MetaChecked
  <2> QED
    BY <2>1 DEF VInv, VTypeOK, MetaContents
<1> QED
  BY <1>1, VInvariant, PTL

\* What was reported as staged is found from then on.
THEOREM StagedPlansAreFound == VSpec => StagedIsFound
<1> DEFINE A == \A v \in Verifications : (vpc[v] = "meta" /\ vpc'[v] = "no_meta") =>
                  \A c \in Calls : (KeyOf(c) = asked[v] /\ pc[c] = "done") => hit[c]
<1>1. VInv /\ [VNext]_allvars => [A]_allvars
  <2> SUFFICES ASSUME VInv, VNext, NEW v \in Verifications, vpc[v] = "meta", vpc'[v] = "no_meta",
                      NEW c \in Calls, KeyOf(c) = asked[v], pc[c] = "done"
               PROVE  hit[c]
    BY DEF allvars
  <2>1. FetchMeta(v)
    <3>1. PICK u \in Verifications : VStep(u)
      BY DEF VNext, vvars, Replace
    <3>2. u = v
      BY <3>1 DEF VStep, FetchMeta, CheckSignature, NoPublicKey, FetchPlan, ReadPull, ReadParents,
         ReadTree, ReadConfig, Reply, RequestFails, VGoto, VInv, VTypeOK
    <3> QED
      BY <3>1, <3>2 DEF VStep, CheckSignature, NoPublicKey, FetchPlan, ReadPull, ReadParents,
         ReadTree, ReadConfig, Reply, RequestFails, VGoto, VInv, VTypeOK
  <2>2. objects[asked[v]]["meta.json"] = None
    <3>1. Lying(asked[v], "meta.json").by = None
      BY <2>1 DEF FetchMeta, VGoto, Read, VInv, VTypeOK
    <3> QED
      BY <3>1 DEF Lying, Replaced, Content
  <2> QED
    BY <2>2 DEF VInv, StagedInv, Complete, PastMarker, ArtifactInv, TypeInv, TypeOK
<1>2. []VInv /\ [][VNext]_allvars => [][A]_allvars
  BY <1>1, PTL
<1> QED
  BY <1>2, VInvariant, PTL DEF VSpec, StagedIsFound

-----------------------------------------------------------------------------
(* Refinement of PlanStore *)

SignedPlans ==
  {<<k, Content(objects[k]["meta.json"], Whole)>> : k \in {k \in Keys : objects[k]["meta.json"] # None}}
Own(v) == KeyOf(meta[v].by) = asked[v]
FoundPlans ==
  [v \in Verifications |-> IF Trusted(v) /\ Own(v) THEN tfplan[v] ELSE Unfetched]

LEMMA InitRefinesStore == VInit => S!Init
  BY DEF VInit, Init, S!Init, Names, Trusted, Remote, RemoteVerdicts, Unfetched

\* A step of the calls signs one more key, or none.
LEMMA StageRefinesStore ==
  ASSUME VInv, [Next]_vars, UNCHANGED vvars
  PROVE  [S!Next]_(S!vars)
<1>1. FoundPlans' = FoundPlans /\ asked' = asked
  BY SameKeys DEF vvars, FoundPlans, Trusted, Own, KeyOf
<1>2. CASE \A k \in Keys : objects'[k]["meta.json"] = objects[k]["meta.json"]
  <2>1. SignedPlans' = SignedPlans
    BY <1>2 DEF SignedPlans
  <2> QED
    BY <1>1, <2>1 DEF S!vars, SignedPlans, FoundPlans, Own
<1>3. CASE \E k \in Keys, c \in Calls :
             /\ objects[k]["meta.json"] = None
             /\ \A j \in Keys : objects'[j]["meta.json"] =
                                IF j = k THEN c ELSE objects[j]["meta.json"]
  <2>1. PICK k \in Keys, c \in Calls :
               /\ objects[k]["meta.json"] = None
               /\ \A j \in Keys : objects'[j]["meta.json"] =
                                  IF j = k THEN c ELSE objects[j]["meta.json"]
    BY <1>3
  <2> DEFINE p == Content(c, Whole)
  <2>2. k \in Keys /\ p \in {Content(d, Whole) : d \in Calls} /\ c # None
    BY NoneAssumption
  <2>3. \A s \in SignedPlans : s[1] # k
    BY <2>1 DEF SignedPlans
  <2>4. SignedPlans' = SignedPlans \cup {<<k, p>>}
    <3>1. {j \in Keys : objects'[j]["meta.json"] # None}
            = {j \in Keys : objects[j]["meta.json"] # None} \cup {k}
      BY <2>1, <2>2
    <3> QED
      BY <2>1, <3>1 DEF SignedPlans
  <2> HIDE DEF p
  <2>5. S!Sign(k, p)
    BY <1>1, <2>2, <2>3, <2>4 DEF S!Sign, SignedPlans, FoundPlans, Own
  <2>6. <<k, p>> \in SignedPlans' /\ <<k, p>>[1] = k /\ <<k, p>>[2] = p
    BY <2>4
  <2>7. \E s \in SignedPlans' : S!Sign(s[1], s[2])
    BY <2>5, <2>6
  <2> QED
    BY <2>7 DEF S!Next, SignedPlans
<1> QED
  BY <1>2, <1>3, SignStep DEF VInv

\* A step of a verification finds the plan of its key, loses it again, or is unseen.
LEMMA VStepRefinesStore ==
  ASSUME VInv, VInv', NEW v \in Verifications, VStep(v)
  PROVE  [S!Next]_(S!vars)
<1>1. VFrame /\ \E l \in VLocations : vpc' = [vpc EXCEPT ![v] = l]
  BY DEF VStep, VGoto, FetchMeta, CheckSignature, NoPublicKey, FetchPlan, ReadPull, ReadParents,
     ReadTree, ReadConfig, Reply, RequestFails, VLocations, Local, Remote, Verdicts,
     LocalVerdicts, RemoteVerdicts
<1>2. SignedPlans' = SignedPlans /\ UNCHANGED <<asked, in, objects>>
  BY <1>1 DEF VFrame, vars, SignedPlans
<1>3. \A u \in Verifications : u # v =>
        /\ (Trusted(u) /\ Own(u))' <=> (Trusted(u) /\ Own(u))
        /\ tfplan'[u] = tfplan[u]
  <2>1. \A u \in Verifications : u # v =>
          vpc'[u] = vpc[u] /\ meta'[u] = meta[u] /\ tfplan'[u] = tfplan[u]
    BY <1>1 DEF VInv, VTypeOK, VStep, FetchMeta, CheckSignature, NoPublicKey, FetchPlan,
       ReadPull, ReadParents, ReadTree, ReadConfig, Reply, RequestFails
  <2> QED
    BY <1>2, <2>1 DEF Trusted, Own, KeyOf
<1>4. CASE FetchPlan(v) /\ (Trusted(v) /\ Own(v))'
  <2>1. ~Trusted(v)
    BY <1>4 DEF FetchPlan, Trusted, Remote, RemoteVerdicts
  <2>2. /\ meta'[v].by \in Calls /\ (objects[KeyOf(meta[v].by)]["meta.json"] = meta[v].by)'
        /\ meta'[v].flaw = Whole /\ tfplan'[v] = meta'[v]
    BY <1>4 DEF VInv, FoundInv, FoundAt, Trusted, MetaRead, MetaChecked
  <2>3. objects[asked[v]]["meta.json"] = meta'[v].by
    BY <1>2, <1>4, <2>2 DEF Own
  <2>4. tfplan'[v] = Content(objects[asked[v]]["meta.json"], Whole)
    <3>1. meta'[v] = Content(meta'[v].by, meta'[v].flaw)
      BY DEF VInv, VTypeOK, MetaContents, Content
    <3> QED
      BY <2>2, <2>3, <3>1
  <2>5. <<asked[v], tfplan'[v]>> \in SignedPlans
    BY <2>2, <2>3, <2>4, NoneAssumption DEF VInv, VTypeOK, SignedPlans
  <2>6. FoundPlans'[v] = tfplan'[v] /\ FoundPlans' = [FoundPlans EXCEPT ![v] = FoundPlans'[v]]
    BY <1>3, <1>4 DEF FoundPlans
  <2>7. S!Find(v)
    BY <1>2, <2>5, <2>6 DEF S!Find, SignedPlans, FoundPlans, Own
  <2> QED
    BY <2>7 DEF S!Next
<1>5. CASE RequestFails(v) /\ Trusted(v) /\ Own(v)
  <2>1. ~Trusted(v)'
    BY <1>5 DEF RequestFails, VGoto, Trusted, Remote, RemoteVerdicts, VInv, VTypeOK
  <2>2. FoundPlans' = [FoundPlans EXCEPT ![v] = Unfetched]
    BY <1>3, <2>1 DEF FoundPlans
  <2>3. S!GiveUp(v)
    BY <1>2, <2>2 DEF S!GiveUp, SignedPlans, FoundPlans, Own
  <2> QED
    BY <2>3 DEF S!Next
<1>6. CASE ~(FetchPlan(v) /\ (Trusted(v) /\ Own(v))') /\ ~(RequestFails(v) /\ Trusted(v) /\ Own(v))
  <2>1. /\ (Trusted(v) /\ Own(v))' <=> (Trusted(v) /\ Own(v))
        /\ (Trusted(v) /\ Own(v)) => tfplan'[v] = tfplan[v]
    <3>1. CASE FetchPlan(v)
      BY <1>6, <3>1 DEF FetchPlan, Trusted, Remote, RemoteVerdicts
    <3>2. CASE RequestFails(v)
      <4>1. ~Trusted(v)'
        BY <3>2 DEF RequestFails, VGoto, Trusted, Remote, RemoteVerdicts, VInv, VTypeOK
      <4> QED
        BY <1>6, <3>2, <4>1
    <3>3. CASE FetchMeta(v) \/ CheckSignature(v) \/ NoPublicKey(v)
      BY <3>3 DEF FetchMeta, CheckSignature, NoPublicKey, VGoto, Trusted, Remote, RemoteVerdicts,
         VInv, VTypeOK
    <3>4. CASE ReadPull(v) \/ ReadParents(v) \/ ReadTree(v) \/ ReadConfig(v)
      <4>1. Trusted(v) /\ Trusted(v)' /\ UNCHANGED <<meta, tfplan>>
        BY <3>4 DEF ReadPull, ReadParents, ReadTree, ReadConfig, Reply, VGoto, Trusted, Remote,
           RemoteVerdicts, VInv, VTypeOK
      <4> QED
        BY <1>2, <4>1 DEF Own, KeyOf
    <3> QED
      BY <3>1, <3>2, <3>3, <3>4 DEF VStep
  <2>2. FoundPlans' = FoundPlans
    BY <1>3, <2>1 DEF FoundPlans
  <2> QED
    BY <1>2, <2>2 DEF S!vars, SignedPlans, FoundPlans, Own
<1> QED
  BY <1>4, <1>5, <1>6

LEMMA NextRefinesStore == VInv /\ VInv' /\ [VNext]_allvars => [S!Next]_(S!vars)
<1> SUFFICES ASSUME VInv, VInv', [VNext]_allvars PROVE [S!Next]_(S!vars)
  OBVIOUS
<1>1. CASE UNCHANGED allvars
  BY <1>1, StageRefinesStore DEF allvars
<1>2. CASE Next /\ UNCHANGED vvars
  BY <1>2, StageRefinesStore
<1>3. CASE \E v \in Verifications : VStep(v)
  BY <1>3, VStepRefinesStore
<1>4. CASE \E k \in Keys, n \in {"meta.json", "tfplan"} :
             \E x \in Flawed(k, n) \cup Foreign(k, n) : Replace(k, n, x)
  <2>1. SignedPlans' = SignedPlans /\ FoundPlans' = FoundPlans /\ asked' = asked
    BY <1>4 DEF Replace, vars, SignedPlans, FoundPlans, Trusted, Own, KeyOf
  <2> QED
    BY <2>1 DEF S!vars, SignedPlans, FoundPlans, Own
<1> QED
  BY <1>1, <1>2, <1>3, <1>4 DEF VNext

\* Staging and verification are, to the verbs that use them, a store that gives a key
\* one plan in one step, and a reader that plan or none.
THEOREM VerificationImplementsPlanStore == VSpec => ImplementsPlanStore
<1>1. VInv /\ [VNext]_allvars => [S!Next]_(S!vars)
  BY NextVInv, NextRefinesStore
<1> QED
  BY <1>1, InitRefinesStore, VInvariant, PTL DEF VSpec, ImplementsPlanStore, S!Spec
=============================================================================
