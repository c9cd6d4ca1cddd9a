------------------------------- MODULE Verify -------------------------------
(***************************************************************************)
(* "tfgh apply verify" (Verifier.Verify, internal/apply/verify.go, with    *)
(* the kmsVerifier of cmd/tfgh/main.go) reading the plan bucket while      *)
(* calls of Stage write it.  Module Apply says how the key is derived from *)
(* GitHub and what GitHub's replies mean; here a reply is any reply, and   *)
(* the objects are what matters: half-written sets, and objects in whose   *)
(* place lies another one: with a flaw, as verify_test.go puts them into   *)
(* the bucket, or copied from where another key has it.                    *)
(*                                                                         *)
(* A read of an object is two requests whose replies agree, since neither  *)
(* the generation nor an older content is used.  A verification that dies  *)
(* is one that takes no more steps.                                        *)
(***************************************************************************)
EXTENDS Stage

CONSTANTS
  Verifications,   \* runs of "tfgh apply verify"
  BaseOf,          \* [Pairs -> the base SHA of the pair]
  MaxReplaced      \* bound on the objects replaced behind tfgh's back

ASSUME ReplacedAssumption == MaxReplaced \in Nat

VARIABLES
  asked,     \* [Verifications -> Keys], the workspace, base and head in question
  vpc,       \* [Verifications -> the next request, or the verdict]
  meta,      \* [Verifications -> what was read as meta.json]
  tfplan,    \* [Verifications -> what was read as tfplan]
  keyless,   \* the verifications that did not get the public key
  instead,   \* [Keys -> [{"meta.json", "tfplan"} -> what lies in the place of the
             \* object that was written, or Unfetched]]
  replaced   \* objects replaced so far

vvars == <<asked, vpc, meta, tfplan, keyless, instead, replaced>>
allvars == <<vars, vvars>>

-----------------------------------------------------------------------------
(* Contents and verdicts *)

\* What is wrong with a meta.json: no JSON; a signature that is not of its content;
\* signed, but of another kind or with a field missing.  A tfplan has other bytes.
MetaFlaws == {"undecodable", "unsigned", "unfit"}
Whole == "none"

\* An object as it is read: the call that wrote it, and its flaw.
Content(author, f) == [by |-> author, flaw |-> f]
Unfetched == Content(None, Whole)
MetaContents == [by : Calls \cup {None}, flaw : MetaFlaws \cup {Whole}]
PlanContents == [by : Calls \cup {None}, flaw : {"other_bytes", Whole}]

Replaced(k, name) == instead[k][name].by # None

\* The object that lies under a name of a key: the one in its place, or the written.
Lying(k, name) ==
  IF Replaced(k, name) THEN instead[k][name] ELSE Content(objects[k][name], Whole)
Read(v, name) == Lying(asked[v], name)

\* PlanSHA of the bytes read is the one that was signed: two plans never have the
\* same bytes.
DigestHolds(m, p) == p = Content(m.by, Whole)

\* meta.Validate: the kind is "pr" and every identity field is there.
Validate(m) == m.flaw # "unfit"

\* meta.Digest with the signature cleared, against the key's signature.
SignatureHolds(m) == m.flaw # "unsigned"

\* Requests to the bucket and the key service, and to GitHub, in order.
Local == {"meta", "key", "plan"}
Remote == {"pull", "parents", "tree", "config"}
LocalVerdicts ==
  {"no_meta", "undecodable", "bad_signature", "inapplicable_kind", "no_plan", "plan_sha"}
RemoteVerdicts == {"not_merged", "base_moved", "tree_mismatch", "unauthorized", "applicable"}
Verdicts == LocalVerdicts \cup RemoteVerdicts \cup {"error"}

VInit ==
  /\ Init
  /\ asked \in [Verifications -> Keys]
  /\ vpc = [v \in Verifications |-> "meta"]
  /\ meta = [v \in Verifications |-> Unfetched]
  /\ tfplan = [v \in Verifications |-> Unfetched]
  /\ keyless = {}
  /\ instead = [k \in Keys |-> [n \in {"meta.json", "tfplan"} |-> Unfetched]]
  /\ replaced = 0

\* Verification holds no writer identity.
VFrame == UNCHANGED <<vars, asked, instead, replaced>>

VGoto(v, l) == vpc' = [vpc EXCEPT ![v] = l]

-----------------------------------------------------------------------------
(* Steps 1 to 3: the artifacts *)

FetchMeta(v) ==
  /\ vpc[v] = "meta"
  /\ meta' = [meta EXCEPT ![v] = Read(v, "meta.json")]
  /\ VGoto(v, IF meta'[v].by = None THEN "no_meta"
              ELSE IF meta'[v].flaw = "undecodable" THEN "undecodable"
              ELSE "key")
  /\ UNCHANGED <<tfplan, keyless>> /\ VFrame

\* The public key is fetched, the signature checked, then the kind.
CheckSignature(v) ==
  /\ vpc[v] = "key"
  /\ VGoto(v, IF ~SignatureHolds(meta[v]) THEN "bad_signature"
              ELSE IF ~Validate(meta[v]) THEN "inapplicable_kind"
              ELSE "plan")
  /\ UNCHANGED <<meta, tfplan, keyless>> /\ VFrame

\* Without the public key the verdict is that of a bad signature.
NoPublicKey(v) ==
  /\ vpc[v] = "key"
  /\ keyless' = keyless \cup {v}
  /\ VGoto(v, "bad_signature")
  /\ UNCHANGED <<meta, tfplan>> /\ VFrame

\* Bug: that there is a tfplan is enough.
BugFetchPlan(v) ==
  /\ vpc[v] = "plan"
  /\ tfplan' = [tfplan EXCEPT ![v] = Read(v, "tfplan")]
  /\ VGoto(v, IF tfplan'[v].by = None THEN "no_plan" ELSE "pull")
  /\ UNCHANGED <<meta, keyless>> /\ VFrame

FetchPlan(v) ==
  /\ vpc[v] = "plan"
  /\ tfplan' = [tfplan EXCEPT ![v] = Read(v, "tfplan")]
  /\ VGoto(v, IF tfplan'[v].by = None THEN "no_plan"
              ELSE IF ~DigestHolds(meta[v], tfplan'[v]) THEN "plan_sha"
              ELSE "pull")
  /\ UNCHANGED <<meta, keyless>> /\ VFrame

-----------------------------------------------------------------------------
(* Steps 4 to 6: GitHub, whatever it replies *)

\* A check at one request, which leads to the next one or to a verdict.
Reply(v, at, next, verdicts) ==
  /\ vpc[v] = at
  /\ \E l \in {next} \cup verdicts : VGoto(v, l)
  /\ UNCHANGED <<meta, tfplan, keyless>> /\ VFrame

\* meta.BaseSHA is the base asked about.  Of what meta.json says it was planned for,
\* this is all that is compared.
SameBase(v) == BaseOf[KeyOf(meta[v].by)[2]] = BaseOf[asked[v][2]]

\* Not merged or no merge commit shown, or planned on another base than asked.
ReadPull(v) ==
  Reply(v, "pull", IF SameBase(v) THEN "parents" ELSE "base_moved", {"not_merged"})

ReadParents(v) == Reply(v, "parents", "tree", {"base_moved"})

ReadTree(v) == Reply(v, "tree", "config", {"tree_mismatch"})

ReadConfig(v) == Reply(v, "config", "applicable", {"unauthorized"})

\* Any request but the one for the public key fails: the call returns its error.
RequestFails(v) ==
  /\ vpc[v] \in (Local \cup Remote) \ {"key"}
  /\ VGoto(v, "error")
  /\ UNCHANGED <<meta, tfplan, keyless>> /\ VFrame

VStep(v) ==
  \/ FetchMeta(v) \/ CheckSignature(v) \/ NoPublicKey(v) \/ FetchPlan(v)
  \/ ReadPull(v) \/ ReadParents(v) \/ ReadTree(v) \/ ReadConfig(v)
  \/ RequestFails(v)

\* What may come to lie in the place of an object: the object with a flaw, or the
\* object of that name that was written under another key.
Flawed(k, n) ==
  {Content(objects[k][n], f) : f \in IF n = "tfplan" THEN {"other_bytes"} ELSE MetaFlaws}
Foreign(k, n) ==
  {Content(objects[j][n], Whole) : j \in {j \in Keys \ {k} : objects[j][n] # None}}

\* An object that was written is replaced.
Replace(k, n, x) ==
  /\ objects[k][n] # None /\ replaced < MaxReplaced
  /\ instead' = [instead EXCEPT ![k][n] = x]
  /\ replaced' = replaced + 1
  /\ UNCHANGED <<vars, asked, vpc, meta, tfplan, keyless>>

VNext ==
  \/ Next /\ UNCHANGED vvars
  \/ \E v \in Verifications : VStep(v)
  \/ \E k \in Keys, n \in {"meta.json", "tfplan"} :
       \E x \in Flawed(k, n) \cup Foreign(k, n) : Replace(k, n, x)

VSpec == VInit /\ [][VNext]_allvars

-----------------------------------------------------------------------------
(* Properties *)

\* The variables have the types given with their declarations.
VTypeOK ==
  /\ TypeOK
  /\ asked \in [Verifications -> Keys]
  /\ vpc \in [Verifications -> Local \cup Remote \cup Verdicts]
  /\ meta \in [Verifications -> MetaContents]
  /\ tfplan \in [Verifications -> PlanContents]
  /\ keyless \subseteq Verifications
  /\ instead \in [Keys -> [{"meta.json", "tfplan"} -> MetaContents \cup PlanContents]]
  /\ \A k \in Keys : /\ instead[k]["meta.json"] \in MetaContents
                     /\ instead[k]["tfplan"] \in PlanContents
  /\ replaced \in 0..MaxReplaced

\* The plan was found, and all that can be checked of it without GitHub holds.
Trusted(v) == vpc[v] \in Remote \cup RemoteVerdicts

\* Both objects of a key were replaced.
SetReplaced(k) == Replaced(k, "meta.json") /\ Replaced(k, "tfplan")

\* Past the comparison of the bases.
Based == (Remote \ {"pull"}) \cup {"tree_mismatch", "unauthorized", "applicable"}

\* GitHub is asked, and a verdict that depends on its replies given, only for a
\* meta.json and a tfplan that one call of Stage wrote, whole, whichever calls were
\* still writing between the two reads and whatever was replaced.  They are those of
\* the key in question unless both lie there in place of its own, and even then no
\* verdict past the comparison of the bases is about a plan on another base
\* (verify.go:97-99, 117-164).  See MetaBindsKey for what is not compared.
TrustedIsOnePlan ==
  \A v \in Verifications : Trusted(v) =>
    /\ meta[v].by \in Calls /\ meta[v].flaw = Whole
    /\ tfplan[v] = meta[v]
    /\ KeyOf(meta[v].by) # asked[v] => SetReplaced(asked[v])
    /\ vpc[v] \in Based => SameBase(v)

\* Before a plan is applied, the apply worker is to "assert meta binds (repo, ws, base,
\* head)" (docs/DESIGN.md:595): an applicable plan was made for the workspace, base
\* and head in question.  The code compares the base (verify.go:162) and neither of
\* the others, so that the set of another key will do.
MetaBindsKey ==
  \A v \in Verifications : vpc[v] = "applicable" => KeyOf(meta[v].by) = asked[v]

\* A verification that races with staging sees a whole set or none: having found
\* meta.json it finds the tfplan that was signed, so a set is refused only for an
\* object that was replaced, or without the public key (stage.go:154-169,
\* verify.go:117-149).
RefusedHasCause ==
  \A v \in Verifications :
    LET Spoilt(name) == Replaced(asked[v], name)
    IN /\ vpc[v] # "no_plan"
       /\ vpc[v] \in {"undecodable", "inapplicable_kind"} => Spoilt("meta.json")
       /\ vpc[v] = "bad_signature" => Spoilt("meta.json") \/ v \in keyless
       /\ vpc[v] = "plan_sha" => Spoilt("meta.json") \/ Spoilt("tfplan")

\* Two verifications of one key, at any two times, judge the same plan: what a
\* verdict was about is what a later one is about, unless both objects of the key
\* were replaced (stage.go:71-74, verify.go:98-149).
VerdictsAgree ==
  \A v, u \in Verifications :
    (Trusted(v) /\ Trusted(u) /\ asked[v] = asked[u])
      => meta[v] = meta[u] \/ SetReplaced(asked[v])

\* A key that a call of Stage reports as staged, and not as a cache hit, is found by
\* every verification from then on (stage.go:144-152, 195-200, main.go:312-316).
StagedIsFound ==
  [][\A v \in Verifications : (vpc[v] = "meta" /\ vpc'[v] = "no_meta") =>
       \A c \in Calls : (KeyOf(c) = asked[v] /\ pc[c] = "done") => hit[c]]_allvars

\* Staging and verification together implement the store that Apply takes the plan
\* bucket for: one plan per key, put there in one step, and the tfplan bytes a
\* verification goes on with are that plan's, unless it goes on with the set of
\* another key: it counts as having found nothing then (stage.go:117-179,
\* verify.go:113-149).
S == INSTANCE PlanStore WITH
       Keys <- Keys, Readers <- Verifications, asked <- asked, None <- Unfetched,
       Plans <- {Content(c, Whole) : c \in Calls},
       signed <- {<<k, Content(objects[k]["meta.json"], Whole)>> :
                    k \in {k \in Keys : objects[k]["meta.json"] # None}},
       found <- [v \in Verifications |->
                   IF Trusted(v) /\ KeyOf(meta[v].by) = asked[v] THEN tfplan[v] ELSE Unfetched]
ImplementsPlanStore == S!Spec
=============================================================================
