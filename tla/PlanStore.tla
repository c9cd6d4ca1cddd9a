----------------------------- MODULE PlanStore -----------------------------
(***************************************************************************)
(* What the plan bucket is to the verbs that use it: a key gets at most    *)
(* one plan, in one step and for good, and a reader of the key gets that   *)
(* plan or none.  There are no objects, uploads, signatures or digests     *)
(* here (module Verify implements it with them), and no GitHub that keys   *)
(* and plans come from (module Apply implements it with one).              *)
(***************************************************************************)
CONSTANTS Keys, Plans, Readers, None

VARIABLES
  asked,    \* [Readers -> Keys], the key each reader wants
  signed,   \* the plans there are, as <<key, plan>>
  found     \* [Readers -> the plan it goes on with, or None]

vars == <<asked, signed, found>>

Init ==
  /\ asked \in [Readers -> Keys]
  /\ signed = {}
  /\ found = [r \in Readers |-> None]

\* A key without a plan gets one.
Sign(k, p) ==
  /\ k \in Keys /\ p \in Plans
  /\ \A s \in signed : s[1] # k
  /\ signed' = signed \cup {<<k, p>>}
  /\ UNCHANGED <<asked, found>>

\* A reader that has found nothing makes up its mind about the key.
Ask(r) ==
  /\ found[r] = None
  /\ asked'[r] \in Keys
  /\ asked' = [asked EXCEPT ![r] = asked'[r]]
  /\ UNCHANGED <<signed, found>>

\* A reader finds the plan of the key it asked for.
Find(r) ==
  /\ <<asked[r], found'[r]>> \in signed
  /\ found' = [found EXCEPT ![r] = found'[r]]
  /\ UNCHANGED <<asked, signed>>

\* A reader fails later on, and is left without a plan.
GiveUp(r) ==
  /\ found' = [found EXCEPT ![r] = None]
  /\ UNCHANGED <<asked, signed>>

\* The key and the plan are looked up in the next state: there may be infinitely
\* many of either.
Next ==
  \/ \E r \in Readers : Ask(r) \/ Find(r) \/ GiveUp(r)
  \/ \E s \in signed' : Sign(s[1], s[2])

Spec == Init /\ [][Next]_vars
=============================================================================
