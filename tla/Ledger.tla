------------------------------- MODULE Ledger -------------------------------
(***************************************************************************)
(* What staging promises to whoever reads the buckets, with no calls, no   *)
(* crashes and no order of uploads in it.  For every run key at most one   *)
(* signed plan is ever published and it never changes; the run of a key    *)
(* goes absent -> planning -> planned and never back; and it leaves        *)
(* "absent" only when an apply of its commits has been announced by a      *)
(* pending-apply marker.                                                   *)
(*                                                                         *)
(* The order the document comment of Stage (internal/store/stage.go:59-72) *)
(* also asks for, that a run is planned only once its plan is signed, is   *)
(* left out on purpose: the code does not keep it (see README, finding 1). *)
(***************************************************************************)
CONSTANTS Workspaces, Pairs, PRs, Plans, None

VARIABLES
  signed,     \* [Keys -> Plans or None], the plan whose signed meta.json is stored
  status,     \* [Keys -> Statuses]
  announced   \* the markers <<pr, pair>> written so far

vars == <<signed, status, announced>>

Keys == Workspaces \X Pairs
Statuses == {"absent", "planning", "planned"}

Init ==
  /\ signed = [k \in Keys |-> None]
  /\ status = [k \in Keys |-> "absent"]
  /\ announced = {}

\* A key without a signed plan gets one, for good.
Sign(k) ==
  /\ signed[k] = None
  /\ \E p \in Plans : signed' = [signed EXCEPT ![k] = p]
  /\ UNCHANGED <<status, announced>>

\* An apply of a pull request and its commits is announced as outstanding.
Announce(m) ==
  /\ announced' = announced \cup {m}
  /\ UNCHANGED <<signed, status>>

\* The run of a key is claimed, once an apply of the key's commits is announced.
Claim(k) ==
  /\ status[k] = "absent"
  /\ \E pr \in PRs : <<pr, k[2]>> \in announced
  /\ status' = [status EXCEPT ![k] = "planning"]
  /\ UNCHANGED <<signed, announced>>

\* The run of a key becomes planned, for good.
Publish(k) ==
  /\ status[k] = "planning"
  /\ status' = [status EXCEPT ![k] = "planned"]
  /\ UNCHANGED <<signed, announced>>

Next ==
  \/ \E k \in Keys : Sign(k) \/ Claim(k) \/ Publish(k)
  \/ \E m \in PRs \X Pairs : Announce(m)

Spec == Init /\ [][Next]_vars
=============================================================================
