------------------------------ MODULE MCVerify ------------------------------
(* Instances of Verify for TLC. *)
EXTENDS Verify, TLC

CONSTANT Moved   \* the pairs whose base is another than that of the rest

Bases == [p \in Pairs |-> IF p \in Moved THEN "b2" ELSE "b1"]

Symmetry == Permutations(Calls) \cup Permutations(Verifications)
            \cup Permutations(Workspaces) \cup Permutations(Pairs \ Moved)

\* Once an object was replaced, no call is between its marker and its return: these
\* requests go to the coordination bucket, which no verification reads.
SettledCalls ==
  replaced > 0 => \A c \in Calls : pc[c] \in Names \cup {"marker"} \cup Returned
=============================================================================
