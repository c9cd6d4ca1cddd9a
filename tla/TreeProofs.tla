----------------------------- MODULE TreeProofs -----------------------------
(***************************************************************************)
(* The comparison of trees in "tfgh apply verify" refuses no plan whose    *)
(* pull request landed as it was planned, for every history of pushes,     *)
(* updates, reverts, merges and rebases.                                   *)
(*                                                                         *)
(* A head that has the base's tip among its ancestors holds the base's     *)
(* tree, and of the edits pushed to the base itself, which a revert may    *)
(* take back, no others (TreeInv, last line): merging it changes nothing.  *)
(* The other lines of TreeInv say where the edits of a tree come from, as  *)
(* the rebase of a single commit needs it.  Merging what is up to date     *)
(* therefore keeps the head's tree (LandTree).                             *)
(***************************************************************************)
EXTENDS ApplyProofs

Tree(i) == commits[i].tree
Anc(i) == commits[i].anc
Single(i) == Len(commits[i].parents) = 1

TreeInv ==
  \* An edit is named after a commit that makes it, no merge.
  /\ \A i \in Ids : \A e \in Tree(i) : e \in Tree(e) /\ (Single(e) \/ e \in Anc(tip))
  \* Only edits pushed to the base are ever taken back.
  /\ \A i \in Ids : \A j \in Anc(i) : Tree(j) \ Direct \subseteq Tree(i)
  \* An edit that is not of an ancestor came from the base.
  /\ \A i \in Ids : Tree(i) \ Direct \subseteq Anc(i) \cup Tree(tip)
  \* A commit without edit of its own, made by a squash or a rebase, is on the base.
  /\ \A i \in Ids : (Single(i) /\ i \notin Anc(tip)) => i \in Tree(i)
  /\ Direct \subseteq Anc(tip)
  /\ \A h \in Ids : tip \in Anc(h) => Tree(tip) \subseteq Tree(h) /\ Tree(h) \cap Direct \subseteq Tree(tip)

\* Merging an up-to-date head on the base it has keeps its tree.
LandTree ==
  \A p \in PRs :
    (Landed(p) # 0 /\ Onto(p) \in Anc(HeadSHA(p))) => Tree(Landed(p)) = Tree(HeadSHA(p))

\* What is planned and staged is up to date with its base.
PlannedInv ==
  /\ \A q \in Planners : plans[q].pc \in {"run", "stage"} => plans[q].base \in Anc(plans[q].head)
  /\ \A m \in staged : m.base \in Anc(m.head)

\* What a run that reports a mismatch has compared.
MismatchInv ==
  \A a \in Appliers :
    LET r == applies[a]
    IN  /\ r.pc = "merged" => r.meta.base = r.base /\ r.meta.head = r.head
        /\ r.outcome = "tree_mismatch" =>
             /\ r.meta \in staged /\ r.meta.base = r.base /\ r.meta.head = r.head
             /\ Landed(r.pr) # 0
             /\ commits[Landed(r.pr)].parents[1] = r.base
             /\ Tree(Landed(r.pr)) # r.meta.tree

TInv == AInv /\ TreeInv /\ LandTree /\ PlannedInv /\ MismatchInv

-----------------------------------------------------------------------------
(* Trees *)

LEMMA CommitBounds ==
  ASSUME CommitsOK
  PROVE  /\ Len(commits) \in Nat
         /\ \A i \in Ids : /\ Tree(i) \subseteq Ids /\ Anc(i) \subseteq Ids /\ i \in Anc(i)
                           /\ i \in Nat /\ \A k \in Anc(i) : k \in Nat /\ k <= i
BY LenCommits DEF CommitsOK, Ids, Tree, Anc

\* One new commit n with parents P, on the base (then the tip is a parent) or not.
LEMMA OneCommitKeepsTrees ==
  ASSUME CommitsOK, CommitsOK', Grown, TreeInv, tip \in Ids,
         NEW n, n = Len(commits) + 1, Len(commits') = n,
         NEW P \in SUBSET Ids,
         Anc(n)' = {n} \cup UNION {Anc(k) : k \in P},
         \/ tip' = tip /\ ~commits'[n].onBase
         \/ tip' = n /\ tip \in P,
         n \in Tree(n)' \/ ~Single(n)' \/ tip' = n,
         n \in Tree(n)' => Single(n)',
         \A e \in Tree(n)' \ {n} :
           \E k \in Ids : e \in Tree(k) /\ (tip' = tip => k \in P \cup {tip}),
         \A k \in P : Tree(k) \ Direct \subseteq Tree(n)',
         (tip' = tip /\ tip \in Anc(n)') =>
           Tree(tip) \subseteq Tree(n)' /\ Tree(n)' \cap Direct \subseteq Tree(tip)
  PROVE  TreeInv'
<1>1. /\ Len(commits) \in Nat /\ n \in Nat /\ n \notin Ids /\ n \in Ids'
      /\ Ids' = Ids \cup {n} /\ tip' \in Ids'
  BY CommitBounds DEF Ids
<1>2. \A i \in Ids : Tree(i)' = Tree(i) /\ Anc(i)' = Anc(i) /\ (Single(i)' <=> Single(i))
                     /\ commits'[i] = commits[i]
  BY DEF Grown, Tree, Anc, Single
<1>3. Direct' = Direct \cup (IF commits'[n].onBase THEN {n} ELSE {}) /\ Direct \subseteq Ids
  BY <1>1, <1>2 DEF Direct
<1>4. \A i \in Ids : /\ Tree(i) \subseteq Ids /\ Anc(i) \subseteq Ids /\ i \in Anc(i)
                     /\ n \notin Tree(i) /\ n \notin Anc(i)
  BY <1>1, CommitBounds
<1>5. Anc(tip) \subseteq Anc(tip)' /\ Tree(tip) \ Direct \subseteq Tree(tip)'
  <2>1. CASE tip' = tip
    <3>1. Anc(tip)' = Anc(tip) /\ Tree(tip)' = Tree(tip)
      BY <1>2, <2>1 DEF Anc, Tree
    <3> QED
      BY <3>1
  <2>2. CASE tip' = n /\ tip \in P
    <3>1. commits'[n].anc = {n} \cup UNION {Anc(k) : k \in P}
          /\ Tree(tip) \ Direct \subseteq commits'[n].tree
      BY <2>2 DEF Anc, Tree
    <3> QED
      BY <2>2, <3>1 DEF Anc, Tree
  <2> QED
    BY <2>1, <2>2
\* The edits of the new commit.
<1>6. \A e \in Tree(n)' \ {n} : e \in Ids /\ e \in Tree(e) /\ (Single(e) \/ e \in Anc(tip))
  BY <1>4 DEF TreeInv
<1>7. \A i \in Ids' : \A e \in Tree(i)' : e \in Tree(e)' /\ (Single(e)' \/ e \in Anc(tip)')
  <2> SUFFICES ASSUME NEW i \in Ids', NEW e \in Tree(i)'
               PROVE  e \in Tree(e)' /\ (Single(e)' \/ e \in Anc(tip)')
    OBVIOUS
  <2>1. CASE e = n
    <3>1. i = n
      BY <1>1, <1>2, <1>4, <2>1
    <3> QED
      BY <2>1, <3>1
  <2>2. CASE e # n
    <3>1. e \in Ids /\ e \in Tree(e) /\ (Single(e) \/ e \in Anc(tip))
      BY <1>1, <1>2, <1>4, <1>6, <2>2 DEF TreeInv
    <3> QED
      BY <1>2, <1>5, <3>1
  <2> QED
    BY <2>1, <2>2
<1>8. \A i \in Ids' : \A j \in Anc(i)' : Tree(j)' \ Direct' \subseteq Tree(i)'
  <2> SUFFICES ASSUME NEW i \in Ids', NEW j \in Anc(i)', j # n
               PROVE  Tree(j)' \ Direct' \subseteq Tree(i)'
    BY <1>1, <1>2, <1>4
  <2>1. CASE i = n
    <3>1. PICK k \in P : j \in Anc(k)
      BY <2>1
    <3>2. j \in Ids /\ Tree(j) \ Direct \subseteq Tree(k)
      BY <1>4, <3>1 DEF TreeInv
    <3> QED
      BY <1>2, <1>3, <2>1, <3>1, <3>2
  <2>2. CASE i # n
    <3>1. i \in Ids /\ j \in Anc(i) /\ j \in Ids
      BY <1>1, <1>2, <1>4, <2>2
    <3> QED
      BY <1>2, <1>3, <3>1 DEF TreeInv
  <2> QED
    BY <2>1, <2>2
<1>9. \A i \in Ids' : Tree(i)' \ Direct' \subseteq Anc(i)' \cup Tree(tip)'
  <2> SUFFICES ASSUME NEW i \in Ids', NEW e \in Tree(i)', e \notin Direct'
               PROVE  e \in Anc(i)' \/ e \in Tree(tip)'
    OBVIOUS
  <2>0. e \notin Direct
    BY <1>3
  <2>1. CASE i # n
    <3>1. i \in Ids /\ e \in Tree(i)
      BY <1>1, <1>2, <2>1
    <3>2. e \in Anc(i) \/ e \in Tree(tip)
      BY <2>0, <3>1 DEF TreeInv
    <3> QED
      BY <1>2, <1>5, <2>0, <3>1, <3>2
  <2>2. CASE i = n /\ e = n
    BY <2>2
  <2>4. CASE tip' = n /\ i = n
    BY <2>4 DEF Tree
  <2>3. CASE tip' = tip /\ i = n /\ e # n
    <3>1. PICK k \in P \cup {tip} : e \in Tree(k)
      BY <2>3
    <3>2. CASE e \in Tree(tip)
      BY <1>5, <2>0, <3>2
    <3>3. CASE k \in P /\ e \notin Tree(tip)
      <4>1. e \in Anc(k)
        BY <2>0, <3>1, <3>3 DEF TreeInv
      <4> QED
        BY <2>3, <3>3, <4>1
    <3> QED
      BY <3>1, <3>2, <3>3
  <2> QED
    BY <2>1, <2>2, <2>3, <2>4
<1>10. \A i \in Ids' : (Single(i)' /\ i \notin Anc(tip)') => i \in Tree(i)'
  <2> SUFFICES ASSUME NEW i \in Ids', Single(i)', i \notin Anc(tip)'
               PROVE  i \in Tree(i)'
    OBVIOUS
  <2>1. CASE i = n
    <3>1. n \in Anc(n)'
      OBVIOUS
    <3>2. tip' # n
      BY <2>1, <3>1 DEF Anc
    <3> QED
      BY <2>1, <3>2
  <2>2. CASE i # n
    <3>1. i \in Ids /\ i \notin Anc(tip) /\ Single(i)
      BY <1>1, <1>2, <1>5, <2>2
    <3> QED
      BY <1>2, <3>1 DEF TreeInv
  <2> QED
    BY <2>1, <2>2
<1>11. Direct' \subseteq Anc(tip)'
  <2>1. Direct \subseteq Anc(tip)'
    BY <1>5 DEF TreeInv
  <2>2. commits'[n].onBase => n \in Anc(tip)'
    BY DEF Anc
  <2> QED
    BY <1>3, <2>1, <2>2
<1>12. \A h \in Ids' : tip' \in Anc(h)' =>
         Tree(tip)' \subseteq Tree(h)' /\ Tree(h)' \cap Direct' \subseteq Tree(tip)'
  <2> SUFFICES ASSUME NEW h \in Ids', tip' \in Anc(h)'
               PROVE  Tree(tip)' \subseteq Tree(h)' /\ Tree(h)' \cap Direct' \subseteq Tree(tip)'
    OBVIOUS
  <2>1. CASE tip' = n
    <3>1. h = n
      BY <1>1, <1>2, <1>4, <2>1
    <3> QED
      BY <2>1, <3>1 DEF Tree
  <2>2. CASE tip' = tip /\ ~commits'[n].onBase
    <3>1. Direct' = Direct /\ Tree(tip)' = Tree(tip)
      BY <1>2, <1>3, <2>2 DEF Tree
    <3>2. CASE h = n
      BY <2>2, <3>1, <3>2
    <3>3. CASE h # n
      <4>1. h \in Ids /\ tip \in Anc(h)
        BY <1>1, <1>2, <2>2, <3>3
      <4> QED
        BY <1>2, <3>1, <4>1 DEF TreeInv
    <3> QED
      BY <3>2, <3>3
  <2> QED
    BY <2>1, <2>2
<1> QED
  BY <1>7, <1>8, <1>9, <1>10, <1>11, <1>12 DEF TreeInv

\* The last n commits are on top of the base, and the edits R on theirs, F[j] of
\* them up to the j-th.
Rebased(n, R, F) ==
  /\ F \in [1..n -> SUBSET R]
  /\ \A j \in 1..n : \A k \in 1..j : F[k] \subseteq F[j]
  /\ Len(commits') = Len(commits) + n /\ tip' = Len(commits) + n
  /\ \A j \in 1..n :
       LET c == commits'[Len(commits) + j]
       IN  /\ c.tree = Tree(tip) \cup F[j]
           /\ c.anc = Anc(tip) \cup (Len(commits) + 1)..(Len(commits) + j)
           /\ ~c.onBase

\* A rebase of n commits replays edits R that are not on the base yet.
LEMMA RebaseKeepsTrees ==
  ASSUME CommitsOK, CommitsOK', Grown, TreeInv, tip \in Ids,
         NEW n \in Nat \ {0}, NEW R \in SUBSET Ids, NEW F, Rebased(n, R, F),
         \A i \in R : Single(i) /\ i \notin Anc(tip)
  PROVE  TreeInv'
<1>a. PICK last \in Nat : last = Len(commits)
  BY LenCommits
<1> DEFINE top == last + n
<1>b. Len(commits') = top /\ tip' = top
  BY <1>a DEF Rebased
<1>c. \A j \in 1..n : F[j] \subseteq R /\ \A k \in 1..j : F[k] \subseteq F[j]
  BY DEF Rebased
<1>d. \A j \in 1..n : /\ commits'[last + j].tree = Tree(tip) \cup F[j]
                      /\ commits'[last + j].anc = Anc(tip) \cup (last + 1)..(last + j)
                      /\ ~commits'[last + j].onBase
  BY <1>a DEF Rebased
<1>1. /\ last \in Nat /\ top \in Ids' /\ Ids \subseteq Ids'
      /\ \A i \in Ids' : i \in Ids \/ \E j \in 1..n : i = last + j
      /\ \A j \in 1..n : last + j \in Ids' /\ last + j \notin Ids /\ last + j <= top
  <2>1. \A i \in Ids' : i \in Ids \/ (i - last \in 1..n /\ i = last + (i - last))
    BY <1>a, <1>b DEF Ids
  <2>2. \A i \in Ids' : i \in Ids \/ \E j \in 1..n : i = last + j
    BY <2>1
  <2>3. \A j \in 1..n : last + j \in Ids' /\ last + j \notin Ids /\ last + j <= top
    BY <1>a, <1>b DEF Ids
  <2>4. last \in Nat /\ top \in Ids' /\ Ids \subseteq Ids'
    BY <1>a, <1>b DEF Ids
  <2> QED
    BY <2>2, <2>3, <2>4
<1>2. \A i \in Ids : Tree(i)' = Tree(i) /\ Anc(i)' = Anc(i) /\ (Single(i)' <=> Single(i))
                     /\ commits'[i] = commits[i]
  BY DEF Grown, Tree, Anc, Single
<1>3. \A i \in Ids : Tree(i) \subseteq Ids /\ Anc(i) \subseteq Ids /\ i \in Nat /\ i <= last
  BY <1>a, CommitBounds DEF Ids
<1>4. \A j \in 1..n : /\ Tree(last + j)' = Tree(tip) \cup F[j]
                      /\ Anc(last + j)' = Anc(tip) \cup (last + 1)..(last + j)
  BY <1>d DEF Tree, Anc
<1>5. /\ Tree(tip)' = Tree(tip) \cup F[n] /\ Anc(tip)' = Anc(tip) \cup (last + 1)..top
      /\ \A j \in 1..n : F[j] \subseteq F[n] /\ F[j] \subseteq R
  <2>1. n \in 1..n /\ top = last + n /\ \A j \in 1..n : j \in 1..n /\ n \in 1..n
    OBVIOUS
  <2>2. Tree(tip)' = Tree(top)' /\ Anc(tip)' = Anc(top)'
    BY <1>b DEF Tree, Anc
  <2>3. \A j \in 1..n : F[j] \subseteq F[n] /\ F[j] \subseteq R
    BY <1>c, <2>1
  <2> HIDE DEF top
  <2> QED
    BY <1>4, <2>1, <2>2, <2>3
<1>6. Direct' = Direct /\ Direct \subseteq Ids
  <2>1. \A i \in Ids : commits'[i].onBase <=> commits[i].onBase
    BY <1>2
  <2>2. \A j \in 1..n : ~ commits'[last + j].onBase /\ last + j \notin Ids
    BY <1>1, <1>d
  <2>3. \A i \in Ids' : commits'[i].onBase <=> (i \in Ids /\ commits[i].onBase)
    BY <1>1, <2>1, <2>2
  <2> QED
    BY <1>1, <2>3 DEF Direct
<1>7. \A e \in R : e \in Tree(e) /\ e \in Ids
  BY DEF TreeInv
<1>8. \A i \in Ids' : \A e \in Tree(i)' : e \in Tree(e)' /\ (Single(e)' \/ e \in Anc(tip)')
  <2> SUFFICES ASSUME NEW i \in Ids', NEW e \in Tree(i)'
               PROVE  e \in Tree(e)' /\ (Single(e)' \/ e \in Anc(tip)')
    OBVIOUS
  <2>1. e \in R \/ \E k \in Ids : e \in Tree(k)
    BY <1>1, <1>2, <1>4, <1>5
  <2>2. e \in Ids /\ e \in Tree(e) /\ (Single(e) \/ e \in Anc(tip))
    BY <1>3, <1>7, <2>1 DEF TreeInv
  <2> QED
    BY <1>2, <1>5, <2>2
<1>9. \A i \in Ids' : \A j \in Anc(i)' : Tree(j)' \ Direct' \subseteq Tree(i)'
  <2> SUFFICES ASSUME NEW i \in Ids', NEW j \in Anc(i)' PROVE Tree(j)' \ Direct' \subseteq Tree(i)'
    OBVIOUS
  <2>1. CASE i \in Ids
    BY <1>2, <1>3, <1>6, <2>1 DEF TreeInv
  <2>2. ASSUME NEW k \in 1..n, i = last + k PROVE Tree(j)' \ Direct' \subseteq Tree(i)'
    <3>1. CASE j \in Anc(tip)
      <4>1. Tree(j) \ Direct \subseteq Tree(tip) /\ j \in Ids
        BY <1>3, <3>1 DEF TreeInv
      <4>2. Tree(j)' = Tree(j) /\ Direct' = Direct
        BY <1>2, <1>6, <4>1
      <4>3. Tree(i)' = Tree(tip) \cup F[k]
        BY <1>4, <2>2
      <4> QED
        BY <4>1, <4>2, <4>3
    <3>2. CASE j \in (last + 1)..(last + k)
      <4>1. PICK l \in 1..k : j = last + l
        <5>1. j - last \in 1..k /\ j = last + (j - last)
          BY <1>1, <3>2
        <5> QED
          BY <5>1
      <4>2. l \in 1..n /\ F[l] \subseteq F[k]
        BY <1>c, <4>1
      <4>3. Tree(j)' = Tree(tip) \cup F[l] /\ Tree(i)' = Tree(tip) \cup F[k]
        BY <1>4, <2>2, <4>1, <4>2
      <4> QED
        BY <4>2, <4>3
    <3> QED
      BY <1>4, <2>2, <3>1, <3>2
  <2> QED
    BY <1>1, <2>1, <2>2
<1>10. \A i \in Ids' : Tree(i)' \ Direct' \subseteq Anc(i)' \cup Tree(tip)'
  <2>1. \A i \in Ids : Tree(i)' \ Direct' \subseteq Anc(i)' \cup Tree(tip)'
    BY <1>2, <1>5, <1>6 DEF TreeInv
  <2>2. \A j \in 1..n : Tree(last + j)' \subseteq Tree(tip)'
    BY <1>4, <1>5
  <2> QED
    BY <1>1, <2>1, <2>2
<1>11. \A i \in Ids' : (Single(i)' /\ i \notin Anc(tip)') => i \in Tree(i)'
  <2>1. \A i \in Ids : (Single(i)' /\ i \notin Anc(tip)') => i \in Tree(i)'
    BY <1>2, <1>5 DEF TreeInv
  <2>2. \A j \in 1..n : last + j \in Anc(tip)'
    <3>1. \A j \in 1..n : last + j \in (last + 1)..top
      BY <1>1
    <3> QED
      BY <1>5, <3>1
  <2> QED
    BY <1>1, <2>1, <2>2
<1>12. Direct' \subseteq Anc(tip)'
  BY <1>5, <1>6 DEF TreeInv
<1>13. \A h \in Ids' : tip' \in Anc(h)' =>
         Tree(tip)' \subseteq Tree(h)' /\ Tree(h)' \cap Direct' \subseteq Tree(tip)'
  <2> SUFFICES ASSUME NEW h \in Ids', tip' \in Anc(h)' PROVE Tree(h)' = Tree(tip)'
    OBVIOUS
  <2>1. h = top
    <3>1. h \in Nat /\ tip' <= h /\ h <= top
      BY <1>b, CommitBounds, <1>1 DEF CommitsOK, Ids, Anc
    <3> QED
      BY <1>1, <1>b, <3>1
  <2> QED
    BY <1>b, <2>1 DEF Tree
<1> QED
  BY <1>8, <1>9, <1>10, <1>11, <1>12, <1>13 DEF TreeInv

\* The same of a commit as the actions make it, of the parents in P.
Adds(n, tree, parents, onBase, P) ==
  /\ n = Len(commits) + 1
  /\ tree \in SUBSET (1..n) /\ parents \in Seq(Ids) /\ onBase \in BOOLEAN
  /\ commits' = Append(commits, Commit(tree, parents, onBase))
  /\ P \in SUBSET Ids /\ P = {parents[i] : i \in DOMAIN parents}
  /\ \/ tip' = tip /\ ~onBase
     \/ tip' = n /\ tip \in P
  /\ n \in tree \/ Len(parents) # 1 \/ tip' = n
  /\ n \in tree => Len(parents) = 1
  /\ \A e \in tree \ {n} :
       \E k \in Ids : e \in Tree(k) /\ (tip' = tip => k \in P \cup {tip})
  /\ \A k \in P : Tree(k) \ Direct \subseteq tree
  /\ \A k \in P : (tip' = tip /\ tip \in Anc(k)) =>
       Tree(tip) \subseteq tree /\ tree \cap Direct \subseteq Tree(tip)

LEMMA CommitKeepsTrees ==
  ASSUME GitHubTypeOK, TreeInv,
         NEW n, NEW tree, NEW parents, NEW onBase, NEW P, Adds(n, tree, parents, onBase, P)
  PROVE  TreeInv'
<1>0. CommitsOK /\ tip \in Ids
  BY DEF GitHubTypeOK
<1>1. /\ CommitsOK' /\ Grown /\ Len(commits') = n
      /\ commits'[n] = Commit(tree, parents, onBase)
  BY <1>0, AppendCommit DEF Adds
<1>2. /\ Tree(n)' = tree /\ (Single(n)' <=> Len(parents) = 1)
      /\ commits'[n].onBase = onBase
      /\ commits'[n].anc = {n} \cup UNION {commits[parents[i]].anc : i \in DOMAIN parents}
  BY <1>1 DEF Commit, Tree, Single, Adds
<1>3. Anc(n)' = {n} \cup UNION {Anc(k) : k \in P}
  <2>1. UNION {commits[parents[i]].anc : i \in DOMAIN parents} = UNION {Anc(k) : k \in P}
    BY DEF Anc, Adds
  <2> QED
    BY <1>2, <2>1 DEF Anc
<1>4. (tip' = tip /\ tip \in Anc(n)') =>
        Tree(tip) \subseteq Tree(n)' /\ Tree(n)' \cap Direct \subseteq Tree(tip)
  <2>1. tip # n
    BY <1>0, CommitBounds DEF Ids, Adds
  <2> QED
    BY <1>2, <1>3, <2>1 DEF Adds
<1>5. /\ n = Len(commits) + 1 /\ P \in SUBSET Ids
      /\ \/ tip' = tip /\ ~commits'[n].onBase
         \/ tip' = n /\ tip \in P
  BY <1>2 DEF Adds
<1>6. (n \in Tree(n)' \/ ~Single(n)' \/ tip' = n) /\ (n \in Tree(n)' => Single(n)')
  BY <1>2 DEF Adds
<1>7. /\ \A e \in Tree(n)' \ {n} :
           \E k \in Ids : e \in Tree(k) /\ (tip' = tip => k \in P \cup {tip})
      /\ \A k \in P : Tree(k) \ Direct \subseteq Tree(n)'
  BY <1>2 DEF Adds
<1> QED
  BY <1>0, <1>1, <1>3, <1>4, <1>5, <1>6, <1>7, OneCommitKeepsTrees

LEMMA NewCommit ==
  ASSUME GitHubTypeOK, NEW n, n = Len(commits) + 1
  PROVE  /\ tip \in Ids /\ n \in Nat /\ n \notin Ids /\ Ids \subseteq 1..n /\ n \in 1..n
         /\ \A i \in Ids : Tree(i) \subseteq Ids
         /\ \A p \in PRs : HeadSHA(p) \in Ids
         /\ Direct \subseteq Ids
BY CommitBounds DEF GitHubTypeOK, HeadSHA, Ids, Direct

LEMMA PushKeepsTrees ==
  ASSUME GitHubTypeOK, TreeInv, NEW p \in PRs, Push(p) \/ Update(p)
  PROVE  TreeInv'
<1>1. PICK n, h : n = Len(commits) + 1 /\ h = HeadSHA(p)
  OBVIOUS
<1>2. /\ tip \in Ids /\ h \in Ids /\ n \in Nat /\ n \notin Ids /\ Ids \subseteq 1..n /\ n \in 1..n
      /\ \A i \in Ids : Tree(i) \subseteq Ids
      /\ Direct \subseteq Ids
  BY <1>1, NewCommit
<1>3. tip' = tip
  BY DEF Push, Update
<1>4. CASE Push(p)
  <2>1. commits' = Append(commits, Commit(Tree(h) \cup {n}, <<h>>, FALSE))
    BY <1>1, <1>4 DEF Push, Tree
  <2>2. <<h>> \in Seq(Ids) /\ Len(<<h>>) = 1 /\ {h} = {<<h>>[i] : i \in DOMAIN <<h>>}
    BY <1>2
  <2>3. tip \in Anc(h) => /\ Tree(tip) \subseteq Tree(h) \cup {n}
                          /\ (Tree(h) \cup {n}) \cap Direct \subseteq Tree(tip)
    BY <1>2 DEF TreeInv
  <2>4. Tree(h) \cup {n} \in SUBSET (1..n)
    BY <1>2
  <2>5. Adds(n, Tree(h) \cup {n}, <<h>>, FALSE, {h})
    BY <1>1, <1>2, <1>3, <2>1, <2>2, <2>3, <2>4 DEF Adds
  <2> QED
    BY <2>5, CommitKeepsTrees
<1>5. CASE Update(p)
  <2> DEFINE tree == MergedTree(tip, h)
  <2>1. commits' = Append(commits, Commit(tree, <<h, tip>>, FALSE))
    BY <1>1, <1>5 DEF Update
  <2>2. <<h, tip>> \in Seq(Ids) /\ Len(<<h, tip>>) = 2
        /\ {h, tip} = {<<h, tip>>[i] : i \in DOMAIN <<h, tip>>}
    BY <1>2
  <2>3. tree = Tree(tip) \cup (Tree(h) \ Direct)
    BY DEF MergedTree, Tree
  <2>4. tree \in SUBSET (1..n) /\ n \notin tree
    BY <1>2, <2>3
  <2> HIDE DEF tree
  <2>5. Adds(n, tree, <<h, tip>>, FALSE, {h, tip})
    BY <1>1, <1>2, <1>3, <2>1, <2>2, <2>3, <2>4 DEF Adds
  <2> QED
    BY <2>5, CommitKeepsTrees
<1> QED
  BY <1>4, <1>5

LEMMA PushToBaseKeepsTrees ==
  ASSUME GitHubTypeOK, TreeInv, PushToBase
  PROVE  TreeInv'
<1>1. PICK n : n = Len(commits) + 1
  OBVIOUS
<1>2. /\ tip \in Ids /\ n \in Nat /\ n \notin Ids /\ Ids \subseteq 1..n /\ n \in 1..n
      /\ Tree(tip) \subseteq Ids
  BY <1>1, NewCommit
<1>3. PICK tree \in {Tree(tip) \cup {n}} \cup {Tree(tip) \ {e} : e \in Direct \cap Tree(tip)} :
        commits' = Append(commits, Commit(tree, <<tip>>, TRUE))
  BY <1>1 DEF PushToBase, Tree
<1>4. /\ tip' = n
      /\ <<tip>> \in Seq(Ids) /\ Len(<<tip>>) = 1 /\ {tip} = {<<tip>>[i] : i \in DOMAIN <<tip>>}
  BY <1>1, <1>2 DEF PushToBase
<1>5. /\ tree \in SUBSET (1..n) /\ Tree(tip) \ Direct \subseteq tree
      /\ \A e \in tree \ {n} : e \in Tree(tip)
  BY <1>2, <1>3
<1>6. tip' # tip
  BY <1>2, <1>4
<1>7. Adds(n, tree, <<tip>>, TRUE, {tip})
  BY <1>1, <1>2, <1>3, <1>4, <1>5, <1>6 DEF Adds
<1> QED
  BY <1>7, CommitKeepsTrees

LEMMA MergeKeepsTrees ==
  ASSUME GitHubTypeOK, TreeInv, NEW p \in PRs, MergeOrSquash(p)
  PROVE  TreeInv'
<1>1. PICK n, h : n = Len(commits) + 1 /\ h = HeadSHA(p)
  OBVIOUS
<1>2. /\ tip \in Ids /\ h \in Ids /\ n \in Nat /\ n \notin Ids /\ Ids \subseteq 1..n
      /\ \A i \in Ids : Tree(i) \subseteq Ids
  BY <1>1, NewCommit
<1>3. PICK tree : tree = MergedTree(tip, h)
  OBVIOUS
<1>4. PICK parents \in {<<tip, h>>, <<tip>>} :
        commits' = Append(commits, Commit(tree, parents, FALSE))
  BY <1>1, <1>3 DEF MergeOrSquash
<1>5. tree = Tree(tip) \cup (Tree(h) \ Direct)
  BY <1>3 DEF MergedTree, Tree
<1>6. tip' = n /\ tip' # tip
  BY <1>1, <1>2 DEF MergeOrSquash, Land
<1>7. tree \in SUBSET (1..n) /\ n \notin tree
  BY <1>2, <1>5
<1>8. PICK P \in {{tip, h}, {tip}} : /\ parents \in Seq(Ids)
                                     /\ P = {parents[i] : i \in DOMAIN parents}
  <2>1. CASE parents = <<tip, h>>
    <3>1. <<tip, h>> \in Seq(Ids) /\ {tip, h} = {<<tip, h>>[i] : i \in DOMAIN <<tip, h>>}
      BY <1>2
    <3> QED
      BY <2>1, <3>1
  <2>2. CASE parents = <<tip>>
    <3>1. <<tip>> \in Seq(Ids) /\ {tip} = {<<tip>>[i] : i \in DOMAIN <<tip>>}
      BY <1>2
    <3> QED
      BY <2>2, <3>1
  <2> QED
    BY <1>4, <2>1, <2>2
<1>9. /\ \A k \in P : k \in {tip, h} /\ k \in Ids
      /\ tip \in P /\ P \in SUBSET Ids
  BY <1>2, <1>8
<1>10. Adds(n, tree, parents, FALSE, P)
  BY <1>1, <1>2, <1>4, <1>5, <1>6, <1>7, <1>8, <1>9 DEF Adds
<1> QED
  BY <1>10, CommitKeepsTrees

\* What a rebase replays, R, and the edits F[j] of its first j commits.
Replays(p, n, R, F) ==
  /\ R = {i \in Anc(HeadSHA(p)) \ Anc(tip) : Single(i)}
  /\ F[n] = R /\ Rebased(n, R, F)
  /\ CommitsOK' /\ Grown

LEMMA RebasedCommit ==
  ASSUME NEW n \in Nat, NEW tree, NEW last \in Nat, NEW j \in 1..n
  PROVE  /\ RebaseCommits(n, tree, last)[j].tree = tree[j]
         /\ RebaseCommits(n, tree, last)[j].anc
              = commits[tip].anc \cup (last + 1)..(last + j)
         /\ ~RebaseCommits(n, tree, last)[j].onBase
BY DEF RebaseCommits

LEMMA RebaseReplays ==
  ASSUME GitHubTypeOK, NEW p \in PRs, Rebase(p)
  PROVE  \E n \in Nat \ {0}, R \in SUBSET Ids : \E F : Replays(p, n, R, F)
<1> DEFINE replayed == {i \in commits[HeadSHA(p)].anc \ commits[tip].anc :
                          Len(commits[i].parents) = 1}
           first(j) == {i \in replayed : Cardinality({k \in replayed : k <= i}) <= j}
           n == Cardinality(replayed)
           F == [j \in 1..n |-> first(j)]
           tree == [j \in 1..n |-> commits[tip].tree \cup first(j)]
           last == Len(commits)
<1>1. CommitsOK /\ last \in Nat /\ tip \in Ids /\ HeadSHA(p) \in Ids
  BY LenCommits DEF GitHubTypeOK, HeadSHA
<1>2. replayed \subseteq 1..HeadSHA(p) /\ 1..HeadSHA(p) \subseteq Ids /\ HeadSHA(p) \in Int
  BY <1>1 DEF CommitsOK, Ids
<1>3. IsFiniteSet(replayed) /\ n \in Nat
  <2>1. IsFiniteSet(1..HeadSHA(p))
    BY <1>2, FS_Interval
  <2>2. IsFiniteSet(replayed)
    BY <1>2, <2>1, FS_Subset
  <2> QED
    BY <2>2, FS_CardinalityType
<1>4. \A i \in replayed : /\ Cardinality({k \in replayed : k <= i}) \in Nat
                          /\ Cardinality({k \in replayed : k <= i}) <= n
  <2> SUFFICES ASSUME NEW i \in replayed
               PROVE  /\ Cardinality({k \in replayed : k <= i}) \in Nat
                      /\ Cardinality({k \in replayed : k <= i}) <= n
    OBVIOUS
  <2> DEFINE S == {k \in replayed : k <= i}
  <2>1. S \in SUBSET replayed
    OBVIOUS
  <2> HIDE DEF S, replayed
  <2>2. IsFiniteSet(S) /\ Cardinality(S) <= Cardinality(replayed)
    BY <1>3, <2>1, FS_Subset
  <2>3. Cardinality(S) \in Nat
    BY <2>2, FS_CardinalityType
  <2> QED
    BY <2>2, <2>3 DEF S
<1>5. \A j \in Nat : first(j) \subseteq replayed
  OBVIOUS
<1>6. first(n) = replayed
  <2> HIDE DEF replayed, n
  <2> QED
    BY <1>4
<1>7. \A j, k \in Nat : k <= j => first(k) \subseteq first(j)
  <2> HIDE DEF replayed
  <2> QED
    BY <1>4
<1>8. tree \in [1..n -> SUBSET Ids]
  <2>1. commits[tip].tree \subseteq Ids
    BY <1>1 DEF CommitsOK
  <2>2. \A j : first(j) \subseteq Ids
    BY <1>2
  <2> HIDE DEF first
  <2> QED
    BY <2>1, <2>2
<1>9. n > 0 /\ tip' = last + n /\ commits' = commits \o RebaseCommits(n, tree, last)
  <2>1. \A j \in 1..n : tree[j] = commits[tip].tree \cup first(j)
    OBVIOUS
  <2>2. /\ n > 0 /\ tip' = last + n
        /\ commits' = commits \o
              [j \in 1..n |->
                 [tree |-> commits[tip].tree \cup first(j),
                  parents |-> <<IF j = 1 THEN tip ELSE last + j - 1>>,
                  onBase |-> FALSE,
                  anc |-> commits[tip].anc \cup (last + 1)..(last + j)]]
    BY DEF Rebase, Land
  <2> HIDE DEF n, first, tree
  <2> QED
    BY <2>1, <2>2 DEF RebaseCommits
<1>10. n \in Nat \ {0}
  <2> HIDE DEF n
  <2> QED
    BY <1>3, <1>9
<1>11. /\ CommitsOK' /\ Grown /\ Len(commits') = last + n
       /\ \A j \in 1..n : commits'[last + j] = RebaseCommits(n, tree, last)[j]
  <2> HIDE DEF n, tree
  <2> QED
    BY <1>1, <1>8, <1>9, <1>10, ConcatCommits, Zenon
<1>12. \A j \in 1..n : /\ commits'[last + j].tree = Tree(tip) \cup F[j]
                       /\ commits'[last + j].anc = Anc(tip) \cup (last + 1)..(last + j)
                       /\ ~commits'[last + j].onBase
  <2> HIDE DEF n, first
  <2>1. \A j \in 1..n : tree[j] = Tree(tip) \cup F[j]
    BY DEF Tree
  <2> HIDE DEF tree, F
  <2>2. n \in Nat \ {0} /\ last \in Nat
    BY <1>1, <1>10
  <2> HIDE DEF last
  <2>3. \A j \in 1..n :
          /\ commits'[last + j].tree = tree[j]
          /\ commits'[last + j].anc = commits[tip].anc \cup (last + 1)..(last + j)
          /\ ~commits'[last + j].onBase
    BY <1>11, <2>2, RebasedCommit
  <2> QED
    BY <2>1, <2>3 DEF Anc
<1>13. replayed = {i \in Anc(HeadSHA(p)) \ Anc(tip) : Single(i)} /\ replayed \in SUBSET Ids
  BY <1>2 DEF Anc, Single
<1>14. /\ F \in [1..n -> SUBSET replayed] /\ F[n] = replayed
       /\ \A j \in 1..n : \A k \in 1..j : F[k] \subseteq F[j]
  <2> HIDE DEF n, first, replayed
  <2> QED
    BY <1>5, <1>6, <1>7, <1>10
<1>15. Replays(p, n, replayed, F)
  <2> HIDE DEF n, first, replayed, F
  <2> QED
    BY <1>9, <1>11, <1>12, <1>13, <1>14 DEF Replays, Rebased
<1> HIDE DEF n, first, replayed, F
<1> QED
  BY <1>10, <1>13, <1>15

LEMMA TreesOfRebase ==
  ASSUME GitHubTypeOK, TreeInv, NEW p \in PRs, Rebase(p)
  PROVE  /\ TreeInv'
         /\ tip \in Anc(HeadSHA(p)) => commits'[tip'].tree = Tree(HeadSHA(p))
<1>0. PICK n \in Nat \ {0}, R \in SUBSET Ids : \E F : Replays(p, n, R, F)
  BY RebaseReplays
<1>1. PICK F : Replays(p, n, R, F)
  BY <1>0
<1>2. PICK last \in Nat : last = Len(commits)
  BY LenCommits DEF GitHubTypeOK
<1>3. CommitsOK /\ tip \in Ids /\ \A i \in R : Single(i) /\ i \notin Anc(tip)
  BY <1>1 DEF Replays, GitHubTypeOK
<1>4. TreeInv'
  <2>1. CommitsOK' /\ Grown /\ Rebased(n, R, F)
    BY <1>1 DEF Replays
  <2> QED
    BY <1>3, <2>1, RebaseKeepsTrees
<1>5. ASSUME tip \in Anc(HeadSHA(p)) PROVE commits'[tip'].tree = Tree(HeadSHA(p))
  <2> DEFINE h == HeadSHA(p)
  <2>1. commits'[tip'].tree = Tree(tip) \cup R
    BY <1>1, <1>2 DEF Replays, Rebased
  <2>2. h \in Ids /\ Anc(h) \subseteq Ids
    BY <1>3, CommitBounds DEF GitHubTypeOK, HeadSHA
  <2>3. Tree(tip) \subseteq Tree(h)
    BY <1>5, <2>2 DEF TreeInv
  <2>4. ASSUME NEW e \in R PROVE e \in Tree(h)
    <3>1. e \in Anc(h) /\ e \in Ids /\ e \notin Anc(tip) /\ Single(e)
      BY <1>1, <2>2 DEF Replays
    <3>2. e \in Tree(e) /\ e \notin Direct
      BY <3>1 DEF TreeInv
    <3> QED
      BY <2>2, <3>1, <3>2 DEF TreeInv
  <2>5. ASSUME NEW e \in Tree(h), e \notin Tree(tip) PROVE e \in R
    <3>1. e \notin Direct
      BY <1>5, <2>2, <2>5 DEF TreeInv
    <3>2. e \in Anc(h) /\ e \in Tree(e) /\ (Single(e) \/ e \in Anc(tip))
      BY <2>2, <2>5, <3>1 DEF TreeInv
    <3>3. e \notin Anc(tip)
      BY <1>3, <2>5, <3>1, <3>2 DEF TreeInv
    <3> QED
      BY <1>1, <3>2, <3>3 DEF Replays
  <2> HIDE DEF h
  <2>6. commits'[tip'].tree = Tree(h)
    BY <2>1, <2>3, <2>4, <2>5
  <2> QED
    BY <2>6 DEF h
<1> QED
  BY <1>4, <1>5

LEMMA TreesOfMerge ==
  ASSUME GitHubTypeOK, TreeInv, NEW p \in PRs, MergeOrSquash(p)
  PROVE  tip \in Anc(HeadSHA(p)) => commits'[tip'].tree = Tree(HeadSHA(p))
<1> SUFFICES ASSUME tip \in Anc(HeadSHA(p)) PROVE commits'[tip'].tree = Tree(HeadSHA(p))
  OBVIOUS
<1> DEFINE h == HeadSHA(p)
           n == Len(commits) + 1
           tree == MergedTree(tip, h)
<1>1. /\ CommitsOK /\ Len(commits) \in Nat /\ tip \in Ids /\ h \in Ids
      /\ Tree(tip) \subseteq 1..n /\ Tree(h) \subseteq 1..n
  BY LenCommits, NewCommit DEF GitHubTypeOK, HeadSHA
<1>2. tree = Tree(tip) \cup (Tree(h) \ Direct)
  BY DEF MergedTree, Tree
<1>3. tree = Tree(h)
  <2>1. Tree(tip) \subseteq Tree(h) /\ Tree(h) \cap Direct \subseteq Tree(tip)
    BY <1>1 DEF TreeInv
  <2> QED
    BY <1>2, <2>1
<1>4. PICK parents \in {<<tip, h>>, <<tip>>} : commits' = Append(commits, Commit(tree, parents, FALSE))
  BY DEF MergeOrSquash
<1>5. parents \in Seq(Ids)
  <2>1. <<tip, h>> \in Seq(Ids) /\ <<tip>> \in Seq(Ids)
    BY <1>1
  <2> QED
    BY <1>4, <2>1
<1>6. tree \in SUBSET (1..n) /\ FALSE \in BOOLEAN
  BY <1>1, <1>2
<1>7. commits'[n] = Commit(tree, parents, FALSE)
  <2> HIDE DEF tree
  <2> QED
    BY <1>1, <1>4, <1>5, <1>6, AppendCommit
<1>8. tip' = n
  BY DEF MergeOrSquash, Land
<1> QED
  BY <1>3, <1>7, <1>8 DEF Commit

-----------------------------------------------------------------------------
(* The steps of GitHub *)

LEMMA GitHubKeepsTrees ==
  ASSUME GitHubTypeOK, TreeInv, Next
  PROVE  TreeInv'
<1>1. CASE (\E p \in PRs : ShowMergeCommit(p)) \/ \E w \in Workspaces : ChangeConfig(w)
  <2>1. UNCHANGED <<commits, tip>>
    BY <1>1 DEF ShowMergeCommit, ChangeConfig
  <2> QED
    BY <2>1 DEF TreeInv, Tree, Anc, Single, Ids, Direct
<1> QED
  BY <1>1, PushKeepsTrees, PushToBaseKeepsTrees, MergeKeepsTrees, TreesOfRebase DEF Next

\* A landed pull request keeps its head; the one that lands holds its head's tree
\* if that was up to date.
LEMMA LandedKeepsHead ==
  ASSUME GitHubTypeOK, TreeInv, Next, NEW p \in PRs, pulls'[p].landed # 0
  PROVE  /\ pulls'[p].head = pulls[p].head
         /\ (pulls[p].landed = 0 /\ tip \in Anc(HeadSHA(p))) =>
              commits'[tip'].tree = Tree(HeadSHA(p))
<1>1. ASSUME NEW q \in PRs, Push(q) \/ Update(q)
      PROVE  pulls'[p].head = pulls[p].head /\ pulls'[p].landed = pulls[p].landed
  <2>1. PICK i : pulls' = [pulls EXCEPT ![q].head = i] /\ pulls[q].landed = 0
    BY <1>1 DEF Push, Update, Open
  <2> QED
    BY <2>1 DEF GitHubTypeOK
<1>2. ASSUME NEW q \in PRs, MergeOrSquash(q) \/ Rebase(q)
      PROVE  /\ pulls'[p].head = pulls[p].head
             /\ pulls'[p].landed # pulls[p].landed => p = q
  <2>1. PICK i : Land(q, i)
    BY <1>2 DEF MergeOrSquash, Rebase
  <2> QED
    BY <2>1 DEF Land, GitHubTypeOK
<1>3. ASSUME (\E q \in PRs : ShowMergeCommit(q)) \/ PushToBase
             \/ \E w \in Workspaces : ChangeConfig(w)
      PROVE  pulls'[p].head = pulls[p].head /\ pulls'[p].landed = pulls[p].landed
  <2>1. UNCHANGED pulls \/ \E q \in PRs : pulls' = [pulls EXCEPT ![q].shown = TRUE]
    BY <1>3 DEF ShowMergeCommit, PushToBase, ChangeConfig
  <2> QED
    BY <2>1 DEF GitHubTypeOK
<1> QED
  BY <1>1, <1>2, <1>3, TreesOfMerge, TreesOfRebase DEF Next

LEMMA GitHubKeepsTInv ==
  ASSUME TInv, GitHubStep
  PROVE  TInv'
<1>1. AInv' /\ GitHubTypeOK /\ Next /\ GitHubTypeOK' /\ Moved
  BY GitHubKeepsAInv, GitHubMoves DEF TInv, AInv, TypeOK, GitHubStep
<1>2. TreeInv'
  BY <1>1, GitHubKeepsTrees DEF TInv
<1>u. UNCHANGED <<plans, staged, applies>>
  BY DEF GitHubStep
<1>i. \A i \in Ids : i \in Ids' /\ commits'[i] = commits[i]
  BY <1>1, LenCommits DEF Moved, Grown, Ids, GitHubTypeOK, CommitsOK
<1>p. \A p \in PRs :
        /\ pulls[p].head \in Ids
        /\ pulls[p].landed # 0 => /\ pulls'[p].landed = pulls[p].landed
                                  /\ pulls'[p].onto = pulls[p].onto
                                  /\ pulls[p].landed \in Ids
  BY <1>1 DEF GitHubTypeOK, Moved
<1>3. LandTree'
  <2> SUFFICES ASSUME NEW p \in PRs, pulls'[p].landed # 0,
                      pulls'[p].onto \in commits'[pulls'[p].head].anc
               PROVE  commits'[pulls'[p].landed].tree = commits'[pulls'[p].head].tree
    BY DEF LandTree, Landed, Onto, HeadSHA, Tree, Anc
  <2>1. pulls'[p].head = pulls[p].head /\ commits'[pulls[p].head] = commits[pulls[p].head]
    BY <1>1, <1>i, <1>p, LandedKeepsHead DEF TInv
  <2>2. CASE pulls[p].landed # 0
    <3>1. commits'[pulls'[p].landed] = commits[pulls[p].landed]
      BY <1>i, <1>p, <2>2
    <3> QED
      BY <1>p, <2>1, <2>2, <3>1 DEF TInv, LandTree, Landed, Onto, HeadSHA, Tree, Anc
  <2>3. CASE pulls[p].landed = 0
    <3>1. pulls'[p].onto = tip /\ pulls'[p].landed = tip'
      BY <1>1, <2>3 DEF Moved
    <3>2. tip \in Anc(HeadSHA(p))
      BY <2>1, <3>1 DEF Anc, HeadSHA
    <3>3. commits'[tip'].tree = Tree(HeadSHA(p))
      BY <1>1, <2>3, <3>2, LandedKeepsHead DEF TInv
    <3> QED
      BY <2>1, <3>1, <3>3 DEF Tree, HeadSHA
  <2> QED
    BY <2>2, <2>3
<1>4. PlannedInv'
  <2>1. \A q \in Planners : plans[q].pc \in {"run", "stage"} => plans[q].head \in Ids
    BY DEF TInv, AInv, TypeOK
  <2>2. \A m \in staged : m.head \in Ids
    BY DEF TInv, AInv, StagedInv
  <2> QED
    BY <1>u, <1>i, <2>1, <2>2 DEF TInv, PlannedInv, Anc
<1>5. MismatchInv'
  <2>1. \A a \in Appliers : applies[a].pr \in PRs
    BY DEF TInv, AInv, TypeOK
  <2>2. \A a \in Appliers : Landed(applies[a].pr) # 0 =>
          /\ Landed(applies[a].pr)' = Landed(applies[a].pr)
          /\ commits'[Landed(applies[a].pr)] = commits[Landed(applies[a].pr)]
    BY <1>u, <1>i, <1>p, <2>1 DEF Landed
  <2> QED
    BY <1>u, <2>2 DEF TInv, MismatchInv, Tree
<1> QED
  BY <1>1, <1>2, <1>3, <1>4, <1>5 DEF TInv

-----------------------------------------------------------------------------
(* The steps of the verbs *)

LEMMA UpToDateHoldsBase ==
  ASSUME GitHubTypeOK, NEW h \in Ids, UpToDate(tip, h)
  PROVE  tip \in Anc(h)
<1>1. tip \in Ids /\ tip \in Int /\ Anc(tip) \subseteq 1..tip /\ tip \in Anc(tip)
  BY DEF GitHubTypeOK, CommitsOK, Ids, Anc
<1>2. IsFiniteSet(Anc(tip) \ Anc(h))
  <2>1. IsFiniteSet(1..tip)
    BY <1>1, FS_Interval
  <2> QED
    BY <1>1, <2>1, FS_Subset
<1>3. Cardinality(Anc(tip) \ Anc(h)) = 0
  BY DEF UpToDate, BehindBy, Anc
<1>4. Anc(tip) \ Anc(h) = {}
  BY <1>2, <1>3, FS_EmptySet
<1> QED
  BY <1>1, <1>4

LEMMA PlanKeepsTInv ==
  ASSUME TInv, NEW q \in Planners, PlanStep(q)
  PROVE  TInv'
<1>1. AInv'
  BY PlanKeepsAInv DEF TInv
<1>u. UNCHANGED <<commits, tip, pulls, config, applies, cleared>>
  BY DEF PlanStep, PlanLoad, PlanPull, PlanResolve, PlanRun, PlanStage, PlanFrame
<1>2. TreeInv' /\ LandTree'
  BY <1>u DEF TInv, TreeInv, LandTree, Tree, Anc, Single, Ids, Direct, Landed, Onto, HeadSHA
<1>s. staged \subseteq staged'
  BY DEF PlanStep, PlanLoad, PlanPull, PlanResolve, PlanRun, PlanStage
<1>3. MismatchInv'
  BY <1>u, <1>s DEF TInv, MismatchInv, Landed, Tree
<1>o. \A p \in Planners \ {q} : plans'[p] = plans[p]
  BY DEF PlanStep, PlanLoad, PlanPull, PlanResolve, PlanRun, PlanStage, TInv, AInv, TypeOK
<1>4. plans'[q].pc \in {"run", "stage"} => plans'[q].base \in Anc(plans'[q].head)
  <2>1. CASE PlanResolve(q)
    <3>1. GitHubTypeOK /\ plans[q].head \in Ids
      BY <2>1 DEF PlanResolve, TInv, AInv, TypeOK
    <3>2. plans'[q].base = tip /\ plans'[q].head = plans[q].head
          /\ (plans'[q].pc \in {"run", "stage"} => UpToDate(tip, plans[q].head))
      BY <2>1 DEF PlanResolve, TInv, AInv, TypeOK
    <3> QED
      BY <3>1, <3>2, UpToDateHoldsBase
  <2>2. CASE PlanLoad(q) \/ PlanPull(q) \/ PlanStage(q)
    BY <2>2 DEF PlanLoad, PlanPull, PlanStage, TInv, AInv, TypeOK
  <2>3. CASE PlanRun(q)
    <3>1. plans'[q].base = plans[q].base /\ plans'[q].head = plans[q].head /\ plans[q].pc = "run"
      BY <2>3 DEF PlanRun, TInv, AInv, TypeOK
    <3> QED
      BY <3>1 DEF TInv, PlannedInv
  <2> QED
    BY <2>1, <2>2, <2>3 DEF PlanStep
<1>5. \A m \in staged' : m.base \in Anc(m.head)
  <2>1. CASE UNCHANGED staged
    BY <2>1 DEF TInv, PlannedInv
  <2>2. CASE PlanStage(q)
    <3>1. PICK m : /\ m = Meta(plans[q].pr, plans[q].ws, plans[q].base, plans[q].head,
                               GetCommitTree(plans[q].head), plans[q].ran)
                   /\ staged' \subseteq staged \cup {m}
      BY <2>2 DEF PlanStage
    <3>2. m.base = plans[q].base /\ m.head = plans[q].head
      BY <3>1 DEF Meta
    <3> QED
      BY <2>2, <3>1, <3>2 DEF PlanStage, TInv, PlannedInv
  <2> QED
    BY <2>1, <2>2 DEF PlanStep, PlanLoad, PlanPull, PlanResolve, PlanRun
<1>6. PlannedInv'
  BY <1>u, <1>o, <1>4, <1>5 DEF TInv, PlannedInv, Anc
<1> QED
  BY <1>1, <1>2, <1>3, <1>6 DEF TInv

LEMMA ApplyKeepsTInv ==
  ASSUME TInv, NEW a \in Appliers, ApplyStep(a)
  PROVE  TInv'
<1>1. AInv'
  BY ApplyKeepsAInv DEF TInv
<1>u. UNCHANGED <<commits, tip, pulls, config, plans, staged, cleared>>
  BY DEF ApplyStep, ApplyPull, ApplyResolve, Fetch, NotStaged, NotMerged, CheckMerge,
     CheckConfig, ApplyFrame
<1>2. TreeInv' /\ LandTree' /\ PlannedInv'
  BY <1>u DEF TInv, TreeInv, LandTree, PlannedInv, Tree, Anc, Single, Ids, Direct, Landed, Onto,
     HeadSHA
<1>o. \A b \in Appliers \ {a} : applies'[b] = applies[b]
  BY DEF ApplyStep, ApplyPull, ApplyResolve, Fetch, NotStaged, NotMerged, CheckMerge,
     CheckConfig, Conclude, TInv, AInv, TypeOK
<1> DEFINE r == applies[a]
           new == applies'[a]
<1>n. r.pc # "end" => r.outcome # "tree_mismatch"
  BY DEF TInv, AInv, VerdictInv
<1>3. new.pc = "merged" => new.meta.base = new.base /\ new.meta.head = new.head
  <2>1. CASE Fetch(a)
    BY <2>1 DEF Fetch, At, SameKey, TInv, AInv, TypeOK
  <2>2. CASE ~Fetch(a)
    BY <2>2 DEF ApplyStep, ApplyPull, ApplyResolve, NotStaged, NotMerged, CheckMerge,
       CheckConfig, Conclude, TInv, AInv, TypeOK
  <2> QED
    BY <2>1, <2>2
<1>4. new.outcome = "tree_mismatch" =>
        /\ new.meta \in staged /\ new.meta.base = new.base /\ new.meta.head = new.head
        /\ Landed(new.pr) # 0
        /\ commits[Landed(new.pr)].parents[1] = new.base
        /\ Tree(Landed(new.pr)) # new.meta.tree
  <2>1. CASE CheckMerge(a)
    <3> SUFFICES ASSUME new.outcome = "tree_mismatch"
                 PROVE  /\ new.meta \in staged /\ new.meta.base = new.base
                        /\ new.meta.head = new.head
                        /\ Landed(new.pr) # 0
                        /\ commits[Landed(new.pr)].parents[1] = new.base
                        /\ Tree(Landed(new.pr)) # new.meta.tree
      OBVIOUS
    <3>1. r.pc = "merged" /\ new.outcome # r.outcome
      BY <1>n, <2>1 DEF CheckMerge
    <3>2. /\ Conclude(a, "tree_mismatch") /\ MergeCommitSHA(r.pr) # 0
          /\ BaseHeld(r.meta, r.base, MergeCommitSHA(r.pr))
          /\ ~TreeHeld(r.meta, MergeCommitSHA(r.pr))
      BY <2>1, <3>1 DEF CheckMerge, Conclude, TInv, AInv, TypeOK
    <3>3. /\ new.meta = r.meta /\ new.base = r.base /\ new.head = r.head /\ new.pr = r.pr
      BY <3>2 DEF Conclude, TInv, AInv, TypeOK
    <3>4. MergeCommitSHA(r.pr) = Landed(r.pr)
      BY <3>2 DEF MergeCommitSHA, Landed
    <3>5. r.meta \in staged /\ r.meta.base = r.base /\ r.meta.head = r.head
      BY <3>1 DEF TInv, AInv, VerdictInv, MismatchInv
    <3> HIDE DEF r, new
    <3> QED
      BY <3>2, <3>3, <3>4, <3>5 DEF BaseHeld, TreeHeld, CommitParents, GetCommitTree, Tree
  <2>2. CASE ~CheckMerge(a)
    <3>1. new.outcome # "tree_mismatch"
      <4>1. applies \in [Appliers ->
             [pc : {"pull", "resolve", "fetch", "merged", "config", "end"}, pr : PRs,
              ws : Workspaces, head : {0} \cup Ids, base : {0} \cup Ids, meta : Metas,
              merge : {0} \cup Ids, outcome : Outcomes]]
        BY DEF TInv, AInv, TypeOK
      <4>2. CASE NotStaged(a) \/ NotMerged(a) \/ CheckConfig(a)
        <5>1. \E o \in Outcomes \ {"tree_mismatch"} : Conclude(a, o)
          BY <4>2 DEF NotStaged, NotMerged, CheckConfig, Outcomes
        <5> QED
          BY <4>1, <5>1 DEF Conclude
      <4>3. CASE ApplyPull(a) \/ ApplyResolve(a)
        BY <1>n, <4>1, <4>3 DEF ApplyPull, ApplyResolve
      <4>4. CASE Fetch(a)
        BY <1>n, <4>1, <4>4 DEF Fetch
      <4> QED
        BY <2>2, <4>2, <4>3, <4>4 DEF ApplyStep
    <3> QED
      BY <3>1
  <2> QED
    BY <2>1, <2>2
<1>5. MismatchInv'
  BY <1>u, <1>o, <1>3, <1>4 DEF TInv, MismatchInv, Landed, Tree
<1> QED
  BY <1>1, <1>2, <1>5 DEF TInv

LEMMA InitTInv == SysInit => TInv
<1> SUFFICES ASSUME SysInit PROVE TInv
  OBVIOUS
<1>1. AInv
  BY InitAInv
<1>2. /\ commits = << [tree |-> {1}, parents |-> <<>>, onBase |-> FALSE, anc |-> {1}],
                      [tree |-> {1, 2}, parents |-> <<1>>, onBase |-> FALSE, anc |-> {1, 2}],
                      [tree |-> {1, 3}, parents |-> <<1>>, onBase |-> FALSE, anc |-> {1, 3}] >>
      /\ tip = 1
  BY DEF SysInit, Init
<1>3. /\ Ids = {1, 2, 3} /\ Direct = {} /\ tip = 1
      /\ Tree(1) = {1} /\ Tree(2) = {1, 2} /\ Tree(3) = {1, 3}
      /\ Anc(1) = {1} /\ Anc(2) = {1, 2} /\ Anc(3) = {1, 3}
      /\ ~Single(1) /\ Single(2) /\ Single(3)
  BY <1>2 DEF Ids, Direct, Tree, Anc, Single
<1>4. TreeInv
  BY <1>3 DEF TreeInv
<1>5. LandTree /\ PlannedInv /\ MismatchInv
  <2>1. \A p \in PRs : Landed(p) = 0
    BY DEF SysInit, Init, Landed
  <2>2. /\ \A q \in Planners : plans[q].pc = "load"
        /\ \A a \in Appliers : applies[a].pc = "pull" /\ applies[a].outcome = "none"
        /\ staged = {}
    BY DEF SysInit
  <2> QED
    BY <2>1, <2>2 DEF LandTree, PlannedInv, MismatchInv
<1> QED
  BY <1>1, <1>4, <1>5 DEF TInv

LEMMA NextTInv == TInv /\ [SysNext]_vars => TInv'
<1> SUFFICES ASSUME TInv, [SysNext]_vars PROVE TInv'
  OBVIOUS
<1>1. CASE UNCHANGED vars
  <2>1. AInv'
    BY NextAInv DEF TInv
  <2> QED
    BY <1>1, <2>1
    DEF vars, TInv, TreeInv, LandTree, PlannedInv, MismatchInv, Tree, Anc, Single, Ids, Direct,
        Landed, Onto, HeadSHA
<1> QED
  BY <1>1, GitHubKeepsTInv, PlanKeepsTInv, ApplyKeepsTInv DEF SysNext

-----------------------------------------------------------------------------

\* A merge whose head is still the planned one has the planned tree: the comparison
\* of trees stops only what was pushed to after it was planned.
THEOREM MismatchesAreOfMovedHeads == Spec => []MismatchMeansHeadMoved
<1>1. TInv => MismatchMeansHeadMoved
  <2> SUFFICES ASSUME TInv, NEW a \in Appliers, applies[a].outcome = "tree_mismatch",
                      HeadSHA(applies[a].pr) = applies[a].head
               PROVE  FALSE
    BY DEF MismatchMeansHeadMoved
  <2> DEFINE r == applies[a]
  <2>1. /\ r.meta \in staged /\ r.meta.base = r.base /\ r.meta.head = r.head
        /\ Landed(r.pr) # 0
        /\ commits[Landed(r.pr)].parents[1] = r.base
        /\ Tree(Landed(r.pr)) # r.meta.tree
    BY DEF TInv, MismatchInv
  <2>2. r.pr \in PRs /\ r.pc \notin {"pull", "resolve"}
    BY DEF TInv, AInv, TypeOK, VerdictInv
  <2>3. r.base = Onto(r.pr)
    BY <2>1, <2>2, FirstParentIsOnto DEF TInv
  <2>4. r.base \in Anc(HeadSHA(r.pr)) /\ r.meta.tree = Tree(HeadSHA(r.pr))
    BY <2>1 DEF TInv, PlannedInv, AInv, StagedInv, GetCommitTree, Tree
  <2>5. Tree(Landed(r.pr)) = Tree(HeadSHA(r.pr))
    BY <2>1, <2>2, <2>3, <2>4 DEF TInv, LandTree
  <2> QED
    BY <2>1, <2>4, <2>5
<1> QED
  BY <1>1, InitTInv, NextTInv, PTL DEF Spec
=============================================================================
