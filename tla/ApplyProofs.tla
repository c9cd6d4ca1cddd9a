---------------------------- MODULE ApplyProofs ----------------------------
(***************************************************************************)
(* Proofs about Apply, for every number of runs, pull requests, workspaces *)
(* and commits, and whatever checkouts the plans ran in.                   *)
(*                                                                         *)
(* Commits are numbered in the order they are made, and the argument is    *)
(* about these numbers.  A step of GitHub only adds commits, never moves   *)
(* the base ref back, and lands a pull request on the tip, the first       *)
(* parent of its merge commit lying between the two (Moved).  So landings  *)
(* do not overlap (LandInv), and the tip a run of apply read lies outside  *)
(* all of them (BaseInv): if it is a merge commit's first parent, it is    *)
(* what that request landed on, and of no other request.                   *)
(***************************************************************************)
EXTENDS Apply, FiniteSetTheorems, SequenceTheorems, TLAPS

\* Commits are made, never changed.
Grown ==
  /\ Len(commits) <= Len(commits')
  /\ \A i \in Ids : commits'[i] = commits[i]

\* What one step of GitHub may do to a pull request.
Moved ==
  /\ Grown
  /\ tip <= tip'
  /\ \A p \in PRs :
       \/ pulls'[p].landed = pulls[p].landed /\ pulls'[p].onto = pulls[p].onto
       \/ /\ pulls[p].landed = 0
          /\ pulls'[p].onto = tip /\ pulls'[p].landed = tip'
          /\ tip < tip'
          /\ commits'[tip'].parents # <<>>
          /\ tip <= commits'[tip'].parents[1]

-----------------------------------------------------------------------------
(* The steps of GitHub *)

LEMMA LenCommits == CommitsOK => Len(commits) \in Nat /\ DOMAIN commits = Ids
  BY DEF CommitsOK, Ids

\* One more commit.
LEMMA AppendCommit ==
  ASSUME CommitsOK,
         NEW tree \in SUBSET (1..(Len(commits) + 1)),
         NEW parents \in Seq(Ids),
         NEW onBase \in BOOLEAN,
         commits' = Append(commits, Commit(tree, parents, onBase))
  PROVE  /\ CommitsOK' /\ Grown
         /\ Len(commits') = Len(commits) + 1
         /\ commits'[Len(commits) + 1].parents = parents
         /\ commits'[Len(commits) + 1] = Commit(tree, parents, onBase)
<1> DEFINE n == Len(commits) + 1
           c == Commit(tree, parents, onBase)
<1>1. Len(commits) \in Nat /\ commits \in Seq(CommitTypes) /\ n \in Nat
  BY LenCommits DEF CommitsOK
<1>2. \A i \in DOMAIN parents : parents[i] \in Ids /\ commits[parents[i]].anc \subseteq 1..(n - 1)
  <2> SUFFICES ASSUME NEW i \in DOMAIN parents
               PROVE  parents[i] \in Ids /\ commits[parents[i]].anc \subseteq 1..(n - 1)
    OBVIOUS
  <2>1. parents[i] \in Ids
    OBVIOUS
  <2>2. commits[parents[i]].anc \subseteq 1..parents[i]
    BY <2>1 DEF CommitsOK
  <2> QED
    BY <1>1, <2>1, <2>2 DEF Ids
<1>3. /\ c.tree = tree /\ c.parents = parents /\ c.onBase = onBase
      /\ c.anc = {n} \cup UNION {commits[parents[i]].anc : i \in DOMAIN parents}
  BY DEF Commit
<1>4. c.anc \subseteq 1..n /\ n \in c.anc
  BY <1>1, <1>2, <1>3
<1>5. c \in CommitTypes
  <2>1. parents \in Seq(Nat) /\ tree \in SUBSET Nat /\ c.anc \in SUBSET Nat
    BY <1>1, <1>4 DEF Ids
  <2> QED
    BY <1>3, <2>1 DEF Commit, CommitTypes
<1>6. /\ commits' \in Seq(CommitTypes) /\ Len(commits') = n
      /\ \A i \in 1..Len(commits) : commits'[i] = commits[i]
      /\ commits'[n] = c
  <2> HIDE DEF c
  <2> QED
    BY <1>1, <1>5, AppendProperties DEF c
<1>7. \A i \in 1..n : /\ commits'[i].tree \subseteq 1..n
                      /\ commits'[i].anc \subseteq 1..i
                      /\ i \in commits'[i].anc
                      /\ \A j \in DOMAIN commits'[i].parents : commits'[i].parents[j] \in 1..(i - 1)
  <2> SUFFICES ASSUME NEW i \in 1..n
               PROVE  /\ commits'[i].tree \subseteq 1..n
                      /\ commits'[i].anc \subseteq 1..i
                      /\ i \in commits'[i].anc
                      /\ \A j \in DOMAIN commits'[i].parents : commits'[i].parents[j] \in 1..(i - 1)
    OBVIOUS
  <2>1. CASE i = n
    <3>1. commits'[i] = c /\ Ids = 1..(n - 1)
      BY <1>1, <1>6, <2>1 DEF Ids
    <3> HIDE DEF c
    <3>2. \A j \in DOMAIN c.parents : c.parents[j] \in 1..(i - 1)
      BY <1>2, <1>3, <2>1, <3>1
    <3> QED
      BY <1>3, <1>4, <2>1, <3>1, <3>2
  <2>2. CASE i # n
    <3>1. i \in Ids /\ commits'[i] = commits[i]
      BY <1>1, <1>6, <2>2 DEF Ids
    <3>2. commits[i].tree \subseteq 1..n
      BY <1>1, <3>1 DEF CommitsOK, Ids
    <3> QED
      BY <3>1, <3>2 DEF CommitsOK
  <2> QED
    BY <2>1, <2>2
<1> QED
  BY <1>1, <1>3, <1>6, <1>7 DEF CommitsOK, Grown, Ids

\* A rebase makes n commits on top of the base.
RebaseCommits(n, tree, last) ==
  [j \in 1..n |->
     [tree |-> tree[j], parents |-> <<IF j = 1 THEN tip ELSE last + j - 1>>,
      onBase |-> FALSE, anc |-> commits[tip].anc \cup (last + 1)..(last + j)]]

LEMMA ConcatCommits ==
  ASSUME CommitsOK, tip \in Ids,
         NEW n \in Nat \ {0}, NEW tree \in [1..n -> SUBSET Ids],
         commits' = commits \o RebaseCommits(n, tree, Len(commits))
  PROVE  /\ CommitsOK' /\ Grown
         /\ Len(commits') = Len(commits) + n
         /\ commits'[Len(commits) + n].parents
              = <<IF n = 1 THEN tip ELSE Len(commits) + n - 1>>
         /\ \A j \in 1..n :
              commits'[Len(commits) + j] = RebaseCommits(n, tree, Len(commits))[j]
<1> DEFINE last == Len(commits)
           f == RebaseCommits(n, tree, last)
           first(j) == IF j = 1 THEN tip ELSE last + j - 1
<1>1. last \in Nat /\ commits \in Seq(CommitTypes) /\ tip \in 1..last
  BY LenCommits DEF CommitsOK, Ids
<1>2. commits[tip].anc \subseteq 1..last
  BY <1>1 DEF CommitsOK, Ids
<1>3. /\ DOMAIN f = 1..n
      /\ \A j \in 1..n : f[j] = [tree |-> tree[j], parents |-> <<first(j)>>, onBase |-> FALSE,
                                 anc |-> commits[tip].anc \cup (last + 1)..(last + j)]
  BY DEF RebaseCommits
<1>4. \A j \in 1..n : /\ f[j].tree = tree[j] /\ tree[j] \subseteq 1..last
                      /\ f[j].parents = <<first(j)>> /\ first(j) \in 1..(last + j - 1)
                      /\ f[j].anc \subseteq 1..(last + j) /\ last + j \in f[j].anc
  <2> SUFFICES ASSUME NEW j \in 1..n
               PROVE  /\ f[j].tree = tree[j] /\ tree[j] \subseteq 1..last
                      /\ f[j].parents = <<first(j)>> /\ first(j) \in 1..(last + j - 1)
                      /\ f[j].anc \subseteq 1..(last + j) /\ last + j \in f[j].anc
    OBVIOUS
  <2>1. f[j].tree = tree[j] /\ f[j].parents = <<first(j)>>
        /\ f[j].anc = commits[tip].anc \cup (last + 1)..(last + j)
    BY <1>3
  <2>2. tree[j] \subseteq 1..last /\ first(j) \in 1..(last + j - 1)
    BY <1>1 DEF Ids
  <2> QED
    BY <1>1, <1>2, <2>1, <2>2
<1>5. f \in Seq(CommitTypes) /\ Len(f) = n
  <2>1. \A j \in 1..n : f[j] \in CommitTypes
    <3> SUFFICES ASSUME NEW j \in 1..n PROVE f[j] \in CommitTypes
      OBVIOUS
    <3>1. tree[j] \in SUBSET Nat /\ <<first(j)>> \in Seq(Nat)
          /\ (commits[tip].anc \cup (last + 1)..(last + j)) \in SUBSET Nat
      BY <1>1, <1>2 DEF Ids
    <3>2. \A t \in SUBSET Nat, q \in Seq(Nat), a \in SUBSET Nat :
            [tree |-> t, parents |-> q, onBase |-> FALSE, anc |-> a] \in CommitTypes
      BY DEF CommitTypes
    <3>3. f[j] = [tree |-> tree[j], parents |-> <<first(j)>>, onBase |-> FALSE,
                  anc |-> commits[tip].anc \cup (last + 1)..(last + j)]
      BY <1>3
    <3> HIDE DEF f, first
    <3> QED
      BY <3>1, <3>2, <3>3, Zenon
  <2>2. f \in [1..n -> CommitTypes]
    BY <1>3, <2>1 DEF RebaseCommits
  <2> HIDE DEF f
  <2> QED
    BY <2>2
<1>6. /\ commits' \in Seq(CommitTypes) /\ Len(commits') = last + n
      /\ \A i \in 1..last : commits'[i] = commits[i]
      /\ \A j \in 1..n : commits'[last + j] = f[j]
  <2> HIDE DEF f
  <2>1. /\ commits' \in Seq(CommitTypes) /\ Len(commits') = last + n
        /\ \A i \in 1..(last + n) : commits'[i] = IF i <= last THEN commits[i] ELSE f[i - last]
    BY <1>1, <1>5, ConcatProperties DEF f
  <2>2. \A i \in 1..last : i \in 1..(last + n) /\ i <= last
    BY <1>1
  <2>3. \A j \in 1..n : last + j \in 1..(last + n) /\ ~(last + j <= last) /\ (last + j) - last = j
    BY <1>1
  <2> QED
    BY <2>1, <2>2, <2>3, Zenon
<1>7. \A i \in 1..(last + n) :
        /\ commits'[i].tree \subseteq 1..(last + n)
        /\ commits'[i].anc \subseteq 1..i
        /\ i \in commits'[i].anc
        /\ \A j \in DOMAIN commits'[i].parents : commits'[i].parents[j] \in 1..(i - 1)
  <2> SUFFICES ASSUME NEW i \in 1..(last + n)
               PROVE  /\ commits'[i].tree \subseteq 1..(last + n)
                      /\ commits'[i].anc \subseteq 1..i
                      /\ i \in commits'[i].anc
                      /\ \A j \in DOMAIN commits'[i].parents :
                           commits'[i].parents[j] \in 1..(i - 1)
    OBVIOUS
  <2>1. CASE i <= last
    <3>1. i \in Ids /\ commits'[i] = commits[i]
      BY <1>1, <1>6, <2>1 DEF Ids
    <3>2. commits[i].tree \subseteq 1..(last + n)
      BY <1>1, <3>1 DEF CommitsOK, Ids
    <3> QED
      BY <3>1, <3>2 DEF CommitsOK
  <2>2. CASE i > last
    <3>1. PICK j \in 1..n : i = last + j
      <4>1. i - last \in 1..n /\ i = last + (i - last)
        BY <1>1, <2>2
      <4> QED
        BY <4>1
    <3>2. commits'[i] = f[j]
      BY <1>6, <3>1
    <3> HIDE DEF f, first
    <3>3. \A k \in DOMAIN <<first(j)>> : <<first(j)>>[k] = first(j)
      OBVIOUS
    <3>4. /\ f[j].tree \subseteq 1..last
          /\ f[j].parents = <<first(j)>> /\ first(j) \in 1..(last + j - 1)
          /\ f[j].anc \subseteq 1..(last + j) /\ last + j \in f[j].anc
      BY <1>4, <3>1
    <3>5. 1..last \subseteq 1..(last + n) /\ 1..(last + j - 1) = 1..(i - 1)
      BY <1>1, <3>1
    <3>6. \A k \in DOMAIN f[j].parents : f[j].parents[k] \in 1..(i - 1)
      BY <3>3, <3>4, <3>5
    <3>7. f[j].tree \subseteq 1..(last + n)
      BY <3>4, <3>5
    <3> QED
      BY <3>1, <3>2, <3>4, <3>6, <3>7
  <2>3. i <= last \/ i > last
    BY <1>1
  <2> QED
    BY <2>1, <2>2, <2>3, Zenon
<1>8. commits'[last + n].parents = <<first(n)>>
  BY <1>4, <1>6
<1>9. CommitsOK'
  <2> HIDE DEF f, first
  <2> QED
    BY <1>6, <1>7 DEF CommitsOK, Ids
<1>10. Grown
  BY <1>1, <1>6 DEF Grown, Ids
<1> QED
  BY <1>6, <1>8, <1>9, <1>10

\* No pull request lands.
LEMMA NoLanding ==
  ASSUME GitHubTypeOK, CommitsOK', Grown,
         tip <= tip', tip' \in Ids', config' \subseteq Workspaces,
         \/ UNCHANGED pulls
         \/ \E p \in PRs, i \in Ids' : pulls' = [pulls EXCEPT ![p].head = i]
         \/ \E p \in PRs : pulls' = [pulls EXCEPT ![p].shown = TRUE]
  PROVE  GitHubTypeOK' /\ Moved
<1>1. Ids \subseteq Ids'
  BY LenCommits DEF GitHubTypeOK, Grown, Ids, CommitsOK
<1>2. pulls' \in [PRs -> [head : Ids', landed : {0} \cup Ids', onto : {0} \cup Ids',
                          shown : BOOLEAN]]
  <2>1. pulls \in [PRs -> [head : Ids', landed : {0} \cup Ids', onto : {0} \cup Ids',
                           shown : BOOLEAN]]
    BY <1>1 DEF GitHubTypeOK
  <2> QED
    BY <2>1
<1>3. \A p \in PRs : pulls'[p].landed = pulls[p].landed /\ pulls'[p].onto = pulls[p].onto
  BY DEF GitHubTypeOK
<1> QED
  BY <1>2, <1>3 DEF GitHubTypeOK, Moved

\* A pull request lands on the tip as a new commit.
LEMMA Landing ==
  ASSUME GitHubTypeOK, CommitsOK', Grown, config' = config,
         NEW p \in PRs, Open(p),
         NEW i \in Ids', i > Len(commits), Land(p, i),
         commits'[i].parents # <<>>, tip <= commits'[i].parents[1]
  PROVE  GitHubTypeOK' /\ Moved
<1>1. Ids \subseteq Ids' /\ Len(commits) \in Nat /\ tip \in Ids /\ tip < i
  BY LenCommits DEF GitHubTypeOK, Grown, Ids, CommitsOK
<1>2. pulls' \in [PRs -> [head : Ids', landed : {0} \cup Ids', onto : {0} \cup Ids',
                          shown : BOOLEAN]]
  <2>1. pulls \in [PRs -> [head : Ids', landed : {0} \cup Ids', onto : {0} \cup Ids',
                           shown : BOOLEAN]]
    BY <1>1 DEF GitHubTypeOK
  <2> QED
    BY <1>1, <2>1 DEF Land
<1>3. /\ \A q \in PRs \ {p} : pulls'[q] = pulls[q]
      /\ pulls'[p].landed = i /\ pulls'[p].onto = tip /\ tip' = i
  BY DEF GitHubTypeOK, Land
<1>4. tip < tip' /\ tip <= tip'
  BY <1>1, <1>3 DEF Ids
<1>5. Moved
  BY <1>3, <1>4 DEF Moved, Open
<1> QED
  BY <1>2, <1>3, <1>5 DEF GitHubTypeOK

LEMMA RebaseMoves ==
  ASSUME GitHubTypeOK, NEW p \in PRs, Rebase(p)
  PROVE  GitHubTypeOK' /\ Moved
<1> DEFINE replayed == {i \in commits[HeadSHA(p)].anc \ commits[tip].anc :
                          Len(commits[i].parents) = 1}
           n == Cardinality(replayed)
           first(j) == {i \in replayed : Cardinality({k \in replayed : k <= i}) <= j}
           tree == [j \in 1..n |-> commits[tip].tree \cup first(j)]
           last == Len(commits)
<1>1. CommitsOK /\ last \in Nat /\ tip \in Ids /\ HeadSHA(p) \in Ids
  BY LenCommits DEF GitHubTypeOK, HeadSHA
<1>2. replayed \subseteq 1..HeadSHA(p) /\ 1..HeadSHA(p) \subseteq Ids /\ HeadSHA(p) \in Int
  BY <1>1 DEF CommitsOK, Ids
<1>3. n \in Nat
  <2>1. IsFiniteSet(1..HeadSHA(p))
    BY <1>2, FS_Interval
  <2>2. IsFiniteSet(replayed)
    BY <1>2, <2>1, FS_Subset
  <2> QED
    BY <2>2, FS_CardinalityType
<1>4. tree \in [1..n -> SUBSET Ids]
  <2>1. commits[tip].tree \subseteq Ids
    BY <1>1 DEF CommitsOK
  <2>2. \A j : first(j) \subseteq Ids
    BY <1>2
  <2> HIDE DEF first
  <2> QED
    BY <2>1, <2>2
<1>5. /\ n > 0 /\ Open(p) /\ Land(p, last + n) /\ config' = config
      /\ commits' = commits \o RebaseCommits(n, tree, last)
  <2>1. \A j \in 1..n : tree[j] = commits[tip].tree \cup first(j)
    OBVIOUS
  <2>2. /\ n > 0 /\ Open(p) /\ Land(p, last + n) /\ config' = config
        /\ commits' = commits \o
              [j \in 1..n |->
                 [tree |-> commits[tip].tree \cup first(j),
                  parents |-> <<IF j = 1 THEN tip ELSE last + j - 1>>,
                  onBase |-> FALSE,
                  anc |-> commits[tip].anc \cup (last + 1)..(last + j)]]
    BY DEF Rebase, Mergeable
  <2> HIDE DEF n, first, tree
  <2> QED
    BY <2>1, <2>2 DEF RebaseCommits
<1>6. /\ CommitsOK' /\ Grown /\ Len(commits') = last + n
      /\ commits'[last + n].parents = <<IF n = 1 THEN tip ELSE last + n - 1>>
  <2> HIDE DEF n, tree
  <2>1. n \in Nat \ {0}
    BY <1>3, <1>5
  <2> QED
    BY <1>1, <1>4, <1>5, <2>1, ConcatCommits, Zenon
<1>7. /\ last + n \in Ids' /\ last + n > last
      /\ commits'[last + n].parents # <<>> /\ tip <= commits'[last + n].parents[1]
  <2> HIDE DEF n, tree
  <2> QED
    BY <1>1, <1>3, <1>5, <1>6 DEF Ids
<1> HIDE DEF n, tree
<1> QED
  BY <1>5, <1>6, <1>7, Landing

LEMMA MergeMoves ==
  ASSUME GitHubTypeOK, NEW p \in PRs, MergeOrSquash(p)
  PROVE  GitHubTypeOK' /\ Moved
<1> DEFINE n == Len(commits) + 1
           tree == MergedTree(tip, HeadSHA(p))
<1>1. CommitsOK /\ Len(commits) \in Nat /\ tip \in Ids /\ HeadSHA(p) \in Ids
  BY LenCommits DEF GitHubTypeOK, HeadSHA
<1>2. tree \in SUBSET (1..n)
  BY <1>1 DEF MergedTree, CommitsOK, Ids
<1>3. PICK parents \in {<<tip, HeadSHA(p)>>, <<tip>>} :
        commits' = Append(commits, Commit(tree, parents, FALSE))
  BY DEF MergeOrSquash
<1>4. parents \in Seq(Ids) /\ parents # <<>> /\ parents[1] = tip
  <2>1. CASE parents = <<tip, HeadSHA(p)>>
    BY <1>1, <2>1
  <2>2. CASE parents = <<tip>>
    BY <1>1, <2>2
  <2> QED
    BY <1>3, <2>1, <2>2
<1>5. CommitsOK' /\ Grown /\ Len(commits') = n /\ commits'[n].parents = parents
  <2> HIDE DEF tree
  <2> QED
    BY <1>1, <1>2, <1>3, <1>4, AppendCommit
<1>6. n \in Ids' /\ n > Len(commits) /\ tip <= tip
  BY <1>1, <1>5 DEF Ids
<1>7. Open(p) /\ Land(p, n) /\ config' = config
  BY DEF MergeOrSquash, Mergeable
<1> QED
  BY <1>4, <1>5, <1>6, <1>7, Landing

\* A push, to a pull request or to the base, and an update make one commit.
LEMMA PushMoves ==
  ASSUME GitHubTypeOK,
         PushToBase \/ \E p \in PRs : Push(p) \/ Update(p)
  PROVE  GitHubTypeOK' /\ Moved
<1> DEFINE n == Len(commits) + 1
<1>1. CommitsOK /\ Len(commits) \in Nat /\ tip \in Ids /\ \A p \in PRs : HeadSHA(p) \in Ids
  BY LenCommits DEF GitHubTypeOK, HeadSHA
<1>2. \A i \in Ids : commits[i].tree \subseteq 1..n /\ n \in 1..n /\ tip <= n /\ tip <= tip
  BY <1>1 DEF CommitsOK, Ids
<1>3. CASE PushToBase
  <2>1. PICK tree \in SUBSET (1..n) : commits' = Append(commits, Commit(tree, <<tip>>, TRUE))
    BY <1>1, <1>2, <1>3 DEF PushToBase
  <2>2. CommitsOK' /\ Grown /\ Len(commits') = n
    <3>1. <<tip>> \in Seq(Ids) /\ TRUE \in BOOLEAN
      BY <1>1
    <3> QED
      BY <1>1, <2>1, <3>1, AppendCommit
  <2>3. tip' = n /\ UNCHANGED <<pulls, config>> /\ tip' \in Ids'
    BY <1>1, <1>3, <2>2 DEF PushToBase, Ids
  <2> QED
    BY <1>1, <1>2, <2>2, <2>3, NoLanding DEF GitHubTypeOK
<1>4. ASSUME NEW p \in PRs, Push(p) \/ Update(p)
      PROVE  GitHubTypeOK' /\ Moved
  <2>1. PICK tree \in SUBSET (1..n), parents \in Seq(Ids) :
          commits' = Append(commits, Commit(tree, parents, FALSE))
    <3>1. CASE Push(p)
      <4>1. commits[HeadSHA(p)].tree \cup {n} \in SUBSET (1..n) /\ <<HeadSHA(p)>> \in Seq(Ids)
        BY <1>1, <1>2
      <4> QED
        BY <3>1, <4>1 DEF Push
    <3>2. CASE Update(p)
      <4>1. MergedTree(tip, HeadSHA(p)) \in SUBSET (1..n) /\ <<HeadSHA(p), tip>> \in Seq(Ids)
        BY <1>1, <1>2 DEF MergedTree
      <4> QED
        BY <3>2, <4>1 DEF Update
    <3> QED
      BY <1>4, <3>1, <3>2
  <2>2. CommitsOK' /\ Grown /\ Len(commits') = n
    BY <1>1, <2>1, AppendCommit
  <2>3. n \in Ids' /\ tip \in Ids'
    BY <1>1, <2>2 DEF Ids
  <2>4. pulls' = [pulls EXCEPT ![p].head = n] /\ tip' = tip /\ config' = config
    BY <1>4 DEF Push, Update
  <2> QED
    BY <1>1, <1>2, <2>2, <2>3, <2>4, NoLanding DEF GitHubTypeOK
<1> QED
  BY <1>3, <1>4

LEMMA GitHubMoves == GitHubTypeOK /\ Next => GitHubTypeOK' /\ Moved
<1> SUFFICES ASSUME GitHubTypeOK, Next PROVE GitHubTypeOK' /\ Moved
  OBVIOUS
<1>1. CASE \/ \E p \in PRs : ShowMergeCommit(p)
           \/ \E w \in Workspaces : ChangeConfig(w)
  <2>1. UNCHANGED <<commits, tip>>
    BY <1>1 DEF ShowMergeCommit, ChangeConfig
  <2>2. CommitsOK' /\ Grown /\ tip <= tip' /\ tip' \in Ids'
    BY <2>1, LenCommits DEF GitHubTypeOK, CommitsOK, Ids, Grown
  <2>3. config' \subseteq Workspaces
    BY <1>1 DEF ShowMergeCommit, ChangeConfig, GitHubTypeOK
  <2>4. UNCHANGED pulls \/ \E p \in PRs : pulls' = [pulls EXCEPT ![p].shown = TRUE]
    BY <1>1 DEF ShowMergeCommit, ChangeConfig
  <2> QED
    BY <2>2, <2>3, <2>4, NoLanding
<1> QED
  BY <1>1, PushMoves, MergeMoves, RebaseMoves DEF Next

-----------------------------------------------------------------------------
(* The inductive invariant *)

Landed(p) == pulls[p].landed
Onto(p) == pulls[p].onto

\* A landing spans the base it landed on, the first parent and the merge commit;
\* the spans of two landings do not overlap.
LandInv ==
  \A p \in PRs : Landed(p) # 0 =>
    /\ commits[Landed(p)].parents # <<>>
    /\ Onto(p) <= commits[Landed(p)].parents[1]
    /\ commits[Landed(p)].parents[1] < Landed(p)
    /\ Landed(p) <= tip
    /\ \A q \in PRs : (Landed(q) # 0 /\ Landed(p) < Landed(q)) => Landed(p) <= Onto(q)

\* The tip that was read lies in no landing.
BaseInv ==
  \A a \in Appliers : applies[a].pc \notin {"pull", "resolve"} =>
    /\ applies[a].base <= tip
    /\ \A p \in PRs : Landed(p) # 0 => \/ applies[a].base <= Onto(p)
                                       \/ Landed(p) <= applies[a].base

\* What is staged records the tree of its head.
StagedInv == \A m \in staged : m.head \in Ids /\ m.tree = GetCommitTree(m.head)

\* What has passed the comparisons is a plan of the merge commit.
Passed(a) ==
  LET r == applies[a]
  IN  /\ r.meta \in staged /\ r.meta.ws = r.ws
      /\ r.merge # 0 /\ r.merge = Landed(r.pr)
      /\ r.meta.base = r.base
      /\ commits[r.merge].parents[1] = r.base
      /\ GetCommitTree(r.merge) = r.meta.tree

VerdictInv ==
  \A a \in Appliers :
    /\ applies[a].pc # "end" => applies[a].outcome = "none"
    /\ applies[a].pc = "merged" =>
         applies[a].meta \in staged /\ applies[a].meta.ws = applies[a].ws
    /\ (applies[a].pc = "config" \/ Applicable(a)) => Passed(a)

ClearedInv ==
  \A p \in PRs, w \in Workspaces : (Landed(p) # 0 /\ w \in config) => <<p, w>> \in cleared

AInv ==
  TypeOK /\ LandInv /\ BaseInv /\ StagedInv /\ VerdictInv /\ ClearedInv /\ AuthorizedAfterMerge

-----------------------------------------------------------------------------

LEMMA InitAInv == SysInit => AInv
<1> SUFFICES ASSUME SysInit PROVE AInv
  OBVIOUS
<1>1. GitHubTypeOK
  <2> DEFINE c1 == [tree |-> {1}, parents |-> <<>>, onBase |-> FALSE, anc |-> {1}]
             c2 == [tree |-> {1, 2}, parents |-> <<1>>, onBase |-> FALSE, anc |-> {1, 2}]
             c3 == [tree |-> {1, 3}, parents |-> <<1>>, onBase |-> FALSE, anc |-> {1, 3}]
  <2>1. commits = <<c1, c2, c3>>
    BY DEF SysInit, Init
  <2>2. c1 \in CommitTypes /\ c2 \in CommitTypes /\ c3 \in CommitTypes
    <3>1. <<>> \in Seq(Nat) /\ <<1>> \in Seq(Nat)
      OBVIOUS
    <3> QED
      BY <3>1 DEF CommitTypes
  <2>3. commits \in Seq(CommitTypes) /\ Ids = {1, 2, 3}
        /\ commits[1] = c1 /\ commits[2] = c2 /\ commits[3] = c3
    <3> HIDE DEF c1, c2, c3
    <3> QED
      BY <2>1, <2>2 DEF Ids
  <2>4. CommitsOK
    <3>1. /\ DOMAIN c1.parents = {} /\ DOMAIN c2.parents = {1} /\ DOMAIN c3.parents = {1}
          /\ c2.parents[1] = 1 /\ c3.parents[1] = 1
      OBVIOUS
    <3> QED
      BY <2>3, <3>1 DEF CommitsOK
  <2> QED
    BY <2>3, <2>4 DEF SysInit, Init, GitHubTypeOK
<1>2. TypeOK
  <2>1. NoMeta \in Metas
    BY DEF NoMeta, Meta, Metas
  <2>2. staged = {} /\ cleared = {}
    BY DEF SysInit
  <2>3. plans \in [Planners ->
         [pc : {"load", "pull", "resolve", "run", "stage", "end"}, pr : PRs, ws : Workspaces,
          head : {0} \cup Ids, base : {0} \cup Ids, ran : SUBSET Ids]]
    BY DEF SysInit
  <2>4. applies \in [Appliers ->
         [pc : {"pull", "resolve", "fetch", "merged", "config", "end"}, pr : PRs,
          ws : Workspaces, head : {0} \cup Ids, base : {0} \cup Ids, meta : Metas,
          merge : {0} \cup Ids, outcome : Outcomes]]
    BY <2>1 DEF SysInit, Outcomes
  <2>5. /\ \A a \in Appliers : applies[a].pc = "pull"
        /\ \A q \in Planners : plans[q].pc = "load"
    BY DEF SysInit
  <2> QED
    BY <1>1, <2>2, <2>3, <2>4, <2>5 DEF TypeOK
<1>3. \A p \in PRs : Landed(p) = 0
  BY DEF SysInit, Init, Landed
<1>4. \A a \in Appliers : applies[a].pc = "pull" /\ applies[a].outcome = "none"
  BY DEF SysInit
<1> QED
  BY <1>2, <1>3, <1>4
  DEF AInv, LandInv, BaseInv, StagedInv, VerdictInv, ClearedInv, AuthorizedAfterMerge,
      Applicable, SysInit

\* GitHub moves: what was read, staged and passed stays what it was.
LEMMA GitHubKeepsAInv == AInv /\ GitHubStep => AInv'
<1> SUFFICES ASSUME AInv, GitHubStep PROVE AInv'
  OBVIOUS
<1>m. GitHubTypeOK /\ GitHubTypeOK' /\ Moved
  BY GitHubMoves DEF AInv, TypeOK, GitHubStep
<1>u. UNCHANGED <<plans, staged, applies>> /\ NoteCleared
  BY DEF GitHubStep
<1>i. /\ Len(commits) \in Nat /\ Len(commits') \in Nat /\ Ids \subseteq Ids'
      /\ \A i \in Ids : commits'[i] = commits[i] /\ i \in Int
      /\ tip \in Ids /\ tip' \in Ids' /\ tip' \in Int /\ tip <= tip'
  BY <1>m, LenCommits DEF GitHubTypeOK, Moved, Grown, Ids, CommitsOK
<1>p. \A p \in PRs : /\ Landed(p) \in {0} \cup Ids /\ Landed(p)' \in {0} \cup Ids'
                     /\ Onto(p) \in {0} \cup Ids /\ Onto(p)' \in {0} \cup Ids'
                     /\ \/ Landed(p)' = Landed(p) /\ Onto(p)' = Onto(p)
                        \/ /\ Landed(p) = 0
                           /\ Onto(p)' = tip /\ Landed(p)' = tip' /\ tip < tip'
                           /\ commits'[tip'].parents # <<>>
                           /\ tip <= commits'[tip'].parents[1]
  BY <1>m DEF Moved, Landed, Onto, GitHubTypeOK
<1>1. TypeOK'
  <2>1. plans' \in [Planners ->
         [pc : {"load", "pull", "resolve", "run", "stage", "end"}, pr : PRs, ws : Workspaces,
          head : {0} \cup Ids', base : {0} \cup Ids', ran : SUBSET Ids']]
    BY <1>i, <1>u DEF AInv, TypeOK
  <2>2. applies' \in [Appliers ->
         [pc : {"pull", "resolve", "fetch", "merged", "config", "end"}, pr : PRs,
          ws : Workspaces, head : {0} \cup Ids', base : {0} \cup Ids', meta : Metas,
          merge : {0} \cup Ids', outcome : Outcomes]]
    BY <1>i, <1>u DEF AInv, TypeOK
  <2>3. cleared' \subseteq PRs \X Workspaces
    BY <1>u DEF AInv, TypeOK, NoteCleared
  <2> QED
    BY <1>m, <1>u, <2>1, <2>2, <2>3 DEF AInv, TypeOK
<1>2. LandInv'
  <2> SUFFICES ASSUME NEW p \in PRs, Landed(p)' # 0
               PROVE  /\ commits'[Landed(p)'].parents # <<>>
                      /\ Onto(p)' <= commits'[Landed(p)'].parents[1]
                      /\ commits'[Landed(p)'].parents[1] < Landed(p)'
                      /\ Landed(p)' <= tip'
                      /\ \A q \in PRs : (Landed(q)' # 0 /\ Landed(p)' < Landed(q)') =>
                           Landed(p)' <= Onto(q)'
    BY DEF LandInv
  <2>1. CASE Landed(p)' = Landed(p) /\ Onto(p)' = Onto(p)
    <3>1. /\ Landed(p) # 0 /\ Landed(p) \in Ids /\ commits'[Landed(p)] = commits[Landed(p)]
          /\ Landed(p) <= tip /\ Landed(p) \in Int
      BY <1>i, <1>p, <2>1 DEF AInv, LandInv
    <3>2. Landed(p)' <= tip'
      BY <1>i, <2>1, <3>1 DEF Ids
    <3>3. ASSUME NEW q \in PRs, Landed(q)' # 0, Landed(p)' < Landed(q)'
          PROVE  Landed(p)' <= Onto(q)'
      BY <1>p, <2>1, <3>1, <3>3 DEF AInv, LandInv
    <3> QED
      BY <2>1, <3>1, <3>2, <3>3 DEF AInv, LandInv
  <2>2. CASE Onto(p)' = tip /\ Landed(p)' = tip' /\ tip < tip'
             /\ commits'[tip'].parents # <<>> /\ tip <= commits'[tip'].parents[1]
    <3>1. commits'[tip'].parents[1] < tip'
      <4>1. commits'[tip'] \in CommitTypes
        BY <1>i, <1>m DEF GitHubTypeOK, CommitsOK, Ids
      <4>2. 1 \in DOMAIN commits'[tip'].parents
        BY <2>2, <4>1 DEF CommitTypes
      <4>3. commits'[tip'].parents[1] \in 1..(tip' - 1)
        BY <1>i, <1>m, <4>2 DEF GitHubTypeOK, CommitsOK
      <4> QED
        BY <1>i, <4>3
    <3>2. \A q \in PRs : Landed(q)' # 0 => Landed(q)' <= tip'
      BY <1>i, <1>p DEF AInv, LandInv, Ids
    <3>3. \A q \in PRs : Landed(q)' \in Int
      BY <1>i, <1>p DEF Ids
    <3> QED
      BY <1>i, <2>2, <3>1, <3>2, <3>3
  <2> QED
    BY <1>p, <2>1, <2>2
<1>3. BaseInv'
  <2> SUFFICES ASSUME NEW a \in Appliers, applies[a].pc \notin {"pull", "resolve"}
               PROVE  /\ applies[a].base <= tip'
                      /\ \A p \in PRs : Landed(p)' # 0 =>
                           applies[a].base <= Onto(p)' \/ Landed(p)' <= applies[a].base
    BY <1>u DEF BaseInv
  <2>1. applies[a].base \in Int /\ applies[a].base <= tip
    BY <1>i DEF AInv, BaseInv, TypeOK
  <2>2. applies[a].base <= tip'
    BY <1>i, <2>1 DEF Ids
  <2>3. ASSUME NEW p \in PRs, Landed(p)' # 0
        PROVE  applies[a].base <= Onto(p)' \/ Landed(p)' <= applies[a].base
    BY <1>p, <2>1, <2>3 DEF AInv, BaseInv
  <2> QED
    BY <2>2, <2>3
<1>4. StagedInv'
  BY <1>i, <1>u DEF AInv, StagedInv, GetCommitTree
<1>5. VerdictInv'
  <2>1. \A a \in Appliers : Passed(a) => Passed(a)'
    <3> SUFFICES ASSUME NEW a \in Appliers, Passed(a) PROVE Passed(a)'
      OBVIOUS
    <3>1. applies[a].pr \in PRs
      BY DEF AInv, TypeOK
    <3>2. Landed(applies[a].pr)' = Landed(applies[a].pr) /\ Landed(applies[a].pr) # 0
      <4>1. Landed(applies[a].pr) # 0
        BY DEF Passed
      <4>2. PICK p \in PRs : p = applies[a].pr
        BY <3>1
      <4>3. Landed(p)' = Landed(p)
        BY <1>p, <4>1, <4>2
      <4> QED
        BY <1>u, <4>1, <4>2, <4>3 DEF Landed
    <3>3. applies[a].merge \in Ids /\ commits'[applies[a].merge] = commits[applies[a].merge]
      BY <1>i, <1>p, <3>1, <3>2 DEF Passed
    <3> QED
      BY <1>u, <3>1, <3>2, <3>3 DEF Passed, Landed, GetCommitTree
  <2> QED
    BY <1>u, <2>1 DEF AInv, VerdictInv, Applicable
<1>6. ClearedInv'
  <2>1. \A p \in PRs, w \in Workspaces : (Landed(p)' # 0 /\ w \in config') => <<p, w>> \in cleared'
    BY <1>u DEF NoteCleared, Landed
  <2> QED
    BY <2>1 DEF ClearedInv, Landed
<1>7. AuthorizedAfterMerge'
  BY <1>u DEF AInv, AuthorizedAfterMerge, Applicable, NoteCleared
<1> QED
  BY <1>1, <1>2, <1>3, <1>4, <1>5, <1>6, <1>7 DEF AInv

\* A run of plan stages at most a plan of the commits it read.
LEMMA PlanKeepsAInv ==
  ASSUME AInv, NEW q \in Planners, PlanStep(q)
  PROVE  AInv'
<1>u. UNCHANGED <<commits, tip, pulls, config, applies, cleared>>
  BY DEF PlanStep, PlanLoad, PlanPull, PlanResolve, PlanRun, PlanStage, PlanFrame
<1>g. GitHubTypeOK /\ GitHubTypeOK' /\ Ids' = Ids /\ \A i : GetCommitTree(i)' = GetCommitTree(i)
  BY <1>u DEF AInv, TypeOK, GitHubTypeOK, CommitsOK, Ids, GetCommitTree
<1>t. /\ plans[q].pr \in PRs /\ plans[q].ws \in Workspaces /\ plans[q].head \in {0} \cup Ids
      /\ plans[q].base \in {0} \cup Ids /\ plans[q].ran \in SUBSET Ids
  BY DEF AInv, TypeOK
<1>c. /\ \A i \in Ids : GetCommitTree(i) \in SUBSET Ids
      /\ Ids \in SUBSET Nat /\ tip \in Ids /\ HeadSHA(plans[q].pr) \in Ids
  BY <1>g, <1>t, LenCommits DEF GitHubTypeOK, CommitsOK, GetCommitTree, HeadSHA, Ids
<1>1. CASE plans[q].pc # "stage"
  <2>1. UNCHANGED staged
    BY <1>1 DEF PlanStep, PlanLoad, PlanPull, PlanResolve, PlanRun, PlanStage
  <2>2. plans' \in [Planners ->
         [pc : {"load", "pull", "resolve", "run", "stage", "end"}, pr : PRs, ws : Workspaces,
          head : {0} \cup Ids, base : {0} \cup Ids, ran : SUBSET Ids]]
    <3>1. CASE PlanLoad(q)
      BY <3>1 DEF AInv, TypeOK, PlanLoad
    <3>2. CASE PlanPull(q)
      BY <1>c, <3>2 DEF AInv, TypeOK, PlanPull
    <3>3. CASE PlanResolve(q)
      BY <1>c, <3>3 DEF AInv, TypeOK, PlanResolve
    <3>4. CASE PlanRun(q)
      <4>1. plans[q].head \in Ids
        BY <1>t, <3>4 DEF AInv, TypeOK, PlanRun
      <4>2. \A i \in (IF FreshRoot THEN {plans[q].head} ELSE Ids) : GetCommitTree(i) \in SUBSET Ids
        BY <1>c, <4>1
      <4> QED
        BY <3>4, <4>2 DEF AInv, TypeOK, PlanRun
    <3> QED
      BY <1>1, <3>1, <3>2, <3>3, <3>4 DEF PlanStep, PlanStage
  <2>3. \A r \in Planners : plans'[r].pc \in {"resolve", "run", "stage"} => plans'[r].head # 0
    <3>1. \A r \in Planners \ {q} : plans'[r] = plans[r]
      BY DEF PlanStep, PlanLoad, PlanPull, PlanResolve, PlanRun, PlanStage, AInv, TypeOK
    <3>2. plans'[q].pc \in {"resolve", "run", "stage"} => plans'[q].head # 0
      <4>1. CASE PlanLoad(q)
        BY <4>1 DEF AInv, TypeOK, PlanLoad
      <4>2. CASE PlanPull(q)
        BY <1>c, <4>2 DEF AInv, TypeOK, PlanPull
      <4>3. CASE PlanResolve(q)
        BY <4>3 DEF AInv, TypeOK, PlanResolve
      <4>4. CASE PlanRun(q)
        BY <4>4 DEF AInv, TypeOK, PlanRun
      <4> QED
        BY <1>1, <4>1, <4>2, <4>3, <4>4 DEF PlanStep, PlanStage
    <3> QED
      BY <3>1, <3>2 DEF AInv, TypeOK
  <2>4. TypeOK'
    BY <1>g, <1>u, <2>1, <2>2, <2>3 DEF AInv, TypeOK
  <2> QED
    BY <1>u, <1>g, <2>1, <2>4
    DEF AInv, LandInv, BaseInv, StagedInv, VerdictInv, Passed, ClearedInv, AuthorizedAfterMerge,
        Applicable, Landed, Onto
<1>2. CASE plans[q].pc = "stage"
  <2> DEFINE r == plans[q]
             m == Meta(r.pr, r.ws, r.base, r.head, GetCommitTree(r.head), r.ran)
  <2>1. staged' \in {staged, staged \cup {m}} /\ plans' = [plans EXCEPT ![q].pc = "end"]
    BY <1>2 DEF PlanStep, PlanLoad, PlanPull, PlanResolve, PlanRun, PlanStage
  <2>2. r.head \in Ids
    BY <1>2, <1>t DEF AInv, TypeOK
  <2>3. m \in Metas /\ m.head = r.head /\ m.tree = GetCommitTree(r.head)
    <3>1. GetCommitTree(r.head) \in SUBSET Nat /\ r.ran \in SUBSET Nat /\ r.base \in Nat /\ r.head \in Nat
      <4>1. \A S \in SUBSET Ids : S \in SUBSET Nat
        BY <1>c
      <4>2. r.head \in Nat /\ r.base \in Nat
        <5>1. \A x \in {0} \cup Ids : x \in Nat
          BY <1>g, LenCommits DEF GitHubTypeOK, Ids
        <5> QED
          BY <1>t, <5>1
      <4> QED
        BY <1>c, <1>t, <2>2, <4>1, <4>2
    <3> QED
      BY <1>t, <3>1 DEF Meta, Metas
  <2>4. TypeOK'
    <3>1. plans' \in [Planners ->
           [pc : {"load", "pull", "resolve", "run", "stage", "end"}, pr : PRs, ws : Workspaces,
            head : {0} \cup Ids, base : {0} \cup Ids, ran : SUBSET Ids]]
      BY <2>1 DEF AInv, TypeOK
    <3>2. staged' \subseteq Metas
      <4> HIDE DEF m
      <4> QED
        BY <2>1, <2>3 DEF AInv, TypeOK
    <3>3. \A p \in Planners : plans'[p].pc \in {"resolve", "run", "stage"} => plans'[p].head # 0
      BY <2>1 DEF AInv, TypeOK
    <3> QED
      BY <1>g, <1>u, <3>1, <3>2, <3>3 DEF AInv, TypeOK
  <2>5. StagedInv'
    <3> HIDE DEF m
    <3> QED
      BY <1>g, <2>1, <2>2, <2>3 DEF AInv, StagedInv
  <2>6. VerdictInv'
    <3>1. staged \subseteq staged'
      BY <2>1
    <3>2. \A a \in Appliers : Passed(a) => Passed(a)'
      BY <1>u, <1>g, <3>1 DEF Passed, Landed
    <3> QED
      BY <1>u, <3>1, <3>2 DEF AInv, VerdictInv, Applicable
  <2>7. LandInv' /\ BaseInv' /\ ClearedInv' /\ AuthorizedAfterMerge'
    BY <1>u DEF AInv, LandInv, BaseInv, ClearedInv, AuthorizedAfterMerge, Applicable, Landed, Onto
  <2> QED
    BY <2>4, <2>5, <2>6, <2>7 DEF AInv
<1> QED
  BY <1>1, <1>2

\* A run of apply takes in what it reads, or concludes.
LEMMA ApplyKeepsAInv ==
  ASSUME AInv, NEW a \in Appliers, ApplyStep(a)
  PROVE  AInv'
<1> DEFINE r == applies[a]
<1>u. UNCHANGED <<commits, tip, pulls, config, plans, staged, cleared>>
  BY DEF ApplyStep, ApplyPull, ApplyResolve, Fetch, NotStaged, NotMerged, CheckMerge,
     CheckConfig, ApplyFrame
<1>g. GitHubTypeOK /\ GitHubTypeOK' /\ Ids' = Ids /\ \A i : GetCommitTree(i)' = GetCommitTree(i)
  BY <1>u DEF AInv, TypeOK, GitHubTypeOK, CommitsOK, Ids, GetCommitTree
<1>t. /\ r \in [pc : {"pull", "resolve", "fetch", "merged", "config", "end"}, pr : PRs,
               ws : Workspaces, head : {0} \cup Ids, base : {0} \cup Ids, meta : Metas,
               merge : {0} \cup Ids, outcome : Outcomes]
      /\ tip \in Ids /\ HeadSHA(r.pr) \in Ids /\ MergeCommitSHA(r.pr) \in {0} \cup Ids
      /\ staged \subseteq Metas
      /\ \A i \in Ids : i # 0 /\ i \in Int
  BY <1>g, LenCommits DEF AInv, TypeOK, GitHubTypeOK, HeadSHA, MergeCommitSHA, Ids
<1>k. LandInv' /\ StagedInv' /\ ClearedInv'
  BY <1>u, <1>g DEF AInv, LandInv, StagedInv, ClearedInv, Landed, Onto
\* What one run may become; the others are as they were.
<1>r. PICK new :
        /\ applies' = [applies EXCEPT ![a] = new]
        /\ new \in [pc : {"pull", "resolve", "fetch", "merged", "config", "end"}, pr : PRs,
                    ws : Workspaces, head : {0} \cup Ids, base : {0} \cup Ids, meta : Metas,
                    merge : {0} \cup Ids, outcome : Outcomes]
        /\ new.pc # "pull" => new.head # 0
        /\ new.pc \notin {"pull", "resolve"} => new.base # 0
        /\ new.pc \notin {"pull", "resolve"} =>
             new.base = tip \/ (r.pc \notin {"pull", "resolve"} /\ new.base = r.base)
        /\ new.pc # "end" => new.outcome = "none"
        /\ new.pc = "merged" => new.meta \in staged /\ new.meta.ws = new.ws
        /\ (new.pc = "config" \/ new.outcome = "applicable") =>
             /\ new.meta \in staged /\ new.meta.ws = new.ws
             /\ new.merge # 0 /\ new.merge = Landed(new.pr)
             /\ new.meta.base = new.base
             /\ commits[new.merge].parents[1] = new.base
             /\ GetCommitTree(new.merge) = new.meta.tree
        /\ new.outcome = "applicable" => <<new.pr, new.ws>> \in cleared
  <2>0. /\ r.pc # "pull" => r.head # 0
        /\ r.pc \notin {"pull", "resolve"} => r.base # 0
        /\ r.pc # "end" => r.outcome = "none"
        /\ r.pc = "merged" => r.meta \in staged /\ r.meta.ws = r.ws
        /\ r.pc = "config" => Passed(a)
    BY DEF AInv, TypeOK, VerdictInv
  <2>1. CASE ApplyPull(a)
    <3> WITNESS [r EXCEPT !.head = HeadSHA(r.pr), !.pc = "resolve"]
    <3> QED
      BY <1>t, <2>0, <2>1 DEF ApplyPull, AInv, TypeOK
  <2>2. CASE ApplyResolve(a)
    <3> WITNESS [r EXCEPT !.base = tip, !.pc = "fetch"]
    <3> QED
      BY <1>t, <2>0, <2>2 DEF ApplyResolve, AInv, TypeOK
  <2>3. CASE Fetch(a)
    <3>1. PICK m \in At(r.ws, r.base, r.head) :
            applies' = [applies EXCEPT ![a].meta = m, ![a].pc = "merged"]
      BY <2>3 DEF Fetch
    <3>2. m \in staged /\ m.ws = r.ws
      BY <3>1 DEF At, SameKey
    <3> WITNESS [r EXCEPT !.meta = m, !.pc = "merged"]
    <3> QED
      BY <1>t, <2>0, <2>3, <3>1, <3>2 DEF Fetch, AInv, TypeOK
  <2>4. CASE \E o \in Outcomes \ {"applicable"} : Conclude(a, o) /\ r.pc \in {"fetch", "merged", "config"}
    <3>1. PICK o \in Outcomes \ {"applicable"} : Conclude(a, o)
      BY <2>4
    <3> WITNESS [r EXCEPT !.pc = "end", !.outcome = o]
    <3> QED
      BY <1>t, <2>0, <2>4, <3>1 DEF Conclude, AInv, TypeOK
  <2>5. CASE r.pc = "merged" /\ applies' = [applies EXCEPT ![a].merge = MergeCommitSHA(r.pr), ![a].pc = "config"]
             /\ MergeCommitSHA(r.pr) # 0
             /\ BaseHeld(r.meta, r.base, MergeCommitSHA(r.pr)) /\ TreeHeld(r.meta, MergeCommitSHA(r.pr))
    <3>1. MergeCommitSHA(r.pr) = Landed(r.pr)
      BY <2>5 DEF MergeCommitSHA, Landed
    <3> WITNESS [r EXCEPT !.merge = MergeCommitSHA(r.pr), !.pc = "config"]
    <3> QED
      BY <1>t, <2>0, <2>5, <3>1 DEF BaseHeld, TreeHeld, CommitParents, AInv, TypeOK
  <2>6. CASE r.pc = "config" /\ Conclude(a, "applicable") /\ r.ws \in config
    <3>1. <<r.pr, r.ws>> \in cleared
      BY <1>t, <2>0, <2>6 DEF AInv, ClearedInv, Passed
    <3> WITNESS [r EXCEPT !.pc = "end", !.outcome = "applicable"]
    <3> QED
      BY <1>t, <2>0, <2>6, <3>1 DEF Conclude, Passed, Outcomes, AInv, TypeOK
  <2>7. CASE NotStaged(a) \/ NotMerged(a)
    BY <2>4, <2>7 DEF NotStaged, NotMerged, Outcomes
  <2>8. CASE CheckMerge(a)
    BY <2>4, <2>5, <2>8 DEF CheckMerge, Outcomes
  <2>9. CASE CheckConfig(a)
    BY <2>4, <2>6, <2>9 DEF CheckConfig, Outcomes
  <2> QED
    BY <2>1, <2>2, <2>3, <2>7, <2>8, <2>9 DEF ApplyStep
<1>o. applies'[a] = new /\ \A b \in Appliers \ {a} : applies'[b] = applies[b]
  BY <1>r DEF AInv, TypeOK
<1>1. TypeOK'
  <2>1. applies' \in [Appliers ->
         [pc : {"pull", "resolve", "fetch", "merged", "config", "end"}, pr : PRs,
          ws : Workspaces, head : {0} \cup Ids, base : {0} \cup Ids, meta : Metas,
          merge : {0} \cup Ids, outcome : Outcomes]]
    BY <1>r DEF AInv, TypeOK
  <2>2. \A b \in Appliers : /\ applies'[b].pc # "pull" => applies'[b].head # 0
                            /\ applies'[b].pc \notin {"pull", "resolve"} => applies'[b].base # 0
    BY <1>o, <1>r DEF AInv, TypeOK
  <2> QED
    BY <1>g, <1>u, <2>1, <2>2 DEF AInv, TypeOK
<1>2. BaseInv'
  <2> SUFFICES ASSUME NEW b \in Appliers, applies'[b].pc \notin {"pull", "resolve"}
               PROVE  /\ applies'[b].base <= tip
                      /\ \A p \in PRs : Landed(p) # 0 => \/ applies'[b].base <= Onto(p)
                                                         \/ Landed(p) <= applies'[b].base
    BY <1>u DEF BaseInv, Landed, Onto
  <2>1. CASE applies'[b].base = tip
    BY <1>t, <2>1 DEF AInv, LandInv
  <2>2. CASE applies[b].pc \notin {"pull", "resolve"} /\ applies'[b].base = applies[b].base
    BY <2>2 DEF AInv, BaseInv
  <2> QED
    BY <1>o, <1>r, <2>1, <2>2
<1>3. VerdictInv'
  <2>1. \A b \in Appliers \ {a} : Passed(b)' = Passed(b)
    BY <1>u, <1>o, <1>g DEF Passed, Landed
  <2>2. (applies'[a].pc = "config" \/ Applicable(a)') => Passed(a)'
    BY <1>u, <1>o, <1>g, <1>r DEF Passed, Landed, Applicable
  <2> QED
    BY <1>u, <1>o, <1>r, <2>1, <2>2 DEF AInv, VerdictInv, Applicable
<1>4. AuthorizedAfterMerge'
  BY <1>u, <1>o, <1>r DEF AInv, AuthorizedAfterMerge, Applicable
<1> QED
  BY <1>k, <1>1, <1>2, <1>3, <1>4 DEF AInv

LEMMA NextAInv == AInv /\ [SysNext]_vars => AInv'
<1> SUFFICES ASSUME AInv, [SysNext]_vars PROVE AInv'
  OBVIOUS
<1>1. CASE UNCHANGED vars
  BY <1>1
  DEF vars, AInv, TypeOK, GitHubTypeOK, CommitsOK, Ids, LandInv, BaseInv, StagedInv, VerdictInv,
      Passed, ClearedInv, AuthorizedAfterMerge, Applicable, Landed, Onto, GetCommitTree
<1> QED
  BY <1>1, GitHubKeepsAInv, PlanKeepsAInv, ApplyKeepsAInv DEF SysNext

LEMMA AInvariant == Spec => []AInv
  BY InitAInv, NextAInv, PTL DEF Spec

-----------------------------------------------------------------------------

\* Every variable keeps its type and names commits that exist.
THEOREM ApplyTypeCorrect == Spec => []TypeOK
<1>1. AInv => TypeOK
  BY DEF AInv
<1> QED
  BY <1>1, AInvariant, PTL

\* A base that was read and is the first parent of a merge commit is what the
\* request landed on: the first parent lies in the landing, the base does not.
LEMMA FirstParentIsOnto ==
  ASSUME AInv, NEW a \in Appliers, NEW p \in PRs,
         applies[a].pc \notin {"pull", "resolve"}, Landed(p) # 0,
         commits[Landed(p)].parents[1] = applies[a].base
  PROVE  applies[a].base = Onto(p) /\ applies[a].base < Landed(p)
<1> DEFINE base == applies[a].base
<1>1. Onto(p) <= base /\ base < Landed(p)
  BY DEF AInv, LandInv
<1>2. base <= Onto(p) \/ Landed(p) <= base
  BY DEF AInv, BaseInv
<1>3. base \in Int /\ Onto(p) \in Int /\ Landed(p) \in Int
  BY DEF AInv, TypeOK, GitHubTypeOK, Landed, Onto, Ids
<1> QED
  BY <1>1, <1>2, <1>3

\* An applicable plan was made on the base its request landed on.
LEMMA AppliedOnItsBase ==
  ASSUME AInv, NEW a \in Appliers, Applicable(a)
  PROVE  /\ Passed(a) /\ applies[a].pr \in PRs
         /\ applies[a].meta.base = Onto(applies[a].pr)
         /\ applies[a].meta.base < applies[a].merge
<1>1. Passed(a) /\ applies[a].pr \in PRs /\ applies[a].pc = "end"
  BY DEF AInv, VerdictInv, TypeOK, Applicable
<1> QED
  BY <1>1, FirstParentIsOnto DEF Passed

\* What is found applicable was planned on the base its request landed on and for
\* the tree that was merged.
THEOREM AppliedPlansAreWhatMerged == Spec => []AppliesWhatMerged
<1>1. AInv => AppliesWhatMerged
  <2> SUFFICES ASSUME AInv, NEW a \in Appliers, Applicable(a)
               PROVE  LET m == applies[a].meta
                          pull == pulls[applies[a].pr]
                      IN  /\ pull.landed # 0
                          /\ m.ran = GetCommitTree(m.head) => m.ran = GetCommitTree(pull.landed)
                          /\ pull.onto = m.base
                          /\ m.ws = applies[a].ws
    BY DEF AppliesWhatMerged
  <2>1. /\ Passed(a) /\ applies[a].pr \in PRs
        /\ applies[a].meta.base = Onto(applies[a].pr)
    BY AppliedOnItsBase
  <2>2. applies[a].meta.tree = GetCommitTree(applies[a].meta.head)
    BY <2>1 DEF Passed, AInv, StagedInv
  <2> QED
    BY <2>1, <2>2 DEF Passed, Landed, Onto
<1> QED
  BY <1>1, AInvariant, PTL

\* Two merges of one plan would be two landings with one first parent.
THEOREM PlansHaveOneMerge == Spec => []OneMergePerPlan
<1>1. AInv => OneMergePerPlan
  <2> SUFFICES ASSUME AInv, NEW a \in Appliers, NEW b \in Appliers,
                      Applicable(a), Applicable(b), applies[a].meta = applies[b].meta
               PROVE  applies[a].merge = applies[b].merge
    BY DEF OneMergePerPlan
  <2> DEFINE p == applies[a].pr
             q == applies[b].pr
  <2>1. /\ p \in PRs /\ q \in PRs /\ Onto(p) = Onto(q)
        /\ applies[a].merge = Landed(p) /\ applies[b].merge = Landed(q)
        /\ Landed(p) # 0 /\ Landed(q) # 0
        /\ Onto(p) < Landed(p) /\ Onto(q) < Landed(q)
    BY AppliedOnItsBase DEF Passed
  <2>2. Landed(p) \in Int /\ Landed(q) \in Int /\ Onto(p) \in Int
    BY <2>1 DEF AInv, TypeOK, GitHubTypeOK, Landed, Onto, Ids
  <2>3. /\ Landed(p) < Landed(q) => Landed(p) <= Onto(q)
        /\ Landed(q) < Landed(p) => Landed(q) <= Onto(p)
    BY <2>1 DEF AInv, LandInv
  <2> QED
    BY <2>1, <2>2, <2>3
<1> QED
  BY <1>1, AInvariant, PTL

\* No workspace that stayed out of the config since the merge is applicable.
THEOREM AppliesAreAuthorized == Spec => []AuthorizedAfterMerge
<1>1. AInv => AuthorizedAfterMerge
  BY DEF AInv
<1> QED
  BY <1>1, AInvariant, PTL
=============================================================================
