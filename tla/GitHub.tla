------------------------------- MODULE GitHub -------------------------------
(***************************************************************************)
(* GitHub as internal/ghapp/client.go and the verbs of cmd/tfgh see it:    *)
(* one base branch, pull requests against it, their commits, and the       *)
(* workspaces the config on the trusted ref declares.  GitHub itself is    *)
(* external: its behaviour is modelled from the fields the code reads.     *)
(*                                                                         *)
(* A commit is its position in "commits".  A tree is the set of edits it   *)
(* holds, an edit being named after the commit that first made it; trees   *)
(* of merges are those of merges without conflicts.                        *)
(***************************************************************************)
EXTENDS Integers, Sequences, FiniteSets

CONSTANTS
  PRs, Workspaces,
  MaxCommits    \* bound on the commits made

VARIABLES
  commits,  \* sequence of [tree, parents, anc: ancestors and itself, onBase]
  tip,      \* the commit the base ref points at
  pulls,    \* [PRs -> [head, landed: merge commit or 0, onto: the base it
            \* landed on, shown: the API shows landed]]
  config    \* the workspaces declared at the trusted ref's tip

ghvars == <<commits, tip, pulls, config>>

Ids == 1..Len(commits)
Open(p) == pulls[p].landed = 0

\* The fields of a pull request as the API shows them.
HeadSHA(p) == pulls[p].head
Merged(p) == pulls[p].landed # 0
MergeCommitSHA(p) == IF pulls[p].shown THEN pulls[p].landed ELSE 0

\* What CompareCommits(b, h) counts.
AheadBy(b, h) == Cardinality(commits[h].anc \ commits[b].anc)
BehindBy(b, h) == Cardinality(commits[b].anc \ commits[h].anc)

GetCommitTree(i) == commits[i].tree
CommitParents(i) == commits[i].parents

\* Edits made by a push to the base branch itself: only there can they be undone.
Direct == {i \in Ids : commits[i].onBase}

\* The tree of h merged into b: what b has, and what h brings of its own.
MergedTree(b, h) == commits[b].tree \cup (commits[h].tree \ Direct)

Commit(tree, parents, onBase) ==
  [tree |-> tree, parents |-> parents, onBase |-> onBase,
   anc |-> {Len(commits) + 1} \cup UNION {commits[parents[i]].anc : i \in DOMAIN parents}]

Init ==
  /\ commits = << [tree |-> {1}, parents |-> <<>>, onBase |-> FALSE, anc |-> {1}],
                  [tree |-> {1, 2}, parents |-> <<1>>, onBase |-> FALSE, anc |-> {1, 2}],
                  [tree |-> {1, 3}, parents |-> <<1>>, onBase |-> FALSE, anc |-> {1, 3}] >>
  /\ tip = 1
  \* Two pull requests may share a head: two branches at one commit.
  /\ pulls \in [PRs -> [head : {2, 3}, landed : {0}, onto : {0}, shown : {FALSE}]]
  /\ config = Workspaces

\* A push to the branch of an open pull request.
Push(p) ==
  /\ Open(p) /\ Len(commits) < MaxCommits
  /\ LET new == Len(commits) + 1
     IN  /\ commits' = Append(commits,
              Commit(commits[HeadSHA(p)].tree \cup {new}, <<HeadSHA(p)>>, FALSE))
         /\ pulls' = [pulls EXCEPT ![p].head = new]
  /\ UNCHANGED <<tip, config>>

\* "Update branch": the base is merged into the head.
Update(p) ==
  /\ Open(p) /\ Len(commits) < MaxCommits
  /\ tip \notin commits[HeadSHA(p)].anc
  /\ commits' = Append(commits,
       Commit(MergedTree(tip, HeadSHA(p)), <<HeadSHA(p), tip>>, FALSE))
  /\ pulls' = [pulls EXCEPT ![p].head = Len(commits) + 1]
  /\ UNCHANGED <<tip, config>>

\* A push to the base branch, or the revert of one.
PushToBase ==
  /\ Len(commits) < MaxCommits
  /\ \E tree \in {commits[tip].tree \cup {Len(commits) + 1}}
               \cup {commits[tip].tree \ {e} : e \in Direct \cap commits[tip].tree} :
       commits' = Append(commits, Commit(tree, <<tip>>, TRUE))
  /\ tip' = Len(commits) + 1
  /\ UNCHANGED <<pulls, config>>

Land(p, i) ==
  /\ tip' = i
  /\ pulls' = [pulls EXCEPT ![p].landed = i, ![p].onto = tip]

Mergeable(p) == Open(p) /\ commits[HeadSHA(p)].anc \ commits[tip].anc # {}

\* The merge button with "create a merge commit" or "squash and merge".
MergeOrSquash(p) ==
  /\ Mergeable(p) /\ Len(commits) < MaxCommits
  /\ \E parents \in {<<tip, HeadSHA(p)>>, <<tip>>} :
       commits' = Append(commits, Commit(MergedTree(tip, HeadSHA(p)), parents, FALSE))
  /\ Land(p, Len(commits) + 1)
  /\ UNCHANGED config

\* "Rebase and merge": each commit of the pull request that is no merge is made
\* again on top of the base; merge_commit_sha is the last of them.
Rebase(p) ==
  /\ Mergeable(p)
  /\ LET replayed == {i \in commits[HeadSHA(p)].anc \ commits[tip].anc :
                        Len(commits[i].parents) = 1}
         n == Cardinality(replayed)
         first(j) == {i \in replayed : Cardinality({k \in replayed : k <= i}) <= j}
         last == Len(commits)
     IN  /\ n > 0 /\ last + n <= MaxCommits
         /\ commits' = commits \o
              [j \in 1..n |->
                 [tree |-> commits[tip].tree \cup first(j),
                  parents |-> <<IF j = 1 THEN tip ELSE last + j - 1>>,
                  onBase |-> FALSE,
                  anc |-> commits[tip].anc \cup (last + 1)..(last + j)]]
         /\ Land(p, last + n)
  /\ UNCHANGED config

\* merge_commit_sha of a merged pull request is published a little later.
ShowMergeCommit(p) ==
  /\ Merged(p) /\ ~pulls[p].shown
  /\ pulls' = [pulls EXCEPT ![p].shown = TRUE]
  /\ UNCHANGED <<commits, tip, config>>

\* The trusted ref gets a config that adds or drops a workspace.
ChangeConfig(w) ==
  /\ config' = IF w \in config THEN config \ {w} ELSE config \cup {w}
  /\ UNCHANGED <<commits, tip, pulls>>

Next ==
  \/ \E p \in PRs : Push(p) \/ Update(p) \/ MergeOrSquash(p) \/ Rebase(p) \/ ShowMergeCommit(p)
  \/ PushToBase
  \/ \E w \in Workspaces : ChangeConfig(w)

-----------------------------------------------------------------------------

CommitTypes == [tree : SUBSET Nat, parents : Seq(Nat), onBase : BOOLEAN, anc : SUBSET Nat]

\* Every commit named by a commit exists, its parents and ancestors before it.
CommitsOK ==
  /\ commits \in Seq(CommitTypes)
  /\ \A i \in Ids : /\ commits[i].tree \subseteq Ids
                    /\ commits[i].anc \subseteq 1..i
                    /\ i \in commits[i].anc
                    /\ \A j \in DOMAIN commits[i].parents : commits[i].parents[j] \in 1..(i - 1)

\* The variables have the types given with their declarations.
GitHubTypeOK ==
  /\ CommitsOK
  /\ tip \in Ids
  /\ pulls \in [PRs -> [head : Ids, landed : {0} \cup Ids, onto : {0} \cup Ids,
                        shown : BOOLEAN]]
  /\ config \subseteq Workspaces
=============================================================================
