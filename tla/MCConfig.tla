------------------------------ MODULE MCConfig ------------------------------
(* Instances of Config for TLC: families of config files that differ in the  *)
(* fields one check relates, and pull requests that touch their directories. *)
EXTENDS Config

Entry ==
  [name |-> "w1", branch |-> <<"a">>, dir |-> <<"x">>, watch |-> <<>>,
   terraform_workspace |-> "", terraform_version |-> "", plan_timeout |-> "",
   plan_args |-> <<>>, on_stale |-> "", well_formed |-> TRUE]

Defaults ==
  [terraform_version |-> "1.9.8", plan_timeout |-> "", plan_args |-> <<>>]

File(entries) == [defaults |-> Defaults, workspaces |-> entries]

Second(e) == [e EXCEPT !.name = "w2"]

Dirs == {<<"x">>, <<"x", "y">>, <<"x", "">>, <<"y">>, <<"x", "..", "y">>, <<".", "x">>, <<".">>}

Stars == {<<"a">>, <<"a", "b">>, <<"*">>, <<"a", "*">>, <<"a", "*", "b">>, <<"*", "b">>}

\* Two workspaces whose branches, directories and terraform workspaces may clash.
Pairs(patterns, dirs, tfws) ==
  {File(<<[Entry EXCEPT !.branch = p, !.dir = d],
          Second([Entry EXCEPT !.branch = q, !.dir = e, !.terraform_workspace = t])>>) :
     p \in patterns, q \in patterns, d \in dirs, e \in dirs, t \in tfws}

\* One workspace at any of the paths of up to four segments.
Places ==
  {File(<<[Entry EXCEPT !.dir = d]>>) :
     d \in UNION {[1..n -> {"", ".", "..", "x"}] : n \in 1..4}}

Args == {<<>>, <<[flag |-> "-parallelism", value |-> "4"]>>, <<[flag |-> "-lock", value |-> "true"]>>}

\* One workspace and the defaults it inherits.
Inheriting ==
  {[defaults |-> [terraform_version |-> v, plan_timeout |-> t, plan_args |-> g],
    workspaces |-> <<[Entry EXCEPT !.terraform_version = w, !.plan_timeout = u,
                                   !.plan_args = h, !.on_stale = s, !.well_formed = f]>>] :
     v \in {"", "1.9.8", "~> 1.9"}, w \in {"", "1.9.8", "~> 1.9"}, t \in {"", "30m", "-1m"},
     u \in {"", "0s", "30m"}, g \in Args, h \in Args, s \in {"", "fail", "retry"}, f \in BOOLEAN}

\* No workspace, and two of one name.
Odd == {File(<<>>), File(<<Entry, [Entry EXCEPT !.dir = <<"y">>]>>)}

Watching == {File(<<[Entry EXCEPT !.watch = <<<<"m", "/", "*">>>>]>>)}

AllFiles == Pairs(Stars, Dirs, {"", "t"}) \cup Places \cup Inheriting \cup Odd \cup Watching

AllBases == {<<"a">>, <<"a", "b">>, <<"b">>}
AllChanges == {<<f>> : f \in {<<"x", "f">>, <<"x", "y", "f">>, <<"y", "f">>, <<"m", "f">>}}
              \cup {<< <<"z", "f">>, <<"x", "f">> >>}
AllRefs == {<<"">>, <<"main">>, <<"heads", "main">>, <<"refs", "heads", "main">>}
=============================================================================
