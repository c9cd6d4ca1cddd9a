----------------------------- MODULE PathProofs -----------------------------
(***************************************************************************)
(* Lemmas about the operators of Config on paths and globs, for sequences  *)
(* of any length: path.Clean, the depth of a path, prefixes, and the match *)
(* of a glob.                                                              *)
(*                                                                         *)
(* They are about what a definition does to each element in turn, so they  *)
(* rest on induction over the natural numbers.  It is stated for sets      *)
(* (Induction), not for predicates, and follows from the well-foundedness  *)
(* of < on Nat.                                                            *)
(***************************************************************************)
EXTENDS Config, SequenceTheorems, FiniteSetTheorems, WellFoundedInduction, TLAPS

\* A set of natural numbers has a least element.
LEMMA LeastNumber ==
  ASSUME NEW T \in SUBSET Nat, T # {}
  PROVE  \E n \in T : \A m \in T : n <= m
<1> DEFINE R == OpToRel(<, Nat)
<1>1. IsWellFoundedOn(R, Nat)
  BY NatLessThanWellFounded
<1>2. \A m, n \in Nat : m < n => <<m, n>> \in R
  BY DEF OpToRel
<1> HIDE DEF R
<1>3. PICK n \in T : \A m \in T : ~ (<<m, n>> \in R)
  BY <1>1, WFMin
<1>4. \A m \in T : ~ (m < n)
  BY <1>2, <1>3
<1>5. \A m \in T : m \in Nat /\ n \in Nat
  BY <1>3
<1> QED
  BY <1>3, <1>4, <1>5

\* What holds of 0, and of n + 1 if it holds of n, holds of every number.
LEMMA Induction ==
  ASSUME NEW S, 0 \in S, \A n \in Nat : n \in S => n + 1 \in S
  PROVE  Nat \subseteq S
<1> SUFFICES ASSUME Nat \ S # {} PROVE FALSE
  OBVIOUS
<1>1. PICK n \in Nat \ S : \A m \in Nat \ S : n <= m
  BY LeastNumber
<1>2. n # 0 /\ n - 1 \in Nat
  BY <1>1
<1>3. n - 1 \in S
  BY <1>1, <1>2
<1> QED
  BY <1>1, <1>2, <1>3

-----------------------------------------------------------------------------
(* Prefixes *)

\* A prefix has the elements that the sequence starts with.
LEMMA PrefixElements ==
  ASSUME NEW S, NEW s \in Seq(S), NEW t \in Seq(S)
  PROVE  IsPrefix(s, t) <=> Len(s) <= Len(t) /\ \A i \in 1..Len(s) : s[i] = t[i]
<1>1. Len(s) \in Nat /\ Len(t) \in Nat
  OBVIOUS
<1>2. SubSeq(s, 1, Len(s)) = s
  BY SubSeqFull
<1>3. ASSUME Len(s) <= Len(t)
      PROVE  /\ SubSeq(t, 1, Len(s)) \in Seq(S)
             /\ Len(SubSeq(t, 1, Len(s))) = Len(s)
             /\ \A i \in 1..Len(s) : SubSeq(t, 1, Len(s))[i] = t[i]
  <2>1. \A i \in 1..Len(s) : t[i] \in S
    BY <1>1, <1>3, ElementOfSeq
  <2> QED
    BY <1>1, <2>1, SubSeqProperties
<1>4. ASSUME Len(s) <= Len(t), \A i \in 1..Len(s) : s[i] = t[i]
      PROVE  s = SubSeq(t, 1, Len(s))
  BY <1>3, <1>4, SeqEqual
<1> QED
  BY <1>2, <1>3, <1>4 DEF IsPrefix

\* Of two prefixes of one sequence, one is a prefix of the other.
LEMMA PrefixesNest ==
  ASSUME NEW S, NEW s \in Seq(S), NEW t \in Seq(S), NEW u \in Seq(S),
         IsPrefix(s, u), IsPrefix(t, u)
  PROVE  IsPrefix(s, t) \/ IsPrefix(t, s)
<1>1. Len(s) \in Nat /\ Len(t) \in Nat /\ Len(u) \in Nat
  OBVIOUS
<1>2. \A i \in 1..Len(s) : s[i] = u[i]
  BY PrefixElements
<1>3. \A i \in 1..Len(t) : t[i] = u[i]
  BY PrefixElements
<1>4. CASE Len(s) <= Len(t)
  BY <1>1, <1>2, <1>3, <1>4, PrefixElements
<1>5. CASE Len(t) <= Len(s)
  BY <1>1, <1>2, <1>3, <1>5, PrefixElements
<1> QED
  BY <1>1, <1>4, <1>5

\* The first n elements of a sequence.
LEMMA Beginning ==
  ASSUME NEW S, NEW s \in Seq(S), NEW n \in 0..Len(s)
  PROVE  /\ SubSeq(s, 1, n) \in Seq(S)
         /\ Len(SubSeq(s, 1, n)) = n
         /\ \A i \in 1..n : SubSeq(s, 1, n)[i] = s[i]
         /\ IsPrefix(SubSeq(s, 1, n), s)
<1>1. \A i \in 1..n : s[i] \in S
  BY ElementOfSeq
<1>2. /\ SubSeq(s, 1, n) \in Seq(S)
      /\ Len(SubSeq(s, 1, n)) = n
      /\ \A i \in 1..n : SubSeq(s, 1, n)[i] = s[i]
  BY <1>1, SubSeqProperties
<1> DEFINE t == SubSeq(s, 1, n)
<1>3. t \in Seq(S) /\ Len(t) = n /\ \A i \in 1..n : t[i] = s[i]
  BY <1>2
<1> HIDE DEF t
<1>4. IsPrefix(t, s)
  BY <1>3, PrefixElements
<1> QED
  BY <1>3, <1>4 DEF t

-----------------------------------------------------------------------------
(* Clean *)

LEMMA EmptySegment == Empty # "." /\ Empty # ".."
  BY Zenon DEF Empty

\* The recursion of Stacks defines a function.
LEMMA StacksExist ==
  ASSUME NEW path, NEW L \in Nat
  PROVE  \E f : f = [n \in 0..L |-> IF n = 0 THEN <<>> ELSE Push(f[n - 1], path[n])]
<1> DEFINE Defines(f, k) ==
             f = [n \in 0..k |-> IF n = 0 THEN <<>> ELSE Push(f[n - 1], path[n])]
           S == {k \in Nat : \E f : Defines(f, k)}
<1>1. 0 \in S
  <2>1. Defines([n \in 0..0 |-> <<>>], 0)
    OBVIOUS
  <2> QED
    BY <2>1
<1>2. ASSUME NEW k \in Nat, k \in S PROVE k + 1 \in S
  <2>1. PICK f : Defines(f, k)
    BY <1>2
  <2> DEFINE g == [n \in 0..(k + 1) |-> IF n <= k THEN f[n] ELSE Push(f[k], path[n])]
  <2>2. \A n \in 0..(k + 1) : g[n] = IF n = 0 THEN <<>> ELSE Push(g[n - 1], path[n])
    <3> SUFFICES ASSUME NEW n \in 0..(k + 1)
                 PROVE  g[n] = IF n = 0 THEN <<>> ELSE Push(g[n - 1], path[n])
      OBVIOUS
    <3>1. CASE n = 0
      BY <2>1, <3>1
    <3>2. CASE n \in 1..k
      BY <2>1, <3>2
    <3>3. CASE n = k + 1
      BY <3>3
    <3> QED
      BY <3>1, <3>2, <3>3
  <2>3. g = [n \in 0..(k + 1) |-> g[n]]
    OBVIOUS
  <2> HIDE DEF g
  <2>4. Defines(g, k + 1)
    BY <2>2, <2>3
  <2> QED
    BY <2>4
<1> HIDE DEF S
<1>3. L \in S
  BY <1>1, <1>2, Induction
<1> QED
  BY <1>3 DEF S

\* Nothing is left of no segment, and each segment is pushed in turn.
LEMMA StacksStep ==
  ASSUME NEW path \in Seq(STRING)
  PROVE  /\ Stacks(path)[0] = <<>>
         /\ \A n \in 1..Len(path) : Stacks(path)[n] = Push(Stacks(path)[n - 1], path[n])
<1> DEFINE L == Len(path)
           Defines(f) == f = [n \in 0..L |-> IF n = 0 THEN <<>> ELSE Push(f[n - 1], path[n])]
<1>1. L \in Nat
  OBVIOUS
<1>2. \E f : Defines(f)
  BY <1>1, StacksExist
<1>3. Defines(CHOOSE f : Defines(f))
  BY <1>2, Zenon
<1>4. Stacks(path) = CHOOSE f : Defines(f)
  BY DEF Stacks
<1>5. Defines(Stacks(path))
  BY <1>3, <1>4
<1> QED
  BY <1>1, <1>5

\* A clean stack has no empty and no "." segment, and "..", if at all, in front.
Clear(stack) ==
  /\ stack \in Seq(STRING)
  /\ \A i \in 1..Len(stack) : stack[i] \notin {Empty, "."}
  /\ \A i \in 1..Len(stack) : stack[i] = ".." => stack[1] = ".."

\* What is pushed, by the segment: nothing, a name or "..", or the last segment
\* taken off again.
LEMMA PushCases ==
  ASSUME NEW stack, Clear(stack), NEW s \in STRING
  PROVE  \/ s \in {Empty, "."} /\ Push(stack, s) = stack
         \/ /\ s = ".." /\ stack # <<>> /\ stack[Len(stack)] # ".."
            /\ Push(stack, s) \in Seq(STRING)
            /\ Len(Push(stack, s)) = Len(stack) - 1
            /\ \A i \in 1..(Len(stack) - 1) : Push(stack, s)[i] = stack[i]
         \/ /\ s \notin {Empty, "."}
            /\ s = ".." => stack = <<>> \/ stack[Len(stack)] = ".."
            /\ Push(stack, s) \in Seq(STRING)
            /\ Len(Push(stack, s)) = Len(stack) + 1
            /\ \A i \in 1..Len(stack) : Push(stack, s)[i] = stack[i]
            /\ Push(stack, s)[Len(stack) + 1] = s
<1>1. stack \in Seq(STRING) /\ Len(stack) \in Nat
  BY DEF Clear
<1>2. CASE s \in {Empty, "."}
  BY <1>2 DEF Push
<1>3. CASE s = ".." /\ stack # <<>> /\ Last(stack) # ".."
  <2>1. Push(stack, s) = SubSeq(stack, 1, Len(stack) - 1)
    BY <1>3, EmptySegment DEF Push, Front
  <2>2. Len(stack) - 1 \in 0..Len(stack)
    <3>1. Len(stack) # 0
      BY <1>1, <1>3
    <3> QED
      BY <1>1, <3>1
  <2> QED
    BY <1>1, <1>3, <2>1, <2>2, Beginning DEF Last
<1>4. CASE s \notin {Empty, "."} /\ ~ (s = ".." /\ stack # <<>> /\ Last(stack) # "..")
  <2>1. Push(stack, s) = Append(stack, s)
    BY <1>4 DEF Push
  <2> QED
    BY <1>1, <1>4, <2>1, AppendProperties DEF Last
<1> QED
  BY <1>2, <1>3, <1>4

\* A push keeps a clean stack clean, and never takes a leading ".." off.
LEMMA PushClear ==
  ASSUME NEW stack, Clear(stack), NEW s \in STRING
  PROVE  /\ Clear(Push(stack, s))
         /\ stack # <<>> /\ stack[1] = ".." =>
              Push(stack, s) # <<>> /\ Push(stack, s)[1] = ".."
<1> DEFINE new == Push(stack, s)
           n == Len(stack)
<1>1. stack \in Seq(STRING) /\ n \in Nat /\ (stack # <<>> <=> n > 0)
  BY EmptySeq DEF Clear
<1>2. CASE s \in {Empty, "."} /\ new = stack
  BY <1>2
<1>3. CASE /\ s = ".." /\ stack # <<>> /\ stack[n] # ".."
           /\ new \in Seq(STRING) /\ Len(new) = n - 1
           /\ \A i \in 1..(n - 1) : new[i] = stack[i]
  <2> HIDE DEF new
  <2>1. Clear(new)
    BY <1>1, <1>3 DEF Clear
  <2>2. stack[1] = ".." => n > 1
    BY <1>1, <1>3
  <2>3. stack[1] = ".." => Len(new) > 0 /\ new[1] = ".."
    BY <1>1, <1>3, <2>2
  <2> QED
    BY <2>1, <2>3 DEF new
<1>4. CASE /\ s \notin {Empty, "."} /\ (s = ".." => stack = <<>> \/ stack[n] = "..")
           /\ new \in Seq(STRING) /\ Len(new) = n + 1
           /\ \A i \in 1..n : new[i] = stack[i]
           /\ new[n + 1] = s
  <2> HIDE DEF new
  <2>1. \A i \in 1..(n + 1) : new[i] \notin {Empty, "."}
    BY <1>1, <1>4 DEF Clear
  <2>2. \A i \in 1..(n + 1) : new[i] = ".." => new[1] = ".."
    <3>1. CASE n = 0
      BY <1>4, <3>1
    <3>2. CASE n > 0
      <4>1. new[1] = stack[1] /\ (s = ".." => stack[n] = "..")
        BY <1>1, <1>4, <3>2
      <4>2. s = ".." => stack[1] = ".."
        BY <1>1, <3>2, <4>1 DEF Clear
      <4> QED
        BY <1>1, <1>4, <4>1, <4>2 DEF Clear
    <3> QED
      BY <1>1, <3>1, <3>2
  <2>3. stack # <<>> => new # <<>> /\ new[1] = stack[1]
    BY <1>1, <1>4
  <2> QED
    BY <1>4, <2>1, <2>2, <2>3 DEF Clear, new
<1> HIDE DEF new, n
<1>5. (s \in {Empty, "."} /\ new = stack)
      \/ (/\ s = ".." /\ stack # <<>> /\ stack[n] # ".."
          /\ new \in Seq(STRING) /\ Len(new) = n - 1
          /\ \A i \in 1..(n - 1) : new[i] = stack[i])
      \/ (/\ s \notin {Empty, "."} /\ (s = ".." => stack = <<>> \/ stack[n] = "..")
          /\ new \in Seq(STRING) /\ Len(new) = n + 1
          /\ \A i \in 1..n : new[i] = stack[i]
          /\ new[n + 1] = s)
  BY PushCases DEF new, n
<1> QED
  BY <1>2, <1>3, <1>4, <1>5 DEF new, n

\* All stacks of a path are clean.
LEMMA StacksClear ==
  ASSUME NEW path \in Seq(STRING), NEW n \in 0..Len(path)
  PROVE  Clear(Stacks(path)[n])
<1> DEFINE S == {k \in Nat : k <= Len(path) => Clear(Stacks(path)[k])}
<1>1. 0 \in S
  <2>1. Clear(<<>>)
    BY DEF Clear
  <2>2. Stacks(path)[0] = <<>>
    BY StacksStep
  <2> QED
    BY <2>1, <2>2
<1>2. ASSUME NEW k \in Nat, k \in S PROVE k + 1 \in S
  <2>1. SUFFICES ASSUME k + 1 <= Len(path) PROVE Clear(Stacks(path)[k + 1])
    OBVIOUS
  <2>2. Clear(Stacks(path)[k])
    BY <1>2, <2>1
  <2>3. k + 1 \in 1..Len(path) /\ (k + 1) - 1 = k
    BY <2>1
  <2>4. Stacks(path)[k + 1] = Push(Stacks(path)[k], path[k + 1]) /\ path[k + 1] \in STRING
    BY <2>3, StacksStep, ElementOfSeq
  <2> QED
    BY <2>2, <2>4, PushClear
<1> HIDE DEF S
<1>3. n \in S
  BY <1>1, <1>2, Induction
<1> QED
  BY <1>3 DEF S

\* Once a stack starts with "..", so do all later ones.
LEMMA ClimbStays ==
  ASSUME NEW path \in Seq(STRING), NEW n \in 0..Len(path),
         Stacks(path)[n] # <<>>, Stacks(path)[n][1] = ".."
  PROVE  Stacks(path)[Len(path)] # <<>> /\ Stacks(path)[Len(path)][1] = ".."
<1> DEFINE Climbs(k) == Stacks(path)[k] # <<>> /\ Stacks(path)[k][1] = ".."
           S == {k \in Nat : n + k <= Len(path) => Climbs(n + k)}
<1>1. 0 \in S
  OBVIOUS
<1>2. ASSUME NEW k \in Nat, k \in S PROVE k + 1 \in S
  <2> SUFFICES ASSUME n + (k + 1) <= Len(path) PROVE Climbs(n + (k + 1))
    OBVIOUS
  <2> DEFINE m == n + (k + 1)
  <2>1. m \in 1..Len(path) /\ m - 1 = n + k /\ n + k \in 0..Len(path)
    OBVIOUS
  <2>2. Climbs(n + k)
    BY <1>2, <2>1
  <2>3. Clear(Stacks(path)[n + k])
    BY <2>1, StacksClear
  <2>4. Stacks(path)[m] = Push(Stacks(path)[n + k], path[m]) /\ path[m] \in STRING
    BY <2>1, StacksStep, ElementOfSeq
  <2> QED
    BY <2>2, <2>3, <2>4, PushClear
<1> HIDE DEF S, Climbs
<1>3. Len(path) - n \in S
  BY <1>1, <1>2, Induction
<1>4. n + (Len(path) - n) = Len(path) /\ Len(path) <= Len(path)
  OBVIOUS
<1>5. n + (Len(path) - n) <= Len(path) => Climbs(n + (Len(path) - n))
  BY <1>3 DEF S
<1>6. Climbs(Len(path))
  BY <1>4, <1>5
<1> QED
  BY <1>6 DEF Climbs

-----------------------------------------------------------------------------
(* Depth *)

\* One more segment is one name, or one ".." more.
LEMMA DepthStep ==
  ASSUME NEW path \in Seq(STRING)
  PROVE  /\ Depth(path, 0) = 0
         /\ \A n \in Nat :
              /\ Depth(path, n) \in Int
              /\ Depth(path, n + 1) = IF path[n + 1] \in {Empty, "."} THEN Depth(path, n)
                                      ELSE IF path[n + 1] = ".." THEN Depth(path, n) - 1
                                      ELSE Depth(path, n) + 1
<1> DEFINE Ups(n) == {i \in 1..n : path[i] = ".."}
           Names(n) == {i \in 1..n : path[i] \notin {Empty, ".", ".."}}
<1>1. \A n : Depth(path, n) = Cardinality(Names(n)) - Cardinality(Ups(n))
  BY DEF Depth
<1>2. Names(0) = {} /\ Ups(0) = {}
  OBVIOUS
<1>3. ASSUME NEW n \in Nat
      PROVE  /\ IsFiniteSet(Names(n)) /\ IsFiniteSet(Ups(n))
             /\ Cardinality(Names(n)) \in Nat /\ Cardinality(Ups(n)) \in Nat
             /\ n + 1 \notin Names(n) /\ n + 1 \notin Ups(n)
  <2>1. IsFiniteSet(1..n)
    BY FS_Interval
  <2>2. Names(n) \subseteq 1..n /\ Ups(n) \subseteq 1..n
    OBVIOUS
  <2>3. n + 1 \notin 1..n
    OBVIOUS
  <2> QED
    BY <2>1, <2>2, <2>3, FS_Subset, FS_CardinalityType
<1>4. ASSUME NEW n \in Nat
      PROVE  /\ Names(n + 1) = IF path[n + 1] \in {Empty, ".", ".."}
                               THEN Names(n) ELSE Names(n) \cup {n + 1}
             /\ Ups(n + 1) = IF path[n + 1] = ".." THEN Ups(n) \cup {n + 1} ELSE Ups(n)
  <2>1. 1..(n + 1) = (1..n) \cup {n + 1}
    OBVIOUS
  <2> QED
    BY <2>1
<1> HIDE DEF Names, Ups
<1>5. ASSUME NEW n \in Nat
      PROVE  /\ Cardinality(Names(n) \cup {n + 1}) = Cardinality(Names(n)) + 1
             /\ Cardinality(Ups(n) \cup {n + 1}) = Cardinality(Ups(n)) + 1
  BY <1>3, FS_AddElement
<1>6. Depth(path, 0) = 0
  <2>1. Cardinality(Names(0)) = 0 /\ Cardinality(Ups(0)) = 0
    BY <1>2, FS_EmptySet
  <2>2. Depth(path, 0) = Cardinality(Names(0)) - Cardinality(Ups(0))
    BY <1>1
  <2> QED
    BY <2>1, <2>2
<1>7. ASSUME NEW n \in Nat
      PROVE  /\ Depth(path, n) \in Int
             /\ Depth(path, n + 1) = IF path[n + 1] \in {Empty, "."} THEN Depth(path, n)
                                     ELSE IF path[n + 1] = ".." THEN Depth(path, n) - 1
                                     ELSE Depth(path, n) + 1
  <2> DEFINE names == Cardinality(Names(n))
             ups == Cardinality(Ups(n))
             next == path[n + 1]
  <2>1. names \in Nat /\ ups \in Nat
    BY <1>3
  <2>2. Depth(path, n) = names - ups
    BY <1>1
  <2>3. Depth(path, n + 1) = Cardinality(Names(n + 1)) - Cardinality(Ups(n + 1))
    BY <1>1
  <2>4. /\ Cardinality(Names(n + 1)) = IF next \in {Empty, ".", ".."} THEN names ELSE names + 1
        /\ Cardinality(Ups(n + 1)) = IF next = ".." THEN ups + 1 ELSE ups
    BY <1>4, <1>5
  <2> HIDE DEF names, ups, next
  <2>5. Depth(path, n + 1) = IF next \in {Empty, "."} THEN names - ups
                             ELSE IF next = ".." THEN names - ups - 1
                             ELSE names - ups + 1
    BY <2>1, <2>3, <2>4, EmptySegment
  <2> QED
    BY <2>1, <2>2, <2>5 DEF next
<1> QED
  BY <1>6, <1>7

\* As long as no ".." is left over, the depth is what is on the stack.
LEMMA DepthIsHeight ==
  ASSUME NEW path \in Seq(STRING),
         ~ (Stacks(path)[Len(path)] # <<>> /\ Stacks(path)[Len(path)][1] = ".."),
         NEW n \in 0..Len(path)
  PROVE  Depth(path, n) = Len(Stacks(path)[n])
<1> DEFINE S == {k \in Nat : k <= Len(path) => Depth(path, k) = Len(Stacks(path)[k])}
<1>1. 0 \in S
  <2>1. Depth(path, 0) = 0 /\ Stacks(path)[0] = <<>>
    BY DepthStep, StacksStep
  <2> QED
    BY <2>1
<1>2. ASSUME NEW k \in Nat, k \in S PROVE k + 1 \in S
  <2> SUFFICES ASSUME k + 1 <= Len(path)
               PROVE  Depth(path, k + 1) = Len(Stacks(path)[k + 1])
    OBVIOUS
  <2> DEFINE stack == Stacks(path)[k]
             s == path[k + 1]
  <2>1. k \in 0..Len(path) /\ k + 1 \in 1..Len(path) /\ (k + 1) - 1 = k
    OBVIOUS
  <2>2. Depth(path, k) = Len(stack)
    BY <1>2
  <2>3. Clear(stack) /\ s \in STRING /\ Stacks(path)[k + 1] = Push(stack, s)
    BY <2>1, StacksClear, StacksStep, ElementOfSeq
  <2>4. ~ (stack # <<>> /\ stack[1] = "..") /\ stack \in Seq(STRING)
    BY <2>1, <2>3, ClimbStays DEF Clear
  <2>5. Depth(path, k + 1) = IF s \in {Empty, "."} THEN Depth(path, k)
                             ELSE IF s = ".." THEN Depth(path, k) - 1
                             ELSE Depth(path, k) + 1
    BY DepthStep
  <2>6. k + 1 \in 0..Len(path)
    BY <2>1
  <2>7. ~ (Push(stack, s) # <<>> /\ Push(stack, s)[1] = "..")
    BY <2>3, <2>6, ClimbStays
  <2> HIDE DEF stack, s
  <2>8. s = ".." /\ stack = <<>> => Push(stack, s) = <<"..">>
    BY <2>4, EmptySegment DEF Push
  <2>9. \A i \in 1..Len(stack) : stack[i] # ".."
    BY <2>3, <2>4 DEF Clear
  <2>10. Len(Push(stack, s)) = IF s \in {Empty, "."} THEN Len(stack)
                               ELSE IF s = ".." THEN Len(stack) - 1
                               ELSE Len(stack) + 1
    <3>1. ~ (s = ".." /\ stack = <<>>)
      BY <2>7, <2>8
    <3>2. stack # <<>> => Len(stack) \in 1..Len(stack)
      BY <2>4
    <3>3. s = ".." => stack # <<>> /\ stack[Len(stack)] # ".."
      BY <3>1, <3>2, <2>9
    <3> QED
      BY <2>3, <3>3, PushCases, EmptySegment
  <2> QED
    BY <2>2, <2>3, <2>5, <2>10 DEF stack, s
<1> HIDE DEF S
<1>3. n \in S
  BY <1>1, <1>2, Induction
<1> QED
  BY <1>3 DEF S

-----------------------------------------------------------------------------
(* Clean paths, and paths with a slash behind them *)

\* Names are pushed one upon the other.
LEMMA NamesAreKept ==
  ASSUME NEW path \in Seq(STRING), NEW n \in 0..Len(path),
         \A i \in 1..n : path[i] \notin {Empty, ".", ".."}
  PROVE  Stacks(path)[n] = SubSeq(path, 1, n)
<1> DEFINE S == {k \in Nat : k <= n => Stacks(path)[k] = SubSeq(path, 1, k)}
<1>1. 0 \in S
  <2>1. SubSeq(path, 1, 0) = <<>>
    BY SubSeqEmpty
  <2>2. Stacks(path)[0] = <<>>
    BY StacksStep
  <2> QED
    BY <2>1, <2>2
<1>2. ASSUME NEW k \in Nat, k \in S PROVE k + 1 \in S
  <2> SUFFICES ASSUME k + 1 <= n PROVE Stacks(path)[k + 1] = SubSeq(path, 1, k + 1)
    OBVIOUS
  <2> DEFINE start == SubSeq(path, 1, k)
             longer == SubSeq(path, 1, k + 1)
             s == path[k + 1]
  <2>1. k \in 0..Len(path) /\ k + 1 \in 1..Len(path) /\ k + 1 \in 0..Len(path) /\ (k + 1) - 1 = k
    OBVIOUS
  <2>2. Stacks(path)[k + 1] = Push(start, s) /\ s \in STRING
    <3>1. Stacks(path)[k + 1] = Push(Stacks(path)[k], path[k + 1])
      BY <2>1, StacksStep
    <3>2. Stacks(path)[k] = start
      BY <1>2
    <3> QED
      BY <2>1, <3>1, <3>2, ElementOfSeq
  <2>3. start \in Seq(STRING) /\ Len(start) = k /\ \A i \in 1..k : start[i] = path[i]
    BY <2>1, Beginning
  <2>4. longer \in Seq(STRING) /\ Len(longer) = k + 1 /\ \A i \in 1..(k + 1) : longer[i] = path[i]
    BY <2>1, Beginning
  <2>5. s \notin {Empty, ".", ".."}
    BY <2>1
  <2> HIDE DEF start, longer, s
  <2>6. Push(start, s) = Append(start, s)
    BY <2>5 DEF Push
  <2>7. /\ Append(start, s) \in Seq(STRING) /\ Len(Append(start, s)) = k + 1
        /\ \A i \in 1..k : Append(start, s)[i] = start[i]
        /\ Append(start, s)[k + 1] = s
    BY <2>2, <2>3, AppendProperties
  <2>8. \A i \in 1..(k + 1) : Append(start, s)[i] = longer[i]
    BY <2>3, <2>4, <2>7 DEF s
  <2>9. Append(start, s) = longer
    BY <2>4, <2>7, <2>8, SeqEqual
  <2> QED
    BY <2>2, <2>6, <2>9 DEF longer
<1> HIDE DEF S
<1>3. n \in S
  BY <1>1, <1>2, Induction
<1> QED
  BY <1>3 DEF S

\* The names of a path, with or without a slash behind them, are its clean form.
LEMMA CleanIsIdempotent ==
  ASSUME NEW path \in Seq(STRING), NEW names \in Seq(STRING), names # <<>>,
         IsPrefix(names, path),
         \A i \in 1..Len(names) : names[i] \notin {Empty, ".", ".."},
         path = names \/ (Len(path) = Len(names) + 1 /\ path[Len(path)] = Empty)
  PROVE  Clean(path) = names
<1> DEFINE n == Len(names)
<1>1. n \in Nat /\ n # 0 /\ n <= Len(path) /\ \A i \in 1..n : path[i] = names[i]
  <2>1. \A i \in 1..n : path[i] = names[i]
    BY PrefixElements
  <2> QED
    BY <2>1 DEF IsPrefix
<1>2. n \in 0..Len(path) /\ \A i \in 1..n : path[i] \notin {Empty, ".", ".."}
  BY <1>1
<1>3. Stacks(path)[n] = SubSeq(path, 1, n)
  BY <1>2, NamesAreKept
<1>4. SubSeq(path, 1, n) = names
  <2>1. SubSeq(names, 1, n) = names
    BY SubSeqFull
  <2> QED
    BY <2>1 DEF IsPrefix
<1>5. Stacks(path)[Len(path)] = names
  <2>1. CASE path = names
    BY <1>3, <1>4, <2>1
  <2>2. CASE Len(path) = n + 1 /\ path[Len(path)] = Empty
    <3>1. Stacks(path)[Len(path)] = Push(Stacks(path)[n], Empty)
      BY <1>1, <2>2, StacksStep
    <3> QED
      BY <1>3, <1>4, <3>1 DEF Push
  <2> QED
    BY <2>1, <2>2
<1> QED
  BY <1>5 DEF Clean

\* A directory that a file of git is under, as scoping compares them, is a clean
\* path in front of the file's, or that with a slash behind it.
LEMMA OwnerIsClean ==
  ASSUME NEW f \in GitPaths, NEW dir \in Seq(STRING) \ {<<>>}, PathUnderDir(f, dir)
  PROVE  IsPrefix(Clean(dir), f) /\ Clean(dir) \in Seq(STRING)
<1>1. f \in Seq(STRING) /\ f # <<>> /\ Len(f) \in Nat
      /\ \A i \in 1..Len(f) : f[i] \notin {Empty, ".", ".."}
  BY SeqMonotonic, ElementOfSeq DEF GitPaths
<1>2. ASSUME NEW names \in Seq(STRING), names # <<>>, IsPrefix(names, f), IsPrefix(names, dir),
             dir = names \/ (Len(dir) = Len(names) + 1 /\ dir[Len(dir)] = Empty)
      PROVE  Clean(dir) = names
  <2>1. Len(names) \in Nat /\ Len(names) <= Len(f) /\ \A i \in 1..Len(names) : names[i] = f[i]
    BY <1>1, <1>2, PrefixElements
  <2>2. \A i \in 1..Len(names) : names[i] \notin {Empty, ".", ".."}
    BY <1>1, <2>1
  <2> QED
    BY <1>2, <2>2, CleanIsIdempotent
<1>3. \A s \in Seq(STRING) : IsPrefix(s, s)
  BY PrefixElements
<1>4. CASE f = dir
  BY <1>1, <1>2, <1>3, <1>4
<1>5. CASE Last(dir) # Empty /\ IsStrictPrefix(dir, f)
  BY <1>2, <1>3, <1>5 DEF IsStrictPrefix
<1>6. CASE Last(dir) = Empty /\ dir # <<Empty>> /\ IsStrictPrefix(Front(dir), f)
  <2> DEFINE names == Front(dir)
             n == Len(dir) - 1
  <2>1. Len(dir) \in Nat /\ Len(dir) # 0 /\ n \in 0..Len(dir)
    OBVIOUS
  <2>2. Len(dir) # 1
    <3>1. Len(dir) = 1 => dir = <<dir[1]>>
      OBVIOUS
    <3> QED
      BY <1>6, <3>1 DEF Last
  <2>3. names \in Seq(STRING) /\ Len(names) = n /\ IsPrefix(names, dir)
    BY <2>1, Beginning DEF Front
  <2>4. names # <<>>
    BY <2>1, <2>2, <2>3
  <2> HIDE DEF names
  <2>5. IsPrefix(names, f) /\ Len(dir) = Len(names) + 1 /\ dir[Len(dir)] = Empty
    BY <1>6, <2>1, <2>3 DEF IsStrictPrefix, Last, names
  <2> QED
    BY <1>2, <2>3, <2>4, <2>5
<1> QED
  BY <1>4, <1>5, <1>6 DEF PathUnderDir

-----------------------------------------------------------------------------
(* Globs *)

\* Up to its first "*", a pattern without "?" is what the name starts with.
LEMMA GlobBeginning ==
  ASSUME NEW pattern \in Seq(STRING), NEW name \in Seq(STRING), StarsOnly(pattern),
         NEW at \in [1..(Len(pattern) + 1) -> 1..(Len(name) + 1)], at[1] = 1,
         \A i \in DOMAIN pattern :
           IF pattern[i] = "*" THEN at[i] <= at[i + 1]
           ELSE at[i + 1] = at[i] + 1 /\ pattern[i] \in {"?", name[at[i]]},
         NEW n \in 0..Len(pattern), \A i \in 1..n : pattern[i] # "*"
  PROVE  at[n + 1] = n + 1 /\ n <= Len(name) /\ \A i \in 1..n : pattern[i] = name[i]
<1> DEFINE L == Len(pattern)
           S == {k \in Nat : k <= n => at[k + 1] = k + 1 /\ \A i \in 1..k : pattern[i] = name[i]}
<1>1. 0 \in S
  OBVIOUS
<1>2. ASSUME NEW k \in Nat, k \in S PROVE k + 1 \in S
  <2> SUFFICES ASSUME k + 1 <= n
               PROVE  /\ at[(k + 1) + 1] = (k + 1) + 1
                      /\ \A i \in 1..(k + 1) : pattern[i] = name[i]
    OBVIOUS
  <2>1. k + 1 \in 1..n /\ k + 1 \in DOMAIN pattern
    OBVIOUS
  <2>2. at[k + 1] = k + 1 /\ \A i \in 1..k : pattern[i] = name[i]
    BY <1>2
  <2>3. pattern[k + 1] # "*" /\ pattern[k + 1] # "?"
    BY <2>1 DEF StarsOnly
  <2>4. at[(k + 1) + 1] = at[k + 1] + 1 /\ pattern[k + 1] \in {"?", name[at[k + 1]]}
    BY <2>1, <2>3
  <2>5. pattern[k + 1] = name[k + 1]
    BY <2>2, <2>3, <2>4
  <2> QED
    BY <2>2, <2>4, <2>5
<1> HIDE DEF S
<1>3. n \in S
  <2>1. n \in Nat
    OBVIOUS
  <2> QED
    BY <1>1, <1>2, <2>1, Induction
<1>4. at[n + 1] = n + 1 /\ \A i \in 1..n : pattern[i] = name[i]
  BY <1>3 DEF S
<1>5. at[n + 1] \in 1..(Len(name) + 1) /\ Len(name) \in Nat
  <2>1. L \in Nat /\ Len(name) \in Nat
    OBVIOUS
  <2>2. n + 1 \in 1..(L + 1)
    BY <2>1
  <2> QED
    BY <2>1, <2>2
<1> QED
  BY <1>4, <1>5

\* A pattern without "?" that matches is the name, or has a first "*" and in front
\* of it what the name starts with.
LEMMA MatchCases ==
  ASSUME NEW pattern \in Seq(STRING), NEW name \in Seq(STRING), StarsOnly(pattern),
         GlobMatch(pattern, name)
  PROVE  \/ pattern = name
         \/ \E n \in DOMAIN pattern :
              /\ pattern[n] = "*" /\ \A i \in 1..(n - 1) : pattern[i] # "*"
              /\ IsPrefix(SubSeq(pattern, 1, n - 1), name)
<1> DEFINE L == Len(pattern)
           M == Len(name)
           Aligns(at) ==
             /\ at[1] = 1 /\ at[L + 1] = M + 1
             /\ \A i \in DOMAIN pattern :
                  IF pattern[i] = "*" THEN at[i] <= at[i + 1]
                  ELSE at[i + 1] = at[i] + 1 /\ pattern[i] \in {"?", name[at[i]]}
           Starts(n) == n <= M /\ \A i \in 1..n : pattern[i] = name[i]
<1>1. PICK at \in [1..(L + 1) -> 1..(M + 1)] : Aligns(at)
  BY DEF GlobMatch
<1>2. \A n \in 0..L : (\A i \in 1..n : pattern[i] # "*") => at[n + 1] = n + 1 /\ Starts(n)
  BY <1>1, GlobBeginning
<1>3. L \in Nat /\ M \in Nat /\ DOMAIN pattern = 1..L
  OBVIOUS
<1>4. CASE \A i \in 1..L : pattern[i] # "*"
  <2>1. at[L + 1] = L + 1 /\ Starts(L)
    BY <1>2, <1>3, <1>4
  <2>2. L = M
    BY <1>1, <1>3, <2>1
  <2>3. pattern = name
    BY <2>1, <2>2, SeqEqual
  <2> QED
    BY <2>3
<1>5. CASE \E i \in 1..L : pattern[i] = "*"
  <2> DEFINE Stars == {i \in 1..L : pattern[i] = "*"}
  <2>1. Stars # {} /\ Stars \in SUBSET Nat
    BY <1>3, <1>5
  <2>2. PICK n \in Stars : \A m \in Stars : n <= m
    BY <2>1, LeastNumber
  <2>3. n \in 1..L /\ n - 1 \in 0..L /\ pattern[n] = "*"
    BY <1>3, <2>2
  <2>4. \A i \in 1..(n - 1) : pattern[i] # "*"
    BY <1>3, <2>2, <2>3
  <2>5. Starts(n - 1)
    BY <1>2, <2>3, <2>4
  <2> DEFINE front == SubSeq(pattern, 1, n - 1)
  <2>6. front \in Seq(STRING) /\ Len(front) = n - 1 /\ \A i \in 1..(n - 1) : front[i] = pattern[i]
    BY <2>3, Beginning
  <2> HIDE DEF front
  <2>7. IsPrefix(front, name)
    BY <2>5, <2>6, PrefixElements
  <2> QED
    BY <1>3, <2>3, <2>4, <2>7 DEF front
<1> QED
  BY <1>4, <1>5

\* Two patterns without "?" that match one name are found to overlap.
LEMMA MatchesOverlap ==
  ASSUME NEW p \in Seq(STRING), NEW q \in Seq(STRING), NEW name \in Seq(STRING),
         StarsOnly(p), StarsOnly(q), GlobMatch(p, name), GlobMatch(q, name)
  PROVE  BranchPatternsOverlap(p, q)
<1> DEFINE Starred(r, n) == /\ r[n] = "*" /\ \A i \in 1..(n - 1) : r[i] # "*"
                            /\ IsPrefix(SubSeq(r, 1, n - 1), name)
<1>1. ASSUME NEW r \in Seq(STRING), NEW n \in DOMAIN r, Starred(r, n)
      PROVE  SubSeq(r, 1, n - 1) \in Seq(STRING) /\ IsPrefix(SubSeq(r, 1, n - 1), r)
  <2>1. n - 1 \in 0..Len(r)
    OBVIOUS
  <2> QED
    BY <2>1, Beginning
<1>2. ASSUME NEW r \in Seq(STRING), NEW s \in Seq(STRING), NEW t \in Seq(STRING),
             IsPrefix(r, s), IsPrefix(s, t)
      PROVE  IsPrefix(r, t)
  <2>1. Len(r) \in Nat /\ Len(s) \in Nat /\ Len(t) \in Nat
    OBVIOUS
  <2>2. Len(r) <= Len(s) /\ \A i \in 1..Len(r) : r[i] = s[i]
    BY <1>2, PrefixElements
  <2>3. Len(s) <= Len(t) /\ \A i \in 1..Len(s) : s[i] = t[i]
    BY <1>2, PrefixElements
  <2> QED
    BY <2>1, <2>2, <2>3, PrefixElements
<1>3. ASSUME NEW m \in DOMAIN p, Starred(p, m), NEW n \in DOMAIN q, Starred(q, n)
      PROVE  MatchGlob(p, q) \/ MatchGlob(q, p)
  <2> DEFINE s == SubSeq(p, 1, m - 1)
             t == SubSeq(q, 1, n - 1)
  <2>1. s \in Seq(STRING) /\ IsPrefix(s, p) /\ t \in Seq(STRING) /\ IsPrefix(t, q)
    BY <1>1, <1>3
  <2>2. IsPrefix(s, name) /\ IsPrefix(t, name)
    BY <1>3
  <2> HIDE DEF s, t
  <2>3. IsPrefix(s, t) \/ IsPrefix(t, s)
    BY <2>1, <2>2, PrefixesNest
  <2>4. IsPrefix(s, q) \/ IsPrefix(t, p)
    BY <1>2, <2>1, <2>3
  <2> QED
    BY <1>3, <2>4 DEF MatchGlob, s, t
<1>4. p = name \/ \E m \in DOMAIN p : Starred(p, m)
  BY MatchCases
<1>5. q = name \/ \E n \in DOMAIN q : Starred(q, n)
  BY MatchCases
<1> QED
  BY <1>3, <1>4, <1>5 DEF BranchPatternsOverlap, MatchGlob

-----------------------------------------------------------------------------
(* What validation says of a directory, and what scoping does *)

\* Directories that one file of git is under are found to overlap.
LEMMA OwnersOverlap ==
  ASSUME NEW f \in GitPaths, NEW d \in Seq(STRING) \ {<<>>}, NEW e \in Seq(STRING) \ {<<>>},
         PathUnderDir(f, d), PathUnderDir(f, e)
  PROVE  DirsOverlap(d, e)
<1>1. IsPrefix(Clean(d), f) /\ Clean(d) \in Seq(STRING)
  BY OwnerIsClean
<1>2. IsPrefix(Clean(e), f) /\ Clean(e) \in Seq(STRING)
  BY OwnerIsClean
<1>3. f \in Seq(STRING)
  BY SeqMonotonic DEF GitPaths
<1> QED
  BY <1>1, <1>2, <1>3, PrefixesNest DEF DirsOverlap

\* An accepted directory leads below the root at every step.
LEMMA ValidStaysInside ==
  ASSUME NEW dir \in Seq(STRING) \ {<<>>}, ValidateRepoPath(dir), NEW n \in 0..Len(dir)
  PROVE  Depth(dir, n) >= 0
<1> DEFINE last == Stacks(dir)[Len(dir)]
<1>1. ~ (last # <<>> /\ last[1] = "..")
  BY DEF ValidateRepoPath, Clean
<1>2. Depth(dir, n) = Len(Stacks(dir)[n])
  BY <1>1, DepthIsHeight
<1>3. Stacks(dir)[n] \in Seq(STRING)
  BY StacksClear DEF Clear
<1> QED
  BY <1>2, <1>3

\* A file below the place of a directory is under the directory as it is spelled,
\* when that is the clean path with or without a slash behind it.
LEMMA PlaceIsOwned ==
  ASSUME NEW dir \in Seq(STRING) \ {<<>>}, NEW f, Place(dir) # <<>>,
         IsStrictPrefix(Place(dir), f), dir \in {Place(dir), Append(Place(dir), Empty)}
  PROVE  PathUnderDir(f, dir)
<1> DEFINE place == Place(dir)
           n == Len(place)
<1>1. place = Stacks(dir)[Len(dir)]
  BY DEF Place, Clean
<1>2. Len(dir) \in 0..Len(dir)
  OBVIOUS
<1>3. Clear(place)
  BY <1>1, <1>2, StacksClear
<1>4. place \in Seq(STRING) /\ n \in Nat
  BY <1>3 DEF Clear
<1> HIDE DEF place
<1>5. n # 0
  BY <1>4 DEF place
<1>6. CASE dir = place
  <2>1. dir[n] # Empty
    BY <1>3, <1>4, <1>5, <1>6 DEF Clear
  <2>2. <<Empty>>[1] = Empty /\ Len(<<Empty>>) = 1
    OBVIOUS
  <2>3. dir # <<Empty>>
    BY <1>6, <2>1, <2>2
  <2> QED
    BY <1>6, <2>1, <2>3 DEF PathUnderDir, Last, place
<1>7. CASE dir = Append(place, Empty)
  <2> DEFINE S == STRING \cup {Empty}
  <2>1. place \in Seq(S) /\ Empty \in S
    BY <1>4, SeqMonotonic
  <2> HIDE DEF S
  <2>2. /\ dir \in Seq(S) /\ Len(dir) = n + 1 /\ dir[n + 1] = Empty
        /\ \A i \in 1..n : dir[i] = place[i]
    BY <1>7, <2>1, AppendProperties
  <2>3. IsPrefix(place, dir)
    BY <1>4, <2>1, <2>2, PrefixElements
  <2>4. SubSeq(place, 1, n) = place
    BY <1>4, SubSeqFull
  <2>5. Front(dir) = place
    BY <1>4, <2>2, <2>3, <2>4 DEF Front, IsPrefix
  <2>6. Len(<<Empty>>) = 1
    OBVIOUS
  <2>7. dir # <<Empty>>
    BY <1>4, <1>5, <2>2, <2>6
  <2> QED
    BY <2>2, <2>5, <2>7 DEF PathUnderDir, Last, place
<1> QED
  BY <1>6, <1>7 DEF place
=============================================================================
