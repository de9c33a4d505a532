--------------------------- MODULE ReachedProofs ---------------------------
(***************************************************************************)
(* What is reached in a finite graph is the least set that holds the start *)
(* and is closed under the graph's edges. Everything proved of bodies, of  *)
(* live components, of loops and of blocks that can be reached rests on    *)
(* this; what is proved of recursive functions rests on three on numbers.  *)
(***************************************************************************)
EXTENDS Reached, Integers, SequencesExt, FiniteSetTheorems, SequenceTheorems, TLAPS

\* A set of numbers has a least one.
LEMMA LeastNumber ==
  ASSUME NEW S \in SUBSET Nat, S # {}
  PROVE  \E x \in S : \A y \in S : x <= y
<1>1. PICK x \in S : \A y \in S : <<y, x>> \notin OpToRel(<, Nat)
  BY WFMin, NatLessThanWellFounded, Zenon
<1>2. \A y \in S : ~(y < x)
  BY <1>1, Zenon DEF OpToRel
<1> QED BY <1>2

\* What holds of 0, and of one more than it holds of, holds of all numbers up to n.
LEMMA Upward ==
  ASSUME NEW n \in Nat, NEW S \in SUBSET (0 .. n), 0 \in S,
         \A k \in 1 .. n : k - 1 \in S => k \in S
  PROVE  0 .. n \subseteq S
<1> DEFINE Left == (0 .. n) \ S
<1>1. SUFFICES ASSUME Left # {} PROVE FALSE
  OBVIOUS
<1>2. PICK k \in Left : \A j \in Left : k <= j
  <2>1. Left \in SUBSET Nat
    OBVIOUS
  <2> HIDE DEF Left
  <2> QED BY <1>1, <2>1, LeastNumber
<1>3. k \in 1 .. n /\ k - 1 \notin Left /\ k - 1 \in 0 .. n
  BY <1>2
<1> QED BY <1>2, <1>3

Iteration(t, n, a, step) == t[0] = a /\ \A k \in 1 .. n : t[k] = step[k][t[k - 1]]

\* What is done to each of n things in turn can be done to all of them: a recursive
\* function on 0 .. n that starts at a and makes its value at k from that at k - 1.
LEMMA Iterates ==
  ASSUME NEW n \in Nat, NEW S, NEW a \in S, NEW step \in [1 .. n -> [S -> S]]
  PROVE  \E t \in [0 .. n -> S] : Iteration(t, n, a, step)
<1> DEFINE Upto(k, t) == t[0] = a /\ \A j \in 1 .. k : t[j] = step[j][t[j - 1]]
           Done == {k \in 0 .. n : \E t \in [0 .. k -> S] : Upto(k, t)}
<1>1. 0 \in Done
  <2>1. [j \in 0 .. 0 |-> a] \in [0 .. 0 -> S] /\ Upto(0, [j \in 0 .. 0 |-> a])
    OBVIOUS
  <2>2. \E t \in [0 .. 0 -> S] : Upto(0, t)
    BY <2>1
  <2> HIDE DEF Upto
  <2> QED BY <2>2
<1>2. ASSUME NEW k \in 1 .. n, k - 1 \in Done
      PROVE  k \in Done
  <2>1. PICK t \in [0 .. k - 1 -> S] : Upto(k - 1, t)
    BY <1>2
  <2> DEFINE u == [j \in 0 .. k |-> IF j = k THEN step[k][t[k - 1]] ELSE t[j]]
  <2>2. t[k - 1] \in S /\ step[k][t[k - 1]] \in S
    OBVIOUS
  <2>3. u \in [0 .. k -> S]
    BY <2>2
  <2>4. u[0] = a
    BY <2>1
  <2>5. ASSUME NEW j \in 1 .. k
        PROVE  u[j] = step[j][u[j - 1]]
    <3>1. CASE j = k
      <4>1. u[k] = step[k][t[k - 1]] /\ u[k - 1] = t[k - 1]
        OBVIOUS
      <4> QED BY <3>1, <4>1
    <3>2. CASE j # k
      <4>1. j \in 1 .. k - 1 /\ u[j] = t[j] /\ u[j - 1] = t[j - 1]
        BY <3>2
      <4> QED BY <2>1, <4>1
    <3> QED BY <3>1, <3>2
  <2> HIDE DEF u
  <2>6. \E v \in [0 .. k -> S] : Upto(k, v)
    BY <2>3, <2>4, <2>5
  <2> HIDE DEF Upto
  <2> QED BY <2>6
<1>3. Done \in SUBSET (0 .. n)
  OBVIOUS
<1> HIDE DEF Done
<1>4. 0 .. n \subseteq Done
  BY <1>1, <1>2, <1>3, Upward
<1>5. n \in Done
  BY <1>4
<1> QED BY <1>5 DEF Done, Iteration

-----------------------------------------------------------------------------
(***************************************************************************)
(* Worklists.                                                              *)
(***************************************************************************)
\* What is on a worklist after an item is taken from its front,
LEMMA HeadTail ==
  ASSUME NEW S, NEW w \in Seq(S), w # <<>>
  PROVE  /\ Head(w) \in S /\ Tail(w) \in Seq(S)
         /\ ToSet(w) = {Head(w)} \cup ToSet(Tail(w))
<1>1. Len(w) \in Nat \ {0} /\ DOMAIN w = 1 .. Len(w) /\ Head(w) = w[1]
  OBVIOUS
<1>2. DOMAIN Tail(w) = 1 .. Len(w) - 1 /\ \A i \in 1 .. Len(w) - 1 : Tail(w)[i] = w[i + 1]
  BY <1>1
<1>3. ASSUME NEW x \in ToSet(w)
      PROVE  x \in {Head(w)} \cup ToSet(Tail(w))
  <2>1. PICK i \in 1 .. Len(w) : x = w[i]
    BY <1>1 DEF ToSet
  <2>2. CASE i = 1
    BY <1>1, <2>1, <2>2
  <2>3. CASE i # 1
    <3>1. i - 1 \in 1 .. Len(w) - 1 /\ (i - 1) + 1 = i
      BY <1>1, <2>3
    <3>2. x = Tail(w)[i - 1]
      BY <1>2, <2>1, <3>1
    <3> QED BY <1>2, <3>1, <3>2 DEF ToSet
  <2> QED BY <2>2, <2>3
<1>4. ASSUME NEW x \in ToSet(Tail(w))
      PROVE  x \in ToSet(w)
  <2>1. PICK i \in 1 .. Len(w) - 1 : x = Tail(w)[i]
    BY <1>2 DEF ToSet
  <2>2. x = w[i + 1] /\ i + 1 \in 1 .. Len(w)
    BY <1>1, <1>2, <2>1
  <2> QED BY <1>1, <2>2 DEF ToSet
<1>5. Head(w) \in ToSet(w)
  BY <1>1 DEF ToSet
<1> QED BY <1>3, <1>4, <1>5

\* when one is put on top of it,
LEMMA Appended ==
  ASSUME NEW S, NEW w \in Seq(S), NEW x \in S
  PROVE  /\ Append(w, x) \in Seq(S) /\ Append(w, x) # <<>> /\ Last(Append(w, x)) = x
         /\ ToSet(Append(w, x)) = ToSet(w) \cup {x}
         /\ IsInjective(w) /\ x \notin ToSet(w) => IsInjective(Append(w, x))
<1> DEFINE v == Append(w, x)
           n == Len(w)
<1>1. /\ v \in Seq(S) /\ n \in Nat /\ DOMAIN w = 1 .. n /\ DOMAIN v = 1 .. n + 1
      /\ Len(v) = n + 1 /\ v[n + 1] = x /\ \A i \in 1 .. n : v[i] = w[i]
  OBVIOUS
<1> HIDE DEF v, n
<1>2. Last(v) = x /\ v # <<>>
  BY <1>1 DEF Last
<1>3. ToSet(v) = ToSet(w) \cup {x}
  <2>1. \A i \in 1 .. n + 1 : i \in 1 .. n \/ i = n + 1
    BY <1>1
  <2>2. n + 1 \in 1 .. n + 1 /\ \A i \in 1 .. n : i \in 1 .. n + 1
    BY <1>1
  <2> QED BY <1>1, <2>1, <2>2 DEF ToSet
<1>4. ASSUME IsInjective(w), x \notin ToSet(w), NEW i \in DOMAIN v, NEW j \in DOMAIN v,
             v[i] = v[j]
      PROVE  i = j
  <2>1. \A k \in 1 .. n + 1 : k \in 1 .. n \/ k = n + 1
    BY <1>1
  <2>2. \A k \in 1 .. n : w[k] # x
    BY <1>1, <1>4 DEF ToSet
  <2> QED BY <1>1, <1>4, <2>1, <2>2 DEF IsInjective
<1> QED BY <1>1, <1>2, <1>3, <1>4 DEF v, IsInjective

\* when others are put behind it,
LEMMA Chained ==
  ASSUME NEW S, NEW v \in Seq(S), NEW w \in Seq(S)
  PROVE  v \o w \in Seq(S) /\ ToSet(v \o w) = ToSet(v) \cup ToSet(w)
<1> DEFINE u == v \o w
           n == Len(v)
           k == Len(w)
<1>1. /\ u \in Seq(S) /\ n \in Nat /\ k \in Nat
      /\ DOMAIN v = 1 .. n /\ DOMAIN w = 1 .. k /\ DOMAIN u = 1 .. n + k
      /\ \A i \in 1 .. n + k : u[i] = IF i <= n THEN v[i] ELSE w[i - n]
  BY ConcatProperties
<1> HIDE DEF u, n, k
<1>2. ASSUME NEW x \in ToSet(u)
      PROVE  x \in ToSet(v) \cup ToSet(w)
  <2>1. PICK i \in 1 .. n + k : x = u[i]
    BY <1>1 DEF ToSet
  <2>2. i <= n => i \in 1 .. n /\ x = v[i]
    BY <1>1, <2>1
  <2>3. ~(i <= n) => i - n \in 1 .. k /\ x = w[i - n]
    BY <1>1, <2>1
  <2> QED BY <1>1, <2>2, <2>3 DEF ToSet
<1>3. ASSUME NEW x \in ToSet(v)
      PROVE  x \in ToSet(u)
  <2>1. PICK i \in 1 .. n : x = v[i]
    BY <1>1 DEF ToSet
  <2>2. i \in 1 .. n + k /\ x = u[i]
    BY <1>1, <2>1
  <2> QED BY <1>1, <2>2 DEF ToSet
<1>4. ASSUME NEW x \in ToSet(w)
      PROVE  x \in ToSet(u)
  <2>1. PICK i \in 1 .. k : x = w[i]
    BY <1>1 DEF ToSet
  <2>2. i + n \in 1 .. n + k /\ ~(i + n <= n) /\ (i + n) - n = i
    BY <1>1, <2>1
  <2>3. x = u[i + n]
    BY <1>1, <2>1, <2>2
  <2> QED BY <1>1, <2>2, <2>3 DEF ToSet
<1> QED BY <1>1, <1>2, <1>3, <1>4 DEF u

\* and when the one on top is taken.
LEMMA Popped ==
  ASSUME NEW S, NEW w \in Seq(S), w # <<>>
  PROVE  /\ Front(w) \in Seq(S) /\ Last(w) \in S
         /\ ToSet(w) = ToSet(Front(w)) \cup {Last(w)}
         /\ IsInjective(w) => IsInjective(Front(w)) /\ Last(w) \notin ToSet(Front(w))
<1> DEFINE n == Len(w)
           v == Front(w)
<1>1. n \in Nat \ {0} /\ DOMAIN w = 1 .. n /\ Last(w) = w[n] /\ w[n] \in S
  BY DEF Last
<1>2. v \in Seq(S) /\ DOMAIN v = 1 .. n - 1 /\ \A i \in 1 .. n - 1 : v[i] = w[i]
  BY <1>1 DEF Front
<1> HIDE DEF n, v
<1>3. /\ n \in 1 .. n /\ n \notin 1 .. n - 1
      /\ \A i \in 1 .. n : i \in 1 .. n - 1 \/ i = n
      /\ \A i \in 1 .. n - 1 : i \in 1 .. n
  BY <1>1
<1>4. ToSet(w) = ToSet(v) \cup {Last(w)}
  BY <1>1, <1>2, <1>3 DEF ToSet
<1>5. IsInjective(w) => IsInjective(v) /\ Last(w) \notin ToSet(v)
  BY <1>1, <1>2, <1>3 DEF ToSet, IsInjective
<1> QED BY <1>1, <1>2, <1>4, <1>5 DEF v

\* Items of small worklists.
LEMMA Members ==
  /\ \A x : x \notin ToSet(<<>>)
  /\ \A S : \A w \in Seq(S) : ToSet(w) \subseteq S
  /\ \A x : ToSet(<<x>>) = {x}
  /\ IsInjective(<<>>)
BY DEF ToSet, IsInjective

-----------------------------------------------------------------------------
\* The functions that give each node of U its successors in U.
Graph(U) == [U -> SUBSET U]

Closed(C, succ) == \A x \in C : succ[x] \subseteq C

\* What every closed set that holds S holds.
Least(S, succ) ==
  {x \in DOMAIN succ : \A C \in SUBSET DOMAIN succ : S \subseteq C /\ Closed(C, succ) => x \in C}

\* One round of ReachedFrom.
WithNext(R, succ) == R \cup UNION {succ[x] : x \in R}

-----------------------------------------------------------------------------
\* A round stays within the graph and goes on exactly while the set is not closed.
LEMMA WithNextFacts ==
  ASSUME NEW U, NEW succ \in Graph(U), NEW R \in SUBSET U
  PROVE  /\ WithNext(R, succ) \in SUBSET U /\ R \subseteq WithNext(R, succ)
         /\ WithNext(R, succ) = R => Closed(R, succ)
BY DEF WithNext, Graph, Closed

\* A closed set is all that it leads to, and a round leads nowhere else.
LEMMA LeastFacts ==
  ASSUME NEW U, NEW succ \in Graph(U), NEW R \in SUBSET U
  PROVE  /\ Closed(R, succ) => Least(R, succ) = R
         /\ Least(WithNext(R, succ), succ) = Least(R, succ)
<1>1. DOMAIN succ = U /\ \A x \in U : succ[x] \subseteq U
  BY DEF Graph
<1>2. ASSUME NEW C \in SUBSET U, Closed(C, succ)
      PROVE  R \subseteq C <=> WithNext(R, succ) \subseteq C
  BY <1>2 DEF WithNext, Closed
<1>3. Closed(R, succ) => Least(R, succ) = R
  BY <1>1 DEF Least
<1> QED BY <1>1, <1>2, <1>3 DEF Least

\* The rounds come to an end in a finite graph, with the least closed set.
LEMMA RoundsEnd ==
  ASSUME NEW U, IsFiniteSet(U), NEW succ \in Graph(U), NEW g,
         \A R \in SUBSET U : g[R] = IF WithNext(R, succ) = R THEN R ELSE g[WithNext(R, succ)],
         NEW S \in SUBSET U
  PROVE  g[S] = Least(S, succ)
<1> DEFINE Wrong == {R \in SUBSET U : g[R] # Least(R, succ)}
           Left(R) == Cardinality(U \ R)
<1>1. SUFFICES ASSUME Wrong # {} PROVE FALSE
  OBVIOUS
<1>2. ASSUME NEW R \in SUBSET U
      PROVE  Left(R) \in Nat
  BY FS_Subset, FS_CardinalityType
<1>3. PICK R \in Wrong : \A Q \in Wrong : Left(R) <= Left(Q)
  <2> DEFINE N == {Left(R) : R \in Wrong}
  <2>1. N \in SUBSET Nat /\ N # {}
    BY <1>1, <1>2
  <2>2. PICK n \in N : \A m \in N : n <= m
    BY <2>1, LeastNumber
  <2> QED BY <2>2
<1> DEFINE next == WithNext(R, succ)
<1>4. R \in SUBSET U /\ g[R] # Least(R, succ) /\ next \in SUBSET U /\ R \subseteq next
  BY <1>3, WithNextFacts
<1>5. g[R] = IF next = R THEN R ELSE g[next]
  BY <1>4
<1>6. CASE next = R
  <2>1. Closed(R, succ)
    BY <1>4, <1>6, WithNextFacts
  <2> QED BY <1>4, <1>5, <1>6, <2>1, LeastFacts
<1>7. CASE next # R
  <2>1. Left(next) < Left(R)
    <3>1. /\ IsFiniteSet(U \ R) /\ U \ next \in SUBSET (U \ R) /\ U \ next # U \ R
          /\ Left(R) \in Nat /\ Left(next) \in Nat
      BY <1>2, <1>4, <1>7, FS_Subset
    <3>2. Left(next) <= Left(R) /\ Left(next) # Left(R)
      BY <3>1, FS_Subset
    <3> HIDE DEF Left
    <3> QED BY <3>1, <3>2
  <2>2. next \notin Wrong
    <3>1. Left(R) \in Nat /\ Left(next) \in Nat
      BY <1>2, <1>4
    <3>2. Left(next) # Left(R) /\ ~(Left(R) <= Left(next))
      <4> HIDE DEF Left, next
      <4> QED BY <2>1, <3>1
    <3> HIDE DEF Left, next, Wrong
    <3> QED BY <1>3, <3>2
  <2>3. g[R] = Least(next, succ)
    BY <1>4, <1>5, <1>7, <2>2
  <2> QED BY <1>4, <2>3, LeastFacts
<1> QED BY <1>6, <1>7

\* Reachability computes the least closed set (cfgraphbuilder's and the optimizer's
\* depth-first walks visit each node once, and end).
LEMMA ReachedIsLeast ==
  ASSUME NEW U, IsFiniteSet(U), NEW succ \in Graph(U), NEW S \in SUBSET U
  PROVE  ReachedFrom(S, succ) = Least(S, succ)
<1> DEFINE Rounds(g) ==
             [R \in SUBSET U |-> IF WithNext(R, succ) = R THEN R ELSE g[WithNext(R, succ)]]
           least == [R \in SUBSET U |-> Least(R, succ)]
           reached == CHOOSE g : g = Rounds(g)
<1>1. DOMAIN succ = U
  BY DEF Graph
<1>2. least = Rounds(least)
  <2>1. ASSUME NEW R \in SUBSET U
        PROVE  Least(R, succ) =
                 IF WithNext(R, succ) = R THEN R ELSE least[WithNext(R, succ)]
    BY <2>1, WithNextFacts, LeastFacts
  <2> QED BY <2>1
<1>3. reached = Rounds(reached)
  BY <1>2
<1>4. \A R \in SUBSET U :
        reached[R] = IF WithNext(R, succ) = R THEN R ELSE reached[WithNext(R, succ)]
  <2> HIDE DEF reached
  <2> QED BY <1>3
<1>5. reached[S] = Least(S, succ)
  <2> HIDE DEF reached, Rounds
  <2> QED BY <1>4, RoundsEnd
<1>6. ReachedFrom(S, succ) = reached[S]
  BY <1>1 DEF ReachedFrom, WithNext
<1> QED BY <1>5, <1>6

\* What is reached holds the start, is closed, and is in every closed set that
\* holds the start.
LEMMA ReachedFacts ==
  ASSUME NEW U, IsFiniteSet(U), NEW succ \in Graph(U), NEW S \in SUBSET U
  PROVE  /\ ReachedFrom(S, succ) \in SUBSET U
         /\ S \subseteq ReachedFrom(S, succ)
         /\ Closed(ReachedFrom(S, succ), succ)
         /\ \A C \in SUBSET U : S \subseteq C /\ Closed(C, succ) => ReachedFrom(S, succ) \subseteq C
<1>1. DOMAIN succ = U /\ \A x \in U : succ[x] \subseteq U
  BY DEF Graph
<1>2. ReachedFrom(S, succ) = Least(S, succ)
  BY ReachedIsLeast
<1>3. Closed(Least(S, succ), succ)
  BY <1>1 DEF Least, Closed
<1> QED BY <1>1, <1>2, <1>3 DEF Least
=============================================================================
