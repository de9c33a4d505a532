-------------------------- MODULE InsertionsProofs --------------------------
(***************************************************************************)
(* Whatever is inserted into a program, and wherever, it implements        *)
(* Editing: one instruction became several, and nothing else changed; and  *)
(* the source lines and scopes of the program survive its layout, whatever *)
(* was inserted before.                                                    *)
(***************************************************************************)
EXTENDS Annotations, ReachedProofs, SequenceTheorems

-----------------------------------------------------------------------------
(***************************************************************************)
(* Sums of the counts of notes. They are defined by recursion: that there  *)
(* is such a function, and what holds of all its values, is shown for the  *)
(* least number for which it is not so.                                    *)
(***************************************************************************)
\* Function g gives the sums of the first steps.
Sums(g, k, d) ==
  /\ g \in [0 .. k -> Nat] /\ g[0] = 0
  /\ \A j \in 1 .. k : g[j] = g[j - 1] + d[j]

\* There is such a function for every sequence of numbers.
LEMMA SumsExist ==
  ASSUME NEW n \in Nat, NEW d \in [1 .. n -> Nat]
  PROVE  \E g : Sums(g, n, d)
<1> DEFINE S == {k \in 0 .. n : \E g : Sums(g, k, d)}
<1>1. 0 \in S
  <2>1. Sums([j \in 0 .. 0 |-> 0], 0, d)
    BY DEF Sums
  <2> QED BY <2>1
<1>2. ASSUME NEW k \in 1 .. n, k - 1 \in S
      PROVE  k \in S
  <2>1. PICK g : Sums(g, k - 1, d)
    BY <1>2
  <2> DEFINE h == [j \in 0 .. k |-> IF j = k THEN g[k - 1] + d[k] ELSE g[j]]
  <2>2. \A j \in 0 .. k : j # k => j \in 0 .. k - 1 /\ h[j] = g[j] /\ g[j] \in Nat
    BY <2>1 DEF Sums
  <2>3. h[k] = g[k - 1] + d[k] /\ h[k] \in Nat /\ h[k - 1] = g[k - 1]
    BY <2>1 DEF Sums
  <2>4. h \in [0 .. k -> Nat]
    BY <2>2, <2>3
  <2>5. h[0] = 0
    BY <2>1, <2>2 DEF Sums
  <2>6. ASSUME NEW j \in 1 .. k
        PROVE  h[j] = h[j - 1] + d[j]
    <3>1. CASE j = k
      BY <3>1, <2>3
    <3>2. CASE j # k
      <4>1. j \in 1 .. k - 1 /\ j - 1 \in 0 .. k /\ j - 1 # k
        BY <3>2
      <4> HIDE DEF h
      <4> QED BY <2>1, <2>2, <4>1 DEF Sums
    <3> QED BY <3>1, <3>2
  <2> HIDE DEF h
  <2>7. Sums(h, k, d)
    BY <2>4, <2>5, <2>6 DEF Sums
  <2> QED BY <2>7
<1>3. S \in SUBSET (0 .. n) /\ n \in 0 .. n
  OBVIOUS
<1> HIDE DEF S
<1>4. n \in S
  BY <1>1, <1>2, <1>3, Upward
<1> QED BY <1>4 DEF S

Counts(s) == \A j \in 1 .. Len(s) : s[j].n \in Nat

\* SumN sums.
LEMMA SumFacts ==
  ASSUME NEW s, Len(s) \in Nat, Counts(s)
  PROVE  /\ SumN(s, 0) = 0
         /\ \A j \in 1 .. Len(s) : SumN(s, j) = SumN(s, j - 1) + s[j].n
         /\ \A j \in 0 .. Len(s) : SumN(s, j) \in Nat
<1> DEFINE n == Len(s)
           d == [j \in 1 .. n |-> s[j].n]
           Rec(g) == [j \in 0 .. n |-> IF j = 0 THEN 0 ELSE g[j - 1] + s[j].n]
           sum == CHOOSE g : g = Rec(g)
<1>1. \E g : g = Rec(g)
  <2>1. d \in [1 .. n -> Nat] /\ \A j \in 1 .. n : d[j] = s[j].n
    BY DEF Counts
  <2> HIDE DEF d
  <2>2. PICK g : Sums(g, n, d)
    BY <2>1, SumsExist
  <2>3. g = Rec(g)
    BY <2>1, <2>2 DEF Sums
  <2> QED BY <2>3
<1>2. sum = Rec(sum)
  BY <1>1
<1>3. \A j \in 0 .. n : sum[j] = IF j = 0 THEN 0 ELSE sum[j - 1] + s[j].n
  <2> HIDE DEF sum
  <2> QED BY <1>2
<1>4. \A k : SumN(s, k) = sum[k]
  BY DEF SumN
<1> HIDE DEF sum, Rec, d
<1> DEFINE S == {j \in 0 .. n : sum[j] \in Nat}
<1>5. 0 .. n \subseteq S
  <2>1. 0 \in S
    BY <1>3
  <2>2. ASSUME NEW k \in 1 .. n, k - 1 \in S
        PROVE  k \in S
    BY <1>3, <2>2 DEF Counts
  <2>3. S \in SUBSET (0 .. n)
    OBVIOUS
  <2> HIDE DEF S
  <2> QED BY <2>1, <2>2, <2>3, Upward
<1>6. \A j \in 0 .. n : sum[j] \in Nat
  BY <1>5
<1> HIDE DEF S
<1>7. 0 \in 0 .. n /\ \A j \in 1 .. n : j \in 0 .. n /\ j # 0
  OBVIOUS
<1> QED BY <1>3, <1>4, <1>6, <1>7

\* Sums only grow.
LEMMA SumsGrow ==
  ASSUME NEW s, Len(s) \in Nat, Counts(s)
  PROVE  \A i, j \in 0 .. Len(s) : i <= j => SumN(s, i) <= SumN(s, j)
<1>1. SUFFICES ASSUME NEW i \in 0 .. Len(s), NEW j \in 0 .. Len(s), i <= j
      PROVE  SumN(s, i) <= SumN(s, j)
  OBVIOUS
<1> DEFINE S == {k \in 0 .. j - i : SumN(s, i) <= SumN(s, i + k)}
<1>2. 0 \in S
  BY <1>1, SumFacts
<1>3. ASSUME NEW k \in 1 .. j - i, k - 1 \in S
      PROVE  k \in S
  <2>1. i + k \in 1 .. Len(s) /\ i + k - 1 \in 0 .. Len(s) /\ (i + k) - 1 = i + (k - 1)
    OBVIOUS
  <2>2. SumN(s, i + k) = SumN(s, i + (k - 1)) + s[i + k].n /\ s[i + k].n \in Nat
    BY <2>1, SumFacts DEF Counts
  <2>3. SumN(s, i) <= SumN(s, i + (k - 1))
    BY <1>3
  <2>4. SumN(s, i) \in Nat /\ SumN(s, i + (k - 1)) \in Nat
    BY <2>1, SumFacts
  <2>5. SumN(s, i) <= SumN(s, i + k)
    BY <2>2, <2>3, <2>4
  <2> QED BY <2>5
<1>4. S \in SUBSET (0 .. j - i) /\ j - i \in Nat /\ j - i \in 0 .. j - i
  BY <1>1
<1> HIDE DEF S
<1>5. j - i \in S
  BY <1>2, <1>3, <1>4, Upward
<1> QED BY <1>5 DEF S

\* Each instruction is counted by one note.
LEMMA OneCovers ==
  ASSUME NEW s, Len(s) \in Nat, Counts(s), NEW i \in 1 .. SumN(s, Len(s))
  PROVE  \E j \in 1 .. Len(s) : /\ Covers(s, j, i)
                                /\ \A k \in 1 .. Len(s) : Covers(s, k, i) => k = j
<1> DEFINE S == {k \in 0 .. Len(s) : i <= SumN(s, k)}
<1>1. \A k \in 0 .. Len(s) : SumN(s, k) \in Nat
  BY SumFacts
<1>2. Len(s) \in S /\ S \in SUBSET Nat /\ 0 \notin S
  BY <1>1, SumFacts
<1>3. PICK j \in S : \A k \in S : j <= k
  <2> HIDE DEF S
  <2> QED BY <1>2, LeastNumber
<1>4. j \in 1 .. Len(s) /\ j - 1 \in 0 .. Len(s) /\ j - 1 \notin S
  BY <1>2, <1>3
<1>5. Covers(s, j, i)
  BY <1>1, <1>3, <1>4 DEF Covers
<1>6. ASSUME NEW k \in 1 .. Len(s), Covers(s, k, i)
      PROVE  k = j
  <2>1. k \in S /\ k - 1 \in 0 .. Len(s) /\ SumN(s, k - 1) < i
    BY <1>6 DEF Covers
  <2>2. ~(j <= k - 1)
    <3>1. SUFFICES ASSUME j <= k - 1 PROVE FALSE
      OBVIOUS
    <3>2. SumN(s, j) <= SumN(s, k - 1)
      BY <1>4, <2>1, <3>1, SumsGrow
    <3>3. i <= SumN(s, j) /\ j \in 0 .. Len(s)
      BY <1>3
    <3> QED BY <1>1, <2>1, <3>2, <3>3
  <2> QED BY <1>3, <1>4, <2>1, <2>2
<1> QED BY <1>4, <1>5, <1>6

-----------------------------------------------------------------------------
(***************************************************************************)
(* A block with one insertion point. The source counts what came before a  *)
(* place in one loop over the code; there is one insertion point at most.  *)
(***************************************************************************)
Instruction == [id : Nat, op : Operations, arg : Int]

\* The code has one insertion point, p, of n instructions, and it is in block b.
OnlyPoint(b, p, n) ==
  /\ code \in Seq(Instruction)
  /\ b.start \in Nat \ {0} /\ b.end \in Nat /\ b.end <= Len(code)
  /\ p \in Extent(b) /\ n \in Nat \ {0}
  /\ IsInsertion(code[p]) /\ code[p].arg = n
  /\ \A i \in DOMAIN code : IsInsertion(code[i]) => i = p

\* Where place i goes.
Moved(p, n, i) == IF i <= p THEN i ELSE i + n - 1

\* Only what comes after the insertion point moves, by what it takes up beyond its own place.
LEMMA GrownFacts ==
  ASSUME NEW b, NEW p, NEW n, OnlyPoint(b, p, n)
  PROVE  \A i \in 1 .. Len(code) + 1 : Grown(b, i) = IF i <= p THEN 0 ELSE n - 1
<1> DEFINE N == Len(code)
           closed(i) == IF i <= p THEN 0 ELSE n - 1
           More(j) == IF j - 1 <= b.end /\ IsInsertion(code[j - 1]) THEN code[j - 1].arg - 1 ELSE 0
           Rec(g) == [j \in 1 .. N + 1 |-> IF j <= b.start THEN 0 ELSE g[j - 1] + More(j)]
           grown == CHOOSE g : g = Rec(g)
<1>1. /\ N \in Nat /\ DOMAIN code = 1 .. N /\ p \in 1 .. N /\ p \in Nat /\ n \in Nat \ {0}
      /\ b.start \in Nat \ {0} /\ b.start <= p /\ p <= b.end
      /\ b.end \in Nat
  BY DEF OnlyPoint, Extent
<1>2. ASSUME NEW j \in 1 .. N + 1, ~(j <= b.start)
      PROVE  closed(j) = closed(j - 1) + More(j)
  <2>1. j - 1 \in DOMAIN code
    BY <1>1, <1>2
  <2>2. IF j - 1 = p THEN More(j) = n - 1 ELSE More(j) = 0
    BY <1>1, <2>1 DEF OnlyPoint
  <2> HIDE DEF More
  <2> QED BY <1>1, <2>2
<1>3. \E g : g = Rec(g)
  <2> DEFINE g == [j \in 1 .. N + 1 |-> closed(j)]
  <2>1. ASSUME NEW j \in 1 .. N + 1
        PROVE  g[j] = IF j <= b.start THEN 0 ELSE g[j - 1] + More(j)
    <3>1. CASE j <= b.start
      BY <1>1, <3>1
    <3>2. CASE ~(j <= b.start)
      <4>1. j - 1 \in 1 .. N + 1
        BY <1>1, <3>2
      <4>2. g[j] = closed(j) /\ g[j - 1] = closed(j - 1)
        BY <4>1
      <4> HIDE DEF g, closed, More
      <4> QED BY <1>2, <3>2, <4>2
    <3> QED BY <3>1, <3>2
  <2>2. g = Rec(g)
    <3> HIDE DEF closed, More
    <3> QED BY <2>1
  <2> QED BY <2>2
<1>4. grown = Rec(grown)
  BY <1>3
<1>5. \A j \in 1 .. N + 1 : grown[j] = IF j <= b.start THEN 0 ELSE grown[j - 1] + More(j)
  <2> HIDE DEF grown, More
  <2> QED BY <1>4
<1>6. \A i : Grown(b, i) = grown[i]
  BY DEF Grown
<1> HIDE DEF grown, Rec, More
<1> DEFINE S == {k \in 0 .. N : grown[k + 1] = closed(k + 1)}
<1>7. 0 \in S
  BY <1>1, <1>5
<1>8. ASSUME NEW k \in 1 .. N, k - 1 \in S
      PROVE  k \in S
  <2>1. k + 1 \in 1 .. N + 1 /\ (k + 1) - 1 = k /\ (k - 1) + 1 = k
    BY <1>1
  <2>2. grown[k] = closed(k)
    BY <1>8, <2>1
  <2>3. grown[k + 1] = closed(k + 1)
    <3>1. CASE k + 1 <= b.start
      BY <1>1, <1>5, <2>1, <3>1
    <3>2. CASE ~(k + 1 <= b.start)
      <4> HIDE DEF closed
      <4> QED BY <1>2, <1>5, <2>1, <2>2, <3>2
    <3> QED BY <3>1, <3>2
  <2> QED BY <2>3
<1>9. S \in SUBSET (0 .. N)
  OBVIOUS
<1> HIDE DEF S
<1>10. 0 .. N \subseteq S
  BY <1>1, <1>7, <1>8, <1>9, Upward
<1>11. ASSUME NEW i \in 1 .. N + 1
       PROVE  grown[i] = closed(i)
  <2>1. i - 1 \in 0 .. N /\ (i - 1) + 1 = i
    BY <1>1
  <2> QED BY <1>10, <2>1 DEF S
<1> QED BY <1>6, <1>11

\* The code e up to place k, with u in place of what is at p.
Spliced(e, u, p, k) ==
  [m \in 1 .. (IF k < p THEN k ELSE k + Len(u) - 1) |->
     IF m < p THEN e[m] ELSE IF m < p + Len(u) THEN u[m - p + 1] ELSE e[m - Len(u) + 1]]

Splices(V, N, e, u, p) ==
  N \in Nat /\ e \in [1 .. N -> V] /\ u \in Seq(V) /\ Len(u) # 0 /\ p \in 1 .. N

\* What splicing one more place gives.
SplicedOn(V, e, u, p, k) ==
  /\ Spliced(e, u, p, 0) = <<>>
  /\ Spliced(e, u, p, k) = Spliced(e, u, p, k - 1) \o (IF k = p THEN u ELSE <<e[k]>>)
  /\ Spliced(e, u, p, k) \in Seq(V)
  /\ Len(Spliced(e, u, p, k)) = IF k < p THEN k ELSE k + Len(u) - 1

\* Splicing up to a place adds that place, or what is put there.
LEMMA SplicedStep ==
  ASSUME NEW V, NEW N, NEW e, NEW u, NEW p, Splices(V, N, e, u, p), NEW k, k \in 1 .. N
  PROVE  SplicedOn(V, e, u, p, k)
<1> DEFINE Size(i) == IF i < p THEN i ELSE i + Len(u) - 1
           At(m) == IF m < p THEN e[m] ELSE IF m < p + Len(u) THEN u[m - p + 1] ELSE e[m - Len(u) + 1]
           next == IF k = p THEN u ELSE <<e[k]>>
           old == Spliced(e, u, p, k - 1)
           new == Spliced(e, u, p, k)
<1> USE DEF Splices
<1>1. Len(u) \in Nat \ {0} /\ \A m \in 1 .. Len(u) : u[m] \in V
  OBVIOUS
<1>2. Size(k) \in Nat /\ Size(k - 1) \in Nat
  BY <1>1
<1>3. ASSUME NEW m \in 1 .. Size(k)
      PROVE  At(m) \in V
  <2>1. CASE m < p
    BY <2>1
  <2>2. CASE ~(m < p) /\ m < p + Len(u)
    <3>1. m - p + 1 \in 1 .. Len(u)
      BY <2>2, <1>1
    <3> QED BY <1>1, <2>2, <3>1
  <2>3. CASE ~(m < p) /\ ~(m < p + Len(u))
    <3>1. m - Len(u) + 1 \in 1 .. N
      BY <2>3, <1>1
    <3> QED BY <2>3, <3>1
  <2> QED BY <2>1, <2>2, <2>3
<1>4. Size(k - 1) <= Size(k)
  BY <1>1
<1>5. /\ new = [m \in 1 .. Size(k) |-> At(m)]
      /\ old = [m \in 1 .. Size(k - 1) |-> At(m)]
  BY DEF Spliced
<1>6. Spliced(e, u, p, 0) = <<>>
  BY DEF Spliced
<1>7. /\ next \in Seq(V) /\ Len(next) = Size(k) - Size(k - 1)
      /\ \A m \in 1 .. Len(next) : next[m] = At(Size(k - 1) + m)
  <2>1. CASE k = p
    BY <2>1, <1>1
  <2>2. CASE k # p
    <3>1. next = <<e[k]>> /\ e[k] \in V /\ Size(k) = Size(k - 1) + 1 /\ At(Size(k - 1) + 1) = e[k]
      BY <2>2, <1>1
    <3> HIDE DEF next, Size, At
    <3> QED BY <1>2, <3>1
  <2> QED BY <2>1, <2>2
<1> HIDE DEF Size, At, next, old, new
<1>8. /\ new \in Seq(V) /\ Len(new) = Size(k) /\ \A m \in 1 .. Size(k) : new[m] = At(m)
      /\ old \in Seq(V) /\ Len(old) = Size(k - 1) /\ \A m \in 1 .. Size(k - 1) : old[m] = At(m)
  <2>1. new \in [1 .. Size(k) -> V] /\ old \in [1 .. Size(k - 1) -> V]
    BY <1>2, <1>3, <1>4, <1>5
  <2>2. \A n \in Nat : \A f \in [1 .. n -> V] : f \in Seq(V) /\ Len(f) = n
    OBVIOUS
  <2>3. /\ \A m \in 1 .. Size(k) : new[m] = At(m)
        /\ \A m \in 1 .. Size(k - 1) : old[m] = At(m)
    BY <1>5
  <2> QED BY <1>2, <2>1, <2>2, <2>3
<1>9. /\ old \o next \in Seq(V) /\ Len(old \o next) = Size(k)
      /\ \A m \in 1 .. Size(k) : (old \o next)[m] = IF m <= Len(old) THEN old[m] ELSE next[m - Len(old)]
  <2>1. Len(old) + Len(next) = Size(k)
    BY <1>2, <1>7, <1>8
  <2> QED BY <1>7, <1>8, <2>1, ConcatProperties
<1>10. ASSUME NEW m \in 1 .. Size(k)
       PROVE  (old \o next)[m] = new[m]
  <2>1. CASE m <= Size(k - 1)
    BY <1>2, <1>8, <1>9, <2>1
  <2>2. CASE ~(m <= Size(k - 1))
    <3>1. m - Len(old) \in 1 .. Len(next) /\ Size(k - 1) + (m - Len(old)) = m
      BY <1>2, <1>7, <1>8, <2>2
    <3> QED BY <1>7, <1>8, <1>9, <2>2, <3>1
  <2> QED BY <2>1, <2>2
<1>11. new = old \o next
  BY <1>8, <1>9, <1>10, SeqEqual
<1> QED BY <1>6, <1>8, <1>11 DEF next, new, old, Size, SplicedOn

\* Rebuilding puts what is inserted in place of the insertion point.
LEMMA RebuiltFacts ==
  ASSUME NEW b, NEW p, NEW n, OnlyPoint(b, p, n),
         buffer \in Seq(Instruction), Len(buffer) = n,
         \A i \in DOMAIN code : Retarget(b, i) \in Instruction
  PROVE  Rebuilt(b) = Spliced([i \in 1 .. Len(code) |-> Retarget(b, i)], buffer, p, Len(code))
<1> DEFINE N == Len(code)
           e == [i \in 1 .. N |-> Retarget(b, i)]
           next(i) == IF i \in Extent(b) /\ IsInsertion(code[i]) THEN buffer ELSE <<Retarget(b, i)>>
           Rec(g) == [i \in 0 .. N |-> IF i = 0 THEN <<>> ELSE g[i - 1] \o next(i)]
           built == CHOOSE g : g = Rec(g)
           closed(i) == Spliced(e, buffer, p, i)
<1>1. /\ N \in Nat /\ DOMAIN code = 1 .. N /\ p \in 1 .. N /\ p \in Extent(b) /\ n \in Nat \ {0}
      /\ \A i \in 1 .. N : IsInsertion(code[i]) <=> i = p
  BY DEF OnlyPoint, Extent
<1>2. e \in [1 .. N -> Instruction]
  BY <1>1
<1>3. ASSUME NEW i \in 1 .. N
      PROVE  next(i) = IF i = p THEN buffer ELSE <<e[i]>>
  BY <1>1
<1> HIDE DEF e, next
<1>4. ASSUME NEW i \in 1 .. N
      PROVE  closed(i) = closed(i - 1) \o next(i) /\ closed(0) = <<>>
  <2>1. Splices(Instruction, N, e, buffer, p)
    BY <1>1, <1>2 DEF Splices
  <2> HIDE DEF N
  <2>2. SplicedOn(Instruction, e, buffer, p, i)
    BY <2>1, SplicedStep
  <2> QED BY <1>3, <2>2 DEF SplicedOn
<1>5. closed(0) = <<>>
  BY <1>1, <1>4
<1> HIDE DEF closed
<1>6. \E g : g = Rec(g)
  <2> DEFINE g == [i \in 0 .. N |-> closed(i)]
  <2>1. ASSUME NEW i \in 0 .. N
        PROVE  g[i] = IF i = 0 THEN <<>> ELSE g[i - 1] \o next(i)
    BY <1>1, <1>4, <1>5
  <2>2. g = Rec(g)
    BY <2>1
  <2> QED BY <2>2
<1>7. built = Rec(built)
  BY <1>6
<1>8. \A i \in 0 .. N : built[i] = IF i = 0 THEN <<>> ELSE built[i - 1] \o next(i)
  <2> HIDE DEF built
  <2> QED BY <1>7
<1>9. Rebuilt(b) = built[N]
  BY DEF Rebuilt, next
<1> HIDE DEF built, Rec
<1> DEFINE S == {i \in 0 .. N : built[i] = closed(i)}
<1>10. 0 \in S
  BY <1>1, <1>5, <1>8
<1>11. ASSUME NEW i \in 1 .. N, i - 1 \in S
       PROVE  i \in S
  <2>1. built[i - 1] = closed(i - 1) /\ i \in 0 .. N /\ i # 0
    BY <1>1, <1>11
  <2>2. built[i] = built[i - 1] \o next(i)
    BY <1>8, <2>1
  <2> QED BY <1>4, <2>1, <2>2
<1>12. S \in SUBSET (0 .. N) /\ N \in 0 .. N
  BY <1>1
<1> HIDE DEF S
<1>13. N \in S
  BY <1>1, <1>10, <1>11, <1>12, Upward
<1> QED BY <1>9, <1>13 DEF S, closed, e

-----------------------------------------------------------------------------
(***************************************************************************)
(* The invariant.                                                          *)
(***************************************************************************)
Now == [code |-> code, blk |-> blk, entry |-> entry, notes |-> notes]

\* No two instructions have one name, and names given later are greater.
Named ==
  /\ named \in Nat /\ \A i \in DOMAIN code : code[i].id \in 1 .. named
  /\ \A i, j \in DOMAIN code : code[i].id = code[j].id => i = j

\* New instructions, in the buffer, are not of a kind that has a target.
Waiting(p) ==
  /\ OnlyPoint(blk[cur], p, Len(buffer)) /\ buffer \in Seq(Instruction)
  /\ \A k \in DOMAIN buffer :
       buffer[k].id = named + k /\ buffer[k].op \notin {"b", "try", "insert", "insert_restart"}

\* There is no insertion point, or one, in the block that is optimized.
OnePoint ==
  \/ \A i \in DOMAIN code : ~IsInsertion(code[i])
  \/ status = "working" /\ \E p \in DOMAIN code : Waiting(p)

Turn ==
  /\ live \subseteq DOMAIN blk /\ cur \in DOMAIN blk \cup {0} /\ joined \subseteq DOMAIN blk
  /\ status = "working" => cur \in DOMAIN blk /\ restarts <= RestartLimit
  /\ restarts \in 0 .. RestartLimit + 1

JInv == WellFormed(Now) /\ Named /\ OnePoint /\ Turn

\* What is well formed, of the program as it is now.
LEMMA NowFacts ==
  ASSUME WellFormed(Now)
  PROVE  /\ code \in Seq(Instruction) /\ Len(code) \in Nat /\ DOMAIN code = 1 .. Len(code)
         /\ \A k \in DOMAIN blk :
              /\ blk[k].start \in Nat \ {0} /\ blk[k].end \in Nat
              /\ blk[k].start <= blk[k].end /\ blk[k].end <= Len(code)
         /\ \A k, l \in DOMAIN blk : k # l => blk[k].end < blk[l].start \/ blk[l].end < blk[k].start
         /\ \A i \in DOMAIN code : code[i].op = "b" => i + 1 + code[i].arg \in DOMAIN code
         /\ \A i \in DOMAIN code : code[i].op = "try" => \E k \in DOMAIN blk : blk[k].ostart = code[i].arg
         /\ \A f \in DOMAIN entry :
              /\ entry[f] \in DOMAIN code
              /\ \A k \in DOMAIN blk : entry[f] \in Extent(blk[k]) => entry[f] = blk[k].start
         /\ Len(notes) \in Nat /\ DOMAIN notes = 1 .. Len(notes) /\ Counts(notes)
         /\ SumN(notes, Len(notes)) = Len(code)
         /\ DOMAIN blk = 1 .. Len(blk) /\ Len(blk) \in Nat
         /\ \A k, l \in DOMAIN blk : k < l => blk[k].end < blk[l].start
         /\ \A j \in DOMAIN notes : notes[j].type = "scope" => notes[j].n = 0
<1>1. /\ code \in Seq(Instruction)
      /\ blk \in Seq([start : Nat \ {0}, end : Nat, ostart : Nat, func : DOMAIN entry])
      /\ notes \in Seq([type : {"element", "scope"}, what : {notes[j].what : j \in DOMAIN notes}, n : Nat])
  BY DEF WellFormed, Now, Instruction
<1>2. /\ Len(code) \in Nat /\ DOMAIN code = 1 .. Len(code)
      /\ Len(notes) \in Nat /\ DOMAIN notes = 1 .. Len(notes)
  BY <1>1
<1>7. DOMAIN blk = 1 .. Len(blk) /\ Len(blk) \in Nat
  <2> DEFINE Blocks == [start : Nat \ {0}, end : Nat, ostart : Nat, func : DOMAIN entry]
  <2>1. blk \in Seq(Blocks)
    BY <1>1
  <2> HIDE DEF Blocks
  <2> QED BY <2>1, LenProperties
<1>8. /\ \A k, l \in DOMAIN blk : k < l => blk[k].end < blk[l].start
      /\ \A j \in DOMAIN notes : notes[j].type = "scope" => notes[j].n = 0
  BY DEF WellFormed, Now
<1>3. Counts(notes)
  <2> DEFINE W == {notes[j].what : j \in DOMAIN notes}
             Notes == [type : {"element", "scope"}, what : W, n : Nat]
  <2>1. \A x \in Notes : x.n \in Nat
    <3> HIDE DEF W
    <3> QED OBVIOUS
  <2>2. notes \in Seq(Notes)
    BY <1>1
  <2> HIDE DEF Notes
  <2>3. \A j \in 1 .. Len(notes) : notes[j] \in Notes
    BY <1>2, <2>2, ElementOfSeq
  <2> QED BY <2>1, <2>3 DEF Counts
<1>4. \A k \in DOMAIN blk :
        /\ blk[k].start \in Nat \ {0} /\ blk[k].end \in Nat
        /\ blk[k].start <= blk[k].end /\ blk[k].end <= Len(code)
  <2> DEFINE Blocks == [start : Nat \ {0}, end : Nat, ostart : Nat, func : DOMAIN entry]
  <2>1. \A x \in Blocks : x.start \in Nat \ {0} /\ x.end \in Nat
    OBVIOUS
  <2>2. \A k \in DOMAIN blk : blk[k].start \in Nat \ {0} /\ blk[k].end \in Nat
    <3>1. blk \in Seq(Blocks)
      BY <1>1
    <3> HIDE DEF Blocks
    <3> QED BY <2>1, <3>1
  <2>3. \A k \in DOMAIN blk : blk[k].start <= blk[k].end /\ blk[k].end <= Len(code)
    BY DEF WellFormed, Now
  <2> QED BY <2>2, <2>3
<1>5. ASSUME NEW k \in DOMAIN blk, NEW l \in DOMAIN blk, k # l
      PROVE  blk[k].end < blk[l].start \/ blk[l].end < blk[k].start
  <2>1. k < l \/ l < k
    BY <1>5, <1>7
  <2> QED BY <1>8, <2>1
<1>6. /\ \A i \in DOMAIN code : code[i].op = "b" => i + 1 + code[i].arg \in DOMAIN code
      /\ \A i \in DOMAIN code : code[i].op = "try" => \E k \in DOMAIN blk : blk[k].ostart = code[i].arg
      /\ \A f \in DOMAIN entry :
           /\ entry[f] \in DOMAIN code
           /\ \A k \in DOMAIN blk : entry[f] \in Extent(blk[k]) => entry[f] = blk[k].start
      /\ SumN(notes, Len(notes)) = Len(code)
  BY DEF WellFormed, Now
<1> QED BY <1>1, <1>2, <1>3, <1>4, <1>5, <1>6, <1>7, <1>8

\* Where there are insertion points there is one, in the block being optimized.
LEMMA ThePoint ==
  ASSUME WellFormed(Now), OnePoint, Turn, Points # {}, status = "working"
  PROVE  \E p \in DOMAIN code : Waiting(p) /\ Points = {p}
<1>1. \A i \in Points : i \in DOMAIN code /\ IsInsertion(code[i])
  BY NowFacts DEF Turn, Points, Extent
<1>2. PICK p \in DOMAIN code : Waiting(p)
  BY <1>1 DEF OnePoint
<1>3. Points = {p}
  BY <1>1, <1>2 DEF Waiting, OnlyPoint, Points
<1> QED BY <1>2, <1>3

-----------------------------------------------------------------------------
(***************************************************************************)
(* What processing an insertion point does.                                *)
(***************************************************************************)
\* A branch goes to where the place it went to has moved.
LEMMA RetargetFacts ==
  ASSUME WellFormed(Now), NEW b, NEW p, NEW n, OnlyPoint(b, p, n), NEW i \in DOMAIN code
  PROVE  /\ Retarget(b, i) \in Instruction
         /\ Retarget(b, i).id = code[i].id /\ Retarget(b, i).op = code[i].op
         /\ Retarget(b, i).arg = IF code[i].op = "b" THEN Moved(p, n, i + 1 + code[i].arg) - (Moved(p, n, i) + 1)
                                 ELSE code[i].arg
<1>1. /\ code[i] \in Instruction /\ i \in 1 .. Len(code) /\ Len(code) \in Nat
      /\ p \in Nat /\ n \in Nat \ {0}
      /\ code[i].op = "b" => i + 1 + code[i].arg \in 1 .. Len(code)
  BY NowFacts DEF OnlyPoint, Extent
<1>2. /\ code[i] = [id |-> code[i].id, op |-> code[i].op, arg |-> code[i].arg]
      /\ code[i].id \in Nat /\ code[i].op \in Operations /\ code[i].arg \in Int
  BY <1>1 DEF Instruction
<1>3. CASE code[i].op # "b"
  BY <1>1, <1>3 DEF Retarget
<1>4. CASE code[i].op = "b"
  <2> DEFINE t == i + 1 + code[i].arg
             arg == Moved(p, n, t) - (Moved(p, n, i) + 1)
  <2>1. t \in 1 .. Len(code) /\ t \in 1 .. Len(code) + 1 /\ i \in 1 .. Len(code) + 1
    BY <1>1, <1>4
  <2>2. Remap(b, t) = Moved(p, n, t) /\ Remap(b, i) = Moved(p, n, i)
    <3> HIDE DEF t
    <3>1. Grown(b, t) = (IF t <= p THEN 0 ELSE n - 1) /\ Grown(b, i) = (IF i <= p THEN 0 ELSE n - 1)
      BY <2>1, GrownFacts
    <3> QED BY <1>1, <2>1, <3>1 DEF Remap, Moved
  <2>3. arg \in Int
    <3> HIDE DEF t
    <3> QED BY <1>1, <2>1 DEF Moved
  <2>4. Retarget(b, i) = [id |-> code[i].id, op |-> code[i].op, arg |-> arg]
    <3>1. Retarget(b, i) = [code[i] EXCEPT !.arg = Remap(b, t) - (Remap(b, i) + 1)]
      BY <1>4 DEF Retarget
    <3> HIDE DEF t
    <3>2. Retarget(b, i) = [code[i] EXCEPT !.arg = arg]
      BY <2>2, <3>1
    <3> HIDE DEF arg
    <3> QED BY <1>2, <3>2
  <2> HIDE DEF arg
  <2>5. Retarget(b, i) \in Instruction /\ Retarget(b, i).id = code[i].id /\ Retarget(b, i).op = code[i].op
        /\ Retarget(b, i).arg = arg
    BY <1>2, <2>3, <2>4 DEF Instruction
  <2> QED BY <1>4, <2>5 DEF arg
<1> QED BY <1>3, <1>4

\* Notes new count n instructions where notes old count the one at p.
NotesMoved(new, old, p, n) ==
  /\ Len(new) = Len(old) /\ DOMAIN new = DOMAIN old /\ Counts(new)
  /\ new \in Seq([type : {"element", "scope"}, what : {new[j].what : j \in DOMAIN new}, n : Nat])
  /\ \A j \in DOMAIN old : new[j].type = old[j].type /\ new[j].what = old[j].what
  /\ \A j \in 0 .. Len(old) :
       SumN(new, j) = IF SumN(old, j) < p THEN SumN(old, j) ELSE SumN(old, j) + n - 1

\* The count a note gains is what was inserted at its places.
LEMMA NotesMove ==
  ASSUME WellFormed(Now), NEW b, NEW p, NEW n, OnlyPoint(b, p, n)
  PROVE  NotesMoved(FixAnnotation(b), notes, p, n)
<1> DEFINE new == FixAnnotation(b)
           S(j) == SumN(notes, j)
           More(j) == IF S(j) < p THEN 0 ELSE n - 1
<1>1. /\ Len(notes) \in Nat /\ DOMAIN notes = 1 .. Len(notes) /\ Counts(notes) /\ Len(code) \in Nat
      /\ S(Len(notes)) = Len(code) /\ p \in Nat \ {0} /\ p <= Len(code) /\ n \in Nat \ {0}
  BY NowFacts DEF OnlyPoint, Extent
<1>2. /\ S(0) = 0 /\ \A j \in 1 .. Len(notes) : S(j) = S(j - 1) + notes[j].n
      /\ \A j \in 0 .. Len(notes) : S(j) \in Nat
  BY <1>1, SumFacts
<1>3. \A j \in 0 .. Len(notes) : S(j) <= Len(code)
  BY <1>1, SumsGrow
<1>4. ASSUME NEW j \in 0 .. Len(notes)
      PROVE  Grown(b, S(j) + 1) = More(j)
  <2>1. S(j) + 1 \in 1 .. Len(code) + 1 /\ (S(j) + 1 <= p <=> S(j) < p)
    BY <1>1, <1>2, <1>3
  <2> QED BY <2>1, GrownFacts
<1> HIDE DEF S
<1>5. \A j \in 1 .. Len(notes) : j \in 0 .. Len(notes) /\ j - 1 \in 0 .. Len(notes)
  BY <1>1
<1>6. new = [j \in DOMAIN notes |-> [notes[j] EXCEPT !.n = @ + More(j) - More(j - 1)]]
  <2>1. new = [j \in DOMAIN notes |-> [notes[j] EXCEPT !.n = @ + Grown(b, S(j) + 1) - Grown(b, S(j - 1) + 1)]]
    BY DEF FixAnnotation, S
  <2>2. \A j \in DOMAIN notes : Grown(b, S(j) + 1) = More(j) /\ Grown(b, S(j - 1) + 1) = More(j - 1)
    BY <1>1, <1>4, <1>5
  <2> HIDE DEF More, new
  <2> QED BY <2>1, <2>2
<1>7. DOMAIN new = 1 .. Len(notes) /\ Len(new) = Len(notes)
  <2>1. new = [j \in 1 .. Len(notes) |-> [notes[j] EXCEPT !.n = @ + More(j) - More(j - 1)]]
    BY <1>1, <1>6
  <2> HIDE DEF new
  <2> QED BY <1>1, <2>1
<1>8. ASSUME NEW j \in 1 .. Len(notes)
      PROVE  /\ new[j].type = notes[j].type /\ new[j].what = notes[j].what
             /\ new[j].n = notes[j].n + More(j) - More(j - 1)
             /\ new[j].n \in Nat /\ new[j].type \in {"element", "scope"}
             /\ new[j] = [type |-> new[j].type, what |-> new[j].what, n |-> new[j].n]
  <2> DEFINE W == {notes[k].what : k \in DOMAIN notes}
             Notes == [type : {"element", "scope"}, what : W, n : Nat]
  <2>1. notes[j] \in Notes
    <3>1. notes \in Seq(Notes)
      BY DEF WellFormed, Now
    <3> HIDE DEF Notes
    <3> QED BY <1>1, <3>1, ElementOfSeq
  <2>2. /\ notes[j] = [type |-> notes[j].type, what |-> notes[j].what, n |-> notes[j].n]
        /\ notes[j].n \in Nat /\ notes[j].type \in {"element", "scope"}
    <3> HIDE DEF W
    <3> QED BY <2>1
  <2>3. new[j] = [notes[j] EXCEPT !.n = notes[j].n + More(j) - More(j - 1)]
    <3> HIDE DEF new, More
    <3> QED BY <1>1, <1>6
  <2>4. notes[j].n + More(j) - More(j - 1) \in Nat
    <3>1. S(j) \in Nat /\ S(j - 1) \in Nat /\ S(j) = S(j - 1) + notes[j].n
      BY <1>2, <1>5
    <3>2. n \in Nat \ {0} /\ p \in Nat
      BY <1>1
    <3>3. More(j) = (IF S(j) < p THEN 0 ELSE n - 1) /\ More(j - 1) = (IF S(j - 1) < p THEN 0 ELSE n - 1)
      OBVIOUS
    <3> HIDE DEF More
    <3> QED BY ONLY <2>2, <3>1, <3>2, <3>3
  <2> HIDE DEF new, More, Notes, W
  <2> QED BY <2>2, <2>3, <2>4
<1>9. Counts(new)
  <2> HIDE DEF new, More
  <2> QED BY <1>7, <1>8 DEF Counts
<1>16. new \in Seq([type : {"element", "scope"}, what : {new[j].what : j \in DOMAIN new}, n : Nat])
  <2> DEFINE W == {new[j].what : j \in DOMAIN new}
             Notes == [type : {"element", "scope"}, what : W, n : Nat]
  <2>1. \A j \in 1 .. Len(notes) : new[j] \in Notes
    <3>1. \A j \in 1 .. Len(notes) : new[j].what \in W
      BY <1>7
    <3>2. \A t \in {"element", "scope"}, w \in W, m \in Nat : [type |-> t, what |-> w, n |-> m] \in Notes
      <4> HIDE DEF W
      <4> QED OBVIOUS
    <3> HIDE DEF W, new, More, Notes
    <3> QED BY <1>8, <3>1, <3>2
  <2>2. new \in [1 .. Len(notes) -> Notes]
    <3>1. new = [j \in DOMAIN notes |-> new[j]]
      <4> HIDE DEF new, More
      <4> QED BY <1>6
    <3> HIDE DEF Notes, new, More
    <3> QED BY <1>1, <2>1, <3>1
  <2>3. \A f : \A m \in Nat : f \in [1 .. m -> Notes] => f \in Seq(Notes)
    <3> HIDE DEF Notes
    <3> QED OBVIOUS
  <2>4. new \in Seq(Notes)
    <3> HIDE DEF Notes, new
    <3> QED BY <1>1, <2>2, <2>3
  <2> QED BY <2>4
<1> HIDE DEF new
<1>10. /\ SumN(new, 0) = 0 /\ \A j \in 1 .. Len(notes) : SumN(new, j) = SumN(new, j - 1) + new[j].n
       /\ \A j \in 0 .. Len(notes) : SumN(new, j) \in Nat
  BY <1>1, <1>7, <1>9, SumFacts
<1> DEFINE Right == {j \in 0 .. Len(notes) : SumN(new, j) = S(j) + More(j)}
<1>11. 0 \in Right
  BY <1>1, <1>2, <1>10
<1>12. ASSUME NEW j \in 1 .. Len(notes), j - 1 \in Right
       PROVE  j \in Right
  <2>3. More(j) \in Int /\ More(j - 1) \in Int /\ notes[j].n \in Nat
    BY <1>1 DEF Counts
  <2>4. S(j) = S(j - 1) + notes[j].n /\ S(j) \in Nat /\ S(j - 1) \in Nat
    BY <1>2, <1>5
  <2>5. SumN(new, j - 1) = S(j - 1) + More(j - 1)
    <3> HIDE DEF More
    <3> QED BY <1>12
  <2>6. SumN(new, j) = SumN(new, j - 1) + new[j].n /\ new[j].n = notes[j].n + More(j) - More(j - 1)
    <3> HIDE DEF More
    <3> QED BY <1>8, <1>10
  <2>1. /\ SumN(new, j - 1) = S(j - 1) + More(j - 1) /\ S(j) = S(j - 1) + notes[j].n
        /\ SumN(new, j) = SumN(new, j - 1) + (notes[j].n + More(j) - More(j - 1))
        /\ S(j) \in Nat /\ S(j - 1) \in Nat /\ notes[j].n \in Nat /\ More(j) \in Int /\ More(j - 1) \in Int
    <3> HIDE DEF More
    <3> QED BY <2>3, <2>4, <2>5, <2>6
  <2>2. SumN(new, j) = S(j) + More(j)
    <3> HIDE DEF More
    <3> QED BY <2>1
  <2> QED BY <1>5, <2>2
<1>13. Right \in SUBSET (0 .. Len(notes))
  OBVIOUS
<1> HIDE DEF Right
<1>14. 0 .. Len(notes) \subseteq Right
  BY <1>1, <1>11, <1>12, <1>13, Upward
<1>15. \A j \in 0 .. Len(notes) : SumN(new, j) = IF S(j) < p THEN S(j) ELSE S(j) + n - 1
  <2> SUFFICES ASSUME NEW j \in 0 .. Len(notes)
               PROVE  SumN(new, j) = IF S(j) < p THEN S(j) ELSE S(j) + n - 1
    OBVIOUS
  <2>1. SumN(new, j) = S(j) + More(j)
    BY ONLY <1>14 DEF Right
  <2>2. S(j) \in Nat
    BY <1>2
  <2>3. n \in Nat \ {0}
    BY <1>1
  <2>4. More(j) = IF S(j) < p THEN 0 ELSE n - 1
    OBVIOUS
  <2> HIDE DEF More
  <2> QED BY ONLY <2>1, <2>2, <2>3, <2>4
<1> QED BY <1>1, <1>7, <1>8, <1>9, <1>15, <1>16 DEF new, S, NotesMoved

\* The places in the code after n instructions have taken the place of the one at p.
MovedCode(p, n) ==
  /\ p \in 1 .. Len(code) /\ n \in Nat \ {0}
  /\ code' \in Seq(Instruction) /\ Len(code') = Len(code) + n - 1
  /\ \A i \in 1 .. Len(code) : i # p =>
       /\ code'[Moved(p, n, i)].id = code[i].id /\ code'[Moved(p, n, i)].op = code[i].op
       /\ code'[Moved(p, n, i)].arg =
            IF code[i].op = "b" THEN Moved(p, n, i + 1 + code[i].arg) - (Moved(p, n, i) + 1) ELSE code[i].arg
  /\ \A k \in 1 .. n : code'[p + k - 1] = buffer[k]

MovedBlocks(p, n) ==
  /\ blk' \in Seq([start : Nat \ {0}, end : Nat, ostart : Nat, func : DOMAIN entry])
  /\ DOMAIN blk' = DOMAIN blk
  /\ \A k \in DOMAIN blk :
       /\ blk'[k].ostart = blk[k].ostart /\ blk'[k].start = Moved(p, n, blk[k].start)
       /\ blk'[k].end = IF blk[k].end < p THEN blk[k].end ELSE blk[k].end + n - 1

MovedEntries(p, n) ==
  DOMAIN entry' = DOMAIN entry /\ \A f \in DOMAIN entry : entry'[f] = Moved(p, n, entry[f])

\* The instructions move, and branches are put right.
LEMMA CodeMoves ==
  ASSUME WellFormed(Now), NEW p \in DOMAIN code, NEW n, n = Len(buffer), Waiting(p), code' = Rebuilt(blk[cur])
  PROVE  MovedCode(p, n)
<1> DEFINE b == blk[cur]
           N == Len(code)
           e == [i \in 1 .. N |-> Retarget(b, i)]
<1>1. /\ N \in Nat /\ DOMAIN code = 1 .. N /\ p \in 1 .. N /\ p \in Nat /\ n \in Nat \ {0}
      /\ OnlyPoint(b, p, n) /\ buffer \in Seq(Instruction)
  BY NowFacts DEF Waiting, OnlyPoint
<1>2. \A i \in 1 .. N :
        /\ e[i] \in Instruction
        /\ e[i].id = code[i].id /\ e[i].op = code[i].op
        /\ e[i].arg = IF code[i].op = "b" THEN Moved(p, n, i + 1 + code[i].arg) - (Moved(p, n, i) + 1)
                      ELSE code[i].arg
  <2> HIDE DEF b
  <2>1. ASSUME NEW i \in 1 .. N
        PROVE  /\ Retarget(b, i) \in Instruction
               /\ Retarget(b, i).id = code[i].id /\ Retarget(b, i).op = code[i].op
               /\ Retarget(b, i).arg = IF code[i].op = "b" THEN Moved(p, n, i + 1 + code[i].arg) - (Moved(p, n, i) + 1)
                                       ELSE code[i].arg
    <3>1. i \in DOMAIN code
      BY <1>1
    <3> QED BY <1>1, <3>1, RetargetFacts
  <2> QED BY <2>1
<1>3. code' = Spliced(e, buffer, p, N)
  <2>1. \A i \in DOMAIN code : Retarget(b, i) \in Instruction
    BY <1>1, RetargetFacts
  <2>2. Rebuilt(b) = Spliced([i \in 1 .. Len(code) |-> Retarget(b, i)], buffer, p, Len(code))
    <3> HIDE DEF b
    <3> QED BY <1>1, <2>1, RebuiltFacts
  <2> QED BY <2>2
<1> HIDE DEF e, N
<1>4. code' \in Seq(Instruction) /\ Len(code') = N + n - 1
  <2>1. e \in [1 .. N -> Instruction]
    BY <1>2 DEF e
  <2>2. Splices(Instruction, N, e, buffer, p) /\ N \in 1 .. N
    BY <1>1, <2>1 DEF Splices
  <2>3. SplicedOn(Instruction, e, buffer, p, N)
    BY <2>2, SplicedStep
  <2>4. ~(N < p)
    BY <1>1
  <2>5. Spliced(e, buffer, p, N) \in Seq(Instruction) /\ Len(Spliced(e, buffer, p, N)) = N + n - 1
    BY <2>3, <2>4 DEF SplicedOn
  <2> QED BY <1>3, <2>5
<1>5. \A m \in 1 .. N + n - 1 :
        code'[m] = IF m < p THEN e[m] ELSE IF m < p + n THEN buffer[m - p + 1] ELSE e[m - n + 1]
  BY <1>1, <1>3 DEF Spliced
<1>6. ASSUME NEW i \in 1 .. N, i # p
      PROVE  code'[Moved(p, n, i)] = e[i]
  <2>1. CASE i < p
    <3>1. Moved(p, n, i) = i /\ i \in 1 .. N + n - 1
      BY <1>1, <2>1 DEF Moved
    <3> QED BY <1>5, <2>1, <3>1
  <2>2. CASE ~(i < p)
    <3>1. PICK m : m = i + n - 1
      OBVIOUS
    <3>2. /\ Moved(p, n, i) = m /\ m \in 1 .. N + n - 1 /\ ~(m < p) /\ ~(m < p + n) /\ m - n + 1 = i
      BY <1>1, <1>6, <2>2, <3>1 DEF Moved
    <3> QED BY <1>5, <3>2
  <2> QED BY <2>1, <2>2
<1>7. ASSUME NEW k \in 1 .. n
      PROVE  code'[p + k - 1] = buffer[k]
  <2>1. PICK m : m = p + k - 1
    OBVIOUS
  <2>2. m \in 1 .. N + n - 1 /\ ~(m < p) /\ m < p + n /\ m - p + 1 = k
    BY <1>1, <2>1
  <2> QED BY <1>5, <2>1, <2>2
<1>8. \A i \in 1 .. Len(code) : i # p =>
        /\ code'[Moved(p, n, i)].id = code[i].id /\ code'[Moved(p, n, i)].op = code[i].op
        /\ code'[Moved(p, n, i)].arg =
             IF code[i].op = "b" THEN Moved(p, n, i + 1 + code[i].arg) - (Moved(p, n, i) + 1) ELSE code[i].arg
  BY ONLY <1>2, <1>6 DEF N
<1>9. /\ p \in 1 .. Len(code) /\ n \in Nat \ {0}
      /\ code' \in Seq(Instruction) /\ Len(code') = Len(code) + n - 1
  BY ONLY <1>1, <1>4 DEF N
<1> QED BY ONLY <1>7, <1>8, <1>9 DEF MovedCode

\* Blocks grow where code is inserted, and move after it.
LEMMA BlocksMove ==
  ASSUME WellFormed(Now), Turn, cur \in DOMAIN blk, NEW p \in DOMAIN code, NEW n, n = Len(buffer), Waiting(p),
         blk' = ShiftBlocks(blk[cur], CountInsertions(blk[cur]))
  PROVE  MovedBlocks(p, n)
<1> DEFINE b == blk[cur]
           Blocks == [start : Nat \ {0}, end : Nat, ostart : Nat, func : DOMAIN entry]
<1>1. /\ OnlyPoint(b, p, n) /\ p \in Nat /\ n \in Nat \ {0} /\ b.start <= p /\ p <= b.end
      /\ b.start \in Nat \ {0} /\ b.end \in Nat /\ b.end <= Len(code) /\ Len(code) \in Nat
  BY NowFacts DEF Waiting, OnlyPoint, Extent
<1>2. CountInsertions(b) = n - 1
  <2>1. b.end + 1 \in 1 .. Len(code) + 1 /\ ~(b.end + 1 <= p)
    BY <1>1
  <2> QED BY <1>1, <2>1, GrownFacts DEF CountInsertions
<1>3. blk \in Seq(Blocks) /\ \A k \in DOMAIN blk : blk[k] \in Blocks
  <2>1. blk \in Seq(Blocks)
    BY DEF WellFormed, Now
  <2> HIDE DEF Blocks
  <2> QED BY <2>1
<1>4. blk' = [k \in DOMAIN blk |-> IF k = cur THEN [b EXCEPT !.end = b.end + (n - 1)]
                        ELSE IF blk[k].start > b.start
                        THEN [blk[k] EXCEPT !.start = blk[k].start + (n - 1), !.end = blk[k].end + (n - 1)]
                        ELSE blk[k]]
  BY <1>2 DEF ShiftBlocks
<1>5. ASSUME NEW k \in DOMAIN blk
      PROVE  /\ blk'[k] \in Blocks
             /\ blk'[k].ostart = blk[k].ostart /\ blk'[k].start = Moved(p, n, blk[k].start)
             /\ blk'[k].end = IF blk[k].end < p THEN blk[k].end ELSE blk[k].end + n - 1
  <2>1. /\ blk[k].start \in Nat \ {0} /\ blk[k].end \in Nat /\ blk[k].start <= blk[k].end
        /\ k # cur => blk[k].end < b.start \/ b.end < blk[k].start
    BY NowFacts
  <2>2. /\ blk[k] = [start |-> blk[k].start, end |-> blk[k].end, ostart |-> blk[k].ostart, func |-> blk[k].func]
        /\ blk[k].ostart \in Nat /\ blk[k].func \in DOMAIN entry
    BY <1>3
  <2>3. CASE k = cur
    <3>1. blk'[k] = [blk[k] EXCEPT !.end = blk[k].end + (n - 1)]
      BY <1>4, <2>3
    <3>2. blk'[k] = [start |-> blk[k].start, end |-> blk[k].end + (n - 1), ostart |-> blk[k].ostart, func |-> blk[k].func]
      BY <2>2, <3>1
    <3>3. blk[k].end + (n - 1) \in Nat /\ ~(blk[k].end < p) /\ blk[k].start <= p
          /\ blk[k].end + (n - 1) = blk[k].end + n - 1
      BY <1>1, <2>3
    <3> QED BY <2>1, <2>2, <3>2, <3>3 DEF Moved
  <2>4. CASE k # cur /\ blk[k].start > b.start
    <3>1. blk'[k] = [blk[k] EXCEPT !.start = blk[k].start + (n - 1), !.end = blk[k].end + (n - 1)]
      BY <1>4, <2>4
    <3>2. blk'[k] = [start |-> blk[k].start + (n - 1), end |-> blk[k].end + (n - 1), ostart |-> blk[k].ostart, func |-> blk[k].func]
      BY <2>2, <3>1
    <3>3. /\ blk[k].end + (n - 1) \in Nat /\ blk[k].start + (n - 1) \in Nat \ {0}
          /\ ~(blk[k].end < p) /\ ~(blk[k].start <= p)
          /\ blk[k].end + (n - 1) = blk[k].end + n - 1 /\ blk[k].start + (n - 1) = blk[k].start + n - 1
      BY <1>1, <2>1, <2>4
    <3> QED BY <2>1, <2>2, <3>2, <3>3 DEF Moved
  <2>5. CASE k # cur /\ ~(blk[k].start > b.start)
    <3>1. blk'[k] = blk[k]
      BY <1>4, <2>5
    <3>2. blk[k].end < p /\ blk[k].start <= p
      BY <1>1, <2>1, <2>5
    <3> QED BY <1>3, <2>1, <3>1, <3>2 DEF Moved
  <2> QED BY <2>3, <2>4, <2>5
<1>6. DOMAIN blk' = DOMAIN blk /\ DOMAIN blk = 1 .. Len(blk) /\ Len(blk) \in Nat
  BY <1>3, <1>4, LenProperties
<1>7. blk' \in Seq(Blocks)
  <2>1. blk' \in [1 .. Len(blk) -> Blocks]
    <3> HIDE DEF Blocks, b
    <3> QED BY <1>4, <1>5, <1>6
  <2>2. \A f : \A m \in Nat : f \in [1 .. m -> Blocks] => f \in Seq(Blocks)
    <3> HIDE DEF Blocks
    <3> QED OBVIOUS
  <2> QED BY <1>6, <2>1, <2>2
<1> QED BY <1>5, <1>6, <1>7 DEF MovedBlocks

\* Functions move with their blocks.
LEMMA EntriesMove ==
  ASSUME WellFormed(Now), Turn, cur \in DOMAIN blk, NEW p \in DOMAIN code, NEW n, n = Len(buffer), Waiting(p),
         entry' = ShiftEntries(blk[cur], CountInsertions(blk[cur]))
  PROVE  MovedEntries(p, n)
<1> DEFINE b == blk[cur]
<1>1. /\ OnlyPoint(b, p, n) /\ p \in Nat /\ n \in Nat \ {0} /\ b.start <= p /\ p <= b.end
      /\ b.start \in Nat \ {0} /\ b.end \in Nat /\ b.end <= Len(code) /\ Len(code) \in Nat
  BY NowFacts DEF Waiting, OnlyPoint, Extent
<1>2. CountInsertions(b) = n - 1
  <2>1. b.end + 1 \in 1 .. Len(code) + 1 /\ ~(b.end + 1 <= p)
    BY <1>1
  <2> QED BY <1>1, <2>1, GrownFacts DEF CountInsertions
<1>3. entry' = [f \in DOMAIN entry |-> IF entry[f] > b.start THEN entry[f] + (n - 1) ELSE entry[f]]
  BY <1>2 DEF ShiftEntries
<1>4. ASSUME NEW f \in DOMAIN entry
      PROVE  entry'[f] = Moved(p, n, entry[f])
  <2>1. entry[f] \in Nat /\ (entry[f] \in b.start .. b.end => entry[f] = b.start)
    BY NowFacts DEF Extent
  <2> QED BY <1>1, <1>3, <2>1 DEF Moved
<1> QED BY <1>3, <1>4 DEF MovedEntries

\* One instruction has become n new ones.
Inserted(p, n) ==
  /\ MovedCode(p, n) /\ MovedBlocks(p, n) /\ MovedEntries(p, n) /\ NotesMoved(notes', notes, p, n)
  /\ named' = named + n /\ code[p].op \notin {"b", "try"}
  /\ \A k \in 1 .. n :
       buffer[k].id = named + k /\ buffer[k].op \notin {"b", "try", "insert", "insert_restart"}

\* Processing the insertion point does all that.
LEMMA ProcessInserts ==
  ASSUME JInv, ProcessInsertions
  PROVE  \E p \in 1 .. Len(code) : \E n \in Nat : /\ Inserted(p, n) /\ p \in Extent(blk[cur]) /\ cur \in DOMAIN blk
                                                  /\ \A i \in DOMAIN code : IsInsertion(code[i]) => i = p
<1>1. /\ WellFormed(Now) /\ OnePoint /\ Turn /\ Points # {} /\ status = "working" /\ cur \in DOMAIN blk
  BY DEF JInv, ProcessInsertions, Turn
<1>2. PICK p \in DOMAIN code : Waiting(p)
  BY <1>1, ThePoint
<1>3. PICK n \in Nat : n = Len(buffer)
  BY <1>2 DEF Waiting
<1>4. /\ code' = Rebuilt(blk[cur]) /\ blk' = ShiftBlocks(blk[cur], CountInsertions(blk[cur]))
      /\ entry' = ShiftEntries(blk[cur], CountInsertions(blk[cur])) /\ notes' = FixAnnotation(blk[cur])
      /\ named' = named + n
  BY <1>3 DEF ProcessInsertions
<1>5. MovedCode(p, n) /\ MovedBlocks(p, n) /\ MovedEntries(p, n)
  BY <1>1, <1>2, <1>3, <1>4, CodeMoves, BlocksMove, EntriesMove
<1>6. OnlyPoint(blk[cur], p, n)
  BY <1>2, <1>3 DEF Waiting
<1>7. NotesMoved(notes', notes, p, n)
  <2>1. PICK b : b = blk[cur]
    OBVIOUS
  <2>2. NotesMoved(FixAnnotation(b), notes, p, n)
    BY <1>1, <1>6, <2>1, NotesMove
  <2> QED BY <1>4, <2>1, <2>2
<1>8. \A k \in 1 .. n :
        buffer[k].id = named + k /\ buffer[k].op \notin {"b", "try", "insert", "insert_restart"}
  BY <1>2, <1>3 DEF Waiting
<1>9. /\ code[p].op \notin {"b", "try"} /\ p \in Extent(blk[cur]) /\ p \in 1 .. Len(code)
      /\ \A i \in DOMAIN code : IsInsertion(code[i]) => i = p
  BY <1>5, <1>6 DEF OnlyPoint, IsInsertion, MovedCode
<1> QED BY <1>1, <1>4, <1>5, <1>7, <1>8, <1>9 DEF Inserted

\* Each place is of an instruction that was there, or of a new one.
Placed(p, n) ==
  /\ DOMAIN code' = 1 .. Len(code) + n - 1
  /\ \A i \in 1 .. Len(code) : Moved(p, n, i) \in DOMAIN code'
  /\ \A k \in 1 .. n : p + k - 1 \in DOMAIN code'
  /\ \A i, j \in Int : i < j => Moved(p, n, i) < Moved(p, n, j)
  /\ \A m \in DOMAIN code' :
       \/ \E i \in 1 .. Len(code) : i # p /\ m = Moved(p, n, i)
       \/ \E k \in 1 .. n : m = p + k - 1

\* That is so after every insertion.
LEMMA Places ==
  ASSUME NEW p, NEW n, MovedCode(p, n), Len(code) \in Nat
  PROVE  Placed(p, n)
<1>1. /\ p \in 1 .. Len(code) /\ n \in Nat \ {0}
      /\ DOMAIN code' = 1 .. Len(code) + n - 1
  BY DEF MovedCode
<1>2. \A i \in 1 .. Len(code) : Moved(p, n, i) \in DOMAIN code'
  BY <1>1 DEF Moved
<1>3. \A i, j \in Int : i < j => Moved(p, n, i) < Moved(p, n, j)
  BY <1>1 DEF Moved
<1>4. ASSUME NEW m \in DOMAIN code'
      PROVE  \/ \E i \in 1 .. Len(code) : i # p /\ m = Moved(p, n, i)
             \/ \E k \in 1 .. n : m = p + k - 1
  <2>1. CASE m < p
    <3>1. m \in 1 .. Len(code) /\ m # p /\ m = Moved(p, n, m)
      BY <1>1, <2>1 DEF Moved
    <3> QED BY <3>1
  <2>2. CASE p <= m /\ m < p + n
    <3>1. m - p + 1 \in 1 .. n /\ m = p + (m - p + 1) - 1
      BY <1>1, <2>2
    <3> QED BY <3>1
  <2>3. CASE p + n <= m
    <3>1. PICK i : i = m - n + 1
      OBVIOUS
    <3>2. i \in 1 .. Len(code) /\ i # p /\ m = Moved(p, n, i)
      BY <1>1, <2>3, <3>1 DEF Moved
    <3> QED BY <3>2
  <2> QED BY <1>1, <2>1, <2>2, <2>3
<1>5. \A k \in 1 .. n : p + k - 1 \in DOMAIN code'
  BY <1>1
<1> QED BY <1>1, <1>2, <1>3, <1>4, <1>5 DEF Placed

\* A program that code is inserted into stays well formed.
LEMMA StaysWellFormed ==
  ASSUME WellFormed(Now), NEW p, NEW n, Inserted(p, n)
  PROVE  WellFormed(Now)'
<1>1. /\ Len(code) \in Nat /\ p \in 1 .. Len(code) /\ n \in Nat \ {0} /\ DOMAIN code = 1 .. Len(code)
      /\ MovedCode(p, n) /\ MovedBlocks(p, n) /\ MovedEntries(p, n) /\ NotesMoved(notes', notes, p, n)
      /\ Len(code') = Len(code) + n - 1
  BY NowFacts DEF Inserted, MovedCode
<1>10. Placed(p, n)
  BY <1>1, Places
<1>2. /\ code' \in Seq([id : Nat, op : Operations, arg : Int])
      /\ blk' \in Seq([start : Nat \ {0}, end : Nat, ostart : Nat, func : DOMAIN entry'])
  <2>1. DOMAIN entry' = DOMAIN entry
    BY <1>1 DEF MovedEntries
  <2> QED BY <1>1, <2>1 DEF MovedCode, MovedBlocks, Instruction
<1>3. ASSUME NEW k \in DOMAIN blk'
      PROVE  /\ k \in DOMAIN blk
             /\ blk[k].start \in Nat \ {0} /\ blk[k].end \in Nat
             /\ blk[k].start <= blk[k].end /\ blk[k].end <= Len(code)
             /\ blk'[k].start = Moved(p, n, blk[k].start)
             /\ blk'[k].end = IF blk[k].end < p THEN blk[k].end ELSE blk[k].end + n - 1
  BY <1>1, NowFacts DEF MovedBlocks
<1>4. ASSUME NEW k \in DOMAIN blk'
      PROVE  blk'[k].start <= blk'[k].end /\ blk'[k].end <= Len(code')
  BY <1>1, <1>3 DEF Moved
<1>6. ASSUME NEW k \in DOMAIN blk', NEW l \in DOMAIN blk', k < l
      PROVE  blk'[k].end < blk'[l].start
  <2>1. blk[k].end < blk[l].start
    BY <1>3, <1>6, NowFacts
  <2> QED BY <1>1, <1>3, <2>1 DEF Moved
<1>5. ASSUME NEW j \in DOMAIN notes', notes'[j].type = "scope"
      PROVE  notes'[j].n = 0
  <2>1. /\ j \in DOMAIN notes /\ notes[j].type = "scope" /\ Len(notes') = Len(notes) /\ Counts(notes')
        /\ j \in 1 .. Len(notes) /\ Len(notes) \in Nat
    BY <1>1, <1>5, NowFacts DEF NotesMoved
  <2>2. notes[j].n = 0 /\ Counts(notes)
    BY <2>1, NowFacts
  <2>3. SumN(notes, j) = SumN(notes, j - 1) + notes[j].n /\ SumN(notes, j - 1) \in Nat
    BY <2>1, <2>2, SumFacts
  <2>4. SumN(notes', j) = SumN(notes', j - 1) + notes'[j].n /\ SumN(notes', j - 1) \in Nat /\ notes'[j].n \in Nat
    BY <2>1, SumFacts DEF Counts
  <2>5. SumN(notes', j) = SumN(notes', j - 1)
    <3>1. j \in 0 .. Len(notes) /\ j - 1 \in 0 .. Len(notes)
      BY <2>1
    <3>2. SumN(notes, j) = SumN(notes, j - 1)
      BY <2>2, <2>3
    <3> QED BY <1>1, <3>1, <3>2 DEF NotesMoved
  <2> QED BY <2>4, <2>5
<1>7. ASSUME NEW m \in DOMAIN code'
      PROVE  /\ code'[m].op = "b"   => m + 1 + code'[m].arg \in DOMAIN code'
             /\ code'[m].op = "try" => \E k \in DOMAIN blk' : blk'[k].ostart = code'[m].arg
  <2>1. CASE \E k \in 1 .. n : m = p + k - 1
    <3>1. PICK k \in 1 .. n : m = p + k - 1
      BY <2>1
    <3>2. code'[m] = buffer[k] /\ buffer[k].op \notin {"b", "try"}
      BY <1>1, <3>1 DEF Inserted, MovedCode
    <3> QED BY <3>2
  <2>2. ASSUME NEW i \in 1 .. Len(code), i # p, m = Moved(p, n, i)
        PROVE  /\ code'[m].op = "b"   => m + 1 + code'[m].arg \in DOMAIN code'
               /\ code'[m].op = "try" => \E k \in DOMAIN blk' : blk'[k].ostart = code'[m].arg
    <3>1. /\ code'[m].op = code[i].op
          /\ code'[m].arg = IF code[i].op = "b" THEN Moved(p, n, i + 1 + code[i].arg) - (Moved(p, n, i) + 1)
                            ELSE code[i].arg
      BY <1>1, <2>2 DEF MovedCode
    <3>2. CASE code[i].op = "b"
      <4>1. PICK t : t = i + 1 + code[i].arg
        OBVIOUS
      <4>2. t \in 1 .. Len(code) /\ Moved(p, n, t) \in DOMAIN code'
        BY <1>1, <1>10, <3>2, <4>1, NowFacts DEF Placed
      <4>3. m + 1 + code'[m].arg = Moved(p, n, t)
        <5>1. Moved(p, n, t) \in Int /\ m \in Int
          BY <1>1, <2>2, <4>2 DEF Moved
        <5> QED BY <2>2, <3>1, <3>2, <4>1, <5>1
      <4> QED BY <3>1, <3>2, <4>2, <4>3
    <3>3. CASE code[i].op = "try"
      <4>1. PICK k \in DOMAIN blk : blk[k].ostart = code[i].arg
        BY <1>1, <3>3, NowFacts
      <4>2. k \in DOMAIN blk' /\ blk'[k].ostart = code[i].arg
        BY <1>1, <4>1 DEF MovedBlocks
      <4> QED BY <3>1, <3>3, <4>2
    <3> QED BY <3>1, <3>2, <3>3
  <2>3. \/ \E i \in 1 .. Len(code) : i # p /\ m = Moved(p, n, i)
        \/ \E k \in 1 .. n : m = p + k - 1
    BY <1>10 DEF Placed
  <2> QED BY ONLY <2>1, <2>2, <2>3
<1>8. ASSUME NEW f \in DOMAIN entry'
      PROVE  /\ entry'[f] \in DOMAIN code'
             /\ \A k \in DOMAIN blk' : entry'[f] \in Extent(blk'[k]) => entry'[f] = blk'[k].start
  <2>1. /\ f \in DOMAIN entry /\ entry[f] \in 1 .. Len(code) /\ entry'[f] = Moved(p, n, entry[f])
        /\ \A k \in DOMAIN blk : entry[f] \in Extent(blk[k]) => entry[f] = blk[k].start
    BY <1>1, NowFacts DEF MovedEntries
  <2>2. ASSUME NEW k \in DOMAIN blk', entry'[f] \in Extent(blk'[k])
        PROVE  entry'[f] = blk'[k].start
    <3>1. blk'[k].start <= entry'[f] /\ entry'[f] <= blk'[k].end
      BY <1>1, <1>3, <2>1, <2>2 DEF Extent, Moved
    <3>2. entry[f] \in Extent(blk[k])
      BY <1>1, <1>3, <2>1, <3>1 DEF Extent, Moved
    <3> QED BY <1>3, <2>1, <3>2
  <2> QED BY <1>1, <1>10, <2>1, <2>2 DEF Placed
<1>9. /\ notes' \in Seq([type : {"element", "scope"}, what : {notes'[j].what : j \in DOMAIN notes'}, n : Nat])
      /\ SumN(notes', Len(notes')) = Len(code')
  <2>1. /\ Len(notes') = Len(notes) /\ Len(notes) \in 0 .. Len(notes) /\ SumN(notes, Len(notes)) = Len(code)
        /\ ~(Len(code) < p)
    BY <1>1, NowFacts DEF NotesMoved
  <2> QED BY <1>1, <2>1 DEF NotesMoved
<1> QED BY <1>2, <1>4, <1>5, <1>6, <1>7, <1>8, <1>9 DEF WellFormed, Now

\* Names and operations after an insertion.
LEMMA NamesMove ==
  ASSUME WellFormed(Now), Named, NEW p, NEW n, Inserted(p, n)
  PROVE  Named'
<1>1. /\ Len(code) \in Nat /\ p \in 1 .. Len(code) /\ n \in Nat \ {0} /\ DOMAIN code = 1 .. Len(code)
      /\ MovedCode(p, n) /\ named' = named + n /\ named \in Nat
  BY NowFacts DEF Inserted, MovedCode, Named
<1>7. Placed(p, n)
  BY <1>1, Places
<1>2. ASSUME NEW i \in 1 .. Len(code), i # p
      PROVE  code'[Moved(p, n, i)].id = code[i].id /\ code[i].id \in 1 .. named
  BY <1>1, <1>2 DEF MovedCode, Named
<1>3. ASSUME NEW k \in 1 .. n
      PROVE  code'[p + k - 1].id = named + k
  BY <1>1, <1>3 DEF MovedCode, Inserted
<1>4. ASSUME NEW m \in DOMAIN code'
      PROVE  \/ \E i \in 1 .. Len(code) : i # p /\ m = Moved(p, n, i)
             \/ \E k \in 1 .. n : m = p + k - 1
  BY <1>7 DEF Placed
<1>5. ASSUME NEW m \in DOMAIN code'
      PROVE  code'[m].id \in 1 .. named'
  <2>1. ASSUME NEW i \in 1 .. Len(code), i # p, m = Moved(p, n, i)
        PROVE  code'[m].id \in 1 .. named'
    BY <1>1, <1>2, <2>1
  <2>2. ASSUME NEW k \in 1 .. n, m = p + k - 1
        PROVE  code'[m].id \in 1 .. named'
    <3>1. code'[m].id = named + k
      BY <1>3, <2>2
    <3>2. named + k \in 1 .. named'
      BY <1>1
    <3> QED BY <3>1, <3>2
  <2> QED BY <1>4, <2>1, <2>2
<1>6. ASSUME NEW m \in DOMAIN code', NEW l \in DOMAIN code', code'[m].id = code'[l].id
      PROVE  m = l
  <2>1. CASE code'[m].id \in 1 .. named
    <3>1. \A k \in 1 .. n : code'[p + k - 1].id \notin 1 .. named
      <4>1. \A k \in 1 .. n : named + k \notin 1 .. named
        BY <1>1
      <4> QED BY <1>3, <4>1
    <3>2. PICK i \in 1 .. Len(code) : i # p /\ m = Moved(p, n, i)
      BY <1>4, <2>1, <3>1
    <3>3. PICK j \in 1 .. Len(code) : j # p /\ l = Moved(p, n, j)
      BY <1>4, <1>6, <2>1, <3>1
    <3>4. code[i].id = code[j].id
      BY <1>2, <1>6, <3>2, <3>3
    <3> QED BY <1>1, <3>2, <3>3, <3>4 DEF Named
  <2>2. CASE code'[m].id \notin 1 .. named
    <3>1. \A k \in 1 .. Len(code) : k # p => code'[Moved(p, n, k)].id \in 1 .. named
      BY <1>2
    <3>2. PICK i \in 1 .. n : m = p + i - 1
      BY <1>4, <2>2, <3>1
    <3>3. PICK j \in 1 .. n : l = p + j - 1
      BY <1>4, <1>6, <2>2, <3>1
    <3>4. named + i = named + j
      BY <1>3, <1>6, <3>2, <3>3
    <3> QED BY <1>1, <3>2, <3>3, <3>4
  <2> QED BY <2>1, <2>2
<1> QED BY <1>1, <1>5, <1>6 DEF Named

\* The insertion point is gone.
LEMMA PointGone ==
  ASSUME WellFormed(Now), NEW p, NEW n, Inserted(p, n),
         \A i \in DOMAIN code : IsInsertion(code[i]) => i = p
  PROVE  \A i \in DOMAIN code' : ~IsInsertion(code'[i])
<1>1. MovedCode(p, n) /\ Placed(p, n) /\ DOMAIN code = 1 .. Len(code)
  <2>1. MovedCode(p, n) /\ DOMAIN code = 1 .. Len(code) /\ Len(code) \in Nat
    BY NowFacts DEF Inserted
  <2> QED BY <2>1, Places
<1>2. \A i \in 1 .. Len(code) : i # p => ~IsInsertion(code'[Moved(p, n, i)])
  BY <1>1 DEF MovedCode, IsInsertion
<1>3. \A k \in 1 .. n : ~IsInsertion(code'[p + k - 1])
  BY <1>1 DEF MovedCode, Inserted, IsInsertion
<1> QED BY <1>1, <1>2, <1>3 DEF Placed

\* Processing an insertion point keeps the invariant.
LEMMA ProcessKeeps ==
  ASSUME InsertionsAssumption, JInv, ProcessInsertions
  PROVE  JInv'
<1>1. PICK p \in 1 .. Len(code), n \in Nat :
        /\ Inserted(p, n) /\ p \in Extent(blk[cur]) /\ cur \in DOMAIN blk
        /\ \A i \in DOMAIN code : IsInsertion(code[i]) => i = p
  BY ProcessInserts
<1>2. WellFormed(Now) /\ Named /\ Turn
  BY DEF JInv
<1>3. WellFormed(Now)' /\ Named'
  BY <1>1, <1>2, StaysWellFormed, NamesMove
<1>4. OnePoint'
  BY <1>1, <1>2, PointGone DEF OnePoint
<1>5. Turn'
  <2>1. DOMAIN blk' = DOMAIN blk
    BY <1>1 DEF Inserted, MovedBlocks
  <2>2. restarts' \in {restarts, restarts + 1} /\ status = "working"
    BY DEF ProcessInsertions
  <2>3. live' = live /\ cur' = cur /\ joined' = joined \ {cur} /\ TooOften
    BY DEF ProcessInsertions
  <2>4. RestartLimit \in Nat
    BY DEF InsertionsAssumption
  <2> QED BY <1>2, <2>1, <2>2, <2>3, <2>4 DEF Turn, TooOften
<1> QED BY <1>3, <1>4, <1>5 DEF JInv

-----------------------------------------------------------------------------
(***************************************************************************)
(* Leaving an insertion point.                                             *)
(***************************************************************************)
\* The operations of new instructions.
Plain(ops) ==
  /\ ops \in Seq(Operations) /\ ops # <<>>
  /\ ToSet(ops) \cap {"b", "try", "insert", "insert_restart"} = {}

\* An instruction that was no branch becomes an insertion point.
Pointed(i, ops, op) ==
  /\ Scanning /\ i \in Extent(blk[cur]) /\ code[i].op \notin {"b", "try"} /\ Plain(ops)
  /\ op \in {"insert", "insert_restart"} /\ PointAt(i, ops, op)
  /\ UNCHANGED <<blk, entry, notes, live, cur, restarts, joined, named, status>>

\* Inlining a function and resolving a method leave an insertion point.
LEMMA LeavesPoint ==
  ASSUME InsertionsAssumption, JInv, Inline \/ ResolveMethod
  PROVE  \E i \in DOMAIN code : \E ops, op : Pointed(i, ops, op)
<1>1. \A i \in Extent(blk[cur]) : i \in DOMAIN code
  BY NowFacts DEF JInv, Turn, Extent, Inline, ResolveMethod, Scanning
<1>2. CASE Inline
  <2>1. \A s \in Bodies : Plain(s)
    BY DEF Plain, InsertionsAssumption
  <2>2. PICK i \in Extent(blk[cur]), body \in Bodies : code[i].op \in {"call", "method"} /\ PointAt(i, body, "insert_restart")
    BY <1>2 DEF Inline
  <2>3. Pointed(i, body, "insert_restart")
    BY <1>2, <2>1, <2>2 DEF Pointed, Inline
  <2> QED BY <1>1, <2>2, <2>3
<1>3. CASE ResolveMethod
  <2>1. Plain(<<"plain", "method", "plain">>)
    <3> DEFINE s == <<"plain", "method", "plain">>
    <3>1. s \in Seq(Operations) /\ s # <<>> /\ DOMAIN s = 1 .. 3
      BY DEF Operations
    <3>2. \A k \in 1 .. 3 : s[k] \in {"plain", "method"}
      OBVIOUS
    <3> HIDE DEF s
    <3>3. ToSet(s) \subseteq {"plain", "method"}
      BY <3>1, <3>2 DEF ToSet
    <3>4. Plain(s)
      BY <3>1, <3>3 DEF Plain
    <3> QED BY <3>4 DEF s
  <2>2. PICK i \in Extent(blk[cur]) : code[i].op = "invoke" /\ PointAt(i, <<"plain", "method", "plain">>, "insert")
    BY <1>3 DEF ResolveMethod
  <2>3. Pointed(i, <<"plain", "method", "plain">>, "insert")
    BY <1>3, <2>1, <2>2 DEF Pointed, ResolveMethod
  <2> QED BY <1>1, <2>2, <2>3
<1> QED BY <1>2, <1>3

\* Nothing but the operation and the operand of instruction i differs.
Pointing(i) ==
  /\ code' \in Seq(Instruction) /\ Len(code') = Len(code) /\ DOMAIN code' = DOMAIN code /\ i \in DOMAIN code
  /\ \A j \in DOMAIN code : code'[j].id = code[j].id
  /\ \A j \in DOMAIN code : j # i => code'[j] = code[j]
  /\ IsInsertion(code'[i]) /\ code[i].op \notin {"b", "try"}
  /\ code'[i].op \notin {"b", "try"} /\ code'[i].arg = Len(buffer')
  /\ UNCHANGED <<blk, entry, notes, live, cur, restarts, joined, named, status>>

\* That is all it does to the code.
LEMMA PointingFacts ==
  ASSUME WellFormed(Now), NEW i \in DOMAIN code, NEW ops, NEW op, Pointed(i, ops, op)
  PROVE  Pointing(i) /\ Len(buffer') \in Nat \ {0} /\ DOMAIN buffer' = DOMAIN ops
<1>1. /\ code \in Seq(Instruction) /\ code[i] \in Instruction /\ Len(code) \in Nat /\ DOMAIN code = 1 .. Len(code)
  BY NowFacts
<1>2. /\ ops \in Seq(Operations) /\ Len(ops) \in Nat \ {0} /\ DOMAIN ops = 1 .. Len(ops)
      /\ op \in {"insert", "insert_restart"}
  BY EmptySeq DEF Pointed, Plain
<1>3. /\ code' = [code EXCEPT ![i] = Instr(code[i].id, op, Len(ops))]
      /\ buffer' = [k \in DOMAIN ops |-> Instr(named + k, ops[k], 0)]
  BY DEF Pointed, PointAt
<1>4. Len(buffer') = Len(ops) /\ DOMAIN buffer' = DOMAIN ops
  BY <1>2, <1>3
<1>5. Instr(code[i].id, op, Len(ops)) \in Instruction
  <2>1. code[i].id \in Nat
    BY <1>1 DEF Instruction
  <2>2. op \in Operations /\ Len(ops) \in Int
    BY <1>2 DEF Operations
  <2> QED BY <2>1, <2>2 DEF Instr, Instruction
<1>6. code' \in Seq(Instruction) /\ Len(code') = Len(code) /\ DOMAIN code' = DOMAIN code
  BY <1>1, <1>3, <1>5, ExceptSeq
<1>7. code'[i] = [id |-> code[i].id, op |-> op, arg |-> Len(ops)]
  BY <1>1, <1>3 DEF Instr
<1>8. \A j \in DOMAIN code : j # i => code'[j] = code[j]
  BY <1>1, <1>3
<1>9. /\ \A j \in DOMAIN code : code'[j].id = code[j].id
      /\ IsInsertion(code'[i]) /\ code'[i].op \notin {"b", "try"} /\ code'[i].arg = Len(buffer')
  BY <1>2, <1>4, <1>7, <1>8 DEF IsInsertion
<1> QED BY <1>2, <1>4, <1>6, <1>8, <1>9 DEF Pointing, Pointed

\* An insertion point is only left where there is none yet, and is the only one then.
LEMMA PointKeeps ==
  ASSUME JInv, NEW i \in DOMAIN code, NEW ops, NEW op, Pointed(i, ops, op)
  PROVE  JInv'
<1>1. /\ WellFormed(Now) /\ Named /\ Turn /\ cur \in DOMAIN blk /\ status = "working"
      /\ i \in Extent(blk[cur]) /\ Points = {} /\ OnePoint /\ Plain(ops)
  BY DEF JInv, Turn, Pointed, Scanning
<1>2. Pointing(i) /\ Len(buffer') \in Nat \ {0} /\ DOMAIN buffer' = DOMAIN ops
  BY <1>1, PointingFacts
<1>3. /\ Len(code) \in Nat /\ DOMAIN code = 1 .. Len(code)
      /\ blk[cur].start \in Nat \ {0} /\ blk[cur].end \in Nat /\ blk[cur].end <= Len(code)
  BY <1>1, NowFacts
<1>4. ASSUME NEW j \in DOMAIN code
      PROVE  j # i => ~IsInsertion(code'[j])
  <2>1. \A p \in DOMAIN code : ~Waiting(p)
    BY <1>1 DEF Waiting, OnlyPoint, Points
  <2>2. ~IsInsertion(code[j])
    BY <1>1, <2>1 DEF OnePoint
  <2> QED BY <1>2, <2>2 DEF Pointing, IsInsertion
<1>5. WellFormed(Now)'
  <2>1. /\ UNCHANGED <<blk, entry, notes>> /\ DOMAIN code' = DOMAIN code /\ Len(code') = Len(code)
        /\ code' \in Seq(Instruction)
    BY <1>2 DEF Pointing
  <2>2. ASSUME NEW j \in DOMAIN code'
        PROVE  /\ code'[j].op = "b"   => j + 1 + code'[j].arg \in DOMAIN code'
               /\ code'[j].op = "try" => \E k \in DOMAIN blk' : blk'[k].ostart = code'[j].arg
    <3>1. CASE j = i
      BY <1>2, <3>1 DEF Pointing
    <3>2. CASE j # i
      BY <1>1, <1>2, <2>1, <3>2, NowFacts DEF Pointing
    <3> QED BY <3>1, <3>2
  <2>3. /\ blk' \in Seq([start : Nat \ {0}, end : Nat, ostart : Nat, func : DOMAIN entry'])
        /\ \A k \in DOMAIN blk' : blk'[k].start <= blk'[k].end /\ blk'[k].end <= Len(code')
        /\ \A k, l \in DOMAIN blk' : k < l => blk'[k].end < blk'[l].start
    BY <1>1, <2>1 DEF WellFormed, Now
  <2>4. /\ \A f \in DOMAIN entry' :
             /\ entry'[f] \in DOMAIN code'
             /\ \A k \in DOMAIN blk' : entry'[f] \in Extent(blk'[k]) => entry'[f] = blk'[k].start
        /\ notes' \in Seq([type : {"element", "scope"}, what : {notes'[j].what : j \in DOMAIN notes'}, n : Nat])
        /\ \A j \in DOMAIN notes' : notes'[j].type = "scope" => notes'[j].n = 0
        /\ SumN(notes', Len(notes')) = Len(code')
    BY <1>1, <2>1 DEF WellFormed, Now
  <2>5. code' \in Seq([id : Nat, op : Operations, arg : Int])
    BY <2>1 DEF Instruction
  <2> QED BY <2>2, <2>3, <2>4, <2>5 DEF WellFormed, Now
<1>6. Named'
  BY <1>1, <1>2 DEF Named, Pointing
<1>7. OnePoint'
  <2>1. ASSUME NEW k \in DOMAIN buffer'
        PROVE  /\ buffer'[k] \in Instruction /\ buffer'[k].id = named' + k
               /\ buffer'[k].op \notin {"b", "try", "insert", "insert_restart"}
    <3>1. /\ k \in DOMAIN ops /\ buffer'[k] = [id |-> named + k, op |-> ops[k], arg |-> 0] /\ named' = named
      BY <1>2, <2>1 DEF Pointed, PointAt, Instr
    <3>2. ops[k] \in Operations /\ ops[k] \notin {"b", "try", "insert", "insert_restart"} /\ k \in Nat
      <4>1. ops \in Seq(Operations) /\ DOMAIN ops = 1 .. Len(ops) /\ Len(ops) \in Nat
        BY <1>1 DEF Plain
      <4>2. ops[k] \in Operations /\ k \in Nat
        BY <3>1, <4>1, ElementOfSeq
      <4>3. ops[k] \in ToSet(ops)
        BY <3>1 DEF ToSet
      <4> QED BY <1>1, <4>2, <4>3 DEF Plain
    <3>3. named + k \in Nat
      BY <1>1, <3>2 DEF Named
    <3> QED BY <3>1, <3>2, <3>3 DEF Instruction
  <2>2. buffer' \in Seq(Instruction)
    <3>1. buffer' = [k \in DOMAIN ops |-> buffer'[k]] /\ DOMAIN ops = 1 .. Len(ops) /\ Len(ops) \in Nat
      BY <1>1 DEF Pointed, PointAt, Plain
    <3>2. buffer' \in [1 .. Len(ops) -> Instruction]
      BY <1>2, <2>1, <3>1
    <3>3. \A f : \A m \in Nat : f \in [1 .. m -> Instruction] => f \in Seq(Instruction)
      OBVIOUS
    <3> QED BY <3>1, <3>2, <3>3
  <2>3. OnlyPoint(blk[cur], i, Len(buffer))'
    <3>1. blk' = blk /\ cur' = cur /\ code' \in Seq(Instruction) /\ DOMAIN code' = DOMAIN code /\ Len(code') = Len(code)
          /\ IsInsertion(code'[i]) /\ code'[i].arg = Len(buffer')
      BY <1>2 DEF Pointing
    <3> QED BY <1>1, <1>2, <1>3, <1>4, <3>1 DEF OnlyPoint
  <2>4. status' = "working" /\ i \in DOMAIN code'
    BY <1>1, <1>2 DEF Pointing
  <2>5. Waiting(i)'
    BY <2>1, <2>2, <2>3 DEF Waiting
  <2> QED BY <2>4, <2>5 DEF OnePoint
<1>8. Turn'
  BY <1>1, <1>2 DEF Turn, Pointing
<1> QED BY <1>5, <1>6, <1>7, <1>8 DEF JInv

-----------------------------------------------------------------------------
(***************************************************************************)
(* The program as Editing has it. Names stay with the instructions while   *)
(* their places move.                                                      *)
(***************************************************************************)
\* What instructions of the program as Editing has it are, by their place.
View ==
  /\ \A i \in DOMAIN code : PlaceOf(code[i].id) = i
  /\ DOMAIN Goes = NamesOf(Branches)
  /\ \A i \in Branches : Goes[code[i].id] = code[TargetOf(i)].id
  /\ DOMAIN Lines = NamesOf(DOMAIN code)
  /\ \A i \in DOMAIN code : Lines[code[i].id] = LineAt(notes, i)

\* Names find their places, as no two instructions have one name.
LEMMA ViewFacts == Named => View
<1>1. SUFFICES ASSUME Named PROVE View
  OBVIOUS
<1>2. ASSUME NEW i \in DOMAIN code
      PROVE  PlaceOf(code[i].id) = i
  BY <1>1 DEF Named, PlaceOf
<1>3. Branches \subseteq DOMAIN code
  BY DEF Branches
<1>4. ASSUME NEW P, P \subseteq DOMAIN code, NEW i \in P
      PROVE  code[i].id \in NamesOf(P)
  BY <1>4 DEF NamesOf
<1> QED BY <1>2, <1>3, <1>4 DEF View, Goes, Lines

\* The same after a step.
LEMMA ViewNext == Named' => View'
BY ViewFacts, PTL

\* What Editing sees of the program.
Seen == <<Text, Goes, Enters, Lines, named>>

\* An insertion point has the name of the instruction it is left for, so nothing is seen of it.
LEMMA PointUnseen ==
  ASSUME JInv, Named', NEW i \in DOMAIN code, Pointing(i)
  PROVE  Seen' = Seen
<1>1. WellFormed(Now) /\ Named /\ View /\ View'
  BY ViewFacts, ViewNext DEF JInv
<1>2. /\ UNCHANGED <<blk, entry, notes, named>> /\ DOMAIN code' = DOMAIN code
      /\ \A j \in DOMAIN code : code'[j].id = code[j].id
  BY DEF Pointing
<1>3. Text' = Text
  <2>1. ASSUME NEW k \in DOMAIN blk, NEW j \in 1 .. blk[k].end - blk[k].start + 1
        PROVE  code'[blk[k].start + j - 1].id = code[blk[k].start + j - 1].id
    <3>1. /\ blk[k].start \in Nat \ {0} /\ blk[k].end \in Nat /\ blk[k].end <= Len(code)
          /\ Len(code) \in Nat /\ DOMAIN code = 1 .. Len(code)
      BY <1>1, NowFacts
    <3>2. blk[k].start + j - 1 \in DOMAIN code
      BY ONLY <3>1, j \in 1 .. blk[k].end - blk[k].start + 1
    <3> QED BY <1>2, <3>2
  <2> QED BY <1>2, <2>1 DEF Text
<1>4. Branches' = Branches
  <2>1. ASSUME NEW j \in DOMAIN code
        PROVE  code'[j].op \in {"b", "try"} <=> code[j].op \in {"b", "try"}
    BY DEF Pointing
  <2> QED BY <1>2, <2>1 DEF Branches
<1>5. ASSUME NEW P \in SUBSET DOMAIN code
      PROVE  {code'[j].id : j \in P} = {code[j].id : j \in P}
  BY <1>2
<1>6. NamesOf(Branches)' = NamesOf(Branches) /\ NamesOf(DOMAIN code)' = NamesOf(DOMAIN code)
  <2>1. Branches \in SUBSET DOMAIN code
    BY DEF Branches
  <2> QED BY <1>2, <1>4, <1>5, <2>1 DEF NamesOf
<1>7. Goes' = Goes
  <2>1. ASSUME NEW j \in Branches
        PROVE  Goes'[code[j].id] = Goes[code[j].id]
    <3>1. j \in DOMAIN code /\ j # i /\ code'[j] = code[j]
      BY DEF Branches, Pointing
    <3>2. TargetOf(j)' = TargetOf(j)
      BY <1>2, <3>1 DEF TargetOf
    <3>3. TargetOf(j) \in DOMAIN code
      <4>1. /\ code[j].op = "b" => j + 1 + code[j].arg \in DOMAIN code
            /\ code[j].op = "try" => \E k \in DOMAIN blk : blk[k].ostart = code[j].arg
            /\ \A k \in DOMAIN blk : blk[k].start \in DOMAIN code
        BY <1>1, <3>1, NowFacts
      <4> QED BY <4>1 DEF TargetOf, Branches
    <3>4. /\ Goes[code[j].id] = code[TargetOf(j)].id
          /\ Goes'[code'[j].id] = code'[TargetOf(j)'].id
      BY <1>1, <1>4 DEF View
    <3> QED BY <1>2, <3>1, <3>2, <3>3, <3>4
  <2>2. DOMAIN Goes = NamesOf(Branches) /\ DOMAIN Goes' = NamesOf(Branches)
    BY <1>1, <1>6 DEF View
  <2>3. Goes = [x \in DOMAIN Goes |-> Goes[x]] /\ Goes' = [x \in DOMAIN Goes' |-> Goes'[x]]
    BY DEF Goes
  <2>4. \A x \in NamesOf(Branches) : Goes'[x] = Goes[x]
    BY <2>1 DEF NamesOf
  <2> QED BY <2>2, <2>3, <2>4
<1>8. Lines' = Lines
  <2>1. ASSUME NEW j \in DOMAIN code
        PROVE  Lines'[code[j].id] = Lines[code[j].id]
    <3>1. /\ Lines[code[j].id] = LineAt(notes, j)
          /\ Lines'[code'[j].id] = LineAt(notes', j)
      BY <1>1, <1>2 DEF View
    <3> QED BY <1>2, <3>1
  <2>2. DOMAIN Lines = NamesOf(DOMAIN code) /\ DOMAIN Lines' = NamesOf(DOMAIN code)
    BY <1>1, <1>6 DEF View
  <2>3. Lines = [x \in DOMAIN Lines |-> Lines[x]] /\ Lines' = [x \in DOMAIN Lines' |-> Lines'[x]]
    BY DEF Lines
  <2>4. \A x \in NamesOf(DOMAIN code) : Lines'[x] = Lines[x]
    BY <2>1 DEF NamesOf
  <2> QED BY <2>2, <2>3, <2>4
<1>9. Enters' = Enters
  <2>1. \A f \in DOMAIN entry : entry[f] \in DOMAIN code
    BY <1>1, NowFacts
  <2> QED BY <1>2, <2>1 DEF Enters
<1> QED BY <1>2, <1>3, <1>7, <1>8, <1>9 DEF Seen

\* What moves with the instructions: which are branches, where they go.
LEMMA GoesMove ==
  ASSUME WellFormed(Now), Named, NEW p, NEW n, Inserted(p, n), NEW i \in 1 .. Len(code), i # p
  PROVE  /\ code'[Moved(p, n, i)].id = code[i].id
         /\ Moved(p, n, i) \in Branches' <=> i \in Branches
         /\ i \in Branches => /\ TargetOf(i) \in DOMAIN code
                              /\ TargetOf(Moved(p, n, i))' = Moved(p, n, TargetOf(i))
<1>1. /\ Len(code) \in Nat /\ p \in 1 .. Len(code) /\ n \in Nat \ {0} /\ DOMAIN code = 1 .. Len(code)
      /\ MovedCode(p, n) /\ MovedBlocks(p, n)
  BY NowFacts DEF Inserted, MovedCode
<1>2. Placed(p, n)
  BY <1>1, Places
<1> DEFINE m == Moved(p, n, i)
<1>3. /\ code'[m].id = code[i].id /\ code'[m].op = code[i].op /\ m \in DOMAIN code' /\ m \in Int
      /\ code'[m].arg = IF code[i].op = "b" THEN Moved(p, n, i + 1 + code[i].arg) - (Moved(p, n, i) + 1)
                        ELSE code[i].arg
  <2>1. m \in DOMAIN code' /\ m \in Int
    BY <1>1, <1>2 DEF Placed, Moved
  <2> QED BY <1>1, <2>1 DEF MovedCode
<1>4. m \in Branches' <=> i \in Branches
  BY <1>1, <1>3 DEF Branches
<1>5. ASSUME i \in Branches
      PROVE  TargetOf(i) \in DOMAIN code /\ TargetOf(m)' = Moved(p, n, TargetOf(i))
  <2>1. CASE code[i].op = "b"
    <3>1. PICK t : t = i + 1 + code[i].arg
      OBVIOUS
    <3>2. t \in 1 .. Len(code) /\ TargetOf(i) = t
      BY <1>1, <2>1, <3>1, NowFacts DEF TargetOf
    <3>3. TargetOf(m)' = m + 1 + code'[m].arg
      BY <1>3, <2>1 DEF TargetOf
    <3>4. code'[m].arg = Moved(p, n, t) - (m + 1)
      BY <1>3, <2>1, <3>1
    <3>5. Moved(p, n, t) \in Int
      BY <1>1, <3>2 DEF Moved
    <3>6. TargetOf(m)' = Moved(p, n, t)
      <4> HIDE DEF m
      <4> QED BY <1>3, <3>3, <3>4, <3>5
    <3> QED BY <1>1, <3>2, <3>6
  <2>2. CASE code[i].op = "try"
    <3> DEFINE k == CHOOSE k \in DOMAIN blk : blk[k].ostart = code[i].arg
    <3>1. k \in DOMAIN blk /\ TargetOf(i) = blk[k].start
      BY <1>1, <2>2, NowFacts DEF TargetOf
    <3>2. code'[m].arg = code[i].arg /\ code'[m].op = "try"
      BY <1>3, <2>2
    <3>3. TargetOf(m)' = blk'[CHOOSE l \in DOMAIN blk' : blk'[l].ostart = code'[m].arg].start
      BY <3>2 DEF TargetOf
    <3>4. (CHOOSE l \in DOMAIN blk' : blk'[l].ostart = code'[m].arg) = k
      BY <1>1, <3>2 DEF MovedBlocks
    <3> HIDE DEF k, m
    <3>5. TargetOf(m)' = blk'[k].start
      BY <3>3, <3>4
    <3>6. blk[k].start \in DOMAIN code
      BY <1>1, <3>1, NowFacts
    <3> QED BY <1>1, <3>1, <3>5, <3>6 DEF MovedBlocks
  <2> QED BY <1>5, <2>1, <2>2 DEF Branches
<1> QED BY <1>3, <1>4, <1>5

\* New instructions are of the line of the one they replace, and others keep theirs.
LEMMA LinesMove ==
  ASSUME WellFormed(Now), NEW p, NEW n, Inserted(p, n)
  PROVE  /\ \A i \in 1 .. Len(code) : i # p => LineAt(notes', Moved(p, n, i)) = LineAt(notes, i)
         /\ \A k \in 1 .. n : LineAt(notes', p + k - 1) = LineAt(notes, p)
<1>1. /\ Len(code) \in Nat /\ p \in 1 .. Len(code) /\ n \in Nat \ {0}
      /\ NotesMoved(notes', notes, p, n) /\ Len(notes) \in Nat /\ Counts(notes)
      /\ DOMAIN notes = 1 .. Len(notes) /\ SumN(notes, Len(notes)) = Len(code)
  BY NowFacts DEF Inserted, MovedCode
<1>2. /\ Len(notes') = Len(notes) /\ DOMAIN notes' = 1 .. Len(notes) /\ Counts(notes')
      /\ SumN(notes', Len(notes)) = Len(code) + n - 1
      /\ \A j \in DOMAIN notes : notes'[j].what = notes[j].what
  <2>1. Len(notes) \in 0 .. Len(notes) /\ ~(SumN(notes, Len(notes)) < p)
    BY <1>1
  <2>2. SumN(notes', Len(notes)) = SumN(notes, Len(notes)) + n - 1
    BY <1>1, <2>1 DEF NotesMoved
  <2> QED BY <1>1, <2>2 DEF NotesMoved
<1>3. ASSUME NEW i \in 1 .. Len(code), NEW m \in 1 .. Len(code) + n - 1,
             (m = Moved(p, n, i) /\ i # p) \/ (i = p /\ p <= m /\ m < p + n)
      PROVE  LineAt(notes', m) = LineAt(notes, i)
  <2>1. PICK j \in 1 .. Len(notes) : /\ Covers(notes, j, i)
                                      /\ \A k \in 1 .. Len(notes) : Covers(notes, k, i) => k = j
    BY <1>1, OneCovers
  <2>2. Covers(notes', j, m)
    <3>1. j - 1 \in 0 .. Len(notes) /\ j \in 0 .. Len(notes)
      BY <1>1
    <3>2. /\ SumN(notes', j) = IF SumN(notes, j) < p THEN SumN(notes, j) ELSE SumN(notes, j) + n - 1
          /\ SumN(notes', j - 1) = IF SumN(notes, j - 1) < p THEN SumN(notes, j - 1) ELSE SumN(notes, j - 1) + n - 1
      BY <1>1, <3>1 DEF NotesMoved
    <3>3. SumN(notes, j) \in Nat /\ SumN(notes, j - 1) \in Nat
      BY <1>1, <3>1, SumFacts
    <3>4. SumN(notes, j - 1) < i /\ i <= SumN(notes, j)
      BY <2>1 DEF Covers
    <3>5. SumN(notes', j - 1) < m /\ m <= SumN(notes', j)
      <4>1. Len(code) \in Nat /\ p \in 1 .. Len(code) /\ n \in Nat \ {0}
        BY <1>1
      <4>2. CASE m = Moved(p, n, i) /\ i # p
        BY ONLY <4>1, <4>2, <3>2, <3>3, <3>4, i \in 1 .. Len(code) DEF Moved
      <4>3. CASE i = p /\ p <= m /\ m < p + n
        BY ONLY <4>1, <4>3, <3>2, <3>3, <3>4, m \in 1 .. Len(code) + n - 1
      <4> QED BY <1>3, <4>2, <4>3
    <3> QED BY <3>5 DEF Covers
  <2>3. PICK l \in 1 .. Len(notes) : /\ Covers(notes', l, m)
                                      /\ \A k \in 1 .. Len(notes) : Covers(notes', k, m) => k = l
    BY <1>1, <1>2, OneCovers
  <2>4. (CHOOSE k \in DOMAIN notes : Covers(notes, k, i)) = j
    BY <1>1, <2>1
  <2>5. (CHOOSE k \in DOMAIN notes' : Covers(notes', k, m)) = j
    BY <1>1, <1>2, <2>2, <2>3
  <2> QED BY <1>1, <1>2, <2>4, <2>5 DEF LineAt
<1>4. ASSUME NEW i \in 1 .. Len(code), i # p
      PROVE  LineAt(notes', Moved(p, n, i)) = LineAt(notes, i)
  <2>1. Moved(p, n, i) \in 1 .. Len(code) + n - 1
    BY <1>1, <1>4 DEF Moved
  <2> QED BY <1>3, <1>4, <2>1
<1>5. ASSUME NEW k \in 1 .. n
      PROVE  LineAt(notes', p + k - 1) = LineAt(notes, p)
  <2>1. PICK m : m = p + k - 1
    OBVIOUS
  <2>2. m \in 1 .. Len(code) + n - 1 /\ p <= m /\ m < p + n
    BY <1>1, <2>1
  <2> QED BY <1>1, <1>3, <2>1, <2>2
<1> QED BY <1>4, <1>5

\* What splicing gives, place by place.
LEMMA SpliceFacts ==
  ASSUME NEW V, NEW s \in Seq(V), NEW i \in 1 .. Len(s), NEW t \in Seq(V)
  PROVE  /\ E!Splice(s, i, t) \in Seq(V) /\ Len(E!Splice(s, i, t)) = Len(s) + Len(t) - 1
         /\ \A j \in 1 .. Len(s) + Len(t) - 1 :
              E!Splice(s, i, t)[j] = IF j < i THEN s[j]
                                     ELSE IF j < i + Len(t) THEN t[j - i + 1] ELSE s[j - Len(t) + 1]
<1> DEFINE before == SubSeq(s, 1, i - 1)
           after == SubSeq(s, i + 1, Len(s))
<1>1. Len(s) \in Nat /\ Len(t) \in Nat /\ DOMAIN s = 1 .. Len(s)
  OBVIOUS
<1>2. /\ before \in Seq(V) /\ Len(before) = i - 1 /\ \A j \in 1 .. i - 1 : before[j] = s[j]
      /\ after \in Seq(V) /\ Len(after) = Len(s) - i /\ \A j \in 1 .. Len(s) - i : after[j] = s[i + j]
  <2>1. \A j \in 1 .. Len(s) : s[j] \in V
    BY <1>1, ElementOfSeq
  <2>2. i - 1 \in 0 .. Len(s) /\ i + 1 \in 1 .. Len(s) + 1 /\ i \in Nat
    BY <1>1
  <2>3. before \in Seq(V) /\ Len(before) = i - 1 /\ \A j \in 1 .. i - 1 : before[j] = s[j]
    BY <1>1, <2>1, <2>2, SubSeqProperties
  <2>4. after \in Seq(V) /\ Len(after) = Len(s) - i /\ \A j \in 1 .. Len(s) - i : after[j] = s[i + j]
    <3>1. \A j \in i + 1 .. Len(s) : s[j] \in V
      BY <1>1, <2>1, <2>2
    <3>2. /\ after \in Seq(V) /\ Len(after) = IF i + 1 <= Len(s) THEN Len(s) - (i + 1) + 1 ELSE 0
          /\ \A j \in 1 .. Len(s) - (i + 1) + 1 : after[j] = s[i + 1 + j - 1]
      BY <1>1, <2>2, <3>1, SubSeqProperties
    <3>3. Len(s) - (i + 1) + 1 = Len(s) - i /\ (~(i + 1 <= Len(s)) => Len(s) - i = 0)
      <4>1. Len(s) \in Nat /\ i \in Nat /\ i <= Len(s)
        BY <1>1, <2>2
      <4> QED BY ONLY <4>1
    <3>4. \A j \in 1 .. Len(s) - i : i + 1 + j - 1 = i + j
      BY <1>1, <2>2
    <3> HIDE DEF after
    <3> QED BY <3>2, <3>3, <3>4
  <2> QED BY <2>3, <2>4
<1>3. E!Splice(s, i, t) = before \o t \o after
  BY DEF E!Splice
<1> HIDE DEF before, after
<1>4. /\ before \o t \in Seq(V) /\ Len(before \o t) = i - 1 + Len(t)
      /\ \A j \in 1 .. i - 1 + Len(t) : (before \o t)[j] = IF j <= i - 1 THEN before[j] ELSE t[j - (i - 1)]
  <2>1. Len(before) + Len(t) = i - 1 + Len(t)
    BY <1>1, <1>2
  <2>2. /\ before \o t \in Seq(V) /\ Len(before \o t) = Len(before) + Len(t)
        /\ \A j \in 1 .. Len(before) + Len(t) : (before \o t)[j] = IF j <= Len(before) THEN before[j] ELSE t[j - Len(before)]
    BY <1>2, ConcatProperties
  <2> QED BY <1>2, <2>1, <2>2
<1> DEFINE front == before \o t
<1> HIDE DEF front
<1>5. /\ front \o after \in Seq(V) /\ Len(front \o after) = Len(s) + Len(t) - 1
      /\ \A j \in 1 .. Len(s) + Len(t) - 1 :
           (front \o after)[j] = IF j <= i - 1 + Len(t) THEN front[j] ELSE after[j - (i - 1 + Len(t))]
  <2>1. front \in Seq(V) /\ Len(front) = i - 1 + Len(t)
    BY <1>4 DEF front
  <2>2. Len(front) + Len(after) = Len(s) + Len(t) - 1
    BY <1>1, <1>2, <2>1
  <2>3. /\ front \o after \in Seq(V) /\ Len(front \o after) = Len(front) + Len(after)
        /\ \A j \in 1 .. Len(front) + Len(after) :
             (front \o after)[j] = IF j <= Len(front) THEN front[j] ELSE after[j - Len(front)]
    BY <1>2, <2>1, ConcatProperties
  <2> QED BY <2>1, <2>2, <2>3
<1>6. ASSUME NEW j \in 1 .. Len(s) + Len(t) - 1
      PROVE  (front \o after)[j] = IF j < i THEN s[j]
                                   ELSE IF j < i + Len(t) THEN t[j - i + 1] ELSE s[j - Len(t) + 1]
  <2>1. CASE j < i
    <3>1. j \in 1 .. i - 1 /\ j <= i - 1 + Len(t) /\ j \in 1 .. i - 1 + Len(t)
      BY <1>1, <2>1
    <3> QED BY <1>2, <1>4, <1>5, <2>1, <3>1 DEF front
  <2>2. CASE ~(j < i) /\ j < i + Len(t)
    <3>1. j <= i - 1 + Len(t) /\ j \in 1 .. i - 1 + Len(t) /\ ~(j <= i - 1) /\ j - (i - 1) = j - i + 1
      BY <1>1, <2>2
    <3> QED BY <1>4, <1>5, <2>2, <3>1 DEF front
  <2>3. CASE ~(j < i) /\ ~(j < i + Len(t))
    <3>1. /\ ~(j <= i - 1 + Len(t)) /\ j - (i - 1 + Len(t)) \in 1 .. Len(s) - i
          /\ i + (j - (i - 1 + Len(t))) = j - Len(t) + 1
      BY <1>1, <2>3
    <3> QED BY <1>2, <1>5, <2>3, <3>1
  <2> QED BY <2>1, <2>2, <2>3
<1> QED BY <1>3, <1>5, <1>6 DEF front

\* The block that is rebuilt has the new instructions in place of the one at p.
LEMMA TextMoves ==
  ASSUME WellFormed(Now), Named, NEW p, NEW n, Inserted(p, n), NEW c \in DOMAIN blk, p \in Extent(blk[c]),
         NEW t, t = [k \in 1 .. n |-> named + k], NEW i, i = p - blk[c].start + 1
  PROVE  /\ i \in DOMAIN Text[c] /\ Text[c][i] = code[p].id
         /\ Text' = [Text EXCEPT ![c] = E!Splice(@, i, t)]
<1>1. /\ Len(code) \in Nat /\ p \in 1 .. Len(code) /\ n \in Nat \ {0} /\ DOMAIN code = 1 .. Len(code)
      /\ MovedCode(p, n) /\ MovedBlocks(p, n) /\ named \in Nat
  BY NowFacts DEF Inserted, MovedCode, Named
<1>2. ASSUME NEW k \in DOMAIN blk
      PROVE  /\ blk[k].start \in Nat \ {0} /\ blk[k].end \in Nat
             /\ blk[k].start <= blk[k].end /\ blk[k].end <= Len(code)
             /\ blk'[k].start = Moved(p, n, blk[k].start)
             /\ blk'[k].end = IF blk[k].end < p THEN blk[k].end ELSE blk[k].end + n - 1
  BY <1>1, NowFacts DEF MovedBlocks
<1>3. PICK a \in Nat \ {0}, e \in Nat, L \in Nat : a = blk[c].start /\ e = blk[c].end /\ L = Len(code)
  BY <1>1, <1>2
<1>4. p \in Nat /\ a <= p /\ p <= e /\ e <= L /\ p <= L /\ i = p - a + 1
  BY <1>1, <1>2, <1>3 DEF Extent
<1>5. /\ Text = [k \in DOMAIN blk |-> [j \in 1 .. blk[k].end - blk[k].start + 1 |-> code[blk[k].start + j - 1].id]]
      /\ Text' = [k \in DOMAIN blk |-> [j \in 1 .. blk'[k].end - blk'[k].start + 1 |-> code'[blk'[k].start + j - 1].id]]
  BY <1>1 DEF Text, MovedBlocks
<1>6. ASSUME NEW k \in DOMAIN blk, k # c
      PROVE  Text'[k] = Text[k]
  <2>1. PICK x \in Nat \ {0}, y \in Nat : x = blk[k].start /\ y = blk[k].end
    BY <1>2
  <2>2. x <= y /\ y <= L /\ (y < a \/ e < x)
    BY <1>2, <1>3, <1>6, <2>1, NowFacts
  <2>3. PICK x1, y1 : x1 = blk'[k].start /\ y1 = blk'[k].end
    OBVIOUS
  <2>4. x1 = Moved(p, n, x) /\ y1 = IF y < p THEN y ELSE y + n - 1
    BY <1>2, <2>1, <2>3
  <2>5. x1 \in Nat /\ y1 - x1 + 1 = y - x + 1
    BY ONLY x \in Nat, y \in Nat, a \in Nat, e \in Nat, <1>1, <1>4, <2>2, <2>4 DEF Moved
  <2>6. ASSUME NEW j \in 1 .. y - x + 1
        PROVE  code'[x1 + j - 1].id = code[x + j - 1].id
    <3>1. PICK l : l = x + j - 1
      OBVIOUS
    <3>2. l \in Nat \ {0} /\ l <= L /\ l # p /\ Moved(p, n, l) = x1 + j - 1
      BY ONLY x \in Nat \ {0}, y \in Nat, a \in Nat, e \in Nat, L \in Nat, j \in 1 .. y - x + 1,
              <1>1, <1>4, <2>2, <2>4, <3>1 DEF Moved
    <3>3. l \in 1 .. Len(code)
      BY <1>3, <3>2
    <3>4. code'[Moved(p, n, l)].id = code[l].id
      BY <1>1, <3>2, <3>3 DEF MovedCode
    <3> QED BY <3>1, <3>2, <3>4
  <2> QED BY <1>5, <2>1, <2>3, <2>5, <2>6
<1> DEFINE s == Text[c]
           N == e - a + 1
<1>7. s = [j \in 1 .. N |-> code[a + j - 1].id] /\ N \in Nat /\ i \in 1 .. N /\ i \in Nat
  <2>1. N \in Nat /\ i \in 1 .. N /\ i \in Nat
    BY ONLY a \in Nat, e \in Nat, <1>4
  <2>2. s = [j \in 1 .. N |-> code[a + j - 1].id]
    BY <1>3, <1>5
  <2> QED BY <2>1, <2>2
<1>8. s \in Seq(Nat) /\ Len(s) = N /\ DOMAIN s = 1 .. N
  <2>1. ASSUME NEW j \in 1 .. N
        PROVE  code[a + j - 1].id \in Nat
    <3>1. a + j - 1 \in 1 .. L
      BY ONLY a \in Nat \ {0}, e \in Nat, L \in Nat, j \in 1 .. N, <1>4
    <3>2. a + j - 1 \in DOMAIN code
      BY <1>1, <1>3, <3>1
    <3> QED BY <3>2 DEF Named
  <2> HIDE DEF s, N
  <2>2. s \in [1 .. N -> Nat]
    BY <1>7, <2>1
  <2>3. \A f : \A m \in Nat : f \in [1 .. m -> Nat] => f \in Seq(Nat) /\ Len(f) = m /\ DOMAIN f = 1 .. m
    OBVIOUS
  <2> QED BY <1>7, <2>2, <2>3
<1>9. s[i] = code[p].id
  <2>1. a + i - 1 = p
    BY <1>4
  <2> HIDE DEF s, N
  <2> QED BY <1>7, <2>1
<1>10. t \in Seq(Nat) /\ Len(t) = n /\ DOMAIN t = 1 .. n /\ \A k \in 1 .. n : t[k] = named + k
  <2>1. t \in [1 .. n -> Nat]
    BY <1>1
  <2>2. \A f : \A m \in Nat : f \in [1 .. m -> Nat] => f \in Seq(Nat) /\ Len(f) = m /\ DOMAIN f = 1 .. m
    OBVIOUS
  <2> QED BY <1>1, <2>1, <2>2
<1> DEFINE u == E!Splice(s, i, t)
<1>11. /\ u \in Seq(Nat) /\ Len(u) = N + n - 1
       /\ \A j \in 1 .. N + n - 1 :
            u[j] = IF j < i THEN s[j] ELSE IF j < i + n THEN t[j - i + 1] ELSE s[j - n + 1]
  <2> HIDE DEF s, N
  <2>1. i \in 1 .. Len(s)
    BY <1>7, <1>8
  <2>3. s \in Seq(Nat) /\ t \in Seq(Nat)
    BY <1>8, <1>10
  <2>2. /\ u \in Seq(Nat) /\ Len(u) = Len(s) + Len(t) - 1
        /\ \A j \in 1 .. Len(s) + Len(t) - 1 :
             u[j] = IF j < i THEN s[j] ELSE IF j < i + Len(t) THEN t[j - i + 1] ELSE s[j - Len(t) + 1]
    BY ONLY <2>1, <2>3, SpliceFacts
  <2> HIDE DEF u
  <2> QED BY <1>8, <1>10, <2>2
<1>12. Text'[c] = [j \in 1 .. N + n - 1 |-> code'[a + j - 1].id]
  <2>1. PICK x1, y1 : x1 = blk'[c].start /\ y1 = blk'[c].end
    OBVIOUS
  <2>2. x1 = Moved(p, n, a) /\ y1 = IF e < p THEN e ELSE e + n - 1
    BY <1>2, <1>3, <2>1
  <2>3. x1 = a /\ y1 - x1 + 1 = N + n - 1
    BY ONLY a \in Nat, e \in Nat, <1>1, <1>4, <2>2 DEF Moved
  <2> HIDE DEF N
  <2> QED BY <1>5, <2>1, <2>3
<1>13. ASSUME NEW j \in 1 .. N + n - 1
       PROVE  code'[a + j - 1].id = u[j]
  <2> USE <1>7
  <2>1. CASE j < i
    <3>1. PICK l : l = a + j - 1
      OBVIOUS
    <3>2. l \in 1 .. L /\ l # p /\ Moved(p, n, l) = l /\ j \in 1 .. N
      BY ONLY a \in Nat \ {0}, e \in Nat, L \in Nat, j \in 1 .. N + n - 1,
              <1>1, <1>4, <2>1, <3>1 DEF Moved
    <3>3. code'[l].id = code[l].id
      BY <1>1, <1>3, <3>2 DEF MovedCode
    <3>4. s[j] = code[l].id
      <4> HIDE DEF s, N
      <4> QED BY <1>7, <3>1, <3>2
    <3> HIDE DEF u, s, N
    <3> QED BY <1>11, <2>1, <3>1, <3>3, <3>4
  <2>2. CASE i <= j /\ j < i + n
    <3>1. PICK k : k = j - i + 1
      OBVIOUS
    <3>2. k \in 1 .. n /\ a + j - 1 = p + k - 1 /\ ~(j < i)
      BY ONLY a \in Nat \ {0}, e \in Nat, j \in 1 .. N + n - 1, <1>1, <1>4, <2>2, <3>1
    <3>3. code'[p + k - 1].id = named + k
      BY <1>1, <3>2 DEF MovedCode, Inserted
    <3> HIDE DEF u, s, N
    <3> QED BY <1>10, <1>11, <2>2, <3>1, <3>2, <3>3
  <2>3. CASE i + n <= j
    <3>1. PICK l : l = a + j - n
      OBVIOUS
    <3>2. PICK m : m = j - n + 1
      OBVIOUS
    <3>3. /\ l \in 1 .. L /\ l # p /\ Moved(p, n, l) = a + j - 1
          /\ m \in 1 .. N /\ a + m - 1 = l
      BY ONLY a \in Nat \ {0}, e \in Nat, L \in Nat, j \in 1 .. N + n - 1,
              <1>1, <1>4, <2>3, <3>1, <3>2 DEF Moved
    <3>4. code'[Moved(p, n, l)].id = code[l].id
      BY <1>1, <1>3, <3>3 DEF MovedCode
    <3>5. s[m] = code[l].id
      <4> HIDE DEF s, N
      <4> QED BY <1>7, <3>3
    <3>6. ~(j < i) /\ ~(j < i + n)
      BY ONLY a \in Nat \ {0}, e \in Nat, j \in 1 .. N + n - 1, <1>1, <1>4, <2>3
    <3> HIDE DEF u, s, N
    <3> QED BY <1>11, <3>2, <3>3, <3>4, <3>5, <3>6
  <2>4. j < i \/ (i <= j /\ j < i + n) \/ i + n <= j
    BY ONLY a \in Nat, e \in Nat, j \in 1 .. N + n - 1, <1>1, <1>4
  <2> QED BY <2>1, <2>2, <2>3, <2>4
<1>14. Text'[c] = u
  <2>1. u = [j \in 1 .. N + n - 1 |-> u[j]]
    <3>1. \A f : f \in Seq(Nat) => f = [j \in 1 .. Len(f) |-> f[j]]
      OBVIOUS
    <3> HIDE DEF u, N
    <3> QED BY <1>11, <3>1
  <2> HIDE DEF u, N
  <2> QED BY <1>12, <1>13, <2>1
<1>15. Text' = [Text EXCEPT ![c] = E!Splice(@, i, t)]
  <2>1. [Text EXCEPT ![c] = E!Splice(@, i, t)] = [k \in DOMAIN blk |-> IF k = c THEN u ELSE Text[k]]
    BY <1>5
  <2>2. Text' = [k \in DOMAIN blk |-> Text'[k]]
    BY <1>5
  <2> HIDE DEF u
  <2> QED BY <1>6, <1>14, <2>1, <2>2
<1> QED BY <1>7, <1>8, <1>9, <1>15

\* Where the instruction of that name is went to, once x has become others.
Renamed(x, y) == IF y = x THEN named + 1 ELSE y

\* The name at the place where a place has moved.
LEMMA NameMoves ==
  ASSUME WellFormed(Now), Named, NEW p, NEW n, Inserted(p, n), NEW i \in DOMAIN code
  PROVE  /\ Moved(p, n, i) \in DOMAIN code'
         /\ code'[Moved(p, n, i)].id = Renamed(code[p].id, code[i].id)
<1>1. /\ Len(code) \in Nat /\ p \in 1 .. Len(code) /\ n \in Nat \ {0} /\ DOMAIN code = 1 .. Len(code)
      /\ MovedCode(p, n)
  BY NowFacts DEF Inserted, MovedCode
<1>2. Placed(p, n)
  BY <1>1, Places
<1>3. CASE i = p
  <2>1. Moved(p, n, i) = p /\ p + 1 - 1 = p /\ 1 \in 1 .. n
    BY <1>1, <1>3 DEF Moved
  <2>2. code'[p + 1 - 1].id = named + 1
    BY <1>1, <2>1 DEF MovedCode, Inserted
  <2> QED BY <1>1, <1>2, <1>3, <2>1, <2>2 DEF Renamed, Placed
<1>4. CASE i # p
  <2>1. code'[Moved(p, n, i)].id = code[i].id
    BY <1>1, <1>4 DEF MovedCode
  <2>2. code[i].id # code[p].id
    BY <1>1, <1>4 DEF Named
  <2> QED BY <1>1, <1>2, <2>1, <2>2 DEF Renamed, Placed
<1> QED BY <1>3, <1>4

\* What is seen of branches, functions and lines once instruction x has become n others.
ViewMoved(x, n) ==
  /\ x \notin DOMAIN Goes
  /\ Goes' = [y \in DOMAIN Goes |-> Renamed(x, Goes[y])]
  /\ Enters' = [f \in DOMAIN Enters |-> Renamed(x, Enters[f])]
  /\ Lines' = [y \in (DOMAIN Lines \ {x}) \cup (named + 1 .. named + n) |->
                 Lines[IF y \in named + 1 .. named + n THEN x ELSE y]]

\* Branches, functions and lines follow the instructions to where they have moved.
LEMMA ViewMoves ==
  ASSUME WellFormed(Now), Named, Named', NEW p, NEW n, Inserted(p, n), NEW x, x = code[p].id
  PROVE  ViewMoved(x, n)
<1>1. /\ Len(code) \in Nat /\ p \in 1 .. Len(code) /\ n \in Nat \ {0} /\ DOMAIN code = 1 .. Len(code)
      /\ MovedCode(p, n) /\ MovedEntries(p, n) /\ named \in Nat /\ View /\ View'
      /\ code[p].op \notin {"b", "try"}
  BY NowFacts, ViewFacts, ViewNext DEF Inserted, MovedCode, Named
<1>2. Placed(p, n)
  BY <1>1, Places
<1>3. ASSUME NEW i \in DOMAIN code, i # p
      PROVE  code[i].id # x /\ code[i].id \in 1 .. named
  BY <1>1, <1>3 DEF Named
<1>4. ASSUME NEW k \in 1 .. n
      PROVE  /\ p + k - 1 \in DOMAIN code' /\ code'[p + k - 1].id = named + k
             /\ code'[p + k - 1].op \notin {"b", "try"}
  BY <1>1, <1>2 DEF MovedCode, Inserted, Placed
<1>5. \A i \in Branches : i \in DOMAIN code /\ i # p
  BY <1>1 DEF Branches
<1>6. \A m \in Branches' : \E i \in Branches : m = Moved(p, n, i)
  <2>1. SUFFICES ASSUME NEW m \in Branches'
                 PROVE  \E i \in Branches : m = Moved(p, n, i)
    OBVIOUS
  <2>2. m \in DOMAIN code' /\ code'[m].op \in {"b", "try"}
    BY DEF Branches
  <2>3. PICK i \in 1 .. Len(code) : i # p /\ m = Moved(p, n, i)
    BY <1>2, <1>4, <2>2 DEF Placed
  <2>4. i \in Branches
    BY <2>1, <2>3, GoesMove
  <2> QED BY <2>3, <2>4
<1>7. x \notin DOMAIN Goes
  <2>1. \A i \in Branches : code[i].id # x
    BY <1>3, <1>5
  <2> QED BY <1>1, <2>1 DEF View, NamesOf
<1>8. Goes' = [y \in DOMAIN Goes |-> Renamed(x, Goes[y])]
  <2>1. ASSUME NEW i \in Branches
        PROVE  /\ Moved(p, n, i) \in Branches' /\ code'[Moved(p, n, i)].id = code[i].id
               /\ Goes'[code[i].id] = Renamed(x, Goes[code[i].id])
    <3>1. i \in 1 .. Len(code) /\ i # p
      BY <1>1, <1>5
    <3>2. /\ Moved(p, n, i) \in Branches' /\ code'[Moved(p, n, i)].id = code[i].id
          /\ TargetOf(i) \in DOMAIN code /\ TargetOf(Moved(p, n, i))' = Moved(p, n, TargetOf(i))
      BY <3>1, GoesMove
    <3>3. PICK m : m = Moved(p, n, i)
      OBVIOUS
    <3>4. PICK t \in DOMAIN code : t = TargetOf(i)
      BY <3>2
    <3>5. TargetOf(m)' = Moved(p, n, t)
      BY <3>2, <3>3, <3>4
    <3>6. Goes'[code'[m].id] = code'[TargetOf(m)'].id /\ Goes[code[i].id] = code[t].id
      BY <1>1, <3>2, <3>3, <3>4 DEF View
    <3>7. code'[Moved(p, n, t)].id = Renamed(x, code[t].id)
      BY <3>4, NameMoves
    <3> QED BY <3>2, <3>3, <3>5, <3>6, <3>7
  <2>2. NamesOf(Branches)' = NamesOf(Branches)
    <3>1. \A y \in NamesOf(Branches) : y \in NamesOf(Branches)'
      BY <2>1 DEF NamesOf
    <3>2. \A y \in NamesOf(Branches)' : y \in NamesOf(Branches)
      <4>1. SUFFICES ASSUME NEW m \in Branches' PROVE code'[m].id \in NamesOf(Branches)
        BY DEF NamesOf
      <4>2. PICK i \in Branches : m = Moved(p, n, i)
        BY <1>6
      <4>3. code'[m].id = code[i].id
        BY <2>1, <4>2
      <4> QED BY <4>3 DEF NamesOf
    <3> QED BY <3>1, <3>2
  <2>3. DOMAIN Goes = NamesOf(Branches) /\ DOMAIN Goes' = NamesOf(Branches)
    BY <1>1, <2>2 DEF View
  <2>4. Goes' = [y \in DOMAIN Goes' |-> Goes'[y]]
    BY DEF Goes
  <2>5. \A y \in NamesOf(Branches) : Goes'[y] = Renamed(x, Goes[y])
    BY <2>1 DEF NamesOf
  <2> QED BY <2>3, <2>4, <2>5
<1>9. Enters' = [f \in DOMAIN Enters |-> Renamed(x, Enters[f])]
  <2>1. ASSUME NEW f \in DOMAIN entry
        PROVE  code'[entry'[f]].id = Renamed(x, code[entry[f]].id)
    <3>1. PICK t \in DOMAIN code : t = entry[f]
      BY NowFacts
    <3>2. entry'[f] = Moved(p, n, t)
      BY <1>1, <3>1 DEF MovedEntries
    <3> QED BY <3>1, <3>2, NameMoves
  <2>2. DOMAIN entry' = DOMAIN entry
    BY <1>1 DEF MovedEntries
  <2> QED BY <2>1, <2>2 DEF Enters
<1> DEFINE Added == named + 1 .. named + n
           Rest == DOMAIN Lines \ {x}
<1>10. DOMAIN Lines = NamesOf(DOMAIN code) /\ DOMAIN Lines' = NamesOf(DOMAIN code)'
  BY <1>1 DEF View
<1>11. \A y \in Added : \E k \in 1 .. n : y = named + k
  <2>1. ASSUME NEW y \in Added PROVE y - named \in 1 .. n /\ y = named + (y - named)
    BY <1>1
  <2> QED BY <2>1
<1>12. ASSUME NEW y \in Added
       PROVE  y \in DOMAIN Lines' /\ Lines'[y] = Lines[x]
  <2>1. PICK k \in 1 .. n : y = named + k
    BY <1>11
  <2>2. p + k - 1 \in DOMAIN code' /\ y = code'[p + k - 1].id
    BY <1>4, <2>1
  <2>3. y \in DOMAIN Lines' /\ Lines'[y] = LineAt(notes', p + k - 1)
    BY <1>1, <1>10, <2>2 DEF View, NamesOf
  <2>4. Lines[x] = LineAt(notes, p)
    BY <1>1 DEF View
  <2> QED BY <2>3, <2>4, LinesMove
<1>13. ASSUME NEW y \in Rest
       PROVE  y \in DOMAIN Lines' /\ Lines'[y] = Lines[y] /\ y \notin Added
  <2>1. PICK i \in DOMAIN code : y = code[i].id /\ i # p
    BY <1>10 DEF NamesOf
  <2>2. PICK m : m = Moved(p, n, i)
    OBVIOUS
  <2>3. m \in DOMAIN code' /\ code'[m].id = y
    BY <1>1, <1>2, <2>1, <2>2 DEF MovedCode, Placed
  <2>4. y \in DOMAIN Lines' /\ Lines'[y] = LineAt(notes', m)
    BY <1>1, <1>10, <2>3 DEF View, NamesOf
  <2>5. Lines[y] = LineAt(notes, i)
    BY <1>1, <2>1 DEF View
  <2>6. y \notin Added
    BY <1>1, <1>3, <2>1
  <2> QED BY <1>1, <2>1, <2>2, <2>4, <2>5, <2>6, LinesMove
<1>14. ASSUME NEW y \in DOMAIN Lines'
       PROVE  y \in Rest \cup Added
  <2>1. PICK m \in DOMAIN code' : y = code'[m].id
    BY <1>10 DEF NamesOf
  <2>2. CASE \E k \in 1 .. n : m = p + k - 1
    <3>1. PICK k \in 1 .. n : m = p + k - 1
      BY <2>2
    <3>2. y = named + k
      BY <1>4, <2>1, <3>1
    <3> QED BY <1>1, <3>2
  <2>3. CASE \E i \in 1 .. Len(code) : i # p /\ m = Moved(p, n, i)
    <3>1. PICK i \in 1 .. Len(code) : i # p /\ m = Moved(p, n, i)
      BY <2>3
    <3>2. y = code[i].id
      BY <1>1, <2>1, <3>1 DEF MovedCode
    <3> QED BY <1>1, <1>3, <1>10, <3>1, <3>2 DEF NamesOf
  <2> QED BY <1>2, <2>2, <2>3 DEF Placed
<1>15. Lines' = [y \in Rest \cup Added |-> Lines[IF y \in Added THEN x ELSE y]]
  <2>1. Lines' = [y \in DOMAIN Lines' |-> Lines'[y]]
    BY DEF Lines
  <2>2. DOMAIN Lines' = Rest \cup Added
    BY <1>12, <1>13, <1>14
  <2> HIDE DEF Rest, Added
  <2>3. ASSUME NEW y \in Rest \cup Added
        PROVE  Lines'[y] = Lines[IF y \in Added THEN x ELSE y]
    BY <1>12, <1>13
  <2> QED BY <2>1, <2>2, <2>3
<1> QED BY <1>7, <1>8, <1>9, <1>15 DEF ViewMoved

\* Processing an insertion point is one step of Editing.
LEMMA ProcessEdits ==
  ASSUME JInv, JInv', ProcessInsertions
  PROVE  E!Edit
<1>1. PICK p \in 1 .. Len(code), n \in Nat : Inserted(p, n) /\ p \in Extent(blk[cur]) /\ cur \in DOMAIN blk
  BY ProcessInserts
<1>2. WellFormed(Now) /\ Named /\ Named' /\ named \in Nat
  BY DEF JInv, Named
<1>3. n \in Nat \ {0} /\ named' = named + n /\ named' - named = n
  BY <1>1, <1>2 DEF Inserted, MovedCode
<1>4. PICK c \in DOMAIN blk : c = cur
  BY <1>1
<1>5. PICK x, t, i : x = code[p].id /\ t = [k \in 1 .. n |-> named + k] /\ i = p - blk[c].start + 1
  OBVIOUS
<1>6. /\ i \in DOMAIN Text[c] /\ Text[c][i] = x
      /\ Text' = [Text EXCEPT ![c] = E!Splice(@, i, t)]
  BY <1>1, <1>2, <1>4, <1>5, TextMoves
<1>7. ViewMoved(x, n)
  BY <1>1, <1>2, <1>5, ViewMoves
<1>8. c \in DOMAIN Text
  BY DEF Text
<1>9. E!Become(E!Program, E!Program', c, i, n)
  BY <1>3, <1>5, <1>6, <1>7 DEF E!Become, E!Program, ViewMoved, Renamed
<1>10. E!Program.named = named /\ (E!Program').named = named' /\ E!Program.text = Text
  BY DEF E!Program
<1> QED BY <1>3, <1>6, <1>8, <1>9, <1>10 DEF E!Edit

-----------------------------------------------------------------------------
(***************************************************************************)
(* The steps.                                                              *)
(***************************************************************************)
\* The next block is one that can be reached, when there is one.
LEMMA NextLiveFacts ==
  ASSUME live \subseteq Nat, NEW k
  PROVE  /\ NextLive(k) \in live \cup {0}
         /\ (\E j \in live : j > k) => NextLive(k) \in live
<1> DEFINE rest == {j \in live : j > k}
<1>1. CASE rest = {}
  BY <1>1 DEF NextLive
<1>2. CASE rest # {}
  <2>1. PICK j \in rest : \A h \in rest : j <= h
    <3>1. rest \in SUBSET Nat
      OBVIOUS
    <3> HIDE DEF rest
    <3> QED BY <1>2, <3>1, LeastNumber
  <2>2. NextLive(k) = CHOOSE i \in rest : \A h \in rest : i <= h
    BY <1>2 DEF NextLive
  <2>3. NextLive(k) \in rest
    <3> HIDE DEF rest
    <3> QED BY <2>1, <2>2
  <2> QED BY <2>3
<1> QED BY <1>1, <1>2

\* The invariant holds at first,
LEMMA StartsRight ==
  ASSUME InsertionsAssumption, AInit
  PROVE  JInv
<1>1. PICK p \in Programs :
        /\ code = p.code /\ blk = p.blk /\ entry = p.entry /\ notes = p.notes /\ live = p.live
        /\ named = Len(p.code)
  BY DEF AInit, Init
<1>2. /\ WellFormed(p) /\ RestartLimit \in Nat
      /\ \A i \in DOMAIN p.code : p.code[i].id = i /\ ~IsInsertion(p.code[i])
      /\ p.live # {} /\ p.live \subseteq DOMAIN p.blk
  BY DEF InsertionsAssumption
<1>3. WellFormed(Now)
  <2>1. /\ code \in Seq([id : Nat, op : Operations, arg : Int])
        /\ blk \in Seq([start : Nat \ {0}, end : Nat, ostart : Nat, func : DOMAIN entry])
        /\ \A k \in DOMAIN blk : blk[k].start <= blk[k].end /\ blk[k].end <= Len(code)
        /\ \A k, l \in DOMAIN blk : k < l => blk[k].end < blk[l].start
    BY <1>1, <1>2 DEF WellFormed
  <2>2. /\ \A i \in DOMAIN code :
             /\ code[i].op = "b"   => i + 1 + code[i].arg \in DOMAIN code
             /\ code[i].op = "try" => \E k \in DOMAIN blk : blk[k].ostart = code[i].arg
        /\ \A f \in DOMAIN entry :
             /\ entry[f] \in DOMAIN code
             /\ \A k \in DOMAIN blk : entry[f] \in Extent(blk[k]) => entry[f] = blk[k].start
    BY <1>1, <1>2 DEF WellFormed
  <2>3. /\ notes \in Seq([type : {"element", "scope"}, what : {notes[j].what : j \in DOMAIN notes}, n : Nat])
        /\ \A j \in DOMAIN notes : notes[j].type = "scope" => notes[j].n = 0
        /\ SumN(notes, Len(notes)) = Len(code)
    BY <1>1, <1>2 DEF WellFormed
  <2> QED BY ONLY <2>1, <2>2, <2>3 DEF WellFormed, Now
<1>4. Len(code) \in Nat /\ DOMAIN code = 1 .. Len(code)
  BY <1>3, NowFacts
<1>5. Named
  BY <1>1, <1>2, <1>4 DEF Named
<1>6. OnePoint
  BY <1>1, <1>2 DEF OnePoint
<1>7. DOMAIN blk \subseteq Nat \ {0}
  <2>1. blk \in Seq([start : Nat \ {0}, end : Nat, ostart : Nat, func : DOMAIN entry])
    BY <1>3 DEF WellFormed, Now
  <2> QED BY <2>1
<1>8. cur = NextLive(0) /\ restarts = 0 /\ joined = DOMAIN blk /\ status = "working"
  BY DEF AInit, Init
<1>9. cur \in live
  <2>1. live \subseteq Nat /\ \E j \in live : j > 0
    BY <1>1, <1>2, <1>7
  <2> QED BY <1>8, <2>1, NextLiveFacts
<1>10. Turn
  BY <1>1, <1>2, <1>8, <1>9 DEF Turn
<1> QED BY <1>3, <1>5, <1>6, <1>10 DEF JInv

\* is kept when a block is finished,
LEMMA FinishKeeps ==
  ASSUME InsertionsAssumption, JInv, FinishBlock
  PROVE  JInv'
<1>1. WellFormed(Now) /\ Named /\ OnePoint /\ Turn /\ status = "working" /\ Points = {}
  BY DEF JInv, FinishBlock, Scanning
<1>2. UNCHANGED <<code, blk, entry, notes, live, joined, named>> /\ cur' = NextLive(cur)
      /\ restarts' = 0 /\ (status' = "working" => cur' # 0)
  BY DEF FinishBlock
<1>3. WellFormed(Now)' /\ Named'
  <2>1. Now' = Now
    BY <1>2 DEF Now
  <2>2. Named'
    BY <1>1, <1>2 DEF Named
  <2> QED BY <1>1, <2>1, <2>2
<1>4. \A i \in DOMAIN code : ~IsInsertion(code[i])
  BY <1>1 DEF OnePoint, Waiting, OnlyPoint, Points
<1>5. OnePoint'
  BY <1>2, <1>4 DEF OnePoint, IsInsertion
<1>6. Turn'
  <2>1. blk \in Seq([start : Nat \ {0}, end : Nat, ostart : Nat, func : DOMAIN entry])
    BY <1>1 DEF WellFormed, Now
  <2>2. live \subseteq Nat
    BY <1>1, <2>1 DEF Turn
  <2>3. cur' \in live \cup {0}
    BY <1>2, <2>2, NextLiveFacts
  <2> QED BY <1>1, <1>2, <2>3 DEF Turn, InsertionsAssumption
<1> QED BY <1>3, <1>5, <1>6 DEF JInv

\* when nothing happens,
LEMMA IdleKeeps ==
  ASSUME JInv, UNCHANGED ivars
  PROVE  JInv'
<1>1. UNCHANGED <<code, blk, entry, notes, live, buffer, cur, restarts, joined, named, status>>
  BY DEF ivars
<1>2. WellFormed(Now)'
  <2>1. Now' = Now
    BY <1>1 DEF Now
  <2> QED BY <2>1 DEF JInv
<1>3. Named' /\ Turn'
  BY <1>1 DEF JInv, Named, Turn
<1>4. OnePoint'
  BY <1>1 DEF JInv, OnePoint, Waiting, OnlyPoint
<1> QED BY <1>2, <1>3, <1>4 DEF JInv

\* and by every step.
LEMMA StepKeeps ==
  ASSUME InsertionsAssumption, JInv, [ANext]_avars
  PROVE  JInv'
<1>1. CASE Inline \/ ResolveMethod
  BY <1>1, LeavesPoint, PointKeeps
<1>2. CASE ProcessInsertions
  BY <1>2, ProcessKeeps
<1>3. CASE FinishBlock
  BY <1>3, FinishKeeps
<1>4. CASE UNCHANGED ivars
  BY <1>4, IdleKeeps
<1> QED BY <1>1, <1>2, <1>3, <1>4 DEF ANext, Next, LayOut, avars

\* What Editing sees is unchanged, or edited.
LEMMA StepEdits ==
  ASSUME InsertionsAssumption, JInv, JInv', [ANext]_avars
  PROVE  [E!Edit]_(E!evars)
<1>1. CASE Inline \/ ResolveMethod
  <2>1. PICK i \in DOMAIN code : \E ops, op : Pointed(i, ops, op)
    BY <1>1, LeavesPoint
  <2>2. Pointing(i)
    BY <2>1, PointingFacts DEF JInv
  <2>3. Seen' = Seen
    BY <2>2, PointUnseen DEF JInv
  <2> QED BY <2>3 DEF Seen, E!evars
<1>2. CASE ProcessInsertions
  BY <1>2, ProcessEdits
<1>3. CASE UNCHANGED <<code, blk, entry, notes, named>>
  <2>1. Seen' = Seen
    BY <1>3 DEF Seen, Text, Goes, Enters, Lines, NamesOf, Branches, TargetOf, PlaceOf, LineAt, Covers, SumN
  <2> QED BY <2>1 DEF Seen, E!evars
<1> QED BY <1>1, <1>2, <1>3 DEF ANext, Next, FinishBlock, LayOut, avars, ivars

\* The type invariant is part of it.
LEMMA TypeFollows ==
  ASSUME InsertionsAssumption, JInv
  PROVE  TypeOK
<1>1. WellFormed(Now) /\ Named /\ Turn
  BY DEF JInv
<1>2. \A i \in DOMAIN code : code[i].id \in 1 .. named + Len(buffer)
  <2>1. Len(buffer) \in Nat
    BY DEF JInv
  <2> QED BY <1>1, <2>1 DEF Named
<1>3. \A k \in DOMAIN blk : Extent(blk[k]) \subseteq DOMAIN code
  BY <1>1, NowFacts DEF Extent
<1>4. (\A f \in DOMAIN entry : entry[f] \in DOMAIN code) /\ SumN(notes, Len(notes)) = Len(code)
  BY <1>1, NowFacts
<1> QED BY <1>1, <1>2, <1>3, <1>4 DEF TypeOK, Turn

\* A program stays well formed however often code is inserted: its blocks do not meet,
\* branches, handlers and functions stay within the code, notes count all of it, names are
\* not given twice, and there is one insertion point at most, in the block being
\* optimized (optimize_block, optimize_processinsertions).
THEOREM StaysRight == ASpec => []JInv
<1>1. AInit => JInv
  BY InsertionsAssumption, StartsRight
<1>2. JInv /\ [ANext]_avars => JInv'
  BY InsertionsAssumption, StepKeeps
<1> QED BY <1>1, <1>2, PTL DEF ASpec

\* Blocks and functions keep to the code, and notes count all instructions.
THEOREM TypeCorrect == ASpec => []TypeOK
<1>1. JInv => TypeOK
  BY InsertionsAssumption, TypeFollows
<1> QED BY <1>1, StaysRight, PTL

\* Inserting code implements Editing: shifting blocks and functions, retargeting branches
\* and fixing annotations (optimize.c, _shiftblockindices, _shiftfunctionentries,
\* _retargetbranchesafterinsertion, _fixannotation) together do no more to a program
\* than let one instruction become several.
THEOREM EditsRight == ASpec => EditsOnly
<1>1. JInv /\ JInv' /\ [ANext]_avars => [E!Edit]_(E!evars)
  BY InsertionsAssumption, StepEdits
<1> QED BY <1>1, StaysRight, PTL DEF ASpec, EditsOnly, E!ESpec

-----------------------------------------------------------------------------
(***************************************************************************)
(* Notes that are added to.                                                *)
(***************************************************************************)
\* Notes t begin with notes s.
Begins(s, t) ==
  /\ Len(s) \in Nat /\ Len(t) \in Nat /\ Len(s) <= Len(t) /\ Counts(t)
  /\ DOMAIN s = 1 .. Len(s) /\ DOMAIN t = 1 .. Len(t)
  /\ \A j \in 1 .. Len(s) : t[j] = s[j]

\* The counts of the first notes are what they were.
LEMMA SumsBegin ==
  ASSUME NEW s, NEW t, Begins(s, t)
  PROVE  Counts(s) /\ \A j \in 0 .. Len(s) : SumN(t, j) = SumN(s, j)
<1> DEFINE S == {j \in 0 .. Len(s) : SumN(t, j) = SumN(s, j)}
<1>1. Counts(s) /\ Counts(t) /\ Len(s) \in Nat /\ Len(t) \in Nat /\ Len(s) <= Len(t)
  BY DEF Begins, Counts
<1>2. 0 \in S
  BY <1>1, SumFacts
<1>3. ASSUME NEW j \in 1 .. Len(s), j - 1 \in S
      PROVE  j \in S
  <2>1. j \in 1 .. Len(t) /\ t[j] = s[j] /\ SumN(t, j - 1) = SumN(s, j - 1)
    BY <1>1, <1>3 DEF Begins
  <2>2. SumN(s, j) = SumN(s, j - 1) + s[j].n
    BY <1>1, SumFacts
  <2>3. SumN(t, j) = SumN(t, j - 1) + t[j].n
    BY <1>1, <2>1, SumFacts
  <2> QED BY <2>1, <2>2, <2>3
<1>4. S \in SUBSET (0 .. Len(s))
  OBVIOUS
<1> HIDE DEF S
<1>5. 0 .. Len(s) \subseteq S
  BY <1>1, <1>2, <1>3, <1>4, Upward
<1> QED BY <1>1, <1>5 DEF S

\* The line of a place is that of the note that covers it,
LEMMA LineOf ==
  ASSUME NEW s, Len(s) \in Nat, DOMAIN s = 1 .. Len(s), Counts(s),
         NEW i \in Nat \ {0}, NEW j \in 1 .. Len(s), Covers(s, j, i)
  PROVE  LineAt(s, i) = s[j].what
<1>1. SumN(s, j) \in Nat /\ SumN(s, Len(s)) \in Nat /\ SumN(s, j) <= SumN(s, Len(s))
  BY SumFacts, SumsGrow
<1>2. i \in 1 .. SumN(s, Len(s))
  BY <1>1 DEF Covers
<1>3. \A k \in 1 .. Len(s) : Covers(s, k, i) => k = j
  BY <1>2, OneCovers
<1> QED BY <1>3 DEF LineAt

\* and stays so when more notes follow.
LEMMA LinesBegin ==
  ASSUME NEW s, NEW t, Begins(s, t), NEW i \in 1 .. SumN(s, Len(s))
  PROVE  LineAt(t, i) = LineAt(s, i)
<1>1. /\ Counts(s) /\ Counts(t) /\ Len(s) \in Nat /\ Len(t) \in Nat /\ Len(s) <= Len(t)
      /\ DOMAIN s = 1 .. Len(s) /\ DOMAIN t = 1 .. Len(t)
      /\ \A j \in 0 .. Len(s) : SumN(t, j) = SumN(s, j)
  BY SumsBegin DEF Begins
<1>2. PICK j \in 1 .. Len(s) : Covers(s, j, i)
  BY <1>1, OneCovers
<1>3. j \in 0 .. Len(s) /\ j - 1 \in 0 .. Len(s) /\ j \in 1 .. Len(t)
  BY <1>1
<1>4. Covers(t, j, i)
  BY <1>1, <1>2, <1>3 DEF Covers
<1>5. i \in Nat \ {0}
  BY <1>1, SumFacts
<1>6. LineAt(t, i) = t[j].what
  BY <1>1, <1>3, <1>4, <1>5, LineOf
<1>7. LineAt(s, i) = s[j].what
  BY <1>1, <1>2, <1>5, LineOf
<1> QED BY <1>6, <1>7 DEF Begins

\* The scope of place p, of those in J, is that of w.
InScope(s, J, p, w) ==
  \/ w = NoNote /\ \A j \in J : ~(SumN(s, j) < p)
  \/ \E j \in J : SumN(s, j) < p /\ s[j].what = w /\ \A h \in J : SumN(s, h) < p => h <= j

LEMMA ScopeIs ==
  ASSUME NEW s, NEW J \in SUBSET Int, NEW p, NEW w, InScope(s, J, p, w)
  PROVE  ScopeAt(s, J, p) = w
<1> DEFINE before == {j \in J : SumN(s, j) < p}
<1>1. CASE before = {}
  BY <1>1 DEF InScope, ScopeAt
<1>2. CASE before # {}
  <2>1. PICK j \in J : SumN(s, j) < p /\ s[j].what = w /\ \A h \in J : SumN(s, h) < p => h <= j
    BY <1>2 DEF InScope
  <2>2. \A k \in before : (\A h \in before : h <= k) => k = j
    BY <2>1
  <2>3. (CHOOSE k \in before : \A h \in before : h <= k) = j
    <3>1. j \in before /\ \A h \in before : h <= j
      BY <2>1
    <3> HIDE DEF before
    <3> QED BY <2>2, <3>1
  <2> QED BY <1>2, <2>1, <2>3 DEF ScopeAt
<1> QED BY <1>1, <1>2

\* Scopes that follow are not those of the places before.
LEMMA ScopesBegin ==
  ASSUME NEW s, NEW t, Begins(s, t), NEW p \in Int, p <= SumN(s, Len(s)), NEW w, InScope(s, Scopes(s), p, w)
  PROVE  InScope(t, Scopes(t), p, w)
<1>1. /\ Counts(s) /\ Counts(t) /\ Len(s) \in Nat /\ Len(t) \in Nat /\ Len(s) <= Len(t)
      /\ DOMAIN s = 1 .. Len(s) /\ DOMAIN t = 1 .. Len(t)
      /\ \A j \in 0 .. Len(s) : SumN(t, j) = SumN(s, j)
  BY SumsBegin DEF Begins
<1>2. \A j \in Scopes(s) : j \in Scopes(t) /\ t[j].what = s[j].what /\ SumN(t, j) = SumN(s, j)
  BY <1>1 DEF Scopes, Begins
<1>3. ASSUME NEW j \in Scopes(t), SumN(t, j) < p
      PROVE  j \in Scopes(s)
  <2>1. j \in 1 .. Len(t)
    BY <1>1 DEF Scopes
  <2>2. CASE j <= Len(s)
    BY <1>1, <2>1, <2>2 DEF Scopes, Begins
  <2>3. CASE Len(s) <= j
    <3>1. Len(s) \in 0 .. Len(t) /\ j \in 0 .. Len(t) /\ Len(s) \in 0 .. Len(s)
      BY <1>1, <2>1
    <3>2. SumN(t, Len(s)) <= SumN(t, j) /\ SumN(t, j) \in Nat /\ SumN(t, Len(s)) = SumN(s, Len(s))
      BY <1>1, <2>3, <3>1, SumsGrow, SumFacts
    <3>3. SumN(s, Len(s)) \in Nat
      BY <1>1, SumFacts
    <3> QED BY <1>3, <3>2, <3>3
  <2> QED BY <1>1, <2>1, <2>2, <2>3
<1> QED BY <1>2, <1>3 DEF InScope

\* A note that is no scope does not change the scope of any place.
LEMMA ElementAdds ==
  ASSUME NEW s, NEW t, Begins(s, t), Len(t) = Len(s) + 1, t[Len(t)].type # "scope",
         NEW p, NEW w, InScope(s, Scopes(s), p, w)
  PROVE  InScope(t, Scopes(t), p, w)
<1>1. /\ Counts(s) /\ Counts(t) /\ Len(s) \in Nat /\ Len(t) \in Nat /\ Len(s) <= Len(t)
      /\ DOMAIN s = 1 .. Len(s) /\ DOMAIN t = 1 .. Len(t)
      /\ \A j \in 0 .. Len(s) : SumN(t, j) = SumN(s, j)
  BY SumsBegin DEF Begins
<1>2. Scopes(t) = Scopes(s)
  BY <1>1 DEF Scopes, Begins
<1>3. \A j \in Scopes(s) : t[j].what = s[j].what /\ SumN(t, j) = SumN(s, j)
  BY <1>1 DEF Scopes, Begins
<1> QED BY <1>2, <1>3 DEF InScope

-----------------------------------------------------------------------------
(***************************************************************************)
(* The scan.                                                               *)
(***************************************************************************)
Note == [type : {"element", "scope"}, what : {notes[j].what : j \in DOMAIN notes}, n : Nat]

ScanState == [current : 0 .. Len(notes), count : Nat, latest : 0 .. Len(notes), copied : BOOLEAN,
              waiting : Seq(Note), out : Seq(Note)]

\* Sequences of notes count.
LEMMA NotesCount ==
  ASSUME NEW s \in Seq(Note)
  PROVE  Len(s) \in Nat /\ DOMAIN s = 1 .. Len(s) /\ Counts(s) /\ \A j \in 1 .. Len(s) : s[j] \in Note
<1>1. \A x \in Note : x.n \in Nat
  <2> DEFINE W == {notes[j].what : j \in DOMAIN notes}
  <2>1. Note = [type : {"element", "scope"}, what : W, n : Nat]
    BY DEF Note
  <2> HIDE DEF W
  <2> QED BY <2>1
<1>2. \A j \in 1 .. Len(s) : s[j] \in Note
  BY ElementOfSeq
<1> QED BY <1>1, <1>2, LenProperties DEF Counts

\* The note of a line, with another count.
LEMMA Recounted ==
  ASSUME WellFormed(Now), NEW j \in DOMAIN notes, NEW m \in Nat
  PROVE  LET e == [notes[j] EXCEPT !.n = m] IN
         e \in Note /\ e.n = m /\ e.what = notes[j].what /\ e.type = notes[j].type
<1> DEFINE W == {notes[k].what : k \in DOMAIN notes}
<1>1. Note = [type : {"element", "scope"}, what : W, n : Nat]
  BY DEF Note
<1>2. notes[j] \in Note
  <2>1. notes \in Seq(Note)
    BY DEF WellFormed, Now, Note
  <2>2. j \in 1 .. Len(notes)
    BY NowFacts
  <2> QED BY <2>1, <2>2, ElementOfSeq
<1> HIDE DEF W
<1> QED BY <1>1, <1>2

\* What one more note changes.
LEMMA NoteAdds ==
  ASSUME NEW s \in Seq(Note), NEW e \in Note
  PROVE  LET t == Append(s, e) IN
         /\ t \in Seq(Note) /\ Begins(s, t) /\ Len(t) = Len(s) + 1 /\ t[Len(t)] = e
         /\ SumN(t, Len(t)) = SumN(s, Len(s)) + e.n
         /\ \A p \in Nat : SumN(s, Len(s)) < p /\ p <= SumN(s, Len(s)) + e.n => LineAt(t, p) = e.what
<1>1. PICK t \in Seq(Note) : t = Append(s, e)
  BY AppendProperties
<1>2. /\ Len(s) \in Nat /\ DOMAIN s = 1 .. Len(s) /\ Counts(s)
      /\ Len(t) \in Nat /\ DOMAIN t = 1 .. Len(t) /\ Counts(t)
  BY NotesCount
<1>3. Len(t) = Len(s) + 1 /\ t[Len(t)] = e /\ \A j \in 1 .. Len(s) : t[j] = s[j]
  BY <1>1, <1>2, AppendProperties
<1>4. Begins(s, t)
  BY <1>2, <1>3 DEF Begins
<1>5. /\ SumN(t, Len(t)) = SumN(t, Len(t) - 1) + e.n /\ SumN(t, Len(t) - 1) = SumN(s, Len(s))
      /\ Len(t) \in 1 .. Len(t)
  <2>1. Len(t) \in 1 .. Len(t) /\ Len(t) - 1 = Len(s) /\ Len(s) \in 0 .. Len(s)
    BY <1>2, <1>3
  <2>2. SumN(t, Len(s)) = SumN(s, Len(s))
    BY <1>4, <2>1, SumsBegin
  <2> QED BY <1>2, <1>3, <2>1, <2>2, SumFacts
<1>6. ASSUME NEW p \in Nat, SumN(s, Len(s)) < p, p <= SumN(s, Len(s)) + e.n
      PROVE  LineAt(t, p) = e.what
  <2>1. Covers(t, Len(t), p)
    BY <1>5, <1>6 DEF Covers
  <2>2. SumN(s, Len(s)) \in Nat
    <3>1. Len(s) \in 0 .. Len(s)
      BY <1>2
    <3> QED BY <1>2, <3>1, SumFacts
  <2>3. p \in Nat \ {0}
    BY <1>6, <2>2
  <2> QED BY <1>2, <1>3, <1>5, <2>1, <2>3, LineOf
<1> QED BY <1>1, <1>3, <1>4, <1>5, <1>6

\* Scopes, which count nothing.
AllScopes(w) == \A j \in 1 .. Len(w) : w[j].type = "scope" /\ w[j].n = 0

\* What scopes that follow change.
LEMMA ScopesAdd ==
  ASSUME NEW s \in Seq(Note), NEW w \in Seq(Note), AllScopes(w)
  PROVE  s \o w \in Seq(Note) /\ Begins(s, s \o w) /\ SumN(s \o w, Len(s \o w)) = SumN(s, Len(s))
<1>1. PICK t \in Seq(Note) : t = s \o w
  BY ConcatProperties
<1>2. /\ Len(s) \in Nat /\ DOMAIN s = 1 .. Len(s) /\ Counts(s) /\ Len(w) \in Nat
      /\ Len(t) \in Nat /\ DOMAIN t = 1 .. Len(t) /\ Counts(t)
  BY NotesCount
<1>3. /\ Len(t) = Len(s) + Len(w)
      /\ \A j \in 1 .. Len(s) + Len(w) : t[j] = IF j <= Len(s) THEN s[j] ELSE w[j - Len(s)]
  BY <1>1, ConcatProperties
<1>4. Begins(s, t)
  BY <1>2, <1>3 DEF Begins
<1> DEFINE S == {j \in 0 .. Len(w) : SumN(t, Len(s) + j) = SumN(s, Len(s))}
<1>5. 0 \in S
  <2>1. Len(s) \in 0 .. Len(s) /\ Len(s) + 0 = Len(s)
    BY <1>2
  <2> QED BY <1>2, <1>4, <2>1, SumsBegin
<1>6. ASSUME NEW j \in 1 .. Len(w), j - 1 \in S
      PROVE  j \in S
  <2>1. Len(s) + j \in 1 .. Len(t) /\ (Len(s) + j) - 1 = Len(s) + (j - 1) /\ t[Len(s) + j] = w[j]
    BY <1>2, <1>3
  <2>2. SumN(t, Len(s) + j) = SumN(t, Len(s) + (j - 1)) + w[j].n
    BY <1>2, <2>1, SumFacts
  <2>3. w[j].n = 0 /\ SumN(t, Len(s) + (j - 1)) = SumN(s, Len(s)) /\ SumN(s, Len(s)) \in Nat
    <3>1. Len(s) \in 0 .. Len(s)
      BY <1>2
    <3> QED BY <1>2, <1>6, <3>1, SumFacts DEF AllScopes
  <2> QED BY <2>2, <2>3
<1>7. S \in SUBSET (0 .. Len(w)) /\ Len(w) \in 0 .. Len(w)
  BY <1>2
<1> HIDE DEF S
<1>8. 0 .. Len(w) \subseteq S
  BY <1>2, <1>5, <1>6, <1>7, Upward
<1>9. SumN(t, Len(s) + Len(w)) = SumN(s, Len(s))
  BY <1>7, <1>8 DEF S
<1> QED BY <1>1, <1>3, <1>4, <1>9

\* The scopes of blocks that are copied.
Anchored == {j \in Scopes(notes) : \E k \in Emitted : SumN(notes, j) + 1 \in Extent(blk[k])}

\* Place p of the program laid out has the line and the scope of place i.
HasScope(o, p, i) == \E w : InScope(o, Scopes(o), p, w) /\ InScope(notes, Anchored, i, w)

Kept(o, F, p) == LineAt(o, p) = LineAt(notes, F[p]) /\ HasScope(o, p, F[p])

\* The scan has come to place i of the old program, and the places F were copied: the
\* notes written, the count and the scopes that wait give what they had.
Written(s, F, i) ==
  /\ s.waiting \in Seq(Note) /\ s.out \in Seq(Note) /\ s.count \in Nat /\ s.current \in 0 .. Len(notes)
  /\ AllScopes(s.waiting)
  /\ s.current = NoNote => s.count = 0
  /\ s.current # NoNote => notes[s.current].type # "scope"
  /\ SumN(s.out, Len(s.out)) + s.count = Len(F)
  /\ \A p \in 1 .. Len(F) : /\ p <= SumN(s.out, Len(s.out)) => LineAt(s.out, p) = LineAt(notes, F[p])
                            /\ SumN(s.out, Len(s.out)) < p => notes[s.current].what = LineAt(notes, F[p])
                            /\ HasScope(s.out, p, F[p])
  /\ s.waiting = <<>> => HasScope(s.out, Len(F) + 1, i)
  /\ s.waiting # <<>> => InScope(notes, Anchored, i, s.waiting[Len(s.waiting)].what)

\* All but the note of the latest instruction.
Same(s, t) == s.current = t.current /\ s.count = t.count /\ s.waiting = t.waiting /\ s.out = t.out

LEMMA SameWritten ==
  ASSUME NEW s, NEW t, NEW F, NEW i, Same(s, t), Written(s, F, i)
  PROVE  Written(t, F, i)
BY DEF Same, Written

\* The note counted is written.
LEMMA FlushFacts ==
  ASSUME NEW s \in ScanState
  PROVE  /\ Flush(s).current = s.current /\ Flush(s).latest = s.latest /\ Flush(s).copied = s.copied
         /\ Flush(s).waiting = s.waiting
         /\ s.current = NoNote \/ s.count = 0 => Flush(s).out = s.out /\ Flush(s).count = s.count
         /\ s.current # NoNote /\ s.count # 0 =>
              Flush(s).out = Append(s.out, [notes[s.current] EXCEPT !.n = s.count]) /\ Flush(s).count = 0
BY DEF Flush, ScanState

LEMMA StateTyped ==
  ASSUME NEW s \in ScanState
  PROVE  /\ \A c \in Nat, o \in Seq(Note) : [s EXCEPT !.count = c, !.out = o] \in ScanState
         /\ \A w, o \in Seq(Note) : [s EXCEPT !.waiting = w, !.out = o] \in ScanState
         /\ \A e \in 0 .. Len(notes), c \in Nat : [s EXCEPT !.current = e, !.count = c] \in ScanState
         /\ \A e \in 0 .. Len(notes), w \in Seq(Note) : [s EXCEPT !.latest = e, !.waiting = w] \in ScanState
         /\ \A e \in 0 .. Len(notes), b \in BOOLEAN : [s EXCEPT !.copied = b, !.latest = e] \in ScanState
         /\ [s EXCEPT !.copied = TRUE] \in ScanState
         /\ s.current \in 0 .. Len(notes) /\ s.count \in Nat /\ s.latest \in 0 .. Len(notes)
         /\ s.waiting \in Seq(Note) /\ s.out \in Seq(Note) /\ s.copied \in BOOLEAN
<1> DEFINE N == 0 .. Len(notes)
           Q == Seq(Note)
<1>1. ScanState = [current : N, count : Nat, latest : N, copied : BOOLEAN, waiting : Q, out : Q]
  BY DEF ScanState
<1> HIDE DEF N, Q
<1>2. /\ \A c \in Nat, o \in Q : [s EXCEPT !.count = c, !.out = o] \in ScanState
      /\ \A w, o \in Q : [s EXCEPT !.waiting = w, !.out = o] \in ScanState
      /\ \A e \in N, c \in Nat : [s EXCEPT !.current = e, !.count = c] \in ScanState
  BY <1>1
<1>3. /\ \A e \in N, w \in Q : [s EXCEPT !.latest = e, !.waiting = w] \in ScanState
      /\ \A e \in N, b \in BOOLEAN : [s EXCEPT !.copied = b, !.latest = e] \in ScanState
      /\ [s EXCEPT !.copied = TRUE] \in ScanState
  BY <1>1
<1>4. s.current \in N /\ s.count \in Nat /\ s.latest \in N /\ s.waiting \in Q /\ s.out \in Q /\ s.copied \in BOOLEAN
  BY <1>1
<1> QED BY <1>2, <1>3, <1>4 DEF N, Q

LEMMA FlushTyped ==
  ASSUME WellFormed(Now), NEW s \in ScanState
  PROVE  Flush(s) \in ScanState
<1>1. CASE s.current = NoNote \/ s.count = 0
  BY <1>1 DEF Flush
<1>2. CASE s.current # NoNote /\ s.count # 0
  <2>1. s.current \in DOMAIN notes /\ s.count \in Nat /\ s.out \in Seq(Note)
    BY <1>2, NowFacts DEF ScanState, NoNote
  <2>2. PICK e \in Note : e = [notes[s.current] EXCEPT !.n = s.count]
    BY <2>1, Recounted
  <2>3. PICK o \in Seq(Note) : o = Append(s.out, e)
    BY <2>1, AppendProperties
  <2>4. Flush(s) = [s EXCEPT !.count = 0, !.out = o]
    BY <1>2, <2>2, <2>3 DEF Flush
  <2>5. \A c \in Nat : [s EXCEPT !.count = c, !.out = o] \in ScanState
    BY StateTyped
  <2> QED BY <2>4, <2>5
<1> QED BY <1>1, <1>2

LEMMA FlushKeeps ==
  ASSUME WellFormed(Now), NEW s \in ScanState, NEW F, NEW i, Len(F) \in Nat, Written(s, F, i)
  PROVE  Written(Flush(s), F, i) /\ SumN(Flush(s).out, Len(Flush(s).out)) = Len(F) /\ Flush(s).count = 0
<1>1. PICK f \in ScanState : f = Flush(s)
  BY FlushTyped
<1>2. /\ f.current = s.current /\ f.waiting = s.waiting
      /\ s.current = NoNote \/ s.count = 0 => f.out = s.out /\ f.count = s.count
      /\ s.current # NoNote /\ s.count # 0 =>
           f.out = Append(s.out, [notes[s.current] EXCEPT !.n = s.count]) /\ f.count = 0
  BY <1>1, FlushFacts
<1>3. CASE s.current = NoNote \/ s.count = 0
  <2>1. Same(s, f) /\ s.count = 0 /\ f.out = s.out /\ f.count = 0
    BY <1>2, <1>3 DEF Same, Written
  <2>2. Written(f, F, i)
    BY <2>1, SameWritten
  <2>3. SumN(s.out, Len(s.out)) + 0 = Len(F) /\ SumN(s.out, Len(s.out)) \in Nat
    <3>1. s.out \in Seq(Note) /\ Len(s.out) \in 0 .. Len(s.out)
      BY NotesCount DEF Written
    <3> QED BY <2>1, <3>1, NotesCount, SumFacts DEF Written
  <2> QED BY <1>1, <2>1, <2>2, <2>3
<1>4. CASE s.current # NoNote /\ s.count # 0
  <2>1. /\ s.current \in DOMAIN notes /\ s.count \in Nat /\ s.out \in Seq(Note) /\ s.waiting \in Seq(Note)
        /\ AllScopes(s.waiting) /\ notes[s.current].type # "scope"
        /\ SumN(s.out, Len(s.out)) + s.count = Len(F)
    BY <1>4, NowFacts DEF Written, NoNote
  <2>2. PICK e \in Note : /\ e = [notes[s.current] EXCEPT !.n = s.count]
                          /\ e.n = s.count /\ e.what = notes[s.current].what /\ e.type = notes[s.current].type
    <3>1. PICK j \in DOMAIN notes, c \in Nat : j = s.current /\ c = s.count
      BY <2>1
    <3>2. LET e == [notes[j] EXCEPT !.n = c] IN
          e \in Note /\ e.n = c /\ e.what = notes[j].what /\ e.type = notes[j].type
      BY Recounted
    <3> QED BY <3>1, <3>2
  <2>3. PICK m \in Nat : m = SumN(s.out, Len(s.out))
    <3>1. Len(s.out) \in 0 .. Len(s.out)
      BY <2>1, NotesCount
    <3> QED BY <2>1, <3>1, NotesCount, SumFacts
  <2>4. /\ f.out \in Seq(Note) /\ Begins(s.out, f.out) /\ Len(f.out) = Len(s.out) + 1
        /\ f.out[Len(f.out)].type # "scope"
        /\ SumN(f.out, Len(f.out)) = Len(F)
        /\ \A p \in Nat : m < p /\ p <= Len(F) => LineAt(f.out, p) = e.what
    <3>1. PICK o \in Seq(Note) : o = s.out
      BY <2>1
    <3>2. f.out = Append(o, e)
      BY <1>2, <1>4, <2>2, <3>1
    <3>3. LET t == Append(o, e) IN
          /\ t \in Seq(Note) /\ Begins(o, t) /\ Len(t) = Len(o) + 1 /\ t[Len(t)] = e
          /\ SumN(t, Len(t)) = SumN(o, Len(o)) + e.n
          /\ \A p \in Nat : SumN(o, Len(o)) < p /\ p <= SumN(o, Len(o)) + e.n => LineAt(t, p) = e.what
      BY NoteAdds
    <3>4. e.n = s.count /\ e.type # "scope" /\ m = SumN(o, Len(o)) /\ m + e.n = Len(F)
      BY <2>1, <2>2, <2>3, <3>1
    <3> QED BY <3>1, <3>2, <3>3, <3>4
  <2>5. ASSUME NEW p \in 1 .. Len(F)
        PROVE  LineAt(f.out, p) = LineAt(notes, F[p]) /\ HasScope(f.out, p, F[p])
    <3>1. LineAt(f.out, p) = LineAt(notes, F[p])
      <4>1. CASE p <= m
        <5>1. LineAt(f.out, p) = LineAt(s.out, p)
          <6>1. p \in 1 .. m
            BY <4>1
          <6> QED BY <2>3, <2>4, <6>1, LinesBegin
        <5> QED BY <2>3, <4>1, <5>1 DEF Written
      <4>2. CASE m < p
        BY <2>2, <2>3, <2>4, <4>2 DEF Written
      <4> QED BY <2>3, <4>1, <4>2
    <3>2. PICK w : InScope(s.out, Scopes(s.out), p, w) /\ InScope(notes, Anchored, F[p], w)
      BY DEF Written, HasScope
    <3>3. InScope(f.out, Scopes(f.out), p, w)
      BY ONLY <2>4, <3>2, ElementAdds
    <3> QED BY ONLY <3>1, <3>2, <3>3 DEF HasScope
  <2>6. ASSUME s.waiting = <<>>
        PROVE  HasScope(f.out, Len(F) + 1, i)
    <3>1. PICK w : InScope(s.out, Scopes(s.out), Len(F) + 1, w) /\ InScope(notes, Anchored, i, w)
      BY <2>6 DEF Written, HasScope
    <3>2. InScope(f.out, Scopes(f.out), Len(F) + 1, w)
      BY <2>4, <3>1, ElementAdds
    <3> QED BY <3>1, <3>2 DEF HasScope
  <2> QED BY <1>1, <1>2, <2>1, <2>4, <2>5, <2>6 DEF Written
<1> QED BY <1>3, <1>4

\* The scopes that wait are written.
LEMMA WriteTyped ==
  ASSUME WellFormed(Now), NEW s \in ScanState
  PROVE  WriteScopes(s) \in ScanState /\ WriteScopes(s).latest = s.latest
<1>1. CASE s.waiting = <<>>
  BY <1>1 DEF WriteScopes
<1>2. CASE s.waiting # <<>>
  <2>1. PICK f \in ScanState : f = Flush(s) /\ f.latest = s.latest
    BY FlushTyped, FlushFacts
  <2>2. f.waiting \in Seq(Note) /\ f.out \in Seq(Note)
    BY StateTyped
  <2>3. PICK o \in Seq(Note) : o = f.out \o f.waiting
    BY <2>2, ConcatProperties
  <2>4. PICK e \in Seq(Note) : e = <<>>
    BY EmptySeq
  <2>5. \A w \in Seq(Note) : [f EXCEPT !.waiting = w, !.out = o] \in ScanState
    BY StateTyped
  <2>6. WriteScopes(s) = [f EXCEPT !.waiting = e, !.out = o]
    BY <1>2, <2>1, <2>3, <2>4 DEF WriteScopes
  <2>7. [f EXCEPT !.waiting = e, !.out = o].latest = f.latest
    BY DEF ScanState
  <2> QED BY <2>1, <2>5, <2>6, <2>7
<1> QED BY <1>1, <1>2

LEMMA WriteFacts ==
  ASSUME NEW s \in ScanState, s.waiting # <<>>, NEW f \in ScanState, f = Flush(s)
  PROVE  /\ WriteScopes(s).current = f.current /\ WriteScopes(s).count = f.count
         /\ WriteScopes(s).waiting = <<>> /\ WriteScopes(s).out = f.out \o f.waiting
<1>3. PICK e, v : e = <<>> /\ v = f.out \o f.waiting
  OBVIOUS
<1>1. WriteScopes(s) = [f EXCEPT !.waiting = e, !.out = v]
  BY <1>3 DEF WriteScopes
<1>2. \A w, o : LET x == [f EXCEPT !.waiting = w, !.out = o] IN
        x.current = f.current /\ x.count = f.count /\ x.waiting = w /\ x.out = o
  BY DEF ScanState
<1>4. LET x == [f EXCEPT !.waiting = e, !.out = v] IN
        x.current = f.current /\ x.count = f.count /\ x.waiting = e /\ x.out = v
  BY <1>2
<1> QED BY <1>1, <1>3, <1>4

LEMMA WriteKeeps ==
  ASSUME WellFormed(Now), NEW s \in ScanState, NEW F, NEW i, Len(F) \in Nat, Written(s, F, i)
  PROVE  Written(WriteScopes(s), F, i) /\ WriteScopes(s).waiting = <<>>
<1>1. CASE s.waiting = <<>>
  BY <1>1 DEF WriteScopes
<1>2. CASE s.waiting # <<>>
  <2>1. PICK f \in ScanState : f = Flush(s)
    BY FlushTyped
  <2>2. Written(f, F, i) /\ SumN(f.out, Len(f.out)) = Len(F) /\ f.count = 0 /\ f.waiting = s.waiting
    BY <2>1, FlushKeeps, FlushFacts
  <2>3. PICK g \in ScanState : g = WriteScopes(s)
    BY WriteTyped
  <2>4. g.current = f.current /\ g.count = f.count /\ g.waiting = <<>> /\ g.out = f.out \o f.waiting
    BY <1>2, <2>1, <2>3, WriteFacts
  <2>5. PICK o \in Seq(Note), w \in Seq(Note) : o = f.out /\ w = f.waiting /\ AllScopes(w)
    BY <2>2 DEF Written
  <2>6. g.out = o \o w /\ w # <<>> /\ SumN(o, Len(o)) = Len(F)
    BY <1>2, <2>2, <2>4, <2>5
  <2>7. g.out \in Seq(Note) /\ Begins(o, g.out) /\ SumN(g.out, Len(g.out)) = Len(F)
    <3>1. o \o w \in Seq(Note) /\ Begins(o, o \o w) /\ SumN(o \o w, Len(o \o w)) = SumN(o, Len(o))
      BY <2>5, ScopesAdd
    <3> QED BY <2>6, <3>1
  <2>8. ASSUME NEW p \in 1 .. Len(F)
        PROVE  LineAt(g.out, p) = LineAt(notes, F[p]) /\ HasScope(g.out, p, F[p])
    <3>1. LineAt(o, p) = LineAt(notes, F[p])
      BY <2>2, <2>5 DEF Written
    <3>2. LineAt(g.out, p) = LineAt(o, p)
      BY <2>6, <2>7, LinesBegin
    <3>3. PICK v : InScope(o, Scopes(o), p, v) /\ InScope(notes, Anchored, F[p], v)
      BY <2>2, <2>5 DEF Written, HasScope
    <3>4. InScope(g.out, Scopes(g.out), p, v)
      BY <2>6, <2>7, <3>3, ScopesBegin
    <3> QED BY <3>1, <3>2, <3>3, <3>4 DEF HasScope
  <2>9. HasScope(g.out, Len(F) + 1, i)
    <3>1. InScope(notes, Anchored, i, w[Len(w)].what)
      BY <2>2, <2>5, <2>6 DEF Written
    <3>2. /\ Len(w) \in Nat \ {0} /\ Len(o) \in Nat /\ Len(g.out) = Len(o) + Len(w)
          /\ g.out[Len(g.out)] = w[Len(w)] /\ w[Len(w)].type = "scope"
          /\ DOMAIN g.out = 1 .. Len(g.out)
      <4>1. Len(w) \in Nat \ {0} /\ Len(o) \in Nat
        BY <2>6, EmptySeq, NotesCount
      <4>2. Len(o \o w) = Len(o) + Len(w) /\ (o \o w)[Len(o) + Len(w)] = w[Len(w)]
        <5>1. Len(o) + Len(w) \in 1 .. Len(o) + Len(w) /\ ~(Len(o) + Len(w) <= Len(o)) /\ Len(o) + Len(w) - Len(o) = Len(w)
          BY <4>1
        <5> QED BY <5>1, ConcatProperties
      <4> QED BY <2>5, <2>6, <2>7, <4>1, <4>2, NotesCount DEF AllScopes
    <3>3. /\ Len(g.out) \in Scopes(g.out) /\ SumN(g.out, Len(g.out)) < Len(F) + 1
          /\ \A h \in Scopes(g.out) : h <= Len(g.out)
      BY <2>7, <3>2 DEF Scopes
    <3>4. InScope(g.out, Scopes(g.out), Len(F) + 1, w[Len(w)].what)
      BY <3>2, <3>3 DEF InScope
    <3> QED BY <3>1, <3>4 DEF HasScope
  <2>10. Written(g, F, i)
    <3>1. /\ g.waiting \in Seq(Note) /\ AllScopes(g.waiting) /\ g.count = 0 /\ g.current \in 0 .. Len(notes)
          /\ g.current # NoNote => notes[g.current].type # "scope"
      <4>1. <<>> \in Seq(Note) /\ AllScopes(<<>>)
        BY EmptySeq DEF AllScopes
      <4>2. /\ f.current \in 0 .. Len(notes)
            /\ f.current # NoNote => notes[f.current].type # "scope"
        BY <2>2 DEF Written
      <4> QED BY <2>2, <2>4, <4>1, <4>2
    <3>2. SumN(g.out, Len(g.out)) + g.count = Len(F)
      BY ONLY <2>7, <3>1, Len(F) \in Nat
    <3>3. \A p \in 1 .. Len(F) :
            /\ p <= SumN(g.out, Len(g.out)) => LineAt(g.out, p) = LineAt(notes, F[p])
            /\ SumN(g.out, Len(g.out)) < p => notes[g.current].what = LineAt(notes, F[p])
            /\ HasScope(g.out, p, F[p])
      <4>1. \A p \in 1 .. Len(F) : ~(SumN(g.out, Len(g.out)) < p)
        BY ONLY <2>7, Len(F) \in Nat
      <4> QED BY ONLY <2>8, <4>1
    <3>4. g.count \in Nat /\ (g.current = NoNote => g.count = 0)
      BY ONLY <3>1
    <3> QED BY ONLY <2>4, <2>7, <2>9, <3>1, <3>2, <3>3, <3>4 DEF Written
  <2> QED BY <2>3, <2>4, <2>10
<1> QED BY <1>1, <1>2

\* An instruction is covered by the note that counts it, which is no scope.
LEMMA ElementFacts ==
  ASSUME WellFormed(Now), NEW i \in 1 .. Len(code)
  PROVE  /\ ElementAt(i) \in 1 .. Len(notes) /\ notes[ElementAt(i)].what = LineAt(notes, i)
         /\ notes[ElementAt(i)].type # "scope"
<1>1. /\ Len(notes) \in Nat /\ DOMAIN notes = 1 .. Len(notes) /\ Counts(notes)
      /\ SumN(notes, Len(notes)) = Len(code) /\ Len(code) \in Nat
      /\ \A j \in DOMAIN notes : notes[j].type = "scope" => notes[j].n = 0
  BY NowFacts
<1>2. PICK j \in 1 .. Len(notes) : Covers(notes, j, i) /\ \A k \in 1 .. Len(notes) : Covers(notes, k, i) => k = j
  BY <1>1, OneCovers
<1>3. ElementAt(i) = j /\ LineAt(notes, i) = notes[j].what
  BY <1>1, <1>2 DEF ElementAt, LineAt
<1>4. SumN(notes, j) = SumN(notes, j - 1) + notes[j].n /\ SumN(notes, j - 1) \in Nat
  BY <1>1, SumFacts
<1>5. notes[j].n # 0
  BY <1>2, <1>4 DEF Covers
<1> QED BY <1>1, <1>3, <1>5

\* One more instruction is counted.
Counted(f, e) == [f EXCEPT !.current = e, !.count = f.count + 1]

LEMMA CountedTyped ==
  ASSUME NEW f \in ScanState, NEW e \in 0 .. Len(notes)
  PROVE  Counted(f, e) \in ScanState
<1>1. f.count \in Nat
  BY StateTyped
<1>2. PICK c \in Nat : c = f.count + 1
  BY <1>1
<1>3. \A d \in Nat : [f EXCEPT !.current = e, !.count = d] \in ScanState
  BY StateTyped
<1> QED BY <1>2, <1>3 DEF Counted

LEMMA CountedFacts ==
  ASSUME NEW f \in ScanState, NEW e
  PROVE  /\ Counted(f, e).current = e /\ Counted(f, e).count = f.count + 1
         /\ Counted(f, e).waiting = f.waiting /\ Counted(f, e).out = f.out
<1>1. \A c : LET x == [f EXCEPT !.current = e, !.count = c] IN
        x.current = e /\ x.count = c /\ x.waiting = f.waiting /\ x.out = f.out
  BY DEF ScanState
<1> QED BY <1>1 DEF Counted

LEMMA CountFacts ==
  ASSUME NEW s \in ScanState, NEW e, NEW f \in ScanState,
         s.current = e => f = s, s.current # e => f = Flush(s)
  PROVE  Count(s, e) = Counted(f, e)
BY DEF Count, Counted

LEMMA CountTyped ==
  ASSUME WellFormed(Now), NEW s \in ScanState, NEW e \in 0 .. Len(notes)
  PROVE  Count(s, e) \in ScanState
<1>1. PICK f \in ScanState : (s.current = e => f = s) /\ (s.current # e => f = Flush(s))
  BY FlushTyped
<1>2. Count(s, e) = Counted(f, e)
  BY <1>1, CountFacts
<1>3. Counted(f, e) \in ScanState
  BY CountedTyped
<1> QED BY <1>2, <1>3

\* Whether the instruction at place i is copied, or a nop in its stead.
LEMMA CountKeeps ==
  ASSUME WellFormed(Now), NEW s \in ScanState, s.waiting = <<>>,
         NEW F \in Seq(1 .. Len(code)), NEW i \in 1 .. Len(code), Written(s, F, i)
  PROVE  Written(Count(s, ElementAt(i)), Append(F, i), i)
<1>1. PICK e \in 1 .. Len(notes) : e = ElementAt(i) /\ notes[e].what = LineAt(notes, i) /\ notes[e].type # "scope"
  BY ElementFacts
<1>2. PICK f \in ScanState : (s.current = e => f = s) /\ (s.current # e => f = Flush(s))
  BY FlushTyped
<1>3. Len(F) \in Nat /\ Len(notes) \in Nat
  BY NowFacts
<1>4. /\ Written(f, F, i) /\ f.waiting = <<>>
      /\ f.current # e => SumN(f.out, Len(f.out)) = Len(F) /\ f.count = 0
  <2>1. CASE s.current = e
    BY <1>2, <2>1
  <2>2. CASE s.current # e
    BY <1>2, <1>3, <2>2, FlushKeeps, FlushFacts
  <2> QED BY <2>1, <2>2
<1>5. PICK c \in ScanState : c = Count(s, e)
  <2>1. e \in 0 .. Len(notes)
    BY <1>3
  <2> QED BY <2>1, CountTyped
<1>6. c.current = e /\ c.count = f.count + 1 /\ c.waiting = <<>> /\ c.out = f.out
  <2>1. Count(s, e) = Counted(f, e)
    BY <1>2, CountFacts
  <2>2. /\ Counted(f, e).current = e /\ Counted(f, e).count = f.count + 1
        /\ Counted(f, e).waiting = f.waiting /\ Counted(f, e).out = f.out
    BY CountedFacts
  <2> QED BY <1>4, <1>5, <2>1, <2>2
<1>7. PICK G \in Seq(1 .. Len(code)) : /\ G = Append(F, i) /\ Len(G) = Len(F) + 1 /\ G[Len(F) + 1] = i
                                       /\ \A p \in 1 .. Len(F) : G[p] = F[p]
  <2>1. PICK G \in Seq(1 .. Len(code)) : G = Append(F, i)
    BY AppendProperties
  <2>2. Len(G) = Len(F) + 1 /\ G[Len(F) + 1] = i /\ \A p \in 1 .. Len(F) : G[p] = F[p]
    BY <2>1, AppendProperties
  <2> QED BY <2>1, <2>2
<1>8. PICK o \in Seq(Note), m \in Nat : o = f.out /\ m = SumN(o, Len(o)) /\ m + f.count = Len(F) /\ f.count \in Nat
  <2>1. PICK o \in Seq(Note) : o = f.out
    BY StateTyped
  <2>2. SumN(o, Len(o)) \in Nat
    <3>1. Len(o) \in 0 .. Len(o)
      BY NotesCount
    <3> QED BY <3>1, NotesCount, SumFacts
  <2>3. SumN(o, Len(o)) + f.count = Len(F) /\ f.count \in Nat
    BY <1>4, <2>1 DEF Written
  <2> QED BY <2>1, <2>2, <2>3
<1>9. ASSUME NEW p \in 1 .. Len(F)
      PROVE  /\ p <= m => LineAt(o, p) = LineAt(notes, G[p])
             /\ m < p => notes[e].what = LineAt(notes, G[p])
             /\ HasScope(o, p, G[p])
  <2>1. /\ p <= m => LineAt(o, p) = LineAt(notes, F[p])
        /\ m < p => notes[f.current].what = LineAt(notes, F[p])
        /\ HasScope(o, p, F[p])
    BY <1>4, <1>8 DEF Written
  <2>2. m < p => f.current = e
    BY <1>4, <1>8
  <2>3. G[p] = F[p]
    BY <1>7
  <2> QED BY <2>1, <2>2, <2>3
<1>10. HasScope(o, Len(F) + 1, i)
  BY <1>4, <1>8 DEF Written
<1>11. ASSUME NEW p \in 1 .. Len(G)
       PROVE  /\ p <= m => LineAt(o, p) = LineAt(notes, G[p])
              /\ m < p => notes[e].what = LineAt(notes, G[p])
              /\ HasScope(o, p, G[p])
  <2>1. CASE p \in 1 .. Len(F)
    BY <1>9, <2>1
  <2>2. CASE p = Len(F) + 1
    <3>1. ~(p <= m) /\ G[p] = i
      BY <1>3, <1>7, <1>8, <2>2
    <3> QED BY <1>1, <1>10, <2>2, <3>1
  <2> QED BY <1>3, <1>7, <2>1, <2>2
<1>12. HasScope(o, Len(G) + 1, i)
  <2>1. PICK w : InScope(o, Scopes(o), Len(F) + 1, w) /\ InScope(notes, Anchored, i, w)
    BY <1>10 DEF HasScope
  <2>2. \A j \in Scopes(o) : SumN(o, j) \in Nat /\ SumN(o, j) <= m
    <3>1. SUFFICES ASSUME NEW j \in Scopes(o) PROVE SumN(o, j) \in Nat /\ SumN(o, j) <= m
      OBVIOUS
    <3>2. j \in 0 .. Len(o) /\ Len(o) \in 0 .. Len(o) /\ j <= Len(o)
      BY NotesCount DEF Scopes
    <3> QED BY <1>8, <3>2, NotesCount, SumFacts, SumsGrow
  <2>3. \A j \in Scopes(o) : SumN(o, j) < Len(F) + 1 /\ SumN(o, j) < Len(G) + 1
    BY <1>3, <1>7, <1>8, <2>2
  <2>4. InScope(o, Scopes(o), Len(G) + 1, w)
    BY <2>1, <2>3 DEF InScope
  <2> QED BY <2>1, <2>4 DEF HasScope
<1>13. /\ c.waiting \in Seq(Note) /\ c.out \in Seq(Note) /\ c.count \in Nat /\ c.current \in 0 .. Len(notes)
       /\ AllScopes(c.waiting) /\ c.current # NoNote
       /\ SumN(c.out, Len(c.out)) + c.count = Len(G)
  <2>1. AllScopes(c.waiting)
    BY <1>6, EmptySeq DEF AllScopes
  <2>2. c.waiting \in Seq(Note) /\ c.out \in Seq(Note) /\ c.count \in Nat /\ c.current \in 0 .. Len(notes)
    BY StateTyped
  <2> QED BY <1>3, <1>6, <1>7, <1>8, <2>1, <2>2 DEF NoNote
<1>14. Written(c, G, i)
  BY <1>1, <1>6, <1>8, <1>11, <1>12, <1>13 DEF Written
<1> QED BY <1>1, <1>5, <1>7, <1>14

-----------------------------------------------------------------------------
(***************************************************************************)
(* Sequences of what is in a set, in order.                                *)
(***************************************************************************)
Collects(f, n, A, e) ==
  /\ f[0] = <<>>
  /\ \A j \in 1 .. n : f[j] = IF j \in A THEN Append(f[j - 1], e[j]) ELSE f[j - 1]

LEMMA Collectable ==
  ASSUME NEW n \in Nat, NEW A, NEW V, NEW e \in [1 .. n -> V]
  PROVE  \E f \in [0 .. n -> Seq(V)] : Collects(f, n, A, e)
<1> DEFINE Q == Seq(V)
           step == [j \in 1 .. n |-> [x \in Q |-> IF j \in A THEN Append(x, e[j]) ELSE x]]
<1>1. \A x \in Q : \A j \in 1 .. n : Append(x, e[j]) \in Q
  BY AppendProperties
<1>2. <<>> \in Q
  BY EmptySeq
<1> HIDE DEF Q
<1>3. step \in [1 .. n -> [Q -> Q]] /\ \A j \in 1 .. n : \A x \in Q : step[j][x] = IF j \in A THEN Append(x, e[j]) ELSE x
  BY <1>1
<1> HIDE DEF step
<1>4. PICK f \in [0 .. n -> Q] : Iteration(f, n, <<>>, step)
  BY <1>2, <1>3, Iterates
<1>5. ASSUME NEW j \in 1 .. n
      PROVE  f[j] = IF j \in A THEN Append(f[j - 1], e[j]) ELSE f[j - 1]
  <2>1. j - 1 \in 0 .. n
    OBVIOUS
  <2>2. f[j - 1] \in Q
    BY <2>1
  <2>3. f[j] = step[j][f[j - 1]]
    BY <1>4 DEF Iteration
  <2> QED BY <1>3, <2>2, <2>3
<1>6. Collects(f, n, A, e)
  BY <1>4, <1>5 DEF Collects, Iteration
<1> QED BY <1>6 DEF Q

LEMMA CollectedTyped ==
  ASSUME NEW n \in Nat, NEW A, NEW V, NEW e \in [1 .. n -> V], NEW f, Collects(f, n, A, e)
  PROVE  \A j \in 0 .. n : f[j] \in Seq(V)
<1> DEFINE Q == Seq(V)
           S == {j \in 0 .. n : f[j] \in Q}
<1>1. \A x \in Q : \A j \in 1 .. n : Append(x, e[j]) \in Q
  BY AppendProperties
<1>2. <<>> \in Q
  BY EmptySeq
<1> HIDE DEF Q
<1>3. 0 \in S
  BY <1>2 DEF Collects
<1>4. ASSUME NEW j \in 1 .. n, j - 1 \in S
      PROVE  j \in S
  BY <1>1, <1>4 DEF Collects
<1>5. S \in SUBSET (0 .. n)
  OBVIOUS
<1> HIDE DEF S
<1>6. 0 .. n \subseteq S
  BY <1>3, <1>4, <1>5, Upward
<1> QED BY <1>6 DEF S, Q

\* The places in S up to each place.
LEMMA InOrderFacts ==
  ASSUME Len(code) \in Nat, NEW S
  PROVE  \E kept : /\ Collects(kept, Len(code), S, [i \in 1 .. Len(code) |-> i])
                   /\ \A i \in 0 .. Len(code) : kept[i] \in Seq(1 .. Len(code))
                   /\ InOrder(S) = kept[Len(code)]
<1> DEFINE N == Len(code)
           e == [i \in 1 .. N |-> i]
           More(g, i) == IF i \in S THEN Append(g[i - 1], i) ELSE g[i - 1]
           Rec(g) == [i \in 0 .. N |-> IF i = 0 THEN <<>> ELSE More(g, i)]
           kept == CHOOSE g : g = Rec(g)
<1>1. e \in [1 .. N -> 1 .. N]
  OBVIOUS
<1>2. \E g : g = Rec(g)
  <2>1. PICK f \in [0 .. N -> Seq(1 .. N)] : Collects(f, N, S, e)
    BY <1>1, Collectable
  <2>2. \A j \in 1 .. N : e[j] = j
    OBVIOUS
  <2>4. f[0] = <<>> /\ \A j \in 1 .. N : f[j] = More(f, j)
    BY <2>1, <2>2 DEF Collects
  <2>3. f = Rec(f)
    <3> HIDE DEF More
    <3> QED BY <2>4
  <2> QED BY <2>3
<1>3. kept = Rec(kept)
  BY <1>2
<1>4. Collects(kept, N, S, e)
  <2>1. \A i \in 0 .. N : kept[i] = IF i = 0 THEN <<>> ELSE More(kept, i)
    <3> HIDE DEF kept, More
    <3> QED BY <1>3
  <2> HIDE DEF kept
  <2> QED BY <2>1 DEF Collects
<1>5. \A i \in 0 .. N : kept[i] \in Seq(1 .. N)
  <2> HIDE DEF kept, e
  <2> QED BY <1>1, <1>4, CollectedTyped
<1>6. InOrder(S) = kept[N]
  BY DEF InOrder
<1> HIDE DEF kept, Rec
<1> QED BY <1>4, <1>5, <1>6

\* The scopes anchored at place i: none, or the last of them is the last of the sequence.
LEMMA ScopesAtFacts ==
  ASSUME WellFormed(Now), NEW i
  PROVE  /\ ScopesAt(i) \in Seq(Note) /\ AllScopes(ScopesAt(i))
         /\ \/ /\ ScopesAt(i) = <<>>
               /\ \A j \in Scopes(notes) : SumN(notes, j) + 1 # i
            \/ /\ ScopesAt(i) # <<>>
               /\ \E h \in Scopes(notes) :
                    /\ SumN(notes, h) + 1 = i /\ ScopesAt(i)[Len(ScopesAt(i))] = notes[h]
                    /\ \A j \in Scopes(notes) : SumN(notes, j) + 1 = i => j <= h
<1> DEFINE N == Len(notes)
           A == {j \in Scopes(notes) : SumN(notes, j) + 1 = i}
           e == [j \in 1 .. N |-> notes[j]]
           More(g, j) == IF j \in Scopes(notes) /\ SumN(notes, j) + 1 = i THEN Append(g[j - 1], notes[j])
                          ELSE g[j - 1]
           Rec(g) == [j \in 0 .. N |-> IF j = 0 THEN <<>> ELSE More(g, j)]
           at == CHOOSE g : g = Rec(g)
<1>1. /\ N \in Nat /\ DOMAIN notes = 1 .. N /\ notes \in Seq(Note)
      /\ \A j \in 1 .. N : notes[j] \in Note
      /\ \A j \in Scopes(notes) : notes[j].type = "scope" /\ notes[j].n = 0 /\ j \in 1 .. N
  <2>1. notes \in Seq(Note)
    BY DEF WellFormed, Now, Note
  <2> QED BY <2>1, NowFacts, NotesCount DEF Scopes
<1>2. e \in [1 .. N -> Note] /\ \A j \in 1 .. N : e[j] = notes[j]
  BY <1>1
<1> HIDE DEF e
<1>3. \E g : g = Rec(g)
  <2>1. PICK f \in [0 .. N -> Seq(Note)] : Collects(f, N, A, e)
    BY <1>1, <1>2, Collectable
  <2>2. ASSUME NEW j \in 1 .. N
        PROVE  f[j] = More(f, j)
    BY <1>2, <2>1 DEF Collects
  <2>4. f[0] = <<>>
    BY <2>1 DEF Collects
  <2>3. f = Rec(f)
    <3> HIDE DEF More
    <3> QED BY <2>2, <2>4
  <2> QED BY <2>3
<1>4. at = Rec(at)
  BY <1>3
<1>5. Collects(at, N, A, e)
  <2>1. /\ at[0] = <<>>
        /\ \A j \in 1 .. N : at[j] = More(at, j)
    <3> HIDE DEF at, More
    <3> QED BY <1>1, <1>4
  <2> HIDE DEF at
  <2> QED BY <1>2, <2>1 DEF Collects
<1>6. ScopesAt(i) = at[N]
  BY DEF ScopesAt
<1> HIDE DEF at, Rec
<1>7. \A j \in 0 .. N : at[j] \in Seq(Note)
  BY <1>1, <1>2, <1>5, CollectedTyped
<1> HIDE DEF A
<1> DEFINE Fine(j) ==
             /\ AllScopes(at[j])
             /\ \/ at[j] = <<>> /\ \A g \in A : ~(g <= j)
                \/ at[j] # <<>> /\ \E h \in A : /\ h <= j /\ at[j][Len(at[j])] = notes[h]
                                                /\ \A g \in A : g <= j => g <= h
           S == {j \in 0 .. N : Fine(j)}
<1>8. \A j \in A : j \in 1 .. N /\ notes[j].type = "scope" /\ notes[j].n = 0
  BY <1>1 DEF A
<1>9. 0 \in S
  <2>1. at[0] = <<>> /\ AllScopes(<<>>)
    BY <1>5, EmptySeq DEF Collects, AllScopes
  <2>2. \A g \in A : ~(g <= 0)
    BY <1>8
  <2> QED BY <1>1, <2>1, <2>2
<1>10. ASSUME NEW j \in 1 .. N, j - 1 \in S
       PROVE  j \in S
  <2>1. Fine(j - 1) /\ j \in 0 .. N /\ j - 1 \in 0 .. N
    BY <1>1, <1>10
  <2>2. CASE j \notin A
    <3>1. at[j] = at[j - 1] /\ \A g \in A : g <= j <=> g <= j - 1
      BY <1>1, <1>5, <1>8, <2>2 DEF Collects
    <3> QED BY <2>1, <3>1
  <2>3. CASE j \in A
    <3>1. PICK a \in Seq(Note), b \in Seq(Note) : a = at[j - 1] /\ b = at[j]
      BY <1>7, <2>1
    <3>2. b = Append(a, notes[j])
      BY <1>2, <1>5, <2>3, <3>1 DEF Collects
    <3>3. /\ b # <<>> /\ Len(b) = Len(a) + 1 /\ Len(a) \in Nat
          /\ \A l \in 1 .. Len(a) : b[l] = a[l]
          /\ b[Len(a) + 1] = notes[j]
      BY <1>1, <3>2, AppendProperties, LenProperties
    <3>4. AllScopes(b)
      <4>1. AllScopes(a) /\ notes[j].type = "scope" /\ notes[j].n = 0
        BY <1>8, <2>1, <2>3, <3>1
      <4>2. ASSUME NEW l \in 1 .. Len(b)
            PROVE  b[l].type = "scope" /\ b[l].n = 0
        <5>1. l \in 1 .. Len(a) \/ l = Len(a) + 1
          BY <3>3
        <5> QED BY <3>3, <4>1, <5>1 DEF AllScopes
      <4> QED BY <4>2 DEF AllScopes
    <3>5. j <= j /\ b[Len(b)] = notes[j] /\ \A g \in A : g <= j => g <= j
      BY <3>3
    <3>6. Fine(j)
      BY <2>3, <3>1, <3>3, <3>4, <3>5
    <3> HIDE DEF Fine
    <3> QED BY <2>1, <3>6
  <2> QED BY <2>2, <2>3
<1>11. S \in SUBSET (0 .. N) /\ N \in 0 .. N
  BY <1>1
<1> HIDE DEF S
<1>12. 0 .. N \subseteq S
  BY <1>1, <1>9, <1>10, <1>11, Upward
<1>13. Fine(N)
  <2>1. N \in S
    BY <1>11, <1>12
  <2> HIDE DEF Fine
  <2> QED BY <2>1 DEF S
<1>14. \A g \in A : g <= N
  BY <1>1, <1>8
<1>15. at[N] \in Seq(Note)
  BY <1>7, <1>11
<1>16. \A j : j \in A <=> j \in Scopes(notes) /\ SumN(notes, j) + 1 = i
  BY DEF A
<1> QED BY <1>6, <1>13, <1>14, <1>15, <1>16

-----------------------------------------------------------------------------
(***************************************************************************)
(* An instruction, a block, the program.                                   *)
(***************************************************************************)
\* Counts of notes, as numbers.
LEMMA NoteSums ==
  ASSUME WellFormed(Now)
  PROVE  \A j \in Scopes(notes) : SumN(notes, j) \in Nat /\ j \in 1 .. Len(notes)
<1>1. /\ Len(notes) \in Nat /\ DOMAIN notes = 1 .. Len(notes) /\ Counts(notes)
  BY NowFacts
<1>2. \A j \in Scopes(notes) : j \in 1 .. Len(notes) /\ j \in 0 .. Len(notes)
  BY <1>1 DEF Scopes
<1> QED BY <1>1, <1>2, SumFacts

\* Where no scope is anchored, the scope is that of the place before.
LEMMA ScopeStays ==
  ASSUME WellFormed(Now), NEW i \in Int, NEW l \in Int, i <= l,
         \A j \in Anchored : ~(SumN(notes, j) + 1 \in i + 1 .. l),
         NEW w, InScope(notes, Anchored, i, w)
  PROVE  InScope(notes, Anchored, l, w)
<1>1. \A j \in Anchored : SumN(notes, j) \in Nat
  BY NoteSums DEF Anchored
<1>2. \A j \in Anchored : SumN(notes, j) < i <=> SumN(notes, j) < l
  BY <1>1
<1> QED BY <1>2 DEF InScope

LEMMA WrittenStays ==
  ASSUME WellFormed(Now), NEW i \in Int, NEW l \in Int, i <= l,
         \A j \in Anchored : ~(SumN(notes, j) + 1 \in i + 1 .. l),
         NEW s, NEW F, Written(s, F, i)
  PROVE  Written(s, F, l)
<1>1. \A w : InScope(notes, Anchored, i, w) => InScope(notes, Anchored, l, w)
  BY ScopeStays
<1>2. HasScope(s.out, Len(F) + 1, i) => HasScope(s.out, Len(F) + 1, l)
  BY <1>1 DEF HasScope
<1> QED BY <1>1, <1>2 DEF Written

\* The scopes anchored at an instruction wait for it, or for the next one copied.
LEMMA ScopesWait ==
  ASSUME WellFormed(Now), NEW k \in Emitted, NEW i \in Extent(blk[k]), i \in 1 .. Len(code),
         NEW s, NEW F, Written(s, F, i - 1),
         NEW t, t.current = s.current, t.count = s.count, t.out = s.out, t.waiting = s.waiting \o ScopesAt(i)
  PROVE  Written(t, F, i)
<1>1. PICK a \in Seq(Note), v \in Seq(Note) : a = s.waiting /\ v = ScopesAt(i) /\ AllScopes(a) /\ AllScopes(v)
  BY ScopesAtFacts DEF Written
<1>2. /\ \A j \in Anchored : j \in Scopes(notes) /\ SumN(notes, j) \in Nat
      /\ \A j \in Scopes(notes) : SumN(notes, j) + 1 = i => j \in Anchored
  BY NoteSums DEF Anchored
<1>3. CASE v = <<>>
  <2>1. \A j \in Scopes(notes) : SumN(notes, j) + 1 # i
    BY <1>1, <1>3, ScopesAtFacts
  <2>2. \A j \in Anchored : ~(SumN(notes, j) + 1 \in (i - 1) + 1 .. i)
    BY <1>2, <2>1
  <2>3. i - 1 \in Int /\ i \in Int /\ i - 1 <= i
    OBVIOUS
  <2>4. Written(s, F, i)
    BY <2>2, <2>3, WrittenStays
  <2>5. t.waiting = s.waiting
    BY <1>1, <1>3, ConcatEmptySeq
  <2> QED BY <2>4, <2>5, SameWritten DEF Same
<1>4. CASE v # <<>>
  <2>1. PICK h \in Scopes(notes) :
          /\ SumN(notes, h) + 1 = i /\ v[Len(v)] = notes[h]
          /\ \A j \in Scopes(notes) : SumN(notes, j) + 1 = i => j <= h
    BY <1>1, <1>4, ScopesAtFacts
  <2>2. PICK b \in Seq(Note) : /\ b = a \o v /\ b # <<>> /\ b[Len(b)] = notes[h] /\ AllScopes(b)
    <3>1. /\ a \o v \in Seq(Note) /\ Len(a \o v) = Len(a) + Len(v)
          /\ \A l \in 1 .. Len(a) + Len(v) : (a \o v)[l] = IF l <= Len(a) THEN a[l] ELSE v[l - Len(a)]
      BY ConcatProperties
    <3>2. Len(a) \in Nat /\ Len(v) \in Nat \ {0}
      BY <1>4, EmptySeq, LenProperties
    <3>3. Len(a) + Len(v) \in 1 .. Len(a) + Len(v) /\ ~(Len(a) + Len(v) <= Len(a)) /\ Len(a) + Len(v) - Len(a) = Len(v)
      BY <3>2
    <3>4. (a \o v)[Len(a) + Len(v)] = notes[h]
      BY <2>1, <3>1, <3>3
    <3>5. AllScopes(a \o v)
      <4>1. ASSUME NEW l \in 1 .. Len(a \o v)
            PROVE  (a \o v)[l].type = "scope" /\ (a \o v)[l].n = 0
        <5>1. CASE l <= Len(a)
          <6>1. l \in 1 .. Len(a) /\ (a \o v)[l] = a[l]
            BY <3>1, <3>2, <5>1
          <6> QED BY <1>1, <6>1 DEF AllScopes
        <5>2. CASE ~(l <= Len(a))
          <6>1. l - Len(a) \in 1 .. Len(v) /\ (a \o v)[l] = v[l - Len(a)]
            BY <3>1, <3>2, <5>2
          <6> QED BY <1>1, <6>1 DEF AllScopes
        <5> QED BY <5>1, <5>2
      <4> QED BY <4>1 DEF AllScopes
    <3>6. a \o v # <<>>
      BY <3>1, <3>2, EmptySeq
    <3> QED BY <3>1, <3>4, <3>5, <3>6
  <2>3. InScope(notes, Anchored, i, notes[h].what)
    <3>1. ASSUME NEW j \in Anchored, SumN(notes, j) < i
          PROVE  j <= h
      <4>1. CASE SumN(notes, j) + 1 = i
        BY <1>2, <2>1, <4>1
      <4>2. CASE SumN(notes, j) + 1 # i
        <5>1. SumN(notes, j) < SumN(notes, h) /\ SumN(notes, h) \in Nat /\ SumN(notes, j) \in Nat
          BY <1>2, <2>1, <3>1, <4>2, NoteSums
        <5>2. /\ j \in 0 .. Len(notes) /\ h \in 0 .. Len(notes) /\ Len(notes) \in Nat /\ Counts(notes)
          BY <1>2, NoteSums, NowFacts
        <5>3. h <= j => SumN(notes, h) <= SumN(notes, j)
          BY <5>2, SumsGrow
        <5> QED BY <5>1, <5>2, <5>3
      <4> QED BY <4>1, <4>2
    <3>2. h \in Anchored /\ SumN(notes, h) < i
      BY <1>2, <2>1, NoteSums
    <3> QED BY <3>1, <3>2 DEF InScope
  <2>4. t.waiting = b
    BY <1>1, <2>2
  <2>5. InScope(notes, Anchored, i, t.waiting[Len(t.waiting)].what)
    BY <2>2, <2>3, <2>4
  <2>6. /\ t.waiting \in Seq(Note) /\ t.out \in Seq(Note) /\ t.count \in Nat /\ t.current \in 0 .. Len(notes)
        /\ AllScopes(t.waiting) /\ t.waiting # <<>>
        /\ t.current = NoNote => t.count = 0
        /\ t.current # NoNote => notes[t.current].type # "scope"
        /\ SumN(t.out, Len(t.out)) + t.count = Len(F)
    BY <2>2, <2>4 DEF Written
  <2>7. \A p \in 1 .. Len(F) : /\ p <= SumN(t.out, Len(t.out)) => LineAt(t.out, p) = LineAt(notes, F[p])
                               /\ SumN(t.out, Len(t.out)) < p => notes[t.current].what = LineAt(notes, F[p])
                               /\ HasScope(t.out, p, F[p])
    BY DEF Written
  <2> QED BY <2>5, <2>6, <2>7 DEF Written
<1> QED BY <1>3, <1>4

\* annotations at place i are read.
Reads(s, i) == [s EXCEPT !.latest = ElementAt(i), !.waiting = @ \o ScopesAt(i)]

LEMMA ReadsFacts ==
  ASSUME WellFormed(Now), NEW s \in ScanState, NEW i \in 1 .. Len(code)
  PROVE  /\ Reads(s, i) \in ScanState
         /\ Reads(s, i).current = s.current /\ Reads(s, i).count = s.count /\ Reads(s, i).out = s.out
         /\ Reads(s, i).waiting = s.waiting \o ScopesAt(i) /\ Reads(s, i).copied = s.copied
         /\ Reads(s, i).latest = ElementAt(i)
<1>1. s.waiting \in Seq(Note) /\ ScopesAt(i) \in Seq(Note)
  BY StateTyped, ScopesAtFacts
<1>2. PICK w \in Seq(Note) : w = s.waiting \o ScopesAt(i)
  BY <1>1, ConcatProperties
<1>3. PICK e \in 0 .. Len(notes) : e = ElementAt(i)
  BY ElementFacts, NowFacts
<1>4. Reads(s, i) = [s EXCEPT !.latest = e, !.waiting = w]
  BY <1>2, <1>3 DEF Reads
<1>5. \A v \in Seq(Note) : [s EXCEPT !.latest = e, !.waiting = v] \in ScanState
  BY StateTyped
<1>6. LET x == [s EXCEPT !.latest = e, !.waiting = w] IN
        /\ x.current = s.current /\ x.count = s.count /\ x.out = s.out /\ x.waiting = w
        /\ x.copied = s.copied /\ x.latest = e
  BY DEF ScanState
<1> QED BY <1>2, <1>3, <1>4, <1>5, <1>6

\* One instruction.
LEMMA InstructionFixed ==
  ASSUME WellFormed(Now), NEW s \in ScanState, NEW i \in 1 .. Len(code)
  PROVE  /\ FixInstruction(s, i) \in ScanState
         /\ FixInstruction(s, i).latest = ElementAt(i)
         /\ FixInstruction(s, i).copied = IF IsNop(i) THEN s.copied ELSE TRUE
         /\ IsNop(i) => FixInstruction(s, i) = Reads(s, i)
         /\ ~IsNop(i) => Same(Count(WriteScopes(Reads(s, i)), ElementAt(i)), FixInstruction(s, i))
<1>1. PICK t \in ScanState : t = Reads(s, i) /\ t.latest = ElementAt(i) /\ t.copied = s.copied
  BY ReadsFacts
<1>2. CASE IsNop(i)
  <2>1. FixInstruction(s, i) = t
    BY <1>1, <1>2 DEF FixInstruction, Reads
  <2> QED BY <1>1, <1>2, <2>1
<1>3. CASE ~IsNop(i)
  <2>1. PICK e \in 0 .. Len(notes) : e = ElementAt(i)
    BY ElementFacts, NowFacts
  <2>2. PICK v \in ScanState : v = WriteScopes(t) /\ v.latest = e
    BY <1>1, <2>1, WriteTyped
  <2>3. PICK c \in ScanState : c = Count(v, e)
    BY CountTyped
  <2>4. FixInstruction(s, i) = [c EXCEPT !.copied = TRUE]
    BY <1>1, <1>3, <2>1, <2>2, <2>3 DEF FixInstruction, Reads
  <2>5. c.latest = e
    <3>1. PICK f \in ScanState : /\ (v.current = e => f = v) /\ (v.current # e => f = Flush(v))
                                 /\ f.latest = e
      BY <2>2, FlushTyped, FlushFacts
    <3>2. c = Counted(f, e)
      BY <2>3, <3>1, CountFacts
    <3>3. \A n : [f EXCEPT !.current = e, !.count = n].latest = f.latest
      BY DEF ScanState
    <3> QED BY <3>1, <3>2, <3>3 DEF Counted
  <2>6. [c EXCEPT !.copied = TRUE] \in ScanState
    BY StateTyped
  <2>7. LET x == [c EXCEPT !.copied = TRUE] IN x.latest = c.latest /\ x.copied = TRUE /\ Same(c, x)
    BY DEF ScanState, Same
  <2> QED BY <1>1, <1>3, <2>1, <2>2, <2>3, <2>4, <2>5, <2>6, <2>7
<1> QED BY <1>2, <1>3

\* A nop is left out, with the scopes anchored at it still waiting;
LEMMA NopKeeps ==
  ASSUME WellFormed(Now), NEW k \in Emitted, NEW i \in Extent(blk[k]), i \in 1 .. Len(code), IsNop(i),
         NEW s \in ScanState, NEW F, Written(s, F, i - 1)
  PROVE  Written(FixInstruction(s, i), F, i)
<1>1. PICK t : /\ t = Reads(s, i) /\ t.current = s.current /\ t.count = s.count /\ t.out = s.out
               /\ t.waiting = s.waiting \o ScopesAt(i)
  BY ReadsFacts
<1>2. Written(t, F, i)
  BY <1>1, ScopesWait
<1> QED BY <1>1, <1>2, InstructionFixed

\* another instruction is copied.
LEMMA RealKeeps ==
  ASSUME WellFormed(Now), NEW k \in Emitted, NEW i \in Extent(blk[k]), i \in 1 .. Len(code), ~IsNop(i),
         NEW s \in ScanState, NEW F \in Seq(1 .. Len(code)), Written(s, F, i - 1)
  PROVE  Written(FixInstruction(s, i), Append(F, i), i)
<1>1. PICK t \in ScanState :
        /\ t = Reads(s, i) /\ t.current = s.current /\ t.count = s.count /\ t.out = s.out
        /\ t.waiting = s.waiting \o ScopesAt(i)
  BY ReadsFacts
<1>2. Written(t, F, i)
  BY <1>1, ScopesWait
<1>3. Len(F) \in Nat
  BY LenProperties
<1>4. PICK v \in ScanState : v = WriteScopes(t) /\ Written(v, F, i) /\ v.waiting = <<>>
  BY <1>2, <1>3, WriteKeeps, WriteTyped
<1>5. Written(Count(v, ElementAt(i)), Append(F, i), i)
  BY <1>4, CountKeeps
<1>6. Same(Count(v, ElementAt(i)), FixInstruction(s, i))
  BY <1>1, <1>4, InstructionFixed
<1> QED BY <1>5, <1>6, SameWritten

\* The scan of block k comes to each of its places, from the one before.
Scans(scan, s, k) ==
  /\ \A i \in blk[k].start - 1 .. blk[k].end : scan[i] \in ScanState
  /\ Same(s, scan[blk[k].start - 1]) /\ ~scan[blk[k].start - 1].copied
  /\ \A i \in blk[k].start .. blk[k].end : scan[i] = FixInstruction(scan[i - 1], i)
  /\ FixBlock(s, k) = IF scan[blk[k].end].copied THEN scan[blk[k].end]
                      ELSE Count(WriteScopes(scan[blk[k].end]), scan[blk[k].end].latest)

LEMMA BlockScans ==
  ASSUME WellFormed(Now), NEW k \in DOMAIN blk, NEW s \in ScanState
  PROVE  \E scan : Scans(scan, s, k)
<1> DEFINE first == blk[k].start
           last == blk[k].end
           begun == [s EXCEPT !.copied = FALSE, !.latest = s.current]
           Rec(g) == [i \in first - 1 .. last |-> IF i < first THEN begun ELSE FixInstruction(g[i - 1], i)]
           scan == CHOOSE g : g = Rec(g)
<1>1. /\ first \in Nat \ {0} /\ last \in Nat /\ first <= last /\ last <= Len(code) /\ Len(code) \in Nat
  BY NowFacts
<1>2. begun \in ScanState /\ Same(s, begun) /\ ~begun.copied
  <2>1. \A e \in 0 .. Len(notes), b \in BOOLEAN : [s EXCEPT !.copied = b, !.latest = e] \in ScanState
    BY StateTyped
  <2>2. s.current \in 0 .. Len(notes)
    BY StateTyped
  <2>3. Same(s, begun) /\ ~begun.copied
    BY DEF ScanState, Same
  <2> QED BY <2>1, <2>2, <2>3
<1>3. \A i \in first .. last : i \in 1 .. Len(code)
  BY <1>1
<1>4. FixBlock(s, k) = IF scan[last].copied THEN scan[last] ELSE Count(WriteScopes(scan[last]), scan[last].latest)
  BY DEF FixBlock
<1> HIDE DEF begun, first, last
<1> DEFINE n == last - first + 1
           step == [j \in 1 .. n |-> [x \in ScanState |-> FixInstruction(x, first - 1 + j)]]
<1>5. n \in Nat
  BY <1>1
<1>6. step \in [1 .. n -> [ScanState -> ScanState]]
      /\ \A j \in 1 .. n : \A x \in ScanState : step[j][x] = FixInstruction(x, first - 1 + j)
  <2>1. ASSUME NEW j \in 1 .. n, NEW x \in ScanState
        PROVE  FixInstruction(x, first - 1 + j) \in ScanState
    <3>1. first - 1 + j \in 1 .. Len(code)
      BY <1>1
    <3> QED BY <3>1, InstructionFixed
  <2> QED BY <2>1
<1> HIDE DEF n, step
<1>7. PICK t \in [0 .. n -> ScanState] : Iteration(t, n, begun, step)
  BY <1>2, <1>5, <1>6, Iterates
<1>8. \E g : g = Rec(g)
  <2> DEFINE g == [i \in first - 1 .. last |-> t[i - (first - 1)]]
  <2>1. ASSUME NEW i \in first - 1 .. last
        PROVE  g[i] = IF i < first THEN begun ELSE FixInstruction(g[i - 1], i)
    <3>1. CASE i < first
      <4>1. i - (first - 1) = 0
        BY <1>1, <3>1
      <4> QED BY <1>7, <3>1, <4>1 DEF Iteration
    <3>2. CASE ~(i < first)
      <4>1. PICK j \in 1 .. n : j = i - (first - 1)
        BY <1>1, <3>2 DEF n
      <4>2. /\ i - 1 \in first - 1 .. last /\ (i - 1) - (first - 1) = j - 1 /\ j - 1 \in 0 .. n
            /\ first - 1 + j = i
        BY <1>1, <1>5, <3>2, <4>1
      <4>3. t[j] = step[j][t[j - 1]] /\ t[j - 1] \in ScanState
        BY <1>7, <4>2 DEF Iteration
      <4>4. g[i] = t[j] /\ g[i - 1] = t[j - 1]
        BY <4>1, <4>2
      <4>5. step[j][t[j - 1]] = FixInstruction(t[j - 1], i)
        BY <1>6, <4>2, <4>3
      <4> QED BY <3>2, <4>3, <4>4, <4>5
    <3> QED BY <3>1, <3>2
  <2>2. g = Rec(g)
    <3>1. g = [i \in first - 1 .. last |-> g[i]]
      OBVIOUS
    <3> HIDE DEF g
    <3> QED BY <2>1, <3>1
  <2> QED BY <2>2
<1>9. scan = Rec(scan)
  BY <1>8
<1>10. \A i \in first - 1 .. last : scan[i] = IF i < first THEN begun ELSE FixInstruction(scan[i - 1], i)
  <2> HIDE DEF scan
  <2> QED BY <1>9
<1> HIDE DEF scan, Rec
<1> DEFINE S == {j \in 0 .. n : scan[first - 1 + j] \in ScanState}
<1>11. scan[first - 1] = begun
  <2>1. first - 1 \in first - 1 .. last /\ first - 1 < first
    BY <1>1
  <2> QED BY <1>10, <2>1
<1>12. \A i \in first .. last : scan[i] = FixInstruction(scan[i - 1], i)
  <2>1. \A i \in first .. last : i \in first - 1 .. last /\ ~(i < first)
    BY <1>1
  <2> QED BY <1>10, <2>1
<1>13. 0 .. n \subseteq S
  <2>1. 0 \in S
    <3>1. first - 1 + 0 = first - 1
      BY <1>1
    <3> QED BY <1>2, <1>5, <1>11, <3>1
  <2>2. ASSUME NEW j \in 1 .. n, j - 1 \in S
        PROVE  j \in S
    <3>1. PICK i \in first .. last : i = first - 1 + j /\ i - 1 = first - 1 + (j - 1)
      BY <1>1 DEF n
    <3>2. scan[i - 1] \in ScanState
      BY <2>2, <3>1
    <3>3. scan[i] \in ScanState
      BY <1>3, <1>12, <3>1, <3>2, InstructionFixed
    <3> QED BY <1>5, <3>1, <3>3
  <2>3. S \in SUBSET (0 .. n)
    OBVIOUS
  <2> HIDE DEF S
  <2> QED BY <1>5, <2>1, <2>2, <2>3, Upward
<1>14. ASSUME NEW i \in first - 1 .. last
       PROVE  scan[i] \in ScanState
  <2>1. PICK j \in 0 .. n : i = first - 1 + j
    <3>1. i - (first - 1) \in 0 .. n /\ i = first - 1 + (i - (first - 1))
      BY <1>1 DEF n
    <3> QED BY <3>1
  <2> QED BY <1>13, <2>1
<1> QED BY <1>2, <1>4, <1>11, <1>12, <1>14 DEF Scans, first, last

\* What the scan of a block has written, when G gives what was copied up to each place.
LEMMA BlockWritten ==
  ASSUME WellFormed(Now), NEW k \in Emitted, k \in DOMAIN blk, NEW s, NEW scan, Scans(scan, s, k), NEW G,
         \A i \in blk[k].start - 1 .. blk[k].end : G[i] \in Seq(1 .. Len(code)),
         \A i \in blk[k].start .. blk[k].end : G[i] = IF IsNop(i) THEN G[i - 1] ELSE Append(G[i - 1], i),
         Written(s, G[blk[k].start - 1], blk[k].start - 1)
  PROVE  /\ Written(scan[blk[k].end], G[blk[k].end], blk[k].end) /\ scan[blk[k].end] \in ScanState
         /\ scan[blk[k].end].latest = ElementAt(blk[k].end)
         /\ scan[blk[k].end].copied <=> \E h \in Extent(blk[k]) : ~IsNop(h)
<1>1. PICK first \in Nat \ {0}, last \in Nat :
        /\ first = blk[k].start /\ last = blk[k].end /\ first <= last /\ last <= Len(code) /\ Len(code) \in Nat
        /\ Extent(blk[k]) = first .. last
  BY NowFacts DEF Extent
<1>2. /\ \A i \in first - 1 .. last : scan[i] \in ScanState /\ G[i] \in Seq(1 .. Len(code))
      /\ Same(s, scan[first - 1]) /\ ~scan[first - 1].copied
      /\ \A i \in first .. last : /\ scan[i] = FixInstruction(scan[i - 1], i)
                                  /\ G[i] = IF IsNop(i) THEN G[i - 1] ELSE Append(G[i - 1], i)
      /\ Written(s, G[first - 1], first - 1)
  BY <1>1 DEF Scans
<1> DEFINE n == last - first + 1
           Fine(i) == Written(scan[i], G[i], i) /\ (scan[i].copied <=> \E h \in first .. i : ~IsNop(h))
           S == {j \in 0 .. n : Fine(first - 1 + j)}
<1>3. Fine(first - 1)
  <2>1. Written(scan[first - 1], G[first - 1], first - 1)
    BY <1>2, SameWritten
  <2>2. first .. first - 1 = {}
    BY <1>1
  <2> QED BY <1>2, <2>1, <2>2
<1>4. ASSUME NEW i \in first .. last, Fine(i - 1)
      PROVE  Fine(i)
  <2>1. i \in 1 .. Len(code) /\ i - 1 \in first - 1 .. last /\ i \in Extent(blk[k])
    BY <1>1
  <2>2. scan[i - 1] \in ScanState /\ G[i - 1] \in Seq(1 .. Len(code)) /\ scan[i] = FixInstruction(scan[i - 1], i)
    BY <1>2, <2>1
  <2>3. scan[i].copied = IF IsNop(i) THEN scan[i - 1].copied ELSE TRUE
    BY <2>1, <2>2, InstructionFixed
  <2>4. (\E h \in first .. i : ~IsNop(h)) <=> ((\E h \in first .. i - 1 : ~IsNop(h)) \/ ~IsNop(i))
    <3>1. \A h : h \in first .. i <=> (h \in first .. i - 1 \/ h = i)
      BY <1>1
    <3> QED BY <3>1
  <2>5. Written(scan[i], G[i], i)
    <3>1. CASE IsNop(i)
      <4>1. G[i] = G[i - 1]
        BY <1>2, <3>1
      <4>2. Written(FixInstruction(scan[i - 1], i), G[i - 1], i)
        BY <1>4, <2>1, <2>2, <3>1, NopKeeps
      <4> QED BY <2>2, <4>1, <4>2
    <3>2. CASE ~IsNop(i)
      <4>1. G[i] = Append(G[i - 1], i)
        BY <1>2, <3>2
      <4>2. Written(FixInstruction(scan[i - 1], i), Append(G[i - 1], i), i)
        BY <1>4, <2>1, <2>2, <3>2, RealKeeps
      <4> QED BY <2>2, <4>1, <4>2
    <3> QED BY <3>1, <3>2
  <2> QED BY <1>4, <2>3, <2>4, <2>5
<1> HIDE DEF Fine
<1>5. 0 .. n \subseteq S
  <2>1. 0 \in S
    <3>1. first - 1 + 0 = first - 1 /\ 0 \in 0 .. n
      BY <1>1
    <3> QED BY <1>3, <3>1
  <2>2. ASSUME NEW j \in 1 .. n, j - 1 \in S
        PROVE  j \in S
    <3>1. PICK i : i = first - 1 + j
      OBVIOUS
    <3>2. i \in first .. last /\ i - 1 = first - 1 + (j - 1) /\ j \in 0 .. n
      <4>1. /\ first \in Nat \ {0} /\ last \in Nat /\ first <= last /\ j \in 1 .. last - first + 1
            /\ n = last - first + 1
        BY <1>1
      <4> QED BY ONLY <3>1, <4>1
    <3> QED BY <1>4, <2>2, <3>1, <3>2
  <2>3. S \in SUBSET (0 .. n) /\ n \in Nat
    BY <1>1
  <2> HIDE DEF S, n
  <2> QED BY <2>1, <2>2, <2>3, Upward
<1>6. Fine(last)
  <2>1. n \in 0 .. n /\ first - 1 + n = last
    <3>1. first \in Nat \ {0} /\ last \in Nat /\ first <= last /\ n = last - first + 1
      BY <1>1
    <3> HIDE DEF n
    <3> QED BY ONLY <3>1
  <2> QED BY <1>5, <2>1
<1>7. scan[last].latest = ElementAt(last)
  <2>1. last \in first .. last /\ last - 1 \in first - 1 .. last /\ last \in 1 .. Len(code)
    BY <1>1
  <2>2. scan[last] = FixInstruction(scan[last - 1], last) /\ scan[last - 1] \in ScanState
    BY <1>2, <2>1
  <2> QED BY <2>1, <2>2, InstructionFixed
<1>8. scan[last] \in ScanState
  <2>1. last \in first - 1 .. last
    BY <1>1
  <2> QED BY <1>2, <2>1
<1> QED BY <1>1, <1>6, <1>7, <1>8 DEF Fine

\* The places that are copied.
Copied == UNION {CopiedFrom(k) : k \in Emitted}

\* They are in order, those up to each place.
CopiedUpto(kept) ==
  /\ kept[0] = <<>>
  /\ \A i \in 0 .. Len(code) : kept[i] \in Seq(1 .. Len(code))
  /\ \A i \in 1 .. Len(code) : kept[i] = IF i \in Copied THEN Append(kept[i - 1], i) ELSE kept[i - 1]

\* No two blocks share a place.
LEMMA OneBlock ==
  ASSUME WellFormed(Now), live \subseteq DOMAIN blk
  PROVE  /\ Emitted \subseteq DOMAIN blk
         /\ \A k \in Emitted : CopiedFrom(k) \subseteq Extent(blk[k])
         /\ \A k \in Emitted : \A i \in Extent(blk[k]) : i \in Copied <=> i \in CopiedFrom(k)
<1>1. Emitted \subseteq DOMAIN blk
  BY DEF Emitted
<1>2. ASSUME NEW k \in Emitted
      PROVE  CopiedFrom(k) \subseteq Extent(blk[k])
  <2>1. blk[k].end \in Extent(blk[k])
    BY <1>1, NowFacts DEF Extent
  <2> QED BY <2>1 DEF CopiedFrom
<1>3. ASSUME NEW k \in Emitted, NEW l \in Emitted, NEW i \in Extent(blk[k]), i \in Extent(blk[l])
      PROVE  k = l
  <2>1. k \in DOMAIN blk /\ l \in DOMAIN blk
    BY <1>1
  <2>2. /\ blk[k].start \in Nat /\ blk[k].end \in Nat /\ blk[l].start \in Nat /\ blk[l].end \in Nat
        /\ k # l => blk[k].end < blk[l].start \/ blk[l].end < blk[k].start
    BY <2>1, NowFacts
  <2>3. i \in blk[k].start .. blk[k].end /\ i \in blk[l].start .. blk[l].end
    BY <1>3 DEF Extent
  <2> QED BY ONLY <2>2, <2>3
<1>4. ASSUME NEW k \in Emitted, NEW i \in Extent(blk[k])
      PROVE  i \in Copied <=> i \in CopiedFrom(k)
  BY <1>2, <1>3 DEF Copied
<1> QED BY <1>1, <1>2, <1>4

\* A block, of those that are copied, adds what was copied from it.
LEMMA BlockKeeps ==
  ASSUME WellFormed(Now), live \subseteq DOMAIN blk, NEW k \in Emitted, NEW s \in ScanState,
         NEW kept, CopiedUpto(kept), Written(s, kept[blk[k].start - 1], blk[k].start - 1)
  PROVE  Written(FixBlock(s, k), kept[blk[k].end], blk[k].end)
<1>1. PICK first \in Nat \ {0}, last \in Nat :
        /\ first = blk[k].start /\ last = blk[k].end /\ first <= last /\ last <= Len(code) /\ Len(code) \in Nat
        /\ Extent(blk[k]) = first .. last /\ k \in DOMAIN blk
  BY OneBlock, NowFacts DEF Extent
<1>2. PICK scan : Scans(scan, s, k)
  BY <1>1, BlockScans
<1>3. /\ \A i \in first - 1 .. last : i \in 0 .. Len(code)
      /\ \A i \in first .. last : i \in 1 .. Len(code)
  BY <1>1
<1>4. /\ \A i \in first - 1 .. last : kept[i] \in Seq(1 .. Len(code))
      /\ \A i \in first .. last : kept[i] = IF i \in CopiedFrom(k) THEN Append(kept[i - 1], i) ELSE kept[i - 1]
  BY <1>1, <1>3, OneBlock DEF CopiedUpto
<1>5. CASE \E i \in Extent(blk[k]) : ~IsNop(i)
  <2>1. \A i \in first .. last : i \in CopiedFrom(k) <=> ~IsNop(i)
    BY <1>1, <1>5 DEF CopiedFrom
  <2>2. \A i \in first .. last : kept[i] = IF IsNop(i) THEN kept[i - 1] ELSE Append(kept[i - 1], i)
    BY <1>4, <2>1
  <2>3. Written(scan[last], kept[last], last) /\ scan[last].copied
    BY <1>1, <1>2, <1>4, <1>5, <2>2, BlockWritten
  <2> QED BY <1>1, <1>2, <2>3 DEF Scans
<1>6. CASE ~(\E i \in Extent(blk[k]) : ~IsNop(i))
  <2> DEFINE G == [i \in first - 1 .. last |-> kept[first - 1]]
  <2>1. CopiedFrom(k) = {last}
    BY <1>1, <1>6 DEF CopiedFrom
  <2>2. /\ \A i \in first - 1 .. last : G[i] = kept[first - 1] /\ G[i] \in Seq(1 .. Len(code))
        /\ \A i \in first .. last : G[i] = IF IsNop(i) THEN G[i - 1] ELSE Append(G[i - 1], i)
    <3>1. first - 1 \in first - 1 .. last /\ \A i \in first .. last : i \in first - 1 .. last /\ i - 1 \in first - 1 .. last
      BY <1>1
    <3> QED BY <1>1, <1>4, <1>6, <3>1
  <2> HIDE DEF G
  <2>3. first - 1 \in first - 1 .. last /\ last \in first - 1 .. last /\ last \in first .. last /\ last \in 1 .. Len(code)
    BY <1>1
  <2>4. /\ Written(scan[last], kept[first - 1], last) /\ scan[last] \in ScanState
        /\ scan[last].latest = ElementAt(last) /\ ~scan[last].copied
    <3>1. Written(s, G[first - 1], first - 1)
      BY <1>1, <2>2, <2>3
    <3>2. /\ Written(scan[last], G[last], last) /\ scan[last] \in ScanState
          /\ scan[last].latest = ElementAt(last)
          /\ scan[last].copied <=> \E h \in Extent(blk[k]) : ~IsNop(h)
      <4>1. /\ k \in Emitted /\ k \in DOMAIN blk /\ first = blk[k].start /\ last = blk[k].end
            /\ \A i \in blk[k].start - 1 .. blk[k].end : G[i] \in Seq(1 .. Len(code))
            /\ \A i \in blk[k].start .. blk[k].end : G[i] = IF IsNop(i) THEN G[i - 1] ELSE Append(G[i - 1], i)
            /\ Written(s, G[blk[k].start - 1], blk[k].start - 1)
        BY <1>1, <2>2, <3>1
      <4> QED BY ONLY <1>2, <4>1, WellFormed(Now), BlockWritten
    <3> QED BY <1>6, <2>2, <2>3, <3>2
  <2>5. kept[last] = Append(kept[first - 1], last)
    <3> DEFINE n == last - first
               S == {j \in 0 .. n : kept[first - 1 + j] = kept[first - 1]}
    <3>1. 0 \in S
      BY <1>1
    <3>2. ASSUME NEW j \in 1 .. n, j - 1 \in S
          PROVE  j \in S
      <4>1. PICK i : i = first - 1 + j
        OBVIOUS
      <4>2. i \in first .. last /\ i # last /\ i - 1 = first - 1 + (j - 1) /\ j \in 0 .. n
        <5>1. /\ first \in Nat \ {0} /\ last \in Nat /\ first <= last /\ j \in 1 .. last - first
              /\ n = last - first
          BY <1>1
        <5> HIDE DEF n
        <5> QED BY ONLY <4>1, <5>1
      <4>3. kept[i] = kept[i - 1]
        BY <1>4, <2>1, <4>2
      <4> QED BY <3>2, <4>1, <4>2, <4>3
    <3>3. S \in SUBSET (0 .. n) /\ n \in Nat /\ n \in 0 .. n /\ first - 1 + n = last - 1
      BY <1>1
    <3> HIDE DEF S, n
    <3>4. 0 .. n \subseteq S
      BY <3>1, <3>2, <3>3, Upward
    <3>5. kept[last - 1] = kept[first - 1]
      BY <3>3, <3>4 DEF S
    <3> QED BY <1>4, <2>1, <2>3, <3>5
  <2>6. PICK F \in Seq(1 .. Len(code)) : F = kept[first - 1]
    BY <1>4, <2>3
  <2>7. PICK v \in ScanState : v = WriteScopes(scan[last]) /\ Written(v, F, last) /\ v.waiting = <<>>
    <3>1. Len(F) \in Nat
      BY LenProperties
    <3> QED BY <2>4, <2>6, <3>1, WriteKeeps, WriteTyped
  <2>8. Written(Count(v, ElementAt(last)), Append(F, last), last)
    BY <2>3, <2>7, CountKeeps
  <2>9. FixBlock(s, k) = Count(v, ElementAt(last))
    BY <1>1, <1>2, <2>4, <2>7 DEF Scans
  <2> QED BY <1>1, <2>5, <2>6, <2>8, <2>9
<1> QED BY <1>5, <1>6

LEMMA BlockTyped ==
  ASSUME WellFormed(Now), NEW k \in DOMAIN blk, NEW s \in ScanState
  PROVE  FixBlock(s, k) \in ScanState
<1>1. PICK scan : Scans(scan, s, k)
  BY BlockScans
<1>2. PICK t \in ScanState : t = scan[blk[k].end]
  <2>1. blk[k].end \in blk[k].start - 1 .. blk[k].end
    BY NowFacts
  <2> QED BY <1>1, <2>1 DEF Scans
<1>3. PICK v \in ScanState : v = WriteScopes(t)
  BY WriteTyped
<1>4. t.latest \in 0 .. Len(notes)
  BY StateTyped
<1>5. Count(v, t.latest) \in ScanState
  BY <1>4, CountTyped
<1> QED BY <1>1, <1>2, <1>3, <1>5 DEF Scans

\* The blocks that are copied are scanned in order.
ScansAll(fixed) ==
  /\ fixed[0] = NothingFixed
  /\ \A k \in 0 .. Len(blk) : fixed[k] \in ScanState
  /\ \A k \in 1 .. Len(blk) : fixed[k] = IF k \in Emitted THEN FixBlock(fixed[k - 1], k) ELSE fixed[k - 1]
  /\ NewNotes = Flush(WriteScopes(fixed[Len(blk)])).out

LEMMA StartTyped ==
  ASSUME WellFormed(Now)
  PROVE  NothingFixed \in ScanState
<1>1. 0 \in 0 .. Len(notes) /\ <<>> \in Seq(Note)
  BY NowFacts, EmptySeq
<1> QED BY <1>1 DEF NothingFixed, ScanState, NoNote

LEMMA AllScanned ==
  ASSUME WellFormed(Now), live \subseteq DOMAIN blk
  PROVE  \E fixed : ScansAll(fixed)
<1> DEFINE n == Len(blk)
           Rec(g) == [k \in 0 .. n |-> IF k = 0 THEN NothingFixed
                                       ELSE IF k \in Emitted THEN FixBlock(g[k - 1], k) ELSE g[k - 1]]
           fixed == CHOOSE g : g = Rec(g)
           step == [k \in 1 .. n |-> [x \in ScanState |-> IF k \in Emitted THEN FixBlock(x, k) ELSE x]]
<1>1. n \in Nat /\ DOMAIN blk = 1 .. n
  BY NowFacts
<1>2. NewNotes = Flush(WriteScopes(fixed[n])).out
  BY DEF NewNotes
<1> HIDE DEF n
<1>3. /\ step \in [1 .. n -> [ScanState -> ScanState]]
      /\ \A k \in 1 .. n : \A x \in ScanState : step[k][x] = IF k \in Emitted THEN FixBlock(x, k) ELSE x
  <2>1. \A k \in 1 .. n : \A x \in ScanState : FixBlock(x, k) \in ScanState
    BY <1>1, BlockTyped
  <2> QED BY <2>1
<1> HIDE DEF step
<1>4. PICK t \in [0 .. n -> ScanState] : Iteration(t, n, NothingFixed, step)
  BY <1>1, <1>3, StartTyped, Iterates
<1>5. \E g : g = Rec(g)
  <2>1. ASSUME NEW k \in 0 .. n
        PROVE  t[k] = IF k = 0 THEN NothingFixed ELSE IF k \in Emitted THEN FixBlock(t[k - 1], k) ELSE t[k - 1]
    <3>1. CASE k = 0
      BY <1>4, <3>1 DEF Iteration
    <3>2. CASE k # 0
      <4>1. k \in 1 .. n /\ k - 1 \in 0 .. n
        BY <1>1, <3>2
      <4>2. t[k - 1] \in ScanState /\ t[k] = step[k][t[k - 1]]
        BY <1>4, <4>1 DEF Iteration
      <4> QED BY <1>3, <3>2, <4>1, <4>2
    <3> QED BY <3>1, <3>2
  <2>2. t = [k \in 0 .. n |-> t[k]]
    OBVIOUS
  <2>3. t = Rec(t)
    BY <2>1, <2>2
  <2> QED BY <2>3
<1>6. fixed = Rec(fixed)
  BY <1>5
<1>7. \A k \in 0 .. n : fixed[k] = IF k = 0 THEN NothingFixed
                                   ELSE IF k \in Emitted THEN FixBlock(fixed[k - 1], k) ELSE fixed[k - 1]
  <2> HIDE DEF fixed
  <2> QED BY <1>6
<1> HIDE DEF fixed, Rec
<1>8. fixed[0] = NothingFixed
  BY <1>1, <1>7
<1>9. \A k \in 1 .. n : fixed[k] = IF k \in Emitted THEN FixBlock(fixed[k - 1], k) ELSE fixed[k - 1]
  BY <1>1, <1>7
<1> DEFINE S == {k \in 0 .. n : fixed[k] \in ScanState}
<1>10. 0 .. n \subseteq S
  <2>1. 0 \in S
    BY <1>1, <1>8, StartTyped
  <2>2. ASSUME NEW k \in 1 .. n, k - 1 \in S
        PROVE  k \in S
    <3>1. FixBlock(fixed[k - 1], k) \in ScanState
      BY <1>1, <2>2, BlockTyped
    <3> QED BY <1>9, <2>2, <3>1
  <2>3. S \in SUBSET (0 .. n)
    OBVIOUS
  <2> HIDE DEF S
  <2> QED BY <1>1, <2>1, <2>2, <2>3, Upward
<1> QED BY <1>2, <1>8, <1>9, <1>10 DEF ScansAll, n

\* Nothing is copied from places that no block has that is copied.
LEMMA CopiedStays ==
  ASSUME WellFormed(Now), live \subseteq DOMAIN blk, NEW kept, CopiedUpto(kept),
         NEW i \in 0 .. Len(code), NEW l \in 0 .. Len(code), i <= l,
         \A k \in Emitted : \A h \in i + 1 .. l : h \notin Extent(blk[k]),
         NEW s, Written(s, kept[i], i)
  PROVE  Written(s, kept[l], l)
<1>1. \A h \in i + 1 .. l : h \notin Copied
  BY OneBlock DEF Copied
<1>2. \A j \in Anchored : ~(SumN(notes, j) + 1 \in i + 1 .. l)
  BY DEF Anchored
<1>3. kept[l] = kept[i]
  <2> DEFINE n == l - i
             S == {j \in 0 .. n : kept[i + j] = kept[i]}
  <2>1. 0 \in S
    OBVIOUS
  <2>2. ASSUME NEW j \in 1 .. n, j - 1 \in S
        PROVE  j \in S
    <3>1. PICK h : h = i + j
      OBVIOUS
    <3>2. h \in i + 1 .. l /\ h - 1 = i + (j - 1) /\ j \in 0 .. n /\ h \in 1 .. Len(code)
      BY <3>1, NowFacts
    <3>3. kept[h] = kept[h - 1]
      BY <1>1, <3>2 DEF CopiedUpto
    <3> QED BY <2>2, <3>1, <3>2, <3>3
  <2>3. S \in SUBSET (0 .. n) /\ n \in Nat /\ n \in 0 .. n /\ i + n = l
    BY NowFacts
  <2> HIDE DEF S, n
  <2>4. 0 .. n \subseteq S
    BY <2>1, <2>2, <2>3, Upward
  <2> QED BY <2>3, <2>4 DEF S
<1>4. i \in Int /\ l \in Int
  OBVIOUS
<1> QED BY <1>2, <1>3, <1>4, WrittenStays

\* Nothing has been written at first.
LEMMA StartWritten ==
  ASSUME WellFormed(Now)
  PROVE  Written(NothingFixed, <<>>, 0)
<1>1. /\ <<>> \in Seq(Note) /\ AllScopes(<<>>) /\ Len(<<>>) = 0
  BY EmptySeq DEF AllScopes
<1>2. SumN(<<>>, 0) = 0
  <2>1. PICK s \in Seq(Note) : s = <<>>
    BY <1>1
  <2> QED BY <1>1, <2>1, NotesCount, SumFacts
<1>3. HasScope(<<>>, 0 + 1, 0)
  <2>1. Scopes(<<>>) = {}
    BY DEF Scopes
  <2>2. \A j \in Anchored : ~(SumN(notes, j) < 0)
    BY NoteSums DEF Anchored
  <2> QED BY <2>1, <2>2 DEF HasScope, InScope
<1>4. /\ NothingFixed.current = NoNote /\ NothingFixed.count = 0
      /\ NothingFixed.waiting = <<>> /\ NothingFixed.out = <<>> /\ NoNote \in 0 .. Len(notes)
  BY NowFacts DEF NothingFixed, NoNote
<1> QED BY <1>1, <1>2, <1>3, <1>4 DEF Written

\* A layout: each place of it has the line and the scope of the place it was copied from.
Right(l, n, s, J) ==
  /\ l.from \in Seq(1 .. n) /\ Scopes(l.notes) \subseteq Int
  /\ SumN(l.notes, Len(l.notes)) = Len(l.from)
  /\ \A p \in 1 .. Len(l.from) :
       /\ LineAt(l.notes, p) = LineAt(s, l.from[p])
       /\ \E w : InScope(l.notes, Scopes(l.notes), p, w) /\ InScope(s, J, l.from[p], w)

LEMMA LaidRight ==
  ASSUME WellFormed(Now), live \subseteq DOMAIN blk
  PROVE  Right([from |-> InOrder(Copied), notes |-> NewNotes], Len(code), notes, Anchored)
<1>1. /\ Len(code) \in Nat /\ Len(blk) \in Nat /\ DOMAIN blk = 1 .. Len(blk)
      /\ \A k \in DOMAIN blk : /\ blk[k].start \in Nat \ {0} /\ blk[k].end \in Nat
                               /\ blk[k].start <= blk[k].end /\ blk[k].end <= Len(code)
      /\ \A k, l \in DOMAIN blk : k < l => blk[k].end < blk[l].start
      /\ Emitted \subseteq DOMAIN blk
  BY NowFacts, OneBlock
<1>2. PICK kept : /\ Collects(kept, Len(code), Copied, [i \in 1 .. Len(code) |-> i])
                  /\ \A i \in 0 .. Len(code) : kept[i] \in Seq(1 .. Len(code))
                  /\ InOrder(Copied) = kept[Len(code)]
  BY <1>1, InOrderFacts
<1>3. CopiedUpto(kept)
  <2>1. \A i \in 1 .. Len(code) : [h \in 1 .. Len(code) |-> h][i] = i
    OBVIOUS
  <2> QED BY <1>2, <2>1 DEF Collects, CopiedUpto
<1>4. PICK fixed : ScansAll(fixed)
  BY AllScanned
<1> DEFINE EndOf(k) == IF k = 0 THEN 0 ELSE blk[k].end
           Fine(k) == Written(fixed[k], kept[EndOf(k)], EndOf(k))
           S == {k \in 0 .. Len(blk) : Fine(k)}
<1>5. Fine(0)
  BY <1>3, <1>4, StartWritten DEF CopiedUpto, ScansAll
<1>6. ASSUME NEW k \in 1 .. Len(blk), Fine(k - 1)
      PROVE  Fine(k)
  <2>1. PICK e \in 0 .. Len(code), a \in 0 .. Len(code), b \in 0 .. Len(code) :
          e = EndOf(k - 1) /\ a = blk[k].start - 1 /\ b = EndOf(k) /\ e <= a /\ a < b /\ b = blk[k].end
    <3>1. k \in DOMAIN blk /\ (k # 1 => k - 1 \in DOMAIN blk /\ k - 1 < k) /\ k # 0
      BY <1>1
    <3>2. EndOf(k - 1) \in 0 .. Len(code) /\ EndOf(k - 1) <= blk[k].start - 1
      <4>1. CASE k = 1
        BY <1>1, <3>1, <4>1
      <4>2. CASE k # 1
        <5>1. k - 1 # 0 /\ EndOf(k - 1) = blk[k - 1].end
          BY <3>1, <4>2
        <5>2. /\ blk[k - 1].end \in Nat /\ blk[k - 1].end <= Len(code) /\ blk[k - 1].end < blk[k].start
              /\ blk[k].start \in Nat
          BY <1>1, <3>1, <4>2
        <5> HIDE DEF EndOf
        <5> QED BY <5>1, <5>2, <1>1
      <4> QED BY <4>1, <4>2
    <3>3. /\ blk[k].start - 1 \in 0 .. Len(code) /\ blk[k].end \in 0 .. Len(code) /\ EndOf(k) = blk[k].end
          /\ blk[k].start - 1 < blk[k].end
      BY <1>1, <3>1
    <3> HIDE DEF EndOf
    <3> QED BY <3>2, <3>3
  <2>2. ASSUME NEW l \in Emitted, l # k, NEW h \in Extent(blk[l])
        PROVE  h <= e \/ b < h
    <3>1. l \in DOMAIN blk /\ k \in DOMAIN blk /\ h \in blk[l].start .. blk[l].end
      BY <1>1 DEF Extent
    <3>2. CASE k < l
      BY <1>1, <2>1, <3>1, <3>2
    <3>3. CASE l < k
      <4>1. k - 1 \in DOMAIN blk /\ k - 1 # 0 /\ l <= k - 1
        BY <1>1, <3>1, <3>3
      <4>2. blk[l].end <= blk[k - 1].end
        <5>1. CASE l = k - 1
          BY <1>1, <3>1, <5>1
        <5>2. CASE l # k - 1
          <6>1. l < k - 1
            BY <1>1, <3>1, <4>1, <5>2
          <6>2. /\ blk[l].end < blk[k - 1].start /\ blk[k - 1].start <= blk[k - 1].end
                /\ blk[l].end \in Nat /\ blk[k - 1].start \in Nat /\ blk[k - 1].end \in Nat
            BY <1>1, <3>1, <4>1, <6>1
          <6> QED BY <6>2
        <5> QED BY <5>1, <5>2
      <4>3. e = blk[k - 1].end
        BY <2>1, <4>1
      <4>4. blk[l].end \in Nat /\ blk[k - 1].end \in Nat /\ blk[l].start \in Nat
        BY <1>1, <3>1, <4>1
      <4> QED BY <3>1, <4>2, <4>3, <4>4
    <3>4. k < l \/ l < k
      BY <1>1, <2>2, <3>1
    <3> QED BY <3>2, <3>3, <3>4
  <2>3. Written(fixed[k - 1], kept[e], e)
    BY <1>6, <2>1
  <2>4. k - 1 \in 0 .. Len(blk) /\ fixed[k - 1] \in ScanState
    BY <1>1, <1>4 DEF ScansAll
  <2> HIDE DEF EndOf, Fine
  <2>5. CASE k \in Emitted
    <3>1. \A l \in Emitted : \A h \in e + 1 .. a : h \notin Extent(blk[l])
      <4>1. SUFFICES ASSUME NEW l \in Emitted, NEW h \in e + 1 .. a, h \in Extent(blk[l]) PROVE FALSE
        OBVIOUS
      <4>2. CASE l # k
        <5>1. h <= e \/ b < h
          BY ONLY <2>2, <4>1, <4>2
        <5>2. e \in Nat /\ a \in Nat /\ b \in Nat /\ a < b /\ h \in e + 1 .. a
          BY <1>1, <2>1, <4>1
        <5> QED BY ONLY <5>1, <5>2
      <4>3. CASE l = k
        BY <1>1, <2>1, <4>1, <4>3 DEF Extent
      <4> QED BY <4>2, <4>3
    <3>2. Written(fixed[k - 1], kept[a], a)
      <4>1. e <= a
        BY <2>1
      <4> QED BY <1>3, <2>3, <3>1, <4>1, CopiedStays
    <3>3. Written(FixBlock(fixed[k - 1], k), kept[b], b)
      BY <1>3, <2>1, <2>4, <2>5, <3>2, BlockKeeps
    <3>4. fixed[k] = FixBlock(fixed[k - 1], k)
      BY <1>4, <2>5 DEF ScansAll
    <3> QED BY <2>1, <3>3, <3>4 DEF Fine
  <2>6. CASE k \notin Emitted
    <3>1. \A l \in Emitted : \A h \in e + 1 .. b : h \notin Extent(blk[l])
      <4>1. SUFFICES ASSUME NEW l \in Emitted, NEW h \in e + 1 .. b, h \in Extent(blk[l]) PROVE FALSE
        OBVIOUS
      <4>2. l # k
        BY <2>6, <4>1
      <4>3. h <= e \/ b < h
        BY <2>2, <4>1, <4>2
      <4>4. e \in Int /\ b \in Int /\ h \in e + 1 .. b
        BY <1>1
      <4> QED BY ONLY <4>3, <4>4
    <3>2. Written(fixed[k - 1], kept[b], b)
      <4>1. e <= b
        BY <2>1
      <4>2. CopiedUpto(kept) /\ Written(fixed[k - 1], kept[e], e) /\ e \in 0 .. Len(code) /\ b \in 0 .. Len(code)
        BY <1>3, <2>3
      <4> QED BY ONLY <3>1, <4>1, <4>2, WellFormed(Now), live \subseteq DOMAIN blk, CopiedStays
    <3>3. fixed[k] = fixed[k - 1]
      BY <1>4, <2>6 DEF ScansAll
    <3> QED BY <2>1, <3>2, <3>3 DEF Fine
  <2> QED BY <2>5, <2>6
<1> HIDE DEF Fine
<1>7. 0 .. Len(blk) \subseteq S
  <2>1. 0 \in S
    BY <1>1, <1>5
  <2>2. ASSUME NEW k \in 1 .. Len(blk), k - 1 \in S
        PROVE  k \in S
    BY <1>6, <2>2
  <2>3. S \in SUBSET (0 .. Len(blk))
    OBVIOUS
  <2> HIDE DEF S
  <2> QED BY <1>1, <2>1, <2>2, <2>3, Upward
<1>8. PICK n \in 0 .. Len(blk), s \in ScanState, e \in 0 .. Len(code) :
        n = Len(blk) /\ s = fixed[n] /\ e = EndOf(n) /\ Written(s, kept[e], e)
  <2>1. Len(blk) \in 0 .. Len(blk) /\ EndOf(Len(blk)) \in 0 .. Len(code)
    BY <1>1
  <2>2. Fine(Len(blk)) /\ fixed[Len(blk)] \in ScanState
    BY <1>4, <1>7, <2>1 DEF ScansAll
  <2> HIDE DEF EndOf
  <2> QED BY <2>1, <2>2 DEF Fine
<1>9. PICK F \in Seq(1 .. Len(code)) : F = kept[Len(code)] /\ Len(F) \in Nat
  <2>1. Len(code) \in 0 .. Len(code)
    BY <1>1
  <2> QED BY <1>2, <2>1, LenProperties
<1>10. Written(s, F, Len(code))
  <2>1. Len(code) \in 0 .. Len(code) /\ e <= Len(code)
    BY <1>1
  <2>2. \A l \in Emitted : \A h \in e + 1 .. Len(code) : h \notin Extent(blk[l])
    <3>1. SUFFICES ASSUME NEW l \in Emitted, NEW h \in e + 1 .. Len(code), h \in Extent(blk[l]) PROVE FALSE
      OBVIOUS
    <3>2. l \in DOMAIN blk /\ n \in DOMAIN blk /\ l <= n /\ n # 0
      BY <1>1, <1>8
    <3>3. blk[l].end <= blk[n].end
      BY <1>1, <3>2
    <3>4. e = blk[n].end
      BY <1>8, <3>2
    <3>5. h <= blk[l].end /\ blk[l].end \in Nat /\ blk[n].end \in Nat /\ e < h /\ h \in Int
      BY <1>1, <3>1, <3>2 DEF Extent
    <3> QED BY <3>3, <3>4, <3>5
  <2> HIDE DEF EndOf
  <2> QED BY <1>3, <1>8, <1>9, <2>1, <2>2, CopiedStays
<1>11. PICK v \in ScanState : v = WriteScopes(s) /\ Written(v, F, Len(code))
  BY <1>9, <1>10, WriteKeeps, WriteTyped
<1>12. PICK f \in ScanState : /\ f = Flush(v) /\ Written(f, F, Len(code))
                              /\ SumN(f.out, Len(f.out)) = Len(F)
  BY <1>9, <1>11, FlushKeeps, FlushTyped
<1>13. NewNotes = f.out /\ InOrder(Copied) = F
  BY <1>2, <1>4, <1>8, <1>9, <1>11, <1>12 DEF ScansAll
<1>14. \A p \in 1 .. Len(F) :
         /\ LineAt(f.out, p) = LineAt(notes, F[p])
         /\ \E w : InScope(f.out, Scopes(f.out), p, w) /\ InScope(notes, Anchored, F[p], w)
  <2>1. \A p \in 1 .. Len(F) : /\ p <= SumN(f.out, Len(f.out)) => LineAt(f.out, p) = LineAt(notes, F[p])
                              /\ HasScope(f.out, p, F[p])
    BY ONLY <1>12 DEF Written
  <2>2. \A p \in 1 .. Len(F) : p <= SumN(f.out, Len(f.out))
    BY ONLY <1>12
  <2> QED BY ONLY <2>1, <2>2 DEF HasScope
<1>15. Scopes(f.out) \subseteq Int
  <2>1. f.out \in Seq(Note)
    BY <1>12 DEF Written
  <2>2. DOMAIN f.out = 1 .. Len(f.out)
    BY <2>1, NotesCount
  <2> QED BY <2>2 DEF Scopes
<1> QED BY <1>12, <1>13, <1>14, <1>15 DEF Right

-----------------------------------------------------------------------------
(***************************************************************************)
(* Every program laid out.                                                 *)
(***************************************************************************)
\* A program is laid out once, when nothing is left to be optimized.
LaidInv == laid # NotLaid => status = "done" /\ Right(laid, Len(code), notes, Anchored)

LEMMA LaidStarts ==
  ASSUME AInit
  PROVE  LaidInv
BY DEF AInit, LaidInv

\* What was laid out stays.
LEMMA LaidIdle ==
  ASSUME LaidInv, UNCHANGED avars
  PROVE  LaidInv'
<1>1. UNCHANGED <<code, blk, entry, notes, live, status, laid>>
  BY DEF avars, ivars
<1>2. Anchored' = Anchored
  BY <1>1 DEF Anchored, Emitted, IsEntry, IsNop, Extent, Scopes
<1> QED BY <1>1, <1>2 DEF LaidInv

LEMMA LaidStep ==
  ASSUME JInv, LaidInv, [ANext]_avars
  PROVE  LaidInv'
<1>1. CASE UNCHANGED avars
  BY <1>1, LaidIdle
<1>2. CASE Next /\ UNCHANGED laid
  <2>1. status = "working"
    BY <1>2 DEF Next, Inline, ResolveMethod, ProcessInsertions, FinishBlock, Scanning
  <2>2. laid = NotLaid
    BY <2>1 DEF LaidInv
  <2> QED BY <1>2, <2>2 DEF LaidInv, NotLaid
<1>3. CASE LayOut
  <2>1. /\ UNCHANGED <<code, blk, entry, notes, live, status>> /\ status = "done"
        /\ laid' = [from |-> InOrder(Copied), notes |-> NewNotes]
    BY <1>3 DEF LayOut, ivars, Copied
  <2>2. WellFormed(Now) /\ live \subseteq DOMAIN blk
    BY DEF JInv, Turn
  <2>3. Right([from |-> InOrder(Copied), notes |-> NewNotes], Len(code), notes, Anchored)
    BY <2>2, LaidRight
  <2>4. Anchored' = Anchored
    BY <2>1 DEF Anchored, Emitted, IsEntry, IsNop, Extent, Scopes
  <2> QED BY <2>1, <2>3, <2>4 DEF LaidInv
<1> QED BY <1>1, <1>2, <1>3 DEF ANext

\* Lines and scopes follow.
LEMMA LinesFollow ==
  ASSUME LaidInv
  PROVE  LinesKept
<1>1. SUFFICES ASSUME laid # NotLaid PROVE LinesKept
  BY DEF LinesKept
<1>2. Right(laid, Len(code), notes, Anchored)
  BY <1>1 DEF LaidInv
<1>3. \A p \in Real : p \in 1 .. Len(laid.from)
  BY <1>2, LenProperties DEF Real, Right
<1> QED BY <1>2, <1>3 DEF LinesKept, Right

LEMMA ScopesFollow ==
  ASSUME WellFormed(Now), LaidInv
  PROVE  ScopesKept
<1>1. SUFFICES ASSUME laid # NotLaid PROVE StillIn(Anchored)
  BY DEF ScopesKept, Anchored
<1>2. Right(laid, Len(code), notes, Anchored)
  BY <1>1 DEF LaidInv
<1>3. \A p \in Real : p \in 1 .. Len(laid.from)
  BY <1>2, LenProperties DEF Real, Right
<1>4. ASSUME NEW p \in Real
      PROVE  ScopeAt(laid.notes, Scopes(laid.notes), p) = ScopeAt(notes, Anchored, laid.from[p])
  <2>1. PICK w : /\ InScope(laid.notes, Scopes(laid.notes), p, w)
                 /\ InScope(notes, Anchored, laid.from[p], w)
    BY <1>2, <1>3 DEF Right
  <2>2. Anchored \in SUBSET Int
    BY NoteSums DEF Anchored
  <2>3. Scopes(laid.notes) \in SUBSET Int
    BY <1>2 DEF Right
  <2>4. ScopeAt(laid.notes, Scopes(laid.notes), p) = w
    BY <2>1, <2>3, ScopeIs
  <2>5. ScopeAt(notes, Anchored, laid.from[p]) = w
    BY <2>1, <2>2, ScopeIs
  <2> QED BY <2>4, <2>5
<1> QED BY <1>4 DEF StillIn

\* What was laid out gives each instruction the line and the scope it had.
THEOREM LaysRight == ASpec => []LaidInv
<1>1. AInit => LaidInv
  BY LaidStarts
<1>2. JInv /\ LaidInv /\ [ANext]_avars => LaidInv'
  BY LaidStep
<1> QED BY <1>1, <1>2, StaysRight, PTL DEF ASpec

\* Each instruction of the final program has the source line it had, whatever was inserted
\* before: blockcomposer_fixannotations loses and shifts no line (layout.c).
THEOREM LinesStay == ASpec => []LinesKept
<1>1. LaidInv => LinesKept
  BY LinesFollow
<1> QED BY <1>1, LaysRight, PTL

\* Each instruction stays in its function or class, of those anchored in a block that is
\* copied.
THEOREM ScopesStay == ASpec => []ScopesKept
<1>1. JInv /\ LaidInv => ScopesKept
  BY ScopesFollow DEF JInv
<1> QED BY <1>1, LaysRight, StaysRight, PTL
=============================================================================
