---------------------------- MODULE FlattenLemmas ----------------------------
(***************************************************************************)
(* What FlattenSeq of SequencesExt computes, for sequences of any length.  *)
(* The facts are inductions over the length.  The induction rule of the    *)
(* library takes the formula as a parameter, which the provers cannot      *)
(* instantiate, so each proof takes the least counterexample instead       *)
(* (LeastNat), which is a set and needs no parameter.                      *)
(***************************************************************************)
EXTENDS SequencesExt, SequenceTheorems, WellFoundedInduction, TLAPS

\* A set of numbers that is not empty has a least element.
LEMMA LeastNat ==
  ASSUME NEW T \in SUBSET Nat, T # {}
  PROVE  \E m \in T : \A k \in T : m <= k
  <1> DEFINE R == OpToRel(<, Nat)
  <1>1. IsWellFoundedOn(R, Nat)
    BY NatLessThanWellFounded
  <1>2. \A i, j \in Nat : i < j => <<i, j>> \in R
    BY DEF OpToRel
  <1> HIDE DEF R
  <1>3. PICK m \in T : \A k \in T : ~ (<<k, m>> \in R)
    BY <1>1, WFMin
  <1>4. ASSUME NEW k \in T PROVE m <= k
    <2>1. k \in Nat /\ m \in Nat /\ ~ (k < m)
      BY <1>2, <1>3
    <2> QED
      BY <2>1
  <1> QED
    BY <1>4

\* The laws of \o as quantified facts.
LEMMA ConcatLaws ==
  ASSUME NEW S
  PROVE  /\ \A x, y, z \in Seq(S) : (x \o y) \o z = x \o (y \o z)
         /\ \A x \in Seq(S) : x \o << >> = x /\ << >> \o x = x
         /\ \A x, y \in Seq(S) : x \o y \in Seq(S)
  <1>1. \A x, y, z \in Seq(S) : (x \o y) \o z = x \o (y \o z)
    BY ConcatAssociative
  <1>2. \A x \in Seq(S) : x \o << >> = x /\ << >> \o x = x
    BY ConcatEmptySeq
  <1>3. \A x, y \in Seq(S) : x \o y \in Seq(S)
    BY ConcatProperties
  <1> QED
    BY <1>1, <1>2, <1>3

\* g[i] is the concatenation of the first i of the n sequences in ss; the
\* recursion of FlattenSeq.
IsFlatten(ss, n, g) ==
  g = [i \in 1 .. n |-> IF i = 1 THEN ss[i] ELSE g[i - 1] \o ss[i]]

\* There is such a g.
LEMMA FlattenExists ==
  ASSUME NEW ss
  PROVE  \A n \in Nat : \E g : IsFlatten(ss, n, g)
  <1> DEFINE T == {n \in Nat : ~ \E g : IsFlatten(ss, n, g)}
  <1> SUFFICES ASSUME T # {} PROVE FALSE
    OBVIOUS
  <1>1. PICK m \in T : \A k \in T : m <= k
    BY LeastNat
  <1>2. CASE m = 0
    <2> DEFINE g == [i \in 1 .. 0 |-> ss[i]]
    <2>1. IsFlatten(ss, 0, g)
      BY DEF IsFlatten
    <2> QED
      BY <1>2, <2>1
  <1>3. CASE m # 0
    <2>1. m \in Nat /\ m - 1 \in Nat /\ m - 1 \notin T
      BY <1>1, <1>3
    <2>2. PICK g : IsFlatten(ss, m - 1, g)
      BY <2>1
    <2> DEFINE h == [i \in 1 .. m |->
                       IF i = 1 THEN ss[i]
                       ELSE IF i = m THEN g[m - 1] \o ss[i] ELSE g[i]]
    <2>3. \A i \in 1 .. m - 1 : g[i] = IF i = 1 THEN ss[i] ELSE g[i - 1] \o ss[i]
      BY <2>2 DEF IsFlatten
    <2>4. \A i \in 1 .. m - 1 : h[i] = g[i]
      BY <2>1, <2>3
    <2>5. \A i \in 1 .. m : h[i] = IF i = 1 THEN ss[i] ELSE h[i - 1] \o ss[i]
      <3> SUFFICES ASSUME NEW i \in 1 .. m, i # 1 PROVE h[i] = h[i - 1] \o ss[i]
        BY <2>1
      <3>1. i - 1 \in 1 .. m - 1
        BY <2>1
      <3>2. CASE i = m
        BY <2>4, <3>1, <3>2
      <3>3. CASE i # m
        <4>1. i \in 1 .. m - 1
          BY <2>1, <3>3
        <4> QED
          BY <2>3, <2>4, <3>1, <4>1
      <3> QED
        BY <3>2, <3>3
    <2>6. h = [i \in 1 .. m |-> h[i]]
      OBVIOUS
    <2>7. IsFlatten(ss, m, h)
      <3> HIDE DEF h
      <3> QED
        BY <2>5, <2>6 DEF IsFlatten
    <2> QED
      BY <2>1, <2>7
  <1> QED
    BY <1>2, <1>3

\* FlattenSeq is its last value.
LEMMA FlattenRecursion ==
  ASSUME NEW S, NEW ss \in Seq(Seq(S)), ss # << >>
  PROVE  \E g : IsFlatten(ss, Len(ss), g) /\ FlattenSeq(ss) = g[Len(ss)]
  <1> DEFINE f == CHOOSE g : IsFlatten(ss, Len(ss), g)
  <1>1. Len(ss) \in Nat /\ Len(ss) # 0
    BY EmptySeq, LenProperties
  <1>2. IsFlatten(ss, Len(ss), f)
    BY <1>1, FlattenExists
  <1>3. FlattenSeq(ss) = f[Len(ss)]
    BY <1>1, Zenon DEF FlattenSeq, IsFlatten
  <1> QED
    BY <1>2, <1>3

\* The values of g are sequences over the same set.
LEMMA FlattenType ==
  ASSUME NEW S, NEW n \in Nat, NEW ss \in [1 .. n -> Seq(S)],
         NEW g, IsFlatten(ss, n, g)
  PROVE  \A i \in 1 .. n : g[i] \in Seq(S)
  <1> DEFINE T == {i \in Nat : i \in 1 .. n /\ g[i] \notin Seq(S)}
  <1> SUFFICES ASSUME T # {} PROVE FALSE
    OBVIOUS
  <1>1. PICK m \in T : \A k \in T : m <= k
    BY LeastNat
  <1>2. m \in 1 .. n /\ g[m] \notin Seq(S) /\ ss[m] \in Seq(S)
    OBVIOUS
  <1>3. g[m] = IF m = 1 THEN ss[m] ELSE g[m - 1] \o ss[m]
    BY <1>2 DEF IsFlatten
  <1>4. m # 1 => m - 1 \in 1 .. n /\ m - 1 \notin T
    BY <1>1, <1>2
  <1>5. m # 1 => g[m - 1] \in Seq(S)
    BY <1>2, <1>4
  <1> QED
    BY <1>2, <1>3, <1>5, ConcatProperties

\* The type of FlattenSeq.
LEMMA FlattenInSeq ==
  ASSUME NEW S, NEW ss \in Seq(Seq(S))
  PROVE  FlattenSeq(ss) \in Seq(S)
  <1>1. CASE ss = << >>
    BY <1>1 DEF FlattenSeq
  <1>2. CASE ss # << >>
    <2>1. Len(ss) \in Nat \ {0} /\ ss \in [1 .. Len(ss) -> Seq(S)]
      BY <1>2, EmptySeq, LenProperties
    <2>2. PICK g : IsFlatten(ss, Len(ss), g) /\ FlattenSeq(ss) = g[Len(ss)]
      BY <1>2, FlattenRecursion
    <2> QED
      BY <2>1, <2>2, FlattenType
  <1> QED
    BY <1>1, <1>2

\* One sequence alone.
LEMMA FlattenSingleton ==
  ASSUME NEW S, NEW s \in Seq(S)
  PROVE  FlattenSeq(<< s >>) = s
  <1>1. << s >> \in Seq(Seq(S)) /\ << s >> # << >> /\ Len(<< s >>) = 1
    OBVIOUS
  <1>2. PICK g : IsFlatten(<< s >>, 1, g) /\ FlattenSeq(<< s >>) = g[1]
    BY <1>1, FlattenRecursion
  <1>3. g[1] = << s >>[1]
    BY <1>2 DEF IsFlatten
  <1> QED
    BY <1>2, <1>3

\* FlattenSeq distributes over concatenation.
LEMMA FlattenConcat ==
  ASSUME NEW S, NEW a \in Seq(Seq(S)), NEW b \in Seq(Seq(S))
  PROVE  FlattenSeq(a \o b) = FlattenSeq(a) \o FlattenSeq(b)
  <1> DEFINE c == a \o b
             m == Len(a)
             n == Len(b)
  <1>1. /\ m \in Nat /\ n \in Nat
        /\ a \in [1 .. m -> Seq(S)] /\ b \in [1 .. n -> Seq(S)]
    BY LenProperties
  <1>2. /\ c \in Seq(Seq(S)) /\ Len(c) = m + n
        /\ \A i \in 1 .. m + n : c[i] = IF i <= m THEN a[i] ELSE b[i - m]
    BY ConcatProperties
  <1>3. FlattenSeq(a) \in Seq(S) /\ FlattenSeq(b) \in Seq(S)
    BY FlattenInSeq
  <1>4. CASE a = << >>
    <2>1. c = b /\ FlattenSeq(a) = << >>
      BY <1>4, ConcatEmptySeq DEF FlattenSeq
    <2> QED
      BY <1>3, <2>1, ConcatEmptySeq
  <1>5. CASE b = << >>
    <2>1. c = a /\ FlattenSeq(b) = << >>
      BY <1>5, ConcatEmptySeq DEF FlattenSeq
    <2> QED
      BY <1>3, <2>1, ConcatEmptySeq
  <1>6. CASE a # << >> /\ b # << >>
    <2>1. m \in Nat \ {0} /\ n \in Nat \ {0} /\ c # << >>
      BY <1>1, <1>2, <1>6, EmptySeq
    <2> HIDE DEF c, m, n
    <2>2. PICK f : IsFlatten(c, m + n, f) /\ FlattenSeq(c) = f[m + n]
      BY <1>2, <2>1, FlattenRecursion DEF c
    <2>3. PICK g : IsFlatten(a, m, g) /\ FlattenSeq(a) = g[m]
      BY <1>6, FlattenRecursion DEF m
    <2>4. PICK h : IsFlatten(b, n, h) /\ FlattenSeq(b) = h[n]
      BY <1>6, FlattenRecursion DEF n
    <2>5. /\ \A i \in 1 .. m + n : f[i] = IF i = 1 THEN c[i] ELSE f[i - 1] \o c[i]
          /\ \A i \in 1 .. m : g[i] = IF i = 1 THEN a[i] ELSE g[i - 1] \o a[i]
          /\ \A i \in 1 .. n : h[i] = IF i = 1 THEN b[i] ELSE h[i - 1] \o b[i]
      BY <2>2, <2>3, <2>4 DEF IsFlatten
    <2>6. \A i \in 1 .. n : h[i] \in Seq(S)
      BY <1>1, <2>4, FlattenType
    <2>7. \A i \in 1 .. m : f[i] = g[i]
      <3> DEFINE T == {i \in Nat : i \in 1 .. m /\ f[i] # g[i]}
      <3> SUFFICES ASSUME T # {} PROVE FALSE
        OBVIOUS
      <3>1. PICK k \in T : \A j \in T : k <= j
        BY LeastNat
      <3>2. k \in 1 .. m /\ k \in 1 .. m + n /\ c[k] = a[k]
        BY <1>1, <1>2, <2>1
      <3>3. k # 1 => k - 1 \in 1 .. m /\ k - 1 \notin T
        BY <1>1, <3>1, <3>2
      <3>4. k # 1 => f[k - 1] = g[k - 1]
        BY <3>2, <3>3
      <3> QED
        BY <2>5, <3>2, <3>4
    <2>8. g[m] \in Seq(S)
      BY <1>3, <2>3
    <2> DEFINE Split(j) == f[m + j] = g[m] \o h[j]
               T == {j \in Nat : j \in 1 .. n /\ ~ Split(j)}
    <2>9. \A k \in 1 .. n : f[m + k] = f[m + (k - 1)] \o b[k]
      <3> SUFFICES ASSUME NEW k \in 1 .. n PROVE f[m + k] = f[m + (k - 1)] \o b[k]
        OBVIOUS
      <3>1. /\ m + k \in 1 .. m + n /\ m + k # 1
            /\ c[m + k] = b[k]
        BY <1>1, <1>2, <2>1
      <3>2. \A i \in 1 .. m + n : i # 1 => f[i] = f[i - 1] \o c[i]
        BY <2>5
      <3>3. PICK i : i = m + k
        OBVIOUS
      <3>4. i \in 1 .. m + n /\ i # 1 /\ i - 1 = m + (k - 1)
        BY <1>1, <3>1, <3>3
      <3>5. f[i] = f[i - 1] \o c[i]
        BY <3>2, <3>4, Zenon
      <3> QED
        BY <3>1, <3>3, <3>4, <3>5, Zenon
    <2>10. Split(1)
      <3>1. 1 \in 1 .. n /\ m \in 1 .. m /\ m + (1 - 1) = m
        BY <1>1, <2>1
      <3>2. h[1] = b[1] /\ f[m] = g[m]
        BY <2>5, <2>7, <3>1, Zenon
      <3> QED
        BY <2>9, <3>1, <3>2, Zenon
    <2>11. ASSUME NEW k \in 1 .. n, k - 1 \in 1 .. n, Split(k - 1)
           PROVE  Split(k)
      <3>1. k # 1
        BY <1>1, <2>1, <2>11
      <3>2. h[k - 1] \in Seq(S) /\ b[k] \in Seq(S)
        BY <1>1, <2>6, <2>11
      <3>3. h[k] = h[k - 1] \o b[k]
        BY <2>5, <3>1, Zenon
      <3>4. f[m + k] = (g[m] \o h[k - 1]) \o b[k]
        BY <2>9, <2>11, <3>1, Zenon
      <3>5. \A x, y, z \in Seq(S) : (x \o y) \o z = x \o (y \o z)
        BY ConcatLaws
      <3>6. (g[m] \o h[k - 1]) \o b[k] = g[m] \o (h[k - 1] \o b[k])
        BY <2>8, <3>2, <3>5, Zenon
      <3> QED
        BY <3>3, <3>4, <3>6, Zenon
    <2>12. \A j \in 1 .. n : Split(j)
      <3> HIDE DEF Split
      <3> SUFFICES ASSUME T # {} PROVE FALSE
        <4>1. \A j \in 1 .. n : j \in Nat
          BY <1>1
        <4> QED
          BY <4>1, Zenon
      <3>1. PICK k \in T : \A j \in T : k <= j
        BY LeastNat
      <3>2. k \in 1 .. n /\ ~ Split(k)
        BY <1>1, <3>1
      <3>3. k # 1 => k - 1 \in 1 .. n /\ k - 1 \notin T
        BY <1>1, <3>1, <3>2
      <3>4. k # 1 => Split(k - 1)
        BY <1>1, <3>3
      <3> QED
        BY <2>10, <2>11, <3>2, <3>3, <3>4
    <2>13. n \in 1 .. n
      BY <2>1
    <2>14. f[m + n] = g[m] \o h[n]
      BY <2>12, <2>13, Zenon
    <2> QED
      BY <2>2, <2>3, <2>4, <2>14, Zenon DEF c
  <1> QED
    BY <1>4, <1>5, <1>6

\* Sequences of one element each, followed by empty ones.
LEMMA FlattenUnits ==
  ASSUME NEW S, NEW n \in Nat, NEW k \in 0 .. n, NEW w \in [1 .. k -> S],
         NEW ss \in Seq(Seq(S)), Len(ss) = n,
         \A i \in 1 .. n : ss[i] = IF i <= k THEN << w[i] >> ELSE << >>
  PROVE  FlattenSeq(ss) = w
  <1>1. CASE n = 0
    <2>1. ss = << >> /\ k = 0
      BY <1>1, EmptySeq
    <2>2. w = << >>
      BY <2>1
    <2> QED
      BY <2>1, <2>2 DEF FlattenSeq
  <1>2. CASE n # 0
    <2>1. ss # << >>
      BY <1>2, EmptySeq
    <2>2. PICK g : IsFlatten(ss, n, g) /\ FlattenSeq(ss) = g[n]
      BY <2>1, FlattenRecursion
    <2>3. \A i \in 1 .. n : g[i] = IF i = 1 THEN ss[i] ELSE g[i - 1] \o ss[i]
      BY <2>2 DEF IsFlatten
    <2> DEFINE FirstOf(i) == [j \in 1 .. (IF i <= k THEN i ELSE k) |-> w[j]]
               Done(i) == g[i] = FirstOf(i)
               T == {i \in Nat : i \in 1 .. n /\ ~ Done(i)}
    <2>4. Done(1)
      <3>1. 1 \in 1 .. n /\ g[1] = ss[1]
        BY <1>2, <2>3
      <3>2. CASE 1 <= k
        BY <3>1, <3>2
      <3>3. CASE k = 0
        BY <3>1, <3>3
      <3> QED
        BY <3>2, <3>3
    <2>5. ASSUME NEW i \in 1 .. n, i - 1 \in 1 .. n, Done(i - 1)
          PROVE  Done(i)
      <3>0. i # 1 /\ i \in Nat /\ i - 1 \in Nat
        BY <2>5
      <3>1. g[i] = FirstOf(i - 1) \o ss[i]
        BY <2>3, <2>5, <3>0, Zenon
      <3>2. CASE i <= k
        <4>1. FirstOf(i - 1) = [j \in 1 .. i - 1 |-> w[j]] /\ ss[i] = << w[i] >>
          BY <3>0, <3>2
        <4>2. FirstOf(i) = [j \in 1 .. i |-> w[j]]
          BY <3>2
        <4> DEFINE u == [j \in 1 .. i - 1 |-> w[j]]
                   v == [j \in 1 .. i |-> w[j]]
        <4>3. /\ u \in Seq(S) /\ Len(u) = i - 1 /\ w[i] \in S
              /\ v \in Seq(S) /\ Len(v) = i
              /\ \A j \in 1 .. i - 1 : u[j] = w[j]
              /\ \A j \in 1 .. i : v[j] = w[j]
          BY <3>0, <3>2
        <4> HIDE DEF u, v
        <4>5. u \o << w[i] >> = v
          <5>1. /\ u \o << w[i] >> \in Seq(S) /\ Len(u \o << w[i] >>) = i
                /\ \A j \in 1 .. i : (u \o << w[i] >>)[j] = w[j]
            BY <3>0, <3>2, <4>3
          <5> QED
            BY <4>3, <5>1, SeqEqual
        <4>4. FirstOf(i - 1) \o << w[i] >> = [j \in 1 .. i |-> w[j]]
          BY <4>1, <4>5, Zenon DEF u, v
        <4> QED
          BY <3>1, <4>1, <4>2, <4>4
      <3>3. CASE i > k
        <4>1. FirstOf(i - 1) = w /\ FirstOf(i) = w /\ ss[i] = << >>
          BY <3>0, <3>3
        <4>2. w \o << >> = w
          BY ConcatEmptySeq
        <4> QED
          BY <3>1, <4>1, <4>2
      <3> QED
        BY <3>0, <3>2, <3>3
    <2>6. \A i \in 1 .. n : Done(i)
      <3> HIDE DEF Done
      <3> SUFFICES ASSUME T # {} PROVE FALSE
        <4>1. \A j \in 1 .. n : j \in Nat
          OBVIOUS
        <4> QED
          BY <4>1, Zenon
      <3>1. PICK i \in T : \A j \in T : i <= j
        BY LeastNat
      <3>2. i \in 1 .. n /\ ~ Done(i)
        BY <3>1
      <3>3. i # 1 => i - 1 \in 1 .. n /\ i - 1 \notin T
        BY <3>1, <3>2
      <3>4. i # 1 => Done(i - 1)
        BY <3>3
      <3> QED
        BY <2>4, <2>5, <3>2, <3>3, <3>4
    <2>7. g[n] = FirstOf(n) /\ n \in 1 .. n
      BY <1>2, <2>6
    <2>8. FirstOf(n) = w
      OBVIOUS
    <2> QED
      BY <2>2, <2>7, <2>8
  <1> QED
    BY <1>1, <1>2

\* Nothing but empty sequences.
LEMMA FlattenEmpty ==
  ASSUME NEW S, NEW q \in Seq(Seq(S)), \A k \in 1 .. Len(q) : q[k] = <<>>
  PROVE  FlattenSeq(q) = <<>>
  <1> DEFINE n == Len(q)
             w == <<>>
  <1>1. n \in Nat /\ 0 \in 0 .. n /\ Len(q) = n /\ w \in [1 .. 0 -> S]
    OBVIOUS
  <1>2. \A k \in 1 .. n : q[k] = IF k <= 0 THEN <<w[k]>> ELSE <<>>
    BY <1>1
  <1> HIDE DEF n, w
  <1>3. FlattenSeq(q) = w
    BY <1>1, <1>2, FlattenUnits
  <1> QED
    BY <1>3 DEF w

=============================================================================
