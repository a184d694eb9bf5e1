---------------------------- MODULE FlattenProofs ----------------------------
(***************************************************************************)
(* What FlattenSeq makes of a sequence of sequences, for the proofs about  *)
(* blobs and about schemas.  It is a recursive function, and so the lemmas *)
(* about it are by induction, in the form of the least counterexample.     *)
(***************************************************************************)
EXTENDS Integers, SequencesExt, SequenceTheorems, WellFoundedInduction, TLAPS

\* Every non-empty set of naturals has a least element.
LEMMA LeastNatural ==
  ASSUME NEW T \in SUBSET Nat, T # {}
  PROVE  \E n \in T : \A m \in T : n <= m
  <1> DEFINE R == OpToRel(<, Nat)
  <1>1. IsWellFoundedOn(R, Nat)
    BY NatLessThanWellFounded
  <1>2. \A x, y \in Nat : <<y, x>> \in R <=> y < x
    BY DEF OpToRel
  <1> HIDE DEF R
  <1>3. PICK n \in T : \A m \in T : ~ (<<m, n>> \in R)
    BY <1>1, WFMin, Zenon
  <1>4. \A m \in T : n \in Nat /\ m \in Nat /\ ~ (m < n)
    BY <1>2, <1>3
  <1> QED
    BY <1>4

LEMMA ConcatParts ==
  ASSUME NEW S, NEW s \in Seq(S), NEW t \in Seq(S)
  PROVE  /\ Len(s \o t) = Len(s) + Len(t)
         /\ \A i \in 1 .. Len(s) : (s \o t)[i] = s[i]
         /\ \A i \in 1 .. Len(t) : (s \o t)[Len(s) + i] = t[i]
  <1>1. /\ Len(s) \in Nat /\ Len(t) \in Nat
        /\ Len(s \o t) = Len(s) + Len(t)
        /\ \A i \in 1 .. Len(s) + Len(t) :
             (s \o t)[i] = IF i <= Len(s) THEN s[i] ELSE t[i - Len(s)]
    BY ConcatProperties
  <1>2. ASSUME NEW i \in 1 .. Len(s) PROVE (s \o t)[i] = s[i]
    BY <1>1
  <1>3. ASSUME NEW i \in 1 .. Len(t) PROVE (s \o t)[Len(s) + i] = t[i]
    <2>1. /\ Len(s) + i \in 1 .. Len(s) + Len(t)
          /\ ~ (Len(s) + i <= Len(s)) /\ (Len(s) + i) - Len(s) = i
      BY <1>1
    <2> QED BY <1>1, <2>1
  <1> QED
    BY <1>1, <1>2, <1>3

\* Sequences can be joined in any order.
Associates(s, t, u) == (s \o t) \o u = s \o (t \o u)

LEMMA Associative ==
  ASSUME NEW S, NEW s \in Seq(S), NEW t \in Seq(S), NEW u \in Seq(S)
  PROVE  Associates(s, t, u)
  BY ConcatAssociative DEF Associates

\* A sequence of one.
LEMMA OneIsSeq == ASSUME NEW S, NEW x \in S PROVE <<x>> \in Seq(S)
  OBVIOUS

\* The columns up to the n-th, joined.
Joins(f, S, columns, m) ==
  /\ f \in [1 .. m -> Seq(S)]
  /\ f[1] = columns[1]
  /\ \A n \in 2 .. m : f[n] = f[n - 1] \o columns[n]

LEMMA JoinsExists ==
  ASSUME NEW S, NEW columns \in Seq(Seq(S))
  PROVE  \A m \in 1 .. Len(columns) : \E f : Joins(f, S, columns, m)
  <1> DEFINE T == {m \in 1 .. Len(columns) : ~ \E f : Joins(f, S, columns, m)}
  <1> SUFFICES ASSUME T # {} PROVE FALSE
    OBVIOUS
  <1>1. T \in SUBSET Nat
    OBVIOUS
  <1>2. PICK m \in T : \A k \in T : m <= k
    BY <1>1, LeastNatural
  <1>3. \A n \in 1 .. Len(columns) : columns[n] \in Seq(S)
    OBVIOUS
  <1>4. CASE m = 1
    <2>1. Joins([x \in 1 .. 1 |-> columns[1]], S, columns, 1)
      BY <1>2, <1>3, <1>4 DEF Joins
    <2> QED BY <1>2, <1>4, <2>1
  <1>5. CASE m # 1
    <2>1. m \in Nat \ {0, 1} /\ m \in 1 .. Len(columns) /\ m - 1 \in 1 .. Len(columns) /\ ~ (m <= m - 1)
      BY <1>5
    <2>2. PICK f : Joins(f, S, columns, m - 1)
      BY <1>2, <2>1
    <2> DEFINE g == [x \in 1 .. m |-> IF x = m THEN f[m - 1] \o columns[m] ELSE f[x]]
    <2>3. f[m - 1] \o columns[m] \in Seq(S)
      <3>1. f[m - 1] \in Seq(S) /\ columns[m] \in Seq(S)
        BY <1>3, <2>1, <2>2 DEF Joins
      <3> QED BY <3>1, ConcatProperties
    <2>4. g \in [1 .. m -> Seq(S)] /\ g[1] = columns[1]
      BY <2>1, <2>2, <2>3 DEF Joins
    <2>5. ASSUME NEW n \in 2 .. m
          PROVE  g[n] = g[n - 1] \o columns[n]
      <3>1. n \in 1 .. m /\ n - 1 \in 1 .. m /\ n - 1 # m
        BY <2>1
      <3>2. g[n - 1] = f[n - 1]
        BY <3>1
      <3>3. CASE n = m
        BY <3>1, <3>2, <3>3
      <3>4. CASE n # m
        <4>1. n \in 2 .. m - 1
          BY <2>1, <3>4
        <4> QED BY <2>2, <3>1, <3>2, <3>4, <4>1 DEF Joins
      <3> QED BY <3>3, <3>4
    <2>6. Joins(g, S, columns, m)
      BY <2>4, <2>5 DEF Joins
    <2> QED BY <1>2, <2>6
  <1> QED BY <1>4, <1>5

LEMMA FlattenJoins ==
  ASSUME NEW S, NEW columns \in Seq(Seq(S)), Len(columns) > 0
  PROVE  \E f : Joins(f, S, columns, Len(columns)) /\ FlattenSeq(columns) = f[Len(columns)]
  <1> DEFINE step(f) == [n \in 1 .. Len(columns) |-> IF n = 1 THEN columns[n] ELSE f[n - 1] \o columns[n]]
             e == CHOOSE f : f = step(f)
  <1>1. Len(columns) \in Nat /\ Len(columns) \in 1 .. Len(columns)
    OBVIOUS
  <1>2. PICK f : Joins(f, S, columns, Len(columns))
    BY <1>1, JoinsExists
  <1>3. f = step(f)
    <2>1. /\ f \in [1 .. Len(columns) -> Seq(S)]
          /\ f[1] = columns[1]
          /\ \A n \in 2 .. Len(columns) : f[n] = f[n - 1] \o columns[n]
      BY <1>2 DEF Joins
    <2>2. ASSUME NEW n \in 1 .. Len(columns)
          PROVE  f[n] = IF n = 1 THEN columns[n] ELSE f[n - 1] \o columns[n]
      <3>1. CASE n = 1
        BY <2>1, <3>1
      <3>2. CASE n # 1
        <4>1. n \in 2 .. Len(columns)
          BY <3>2
        <4> QED BY <2>1, <3>2, <4>1
      <3> QED BY <3>1, <3>2
    <2> QED BY <2>1, <2>2
  <1>4. FlattenSeq(columns) = e[Len(columns)]
    BY <1>1 DEF FlattenSeq
  <1>5. e = step(e)
    BY <1>3
  <1> HIDE DEF e
  <1>6. /\ e = [n \in 1 .. Len(columns) |-> e[n]]
        /\ e[1] = columns[1]
        /\ \A n \in 2 .. Len(columns) : e[n] = e[n - 1] \o columns[n]
    <2>1. /\ e = [n \in 1 .. Len(columns) |-> e[n]]
          /\ \A n \in 1 .. Len(columns) :
               e[n] = IF n = 1 THEN columns[n] ELSE e[n - 1] \o columns[n]
      BY <1>1, <1>5
    <2>2. \A n \in 2 .. Len(columns) : n \in 1 .. Len(columns) /\ n # 1
      BY <1>1
    <2>3. 1 \in 1 .. Len(columns)
      BY <1>1
    <2> QED BY <2>1, <2>2, <2>3
  <1> DEFINE T == {n \in 1 .. Len(columns) : e[n] \notin Seq(S)}
  <1>7. T = {}
    <2> SUFFICES ASSUME T # {} PROVE FALSE
      OBVIOUS
    <2>1. T \in SUBSET Nat
      OBVIOUS
    <2>2. PICK n \in T : \A k \in T : n <= k
      BY <2>1, LeastNatural
    <2>3. columns[n] \in Seq(S)
      BY <2>2
    <2>4. n # 1
      BY <1>6, <2>2, <2>3
    <2>5. n \in 2 .. Len(columns) /\ n - 1 \in 1 .. Len(columns) /\ ~ (n <= n - 1)
      BY <2>2, <2>4
    <2>6. e[n - 1] \in Seq(S)
      BY <2>2, <2>5
    <2>7. e[n - 1] \o columns[n] \in Seq(S)
      BY <2>3, <2>6, ConcatProperties
    <2>8. e[n] \in Seq(S)
      BY <1>6, <2>5, <2>7
    <2> QED BY <2>2, <2>8
  <1>8. e \in [1 .. Len(columns) -> Seq(S)]
    BY <1>5, <1>6, <1>7
  <1>9. Joins(e, S, columns, Len(columns))
    BY <1>6, <1>8 DEF Joins
  <1> QED
    BY <1>4, <1>9

\* Two ways to join the first columns of two sequences that share them agree.
LEMMA JoinsAgree ==
  ASSUME NEW S, NEW m \in Nat, NEW n \in 1 .. m,
         NEW columns, NEW others, \A i \in 1 .. n : others[i] = columns[i],
         NEW f, Joins(f, S, others, m), NEW g, Joins(g, S, columns, n)
  PROVE  f[n] = g[n]
  <1> DEFINE T == {i \in 1 .. n : f[i] # g[i]}
  <1>1. T = {}
    <2> SUFFICES ASSUME T # {} PROVE FALSE
      OBVIOUS
    <2>1. T \in SUBSET Nat
      OBVIOUS
    <2>2. PICK i \in T : \A k \in T : i <= k
      BY <2>1, LeastNatural
    <2>3. i # 1
      BY <2>2 DEF Joins
    <2>4. /\ i \in 2 .. n /\ i \in 2 .. m /\ i - 1 \in 1 .. n /\ i \in 1 .. n
          /\ ~ (i <= i - 1)
      BY <2>2, <2>3
    <2>5. f[i - 1] = g[i - 1]
      BY <2>2, <2>4
    <2>6. f[i] = f[i - 1] \o others[i] /\ g[i] = g[i - 1] \o columns[i]
      BY <2>4 DEF Joins
    <2> QED BY <2>2, <2>4, <2>5, <2>6
  <1> QED BY <1>1

\* One sequence more is joined on at the end.
LEMMA FlattenAppend ==
  ASSUME NEW S, NEW columns \in Seq(Seq(S)), NEW column \in Seq(S)
  PROVE  /\ FlattenSeq(columns) \in Seq(S)
         /\ FlattenSeq(Append(columns, column)) = FlattenSeq(columns) \o column
  <1> DEFINE n == Len(columns)
             more == Append(columns, column)
  <1>1. /\ n \in Nat /\ more \in Seq(Seq(S)) /\ Len(more) = n + 1 /\ Len(more) > 0
        /\ n + 1 \in Nat /\ more[n + 1] = column
        /\ \A i \in 1 .. n : more[i] = columns[i]
    BY AppendProperties
  <1> HIDE DEF more
  <1>2. PICK f : Joins(f, S, more, n + 1) /\ FlattenSeq(more) = f[n + 1]
    BY <1>1, FlattenJoins
  <1>3. CASE n = 0
    <2>1. FlattenSeq(columns) = << >>
      BY <1>3, EmptySeq DEF FlattenSeq
    <2>2. FlattenSeq(more) = column
      BY <1>1, <1>2, <1>3 DEF Joins
    <2> QED BY <2>1, <2>2, ConcatEmptySeq DEF more
  <1>4. CASE n # 0
    <2>1. n > 0
      BY <1>1, <1>4
    <2>2. PICK g : Joins(g, S, columns, n) /\ FlattenSeq(columns) = g[n]
      BY <2>1, FlattenJoins
    <2>3. f[n] = g[n]
      <3>1. n \in 1 .. n + 1
        BY <1>1, <2>1
      <3> HIDE DEF n
      <3> QED BY <1>1, <1>2, <2>2, <3>1, JoinsAgree
    <2>4. n \in 1 .. n
      BY <1>1, <2>1
    <2> DEFINE k == n + 1
    <2>5. f[n + 1] = f[n] \o column
      <3>1. k \in 2 .. k /\ k - 1 = n /\ more[k] = column
        BY <1>1, <2>1
      <3>2. Joins(f, S, more, k)
        BY <1>2
      <3> HIDE DEF k, n
      <3>3. f[k] = f[k - 1] \o more[k]
        BY <3>1, <3>2 DEF Joins
      <3> QED BY <3>1, <3>3 DEF k
    <2> HIDE DEF n
    <2>6. g[n] \in Seq(S)
      BY <2>2, <2>4 DEF Joins
    <2> QED BY <1>2, <2>2, <2>3, <2>5, <2>6 DEF more
  <1> QED BY <1>3, <1>4

\* No sequence at all joins to the empty one.
LEMMA FlattenNothing == FlattenSeq(<< >>) = << >>
  BY DEF FlattenSeq

=============================================================================
