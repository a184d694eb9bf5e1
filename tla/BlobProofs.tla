----------------------------- MODULE BlobProofs -----------------------------
(***************************************************************************)
(* What write_into lays out and open takes apart, for any number of        *)
(* columns of any length: opening a blob gives every column back as it was *)
(* written, and the columns a blob is opened into are all of its bytes.    *)
(*                                                                         *)
(* Both walk the columns in a recursive function.                          *)
(***************************************************************************)
EXTENDS Blob, FlattenProofs

-----------------------------------------------------------------------------
(***************************************************************************)
(* Extents.                                                                *)
(***************************************************************************)

\* A function that adds the lengths up from the first to the m-th.
Adds(f, lengths, m) ==
  /\ f \in [0 .. m -> Nat]
  /\ f[0] = 0
  /\ \A n \in 1 .. m : f[n] = f[n - 1] + lengths[n]

LEMMA AddsExists ==
  ASSUME NEW lengths \in Seq(Nat)
  PROVE  \A m \in 0 .. Len(lengths) : \E f : Adds(f, lengths, m)
  <1> DEFINE T == {m \in 0 .. Len(lengths) : ~ \E f : Adds(f, lengths, m)}
  <1> SUFFICES ASSUME T # {} PROVE FALSE
    OBVIOUS
  <1>1. T \in SUBSET Nat
    OBVIOUS
  <1>2. PICK m \in T : \A k \in T : m <= k
    BY <1>1, LeastNatural
  <1>3. CASE m = 0
    <2>1. Adds([x \in {0} |-> 0], lengths, 0)
      BY DEF Adds
    <2> QED BY <1>3, <2>1
  <1>4. CASE m # 0
    <2>1. m \in Nat \ {0} /\ m \in 1 .. Len(lengths) /\ m - 1 \in 0 .. Len(lengths) /\ ~ (m <= m - 1)
      BY <1>4
    <2>2. PICK f : Adds(f, lengths, m - 1)
      BY <1>2, <2>1
    <2> DEFINE g == [x \in 0 .. m |-> IF x = m THEN f[m - 1] + lengths[m] ELSE f[x]]
    <2>3. f[m - 1] \in Nat /\ lengths[m] \in Nat
      BY <2>1, <2>2 DEF Adds
    <2>4. g \in [0 .. m -> Nat] /\ g[0] = 0
      BY <2>1, <2>2, <2>3 DEF Adds
    <2>5. ASSUME NEW n \in 1 .. m
          PROVE  g[n] = g[n - 1] + lengths[n]
      <3>1. n \in 0 .. m /\ n - 1 \in 0 .. m /\ n - 1 # m
        BY <2>1
      <3>2. g[n - 1] = f[n - 1]
        BY <3>1
      <3>3. CASE n = m
        BY <3>1, <3>2, <3>3
      <3>4. CASE n # m
        <4>1. n \in 1 .. m - 1
          BY <2>1, <3>4
        <4> QED BY <2>2, <3>1, <3>2, <3>4, <4>1 DEF Adds
      <3> QED BY <3>3, <3>4
    <2>6. Adds(g, lengths, m)
      BY <2>4, <2>5 DEF Adds
    <2> QED BY <2>6
  <1> QED BY <1>3, <1>4

\* Extent adds the lengths up.
LEMMA ExtentAdds ==
  ASSUME NEW lengths \in Seq(Nat)
  PROVE  Adds(Extent(lengths), lengths, Len(lengths))
  <1> DEFINE step(f) == [n \in 0 .. Len(lengths) |-> IF n = 0 THEN 0 ELSE f[n - 1] + lengths[n]]
  <1>1. Len(lengths) \in Nat /\ Len(lengths) \in 0 .. Len(lengths)
    OBVIOUS
  <1>2. PICK f : Adds(f, lengths, Len(lengths))
    BY <1>1, AddsExists
  <1>3. f = step(f)
    BY <1>1, <1>2 DEF Adds
  <1>4. Extent(lengths) = CHOOSE f2 : f2 = step(f2)
    BY DEF Extent
  <1> DEFINE e == Extent(lengths)
  <1>5. e = step(e)
    BY <1>3, <1>4
  <1> HIDE DEF e
  <1>6. DOMAIN e = 0 .. Len(lengths) /\ e[0] = 0
    BY <1>1, <1>5
  <1>7. \A n \in 1 .. Len(lengths) : e[n] = e[n - 1] + lengths[n]
    BY <1>1, <1>5
  <1> DEFINE T == {n \in 0 .. Len(lengths) : e[n] \notin Nat}
  <1>8. T = {}
    <2> SUFFICES ASSUME T # {} PROVE FALSE
      OBVIOUS
    <2>0. T \in SUBSET Nat
      OBVIOUS
    <2>1. PICK n \in T : \A k \in T : n <= k
      BY <2>0, LeastNatural
    <2>2. n # 0 /\ n \in Nat /\ n - 1 \in 0 .. Len(lengths) /\ ~ (n <= n - 1)
      BY <1>6, <2>1
    <2>3. e[n - 1] \in Nat /\ lengths[n] \in Nat
      BY <2>1, <2>2
    <2> QED BY <1>7, <2>1, <2>2, <2>3
  <1>9. e \in [0 .. Len(lengths) -> Nat]
    BY <1>5, <1>6, <1>8
  <1> QED
    BY <1>6, <1>7, <1>9 DEF Adds, e

\* The extents grow, up to what all columns claim.
LEMMA ExtentGrows ==
  ASSUME NEW lengths \in Seq(Nat)
  PROVE  LET e == Extent(lengths) IN
           /\ e \in [0 .. Len(lengths) -> Nat]
           /\ e[0] = 0
           /\ \A n \in 1 .. Len(lengths) :
                e[n] = e[n - 1] + lengths[n] /\ lengths[n] \in Nat /\ e[n - 1] \in Nat
           /\ \A m, n \in 0 .. Len(lengths) : m <= n => e[m] <= e[n]
  <1> DEFINE e == Extent(lengths)
  <1>1. /\ e \in [0 .. Len(lengths) -> Nat]
        /\ e[0] = 0
        /\ \A n \in 1 .. Len(lengths) : e[n] = e[n - 1] + lengths[n]
    BY ExtentAdds DEF Adds
  <1> HIDE DEF e
  <1>2. Len(lengths) \in Nat
    OBVIOUS
  <1>3. \A n \in 1 .. Len(lengths) : lengths[n] \in Nat /\ e[n - 1] \in Nat /\ e[n] \in Nat
    BY <1>1
  <1>4. ASSUME NEW m \in 0 .. Len(lengths), NEW n \in 0 .. Len(lengths), m <= n
        PROVE  e[m] <= e[n]
    <2> DEFINE T == {k \in m .. Len(lengths) : ~ (e[m] <= e[k])}
    <2>1. T = {}
      <3> SUFFICES ASSUME T # {} PROVE FALSE
        OBVIOUS
      <3>1. T \in SUBSET Nat
        OBVIOUS
      <3>2. PICK k \in T : \A j \in T : k <= j
        BY <3>1, LeastNatural
      <3>3. e[m] \in Nat
        BY <1>1
      <3>4. k # m
        BY <3>2, <3>3
      <3>5. k \in 1 .. Len(lengths) /\ k - 1 \in m .. Len(lengths) /\ ~ (k <= k - 1)
        BY <3>2, <3>4
      <3>6. e[m] <= e[k - 1]
        BY <3>2, <3>5
      <3>7. e[k] = e[k - 1] + lengths[k] /\ lengths[k] \in Nat /\ e[k - 1] \in Nat /\ e[k] \in Nat
        BY <1>1, <1>3, <3>5
      <3>8. e[m] <= e[k]
        BY <3>3, <3>6, <3>7
      <3> QED BY <3>2, <3>8
    <2>2. n \in m .. Len(lengths)
      BY <1>4
    <2> QED BY <2>1, <2>2
  <1> QED
    BY <1>1, <1>3, <1>4 DEF e

\* Every byte belongs to a column.
LEMMA ExtentCovers ==
  ASSUME NEW lengths \in Seq(Nat), NEW j \in 1 .. Extent(lengths)[Len(lengths)]
  PROVE  \E c \in 1 .. Len(lengths) : \E i \in 1 .. lengths[c] :
           j = Extent(lengths)[c - 1] + i
  <1> DEFINE e == Extent(lengths)
             T == {n \in 0 .. Len(lengths) : j <= e[n]}
  <1>1. /\ e \in [0 .. Len(lengths) -> Nat]
        /\ e[0] = 0
        /\ \A n \in 1 .. Len(lengths) :
             e[n] = e[n - 1] + lengths[n] /\ lengths[n] \in Nat /\ e[n - 1] \in Nat
        /\ Len(lengths) \in Nat
        /\ j \in 1 .. e[Len(lengths)]
    BY ExtentGrows
  <1> HIDE DEF e
  <1>2. T \in SUBSET Nat /\ Len(lengths) \in T
    BY <1>1
  <1>3. PICK c \in T : \A n \in T : c <= n
    BY <1>2, LeastNatural
  <1>4. c # 0 /\ j \in Nat /\ j > 0
    BY <1>1, <1>3
  <1>5. c \in 1 .. Len(lengths) /\ c - 1 \in 0 .. Len(lengths) /\ ~ (c <= c - 1)
    BY <1>1, <1>3, <1>4
  <1>6. ~ (j <= e[c - 1]) /\ j <= e[c]
    BY <1>3, <1>5
  <1>7. j - e[c - 1] \in 1 .. lengths[c] /\ j = e[c - 1] + (j - e[c - 1])
    BY <1>1, <1>4, <1>5, <1>6
  <1> QED
    BY <1>5, <1>7 DEF e

-----------------------------------------------------------------------------
(***************************************************************************)
(* Columns back to back.                                                   *)
(***************************************************************************)

\* The data of a blob: every column's bytes from where its extent begins, and
\* nothing else.
LEMMA FlattenIs ==
  ASSUME NEW S, NEW columns \in Seq(Seq(S)), NEW lengths \in Seq(Nat),
         Len(lengths) = Len(columns),
         \A c \in 1 .. Len(columns) : lengths[c] = Len(columns[c])
  PROVE  LET e == Extent(lengths)
             flat == FlattenSeq(columns)
         IN  /\ flat \in Seq(S)
             /\ Len(flat) = e[Len(columns)]
             /\ \A c \in 1 .. Len(columns) : \A i \in 1 .. Len(columns[c]) :
                  flat[e[c - 1] + i] = columns[c][i]
  <1> DEFINE e == Extent(lengths)
             flat == FlattenSeq(columns)
  <1>1. /\ Len(columns) \in Nat
        /\ e \in [0 .. Len(columns) -> Nat]
        /\ e[0] = 0
        /\ \A n \in 1 .. Len(columns) :
             e[n] = e[n - 1] + lengths[n] /\ lengths[n] \in Nat /\ e[n - 1] \in Nat
        /\ \A m, n \in 0 .. Len(columns) : m <= n => e[m] <= e[n]
    BY ExtentGrows
  <1>2. \A c \in 1 .. Len(columns) : columns[c] \in Seq(S)
    OBVIOUS
  <1> HIDE DEF e
  <1>3. CASE Len(columns) = 0
    <2>1. flat = columns /\ columns = << >>
      BY <1>3 DEF FlattenSeq
    <2>2. flat \in Seq(S) /\ Len(flat) = 0
      BY <2>1
    <2> HIDE DEF flat
    <2>3. \A c \in 1 .. Len(columns) : FALSE
      BY <1>3
    <2> QED BY <1>1, <1>3, <2>2, <2>3 DEF e, flat
  <1>4. CASE Len(columns) # 0
    <2>0. Len(columns) > 0
      BY <1>1, <1>4
    <2>1. PICK f : Joins(f, S, columns, Len(columns)) /\ flat = f[Len(columns)]
      BY <2>0, FlattenJoins
    <2> HIDE DEF flat
    <2>2. /\ f \in [1 .. Len(columns) -> Seq(S)]
          /\ f[1] = columns[1]
          /\ \A n \in 2 .. Len(columns) : f[n] = f[n - 1] \o columns[n]
      BY <2>1 DEF Joins
    <2> DEFINE Good(n) ==
                 /\ Len(f[n]) = e[n]
                 /\ \A c \in 1 .. n : \A i \in 1 .. Len(columns[c]) :
                      f[n][e[c - 1] + i] = columns[c][i]
               T == {n \in 1 .. Len(columns) : ~ Good(n)}
    <2>3. Good(1)
      <3>1. 1 \in 1 .. Len(columns) /\ 1 - 1 = 0
        BY <1>1, <1>4
      <3>2. e[1] = Len(columns[1]) /\ columns[1] \in Seq(S)
        BY <1>1, <1>2, <3>1
      <3>3. \A c \in 1 .. 1 : \A i \in 1 .. Len(columns[c]) : f[1][e[c - 1] + i] = columns[c][i]
        BY <1>1, <2>2, <3>1, <3>2
      <3> QED BY <2>2, <3>2, <3>3
    <2>4. ASSUME NEW n \in 2 .. Len(columns), Good(n - 1)
          PROVE  Good(n)
      <3> DEFINE s == f[n - 1]
                 t == columns[n]
      <3>1. /\ n \in 1 .. Len(columns) /\ n - 1 \in 1 .. Len(columns)
            /\ n \in Nat
        BY <1>1
      <3>2. /\ s \in Seq(S) /\ t \in Seq(S) /\ f[n] = s \o t
            /\ Len(s) = e[n - 1] /\ e[n] = e[n - 1] + Len(t)
        BY <1>1, <1>2, <2>2, <2>4, <3>1
      <3>3. /\ Len(s \o t) = Len(s) + Len(t)
            /\ \A i \in 1 .. Len(s) : (s \o t)[i] = s[i]
            /\ \A i \in 1 .. Len(t) : (s \o t)[Len(s) + i] = t[i]
        <4>1. s \in Seq(S) /\ t \in Seq(S)
          BY <3>2
        <4> HIDE DEF s, t, Good, T
        <4> QED BY <4>1, ConcatParts
      <3>4. ASSUME NEW c \in 1 .. n, NEW i \in 1 .. Len(columns[c])
            PROVE  f[n][e[c - 1] + i] = columns[c][i]
        <4>1. CASE c = n
          BY <3>2, <3>3, <4>1
        <4>2. CASE c # n
          <5>1. /\ c \in 1 .. n - 1 /\ c \in 1 .. Len(columns)
            BY <3>1, <4>2
          <5>2. s[e[c - 1] + i] = columns[c][i]
            BY <2>4, <5>1
          <5>3. e[c] = e[c - 1] + Len(columns[c]) /\ e[c - 1] \in Nat /\ Len(columns[c]) \in Nat
            BY <1>1, <1>2, <5>1
          <5>4. e[c] <= e[n - 1]
            <6>1. c \in 0 .. Len(columns) /\ n - 1 \in 0 .. Len(columns) /\ c <= n - 1
              BY <3>1, <5>1
            <6> QED BY <1>1, <6>1
          <5>5. e[c - 1] + i \in 1 .. Len(s)
            <6>1. e[n - 1] = Len(s) /\ Len(s) \in Nat
              <7>1. s \in Seq(S) /\ Len(s) = e[n - 1]
                BY <3>2
              <7> HIDE DEF s, t, Good, T
              <7> QED BY <7>1, LenProperties, Zenon
            <6> HIDE DEF s, Good, T
            <6>2. i \in Nat /\ 1 <= i /\ i <= Len(columns[c])
              BY <5>3
            <6> DEFINE a == e[c - 1]
                       b == e[c]
                       k == Len(columns[c])
                       m == Len(s)
            <6>3. a \in Nat /\ b = a + k /\ k \in Nat /\ b <= m /\ m \in Nat /\ i <= k
              BY <5>3, <5>4, <6>1, <6>2
            <6> HIDE DEF a, b, k, m
            <6>4. a + i \in 1 .. m
              BY <6>2, <6>3
            <6> QED BY <6>4 DEF a, m
          <5> QED BY <3>2, <3>3, <5>2, <5>5
        <4> QED BY <4>1, <4>2
      <3> QED BY <3>2, <3>3, <3>4
    <2> HIDE DEF Good
    <2>5. T = {}
      <3> SUFFICES ASSUME T # {} PROVE FALSE
        OBVIOUS
      <3>1. T \in SUBSET Nat
        OBVIOUS
      <3>2. PICK n \in T : \A k \in T : n <= k
        BY <3>1, LeastNatural
      <3>3. n # 1
        BY <2>3, <3>2
      <3>4. n \in 2 .. Len(columns) /\ n - 1 \in 1 .. Len(columns) /\ ~ (n <= n - 1)
        BY <3>2, <3>3
      <3>5. Good(n - 1)
        BY <3>2, <3>4
      <3> QED BY <2>4, <3>2, <3>4, <3>5
    <2>6. Good(Len(columns)) /\ f[Len(columns)] \in Seq(S)
      <3>1. Len(columns) \in 1 .. Len(columns)
        BY <1>1, <1>4
      <3> QED BY <2>2, <2>5, <3>1
    <2> QED BY <2>1, <2>6 DEF Good, e, flat
  <1> QED BY <1>3, <1>4

LEMMA FlattenUnique ==
  ASSUME NEW S, NEW columns \in Seq(Seq(S)), NEW lengths \in Seq(Nat),
         Len(lengths) = Len(columns),
         \A c \in 1 .. Len(columns) : lengths[c] = Len(columns[c]),
         NEW data \in Seq(S), Len(data) = Extent(lengths)[Len(columns)],
         \A c \in 1 .. Len(columns) : \A i \in 1 .. Len(columns[c]) :
           data[Extent(lengths)[c - 1] + i] = columns[c][i]
  PROVE  FlattenSeq(columns) = data
  <1> DEFINE e == Extent(lengths)
             flat == FlattenSeq(columns)
  <1>1. /\ flat \in Seq(S)
        /\ Len(flat) = e[Len(columns)]
        /\ \A c \in 1 .. Len(columns) : \A i \in 1 .. Len(columns[c]) :
             flat[e[c - 1] + i] = columns[c][i]
    <2>1. /\ FlattenSeq(columns) \in Seq(S)
          /\ Len(FlattenSeq(columns)) = Extent(lengths)[Len(columns)]
          /\ \A c \in 1 .. Len(columns) : \A i \in 1 .. Len(columns[c]) :
               FlattenSeq(columns)[Extent(lengths)[c - 1] + i] = columns[c][i]
      BY FlattenIs
    <2> QED BY <2>1
  <1>2. \A c \in 1 .. Len(columns) : \A i \in 1 .. Len(columns[c]) :
          flat[e[c - 1] + i] = data[e[c - 1] + i]
    BY <1>1
  <1>3. \A j \in 1 .. e[Len(columns)] :
          \E c \in 1 .. Len(columns) : \E i \in 1 .. Len(columns[c]) : j = e[c - 1] + i
    <2>1. \A j \in 1 .. e[Len(lengths)] :
            \E c \in 1 .. Len(lengths) : \E i \in 1 .. lengths[c] : j = e[c - 1] + i
      BY ExtentCovers
    <2> HIDE DEF e
    <2> SUFFICES ASSUME NEW j \in 1 .. e[Len(columns)]
                 PROVE  \E c \in 1 .. Len(columns) : \E i \in 1 .. Len(columns[c]) : j = e[c - 1] + i
      OBVIOUS
    <2>2. PICK c \in 1 .. Len(lengths) : \E i \in 1 .. lengths[c] : j = e[c - 1] + i
      BY <2>1
    <2>3. c \in 1 .. Len(columns) /\ lengths[c] = Len(columns[c])
      OBVIOUS
    <2> QED BY <2>2, <2>3
  <1>4. Len(data) = e[Len(columns)]
    OBVIOUS
  <1> HIDE DEF e, flat
  <1>5. \A j \in 1 .. Len(flat) : flat[j] = data[j]
    <2> SUFFICES ASSUME NEW j \in 1 .. Len(flat) PROVE flat[j] = data[j]
      OBVIOUS
    <2>0. PICK c \in 1 .. Len(columns) : \E i \in 1 .. Len(columns[c]) : j = e[c - 1] + i
      BY <1>1, <1>3, Zenon
    <2>1. PICK i \in 1 .. Len(columns[c]) : j = e[c - 1] + i
      BY <2>0, Zenon
    <2>2. flat[e[c - 1] + i] = data[e[c - 1] + i]
      BY <1>2, Zenon
    <2> QED BY <2>1, <2>2, Zenon
  <1>6. flat = data
    BY <1>1, <1>4, <1>5, SeqEqual
  <1> QED
    BY <1>6 DEF flat

\* A stretch of a sequence.
LEMMA Stretch ==
  ASSUME NEW S, NEW data \in Seq(S), NEW a \in Nat, NEW n \in Nat, a + n <= Len(data)
  PROVE  LET s == SubSeq(data, a + 1, a + n) IN
           /\ s \in Seq(S)
           /\ Len(s) = n
           /\ \A i \in 1 .. n : s[i] = data[a + i]
  <1> DEFINE s == SubSeq(data, a + 1, a + n)
  <1>1. /\ a + 1 \in Int /\ a + n \in Int /\ \A i \in a + 1 .. a + n : data[i] \in S
    OBVIOUS
  <1>2. /\ s \in Seq(S)
        /\ Len(s) = IF a + 1 <= a + n THEN (a + n) - (a + 1) + 1 ELSE 0
        /\ \A i \in 1 .. (a + n) - (a + 1) + 1 : s[i] = data[(a + 1) + i - 1]
    BY <1>1, SubSeqProperties
  <1> HIDE DEF s
  <1>3. \A i \in 1 .. n : i \in 1 .. (a + n) - (a + 1) + 1 /\ (a + 1) + i - 1 = a + i
    OBVIOUS
  <1>4. Len(s) = n
    BY <1>2
  <1> QED
    BY <1>2, <1>3, <1>4 DEF s

-----------------------------------------------------------------------------
(***************************************************************************)
(* Blobs.                                                                  *)
(***************************************************************************)
LEMMA ColumnsSeq ==
  ASSUME NEW S, NEW f \in [Column -> S]
  PROVE  f \in Seq(S) /\ Len(f) = NumColumns
  BY NumColumnsAssumption DEF Column

\* A blob whose header claims the bytes it has, no more and no fewer: what open
\* accepts and finish does not complain of.
Exact(S, blob) ==
  /\ blob.lengths \in [Column -> Nat]
  /\ blob.data \in Seq(S)
  /\ ClaimedBytes(blob) = Len(blob.data)

\* Every cursor is given the stretch of data its column was given.
Sliced(S, blob) ==
  \A c \in Column :
    /\ SliceOf(blob, c) \in Seq(S)
    /\ Len(SliceOf(blob, c)) = blob.lengths[c]
    /\ \A i \in 1 .. blob.lengths[c] :
         SliceOf(blob, c)[i] = blob.data[Extent(blob.lengths)[c - 1] + i]

\* A cursor's slice begins at its column's offset and has its length.
LEMMA SliceIs ==
  ASSUME NEW S, NEW blob, Exact(S, blob)
  PROVE  Sliced(S, blob)
  <1> SUFFICES ASSUME NEW c \in Column
               PROVE  /\ SliceOf(blob, c) \in Seq(S)
                      /\ Len(SliceOf(blob, c)) = blob.lengths[c]
                      /\ \A i \in 1 .. blob.lengths[c] :
                           SliceOf(blob, c)[i] = blob.data[Extent(blob.lengths)[c - 1] + i]
    BY DEF Sliced
  <1> DEFINE lengths == blob.lengths
             data == blob.data
             e == Extent(lengths)
             slice == SliceOf(blob, c)
  <1>1. lengths \in Seq(Nat) /\ Len(lengths) = NumColumns /\ NumColumns \in Nat
    BY ColumnsSeq, NumColumnsAssumption DEF Exact
  <1>2. /\ e \in [0 .. NumColumns -> Nat]
        /\ \A n \in 1 .. NumColumns :
             e[n] = e[n - 1] + lengths[n] /\ lengths[n] \in Nat /\ e[n - 1] \in Nat
        /\ \A m, n \in 0 .. NumColumns : m <= n => e[m] <= e[n]
    BY <1>1, ExtentGrows
  <1>3. Len(data) = e[NumColumns] /\ data \in Seq(S) /\ Len(data) \in Nat
    BY <1>1 DEF ClaimedBytes, Exact
  <1>4. slice = SubSeq(data, e[c - 1] + 1, e[c - 1] + lengths[c])
    BY DEF SliceOf, OffsetOf
  <1> HIDE DEF e, data, lengths
  <1>5. c \in 1 .. NumColumns /\ c \in 0 .. NumColumns /\ NumColumns \in 0 .. NumColumns /\ c <= NumColumns
    BY <1>1 DEF Column
  <1>6. e[c] <= Len(data) /\ e[c] = e[c - 1] + lengths[c] /\ lengths[c] \in Nat /\ e[c - 1] \in Nat
    BY <1>2, <1>3, <1>5
  <1> DEFINE a == e[c - 1]
             n == lengths[c]
  <1>7. a \in Nat /\ n \in Nat /\ a + n <= Len(data)
    BY <1>6
  <1>8. slice = SubSeq(data, a + 1, a + n)
    BY <1>4
  <1> HIDE DEF a, n, slice
  <1>9. /\ slice \in Seq(S)
        /\ Len(slice) = n
        /\ \A i \in 1 .. n : slice[i] = data[a + i]
    BY <1>3, <1>7, <1>8, Stretch
  <1> QED
    BY <1>9 DEF a, n, slice, e, data, lengths

\* The columns lie in the data where the header says.
Laid(blob, columns) ==
  \A c \in Column :
    /\ blob.lengths[c] = Len(columns[c])
    /\ \A i \in 1 .. Len(columns[c]) :
         blob.data[Extent(blob.lengths)[c - 1] + i] = columns[c][i]

LEMMA SliceOfLaid ==
  ASSUME NEW S, NEW blob, Exact(S, blob),
         NEW columns \in [Column -> Seq(S)], Laid(blob, columns)
  PROVE  \A c \in Column : SliceOf(blob, c) = columns[c]
  <1>1. Sliced(S, blob)
    BY SliceIs, Zenon
  <1>2. SUFFICES ASSUME NEW c \in Column
                 PROVE  SliceOf(blob, c) = columns[c]
    OBVIOUS
  <1> DEFINE s == SliceOf(blob, c)
             t == columns[c]
  <1>3. t \in Seq(S)
    OBVIOUS
  <1>4. s \in Seq(S) /\ Len(s) = Len(t) /\ \A i \in 1 .. Len(s) : s[i] = t[i]
    BY <1>1 DEF Laid, Sliced
  <1> HIDE DEF s, t
  <1>5. s = t
    BY <1>3, <1>4, SeqEqual
  <1> QED BY <1>5 DEF s, t

\* The columns a well-formed blob is opened into are all of its bytes: open
\* gives every byte to one cursor, and none to two.
THEOREM OpenedIsWhole ==
  ASSUME NEW S, NEW blob, Exact(S, blob)
  PROVE  LET slices == [c \in Column |-> SliceOf(blob, c)] IN
           /\ slices \in [Column -> Seq(S)]
           /\ \A c \in Column : Len(slices[c]) = blob.lengths[c]
           /\ FlattenSeq(slices) = blob.data
  <1> DEFINE slices == [c \in Column |-> SliceOf(blob, c)]
             lengths == blob.lengths
             data == blob.data
             e == Extent(lengths)
  <1>1. lengths \in Seq(Nat) /\ Len(lengths) = NumColumns /\ NumColumns \in Nat
    BY ColumnsSeq, NumColumnsAssumption DEF Exact
  <1>3. Len(data) = e[NumColumns] /\ data \in Seq(S) /\ Len(data) \in Nat
    BY <1>1 DEF ClaimedBytes, Exact
  <1>5. ASSUME NEW c \in Column
        PROVE  /\ slices[c] \in Seq(S)
               /\ Len(slices[c]) = lengths[c]
               /\ \A i \in 1 .. lengths[c] : slices[c][i] = data[e[c - 1] + i]
    BY SliceIs DEF Exact, Sliced
  <1> HIDE DEF e, data, lengths
  <1>6. slices \in [Column -> Seq(S)]
    BY <1>5
  <1> HIDE DEF slices
  <1>7. slices \in Seq(Seq(S)) /\ Len(slices) = NumColumns
    BY <1>6, ColumnsSeq
  <1>8. FlattenSeq(slices) = data
    <2>1. /\ Len(lengths) = Len(slices)
          /\ \A c \in 1 .. Len(slices) : lengths[c] = Len(slices[c])
          /\ Len(data) = Extent(lengths)[Len(slices)]
          /\ \A c \in 1 .. Len(slices) : \A i \in 1 .. Len(slices[c]) :
               data[Extent(lengths)[c - 1] + i] = slices[c][i]
      BY <1>1, <1>3, <1>5, <1>7 DEF Column, e
    <2> QED BY <1>1, <1>3, <1>7, <2>1, FlattenUnique
  <1> QED
    BY <1>5, <1>6, <1>8 DEF slices, data, lengths

\* What write_into writes, open gives back: the lengths in the header are those
\* of the data, and every cursor gets its column as it was.
THEOREM OpenedAsWritten ==
  ASSUME NEW S, NEW columns \in [Column -> Seq(S)], NEW rows
  PROVE  LET blob == BlobOf(columns, rows) IN
           /\ Exact(S, blob)
           /\ \A c \in Column : SliceOf(blob, c) = columns[c]
  <1> DEFINE lengths == [c \in Column |-> Len(columns[c])]
             data == FlattenSeq(columns)
             e == Extent(lengths)
  <1> SUFFICES ASSUME NEW blob, blob = BlobOf(columns, rows)
               PROVE  /\ Exact(S, blob)
                      /\ \A c \in Column : SliceOf(blob, c) = columns[c]
    OBVIOUS
  <1>1. blob.lengths = lengths /\ blob.data = data
    BY DEF BlobOf
  <1>2. lengths \in [Column -> Nat]
    OBVIOUS
  <1>3. lengths \in Seq(Nat) /\ Len(lengths) = NumColumns /\ NumColumns \in Nat
    <2> HIDE DEF lengths
    <2> QED BY <1>2, ColumnsSeq, NumColumnsAssumption
  <1>4. columns \in Seq(Seq(S)) /\ Len(columns) = NumColumns
    BY ColumnsSeq
  <1>5. \A c \in Column : columns[c] \in Seq(S) /\ lengths[c] = Len(columns[c])
    OBVIOUS
  <1> HIDE DEF lengths
  <1>6. /\ data \in Seq(S)
        /\ Len(data) = e[NumColumns]
        /\ \A c \in 1 .. NumColumns : \A i \in 1 .. Len(columns[c]) :
             data[e[c - 1] + i] = columns[c][i]
    <2>1. Len(lengths) = Len(columns) /\ \A c \in 1 .. Len(columns) : lengths[c] = Len(columns[c])
      BY <1>3, <1>4, <1>5 DEF Column
    <2>2. /\ data \in Seq(S)
          /\ Len(data) = e[Len(columns)]
          /\ \A c \in 1 .. Len(columns) : \A i \in 1 .. Len(columns[c]) :
               data[e[c - 1] + i] = columns[c][i]
      BY <1>3, <1>4, <2>1, FlattenIs, Zenon
    <2> QED BY <1>4, <2>2
  <1> HIDE DEF data
  <1>7. ClaimedBytes(blob) = Len(data)
    BY <1>1, <1>3, <1>6 DEF ClaimedBytes
  <1>8. Exact(S, blob)
    BY <1>1, <1>2, <1>6, <1>7 DEF Exact
  <1>9. Laid(blob, columns)
    BY <1>1, <1>5, <1>6 DEF Column, Laid
  <1> QED
    BY <1>8, <1>9, SliceOfLaid, Zenon
=============================================================================
