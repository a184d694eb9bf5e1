---------------------------- MODULE StreamProofs ----------------------------
(***************************************************************************)
(* A proof that what a batch is given is what a reader of its blobs gets,  *)
(* for every schema layout, value set and encoding: module Stream's        *)
(* promise.  The argument follows the cells: the rows of a batch lie one   *)
(* after another in its columns, marked off by positions; a blob keeps the *)
(* columns and so the marks; a reader's cursors move from mark to mark.    *)
(***************************************************************************)
EXTENDS Stream, BatchProofs, BlobProofs

-----------------------------------------------------------------------------
(***************************************************************************)
(* Rows in columns.                                                        *)
(***************************************************************************)

\* pos[n][c] is where the n-th row of vs ends in column c.
Marks(pos, cols, vs) ==
  /\ pos \in [0 .. Len(vs) -> [Column -> Nat]]
  /\ \A c \in Column : pos[0][c] = 0
  /\ \A n \in 1 .. Len(vs) : \A c \in Column :
       /\ pos[n][c] = pos[n - 1][c] + Len(Enc[vs[n]][c])
       /\ \A i \in 1 .. Len(Enc[vs[n]][c]) :
            cols[c][pos[n - 1][c] + i] = Enc[vs[n]][c][i]
  /\ \A n \in 0 .. Len(vs) : \A c \in Column : pos[n][c] <= Len(cols[c])
  /\ \A c \in Column : pos[Len(vs)][c] = Len(cols[c])

\* The columns are the rows of vs one after another, and nothing else.
Holds(cols, vs) ==
  /\ cols \in [Column -> Seq(Cell)]
  /\ vs \in Seq(Value)
  /\ \E pos : Marks(pos, cols, vs)

LEMMA EncType ==
  ASSUME NEW v \in Value, NEW c \in Column
  PROVE  Enc[v][c] \in Seq(Cell) /\ Len(Enc[v][c]) \in Nat
  BY BatchAssumption

LEMMA HoldsNone == Holds(NoCells, << >>)
  <1> DEFINE pos == [n \in 0 .. 0 |-> [c \in Column |-> 0]]
  <1>1. NoCells \in [Column -> Seq(Cell)] /\ \A c \in Column : Len(NoCells[c]) = 0
    BY DEF NoCells
  <1>2. Marks(pos, NoCells, << >>)
    BY <1>1 DEF Marks
  <1> QED BY <1>1, <1>2 DEF Holds

\* One column of a row more.
LEMMA MarkColumn ==
  ASSUME NEW s \in Seq(Cell), NEW e \in Seq(Cell)
  PROVE  /\ s \o e \in Seq(Cell)
         /\ Len(s \o e) = Len(s) + Len(e)
         /\ \A i \in 1 .. Len(s) : (s \o e)[i] = s[i]
         /\ \A i \in 1 .. Len(e) : (s \o e)[Len(s) + i] = e[i]
  OBVIOUS

\* A row more.
LEMMA HoldsAppend ==
  ASSUME NEW cols, NEW vs, Holds(cols, vs), NEW v \in Value,
         NEW cols2, cols2 = [c \in Column |-> cols[c] \o Enc[v][c]]
  PROVE  Holds(cols2, Append(vs, v))
  <1> DEFINE ws == Append(vs, v)
             n == Len(vs)
  <1>1. PICK pos : Marks(pos, cols, vs)
    BY DEF Holds
  <1>2. cols \in [Column -> Seq(Cell)] /\ vs \in Seq(Value) /\ n \in Nat
    BY DEF Holds
  <1>3. ws \in Seq(Value) /\ Len(ws) = n + 1 /\ ws[n + 1] = v /\ \A k \in 1 .. n : ws[k] = vs[k]
    BY <1>2
  <1>4. ASSUME NEW c \in Column
        PROVE  /\ cols[c] \in Seq(Cell) /\ Len(cols[c]) \in Nat /\ Len(Enc[v][c]) \in Nat
               /\ cols2[c] \in Seq(Cell)
               /\ Len(cols2[c]) = Len(cols[c]) + Len(Enc[v][c])
               /\ \A i \in 1 .. Len(cols[c]) : cols2[c][i] = cols[c][i]
               /\ \A i \in 1 .. Len(Enc[v][c]) : cols2[c][Len(cols[c]) + i] = Enc[v][c][i]
    <2>1. cols[c] \in Seq(Cell) /\ Len(cols[c]) \in Nat
      BY <1>2
    <2>2. cols2[c] = cols[c] \o Enc[v][c]
      OBVIOUS
    <2> QED BY <2>1, <2>2, EncType, MarkColumn
  <1> DEFINE pos2 == [k \in 0 .. n + 1 |-> IF k = n + 1 THEN [c \in Column |-> Len(cols2[c])]
                                           ELSE pos[k]]
  <1> HIDE DEF ws
  <1>5. pos \in [0 .. n -> [Column -> Nat]]
    BY <1>1 DEF Marks
  <1>6. pos2 \in [0 .. n + 1 -> [Column -> Nat]]
    BY <1>2, <1>4, <1>5
  <1>7. /\ pos2[n + 1] = [c \in Column |-> Len(cols2[c])]
        /\ \A k \in 0 .. n : pos2[k] = pos[k] /\ k \in Nat /\ pos[k] \in [Column -> Nat]
    BY <1>2, <1>5
  <1> HIDE DEF pos2
  <1>8. ASSUME NEW k \in 1 .. n + 1, NEW c \in Column
        PROVE  /\ pos2[k][c] = pos2[k - 1][c] + Len(Enc[ws[k]][c])
               /\ \A i \in 1 .. Len(Enc[ws[k]][c]) :
                    cols2[c][pos2[k - 1][c] + i] = Enc[ws[k]][c][i]
    <2>1. CASE k = n + 1
      <3>1. k - 1 = n /\ n \in 0 .. n /\ ws[k] = v
        BY <1>2, <1>3, <2>1
      <3>2. pos2[k - 1][c] = Len(cols[c])
        BY <1>1, <1>7, <3>1 DEF Marks
      <3>3. pos2[k][c] = Len(cols2[c])
        BY <1>7, <2>1
      <3> QED BY <1>4, <3>1, <3>2, <3>3
    <2>2. CASE k # n + 1
      <3>1. k \in 1 .. n /\ k - 1 \in 0 .. n /\ k \in 0 .. n
        BY <1>2, <2>2
      <3>2. ws[k] = vs[k] /\ pos2[k] = pos[k] /\ pos2[k - 1] = pos[k - 1]
        BY <1>3, <1>7, <3>1
      <3>3. /\ pos[k][c] = pos[k - 1][c] + Len(Enc[vs[k]][c])
            /\ \A i \in 1 .. Len(Enc[vs[k]][c]) : cols[c][pos[k - 1][c] + i] = Enc[vs[k]][c][i]
            /\ pos[k][c] <= Len(cols[c])
        BY <1>1, <3>1 DEF Marks
      <3>4. vs[k] \in Value
        BY <1>2, <3>1
      <3>5. pos[k - 1][c] \in Nat /\ pos[k][c] \in Nat /\ Len(Enc[vs[k]][c]) \in Nat
        BY <1>5, <3>1, <3>4, EncType
      <3>6. ASSUME NEW i \in 1 .. Len(Enc[vs[k]][c])
            PROVE  cols2[c][pos[k - 1][c] + i] = Enc[vs[k]][c][i]
        <4>1. Len(cols[c]) \in Nat /\ \A j \in 1 .. Len(cols[c]) : cols2[c][j] = cols[c][j]
          BY <1>4
        <4> DEFINE p == pos[k - 1][c]
                   e == Len(Enc[vs[k]][c])
                   m == Len(cols[c])
        <4>2. p \in Nat /\ e \in Nat /\ m \in Nat /\ p + e <= m /\ i \in 1 .. e
          BY <3>3, <3>5, <4>1
        <4> HIDE DEF p, e, m
        <4>3. p + i \in 1 .. m
          BY <4>2
        <4> QED BY <3>3, <4>1, <4>3 DEF p, m
      <3> QED BY <3>2, <3>3, <3>6
    <2> QED BY <2>1, <2>2
  <1>9. ASSUME NEW k \in 0 .. n + 1, NEW c \in Column
        PROVE  pos2[k][c] <= Len(cols2[c])
    <2> DEFINE m == Len(cols[c])
               e == Len(Enc[v][c])
               m2 == Len(cols2[c])
    <2>0. m \in Nat /\ e \in Nat /\ m2 = m + e
      BY <1>4
    <2>1. CASE k = n + 1
      <3>1. pos2[k][c] = m2
        BY <1>7, <2>1
      <3> HIDE DEF m, e, m2
      <3>2. pos2[k][c] <= m2
        BY <2>0, <3>1
      <3> QED BY <3>2 DEF m2
    <2>2. CASE k # n + 1
      <3>1. k \in 0 .. n
        BY <1>2, <2>2
      <3>2. pos[k][c] <= m /\ pos[k][c] \in Nat /\ pos2[k][c] = pos[k][c]
        BY <1>1, <1>5, <1>7, <3>1 DEF Marks
      <3> HIDE DEF m, e, m2
      <3>3. pos2[k][c] <= m2
        BY <2>0, <3>2
      <3> QED BY <3>3 DEF m2
    <2> QED BY <2>1, <2>2
  <1>10. \A c \in Column : pos2[0][c] = 0
    <2>1. 0 \in 0 .. n
      BY <1>2
    <2> QED BY <1>1, <1>7, <2>1 DEF Marks
  <1>11. \A c \in Column : pos2[Len(ws)][c] = Len(cols2[c])
    BY <1>3, <1>7
  <1>12. Marks(pos2, cols2, ws)
    BY <1>3, <1>6, <1>8, <1>9, <1>10, <1>11 DEF Marks
  <1>13. cols2 \in [Column -> Seq(Cell)]
    BY <1>4
  <1> QED
    BY <1>3, <1>12, <1>13 DEF Holds, ws

-----------------------------------------------------------------------------
(***************************************************************************)
(* How many rows fit.                                                      *)
(***************************************************************************)

\* Lengths that have grown, and one of them truly, add up to more.
LEMMA ExtentMore ==
  ASSUME NEW a \in [Column -> Nat], NEW b \in [Column -> Nat],
         \A c \in Column : a[c] <= b[c],
         NEW d \in Column, a[d] < b[d]
  PROVE  Extent(a)[NumColumns] < Extent(b)[NumColumns]
  <1> DEFINE A == Extent(a)
             B == Extent(b)
  <1>1. NumColumns \in Nat /\ a \in Seq(Nat) /\ b \in Seq(Nat) /\ Len(a) = NumColumns /\ Len(b) = NumColumns
    BY ColumnsSeq, NumColumnsAssumption
  <1>2. /\ A \in [0 .. NumColumns -> Nat] /\ A[0] = 0
        /\ \A n \in 1 .. NumColumns : A[n] = A[n - 1] + a[n]
    BY <1>1, ExtentGrows
  <1>3. /\ B \in [0 .. NumColumns -> Nat] /\ B[0] = 0
        /\ \A n \in 1 .. NumColumns : B[n] = B[n - 1] + b[n]
    BY <1>1, ExtentGrows
  <1> HIDE DEF A, B
  <1>4. d \in 1 .. NumColumns
    BY DEF Column
  <1> DEFINE T == {n \in 0 .. NumColumns : ~ (A[n] <= B[n] /\ (d <= n => A[n] < B[n]))}
  <1>5. T = {}
    <2> SUFFICES ASSUME T # {} PROVE FALSE
      OBVIOUS
    <2>1. T \in SUBSET Nat
      OBVIOUS
    <2> HIDE DEF T
    <2>2. PICK n \in T : \A m \in T : n <= m
      BY <2>1, LeastNatural
    <2> USE DEF T
    <2>3. n \in 0 .. NumColumns /\ n \in Nat
      OBVIOUS
    <2>4. CASE n = 0
      BY <1>2, <1>3, <1>4, <2>4
    <2>5. CASE n # 0
      <3>1. n \in 1 .. NumColumns /\ n - 1 \in 0 .. NumColumns /\ ~ (n <= n - 1)
        BY <1>1, <2>3, <2>5
      <3>2. n - 1 \notin T
        BY <2>2, <3>1
      <3>3. A[n - 1] <= B[n - 1] /\ (d <= n - 1 => A[n - 1] < B[n - 1])
        BY <3>1, <3>2
      <3>4. A[n] = A[n - 1] + a[n] /\ B[n] = B[n - 1] + b[n]
        BY <1>2, <1>3, <3>1
      <3>5. a[n] <= b[n] /\ (n = d => a[n] < b[n]) /\ a[n] \in Nat /\ b[n] \in Nat
        BY <3>1 DEF Column
      <3>6. A[n - 1] \in Nat /\ B[n - 1] \in Nat
        BY <1>2, <1>3, <3>1
      <3>7. A[n] <= B[n]
        BY <3>3, <3>4, <3>5, <3>6
      <3>8. ASSUME d <= n PROVE A[n] < B[n]
        <4>1. CASE d = n
          BY <3>3, <3>4, <3>5, <3>6, <4>1
        <4>2. CASE d # n
          <5>1. d <= n - 1
            BY <1>4, <2>3, <3>8, <4>2
          <5> QED BY <3>3, <3>4, <3>5, <3>6, <5>1
        <4> QED BY <4>1, <4>2
      <3> QED BY <3>7, <3>8
    <2> QED BY <2>4, <2>5
  <1>6. NumColumns \in 0 .. NumColumns /\ d <= NumColumns
    BY <1>1, <1>4
  <1> QED
    BY <1>5, <1>6 DEF A, B

\* A row takes a byte, so there are no more rows than bytes.
LEMMA RowsFit ==
  ASSUME NEW cols, NEW vs, Holds(cols, vs), NumColumns > 0,
         NEW lengths, lengths = [c \in Column |-> Len(cols[c])]
  PROVE  Len(vs) <= Extent(lengths)[NumColumns]
  <1>1. PICK pos : Marks(pos, cols, vs)
    BY DEF Holds
  <1>2. cols \in [Column -> Seq(Cell)] /\ vs \in Seq(Value) /\ Len(vs) \in Nat
    BY DEF Holds
  <1>3. pos \in [0 .. Len(vs) -> [Column -> Nat]]
    BY <1>1 DEF Marks
  <1> DEFINE T == {n \in 0 .. Len(vs) : ~ (n <= Extent(pos[n])[NumColumns])}
  <1>4. ASSUME NEW n \in 0 .. Len(vs)
        PROVE  Extent(pos[n])[NumColumns] \in Nat
    <2>1. pos[n] \in [Column -> Nat]
      BY <1>3
    <2>2. pos[n] \in Seq(Nat) /\ Len(pos[n]) = NumColumns /\ NumColumns \in Nat
      BY <2>1, ColumnsSeq, NumColumnsAssumption
    <2>3. Extent(pos[n]) \in [0 .. NumColumns -> Nat]
      BY <2>2, ExtentGrows
    <2> QED BY <2>2, <2>3
  <1>5. T = {}
    <2> SUFFICES ASSUME T # {} PROVE FALSE
      OBVIOUS
    <2>1. T \in SUBSET Nat
      OBVIOUS
    <2> HIDE DEF T
    <2>2. PICK n \in T : \A m \in T : n <= m
      BY <2>1, LeastNatural
    <2> USE DEF T
    <2>3. n \in 0 .. Len(vs) /\ n \in Nat /\ ~ (n <= Extent(pos[n])[NumColumns])
      OBVIOUS
    <2>4. CASE n = 0
      BY <1>4, <2>3, <2>4
    <2>5. CASE n # 0
      <3>1. n \in 1 .. Len(vs) /\ n - 1 \in 0 .. Len(vs) /\ ~ (n <= n - 1)
        BY <1>2, <2>3, <2>5
      <3>2. n - 1 \notin T
        BY <2>2, <3>1
      <3>3. n - 1 <= Extent(pos[n - 1])[NumColumns]
        BY <3>1, <3>2
      <3>4. vs[n] \in Value
        BY <1>2, <3>1
      <3>5. PICK d \in Column : Enc[vs[n]][d] # << >>
        BY <3>4, StreamAssumption
      <3>6. Len(Enc[vs[n]][d]) > 0
        BY <3>4, <3>5, EncType
      <3> DEFINE a == pos[n - 1]
                 b == pos[n]
      <3>7. a \in [Column -> Nat] /\ b \in [Column -> Nat]
        BY <1>3, <2>3, <3>1
      <3>8. \A c \in Column : b[c] = a[c] + Len(Enc[vs[n]][c]) /\ Len(Enc[vs[n]][c]) \in Nat /\ a[c] \in Nat
        BY <1>1, <3>1, <3>4, <3>7, EncType DEF Marks
      <3> HIDE DEF a, b
      <3>9. (\A c \in Column : a[c] <= b[c]) /\ a[d] < b[d]
        BY <3>6, <3>8
      <3>10. Extent(a)[NumColumns] < Extent(b)[NumColumns]
        BY <3>7, <3>9, ExtentMore
      <3> QED
        BY <1>4, <2>3, <3>1, <3>3, <3>10 DEF a, b
    <2> QED BY <2>4, <2>5
  <1>6. Len(vs) \in 0 .. Len(vs)
    BY <1>2
  <1>7. lengths = pos[Len(vs)]
    <2>1. pos[Len(vs)] \in [Column -> Nat]
      BY <1>3, <1>6
    <2> QED BY <1>1, <2>1 DEF Marks
  <1> QED
    BY <1>5, <1>6, <1>7
-----------------------------------------------------------------------------
(***************************************************************************)
(* The invariant.                                                          *)
(***************************************************************************)

\* The committed part of the batch is the rows pushed since the last clear.
Batched ==
  /\ rows = Len(pushed)
  /\ Holds(Committed, pushed)

\* A blob of the rows of vs.
Files(blob, vs) ==
  \E cols : Holds(cols, vs) /\ blob = BlobOf(cols, Len(vs))

\* Every blob finished is a blob of the rows pushed into it.
Filed ==
  /\ \E S : out \in Seq(S)
  /\ sent \in Seq(Seq(Value))
  /\ Len(out) = Len(sent)
  /\ \A i \in 1 .. Len(out) : Files(out[i], sent[i])

\* The cursors are at the mark after the rows yielded, of the rows of vs.
At(vs, pos) ==
  /\ slices \in [Column -> Seq(Cell)]
  /\ cursors \in [Column -> Nat]
  /\ Marks(pos, slices, vs)
  /\ yielded \in Seq(Value)
  /\ Len(yielded) <= Len(vs)
  /\ yielded = SubSeq(vs, 1, Len(yielded))
  /\ remaining = Len(vs) - Len(yielded)
  /\ \A c \in Column : cursors[c] = pos[Len(yielded)][c]

\* The reader is in the middle of one of the blobs, and has met no error, or
\* has refused one of more rows without columns than it takes.
Reading ==
  /\ status \in {"new", "open", "rejected"}
  /\ failed = FALSE
  /\ status # "open" => remaining = 0
  /\ status = "new" => yielded = << >> /\ cursors = [c \in Column |-> 0]
  /\ status = "rejected" => NumColumns = 0 /\ input.rows > MaxZeroColumnRepeat
  /\ status = "open" =>
       \E i \in 1 .. Len(out) : input = out[i] /\ \E pos : At(sent[i], pos)

SInv == IInv /\ Batched /\ Filed /\ Reading

-----------------------------------------------------------------------------
(***************************************************************************)
(* The reader's copies of module Blob's operators are those operators.     *)
(***************************************************************************)
LEMMA ReaderBlob ==
  /\ Reader!Column = Column
  /\ Reader!NoCells = NoCells
  /\ \A blob : Reader!ClaimedBytes(blob) = ClaimedBytes(blob)
  /\ \A blob, c : Reader!SliceOf(blob, c) = SliceOf(blob, c)
  BY DEF Reader!Column, Column, Reader!NoCells, NoCells, Reader!ClaimedBytes, ClaimedBytes,
         Reader!SliceOf, SliceOf, Reader!OffsetOf, OffsetOf, Reader!Extent, Extent

\* open takes a blob of rows, unless they have no columns and are too many, and
\* gives the cursors the columns of those rows.
LEMMA FiledOpens ==
  ASSUME NEW vs, NEW blob, Files(blob, vs)
  PROVE  /\ NumColumns # 0 \/ blob.rows <= MaxZeroColumnRepeat => Reader!WellFormed(blob)
         /\ blob.rows = Len(vs)
         /\ Holds([c \in Column |-> SliceOf(blob, c)], vs)
  <1>1. PICK cols : Holds(cols, vs) /\ blob = BlobOf(cols, Len(vs))
    BY DEF Files
  <1>2. cols \in [Column -> Seq(Cell)] /\ vs \in Seq(Value) /\ Len(vs) \in Nat
    BY <1>1 DEF Holds
  <1> DEFINE lengths == [c \in Column |-> Len(cols[c])]
  <1>3. /\ blob.rows = Len(vs)
        /\ blob.count = NumColumns
        /\ blob.lengths = lengths
    BY <1>1 DEF BlobOf
  <1>4. Exact(Cell, blob) /\ \A c \in Column : SliceOf(blob, c) = cols[c]
    BY <1>1, <1>2, OpenedAsWritten, Zenon
  <1>5. [c \in Column |-> SliceOf(blob, c)] = cols
    BY <1>2, <1>4
  <1>6. ASSUME NumColumns # 0 \/ blob.rows <= MaxZeroColumnRepeat
        PROVE  blob.rows <= Reader!RowLimit(blob)
    <2>1. CASE NumColumns = 0
      BY <1>6, <2>1 DEF Reader!RowLimit
    <2>2. CASE NumColumns # 0
      <3>1. NumColumns > 0
        BY <2>2, NumColumnsAssumption
      <3>2. lengths \in Seq(Nat) /\ Len(lengths) = NumColumns
        <4>1. lengths \in [Column -> Nat]
          BY <1>2
        <4> HIDE DEF lengths
        <4> QED BY <4>1, ColumnsSeq
      <3> HIDE DEF lengths
      <3>3. Len(vs) <= Extent(lengths)[NumColumns]
        BY <1>1, <3>1, RowsFit DEF lengths
      <3>4. ClaimedBytes(blob) = Extent(lengths)[NumColumns]
        BY <1>3, <3>2 DEF ClaimedBytes
      <3> QED BY <1>3, <2>2, <3>3, <3>4, ReaderBlob DEF Reader!RowLimit
    <2> QED BY <2>1, <2>2
  <1>7. ASSUME NumColumns # 0 \/ blob.rows <= MaxZeroColumnRepeat
        PROVE  Reader!WellFormed(blob)
    BY <1>3, <1>4, <1>6, <1>7, ReaderBlob DEF Reader!WellFormed, Exact
  <1> QED
    BY <1>1, <1>3, <1>5, <1>7

\* Of all values only the next of the rows pushed decodes.
LEMMA OnlyNextDecodes ==
  ASSUME NEW vs \in Seq(Value), NEW pos, At(vs, pos), remaining > 0
  PROVE  /\ Len(yielded) + 1 \in 1 .. Len(vs)
         /\ vs[Len(yielded) + 1] \in Value
         /\ Reader!Decodes(vs[Len(yielded) + 1])
         /\ \A w \in Value : Reader!Decodes(w) => w = vs[Len(yielded) + 1]
  <1> DEFINE n == Len(yielded) + 1
             v == vs[n]
  <1>1. Len(yielded) \in Nat /\ Len(vs) \in Nat /\ Len(yielded) < Len(vs)
    BY DEF At
  <1>2. n \in 1 .. Len(vs) /\ n - 1 = Len(yielded) /\ n \in 0 .. Len(vs)
    BY <1>1
  <1>3. v \in Value
    BY <1>2
  <1> HIDE DEF n, v
  <1>4. ASSUME NEW c \in Column
        PROVE  /\ cursors[c] + Len(Enc[v][c]) <= Len(slices[c])
               /\ \A i \in 1 .. Len(Enc[v][c]) : slices[c][cursors[c] + i] = Enc[v][c][i]
    <2>1. cursors[c] = pos[n - 1][c]
      BY <1>2 DEF At
    <2>2. /\ pos[n][c] = pos[n - 1][c] + Len(Enc[v][c])
          /\ \A i \in 1 .. Len(Enc[v][c]) : slices[c][pos[n - 1][c] + i] = Enc[v][c][i]
          /\ pos[n][c] <= Len(slices[c])
      BY <1>2 DEF At, Marks, v
    <2> QED BY <2>1, <2>2
  <1>5. Reader!Decodes(v)
    BY <1>4, ReaderBlob DEF Reader!Decodes
  <1>6. ASSUME NEW w \in Value, Reader!Decodes(w)
        PROVE  w = v
    <2> SUFFICES ASSUME w # v PROVE FALSE
      OBVIOUS
    <2>1. PICK c \in Column : \E i \in 1 .. Len(Enc[w][c]) :
            i \in 1 .. Len(Enc[v][c]) /\ Enc[w][c][i] # Enc[v][c][i]
      BY <1>3, StreamAssumption, ReaderBlob DEF Reader!UniquelyDecodable
    <2>2. \A i \in 1 .. Len(Enc[w][c]) : slices[c][cursors[c] + i] = Enc[w][c][i]
      BY <1>6, ReaderBlob DEF Reader!Decodes
    <2> QED BY <1>4, <2>1, <2>2
  <1> QED
    BY <1>2, <1>3, <1>5, <1>6 DEF n, v

\* A row is yielded: the cursors move to the next mark.
LEMMA NextRowAt ==
  ASSUME NEW vs \in Seq(Value), NEW pos, At(vs, pos), NEW w \in Value, Reader!NextRow(w)
  PROVE  At(vs, pos)'
  <1> DEFINE n == Len(yielded) + 1
  <1>0. remaining > 0 /\ Reader!Decodes(w)
    BY DEF Reader!NextRow
  <1>1. n \in 1 .. Len(vs) /\ vs[n] = w
    BY <1>0, OnlyNextDecodes
  <1>2. /\ remaining' = remaining - 1
        /\ cursors' = [c \in Column |-> cursors[c] + Len(Enc[w][c])]
        /\ yielded' = Append(yielded, w)
        /\ slices' = slices
    BY ReaderBlob DEF Reader!NextRow, Reader!Past
  <1>3. yielded' \in Seq(Value) /\ Len(yielded') = n /\ Len(yielded) \in Nat
    BY <1>2 DEF At
  <1>4. yielded' = SubSeq(vs, 1, n)
    <2>1. yielded = SubSeq(vs, 1, n - 1) /\ n - 1 \in Nat /\ n <= Len(vs)
      BY <1>1, <1>3 DEF At
    <2>2. SubSeq(vs, 1, n) = Append(SubSeq(vs, 1, n - 1), vs[n])
      BY <1>1
    <2> QED BY <1>1, <1>2, <2>1, <2>2
  <1>5. remaining' = Len(vs) - n /\ n <= Len(vs)
    BY <1>1, <1>2, <1>3 DEF At
  <1>6. ASSUME NEW c \in Column
        PROVE  cursors'[c] = pos[n][c] /\ cursors'[c] \in Nat
    <2>1. cursors[c] = pos[n - 1][c] /\ n - 1 = Len(yielded) /\ cursors[c] \in Nat
      BY <1>3 DEF At
    <2>2. pos[n][c] = pos[n - 1][c] + Len(Enc[w][c])
      BY <1>1 DEF At, Marks
    <2>3. cursors'[c] = cursors[c] + Len(Enc[w][c])
      BY <1>2
    <2>4. Len(Enc[w][c]) \in Nat
      BY EncType
    <2> HIDE DEF n
    <2>5. cursors'[c] = pos[n][c]
      BY <2>1, <2>2, <2>3
    <2> QED BY <2>1, <2>3, <2>4, <2>5
  <1>7. cursors' \in [Column -> Nat]
    BY <1>2, <1>6
  <1>8. Marks(pos, slices, vs)' /\ slices' \in [Column -> Seq(Cell)]
    BY <1>2 DEF At, Marks
  <1> HIDE DEF n
  <1> QED
    BY <1>3, <1>4, <1>5, <1>6, <1>7, <1>8 DEF At

\* The reader never meets an error in such a blob.
LEMMA NoError ==
  ASSUME NEW vs \in Seq(Value), NEW pos, At(vs, pos)
  PROVE  /\ ~Reader!NextUnread
         /\ \A w \in Value : ~Reader!NextTrailingBytes(w)
  <1>1. ASSUME Reader!NextUnread PROVE FALSE
    <2>1. remaining > 0 /\ \A v \in Value : ~Reader!Decodes(v)
      BY <1>1 DEF Reader!NextUnread
    <2> QED BY <2>1, OnlyNextDecodes
  <1>2. ASSUME NEW w \in Value, Reader!NextTrailingBytes(w) PROVE FALSE
    <2>1. remaining = 1 /\ Reader!Decodes(w) /\ ~Reader!AllAtEnd(Reader!Past(w))
      BY <1>2 DEF Reader!NextTrailingBytes
    <2>2. Len(yielded) + 1 = Len(vs) /\ Len(yielded) \in Nat /\ Len(vs) \in 1 .. Len(vs)
      BY <2>1 DEF At
    <2>3. w = vs[Len(vs)]
      <3>1. remaining > 0
        BY <2>1
      <3>2. w = vs[Len(yielded) + 1]
        BY <2>1, <3>1, OnlyNextDecodes
      <3> QED BY <2>2, <3>2
    <2>4. ASSUME NEW c \in Column
          PROVE  cursors[c] + Len(Enc[w][c]) = Len(slices[c])
      <3>1. cursors[c] = pos[Len(vs) - 1][c]
        BY <2>2 DEF At
      <3>2. pos[Len(vs)][c] = pos[Len(vs) - 1][c] + Len(Enc[w][c]) /\ pos[Len(vs)][c] = Len(slices[c])
        BY <2>2, <2>3 DEF At, Marks
      <3> QED BY <3>1, <3>2
    <2> QED BY <2>1, <2>4, ReaderBlob DEF Reader!AllAtEnd, Reader!Past
  <1> QED BY <1>1, <1>2
-----------------------------------------------------------------------------
LEMMA InitSInv == StreamInit => SInv
  <1> SUFFICES ASSUME StreamInit PROVE SInv
    OBVIOUS
  <1>1. IInv
    BY InitIInv DEF StreamInit
  <1>2. Batched
    <2>1. Committed = NoCells /\ rows = 0 /\ pushed = << >> /\ Idle
      BY DEF StreamInit, Init, Committed, Idle
    <2> QED BY <2>1, HoldsNone, BatchAssumption DEF Batched
  <1>3. Filed
    BY DEF StreamInit, Init, Filed
  <1>4. Reading
    BY ReaderBlob DEF StreamInit, Reader!Init, Reading
  <1> QED
    BY <1>1, <1>2, <1>3, <1>4 DEF SInv

\* What is filed is not disturbed.
LEMMA FiledStays ==
  ASSUME Filed, out' = out, sent' = sent
  PROVE  Filed'
  <1>1. ASSUME NEW i \in 1 .. Len(out)
        PROVE  Files(out'[i], sent'[i])
    BY DEF Filed
  <1>2. \A i \in 1 .. Len(out') : Files(out[i], sent[i])'
    BY <1>1 DEF Files, Holds, Marks
  <1> QED BY <1>2 DEF Filed

\* The batch's own steps: the reader and the blobs finished do not notice.
LEMMA ReadingStays ==
  ASSUME Filed, Reading, UNCHANGED <<out, sent, readerVars>>
  PROVE  Filed' /\ Reading'
  <1>1. Filed'
    BY FiledStays
  <1>2. Reading'
    <2>1. CASE status = "open"
      <3>1. PICK i \in 1 .. Len(out) : input = out[i] /\ \E pos : At(sent[i], pos)
        BY <2>1 DEF Reading
      <3>2. PICK pos : At(sent[i], pos)
        BY <3>1
      <3>3. At(sent[i], pos)'
        BY <3>2 DEF readerVars, At, Marks
      <3> QED BY <2>1, <3>1, <3>3 DEF readerVars, Reading
    <2>2. CASE status # "open"
      BY <2>2 DEF readerVars, Reading
    <2> QED BY <2>1, <2>2
  <1> QED BY <1>1, <1>2

LEMMA WriteSInv ==
  ASSUME SInv, Write
  PROVE  SInv'
  <1>1. Next
    BY DEF Write, Next
  <1>2. IInv'
    BY <1>1, NextIInv DEF SInv
  <1>3. Committed' = Committed
    <2>1. CASE \/ \E v \in Value : BeginPush(v) \/ BeginPushColumns(v)
               \/ \E c \in Column : WriteCell(c)
      BY <2>1, CommittedStays DEF SInv
    <2>2. CASE RejectPushColumns
      BY <2>2 DEF RejectPushColumns, Committed, Idle
    <2>3. CASE FailPush
      BY <2>3, FailKeeps
    <2> QED BY <2>1, <2>2, <2>3 DEF Write
  <1>4. /\ rows' = rows /\ pushed' = pushed /\ out' = out /\ sent' = sent /\ UNCHANGED readerVars
    BY DEF Write, BeginPush, BeginPushColumns, StartRow, RejectPushColumns, WriteCell, FailPush,
           EndCall, Idle, SInv, Batched
  <1>5. Batched'
    BY <1>3, <1>4 DEF SInv, Batched
  <1> QED
    BY <1>2, <1>4, <1>5, ReadingStays DEF SInv

LEMMA WriteDoneSInv ==
  ASSUME SInv, WriteDone
  PROVE  SInv'
  <1>1. CommitPush /\ pushed' = Append(pushed, value) /\ UNCHANGED <<sent, readerVars>>
    BY DEF WriteDone
  <1>2. IInv'
    BY <1>1, NextIInv DEF SInv, Next
  <1>3. value \in Value /\ Committed' = [c \in Column |-> Committed[c] \o Enc[value][c]]
    BY <1>1, CommitAppends DEF SInv
  <1>4. Holds(Committed', Append(pushed, value))
    BY <1>3, HoldsAppend DEF SInv, Batched
  <1>5. rows' = rows + 1 /\ out' = out /\ Idle' /\ ~Idle
    BY <1>1 DEF CommitPush, EndCall, Idle
  <1>6. Batched'
    <2>1. rows = Len(pushed) /\ pushed \in Seq(Value)
      BY DEF SInv, Batched, Holds
    <2>2. Len(pushed') = Len(pushed) + 1
      BY <1>1, <1>3, <2>1
    <2>3. rows' = Len(pushed')
      BY <1>5, <2>1, <2>2
    <2>4. Holds(Committed, pushed)'
      BY <1>1, <1>4 DEF Holds, Marks
    <2> QED BY <1>5, <2>3, <2>4 DEF Batched
  <1> QED
    BY <1>1, <1>2, <1>5, <1>6, ReadingStays DEF SInv

LEMMA ClearBatched ==
  ASSUME SInv, Clear, Idle, pushed' = << >>
  PROVE  Batched'
  <1>1. columns' = NoCells /\ rows' = 0 /\ value' = value
    BY DEF Clear
  <1>2. Idle' /\ Committed' = NoCells
    BY <1>1 DEF Idle, Committed
  <1>3. Holds(Committed, pushed)'
    <2>1. Holds(Committed', pushed')
      BY <1>2, HoldsNone
    <2> QED BY <2>1 DEF Holds, Marks
  <1> QED
    BY <1>1, <1>2, <1>3, BatchAssumption DEF Batched

LEMMA SendSInv ==
  ASSUME SInv, Send
  PROVE  SInv'
  <1>1. /\ FinishInto /\ Idle /\ Clear /\ out' = Append(out, BlobOf(columns, rows))
        /\ sent' = Append(sent, pushed) /\ pushed' = << >> /\ UNCHANGED readerVars
    BY DEF Send, FinishInto
  <1>2. IInv'
    BY <1>1, NextIInv DEF SInv, Next
  <1>3. Batched'
    BY <1>1, ClearBatched
  <1>4. Files(BlobOf(columns, rows), pushed)
    BY <1>1 DEF SInv, Batched, Committed, Files
  <1>5. PICK S : out \in Seq(S)
    BY DEF SInv, Filed
  <1>6. sent \in Seq(Seq(Value)) /\ Len(out) = Len(sent) /\ pushed \in Seq(Value)
    BY DEF SInv, Filed, Batched, Holds
  <1>7. /\ out' \in Seq(S \union {BlobOf(columns, rows)})
        /\ Len(out') = Len(out) + 1
        /\ out'[Len(out) + 1] = BlobOf(columns, rows)
        /\ \A i \in 1 .. Len(out) : out'[i] = out[i]
    <2> DEFINE b == BlobOf(columns, rows)
    <2>1. out \in Seq(S \union {b}) /\ b \in S \union {b}
      BY <1>5
    <2> HIDE DEF b
    <2>2. /\ Append(out, b) \in Seq(S \union {b})
          /\ Len(Append(out, b)) = Len(out) + 1
          /\ Append(out, b)[Len(out) + 1] = b
          /\ \A i \in 1 .. Len(out) : Append(out, b)[i] = out[i]
      BY <2>1
    <2> QED BY <1>1, <2>2 DEF b
  <1>8. /\ sent' \in Seq(Seq(Value))
        /\ Len(sent') = Len(out) + 1
        /\ sent'[Len(out) + 1] = pushed
        /\ \A i \in 1 .. Len(out) : sent'[i] = sent[i]
    BY <1>1, <1>6
  <1>9. Len(out) \in Nat
    BY <1>5
  <1>10. Filed'
    <2>1. ASSUME NEW i \in 1 .. Len(out')
          PROVE  Files(out'[i], sent'[i])
      <3>1. CASE i = Len(out) + 1
        BY <1>4, <1>7, <1>8, <3>1
      <3>2. CASE i # Len(out) + 1
        <4>1. i \in 1 .. Len(out)
          BY <1>7, <1>9, <3>2
        <4>2. Files(out[i], sent[i])
          BY <4>1 DEF SInv, Filed
        <4> QED BY <1>7, <1>8, <4>1, <4>2
      <3> QED BY <3>1, <3>2
    <2>2. \A i \in 1 .. Len(out') : Files(out[i], sent[i])'
      BY <2>1 DEF Files, Holds, Marks
    <2> QED BY <1>7, <1>8, <2>2 DEF Filed
  <1>11. Reading'
    <2>1. CASE status = "open"
      <3>1. PICK i \in 1 .. Len(out) : input = out[i] /\ \E pos : At(sent[i], pos)
        BY <2>1 DEF SInv, Reading
      <3>2. PICK pos : At(sent[i], pos)
        BY <3>1
      <3>3. i \in 1 .. Len(out') /\ input' = out'[i] /\ sent'[i] = sent[i]
        BY <1>1, <1>7, <1>8, <1>9, <3>1 DEF readerVars
      <3>4. At(sent[i], pos)'
        <4>1. UNCHANGED <<slices, cursors, yielded, remaining>>
          BY <1>1 DEF readerVars
        <4>2. sent'[i] = sent[i]
          BY <3>3
        <4> QED BY <3>2, <4>1, <4>2 DEF At, Marks
      <3>5. status' = "open" /\ failed' = FALSE
        BY <1>1, <2>1 DEF readerVars, SInv, Reading
      <3> QED BY <3>3, <3>4, <3>5 DEF Reading
    <2>2. CASE status # "open"
      BY <1>1, <2>2 DEF readerVars, SInv, Reading
    <2> QED BY <2>1, <2>2
  <1> QED
    BY <1>2, <1>3, <1>10, <1>11 DEF SInv

LEMMA DiscardSInv ==
  ASSUME SInv, Discard
  PROVE  SInv'
  <1>1. Reset /\ Idle /\ Clear /\ out' = out /\ pushed' = << >> /\ UNCHANGED <<sent, readerVars>>
    BY DEF Discard, Reset
  <1>2. IInv'
    BY <1>1, NextIInv DEF SInv, Next
  <1> QED
    BY <1>1, <1>2, ClearBatched, ReadingStays DEF SInv

\* The reader's steps: the batch does not notice.
LEMMA BatchStays ==
  ASSUME IInv, Batched, Filed, UNCHANGED <<vars, pushed, sent>>
  PROVE  IInv' /\ Batched' /\ Filed'
  <1>1. IInv'
    BY NextIInv
  <1>2. Batched'
    BY DEF Batched, vars, Committed, Idle, Holds, Marks
  <1>3. Filed'
    BY FiledStays DEF vars
  <1> QED BY <1>1, <1>2, <1>3
\* A blob is opened: it is accepted, and the cursors are at its first mark.
LEMMA OpenReading ==
  ASSUME Filed, Reading, NEW i \in 1 .. Len(out), Reader!Open(out[i]), UNCHANGED <<out, sent>>
  PROVE  Reading'
  <1>1. Files(out[i], sent[i])
    BY DEF Filed
  <1>2. /\ status = "new" /\ status' = "open" /\ input' = out[i]
        /\ slices' = [c \in Column |-> SliceOf(out[i], c)]
        /\ remaining' = out[i].rows
        /\ cursors' = cursors /\ yielded' = yielded /\ failed' = failed
    BY ReaderBlob DEF Reader!Open
  <1>3. out[i].rows = Len(sent[i]) /\ Holds(slices', sent[i])
    BY <1>1, <1>2, FiledOpens
  <1>4. /\ slices' \in [Column -> Seq(Cell)] /\ sent[i] \in Seq(Value) /\ Len(sent[i]) \in Nat
        /\ cursors = [c \in Column |-> 0] /\ yielded = << >>
    BY <1>2, <1>3 DEF Reading, Holds
  <1>5. PICK pos : Marks(pos, slices', sent[i])
    BY <1>3 DEF Holds
  <1>6. At(sent[i], pos)'
    <2>1. Marks(pos, slices, sent[i])'
      BY <1>5 DEF Marks
    <2>2. \A c \in Column : cursors'[c] = pos[Len(yielded')][c]
      BY <1>2, <1>4, <1>5 DEF Marks
    <2>3. remaining' = Len(sent'[i]) - Len(yielded') /\ Len(yielded') <= Len(sent'[i])
      BY <1>2, <1>3, <1>4
    <2>4. yielded' = SubSeq(sent'[i], 1, Len(yielded')) /\ yielded' \in Seq(Value)
      BY <1>2, <1>4
    <2>5. cursors' \in [Column -> Nat]
      BY <1>2, <1>4
    <2> QED BY <1>4, <2>1, <2>2, <2>3, <2>4, <2>5 DEF At
  <1> QED
    BY <1>2, <1>6 DEF Reading

LEMMA ReadSInv ==
  ASSUME SInv, Read
  PROVE  SInv'
  <1>1. UNCHANGED <<vars, pushed, sent>> /\ out' = out /\ sent' = sent
    BY DEF Read, vars
  <1>2. IInv' /\ Batched' /\ Filed'
    BY <1>1, BatchStays DEF SInv
  <1>3. out \in Seq({out[i] : i \in 1 .. Len(out)}) /\ DOMAIN out = 1 .. Len(out)
    BY DEF SInv, Filed
  <1>4. ASSUME NEW i \in DOMAIN out, Reader!Open(out[i]) PROVE Reading'
    BY <1>1, <1>3, <1>4, OpenReading DEF SInv
  <1>5. ASSUME NEW i \in DOMAIN out, Reader!OpenError(out[i]) PROVE Reading'
    <2>1. Files(out[i], sent[i])
      BY <1>3 DEF SInv, Filed
    <2>2. ~(NumColumns # 0 \/ out[i].rows <= MaxZeroColumnRepeat)
      BY <1>5, <2>1, FiledOpens DEF Reader!OpenError
    <2>3. out[i].rows = Len(sent[i]) /\ sent[i] \in Seq(Value)
      BY <2>1, FiledOpens DEF Holds
    <2>4. out[i].rows > MaxZeroColumnRepeat
      <3> DEFINE n == out[i].rows
      <3>1. n \in Nat /\ ~(n <= MaxZeroColumnRepeat) /\ MaxZeroColumnRepeat \in Nat
        BY <2>2, <2>3, StreamAssumption
      <3> HIDE DEF n
      <3>2. n > MaxZeroColumnRepeat
        BY <3>1
      <3> QED BY <3>2 DEF n
    <2>5. /\ status = "new" /\ status' = "rejected" /\ input' = out[i]
          /\ remaining' = remaining /\ failed' = failed
      BY <1>5 DEF Reader!OpenError
    <2> QED BY <2>2, <2>4, <2>5 DEF SInv, Reading
  <1>6. ASSUME NEW w \in Value, Reader!NextRow(w) \/ Reader!NextTrailingBytes(w) \/ Reader!NextUnread
        PROVE  Reading'
    <2>1. remaining > 0
      <3>1. CASE Reader!NextRow(w)
        BY <3>1 DEF Reader!NextRow
      <3>2. CASE Reader!NextTrailingBytes(w)
        <4>1. remaining = 1
          BY <3>2 DEF Reader!NextTrailingBytes
        <4> QED BY <4>1
      <3>3. CASE Reader!NextUnread
        BY <3>3 DEF Reader!NextUnread
      <3> QED BY <1>6, <3>1, <3>2, <3>3
    <2>2. status = "open"
      BY <2>1 DEF SInv, Reading
    <2>3. PICK i \in 1 .. Len(out) : input = out[i] /\ \E pos : At(sent[i], pos)
      BY <2>2 DEF SInv, Reading
    <2>4. PICK pos : At(sent[i], pos)
      BY <2>3
    <2>5. sent[i] \in Seq(Value)
      BY <2>3 DEF SInv, Filed
    <2>6. Reader!NextRow(w)
      BY <1>6, <2>4, <2>5, NoError
    <2>7. At(sent[i], pos)'
      <3> DEFINE vs == sent[i]
      <3> SUFFICES ASSUME NEW us, us = vs PROVE At(vs, pos)'
        OBVIOUS
      <3>1. At(us, pos) /\ us \in Seq(Value)
        BY <2>4, <2>5
      <3>2. At(us, pos)'
        BY <2>6, <3>1, NextRowAt
      <3> QED BY <1>1, <3>2
    <2>8. status' = status /\ failed' = failed /\ input' = input
      BY <2>6 DEF Reader!NextRow
    <2> QED BY <1>1, <2>2, <2>3, <2>7, <2>8 DEF SInv, Reading
  <1>7. ASSUME Reader!NextUnread PROVE Reading'
    <2>1. remaining > 0
      BY <1>7 DEF Reader!NextUnread
    <2>2. PICK i \in 1 .. Len(out) : \E pos : At(sent[i], pos)
      BY <2>1 DEF SInv, Reading
    <2>3. sent[i] \in Seq(Value)
      BY <2>2 DEF SInv, Filed
    <2> QED BY <1>7, <2>2, <2>3, NoError
  <1>8. ASSUME Reader!NextNone PROVE Reading'
    <2>1. UNCHANGED readerVars
      BY <1>8 DEF Reader!NextNone, Reader!vars, readerVars
    <2> QED BY <1>1, <2>1, ReadingStays DEF SInv
  <1>9. Reading'
    BY <1>4, <1>5, <1>6, <1>7, <1>8 DEF Read
  <1> QED
    BY <1>2, <1>9 DEF SInv

LEMMA NextSInv == SInv /\ [StreamNext]_streamVars => SInv'
  <1> SUFFICES ASSUME SInv, [StreamNext]_streamVars PROVE SInv'
    OBVIOUS
  <1>1. CASE UNCHANGED streamVars
    <2>1. UNCHANGED <<vars, pushed, sent>> /\ UNCHANGED <<out, sent, readerVars>>
      BY <1>1 DEF streamVars, vars
    <2> QED BY <2>1, BatchStays, ReadingStays DEF SInv
  <1> QED
    BY <1>1, WriteSInv, WriteDoneSInv, SendSInv, DiscardSInv, ReadSInv DEF StreamNext

\* Every blob of rows with columns opens and reads back as the rows pushed into
\* it, in order and without an error, whichever engine pushed them, whatever
\* pushes failed in between and however the batch is used while a reader is
\* under way; of rows without columns, every blob that has no more of them than
\* the reader's cap.
THEOREM ReadsBack == StreamSpec => []ReadsBackWhatWasPushed
  <1>1. SInv => ReadsBackWhatWasPushed
    <2> SUFFICES ASSUME SInv PROVE ReadsBackWhatWasPushed
      OBVIOUS
    <2>1. DOMAIN out = 1 .. Len(out)
      BY DEF SInv, Filed
    <2> QED BY <2>1 DEF SInv, Reading, At, ReadsBackWhatWasPushed
  <1> QED
    BY <1>1, InitSInv, NextSInv, PTL DEF StreamSpec
=============================================================================
