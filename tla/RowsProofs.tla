----------------------------- MODULE RowsProofs -----------------------------
(***************************************************************************)
(* Proofs about module Rows, for every schema, reading type and blob: the  *)
(* rows produced are bounded by the bytes handed over, whatever the header *)
(* claims; an error ends the iteration; what was read is what the rows     *)
(* yielded encode to; and a blob read to its end is the blob of its rows.  *)
(***************************************************************************)
EXTENDS Rows, BlobProofs

USE RowsAssumption, NumColumnsAssumption

\* What the counts hold: nothing before the blob is open, no more than its
\* header's row count, which `open` holds against the bytes, afterwards.
Counted ==
  /\ yielded \in Seq(Value)
  /\ remaining \in Nat
  /\ status # "open" => yielded = << >> /\ remaining = 0
  /\ status = "open" =>
       /\ input \in Input
       /\ input.rows \in Nat
       /\ WellFormed(input)
       /\ Len(yielded) + remaining <= input.rows

\* Iteration fuses.
Fused == failed \in BOOLEAN /\ (failed => status = "open" /\ remaining = 0)

\* A cursor has passed as many cells as there are in the rows yielded.
Reread ==
  /\ panics \in Nat
  /\ cursors \in [Column -> Nat]
  /\ reencoded \in [Column -> Seq(Cell)]
  /\ status = "new" => reencoded = NoCells /\ cursors = [c \in Column |-> 0]
  /\ RereadAsRead

IInv == Counted /\ Fused /\ Reread

-----------------------------------------------------------------------------

LEMMA InitIInv == Init => IInv
<1> SUFFICES ASSUME Init PROVE IInv
  OBVIOUS
<1> USE DEF Init
<1>1. Counted
  BY DEF Counted
<1>2. Fused
  BY DEF Fused
<1>3. Reread
  BY DEF Reread, RereadAsRead, NoCells, Column
<1> QED
  BY <1>1, <1>2, <1>3 DEF IInv

\* Cells that agree with a column so far, and with what comes next in it.
LEMMA ReadOn ==
  ASSUME NEW s \in Seq(Cell), NEW e \in Seq(Cell), NEW column,
         \A i \in 1 .. Len(s) : s[i] = column[i],
         \A i \in 1 .. Len(e) : column[Len(s) + i] = e[i]
  PROVE  /\ Len(s \o e) = Len(s) + Len(e)
         /\ \A i \in 1 .. Len(s) + Len(e) : (s \o e)[i] = column[i]
<1>1. Len(s \o e) = Len(s) + Len(e)
  OBVIOUS
<1>2. ASSUME NEW i \in 1 .. Len(s) + Len(e)
      PROVE  (s \o e)[i] = column[i]
  <2>1. i \in Int /\ Len(s) \in Nat /\ Len(e) \in Nat
    OBVIOUS
  <2>2. CASE i <= Len(s)
    BY <2>1, <2>2
  <2>3. CASE i > Len(s)
    <3>1. i - Len(s) \in 1 .. Len(e) /\ Len(s) + (i - Len(s)) = i
      BY <2>1, <2>3
    <3>2. (s \o e)[i] = e[i - Len(s)]
      BY <2>1, <2>3
    <3> QED
      BY <3>1, <3>2
  <2> QED
    BY <2>1, <2>2, <2>3
<1> QED
  BY <1>1, <1>2

\* A row more: the cursors pass what it encodes to.
LEMMA NextRowIInv ==
  ASSUME IInv, NEW v \in Value, NextRow(v)
  PROVE  IInv'
<1> USE DEF IInv, NextRow
<1>1. Enc[v] \in [Column -> Seq(Cell)]
  OBVIOUS
<1>2. Counted'
  <2>1. /\ yielded' \in Seq(Value) /\ Len(yielded') = Len(yielded) + 1
        /\ remaining' \in Nat /\ remaining' = remaining - 1
    BY DEF Counted
  <2>2. status = "open"
    BY DEF Counted
  <2> QED
    BY <2>1, <2>2 DEF Counted, WellFormed, RowLimit, ClaimedBytes
<1>3. Fused'
  BY DEF Fused
<1>4. Reread'
  <2>1. cursors' \in [Column -> Nat]
    BY <1>1 DEF Reread, Past
  <2>2. \A c \in Column :
          /\ reencoded'[c] = reencoded[c] \o Enc[v][c]
          /\ reencoded[c] \in Seq(Cell)
          /\ Enc[v][c] \in Seq(Cell)
    BY <1>1 DEF Reread
  <2>3. reencoded' \in [Column -> Seq(Cell)]
    BY <2>2 DEF Reread
  <2>4. status' # "new"
    BY DEF Counted
  <2>5. ASSUME ~failed', panics' = 0, NEW c \in Column
        PROVE  /\ Len(reencoded'[c]) = cursors'[c]
               /\ \A i \in 1 .. cursors'[c] : reencoded'[c][i] = slices'[c][i]
    <3> DEFINE s == reencoded[c]
               e == Enc[v][c]
               n == cursors[c]
               column == slices[c]
    <3>1. /\ s \in Seq(Cell) /\ e \in Seq(Cell) /\ n \in Nat
          /\ reencoded'[c] = s \o e
          /\ cursors'[c] = n + Len(e)
      BY <2>2 DEF Reread, Past
    <3>2. Len(s) = n /\ \A i \in 1 .. n : s[i] = column[i]
      <4>1. ~failed /\ panics = 0
        BY <2>5
      <4> QED
        BY <4>1 DEF Reread, RereadAsRead
    <3>3. \A i \in 1 .. Len(e) : column[n + i] = e[i]
      BY DEF Decodes
    <3>4. slices'[c] = column
      OBVIOUS
    <3> HIDE DEF s, e, n, column, IInv, NextRow
    <3>5. /\ Len(s \o e) = n + Len(e)
          /\ \A i \in 1 .. n + Len(e) : (s \o e)[i] = column[i]
      <4>1. /\ \A i \in 1 .. Len(s) : s[i] = column[i]
            /\ \A i \in 1 .. Len(e) : column[Len(s) + i] = e[i]
        BY <3>2, <3>3
      <4>2. /\ Len(s \o e) = Len(s) + Len(e)
            /\ \A i \in 1 .. Len(s) + Len(e) : (s \o e)[i] = column[i]
        BY <3>1, <4>1, ReadOn, Zenon
      <4> QED
        BY <3>2, <4>2
    <3> QED
      BY <3>1, <3>4, <3>5
  <2> QED
    BY <2>1, <2>3, <2>4, <2>5 DEF Reread, RereadAsRead
<1> QED
  BY <1>2, <1>3, <1>4

\* Positions reached in the middle of a row are positions.
LEMMA SomewhereIsPositions ==
  ASSUME NEW p \in Somewhere
  PROVE  p \in [Column -> Nat]
BY DEF Somewhere

\* An error: nothing is yielded by it, nor after it.
LEMMA FuseIInv ==
  ASSUME IInv, remaining > 0, Fuse, cursors' \in [Column -> Nat]
  PROVE  IInv'
<1> USE DEF IInv, Fuse
<1>1. status = "open"
  BY DEF Counted
<1>2. Counted'
  BY <1>1 DEF Counted, WellFormed, RowLimit, ClaimedBytes
<1>3. Fused'
  BY <1>1 DEF Fused
<1>4. Reread'
  BY <1>1 DEF Reread, RereadAsRead
<1> QED
  BY <1>2, <1>3, <1>4

LEMMA NextIInv == IInv /\ [Next]_vars => IInv'
<1> SUFFICES ASSUME IInv, [Next]_vars PROVE IInv'
  OBVIOUS
<1> USE DEF IInv
<1>1. ASSUME NEW blob \in Input, Open(blob)
      PROVE  IInv'
  <2>1. IsBlob(blob)
    OBVIOUS
  <2>2. Counted'
    BY <1>1, <2>1 DEF Counted, Open, IsBlob, WellFormed, RowLimit, ClaimedBytes
  <2>3. Fused'
    BY <1>1, <2>1 DEF Fused, Counted, Open
  <2>4. Reread'
    BY <1>1 DEF Reread, RereadAsRead, Open, NoCells, Column
  <2> QED
    BY <2>2, <2>3, <2>4
<1>2. ASSUME NEW blob \in Input, OpenError(blob)
      PROVE  IInv'
  BY <1>2 DEF OpenError, Counted, Fused, Reread, RereadAsRead
<1>3. ASSUME NEW v \in Value, NextRow(v)
      PROVE  IInv'
  BY <1>3, NextRowIInv
<1>4. ASSUME NEW v \in Value, NextTrailingBytes(v)
      PROVE  IInv'
  <2>1. cursors' \in [Column -> Nat]
    BY <1>4 DEF NextTrailingBytes, Past, Reread
  <2> QED
    BY <1>4, <2>1, FuseIInv DEF NextTrailingBytes
<1>5. CASE NextUnread
  BY <1>5, FuseIInv, SomewhereIsPositions DEF NextUnread
<1>6. CASE NextPanics
  <2>1. status = "open"
    BY <1>6 DEF NextPanics, Counted
  <2>2. Counted'
    BY <1>6, <2>1 DEF NextPanics, Counted, WellFormed, RowLimit, ClaimedBytes
  <2>3. Fused'
    BY <1>6 DEF NextPanics, Fused
  <2>4. Reread'
    BY <1>6, <2>1, SomewhereIsPositions DEF NextPanics, Reread, RereadAsRead
  <2> QED
    BY <2>2, <2>3, <2>4
<1>7. CASE UNCHANGED vars
  BY <1>7 DEF vars, Counted, Fused, Reread, RereadAsRead, WellFormed, RowLimit, ClaimedBytes
<1>8. CASE NextNone
  BY <1>7, <1>8 DEF NextNone
<1> QED
  BY <1>1, <1>2, <1>3, <1>4, <1>5, <1>6, <1>7, <1>8 DEF Next

LEMMA SpecIInv == Spec => []IInv
BY InitIInv, NextIInv, PTL DEF Spec

-----------------------------------------------------------------------------

\* Once a blob is open, the rows yielded and those still promised are no more
\* than its bytes, when a row takes any (checked_count in open).
THEOREM Bounded == Spec => []RowsWithinBytes
<1>1. IInv => RowsWithinBytes
  <2> SUFFICES ASSUME IInv, NumColumns > 0
               PROVE  Len(yielded) + remaining <= Len(input.data)
    BY DEF RowsWithinBytes
  <2>1. CASE status = "open"
    <3>1. /\ IsBlob(input)
          /\ input.rows <= Len(input.data)
      BY <2>1 DEF IInv, Counted, WellFormed, RowLimit
    <3> QED
      BY <2>1, <3>1 DEF IInv, Counted, IsBlob
  <2>2. CASE status # "open"
    BY <2>2 DEF IInv, Counted
  <2> QED
    BY <2>1, <2>2
<1> QED
  BY <1>1, SpecIInv, PTL

\* Nothing is yielded after an error, however often next is called.
THEOREM ErrorsEnd == Spec => NothingAfterError
<1>1. IInv /\ [Next]_vars => [failed => yielded' = yielded /\ remaining' = 0 /\ failed']_vars
  <2> SUFFICES ASSUME IInv, Next, failed
               PROVE  yielded' = yielded /\ remaining' = 0 /\ failed'
    OBVIOUS
  <2>1. status = "open" /\ remaining = 0
    BY DEF IInv, Fused
  <2>2. CASE NextNone
    BY <2>1, <2>2 DEF NextNone, vars
  <2> QED
    BY <2>1, <2>2
       DEF Next, Open, OpenError, NextRow, NextTrailingBytes, NextUnread, NextPanics
<1> QED
  BY <1>1, SpecIInv, PTL DEF Spec, NothingAfterError

-----------------------------------------------------------------------------
(***************************************************************************)
(* The blob as a whole.                                                    *)
(***************************************************************************)

\* The cursors are the ones open made.
Opened ==
  /\ IsBlob(input)
  /\ status \in {"new", "open", "rejected"}
  /\ slices \in [Column -> Seq(Cell)]
  /\ status = "open" => slices = [c \in Column |-> SliceOf(input, c)]

\* They advance with the rows, and the last row leaves them at their ends.
InStep ==
  /\ \A c \in Column : cursors[c] <= Len(slices[c])
  /\ ~failed /\ panics = 0 /\ status = "open" =>
       /\ Len(yielded) + remaining = input.rows
       /\ remaining = 0 /\ input.rows > 0 => AllAtEnd(cursors)

Whole == Opened /\ InStep

\* What open accepts is a blob whose header accounts for its bytes.
LEMMA AcceptedIsExact ==
  ASSUME NEW blob, IsBlob(blob), WellFormed(blob)
  PROVE  Exact(Cell, blob)
<1>1. blob.lengths \in Seq(Nat) /\ Len(blob.lengths) = NumColumns /\ blob.data \in Seq(Cell)
  BY DEF IsBlob, WellFormed
<1>2. blob.lengths \in [Column -> Nat]
  BY <1>1 DEF Column
<1> QED
  BY <1>1, <1>2 DEF Exact, WellFormed

LEMMA AcceptedSlices ==
  ASSUME NEW blob, IsBlob(blob), WellFormed(blob)
  PROVE  LET opened == [c \in Column |-> SliceOf(blob, c)] IN
           /\ opened \in [Column -> Seq(Cell)]
           /\ \A c \in Column : Len(opened[c]) = blob.lengths[c]
           /\ FlattenSeq(opened) = blob.data
<1>1. Exact(Cell, blob)
  BY AcceptedIsExact, Zenon
<1> QED
  BY <1>1, OpenedIsWhole, Zenon

LEMMA InitWhole == Init => Whole
<1> SUFFICES ASSUME Init PROVE Whole
  OBVIOUS
<1>1. NoCells \in [Column -> Seq(Cell)]
  BY DEF NoCells
<1>2. Exact(Cell, BlobOf(NoCells, 0))
  BY <1>1, OpenedAsWritten, Zenon
<1>3. IsBlob(BlobOf(NoCells, 0))
  <2> DEFINE lengths == [c \in Column |-> Len(NoCells[c])]
             data == FlattenSeq(NoCells)
  <2>1. BlobOf(NoCells, 0) = [rows |-> 0, count |-> NumColumns, lengths |-> lengths, data |-> data]
    BY DEF BlobOf
  <2>2. lengths \in [Column -> Nat] /\ data \in Seq(Cell)
    BY <1>2, <2>1 DEF Exact
  <2> HIDE DEF lengths, data
  <2>3. lengths \in Seq(Nat) /\ Len(lengths) = NumColumns
    BY <2>2, ColumnsSeq
  <2> QED
    BY <2>1, <2>2, <2>3 DEF IsBlob
<1>4. Opened
  BY <1>1, <1>3 DEF Opened, Init
<1>5. InStep
  BY <1>1 DEF InStep, Init, NoCells
<1> QED
  BY <1>4, <1>5 DEF Whole

LEMMA NextWhole == IInv /\ Whole /\ [Next]_vars => Whole'
<1> SUFFICES ASSUME IInv, Whole, [Next]_vars PROVE Whole'
  OBVIOUS
<1> USE DEF Whole
<1>1. ASSUME NEW blob \in Input, Open(blob)
      PROVE  Whole'
  <2>1. IsBlob(blob) /\ WellFormed(blob)
    BY <1>1 DEF Open
  <2>2. Opened'
    <3>1. slices' \in [Column -> Seq(Cell)]
      BY <1>1, <2>1, AcceptedSlices DEF Open
    <3> QED
      BY <1>1, <2>1, <3>1 DEF Open, Opened
  <2>3. InStep'
    <3>1. /\ cursors' = [c \in Column |-> 0] /\ yielded' = << >>
          /\ remaining' = blob.rows /\ input' = blob /\ blob.rows \in Nat
      BY <1>1, <2>1 DEF Open, IInv, Counted, Reread, IsBlob
    <3>2. \A c \in Column : cursors'[c] <= Len(slices'[c])
      <4>1. slices' \in [Column -> Seq(Cell)]
        BY <2>2 DEF Opened
      <4> QED
        BY <3>1, <4>1
    <3> QED
      BY <3>1, <3>2 DEF InStep
  <2> QED
    BY <2>2, <2>3
<1>2. ASSUME NEW blob \in Input, OpenError(blob)
      PROVE  Whole'
  BY <1>2 DEF OpenError, Opened, InStep
<1>3. ASSUME NEW v \in Value, NextRow(v)
      PROVE  Whole'
  <2>1. Opened'
    BY <1>3 DEF NextRow, Opened
  <2>2. \A c \in Column : cursors'[c] <= Len(slices'[c])
    BY <1>3 DEF NextRow, Past, Decodes
  <2>3. remaining \in Nat /\ remaining' = remaining - 1 /\ Len(yielded') = Len(yielded) + 1
    BY <1>3 DEF NextRow, IInv, Counted
  <2>4. remaining' = 0 => AllAtEnd(cursors)'
    BY <1>3, <2>3 DEF NextRow, AllAtEnd
  <2>5. Len(yielded) \in Nat
    BY DEF IInv, Counted
  <2>6. failed' = failed /\ panics' = panics /\ status' = status /\ input' = input
    BY <1>3 DEF NextRow
  <2>7. InStep'
    BY <2>2, <2>3, <2>4, <2>5, <2>6 DEF InStep
  <2> QED
    BY <2>1, <2>7
<1>4. ASSUME NEW v \in Value, NextTrailingBytes(v)
      PROVE  Whole'
  <2>1. Opened'
    BY <1>4 DEF NextTrailingBytes, Fuse, Opened
  <2>2. \A c \in Column : cursors'[c] <= Len(slices'[c])
    BY <1>4 DEF NextTrailingBytes, Fuse, Past, Decodes
  <2> QED
    BY <1>4, <2>1, <2>2 DEF NextTrailingBytes, Fuse, InStep
<1>5. CASE NextUnread
  <2>1. Opened'
    BY <1>5 DEF NextUnread, Fuse, Opened
  <2>2. \A c \in Column : cursors'[c] <= Len(slices'[c])
    BY <1>5 DEF NextUnread, Fuse, Somewhere
  <2> QED
    BY <1>5, <2>1, <2>2 DEF NextUnread, Fuse, InStep
<1>6. CASE NextPanics
  <2>1. Opened'
    BY <1>6 DEF NextPanics, Opened
  <2>2. \A c \in Column : cursors'[c] <= Len(slices'[c])
    BY <1>6 DEF NextPanics, Somewhere
  <2>3. panics' # 0
    BY <1>6 DEF NextPanics, IInv, Reread
  <2> QED
    BY <2>1, <2>2, <2>3 DEF InStep
<1>7. CASE UNCHANGED vars
  BY <1>7 DEF vars, Opened, InStep, AllAtEnd
<1>8. CASE NextNone
  BY <1>7, <1>8 DEF NextNone
<1> QED
  BY <1>1, <1>2, <1>3, <1>4, <1>5, <1>6, <1>7, <1>8 DEF Next

LEMMA SpecWhole == Spec => [](IInv /\ Whole)
<1>1. Init => IInv /\ Whole
  BY InitIInv, InitWhole
<1>2. (IInv /\ Whole) /\ [Next]_vars => (IInv /\ Whole)'
  BY NextIInv, NextWhole
<1> QED
  BY <1>1, <1>2, PTL DEF Spec

\* The fields of a reader hold what their Rust types hold, and no cursor is past
\* the bytes it was given, whatever was handed to open and whatever panicked.
THEOREM TypeCorrect == Spec => []TypeOK
<1>1. IInv /\ Whole => TypeOK
  BY DEF IInv, Counted, Fused, Reread, Whole, Opened, InStep, TypeOK
<1> QED
  BY <1>1, SpecWhole, PTL

\* A blob of at least one row that is read to its end without an error or a
\* panic is the blob a batch of the rows yielded would have written: nothing in
\* it was passed over (the end check of Rows::next and Cursor::at_end).
THEOREM ReadToTheEnd == Spec => []BytesReadAreRowsYielded
<1>1. IInv /\ Whole => BytesReadAreRowsYielded
  <2> SUFFICES ASSUME IInv, Whole, ~failed, panics = 0, status = "open", remaining = 0, input.rows > 0
               PROVE  input = BlobOf(reencoded, Len(yielded))
    BY DEF IInv, Reread, BytesReadAreRowsYielded
  <2>1. IsBlob(input) /\ WellFormed(input) /\ slices = [c \in Column |-> SliceOf(input, c)]
    BY DEF IInv, Counted, Whole, Opened
  <2>2. /\ slices \in [Column -> Seq(Cell)]
        /\ \A c \in Column : Len(slices[c]) = input.lengths[c]
        /\ FlattenSeq(slices) = input.data
    BY <2>1, AcceptedSlices, Zenon
  <2>3. \A c \in Column : cursors[c] = Len(slices[c])
    BY DEF Whole, InStep, AllAtEnd
  <2>4. reencoded = slices
    <3>1. reencoded \in [Column -> Seq(Cell)] /\ RereadAsRead
      BY DEF IInv, Reread
    <3>2. ASSUME NEW c \in Column
          PROVE  reencoded[c] = slices[c]
      <4> DEFINE s == reencoded[c]
                 u == slices[c]
      <4>1. s \in Seq(Cell) /\ u \in Seq(Cell)
        BY <2>2, <3>1
      <4>2. Len(s) = Len(u) /\ \A i \in 1 .. Len(s) : s[i] = u[i]
        BY <2>3, <3>1 DEF RereadAsRead
      <4> HIDE DEF s, u
      <4>3. s = u
        BY <4>1, <4>2, SeqEqual
      <4> QED
        BY <4>3 DEF s, u
    <3> QED
      BY <2>2, <3>1, <3>2
  <2>5. Len(yielded) = input.rows
    BY <2>1 DEF Whole, InStep, IInv, Counted
  <2>6. input.count = NumColumns /\ input.lengths = [c \in Column |-> Len(slices[c])]
    <3>1. Exact(Cell, input)
      BY <2>1, AcceptedIsExact, Zenon
    <3>2. input.lengths \in [Column -> Nat]
      BY <3>1 DEF Exact
    <3> QED
      BY <2>1, <2>2, <3>2 DEF WellFormed
  <2>7. input = [rows |-> input.rows, count |-> input.count, lengths |-> input.lengths, data |-> input.data]
    BY <2>1 DEF IsBlob
  <2> QED
    BY <2>2, <2>4, <2>5, <2>6, <2>7 DEF BlobOf
<1> QED
  BY <1>1, SpecWhole, PTL
=============================================================================
