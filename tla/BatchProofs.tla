----------------------------- MODULE BatchProofs ----------------------------
(***************************************************************************)
(* Proofs about Batch, for every schema layout, value set, encoding and    *)
(* bound: its columns are always the committed rows and the written part   *)
(* of the current one (which makes truncation exact), and it implements    *)
(* AtomicBatch.                                                            *)
(***************************************************************************)
EXTENDS Batch, TLAPS

\* The strengthening is the type invariant: PartialRow is inductive with it.
IInv == TypeOK /\ PartialRow

-----------------------------------------------------------------------------
\* Truncating a sequence to its own length changes nothing.
LEMMA TruncateToLen ==
  ASSUME NEW S, NEW s \in Seq(S)
  PROVE  SubSeq(s, 1, Len(s)) = s
  OBVIOUS

\* Appending past a prefix leaves the prefix as it was.
LEMMA AppendKeepsPrefix ==
  ASSUME NEW S, NEW s \in Seq(S), NEW x \in S, NEW n \in Nat, n <= Len(s)
  PROVE  SubSeq(Append(s, x), 1, n) = SubSeq(s, 1, n)
  OBVIOUS

\* A sequence is its first n elements followed by the rest.
LEMMA SplitAt ==
  ASSUME NEW S, NEW s \in Seq(S), NEW t \in Seq(S), NEW n \in Nat,
         Len(s) = n + Len(t),
         \A i \in 1 .. Len(t) : s[n + i] = t[i]
  PROVE  s = SubSeq(s, 1, n) \o t
  <1>1. SubSeq(s, 1, n) \in Seq(S) /\ Len(SubSeq(s, 1, n)) = n
    OBVIOUS
  <1>2. Len(SubSeq(s, 1, n) \o t) = Len(s)
    BY <1>1
  <1>3. \A i \in 1 .. Len(s) : s[i] = (SubSeq(s, 1, n) \o t)[i]
    <2> SUFFICES ASSUME NEW i \in 1 .. Len(s)
                 PROVE  s[i] = (SubSeq(s, 1, n) \o t)[i]
      OBVIOUS
    <2>1. CASE i <= n
      BY <1>1, <2>1
    <2>2. CASE i > n
      <3>1. i - n \in 1 .. Len(t) /\ s[n + (i - n)] = t[i - n]
        BY <2>2
      <3> QED
        BY <1>1, <2>2, <3>1
    <2> QED
      BY <2>1, <2>2
  <1> QED
    BY <1>1, <1>2, <1>3

-----------------------------------------------------------------------------
LEMMA NoCellsType == NoCells \in [Column -> Seq(Cell)]
  <1>1. << >> \in Seq(Cell)
    OBVIOUS
  <1> QED
    BY <1>1 DEF NoCells

LEMMA InitIInv == Init => IInv
  <1> SUFFICES ASSUME Init PROVE IInv
    OBVIOUS
  <1>1. static_verified \in BOOLEAN /\ schema_matches \in BOOLEAN
    BY DEF Init
  <1>2. TypeOK
    BY <1>1, NoCellsType DEF Init, TypeOK, NoneWritten
  <1>3. PartialRow
    BY DEF Init, PartialRow, Idle
  <1> QED
    BY <1>2, <1>3 DEF IInv

\* A push begins with empty `written` and the columns as they are.
LEMMA StartRowIInv ==
  ASSUME IInv, NEW v \in Value, StartRow(v), static_verified' \in BOOLEAN
  PROVE  IInv'
  <1>1. TypeOK'
    BY DEF IInv, TypeOK, StartRow, NoneWritten
  <1>2. PartialRow'
    BY BatchAssumption DEF IInv, TypeOK, PartialRow, StartRow, NoneWritten, Idle
  <1> QED
    BY <1>1, <1>2 DEF IInv

LEMMA WriteCellIInv ==
  ASSUME IInv, NEW c \in Column, WriteCell(c)
  PROVE  IInv'
  <1> DEFINE cell == Enc[value][c][written[c] + 1]
  <1>1. value \in Value /\ Enc[value] \in [Column -> Seq(Cell)]
    BY BatchAssumption DEF IInv, TypeOK, WriteCell, Idle
  <1>2. written[c] \in Nat /\ written[c] + 1 \in 1 .. Len(Enc[value][c]) /\ cell \in Cell
    BY <1>1 DEF IInv, TypeOK, WriteCell
  <1>3. TypeOK'
    BY <1>1, <1>2 DEF IInv, TypeOK, WriteCell
  <1>4. PartialRow'
    <2> SUFFICES ASSUME NEW d \in Column
                 PROVE  /\ written'[d] <= Len(Enc[value][d])
                        /\ Len(columns'[d]) = rollback[d] + written'[d]
                        /\ \A i \in 1 .. written'[d] :
                             columns'[d][rollback[d] + i] = Enc[value][d][i]
      BY DEF PartialRow, WriteCell, Idle
    <2>1. /\ written[d] <= Len(Enc[value][d])
          /\ Len(columns[d]) = rollback[d] + written[d]
          /\ \A i \in 1 .. written[d] : columns[d][rollback[d] + i] = Enc[value][d][i]
      BY DEF IInv, PartialRow, WriteCell
    <2>2. CASE d # c
      BY <2>1, <2>2 DEF IInv, TypeOK, WriteCell
    <2>3. CASE d = c
      <3>1. columns'[d] = Append(columns[d], cell) /\ written'[d] = written[d] + 1
        BY <2>3 DEF IInv, TypeOK, WriteCell
      <3>2. columns[d] \in Seq(Cell) /\ rollback[d] \in Nat
        BY DEF IInv, TypeOK
      <3>3. Len(columns'[d]) = Len(columns[d]) + 1
        BY <1>2, <3>1, <3>2
      <3>4. ASSUME NEW i \in 1 .. written'[d]
            PROVE  columns'[d][rollback[d] + i] = Enc[value][d][i]
        <4>1. CASE i = written[d] + 1
          BY <1>2, <2>1, <2>3, <3>1, <3>2, <4>1
        <4>2. CASE i # written[d] + 1
          <5>1. i \in 1 .. written[d] /\ rollback[d] + i \in 1 .. Len(columns[d])
            BY <1>2, <2>1, <2>3, <3>1, <3>2, <4>2
          <5> QED
            BY <1>2, <2>1, <3>1, <3>2, <5>1
        <4> QED
          BY <4>1, <4>2
      <3>5. /\ written'[d] <= Len(Enc[value][d])
            /\ Len(columns'[d]) = rollback[d] + written'[d]
        BY <1>2, <2>1, <2>3, <3>1, <3>2, <3>3
      <3> QED
        BY <3>4, <3>5
    <2> QED
      BY <2>2, <2>3
  <1> QED
    BY <1>3, <1>4 DEF IInv

\* Once the call has returned only the types are left to check.
LEMMA EndOfCallIInv ==
  ASSUME IInv, CommitPush \/ FailPush \/ PanicPush
  PROVE  IInv'
  <1>1. \A c \in Column : rollback[c] \in 0 .. Len(columns[c])
    BY DEF IInv, TypeOK, PartialRow, CommitPush, FailPush, PanicPush
  <1>2. TypeOK'
    <2>1. CASE CommitPush
      BY <2>1 DEF IInv, TypeOK, CommitPush, EndCall, NoneWritten
    <2>2. CASE FailPush
      <3>1. \A c \in Column : SubSeq(columns[c], 1, rollback[c]) \in Seq(Cell)
        BY <1>1 DEF IInv, TypeOK
      <3> QED
        BY <2>2, <3>1 DEF IInv, TypeOK, FailPush, EndCall, NoneWritten
    <2>3. CASE PanicPush
      BY <2>3 DEF IInv, TypeOK, PanicPush, EndCall, NoneWritten
    <2> QED
      BY <2>1, <2>2, <2>3
  <1>3. PartialRow'
    BY DEF PartialRow, Idle, CommitPush, FailPush, PanicPush, EndCall
  <1> QED
    BY <1>2, <1>3 DEF IInv

LEMMA ClearIInv ==
  ASSUME IInv, FinishInto \/ Reset
  PROVE  IInv'
  BY NoCellsType DEF IInv, TypeOK, PartialRow, Idle, FinishInto, Reset, Clear

LEMMA NextIInv == IInv /\ [Next]_vars => IInv'
  <1> SUFFICES ASSUME IInv, [Next]_vars PROVE IInv'
    OBVIOUS
  <1>1. ASSUME NEW v \in Value, BeginPush(v) PROVE IInv'
    BY <1>1, StartRowIInv DEF BeginPush, IInv, TypeOK
  <1>2. ASSUME NEW v \in Value, BeginPushColumns(v) PROVE IInv'
    BY <1>2, StartRowIInv DEF BeginPushColumns
  <1>3. CASE RejectPushColumns
    BY <1>3 DEF RejectPushColumns, IInv, TypeOK, PartialRow, Idle
  <1>4. ASSUME NEW c \in Column, WriteCell(c) PROVE IInv'
    BY <1>4, WriteCellIInv
  <1>5. CASE CommitPush \/ FailPush \/ PanicPush
    BY <1>5, EndOfCallIInv
  <1>6. CASE FinishInto \/ Reset
    BY <1>6, ClearIInv
  <1>7. CASE UNCHANGED vars
    BY <1>7 DEF vars, IInv, TypeOK, PartialRow, Idle
  <1> QED
    BY <1>1, <1>2, <1>3, <1>4, <1>5, <1>6, <1>7 DEF Next

\* The columns hold what their types say and, during a push, exactly the rows
\* committed before it and the cells of the row written so far (Batch::push,
\* Batch::push_columns and the buffers they share).
THEOREM BatchInvariant == Spec => [](TypeOK /\ PartialRow)
  <1>1. Spec => []IInv
    BY InitIInv, NextIInv, PTL DEF Spec
  <1> QED
    BY <1>1, PTL DEF IInv

\* Every field of a batch holds what its Rust type holds, the fields push and
\* push_columns leave behind on an error or a panic included.
THEOREM TypeCorrect == Spec => []TypeOK
  <1>1. Spec => []IInv
    BY InitIInv, NextIInv, PTL DEF Spec
  <1> QED
    BY <1>1, PTL DEF IInv

-----------------------------------------------------------------------------
(***************************************************************************)
(* Refinement: the rows a caller can count on are the columns without the  *)
(* row in progress; writing cells is invisible, and each return of a push  *)
(* is one step of AtomicBatch.                                             *)
(***************************************************************************)
AtomicStep == [Atomic!Next]_(Atomic!vars)

LEMMA InitRefines == Init => Atomic!Init
  BY DEF Init, Atomic!Init, Committed, Idle, NoCells, Atomic!NoCells, Column, Atomic!Column

\* While a push runs the committed part of every column stays as it is.
LEMMA CommittedStays ==
  ASSUME IInv,
         \/ \E v \in Value : BeginPush(v) \/ BeginPushColumns(v)
         \/ \E c \in Column : WriteCell(c)
  PROVE  Committed' = Committed
  <1>1. ASSUME NEW v \in Value, BeginPush(v) \/ BeginPushColumns(v)
        PROVE  Committed' = Committed
    <2>1. \A c \in Column : columns[c] \in Seq(Cell)
      BY DEF IInv, TypeOK
    <2>2. \A c \in Column : SubSeq(columns[c], 1, Len(columns[c])) = columns[c]
      BY <2>1, TruncateToLen
    <2>3. Idle /\ ~Idle' /\ columns' = columns /\ columns \in [Column -> Seq(Cell)]
          /\ \A c \in Column : rollback'[c] = Len(columns[c])
      BY <1>1, BatchAssumption
      DEF BeginPush, BeginPushColumns, StartRow, Idle, IInv, TypeOK
    <2> QED
      BY <2>2, <2>3 DEF Committed
  <1>2. ASSUME NEW c \in Column, WriteCell(c)
        PROVE  Committed' = Committed
    <2> DEFINE cell == Enc[value][c][written[c] + 1]
    <2>1. cell \in Cell
      BY <1>2, BatchAssumption DEF IInv, TypeOK, WriteCell, Idle
    <2>2. ~Idle /\ ~Idle' /\ rollback' = rollback
      BY <1>2 DEF WriteCell, Idle
    <2>3. \A d \in Column : SubSeq(columns'[d], 1, rollback[d]) = SubSeq(columns[d], 1, rollback[d])
      <3> SUFFICES ASSUME NEW d \in Column
                   PROVE  SubSeq(columns'[d], 1, rollback[d]) = SubSeq(columns[d], 1, rollback[d])
        OBVIOUS
      <3>1. columns[d] \in Seq(Cell) /\ rollback[d] \in Nat /\ rollback[d] <= Len(columns[d])
        BY <2>2 DEF IInv, TypeOK, PartialRow
      <3>2. columns'[d] = IF d = c THEN Append(columns[d], cell) ELSE columns[d]
        BY <1>2 DEF WriteCell, IInv, TypeOK
      <3> QED
        BY <2>1, <3>1, <3>2, AppendKeepsPrefix
    <2> QED
      BY <2>2, <2>3 DEF Committed
  <1> QED
    BY <1>1, <1>2

LEMMA InvisibleSteps ==
  ASSUME IInv,
         \/ \E v \in Value : BeginPush(v) \/ BeginPushColumns(v)
         \/ \E c \in Column : WriteCell(c)
  PROVE  UNCHANGED Atomic!vars
  <1>1. Committed' = Committed
    BY CommittedStays
  <1>2. UNCHANGED <<rows, out, result, panics>>
    BY DEF BeginPush, BeginPushColumns, StartRow, WriteCell
  <1> QED
    BY <1>1, <1>2 DEF Atomic!vars

\* A push that returns Ok has appended its whole row.
LEMMA CommitAppends ==
  ASSUME IInv, CommitPush
  PROVE  /\ value \in Value
         /\ Committed' = [c \in Column |-> Committed[c] \o Enc[value][c]]
  <1>1. value \in Value /\ Enc[value] \in [Column -> Seq(Cell)]
    BY BatchAssumption DEF IInv, TypeOK, CommitPush, Idle
  <1>2. \A c \in Column : columns[c] = SubSeq(columns[c], 1, rollback[c]) \o Enc[value][c]
    <2> SUFFICES ASSUME NEW c \in Column
                 PROVE  columns[c] = SubSeq(columns[c], 1, rollback[c]) \o Enc[value][c]
      OBVIOUS
    <2>1. /\ columns[c] \in Seq(Cell)
          /\ Enc[value][c] \in Seq(Cell)
          /\ rollback[c] \in Nat
          /\ Len(columns[c]) = rollback[c] + Len(Enc[value][c])
          /\ \A i \in 1 .. Len(Enc[value][c]) :
               columns[c][rollback[c] + i] = Enc[value][c][i]
      BY <1>1 DEF IInv, TypeOK, PartialRow, CommitPush
    <2> QED
      BY <2>1, SplitAt
  <1>3. Committed' = [c \in Column |-> Committed[c] \o Enc[value][c]]
    <2>1. Committed' = columns /\ columns \in [Column -> Seq(Cell)]
      BY DEF Committed, CommitPush, EndCall, Idle, IInv, TypeOK
    <2>2. \A c \in Column : Committed[c] = SubSeq(columns[c], 1, rollback[c])
      BY DEF Committed, CommitPush
    <2> QED
      BY <1>2, <2>1, <2>2
  <1> QED
    BY <1>1, <1>3

LEMMA CommitRefines ==
  ASSUME IInv, CommitPush
  PROVE  \E v \in Value : Atomic!PushOk(v)
  <1>1. Atomic!PushOk(value)
    BY CommitAppends DEF Atomic!PushOk, Atomic!Column, Column, CommitPush, EndCall
  <1> QED
    BY <1>1, CommitAppends

\* A push that returns Err leaves what was committed before it.
LEMMA FailKeeps ==
  ASSUME FailPush
  PROVE  Committed' = Committed
  BY DEF Committed, FailPush, EndCall, Idle

LEMMA FailRefines ==
  ASSUME IInv, FailPush
  PROVE  Atomic!PushErr
  <1>1. Committed' = Committed
    BY FailKeeps
  <1> QED
    BY <1>1 DEF Atomic!PushErr, FailPush, EndCall

LEMMA PanicRefines ==
  ASSUME IInv, PanicPush
  PROVE  Atomic!PushPanic
  BY DEF Atomic!PushPanic, PanicPush, EndCall, IInv, TypeOK

LEMMA ClearRefines ==
  ASSUME IInv, FinishInto \/ Reset
  PROVE  Atomic!Finish \/ Atomic!Reset
  <1>1. Committed = columns /\ Committed' = NoCells /\ panics' = 0 /\ rows' = 0 /\ result' = result
    BY DEF FinishInto, Reset, Clear, Committed, Idle
  <1>2. NoCells = Atomic!NoCells /\ BlobOf(columns, rows) = Atomic!BlobOf(columns, rows)
    BY DEF NoCells, Atomic!NoCells, Column, Atomic!Column, BlobOf, Atomic!BlobOf,
           FlattenSeq, Atomic!FlattenSeq
  <1>3. CASE FinishInto
    BY <1>1, <1>2, <1>3 DEF FinishInto, Atomic!Finish, Atomic!Clear
  <1>4. CASE Reset
    BY <1>1, <1>2, <1>4 DEF Reset, Atomic!Reset, Atomic!Clear
  <1> QED
    BY <1>3, <1>4

LEMMA NextRefines == IInv /\ [Next]_vars => AtomicStep
  <1> SUFFICES ASSUME IInv, [Next]_vars PROVE AtomicStep
    OBVIOUS
  <1>1. CASE \/ \E v \in Value : BeginPush(v) \/ BeginPushColumns(v)
             \/ \E c \in Column : WriteCell(c)
    BY <1>1, InvisibleSteps DEF AtomicStep
  <1>2. CASE RejectPushColumns
    <2>1. Committed' = Committed
      BY <1>2 DEF RejectPushColumns, Committed, Idle
    <2> QED
      BY <1>2, <2>1 DEF RejectPushColumns, AtomicStep, Atomic!Next, Atomic!PushErr
  <1>3. CASE CommitPush
    BY <1>3, CommitRefines DEF AtomicStep, Atomic!Next
  <1>4. CASE FailPush
    BY <1>4, FailRefines DEF AtomicStep, Atomic!Next
  <1>5. CASE PanicPush
    BY <1>5, PanicRefines DEF AtomicStep, Atomic!Next
  <1>6. CASE FinishInto \/ Reset
    BY <1>6, ClearRefines DEF AtomicStep, Atomic!Next
  <1>7. CASE UNCHANGED vars
    BY <1>7 DEF vars, Committed, Idle, AtomicStep, Atomic!vars
  <1> QED
    BY <1>1, <1>2, <1>3, <1>4, <1>5, <1>6, <1>7 DEF Next

\* A batch keeps the promises of its doc comments whatever the layout and the
\* encoding are: a push appends one whole row or leaves the batch unchanged,
\* and a blob is exactly the rows pushed since the last clear.
THEOREM BatchImplementsAtomicBatch == Spec => RefinesAtomicBatch
  <1>1. Spec => []IInv
    BY InitIInv, NextIInv, PTL DEF Spec
  <1> QED
    BY <1>1, InitRefines, NextRefines, PTL
    DEF Spec, RefinesAtomicBatch, Atomic!Spec, AtomicStep
=============================================================================
