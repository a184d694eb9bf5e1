------------------------------- MODULE Batch --------------------------------
(***************************************************************************)
(* carbonite::Batch (src/ser.rs): rows accumulate in shared column         *)
(* buffers.  A push records every column's length, lets the value's own    *)
(* Serialize impl (arbitrary user code) append cells to the columns one by *)
(* one, and either counts the row or truncates every column back.          *)
(*                                                                         *)
(* The two engines (push through serde, push_columns through the derive)   *)
(* append the same cells to a column but visit the columns in different    *)
(* orders: a sequence's length is written after its elements by one and    *)
(* before them by the other.  WriteCell therefore takes the columns in any *)
(* order; within one column the cells are in order.                        *)
(***************************************************************************)
EXTENDS Blob

CONSTANTS
  Value,      \* the values a caller may push
  NoValue,    \* not a value: no push is in progress
  Cell,       \* the bytes
  Enc,        \* Enc[v][c]: the cells value v contributes to column c
  MaxRows,    \* bound: rows in one batch
  MaxBlobs,   \* bound: blobs finished
  MaxPanics   \* bound: panics between two clears; 0 means Serialize never panics

ASSUME BatchAssumption ==
  /\ NoValue \notin Value
  /\ Enc \in [Value -> [Column -> Seq(Cell)]]
  /\ MaxRows \in Nat
  /\ MaxBlobs \in Nat
  /\ MaxPanics \in Nat

VARIABLES
  columns,          \* Batch::columns: the buffers, the row in progress included
  rollback,         \* Batch::rollback: their lengths when the push began
  rows,             \* Batch::rows
  static_verified,  \* Batch::static_verified: the one-time check has passed
  schema_matches,   \* whether the type's static schema equals the batch's
  value,            \* the value being pushed, NoValue between calls
  written,          \* how many of its cells each column has received
  out,              \* the blobs finish_into has appended to the caller's output
  result,           \* what the last push returned
  panics            \* panics out of Serialize since the last clear

vars == <<columns, rollback, rows, static_verified, schema_matches, value,
          written, out, result, panics>>

NoneWritten == [c \in Column |-> 0]

\* Every variable holds what its Rust type holds; what the blobs of `out` hold
\* is RefinesAtomicBatch's business.
TypeOK ==
  /\ columns \in [Column -> Seq(Cell)]
  /\ rollback \in [Column -> Nat]
  /\ rows \in Nat
  /\ static_verified \in BOOLEAN
  /\ schema_matches \in BOOLEAN
  /\ value \in Value \union {NoValue}
  /\ written \in [Column -> Nat]
  /\ result \in {"none", "ok", "err"}
  /\ panics \in Nat

\* Serializer::batch
Init ==
  /\ columns = NoCells
  /\ rollback = [c \in Column |-> 0]
  /\ rows = 0
  /\ static_verified = FALSE
  /\ schema_matches \in BOOLEAN
  /\ value = NoValue
  /\ written = NoneWritten
  /\ out = << >>
  /\ result = "none"
  /\ panics = 0

-----------------------------------------------------------------------------
(***************************************************************************)
(* A push.                                                                 *)
(***************************************************************************)
Idle == value = NoValue

\* Mutation: the lengths are taken once, not per push.
StartRow_OldRollback(v) ==
  /\ rows < MaxRows
  /\ value' = v
  /\ written' = NoneWritten
  /\ UNCHANGED <<columns, rollback, rows, schema_matches, out, result, panics>>

\* The lengths a failed push will truncate to, and the row about to be written.
StartRow(v) ==
  /\ rows < MaxRows
  /\ rollback' = [c \in Column |-> Len(columns[c])]
  /\ value' = v
  /\ written' = NoneWritten
  /\ UNCHANGED <<columns, rows, schema_matches, out, result, panics>>

\* Batch::push
BeginPush(v) ==
  /\ Idle
  /\ StartRow(v)
  /\ UNCHANGED static_verified

\* Batch::push_columns, past its schema check
BeginPushColumns(v) ==
  /\ Idle
  /\ static_verified \/ schema_matches
  /\ static_verified' = TRUE
  /\ StartRow(v)

\* Batch::push_columns returning SchemaMismatch before it touches anything
RejectPushColumns ==
  /\ Idle
  /\ ~static_verified
  /\ ~schema_matches
  /\ result' = "err"
  /\ UNCHANGED <<columns, rollback, rows, static_verified, schema_matches,
                 value, written, out, panics>>

\* The Serialize impl appends the next cell it owes column c.
WriteCell(c) ==
  /\ ~Idle
  /\ written[c] < Len(Enc[value][c])
  /\ columns' = [columns EXCEPT ![c] = Append(@, Enc[value][c][written[c] + 1])]
  /\ written' = [written EXCEPT ![c] = @ + 1]
  /\ UNCHANGED <<rollback, rows, static_verified, schema_matches, value, out,
                 result, panics>>

EndCall ==
  /\ value' = NoValue
  /\ written' = NoneWritten
  /\ UNCHANGED <<rollback, static_verified, schema_matches, out>>

\* Ok(()): every cell is written and the row is counted.
CommitPush ==
  /\ ~Idle
  /\ \A c \in Column : written[c] = Len(Enc[value][c])
  /\ rows' = rows + 1
  /\ result' = "ok"
  /\ EndCall
  /\ UNCHANGED <<columns, panics>>

\* Mutation: the columns are not truncated.
FailPush_KeepsCells ==
  /\ ~Idle
  /\ result' = "err"
  /\ EndCall
  /\ UNCHANGED <<columns, rows, panics>>

\* Err(_), possible after any prefix of the row: a field that does not match
\* the schema, a skipped field, or an error of the user's own.
FailPush ==
  /\ ~Idle
  /\ columns' = [c \in Column |-> SubSeq(columns[c], 1, rollback[c])]
  /\ result' = "err"
  /\ EndCall
  /\ UNCHANGED <<rows, panics>>

\* The Serialize impl unwinds through push: no arm of the match runs, so the
\* columns are not truncated and the row is not counted.
PanicPush ==
  /\ ~Idle
  /\ panics < MaxPanics
  /\ panics' = panics + 1
  /\ EndCall
  /\ UNCHANGED <<columns, rows, result>>

-----------------------------------------------------------------------------
(***************************************************************************)
(* Finishing and clearing.                                                 *)
(***************************************************************************)

\* Mutations: the buffers are dropped, and are left as they are.
Clear_DropsBuffers ==
  /\ columns' = << >>
  /\ rows' = 0
  /\ panics' = 0
  /\ UNCHANGED <<rollback, static_verified, schema_matches, value, written, result>>

Clear_KeepsCells ==
  /\ rows' = 0
  /\ panics' = 0
  /\ UNCHANGED <<columns, rollback, static_verified, schema_matches, value, written, result>>

\* Batch::reset
Clear ==
  /\ columns' = NoCells
  /\ rows' = 0
  /\ panics' = 0
  /\ UNCHANGED <<rollback, static_verified, schema_matches, value, written, result>>

\* Batch::finish_into, and finish, which is the last call on its batch
FinishInto ==
  /\ Idle
  /\ Len(out) < MaxBlobs
  /\ out' = Append(out, BlobOf(columns, rows))
  /\ Clear

Reset ==
  /\ Idle
  /\ Clear
  /\ UNCHANGED out

Next ==
  \/ \E v \in Value : BeginPush(v) \/ BeginPushColumns(v)
  \/ RejectPushColumns
  \/ \E c \in Column : WriteCell(c)
  \/ CommitPush
  \/ FailPush
  \/ PanicPush
  \/ FinishInto
  \/ Reset

Spec == Init /\ [][Next]_vars

-----------------------------------------------------------------------------
(***************************************************************************)
(* Properties.                                                             *)
(***************************************************************************)

\* While a push runs, the columns are the rows committed before it followed by
\* the part of the row written so far, whichever engine is writing and
\* whatever an earlier panic left: what truncating to `rollback` relies on.
PartialRow ==
  ~Idle =>
    \A c \in Column :
      /\ written[c] <= Len(Enc[value][c])
      /\ Len(columns[c]) = rollback[c] + written[c]
      /\ \A i \in 1 .. written[c] : columns[c][rollback[c] + i] = Enc[value][c][i]

\* The columns without the row in progress.
Committed ==
  IF Idle THEN columns
  ELSE [c \in Column |-> SubSeq(columns[c], 1, rollback[c])]

Atomic == INSTANCE AtomicBatch
            WITH committed <- Committed, torn <- panics > 0

\* The batch implements AtomicBatch: pushes are all or nothing, errors leave
\* the batch unchanged, and each blob holds exactly the rows pushed since the
\* last clear (the promise of the doc comments on push and push_columns).
RefinesAtomicBatch == Atomic!Spec
=============================================================================
