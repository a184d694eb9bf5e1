---------------------------- MODULE AtomicBatch -----------------------------
(***************************************************************************)
(* What a batch promises its caller: a push either appends one whole row   *)
(* or reports an error and changes nothing, finishing hands back a blob of *)
(* exactly the rows pushed since the last clear, and a clear leaves        *)
(* nothing behind.  Only a panic out of the caller's own Serialize impl    *)
(* voids the promise, until the next clear.                                *)
(***************************************************************************)
EXTENDS Blob

CONSTANTS
  Value,   \* the values a caller may push
  Enc      \* Enc[v][c]: the cells value v contributes to column c

VARIABLES
  committed,  \* per column, the cells of the rows pushed
  rows,       \* how many rows they are
  out,        \* the blobs handed back so far
  result,     \* what the last push returned
  torn        \* a panic has left part of a row behind

vars == <<committed, rows, out, result, torn>>

Init ==
  /\ committed = NoCells
  /\ rows = 0
  /\ out = << >>
  /\ result = "none"
  /\ torn = FALSE

PushOk(v) ==
  /\ committed' = [c \in Column |-> committed[c] \o Enc[v][c]]
  /\ rows' = rows + 1
  /\ result' = "ok"
  /\ UNCHANGED <<out, torn>>

PushErr ==
  /\ result' = "err"
  /\ UNCHANGED <<committed, rows, out, torn>>

\* Nothing is promised of the columns, but no row is counted.
PushPanic ==
  /\ torn' = TRUE
  /\ UNCHANGED <<rows, out, result>>

Clear ==
  /\ committed' = NoCells
  /\ rows' = 0
  /\ torn' = FALSE
  /\ UNCHANGED result

Finish ==
  /\ out' = Append(out, BlobOf(committed, rows))
  /\ Clear

Reset ==
  /\ Clear
  /\ UNCHANGED out

Next ==
  \/ \E v \in Value : PushOk(v)
  \/ PushErr
  \/ PushPanic
  \/ Finish
  \/ Reset

Spec == Init /\ [][Next]_vars
=============================================================================
