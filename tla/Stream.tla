------------------------------- MODULE Stream -------------------------------
(***************************************************************************)
(* A batch and a reader of its blobs: rows pushed by either engine, with   *)
(* failed pushes, resets and several blobs in between, are read back by a  *)
(* Rows iterator over one of the blobs while the batch goes on being used. *)
(***************************************************************************)
EXTENDS Batch

CONSTANT MaxZeroColumnRepeat   \* columnar::MAX_ZERO_COLUMN_REPEAT

VARIABLES
  pushed,    \* history: the values of the rows in the batch
  sent,      \* history: per blob of `out`, the values of its rows
  \* the reader's state: see Rows
  input, status, slices, cursors, remaining, yielded, failed, readerPanics, reencoded

readerVars == <<input, status, slices, cursors, remaining, yielded, failed,
                readerPanics, reencoded>>

streamVars == <<vars, pushed, sent, readerVars>>

Reader == INSTANCE Rows
            WITH Refused <- {}, Input <- {}, MaxPanics <- 0, panics <- readerPanics

\* Decoding follows the schema, and a row of at least one column writes at least
\* one byte (the comment on checked_count in open): every value has an
\* outermost node with a column, and that node always writes to it.
ASSUME StreamAssumption ==
  /\ MaxZeroColumnRepeat \in Nat
  /\ Reader!UniquelyDecodable
  /\ NumColumns > 0 => \A v \in Value : \E c \in Column : Enc[v][c] # << >>

StreamInit ==
  /\ Init
  /\ pushed = << >>
  /\ sent = << >>
  /\ Reader!Init

Write ==
  /\ \/ \E v \in Value : BeginPush(v) \/ BeginPushColumns(v)
     \/ RejectPushColumns
     \/ \E c \in Column : WriteCell(c)
     \/ FailPush
  /\ UNCHANGED <<pushed, sent, readerVars>>

WriteDone ==
  /\ CommitPush
  /\ pushed' = Append(pushed, value)
  /\ UNCHANGED <<sent, readerVars>>

Send ==
  /\ FinishInto
  /\ sent' = Append(sent, pushed)
  /\ pushed' = << >>
  /\ UNCHANGED readerVars

Discard ==
  /\ Reset
  /\ pushed' = << >>
  /\ UNCHANGED <<sent, readerVars>>

Read ==
  /\ \/ \E i \in DOMAIN out : Reader!Open(out[i]) \/ Reader!OpenError(out[i])
     \/ \E v \in Value : Reader!NextRow(v) \/ Reader!NextTrailingBytes(v)
     \/ Reader!NextUnread
     \/ Reader!NextNone
  /\ UNCHANGED <<vars, pushed, sent>>

StreamNext == Write \/ WriteDone \/ Send \/ Discard \/ Read

StreamSpec == StreamInit /\ [][StreamNext]_streamVars

\* Every blob a batch finishes opens and reads back without an error as the
\* rows pushed into it, in order, and as nothing else: no row of a failed push,
\* of a reset or of another blob, and none lost.  Only a blob of rows without
\* columns may not open: a batch takes any number of them, open no more than
\* MAX_ZERO_COLUMN_REPEAT.
ReadsBackWhatWasPushed ==
  /\ status = "rejected" => NumColumns = 0 /\ input.rows > MaxZeroColumnRepeat
  /\ ~failed
  /\ status = "open" =>
       \E i \in DOMAIN out :
         /\ input = out[i]
         /\ yielded = SubSeq(sent[i], 1, Len(yielded))
         /\ remaining = Len(sent[i]) - Len(yielded)
=============================================================================
