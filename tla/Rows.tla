-------------------------------- MODULE Rows --------------------------------
(***************************************************************************)
(* carbonite::Rows and RowsColumns (src/de.rs): a blob is opened, its      *)
(* header checked against the bytes present, and its rows are decoded one  *)
(* by one, each column through a cursor of its own.  Both iterators share  *)
(* this control; decoding one row is abstracted to "some value whose cells *)
(* are next in every column", or to failure when there is none.            *)
(***************************************************************************)
EXTENDS Blob

CONSTANTS
  Value,                \* the values of the reading type
  Cell,                 \* the bytes
  Enc,                  \* Enc[v][c]: the cells value v has in column c
  Refused,              \* values the type's own Deserialize impl reports an error for
  Input,                \* the blobs a reader may be handed, damaged ones included
  MaxZeroColumnRepeat,  \* columnar::MAX_ZERO_COLUMN_REPEAT
  MaxPanics             \* bound: panics out of Deserialize; 0 means it never panics

\* Decoding follows the schema: two values never both fit the same columns.
UniquelyDecodable ==
  \A v, w \in Value :
    v # w => \E c \in Column :
               \E i \in 1 .. Len(Enc[v][c]) :
                 i \in 1 .. Len(Enc[w][c]) /\ Enc[v][c][i] # Enc[w][c][i]

IsBlob(b) ==
  /\ b \in [rows : Nat, count : Nat, lengths : Seq(Nat), data : Seq(Cell)]
  /\ Len(b.lengths) = b.count

ASSUME RowsAssumption ==
  /\ Enc \in [Value -> [Column -> Seq(Cell)]]
  /\ \A b \in Input : IsBlob(b)
  /\ Refused \subseteq Value
  /\ UniquelyDecodable
  /\ MaxZeroColumnRepeat \in Nat
  /\ MaxPanics \in Nat

VARIABLES
  input,      \* the blob being read
  status,     \* "new", then "open", or "rejected" when open reported an error
  slices,     \* the bytes each cursor was given
  cursors,    \* how many of them it has read
  remaining,  \* Rows::remaining
  yielded,    \* the values yielded so far
  failed,     \* an error has been yielded
  panics,     \* panics out of the caller's Deserialize impl
  reencoded   \* history: what encoding `yielded` again would put in each column

vars == <<input, status, slices, cursors, remaining, yielded, failed, panics, reencoded>>

Init ==
  /\ input = BlobOf(NoCells, 0)
  /\ status = "new"
  /\ slices = NoCells
  /\ cursors = [c \in Column |-> 0]
  /\ remaining = 0
  /\ yielded = << >>
  /\ failed = FALSE
  /\ panics = 0
  /\ reencoded = NoCells

-----------------------------------------------------------------------------
(***************************************************************************)
(* Deserializer::open.                                                     *)
(***************************************************************************)

\* Mutation: the header's row count is believed.
RowLimit_None(blob) == blob.rows

\* checked_count over the whole row: a row of at least one column writes at
\* least one byte, so the column bytes bound the row count.
RowLimit(blob) ==
  IF NumColumns = 0 THEN MaxZeroColumnRepeat ELSE ClaimedBytes(blob)

WellFormed(blob) ==
  /\ blob.count = NumColumns               \* else Malformed
  /\ ClaimedBytes(blob) = Len(blob.data)   \* else UnexpectedEof, TrailingBytes
  /\ blob.rows <= RowLimit(blob)           \* else LimitExceeded

Open(blob) ==
  /\ status = "new"
  /\ WellFormed(blob)
  /\ status' = "open"
  /\ input' = blob
  /\ slices' = [c \in Column |-> SliceOf(blob, c)]
  /\ remaining' = blob.rows
  /\ UNCHANGED <<cursors, yielded, failed, panics, reencoded>>

OpenError(blob) ==
  /\ status = "new"
  /\ ~WellFormed(blob)
  /\ status' = "rejected"
  /\ input' = blob
  /\ UNCHANGED <<slices, cursors, remaining, yielded, failed, panics, reencoded>>

-----------------------------------------------------------------------------
(***************************************************************************)
(* Iterator::next.                                                         *)
(***************************************************************************)

\* The next cells of every column are v's.
Decodes(v) ==
  \A c \in Column :
    /\ cursors[c] + Len(Enc[v][c]) <= Len(slices[c])
    /\ \A i \in 1 .. Len(Enc[v][c]) : slices[c][cursors[c] + i] = Enc[v][c][i]

Past(v) == [c \in Column |-> cursors[c] + Len(Enc[v][c])]

\* Cursor::at_end
AllAtEnd(positions) == \A c \in Column : positions[c] = Len(slices[c])

\* Where a row that did not decode may leave the cursors.
Somewhere ==
  { p \in [Column -> 0 .. Len(input.data)] :
      \A c \in Column : cursors[c] <= p[c] /\ p[c] <= Len(slices[c]) }

\* Mutation: the last row may leave bytes unread.
NextRow_NoEndCheck(v) ==
  /\ remaining > 0
  /\ v \notin Refused
  /\ Decodes(v)
  /\ remaining' = remaining - 1
  /\ cursors' = Past(v)
  /\ yielded' = Append(yielded, v)
  /\ reencoded' = [c \in Column |-> reencoded[c] \o Enc[v][c]]
  /\ UNCHANGED <<input, status, slices, failed, panics>>

\* Some(Ok(v)): the last row must consume every column exactly.
NextRow(v) ==
  /\ remaining > 0
  /\ v \notin Refused
  /\ Decodes(v)
  /\ remaining = 1 => AllAtEnd(Past(v))
  /\ remaining' = remaining - 1
  /\ cursors' = Past(v)
  /\ yielded' = Append(yielded, v)
  /\ reencoded' = [c \in Column |-> reencoded[c] \o Enc[v][c]]
  /\ UNCHANGED <<input, status, slices, failed, panics>>

\* Mutation: the next row is tried after an error.
Fuse_GoesOn ==
  /\ remaining' = remaining - 1
  /\ failed' = TRUE
  /\ UNCHANGED <<input, status, slices, yielded, panics, reencoded>>

\* Some(Err(_)), after which iteration fuses.
Fuse ==
  /\ remaining' = 0
  /\ failed' = TRUE
  /\ UNCHANGED <<input, status, slices, yielded, panics, reencoded>>

NextUnread ==
  /\ remaining > 0
  /\ \A v \in Value : Decodes(v) => v \in Refused
  /\ cursors' \in Somewhere
  /\ Fuse

NextTrailingBytes(v) ==
  /\ remaining = 1
  /\ v \notin Refused
  /\ Decodes(v)
  /\ ~AllAtEnd(Past(v))
  /\ cursors' = Past(v)
  /\ Fuse

\* Mutation: the count is decremented before it is tested.
NextPanics_Unguarded ==
  /\ status = "open"
  /\ panics < MaxPanics
  /\ remaining' = remaining - 1
  /\ cursors' \in Somewhere
  /\ panics' = panics + 1
  /\ UNCHANGED <<input, status, slices, yielded, failed, reencoded>>

\* The Deserialize impl unwinds through next: the row is already counted off,
\* the cursors stay where it left them, and nothing fuses the iterator.
NextPanics ==
  /\ remaining > 0
  /\ panics < MaxPanics
  /\ remaining' = remaining - 1
  /\ cursors' \in Somewhere
  /\ panics' = panics + 1
  /\ UNCHANGED <<input, status, slices, yielded, failed, reencoded>>

\* None
NextNone ==
  /\ status = "open"
  /\ remaining = 0
  /\ UNCHANGED vars

Next ==
  \/ \E blob \in Input : Open(blob) \/ OpenError(blob)
  \/ \E v \in Value : NextRow(v) \/ NextTrailingBytes(v)
  \/ NextUnread
  \/ NextPanics
  \/ NextNone

Spec == Init /\ [][Next]_vars

-----------------------------------------------------------------------------
(***************************************************************************)
(* Properties.                                                             *)
(***************************************************************************)

\* Every variable holds what its Rust type holds, and no cursor is past the
\* bytes it was given.
TypeOK ==
  /\ IsBlob(input)
  /\ status \in {"new", "open", "rejected"}
  /\ slices \in [Column -> Seq(Cell)]
  /\ cursors \in [Column -> Nat]
  /\ \A c \in Column : cursors[c] <= Len(slices[c])
  /\ remaining \in Nat
  /\ yielded \in Seq(Value)
  /\ failed \in BOOLEAN
  /\ panics \in Nat
  /\ reencoded \in [Column -> Seq(Cell)]

\* The rows yielded are all that the cursors have passed: until an error or a
\* panic, encoding them again reproduces the bytes read so far.
RereadAsRead ==
  ~failed /\ panics = 0 =>
    \A c \in Column :
      /\ Len(reencoded[c]) = cursors[c]
      /\ \A i \in 1 .. cursors[c] : reencoded[c][i] = slices[c][i]

\* A blob of at least one row that is read to its end is therefore the very
\* blob a batch of those values would produce: nothing in it was ignored (the
\* "consume every column exactly" comment in Rows::next).  A blob claiming zero
\* rows is the exception the code makes: its column bytes are never looked at.
BytesReadAreRowsYielded ==
  /\ RereadAsRead
  /\ ~failed /\ panics = 0 /\ status = "open" /\ remaining = 0 /\ input.rows > 0 =>
       input = BlobOf(reencoded, Len(yielded))

\* The rows a reader can be made to produce are bounded by the bytes handed to
\* it, whatever the header claims (the comment on checked_count in open).
RowsWithinBytes ==
  NumColumns > 0 => Len(yielded) + remaining <= Len(input.data)

\* Once an error has been yielded nothing else is (FusedIterator, and the doc
\* comment on Rows).
NothingAfterError ==
  [][failed => yielded' = yielded /\ remaining' = 0 /\ failed']_vars
=============================================================================
