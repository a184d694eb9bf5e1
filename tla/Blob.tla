-------------------------------- MODULE Blob --------------------------------
(***************************************************************************)
(* The data blob a batch produces and a reader opens: a row count, a       *)
(* column count, one byte length per column, and the column bytes back to  *)
(* back.  A byte is a "cell"; a varint of the header is one number.        *)
(***************************************************************************)
EXTENDS Naturals, Sequences, SequencesExt

CONSTANTS
  NumColumns   \* Layout::columns: how many columns the schema's layout has

ASSUME NumColumnsAssumption == NumColumns \in Nat

Column == 1 .. NumColumns

\* The column buffers of a fresh or cleared batch.
NoCells == [c \in Column |-> << >>]

\* Batch::write_into: the header, then every column's bytes in order.
BlobOf(columns, rows) ==
  [ rows    |-> rows,
    count   |-> NumColumns,
    lengths |-> [c \in Column |-> Len(columns[c])],
    data    |-> FlattenSeq(columns) ]

\* Deserializer::open takes the columns off the data one after another: how
\* many bytes the first n of them claim.
Extent(lengths) ==
  LET extent[n \in 0 .. Len(lengths)] ==
        IF n = 0 THEN 0 ELSE extent[n - 1] + lengths[n]
  IN  extent

\* How many bytes the header's lengths claim ...
ClaimedBytes(blob) == Extent(blob.lengths)[Len(blob.lengths)]

\* ... where a column's bytes start, and the slice its cursor is given.
OffsetOf(blob, c) == Extent(blob.lengths)[c - 1]

SliceOf(blob, c) ==
  SubSeq(blob.data, OffsetOf(blob, c) + 1, OffsetOf(blob, c) + blob.lengths[c])
=============================================================================
