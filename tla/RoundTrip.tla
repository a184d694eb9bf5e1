----------------------------- MODULE RoundTrip ------------------------------
(***************************************************************************)
(* Rows of a type written under a schema, by either engine, perhaps        *)
(* damaged, and read back.  The schema may be another type's: a file's     *)
(* schema can be given to a Serializer, which refuses rows that do not     *)
(* agree with it.  A refused row leaves the columns as they were (Batch).  *)
(***************************************************************************)
EXTENDS Reader

CONSTANTS
  Types,       \* the types written and read, and the types of the schemas
  Values,      \* Values[t]: what is pushed of type t
  Damage,      \* cells that damage may put in a column
  MaxRows,     \* bound: rows pushed
  MaxDamage    \* bound: cells damaged

ASSUME RoundTripAssumption ==
  /\ MaxZeroColumnRepeat \in Nat
  /\ MaxRows \in Nat
  /\ MaxDamage \in Nat
  /\ \A type \in Types : Values[type] # {}

VARIABLES
  type,        \* the type written and read
  schema,      \* the schema's type
  columns,     \* the column buffers
  rows,        \* history: the rows accepted
  damaged,     \* cells damaged
  status,      \* "writing", "reading" or "failed"
  cursors,     \* what each cursor has left to read
  yielded,     \* the rows read
  skipped      \* one of the rows was skipped

vars == <<type, schema, columns, rows, damaged, status, cursors, yielded, skipped>>

node == LayoutOf(schema)
own == LayoutOf(type) = node

Init ==
  /\ type \in Types
  /\ schema \in Types
  /\ columns = NoCells(schema)
  /\ rows = << >>
  /\ damaged = 0
  /\ status = "writing"
  /\ cursors = << >>
  /\ yielded = << >>
  /\ skipped = FALSE

-----------------------------------------------------------------------------

Accept(v, r) ==
  /\ r.ok
  /\ columns' = r.cells
  /\ rows' = Append(rows, v)
  /\ UNCHANGED <<type, schema, damaged, status, cursors, yielded, skipped>>

\* Batch::push.
Push(v) ==
  /\ status = "writing"
  /\ Len(rows) < MaxRows
  /\ Accept(v, Write(type, v, node, columns))

\* Batch::push_columns, which wants the type's own schema.
PushColumns(v) ==
  /\ status = "writing"
  /\ Len(rows) < MaxRows
  /\ own
  /\ Accept(v, WriteColumns(type, v, 1, columns))

\* A cell of the file is changed, or the last one of a column lost.
DamageCell ==
  /\ status = "writing"
  /\ damaged < MaxDamage
  /\ rows # << >>
  /\ \E c \in DOMAIN columns :
       /\ columns[c] # << >>
       /\ \/ \E i \in DOMAIN columns[c], x \in Damage :
               columns' = [columns EXCEPT ![c][i] = x]
          \/ columns' = [columns EXCEPT ![c] = Front(@)]
  /\ damaged' = damaged + 1
  /\ UNCHANGED <<type, schema, rows, status, cursors, yielded, skipped>>

Open ==
  /\ status = "writing"
  /\ rows # << >>
  /\ status' = "reading"
  /\ cursors' = columns
  /\ UNCHANGED <<type, schema, columns, rows, damaged, yielded, skipped>>

\* The iterator yields a row, or an error and nothing more.
Take(r) ==
  /\ IF r.ok
     THEN cursors' = r.cells /\ yielded' = Append(yielded, r.v) /\ status' = status
     ELSE status' = "failed" /\ UNCHANGED <<cursors, yielded>>
  /\ UNCHANGED <<type, schema, columns, rows, damaged>>

Reading == status = "reading" /\ Len(yielded) < Len(rows)

\* Rows::next, through the path that matches names.
ReadRow == Reading /\ Take(Read(type, node, cursors, FALSE)) /\ UNCHANGED skipped

\* Rows::next, the schema being the type's own.
ReadRowFast == Reading /\ own /\ Take(Read(type, node, cursors, TRUE)) /\ UNCHANGED skipped

\* RowsColumns::next.
ReadRowColumns == Reading /\ own /\ Take(ReadColumns(type, 1, cursors)) /\ UNCHANGED skipped

\* A reader that stores nothing where the writer stored this.
SkipRow == Reading /\ Take(Skip(node, cursors)) /\ skipped' = TRUE

Next ==
  \/ \E v \in Values[type] : Push(v) \/ PushColumns(v)
  \/ DamageCell
  \/ Open
  \/ ReadRow
  \/ ReadRowFast
  \/ ReadRowColumns
  \/ SkipRow

Spec == Init /\ [][Next]_vars

-----------------------------------------------------------------------------
(***************************************************************************)
(* Properties.                                                             *)
(***************************************************************************)

\* The state has the form the actions expect: one buffer and one cursor per
\* column, the cursor at some point of the buffer, and no more rows read than
\* written.
TypeOK ==
  /\ type \in Types /\ schema \in Types
  /\ DOMAIN columns = 1 .. Columns(schema)
  /\ damaged \in 0 .. MaxDamage
  /\ status \in {"writing", "reading", "failed"}
  /\ status = "writing" => cursors = << >> /\ yielded = << >>
  /\ status = "reading" => \A c \in DOMAIN columns : IsSuffix(cursors[c], columns[c])
  /\ Len(yielded) <= Len(rows)

\* Whatever mix of engines wrote the rows, and whatever mix of paths reads
\* them, an undamaged file is read to the end, and each row read (not
\* skipped) is the row written, as long as no list of elements without columns
\* is longer than MAX_ZERO_COLUMN_REPEAT, which no writer checks.  Rows the serializer accepted under another
\* type's schema included: refusing is its only way out.
WrittenRowsReadBack ==
  damaged = 0 =>
    /\ status # "failed"
    /\ ~skipped => IsPrefix(yielded, rows)

\* With the type's own schema the three readers are one: on any bytes they
\* succeed together, with one value and the same bytes consumed, and skipping
\* consumes those bytes too.  `fast` and push_columns' readers are promised to
\* be no more than faster (README.md, "monomorphized fast path").
PathsAgree ==
  status = "reading" /\ own =>
    LET r == Read(type, node, cursors, FALSE)
        s == Skip(node, cursors)
    IN  /\ Read(type, node, cursors, TRUE) = r
        /\ ReadColumns(type, 1, cursors) = r
        /\ r.ok => s.ok /\ s.cells = r.cells

\* The type with a list of pairs in the place of each map: the same columns.
RECURSIVE AsPairs(_)
AsPairs(t) ==
  LET kids == [i \in DOMAIN t.kids |-> AsPairs(t.kids[i])]
  IN  IF t.kind = "map" THEN Vec(Tuple("", kids)) ELSE [t EXCEPT !.kids = kids]

\* What a value of that type is once its lists of pairs are maps.
RECURSIVE Gathered(_, _)
Gathered(t, v) ==
  CASE t.kind = "map" ->
         Collected(Val(v.n, FlattenSeq([i \in DOMAIN v.kids |->
                              [j \in 1 .. 2 |-> Gathered(t.kids[j], v.kids[i].kids[j])]])))
    [] t.kind = "enum" -> Val(v.n, <<Gathered(t.kids[v.n], v.kids[1])>>)
    [] OTHER -> Val(v.n, [i \in DOMAIN v.kids |->
                            Gathered(t.kids[((i - 1) % Len(t.kids)) + 1], v.kids[i])])

\* Damaged or not, what is read in full is what writing it would have put before
\* the bytes not yet read: no two files of a type without maps read alike.  A
\* map keeps the last value of each key and not the order the keys came in
\* (columnar.rs, the collect of BTreeMap and HashMap), so a file that repeats or
\* disorders keys reads as another does.  That is all that is lost: a map is the
\* list of its pairs collected, the list is read from the same bytes, and no two
\* files read alike as lists.
ReadIsCanonical ==
  status = "reading" /\ own /\ ~skipped =>
    LET each(x) == [i \in DOMAIN yielded |-> x]
        pairs == AsPairs(type)
        read == ReadColumnsEach(each(pairs), each(1), 0, columns)
        written == WriteEach(each(pairs), read.v.kids, each(LayoutOf(pairs)), NoCells(type))
    IN  /\ read.ok /\ read.cells = cursors
        /\ yielded = [i \in DOMAIN yielded |-> Gathered(type, read.v.kids[i])]
        /\ written.ok
        /\ \A c \in DOMAIN columns : columns[c] = written.cells[c] \o cursors[c]

=============================================================================
