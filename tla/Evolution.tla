----------------------------- MODULE Evolution ------------------------------
(***************************************************************************)
(* The life of a type: it is changed, a file is written, it is changed     *)
(* again, and the file is read as what the type has become.  Columns are   *)
(* those of the type that wrote the file (its schema rides along), so the  *)
(* reader is src/de.rs with `fast` off unless nothing changed.             *)
(***************************************************************************)
EXTENDS Changes

CONSTANTS
  FirstTypes,   \* the types before any change
  Families,     \* sets of kinds of change, each made to a type of its own
  Lengths,      \* Lengths[k]: how many elements sequences of row k have
  MaxChanges    \* bound: changes made in all

ASSUME EvolutionAssumption ==
  /\ MaxZeroColumnRepeat \in Nat
  /\ MaxChanges \in Nat
  /\ ArrayLen \in Nat
  /\ \A k \in DOMAIN Lengths : Lengths[k] \in Nat

VARIABLES
  allowed,    \* the kinds of change made to this type
  type,       \* the type as it is now
  writer,     \* the type that wrote the file, once one is written
  columns,    \* the file
  expected,   \* history: what each row should read as, defaults aside
  changes,    \* how many changes were made
  status,     \* "new", "written", "reading", "read" or "failed"
  cursors,    \* what each cursor has left to read
  yielded     \* the rows read

vars == <<allowed, type, writer, columns, expected, changes, status, cursors, yielded>>

\* A value of type t in row k, no two primitives of a row alike (p tells
\* places apart): odd rows have their options, and rows take variants by turns.
RECURSIVE Sample(_, _, _)
Sample(t, k, p) ==
  LET SampleKids(kids) == [i \in DOMAIN kids |-> Sample(kids[i], k, 4 * p + i)]
      Copies(n) == Val(n, SampleKids([i \in 1 .. n |-> t.kids[1]]))
  IN  CASE t.kind = "prim" -> Val((k + 7 * p) % 256, << >>)
        [] t.kind = "option" -> Copies(k % 2)
        [] t.kind = "seq" -> Copies(Lengths[k])
        [] t.kind = "enum" ->
             LET n == (k % Len(t.kids)) + 1
             IN  Val(n, <<Sample(t.kids[n], k, 4 * p + n)>>)
        [] OTHER -> Val(0, SampleKids(t.kids))

RowsOf(t) == [k \in DOMAIN Lengths |-> Sample(t, k, 1)]

\* Batch::push for each row.
WriteRows(t, rows) ==
  WriteEach([k \in DOMAIN rows |-> t], rows, [k \in DOMAIN rows |-> LayoutOf(t)],
            NoCells(t))

Init ==
  /\ allowed \in Families
  /\ type \in FirstTypes
  /\ writer = Unit
  /\ columns = << >>
  /\ expected = << >>
  /\ changes = 0
  /\ status = "new"
  /\ cursors = << >>
  /\ yielded = << >>

\* The author changes the type to one the derive accepts.
Change ==
  /\ status \in {"new", "written"}
  /\ changes < MaxChanges
  /\ \E c \in {d \in ChangesTo(type) : d.op \in allowed} :
       /\ Derives(c.to)
       /\ type' = c.to
       /\ expected' = [k \in DOMAIN expected |-> Carry(c, type, expected[k])]
  /\ changes' = changes + 1
  /\ UNCHANGED <<allowed, writer, columns, status, cursors, yielded>>

WriteFile ==
  /\ status = "new"
  /\ status' = "written"
  /\ writer' = type
  /\ expected' = RowsOf(type)
  /\ columns' = WriteRows(type, RowsOf(type)).cells
  /\ UNCHANGED <<allowed, type, changes, cursors, yielded>>

Open ==
  /\ status = "written"
  /\ status' = "reading"
  /\ cursors' = columns
  /\ UNCHANGED <<allowed, type, writer, columns, expected, changes, yielded>>

AllRead(cells) == \A c \in DOMAIN cells : cells[c] = << >>

\* Rows::next: the last row must leave no column unread.
ReadRow ==
  /\ status = "reading"
  /\ LET r == Read(type, LayoutOf(writer), cursors, LayoutOf(type) = LayoutOf(writer))
         last == Len(yielded) + 1 = Len(expected)
     IN  \/ /\ r.ok
            /\ last => AllRead(r.cells)
            /\ cursors' = r.cells
            /\ yielded' = Append(yielded, r.v)
            /\ status' = IF last THEN "read" ELSE "reading"
         \/ /\ ~r.ok \/ (last /\ ~AllRead(r.cells))
            /\ status' = "failed"
            /\ UNCHANGED <<cursors, yielded>>
  /\ UNCHANGED <<allowed, type, writer, columns, expected, changes>>

Next == Change \/ WriteFile \/ Open \/ ReadRow

Spec == Init /\ [][Next]_vars

-----------------------------------------------------------------------------
(***************************************************************************)
(* Properties.                                                             *)
(***************************************************************************)

\* No row is read as something else than what the changes make of the row
\* written: nothing swapped, taken from a dead column or silently dropped
\* (README.md: "would decode a V0 file into a V2 with its values silently
\* swapped", and removed.rs on dead columns).
NothingMisread ==
  \A k \in DOMAIN yielded : yielded[k] = Filled(type, expected[k])

\* Every row of an old file is read: the table's changes compose (README.md:
\* removing and adding back "is the one place where following the table still
\* gets you into trouble").
OldFilesRead == status # "failed"

\* After each row every cursor stands where the writer stood: a reader of
\* another shape leaves the rows after it alone.
CursorsInStep ==
  status \in {"reading", "read"} =>
    LET rest == RowsOf(writer)
        unread == SubSeq(rest, Len(yielded) + 1, Len(rest))
    IN  WriteRows(writer, unread).cells = cursors

=============================================================================
