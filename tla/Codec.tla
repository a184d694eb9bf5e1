------------------------------- MODULE Codec --------------------------------
(***************************************************************************)
(* One value through the columns: the serde serializer (src/ser.rs), the   *)
(* skipping reader (src/de.rs) and both directions of the derived columnar *)
(* engine (src/columnar.rs and what carbonite-derive generates).           *)
(*                                                                         *)
(* A value is [n, kids]: a number (the primitive, 1 for a present option,  *)
(* the length of a sequence, an enum's variant counted from 1) and the     *)
(* values below it; a map's are its keys and values by turns.  Columns and *)
(* cursors are sequences of cells, a cursor being the cells still unread.  *)
(***************************************************************************)
EXTENDS Layout

CONSTANT MaxZeroColumnRepeat   \* columnar::MAX_ZERO_COLUMN_REPEAT

Val(n, kids) == [n |-> n, kids |-> kids]

\* What an operation returns: a value and the columns or cursors after it.
Done(v, cells) == [ok |-> TRUE, v |-> v, cells |-> cells]
Fail == [ok |-> FALSE, v |-> Val(0, << >>), cells |-> << >>]

\* The step Next(r, i) for each i of 1 .. n, until one fails.
InTurn(Next(_, _), start, n) ==
  FoldLeft(LAMBDA r, i : IF r.ok THEN Next(r, i) ELSE Fail, start, [i \in 1 .. n |-> i])

\* The empty columns of a type.
NoCells(type) == [c \in 1 .. Columns(type) |-> << >>]

Put(cells, col, x) == [cells EXCEPT ![col] = Append(@, x)]

\* Mutation: cells are taken from the far end.
Rest_FromEnd(cells, col) == [cells EXCEPT ![col] = Front(@)]

\* A cursor takes one cell.
Rest(cells, col) == [cells EXCEPT ![col] = Tail(@)]

Remaining(cells, cols) ==
  FoldLeft(LAMBDA sum, col : sum + Len(cells[col]), 0, cols)

\* The children of a sequence or map, once per entry.
Entries(node, count) ==
  [i \in 1 .. count * Len(node.kids) |-> node.kids[((i - 1) % Len(node.kids)) + 1]]

Count(type, v) == Len(v.kids) \div Len(type.kids)

-----------------------------------------------------------------------------
(***************************************************************************)
(* Writing through serde.  The type drives; the node of the schema it is   *)
(* written under has to agree, or the row is refused.                      *)
(***************************************************************************)

\* ValueSerializer::enter_variant: the variant of that name, 0 if none.
VariantNamed(node, name) == SelectInSeq(node.names, LAMBDA other : other = name)

\* Mutation: fields are written in order, whatever their names.
SameShape_AnyNames(type, node) ==
  /\ type.kind = node.kind
  /\ type.kind \in Products \union {"prim"} => type.name = node.name
  /\ type.kind \in {"tuple", "struct"} => Len(type.kids) = Len(node.kids)

SameShape(type, node) ==
  /\ type.kind = node.kind
  /\ type.kind \in Products \union {"prim"} => type.name = node.name
  /\ type.kind \in {"tuple", "struct"} => Len(type.kids) = Len(node.kids)
  /\ type.kind = "struct" => type.names = node.names

RECURSIVE Write(_, _, _, _), WriteEach(_, _, _, _)

WriteEach(types, values, nodes, cells) ==
  InTurn(LAMBDA r, i : Write(types[i], values[i], nodes[i], r.cells),
         Done(Val(0, << >>), cells), Len(values))

Write(type, v, node, cells) ==
  IF ~SameShape(type, node) THEN Fail
  ELSE CASE type.kind = "prim" -> Done(v, Put(cells, node.col, v.n))
         [] type.kind \in Products -> WriteEach(type.kids, v.kids, node.kids, cells)
         [] type.kind = "option" ->
              WriteEach(type.kids, v.kids, node.kids, Put(cells, node.col, v.n))
         [] type.kind \in Repeated ->
              LET count == Count(type, v)
                  r == WriteEach(Entries(type, count), v.kids, Entries(node, count), cells)
              IN  IF r.ok THEN Done(v, Put(r.cells, node.col, count)) ELSE Fail
         [] type.kind = "enum" ->
              LET at == VariantNamed(node, type.names[v.n])
              IN  IF at = 0 THEN Fail
                  ELSE Write(type.kids[v.n], v.kids[1], node.kids[at],
                             Put(cells, node.col, at))

-----------------------------------------------------------------------------
(***************************************************************************)
(* ValueDeserializer::skip: past a value nobody wants.                     *)
(***************************************************************************)

\* columnar::checked_count, over the given columns.
CountAllowed(node, count, cells, cols) ==
  LET width == Columns(node) - OwnColumns(node)
  IN  count <= IF width = 0 THEN MaxZeroColumnRepeat ELSE Remaining(cells, cols)

AllColumns(cells) == [i \in 1 .. Len(cells) |-> i]

RECURSIVE Skip(_, _), SkipEach(_, _)

SkipEach(nodes, cells) ==
  InTurn(LAMBDA r, i : Skip(nodes[i], r.cells), Done(Val(0, << >>), cells), Len(nodes))

\* Mutation: the payload of an option is left behind.
Present_Never(node, x) == << >>

\* What follows the presence byte of an option.
Present(node, x) == SubSeq(node.kids, 1, x)

Skip(node, cells) ==
  IF node.kind \in Products THEN SkipEach(node.kids, cells)
  ELSE IF cells[node.col] = << >> THEN Fail
  ELSE LET x == Head(cells[node.col])
           rest == Rest(cells, node.col)
       IN  CASE node.kind = "prim" -> Done(Val(0, << >>), rest)
             [] node.kind = "option" ->
                  IF x > 1 THEN Fail ELSE SkipEach(Present(node, x), rest)
             [] node.kind \in Repeated ->
                  IF CountAllowed(node, x, rest, AllColumns(rest))
                  THEN SkipEach(Entries(node, x), rest)
                  ELSE Fail
             [] node.kind = "enum" ->
                  IF x \in DOMAIN node.kids THEN Skip(node.kids[x], rest) ELSE Fail

-----------------------------------------------------------------------------
(***************************************************************************)
(* The columnar engine.  Nothing is looked up in a schema: a value knows   *)
(* its first column, `col`, and finds its parts by counting columns.       *)
(***************************************************************************)

RECURSIVE WriteColumns(_, _, _, _), WriteColumnsEach(_, _, _, _)
RECURSIVE ReadColumns(_, _, _), ReadColumnsEach(_, _, _, _)

\* __split: the first column of each field.
Split(type, col) == [i \in DOMAIN type.kids |-> After(type, col, i - 1)]

\* The same for the entries of a sequence or map, over and over.
EntryColumns(type, col, count) ==
  LET cols == Split(type, col)
  IN  [i \in 1 .. count * Len(cols) |-> cols[((i - 1) % Len(cols)) + 1]]

\* Mutation: every variant starts right after the tag.
VariantColumn_NoOffset(type, col, n) == col + 1

\* Variants follow one another, whichever is taken.
VariantColumn(type, col, n) == After(type, col, n - 1)

WriteColumnsEach(types, values, cols, cells) ==
  InTurn(LAMBDA r, i : WriteColumns(types[i], values[i], cols[i], r.cells),
         Done(Val(0, << >>), cells), Len(values))

\* serialize_columns: unlike serde's, a length goes in before its elements.
WriteColumns(type, v, col, cells) ==
  IF type.kind \in Products THEN WriteColumnsEach(type.kids, v.kids, Split(type, col), cells)
  ELSE LET tagged == Put(cells, col, IF type.kind \in Repeated THEN Count(type, v) ELSE v.n)
       IN  CASE type.kind = "prim" -> Done(v, tagged)
             [] type.kind = "option" ->
                  WriteColumnsEach(type.kids, v.kids, Split(type, col), tagged)
             [] type.kind \in Repeated ->
                  WriteColumnsEach(Entries(type, Count(type, v)), v.kids,
                                   EntryColumns(type, col, Count(type, v)), tagged)
             [] type.kind = "enum" ->
                  WriteColumns(type.kids[v.n], v.kids[1], VariantColumn(type, col, v.n), tagged)

ReadColumnsEach(types, cols, n, cells) ==
  InTurn(LAMBDA r, i : LET s == ReadColumns(types[i], cols[i], r.cells)
                       IN  IF s.ok THEN Done(Val(n, Append(r.v.kids, s.v)), s.cells) ELSE Fail,
         Done(Val(n, << >>), cells), Len(types))

\* What collect leaves of the entries a map is read from: the last value of
\* each key, in the order of the keys, which are numbers here.
Collected(v) ==
  LET keyAt == {i \in DOMAIN v.kids : i % 2 = 1}
      keys == SetToSortSeq({v.kids[i].n : i \in keyAt}, <)
      last(key) == CHOOSE i \in keyAt : /\ v.kids[i].n = key
                                        /\ \A j \in keyAt : v.kids[j].n = key => j <= i
  IN  Val(Len(keys),
          FlattenSeq([k \in DOMAIN keys |-> SubSeq(v.kids, last(keys[k]), last(keys[k]) + 1)]))

Collect(type, r) == IF r.ok /\ type.kind = "map" THEN Done(Collected(r.v), r.cells) ELSE r

\* read_count and checked_count, over the columns of the elements alone.
ElementColumns(type, col) ==
  [i \in 1 .. Columns(type) - OwnColumns(type) |-> col + i]

\* deserialize_columns.
ReadColumns(type, col, cells) ==
  IF type.kind \in Products THEN ReadColumnsEach(type.kids, Split(type, col), 0, cells)
  ELSE IF cells[col] = << >> THEN Fail
  ELSE LET x == Head(cells[col])
           rest == Rest(cells, col)
       IN  CASE type.kind = "prim" ->
                  IF type.name = "bool" /\ x > 1 THEN Fail ELSE Done(Val(x, << >>), rest)
             [] type.kind = "option" ->
                  IF x > 1 THEN Fail
                  ELSE ReadColumnsEach(SubSeq(type.kids, 1, x), Split(type, col), x, rest)
             [] type.kind \in Repeated ->
                  IF CountAllowed(type, x, rest, ElementColumns(type, col))
                  THEN Collect(type, ReadColumnsEach(Entries(type, x), EntryColumns(type, col, x),
                                                     x, rest))
                  ELSE Fail
             [] type.kind = "enum" ->
                  IF x \notin DOMAIN type.kids THEN Fail
                  ELSE LET s == ReadColumns(type.kids[x], VariantColumn(type, col, x), rest)
                       IN  IF s.ok THEN Done(Val(x, <<s.v>>), s.cells) ELSE Fail

=============================================================================
