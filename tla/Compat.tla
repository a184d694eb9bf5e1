------------------------------- MODULE Compat -------------------------------
(***************************************************************************)
(* Whether a type still reads what was written with a released schema      *)
(* (src/compat.rs): compat::check and compat::check_static.  A blob of     *)
(* made-up rows is read by the real reader, and the two schemas are        *)
(* compared leaf by leaf.  A type stands for its schema.  Shared nodes are *)
(* left to module Shared.                                                  *)
(***************************************************************************)
EXTENDS Reader

CONSTANT MaxProbeRows   \* compat::MAX_PROBE_ROWS

ASSUME CompatAssumption == MaxProbeRows \in Nat

-----------------------------------------------------------------------------
(***************************************************************************)
(* The structural pass.                                                    *)
(***************************************************************************)

\* compat::integer.
Integer == [u8 |-> [signed |-> FALSE, bits |-> 8], u16 |-> [signed |-> FALSE, bits |-> 16],
            i8 |-> [signed |-> TRUE, bits |-> 8],  i16 |-> [signed |-> TRUE, bits |-> 16]]

\* Mutation: widths are compared, signs are not.
Holds_AnySign(w, r) == w.bits <= r.bits

\* Every value of the writer's integer is one of the reader's.
Holds(w, r) ==
  CASE w.signed = r.signed -> w.bits <= r.bits
    [] ~w.signed /\ r.signed -> w.bits < r.bits
    [] OTHER -> FALSE

\* fits.
Fits(writer, reader) ==
  {writer, reader} \subseteq DOMAIN Integer => Holds(Integer[writer], Integer[reader])

Both(w, r, kind) == w.kind = kind /\ r.kind = kind

\* Mutation: fields and variants are compared in order.
SameName_InOrder(w, i, r, j) == i = j

\* A field or variant the reader does not name is not compared.
SameName(w, i, r, j) == w.names[i] = r.names[j]

RECURSIVE Narrowed(_, _)

\* A variant's payload, an enum's kid: only one of the same shape is compared.
NarrowedVariant(w, r) == w.kind = r.kind /\ Narrowed(w, r)

\* walk and walk_variant: somewhere the reader holds less than was written.
Narrowed(w, r) ==
  CASE w.kind = "newtype" -> Narrowed(w.kids[1], r)
    [] w.kind # "newtype" /\ r.kind = "newtype" -> Narrowed(w, r.kids[1])
    [] Both(w, r, "prim") -> ~Fits(w.name, r.name)
    [] Both(w, r, "seq") \/ (w.kind = "option" /\ r.kind \in {"option", "seq"}) ->
         Narrowed(w.kids[1], r.kids[1])
    [] w.kind \notin {"newtype", "option"} /\ r.kind = "option" -> Narrowed(w, r.kids[1])
    [] Both(w, r, "map") \/ Both(w, r, "tuple") ->
         \E i \in DOMAIN w.kids \cap DOMAIN r.kids : Narrowed(w.kids[i], r.kids[i])
    [] Both(w, r, "struct") ->
         \E i \in DOMAIN w.kids, j \in DOMAIN r.kids :
           SameName(w, i, r, j) /\ Narrowed(w.kids[i], r.kids[j])
    [] Both(w, r, "enum") ->
         \E i \in DOMAIN w.kids, j \in DOMAIN r.kids :
           SameName(w, i, r, j) /\ NarrowedVariant(w.kids[i], r.kids[j])
    [] OTHER -> FALSE

-----------------------------------------------------------------------------
(***************************************************************************)
(* The probe: rows enough for every variant to be written once.            *)
(***************************************************************************)

Larger(a, b) == IF a < b THEN b ELSE a

RECURSIVE VariantSpan(_)

\* span_of: the widest of the kids, 1 if there are none.
SpanOf(kids) ==
  IF kids = << >> THEN 1
  ELSE FoldLeft(LAMBDA span, kid : Larger(span, VariantSpan(kid)), 0, kids)

\* variant_span.
VariantSpan(node) ==
  IF node.kind = "enum" THEN Len(node.kids) * SpanOf(node.kids) ELSE SpanOf(node.kids)

\* The variant a row takes, counted from 0, and what is left of its pick.
Digit(pick, count) == pick % count

\* Mutation: what is below a variant takes the row's own pick.
Quotient_Whole(pick, count) == pick

Quotient(pick, count) == pick \div count

RECURSIVE WriteRow(_, _, _)

WriteRowEach(nodes, cells, pick) ==
  InTurn(LAMBDA r, i : WriteRow(nodes[i], r.cells, pick),
         Done(Val(0, << >>), cells), Len(nodes))

\* write_row: options are present, lengths and numbers are 1.  The remainder
\* by an empty enum's number of variants is a panic.
WriteRow(node, cells, pick) ==
  CASE node.kind \in Products -> WriteRowEach(node.kids, cells, pick)
    [] node.kind = "enum" /\ node.kids = << >> -> Fail
    [] node.kind = "enum" /\ node.kids # << >> ->
         LET count == Len(node.kids)
             index == Digit(pick, count) + 1
         IN  WriteRow(node.kids[index], Put(cells, node.col, index), Quotient(pick, count))
    [] OTHER -> WriteRowEach(node.kids, Put(cells, node.col, 1), pick)

ProbeRows(type) == IF VariantSpan(type) < MaxProbeRows THEN VariantSpan(type) ELSE MaxProbeRows

\* sample; it fails when it panics.
ProbeBlob(type, rows) ==
  InTurn(LAMBDA r, k : WriteRow(LayoutOf(type), r.cells, k - 1),
         Done(Val(0, << >>), NoCells(type)), rows)

\* Deserializer::new: the positional path is for a traced schema that is equal.
IsFast(reader, writer) == ~Unnameable(reader) /\ LayoutOf(reader) = LayoutOf(writer)

\* Deserializer::rows: `count` rows, and no column with anything left.
ReadsRows(reader, writer, cells, count) ==
  \E r \in {InTurn(LAMBDA r, k : Read(reader, LayoutOf(writer), r.cells, IsFast(reader, writer)),
                   Done(Val(0, << >>), cells), count)} :
    r.ok /\ \A c \in DOMAIN r.cells : r.cells[c] = << >>

\* probe: the type reads the rows, refuses one, or the sampler panics.
Probe(reader, writer) ==
  LET blob == ProbeBlob(writer, ProbeRows(writer))
  IN  CASE ~blob.ok -> "panicked"
        [] blob.ok /\ ReadsRows(reader, writer, blob.cells, ProbeRows(writer)) -> "reads"
        [] OTHER -> "refuses"

-----------------------------------------------------------------------------

\* Mutation: the type is never tried on its own schema.
Refusal_Unplaced(reader, own, narrowed) ==
  IF narrowed THEN "value dependent" ELSE "inconclusive"

\* The probe was refused: by the shape, or by a type no probe can satisfy.
Refusal(reader, own, narrowed) ==
  LET probed == IF own THEN Probe(reader, reader) ELSE "refuses"
  IN  CASE probed = "reads" -> "unreadable"
        [] probed = "panicked" -> "panicked"
        [] probed = "refuses" /\ narrowed -> "value dependent"
        [] OTHER -> "inconclusive"

\* verify; `own` when the type's own schema is available.
Verify(reader, writer, own) ==
  LET narrowed == own /\ Narrowed(writer, reader)
      probed == Probe(reader, writer)
  IN  CASE probed = "panicked" -> "panicked"
        [] probed = "reads" -> IF narrowed THEN "value dependent" ELSE "ok"
        [] OTHER -> Refusal(reader, own, narrowed)

\* check: the reference schema is traced.
Check(reader, writer) == Verify(reader, writer, ~Unnameable(reader))

\* check_static: the reference schema is derived.
CheckStatic(reader, writer) == Verify(reader, writer, TRUE)

=============================================================================
