------------------------------- MODULE Reader -------------------------------
(***************************************************************************)
(* ValueDeserializer (src/de.rs): a value written under one schema, read   *)
(* as a type that may have another.  Ask is the type's Deserialize impl    *)
(* asking the format for what it wants; Dispatch is the format answering   *)
(* with what the schema says is there.  The answer is a plan: which of the *)
(* writer's values are read, as what, into which field; Read carries it    *)
(* out.  What a derived visitor takes is serde's: VisitSeq takes fields in *)
(* order, VisitMap takes them by name.                                     *)
(*                                                                         *)
(* `fast` is Deserializer::fast, the schema being the reading type's own.  *)
(* A map is read as a map only and a struct never as one: no type here has *)
(* a map of strings where another has a struct.                            *)
(***************************************************************************)
EXTENDS Codec, TLC

\* The values of each primitive.
PrimValues ==
  [bool |-> 0 .. 1, u8 |-> 0 .. 255, u16 |-> 0 .. 65535,
   i8 |-> -128 .. 127, i16 |-> -32768 .. 32767]

RECURSIVE DefaultOf(_)

\* Default::default() of a type.
DefaultOf(type) ==
  Val(0, IF type.kind \in Products
         THEN [i \in DOMAIN type.kids |-> DefaultOf(type.kids[i])]
         ELSE << >>)

-----------------------------------------------------------------------------
(***************************************************************************)
(* Plans: take a cell of column `col`, if any; then make the steps, each   *)
(* into one of v's kids, or nowhere; the value is v, inside the variant    *)
(* numbered `variant`, if any.  A value read as () is skipped.             *)
(***************************************************************************)

Step(type, node, slot) == [type |-> type, node |-> node, slot |-> slot]
Skipped(node) == Step(Unit, node, 0)

InOrder(types, nodes) == [i \in DOMAIN nodes |-> Step(types[i], nodes[i], i)]

Plan(v, steps) == [ok |-> TRUE, col |-> 0, variant |-> 0, v |-> v, steps |-> steps]
Refused == [Plan(Val(0, << >>), << >>) EXCEPT !.ok = FALSE]

\* A value whose n parts are all to be read.
Parts(num, types, nodes) ==
  Plan(Val(num, [i \in DOMAIN nodes |-> Val(0, << >>)]), InOrder(types, nodes))

-----------------------------------------------------------------------------
(***************************************************************************)
(* serde's derived visitors.                                               *)
(***************************************************************************)

\* How many of the values offered a visitor asks for.
Asked(type, nodes) ==
  IF type.kind = "seq" \/ Len(nodes) < Len(type.kids) THEN Len(nodes) ELSE Len(type.kids)

\* visit_seq: a product takes one value per field, and ends with defaults.
VisitSeq(type, nodes) ==
  CASE type.kind = "seq" -> Parts(Len(nodes), [i \in DOMAIN nodes |-> type.kids[1]], nodes)
    [] type.kind \in Products \ {"unit"} /\
         \A i \in DOMAIN type.kids : i > Len(nodes) => type.dflt[i] ->
         Plan(DefaultOf(type), InOrder(type.kids, SubSeq(nodes, 1, Asked(type, nodes))))
    [] OTHER -> Refused

Answers(type, i) == type.alias[i] \union {type.names[i]}

\* The field or variant of that name, 0 if none.
Target(type, name) ==
  SelectInSeq([i \in DOMAIN type.kids |-> Answers(type, i)], LAMBDA names : name \in names)

\* A field nobody wrote: its default, None for an option, else missing_field.
MayBeMissing(type, i) == type.dflt[i] \/ type.kids[i].kind = "option"

\* visit_map: each entry goes to the field that answers to its key.
VisitMap(type, keys, nodes) ==
  LET fieldOf == [k \in DOMAIN keys |-> Target(type, keys[k])]
      step(k) == IF fieldOf[k] = 0 THEN Skipped(nodes[k])
                 ELSE Step(type.kids[fieldOf[k]], nodes[k], fieldOf[k])
      twice == \E j, k \in DOMAIN keys : j < k /\ fieldOf[j] = fieldOf[k] /\ fieldOf[j] # 0
      missing == DOMAIN type.kids \ Range(fieldOf)
  IN  IF twice \/ \E i \in missing : ~MayBeMissing(type, i) THEN Refused
      ELSE Plan(DefaultOf(type), [k \in DOMAIN keys |-> step(k)])

-----------------------------------------------------------------------------
(***************************************************************************)
(* Products.                                                               *)
(***************************************************************************)

\* Mutation: what the visitor did not ask for stays in the columns.
VisitProduct_NoDrain(type, nodes, fast) == VisitSeq(type, nodes)

\* visit_product: what the visitor did not ask for is skipped.
VisitProduct(type, nodes, fast) ==
  LET rest == SubSeq(nodes, Asked(type, nodes) + 1, Len(nodes))
      drain == [i \in DOMAIN rest |-> Skipped(rest[i])]
  IN  [VisitSeq(type, nodes) EXCEPT !.steps = IF fast THEN @ ELSE @ \o drain]

Positions(count) == [i \in 1 .. count |-> ToString(i - 1)]

\* positional_names: one field tagged with a position is enough.
PositionalNames(type, count) ==
  \E i \in DOMAIN type.kids : Answers(type, i) \cap ToSet(Positions(count)) # {}

\* visit_numbered.
VisitNumbered(type, nodes) == VisitMap(type, Positions(Len(nodes)), nodes)

\* Mutation: positions are matched to fields in declaration order.
ReadNumbered_InOrder(type, nodes) == VisitProduct(type, nodes, FALSE)

\* A positional payload reaching named fields.
ReadNumbered(type, nodes) ==
  IF nodes = << >> \/ PositionalNames(type, Len(nodes))
  THEN VisitNumbered(type, nodes)
  ELSE Refused

\* A payload, of a struct or of a variant, reaching named fields.
ReadNamed(type, node, fast) ==
  CASE node.kind # "struct" -> ReadNumbered(type, node.kids)
    [] node.kind = "struct" /\ fast -> VisitProduct(type, node.kids, fast)
    [] OTHER -> VisitMap(type, node.names, node.kids)

-----------------------------------------------------------------------------
(***************************************************************************)
(* Enums.                                                                  *)
(***************************************************************************)

\* ColEnum as VariantAccess: the reader's variant against the writer's.
ReadVariant(type, node, fast) ==
  CASE type.kind = "unit" -> Plan(Val(0, << >>), <<Skipped(node)>>)
    [] type.kind = "struct" -> ReadNamed(type, node, fast)
    [] type.kind = "tuple" /\ (node.kind # "struct" \/ fast) ->
         VisitProduct(type, node.kids, fast)
    [] type.kind = "newtype" /\ (node.kind # "struct" \/ fast) /\ Len(node.kids) = 1 ->
         Parts(0, type.kids, node.kids)
    [] OTHER -> Refused

\* Mutation: the tag is taken for a position in the reader's own list.
VariantOf_Tag(type, node, x) == IF x \in DOMAIN type.kids THEN x ELSE 0

\* ColEnum::variant_seed: the tag names a variant of the writer's.
VariantOf(type, node, x) == Target(type, node.names[x])

ReadEnum(type, node, x, fast) ==
  IF x \notin DOMAIN node.kids \/ VariantOf(type, node, x) = 0 THEN Refused
  ELSE [ReadVariant(type.kids[VariantOf(type, node, x)], node.kids[x], fast)
          EXCEPT !.variant = VariantOf(type, node, x)]

-----------------------------------------------------------------------------
(***************************************************************************)
(* What the format offers, and what the type asks for.                     *)
(***************************************************************************)

\* visit_bool, visit_u8 and so on: serde converts integers that fit.
VisitPrim(type, node, x) ==
  LET fits == /\ type.kind = "prim"
              /\ (type.name = "bool") = (node.name = "bool")
              /\ x \in PrimValues[type.name]
  IN  IF fits THEN Plan(Val(x, << >>), << >>) ELSE Refused

\* ColSeq, ColMap and strings: as many entries as the length says.
VisitEntries(type, node, x) ==
  CASE type.kind = node.kind /\ type.kind # "seq" -> Parts(x, Entries(type, x), Entries(node, x))
    [] node.kind = "seq" -> VisitSeq(type, Entries(node, x))
    [] OTHER -> Refused

\* ValueDeserializer::dispatch, at a node with a column of its own, whose cell
\* is x; `cells` is what is left.
DispatchCell(type, node, x, cells, fast) ==
  CASE node.kind = "prim" -> VisitPrim(type, node, x)
    [] node.kind = "option" /\ type.kind = "option" /\ x <= 1 ->
         Parts(x, type.kids, Present(node, x))
    [] node.kind \in Repeated /\ CountAllowed(node, x, cells, AllColumns(cells)) ->
         VisitEntries(type, node, x)
    [] node.kind = "enum" /\ type.kind = "enum" -> ReadEnum(type, node, x, fast)
    [] OTHER -> Refused

\* The wrapper of a newtype has no columns: it is seen through.
RECURSIVE Unwrapped(_)
Unwrapped(node) == IF node.kind = "newtype" THEN Unwrapped(node.kids[1]) ELSE node

Taking(node, cells, plan) ==
  IF cells[node.col] = << >> THEN Refused ELSE [plan EXCEPT !.col = node.col]

\* ValueDeserializer::dispatch.
Dispatch(type, wrapped, cells, fast) ==
  LET node == Unwrapped(wrapped)
  IN  CASE node.kind = "tuple" -> VisitProduct(type, node.kids, fast)
        [] node.kind \in Products \ {"tuple"} -> Refused
        [] OTHER -> Taking(node, cells,
                           DispatchCell(type, node, Head(cells[node.col]),
                                        Rest(cells, node.col), fast))

\* deserialize_positional: names are refused, positions read in order.
ReadPositional(type, node, cells, fast) ==
  CASE node.kind = "struct" /\ ~fast -> Refused
    [] node.kind \in Products /\ (node.kind # "struct" \/ fast) ->
         VisitProduct(type, node.kids, fast)
    [] OTHER -> Dispatch(type, node, cells, fast)

\* deserialize_seq: an option is a sequence of none or one.
ReadSeq(type, node, cells, fast) ==
  LET inner == Unwrapped(node)
      x == Head(cells[inner.col])
  IN  IF inner.kind # "option" THEN Dispatch(type, node, cells, fast)
      ELSE Taking(inner, cells,
                  IF x > 1 THEN Refused ELSE VisitSeq(type, Present(inner, x)))

\* deserialize_newtype_struct.
ReadNewtype(type, node, cells, fast) ==
  CASE node.kind = "newtype" -> Parts(0, type.kids, node.kids)
    [] node.kind \in Products \ {"newtype"} -> ReadPositional(type, node, cells, fast)
    [] OTHER -> Parts(0, type.kids, <<node>>)

\* deserialize_struct: a plain value is the one field at position 0.
ReadStruct(type, node, cells, fast) ==
  CASE node.kind \in Products -> ReadNamed(type, node, fast)
    [] node.kind \notin Products /\ PositionalNames(type, 1) -> VisitNumbered(type, <<node>>)
    [] OTHER -> Dispatch(type, node, cells, fast)

\* Deserialize::deserialize, for each kind of type that stores something.
Ask(type, node, cells, fast) ==
  CASE type.kind = "option" /\ node.kind # "option" -> Parts(1, type.kids, <<node>>)
    [] type.kind = "newtype" -> ReadNewtype(type, node, cells, fast)
    [] type.kind = "tuple" -> ReadPositional(type, node, cells, fast)
    [] type.kind = "struct" -> ReadStruct(type, node, cells, fast)
    [] type.kind = "seq" -> ReadSeq(type, node, cells, fast)
    [] OTHER -> Dispatch(type, node, cells, fast)

InSlot(v, slot, part) == IF slot = 0 THEN v ELSE [v EXCEPT !.kids[slot] = part]

\* What is read so far, r, with a further part of it.
With(r, slot, part) ==
  IF part.ok THEN Done(InSlot(r.v, slot, part.v), part.cells) ELSE Fail

InVariant(variant, r) ==
  IF ~r.ok \/ variant = 0 THEN r ELSE Done(Val(variant, <<r.v>>), r.cells)

Left(plan, cells) == IF plan.col = 0 THEN cells ELSE Rest(cells, plan.col)

RECURSIVE Read(_, _, _, _), CarryOut(_, _, _)

\* The parts of a plan are read in order, each from where the last one ended.
CarryOut(plan, cells, fast) ==
  LET take(r, k) ==
        With(r, plan.steps[k].slot,
             Read(plan.steps[k].type, plan.steps[k].node, r.cells, fast))
  IN  IF ~plan.ok THEN Fail
      ELSE InVariant(plan.variant,
                     InTurn(take, Done(plan.v, Left(plan, cells)), Len(plan.steps)))

\* Nothing asked for, nothing stored: what is there is skipped.  A map's
\* visitor inserts one entry after another.
Read(type, node, cells, fast) ==
  IF type.kind = "unit" THEN Skip(node, cells)
  ELSE Collect(type, CarryOut(Ask(type, node, cells, fast), cells, fast))

=============================================================================
