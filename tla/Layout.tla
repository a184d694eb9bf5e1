------------------------------- MODULE Layout -------------------------------
(***************************************************************************)
(* Types, the schemas they have, and the columns of a schema               *)
(* (src/layout.rs).  A type is a tree of records of one form:              *)
(*                                                                         *)
(*   kind     "prim", "str", "unit", "newtype", "tuple", "struct",         *)
(*            "option", "seq", "map" or "enum"                             *)
(*   name     its name, "" for a bare tuple or unit; a primitive's type    *)
(*   kids     its fields, its element, its key and value, or its variants, *)
(*            which are products themselves                                *)
(*   names    the names of the fields of a struct, of the variants of an   *)
(*            enum                                                         *)
(*   alias    #[serde(alias)]: the other names each field or variant       *)
(*            answers to                                                   *)
(*   dflt     #[serde(default)], for each field                            *)
(*   retired  #[carbonite(removed)]: names, and positions as names         *)
(*                                                                         *)
(* The last three are attributes of the reading type: a schema has none of *)
(* them, and its nodes have a first column instead.  Primitives are told   *)
(* apart by name and take one cell each; a string is the sequence of its   *)
(* bytes.  Shared nodes are left to module Shared.                         *)
(***************************************************************************)
EXTENDS Integers, Sequences, SequencesExt

Type(kind, name, names, kids) ==
  [kind |-> kind, name |-> name, names |-> names, kids |-> kids,
   alias |-> [i \in DOMAIN kids |-> {}],
   dflt |-> [i \in DOMAIN kids |-> FALSE],
   retired |-> {}]

Prim(p)                  == Type("prim", p, << >>, << >>)
Str                      == Type("str", "", << >>, <<Prim("u8")>>)
Unit                     == Type("unit", "", << >>, << >>)
UnitStruct(name)         == Type("unit", name, << >>, << >>)
Newtype(name, inner)     == Type("newtype", name, << >>, <<inner>>)
Tuple(name, fields)      == Type("tuple", name, << >>, fields)
Struct(name, names, fields) == Type("struct", name, names, fields)
Option(inner)            == Type("option", "", << >>, <<inner>>)
Vec(elem)                == Type("seq", "", << >>, <<elem>>)
Map(key, value)          == Type("map", "", << >>, <<key, value>>)
Enum(name, names, variants) == Type("enum", name, names, variants)

Products == {"unit", "newtype", "tuple", "struct"}   \* no column of their own
Repeated == {"str", "seq", "map"}                    \* a length column first

-----------------------------------------------------------------------------

OwnColumns(node) == IF node.kind \in Products THEN 0 ELSE 1

\* The number of columns a node and everything below it occupy.
RECURSIVE Columns(_)
Columns(node) ==
  FoldLeft(LAMBDA sum, kid : sum + Columns(kid), OwnColumns(node), node.kids)

\* The column after the first i kids of a node whose first column is `first`.
After(node, first, i) ==
  FoldLeft(LAMBDA sum, kid : sum + Columns(kid), first + OwnColumns(node),
           SubSeq(node.kids, 1, i))

\* layout::build: a node's own columns come before its children's.
RECURSIVE Build(_, _)
Build(type, next) ==
  [kind |-> type.kind, name |-> type.name, names |-> type.names, col |-> next,
   kids |-> [i \in DOMAIN type.kids |->
               Build(type.kids[i], After(type, next, i - 1))]]

\* Layout::new.  Two types have equal layouts when they have equal schemas.
LayoutOf(type) == Build(type, 1)

-----------------------------------------------------------------------------

\* Tracing (module Trace) cannot tell which of two names a type writes, and an
\* enum without variants shows it nothing: the type has no traced schema.
RECURSIVE Unnameable(_)
Unnameable(type) ==
  \/ type.kind = "enum" /\ type.kids = << >>
  \/ \E i \in DOMAIN type.kids : type.alias[i] # {} \/ Unnameable(type.kids[i])

=============================================================================
