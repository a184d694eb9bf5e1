---------------------------- MODULE SchemaBytes -----------------------------
(***************************************************************************)
(* A schema on the wire (src/schema.rs, src/varint.rs), and in a frame     *)
(* (src/self_describing.rs).  A schema is the sequence of its nodes, a     *)
(* node before its children, as encode_into writes them.  A node is        *)
(*                                                                         *)
(*   label   the field's or variant's name its parent writes before it     *)
(*   tag     its wire tag; the shape of a variant, which has tags of its   *)
(*           own, is that tag plus 32                                      *)
(*   name    the name of its type                                          *)
(*   count   how many children it says it has                              *)
(*                                                                         *)
(* label, name and count are sequences of none or one.  A name is the      *)
(* sequence of its bytes.                                                  *)
(***************************************************************************)
EXTENDS Integers, Sequences, SequencesExt

CONSTANTS
  Magic,       \* self_describing::MAGIC
  Places,      \* bound: the bytes a varint may take, 10 for a u64
  MaxDepth,    \* schema::MAX_DEPTH
  Reserve      \* the longest list a count alone has allocated, 64

ASSUME SchemaBytesAssumption ==
  /\ Places \in Nat \ {0}
  /\ MaxDepth \in Nat
  /\ Reserve \in Nat
  /\ Magic \in Seq(0 .. 255)

SchemaVersion == 1
FormatVersion == 1

Node(label, tag, name, count) ==
  [label |-> label, tag |-> tag, name |-> name, count |-> count]

\* A node of a known tag.
NodeTags    == 0 .. 26
Shape(tag)  == 32 + tag
ShapeTags   == {Shape(tag) : tag \in 0 .. 3}

Named       == {18, 19, 22, 24, 25}      \* written with their type's name
Counted     == {21, 22, 24, 25, Shape(2), Shape(3)}
Labelled    == {24, 25, Shape(3)}        \* their children have names
Enums       == {25}                      \* their children are shapes

\* How many children a node has without saying so.
Arity(tag) ==
  IF tag \in {17, 19, 20, 26, Shape(1)} THEN 1 ELSE IF tag = 23 THEN 2 ELSE 0

Children(node) == IF node.tag \in Counted THEN node.count[1] ELSE Arity(node.tag)

-----------------------------------------------------------------------------

\* varint::write: seven bits a byte, the least significant first, and a mark on
\* every byte but the last.
VarintOf[v \in Nat] ==
  IF v < 128 THEN <<v>> ELSE <<128 + (v % 128)>> \o VarintOf[v \div 128]

\* encode_str.
TextOf(text) == VarintOf[Len(text)] \o text

\* SchemaNode::encode_into and VariantNode::encode_into, for one node.
LabelBytes(node) == IF node.label = << >> THEN << >> ELSE TextOf(node.label[1])
NameBytes(node)  == IF node.name = << >> THEN << >> ELSE TextOf(node.name[1])
CountBytes(node) == IF node.count = << >> THEN << >> ELSE VarintOf[node.count[1]]

BytesOf(node) ==
  LabelBytes(node) \o <<node.tag % 32>> \o NameBytes(node) \o CountBytes(node)

\* SchemaNode::to_bytes.
ToBytes(nodes) ==
  VarintOf[SchemaVersion] \o FlattenSeq([i \in DOMAIN nodes |-> BytesOf(nodes[i])])

\* What precedes a schema of `len` bytes in a frame.
Header(len) == Magic \o VarintOf[FormatVersion] \o VarintOf[len]

\* SelfDescribingSerializer::frame.
Frame(schema, data) == Header(Len(schema)) \o schema \o data

=============================================================================
