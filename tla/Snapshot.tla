------------------------------ MODULE Snapshot ------------------------------
(***************************************************************************)
(* A schema is traced, written, shipped and read back.                     *)
(***************************************************************************)
EXTENDS Trace, Shipment

CONSTANT Spell   \* Spell[name]: the bytes of a name

ASSUME SnapshotAssumption == TraceDepth = MaxDepth   \* one constant in the code

vars == <<traceVars, shipmentVars>>

-----------------------------------------------------------------------------
(***************************************************************************)
(* The nodes of a schema in the order encode_into writes them.             *)
(***************************************************************************)

PrimTag == [bool |-> 0, i8 |-> 1, u8 |-> 6, u16 |-> 7]

\* The tag of a node; of a variant's shape.
TagOf(tree) ==
  CASE tree.kind = "prim" -> PrimTag[tree.name]
    [] tree.kind = "unit" -> IF tree.name = "" THEN 16 ELSE 18
    [] tree.kind = "tuple" -> IF tree.name = "" THEN 21 ELSE 22
    [] OTHER -> [str |-> 14, bytes |-> 15, option |-> 17, newtype |-> 19, seq |-> 20,
                 map |-> 23, struct |-> 24, enum |-> 25, shared |-> 26][tree.kind]

ShapeOf(tree) == Shape([unit |-> 0, newtype |-> 1, tuple |-> 2, struct |-> 3][tree.kind])

NodeFor(tree, tag, label) ==
  Node(label, tag,
       IF tag \in Named THEN <<Spell[tree.name]>> ELSE << >>,
       IF tag \in Counted THEN <<Len(tree.kids)>> ELSE << >>)

LabelOf(tree, i) == IF tree.names = << >> THEN << >> ELSE <<Spell[tree.names[i]]>>

RECURSIVE NodesOf(_, _, _)
NodesOf(tree, tag, label) ==
  <<NodeFor(tree, tag, label)>> \o
  FlattenSeq([i \in DOMAIN tree.kids |->
    NodesOf(tree.kids[i],
            IF tree.kind = "enum" THEN ShapeOf(tree.kids[i]) ELSE TagOf(tree.kids[i]),
            LabelOf(tree, i))])

\* Schema::to_bytes of a traced schema.
Written(tree) == NodesOf(tree, TagOf(tree), << >>)

-----------------------------------------------------------------------------

Init == TraceInit /\ ShipmentInit

TracePassed == Pass /\ UNCHANGED shipmentVars

ShipTraced == outcome = "traced" /\ Ship(Written(merged)) /\ UNCHANGED traceVars

Received == Receive /\ UNCHANGED traceVars

Next == TracePassed \/ ShipTraced \/ Received

\* Whoever traces, or reads, does nothing else until it is done.
Spec == Init /\ [][Next]_vars /\ WF_vars(TracePassed) /\ WF_vars(Received)

-----------------------------------------------------------------------------
(***************************************************************************)
(* Properties.                                                             *)
(***************************************************************************)

\* The state has the form its actions expect, tracing ends before anything is
\* shipped, and what is then shipped is a schema with every part in its place.
TypeOK ==
  /\ DecodeTypeOK
  /\ type \in TracedTypes
  /\ passes \in Nat
  /\ outcome \in {"tracing", "traced", "untraceable", "depth", "gave up"}
  /\ damaged \in BOOLEAN
  /\ phase # "idle" =>
       /\ outcome = "traced" /\ ~Unexplored(merged)
       /\ sent = Written(merged) /\ Whole(sent) /\ Sized(sent)

\* Tracing ends whatever the type, and so does reading whatever the bytes.
EverythingEnds ==
  /\ <>(outcome # "tracing")
  /\ phase \in Reading ~> phase \notin Reading

=============================================================================
