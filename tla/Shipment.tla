------------------------------ MODULE Shipment ------------------------------
(***************************************************************************)
(* A schema is written, shipped alone or in a frame before some data,      *)
(* perhaps damaged on the way, and read back.                              *)
(***************************************************************************)
EXTENDS SchemaDecode

CONSTANTS
  Data,          \* the bytes after the schema in a frame
  DamageBytes,   \* bytes that damage may leave
  StrayBytes     \* bytes that may be put in

ASSUME ShipmentAssumption ==
  DamageBytes \subseteq Bytes /\ StrayBytes \subseteq Bytes /\ Data \in Seq(Bytes)

VARIABLES
  sent,       \* history: the schema shipped
  damaged     \* a byte was changed, lost or put in, or the end cut off

shipmentVars == <<decodeVars, sent, damaged>>

-----------------------------------------------------------------------------
(***************************************************************************)
(* What is a schema, of all sequences of nodes.                            *)
(***************************************************************************)

\* A child still to be written, under a parent of that tag, and how many nodes
\* are above it.
Slot(parent, level) == [parent |-> parent, level |-> level]

\* The children to be written after the first k nodes, the next one last.
Due(ns) ==
  LET due[k \in 0 .. Len(ns)] ==
        IF k = 0 THEN <<Slot(0, 0)>>
        ELSE LET before == due[k - 1]
             IN  Front(before)
                 \o [i \in 1 .. Children(ns[k]) |-> Slot(ns[k].tag, Last(before).level + 1)]
  IN  due

\* The numbers a varint of `Places` bytes can hold, those of a u64.
Numbers == 0 .. 2 * LastWeight - 1

IsText(text) == IsUtf8(text) /\ Len(text) \in Numbers

\* A node has the parts its tag and its parent call for.
Placed(n, parent) ==
  /\ n.tag \in IF parent \in Enums THEN ShapeTags ELSE NodeTags
  /\ n.label # << >> <=> parent \in Labelled
  /\ n.name # << >> <=> n.tag \in Named
  /\ n.count # << >> <=> n.tag \in Counted
  /\ n.label # << >> => IsText(n.label[1])
  /\ n.name # << >> => IsText(n.name[1])
  /\ n.count # << >> => n.count[1] \in Numbers

\* Each node is a child that is due.
Growing(ns) ==
  \A k \in 1 .. Len(ns) :
    LET due == Due(ns)[k - 1]
    IN  due # << >> /\ Placed(ns[k], Last(due).parent)

\* No node is missing.
Whole(ns) == ns \in Seq(NodeRecords) /\ Growing(ns) /\ Due(ns)[Len(ns)] = << >>

\* Its length is a number.
Sized(ns) == Len(ToBytes(ns)) \in Numbers

\* A node has MaxDepth others above it.
Deep(ns) == \E k \in 1 .. Len(ns) : Last(Due(ns)[k - 1]).level >= MaxDepth

-----------------------------------------------------------------------------

ShipmentInit == DecodeInit /\ sent = << >> /\ damaged = FALSE

\* One byte changed, the end cut off, one byte lost, one put in.
Changed(bytes) == {[bytes EXCEPT ![i] = b] : i \in DOMAIN bytes, b \in DamageBytes}
Cut(bytes)     == {SubSeq(bytes, 1, i - 1) : i \in DOMAIN bytes}
Less(bytes)    == {RemoveAt(bytes, i) : i \in DOMAIN bytes}
More(bytes)    == {InsertAt(bytes, i, b) : i \in 1 .. Len(bytes) + 1, b \in StrayBytes}

Harmed(bytes) == Changed(bytes) \union Cut(bytes) \union Less(bytes) \union More(bytes)

Send(bytes, framed) ==
  /\ \/ input' = bytes /\ damaged' = FALSE
     \/ input' \in Harmed(bytes) \ {bytes} /\ damaged' = TRUE
  /\ phase' = IF framed THEN "magic" ELSE "version"
  /\ OpenBytes

\* to_bytes and from_bytes.
ShipSchema(ns) == Send(ToBytes(ns), FALSE)

\* SelfDescribingSerializer::to_vec and split.
ShipFrame(ns) == Send(Frame(ToBytes(ns), Data), TRUE)

Ship(ns) == sent' = ns /\ (ShipSchema(ns) \/ ShipFrame(ns))

Receive == Decode /\ UNCHANGED <<sent, damaged>>

\* Any schema is shipped.
ShipmentNext == (\E ns \in Seq(NodeRecords) : Whole(ns) /\ Sized(ns) /\ Ship(ns)) \/ Receive

ShipmentSpec == ShipmentInit /\ [][ShipmentNext]_shipmentVars

-----------------------------------------------------------------------------
(***************************************************************************)
(* Properties.                                                             *)
(***************************************************************************)

\* A schema shipped intact is read back node for node, unless decode counts it
\* too deep, which it counts by other rules than tracing: a leaf and a
\* variant's shape are levels to it (schema.rs, MAX_DEPTH: "guarding both").
ShippedIsRead ==
  ~damaged =>
    /\ phase = "accepted" => nodes = sent /\ ~Deep(sent)
    /\ phase \in Failures => phase = "depth" /\ Deep(sent)

\* What the frame hands on as data.
Rest == SubSeq(input, limit + 1, Len(input))

\* The data a byte short, or a byte long, where the schema took a byte of it or
\* left one to it.
Slipped(schema) == {Tail(Data), <<Last(schema)>> \o Data}

\* Whatever one byte of a frame is changed, lost or put in, and wherever its end
\* is cut off, the frame is refused or as many bytes as were written are taken
\* for the schema, unless its length came to take fewer or more bytes
\* (self_describing.rs, split, which trusts the length).  The schema or the data
\* is then as it was written, with one exception: a byte lost from the schema is
\* made up for by the data's first, and a byte put into it leaves its last to the
\* data, and what comes of it may be a schema.
SplitsWhereWritten ==
  LET schema == ToBytes(sent)
  IN  phase = "accepted" /\ start = Len(Header(Len(schema))) =>
        /\ limit = start + Len(schema)
        /\ nodes = sent \/ Rest = Data \/ Rest \in Slipped(schema)

=============================================================================
