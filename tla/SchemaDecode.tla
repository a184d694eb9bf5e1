---------------------------- MODULE SchemaDecode ----------------------------
(***************************************************************************)
(* Reading a schema back: Schema::from_bytes (src/schema.rs) byte by byte, *)
(* alone or inside a self-describing frame (src/self_describing.rs).  The  *)
(* recursion of decode is a stack of the nodes being read, each with the   *)
(* children it still waits for; a varint is read one byte a step, least    *)
(* significant first.                                                      *)
(***************************************************************************)
EXTENDS SchemaBytes

CONSTANT Utf8   \* the sequences of bytes that are UTF-8

VARIABLES
  input,     \* the bytes given
  pos,       \* how many are consumed
  start,     \* where the schema begins
  limit,     \* where the slice being read ends
  phase,     \* what is read next, or the outcome
  value,     \* of the varint being read, so far
  weight,    \* of its next byte: 2 to the shift
  node,      \* the node being read, so far
  stack,     \* the nodes above it
  nodes,     \* the nodes read
  reserved   \* history: list elements allocated before they were read

decodeVars ==
  <<input, pos, start, limit, phase, value, weight, node, stack, nodes, reserved>>

Bytes == 0 .. 255
Failures == {"malformed", "unsupported", "eof", "varint", "utf8", "depth", "trailing"}
VarintPhases == {"frameVersion", "schemaLen", "version", "labelLen", "nameLen", "count"}
Reading == VarintPhases \union {"magic", "tag", "next"}

NoNode == Node(<< >>, 0, << >>, << >>)

DecodeInit ==
  /\ input = << >>
  /\ pos = 0
  /\ start = 0
  /\ limit = 0
  /\ phase = "idle"
  /\ value = 0
  /\ weight = 1
  /\ node = NoNode
  /\ stack = << >>
  /\ nodes = << >>
  /\ reserved = 0

\* Bytes are given, as a frame or as a schema alone.
OpenBytes ==
  /\ phase = "idle"
  /\ input' \in Seq(Bytes)
  /\ limit' = Len(input')
  /\ phase' \in {"magic", "version"}
  /\ UNCHANGED <<pos, start, value, weight, node, stack, nodes, reserved>>

End(outcome) ==
  /\ phase' = outcome
  /\ UNCHANGED <<input, pos, start, limit, value, weight, node, stack, nodes, reserved>>

-----------------------------------------------------------------------------
(***************************************************************************)
(* varint::read.                                                           *)
(***************************************************************************)

HasByte == pos < limit
Byte == input[pos + 1]

\* Mutation: zeros may pad a number out.
Shortest_Any == TRUE

\* A last byte of zero means that a shorter form of the number exists.
Shortest == Byte # 0 \/ weight = 1

\* What the digit after i others counts for: 2 to the shift.
Weight[i \in Nat] == IF i = 0 THEN 1 ELSE 128 * Weight[i - 1]

\* The last byte of a u64 adds one bit.
LastWeight == Weight[Places - 1]
Fits == weight < LastWeight \/ (weight = LastWeight /\ Byte % 128 <= 1)

Digits == value + (Byte % 128) * weight

\* A number ends at the byte at hand; it is Digits.
Number(at) == phase = at /\ HasByte /\ Byte < 128 /\ Fits /\ Shortest

TakeDigit ==
  /\ phase \in VarintPhases
  /\ HasByte
  /\ Byte >= 128
  /\ Fits
  /\ pos' = pos + 1
  /\ value' = Digits
  /\ weight' = weight * 128
  /\ UNCHANGED <<input, start, limit, phase, node, stack, nodes, reserved>>

BadVarint ==
  /\ phase \in VarintPhases
  /\ HasByte
  /\ ~Fits \/ (Byte < 128 /\ ~Shortest)
  /\ End("varint")

\* UnexpectedEof, in a varint or for a tag.
NoByte == phase \in VarintPhases /\ ~HasByte /\ End("eof")

\* Mutation: the next number starts at the shift of the last one's end.
NumberDone_KeepsWeight == value' = 0 /\ UNCHANGED weight

\* The number is used up.
NumberDone == value' = 0 /\ weight' = 1

-----------------------------------------------------------------------------
(***************************************************************************)
(* split, and the version in from_bytes.                                   *)
(***************************************************************************)

TakeMagic ==
  /\ phase = "magic"
  /\ IsPrefix(Magic, input)
  /\ pos' = Len(Magic)
  /\ phase' = "frameVersion"
  /\ UNCHANGED <<input, start, limit, value, weight, node, stack, nodes, reserved>>

NoMagic == phase = "magic" /\ ~IsPrefix(Magic, input) /\ End("malformed")

VersionRead(supported, next) ==
  IF Digits = 0 THEN "malformed" ELSE IF Digits > supported THEN "unsupported" ELSE next

ReadFrameVersion ==
  /\ Number("frameVersion")
  /\ NumberDone
  /\ pos' = pos + 1
  /\ phase' = VersionRead(FormatVersion, "schemaLen")
  /\ UNCHANGED <<input, start, limit, node, stack, nodes, reserved>>

\* The schema is the slice of that length, the data what follows it.
ReadSchemaLen ==
  /\ Number("schemaLen")
  /\ NumberDone
  /\ pos' = pos + 1
  /\ IF Digits > limit - (pos + 1)
     THEN phase' = "eof" /\ UNCHANGED <<start, limit>>
     ELSE phase' = "version" /\ start' = pos + 1 /\ limit' = pos + 1 + Digits
  /\ UNCHANGED <<input, node, stack, nodes, reserved>>

ReadSchemaVersion ==
  /\ Number("version")
  /\ NumberDone
  /\ pos' = pos + 1
  /\ phase' = VersionRead(SchemaVersion, "tag")
  /\ UNCHANGED <<input, start, limit, node, stack, nodes, reserved>>

-----------------------------------------------------------------------------
(***************************************************************************)
(* SchemaNode::decode and VariantNode::decode.                             *)
(***************************************************************************)

\* decode_str: the bytes after the number at hand.
Text == SubSeq(input, pos + 2, pos + 1 + Digits)
HasText == Digits <= limit - (pos + 1)

\* String::from_utf8.
IsUtf8(text) == text \in Utf8

TakeText == NumberDone /\ pos' = pos + 1 + Digits

BadText ==
  /\ Number("labelLen") \/ Number("nameLen")
  /\ \/ ~HasText /\ End("eof")
     \/ HasText /\ ~IsUtf8(Text) /\ End("utf8")

ReadLabel ==
  /\ Number("labelLen")
  /\ HasText
  /\ IsUtf8(Text)
  /\ TakeText
  /\ node' = [node EXCEPT !.label = <<Text>>]
  /\ phase' = "tag"
  /\ UNCHANGED <<input, start, limit, stack, nodes, reserved>>

Waiting(n) == [tag |-> n.tag, left |-> Children(n)]

\* One node more under the top of the stack, and its children to come.
Entered(n) ==
  Append(IF stack = << >> THEN << >> ELSE [stack EXCEPT ![Len(stack)].left = @ - 1],
         Waiting(n))

\* A node is read as far as its children.
Enter(n) ==
  /\ nodes' = Append(nodes, n)
  /\ stack' = Entered(n)
  /\ node' = NoNode
  /\ phase' = "next"

Parent == IF stack = << >> THEN 0 ELSE stack[Len(stack)].tag

\* Variants are tagged apart from nodes.
Tag == IF Parent \in Enums THEN Shape(Byte) ELSE Byte
KnownTag == Tag \in (IF Parent \in Enums THEN ShapeTags ELSE NodeTags)

\* Mutation: variants are not counted.
TooDeep_NodesOnly == Parent \notin Enums /\ Len(stack) >= MaxDepth

TooDeep == Len(stack) >= MaxDepth

BadTag ==
  /\ phase = "tag"
  /\ \/ TooDeep /\ End("depth")
     \/ ~TooDeep /\ ~HasByte /\ End("eof")
     \/ ~TooDeep /\ HasByte /\ ~KnownTag /\ End("malformed")

ReadTag ==
  /\ phase = "tag"
  /\ ~TooDeep
  /\ HasByte
  /\ KnownTag
  /\ pos' = pos + 1
  /\ LET n == [node EXCEPT !.tag = Tag]
     IN  CASE Tag \in Named -> node' = n /\ phase' = "nameLen" /\ UNCHANGED <<stack, nodes>>
           [] Tag \in Counted \ Named -> node' = n /\ phase' = "count" /\ UNCHANGED <<stack, nodes>>
           [] OTHER -> Enter(n)
  /\ UNCHANGED <<input, start, limit, value, weight, reserved>>

ReadName ==
  /\ Number("nameLen")
  /\ HasText
  /\ IsUtf8(Text)
  /\ TakeText
  /\ LET n == [node EXCEPT !.name = <<Text>>]
     IN  IF n.tag \in Counted
         THEN node' = n /\ phase' = "count" /\ UNCHANGED <<stack, nodes>>
         ELSE Enter(n)
  /\ UNCHANGED <<input, start, limit, reserved>>

\* Mutation: the count decides what is allocated.
Allocated_AsClaimed(count) == count

\* Vec::with_capacity.
Allocated(count) == IF count < Reserve THEN count ELSE Reserve

ReadCount ==
  /\ Number("count")
  /\ NumberDone
  /\ pos' = pos + 1
  /\ Enter([node EXCEPT !.count = <<Digits>>])
  /\ reserved' = reserved + Allocated(Digits)
  /\ UNCHANGED <<input, start, limit>>

\* The next child of the top of the stack.
Descend ==
  /\ phase = "next"
  /\ stack # << >>
  /\ stack[Len(stack)].left > 0
  /\ phase' = IF Parent \in Labelled THEN "labelLen" ELSE "tag"
  /\ UNCHANGED <<input, pos, start, limit, value, weight, node, stack, nodes, reserved>>

\* All its children are read: decode returns.
Return ==
  /\ phase = "next"
  /\ stack # << >>
  /\ stack[Len(stack)].left = 0
  /\ stack' = Front(stack)
  /\ UNCHANGED <<input, pos, start, limit, phase, value, weight, node, nodes, reserved>>

\* Mutation: what follows the schema is ignored.
AllConsumed_Any == TRUE

AllConsumed == pos = limit

EndOfSchema ==
  /\ phase = "next"
  /\ stack = << >>
  /\ End(IF AllConsumed THEN "accepted" ELSE "trailing")

-----------------------------------------------------------------------------

Decode ==
  \/ TakeMagic
  \/ NoMagic
  \/ TakeDigit
  \/ BadVarint
  \/ NoByte
  \/ ReadFrameVersion
  \/ ReadSchemaLen
  \/ ReadSchemaVersion
  \/ ReadLabel
  \/ BadText
  \/ ReadTag
  \/ BadTag
  \/ ReadName
  \/ ReadCount
  \/ Descend
  \/ Return
  \/ EndOfSchema

DecodeNext == OpenBytes \/ Decode

DecodeSpec == DecodeInit /\ [][DecodeNext]_decodeVars

-----------------------------------------------------------------------------
(***************************************************************************)
(* Properties.                                                             *)
(***************************************************************************)

Texts == Seq(Bytes)
MaybeOne(S) == {s \in Seq(S) : Len(s) <= 1}
NodeRecords ==
  [label : MaybeOne(Texts), tag : NodeTags \union ShapeTags, name : MaybeOne(Texts),
   count : MaybeOne(Nat)]

\* The state has the form the actions expect, and nothing is left of a number
\* or of a node once it is read.
DecodeTypeOK ==
  /\ input \in Seq(Bytes)
  /\ pos \in Nat /\ start \in Nat /\ limit \in Nat
  /\ phase \in Reading \union Failures \union {"idle", "accepted"}
  /\ value \in Nat
  /\ weight \in Nat \ {0}
  /\ phase \in Reading \ VarintPhases => value = 0 /\ weight = 1
  /\ node \in NodeRecords
  /\ phase = "next" => node = NoNode
  /\ nodes \in Seq(NodeRecords)
  /\ stack \in Seq([tag : NodeTags \union ShapeTags, left : Nat])
  /\ reserved \in Nat

\* However large the counts, lengths and depths the bytes claim, reading stays
\* within them: a node costs a byte of input and a list no more than the cap
\* until its elements are read, and recursion stops at the limit (lib.rs,
\* "Untrusted input").
WorkWithinInput ==
  /\ start <= pos /\ pos <= limit /\ limit <= Len(input)
  /\ Len(nodes) <= pos
  /\ reserved <= Reserve * Len(nodes)
  /\ Len(stack) <= MaxDepth

\* What is consumed at any point is what the writer would have written for the
\* nodes read so far, frame included: no two inputs read alike (varint.rs,
\* "decoding and re-encoding reproduces the input exactly").
ReadIsWritten ==
  phase \in {"next", "accepted"} =>
    SubSeq(input, 1, pos) =
      (IF start = 0 THEN << >> ELSE Header(limit - start)) \o ToBytes(nodes)

=============================================================================
