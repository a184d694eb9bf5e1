---------------------------- MODULE SchemaProofs ----------------------------
(***************************************************************************)
(* Proofs about SchemaDecode and Shipment, for any bytes, limits and       *)
(* magic.  The decoder never leaves its input, what it allocates and how   *)
(* deep it recurses are bounded by what it has read, and it reads only     *)
(* what the writer writes.  The bytes of a schema are no other's, and none *)
(* is the beginning of another's; so a schema that stands in the input is  *)
(* what is read there, whatever is read is one, one that is shipped intact *)
(* is read back, and the frame of one that is harmed on the way splits     *)
(* where it did, its schema or its data as written, unless a byte slipped  *)
(* from the one to the other.                                              *)
(***************************************************************************)
EXTENDS Shipment, FlattenProofs

NodeTag == NodeTags \union ShapeTags
Frames  == [tag : NodeTag, left : Nat]

\* Before the schema begins, no node is read.
Untouched ==
  phase \in {"idle", "magic", "frameVersion", "schemaLen", "version"} =>
    stack = << >> /\ nodes = << >>

\* Before the magic is checked, nothing is consumed.
AtStart ==
  phase \in {"idle", "magic"} => pos = 0 /\ limit = Len(input) /\ value = 0 /\ weight = 1

\* A node whose tag is read has its place on the stack, and its byte.
Underway ==
  phase \in {"nameLen", "count"} => Len(nodes) < pos /\ Len(stack) < MaxDepth

\* A child is read only where its parent waits for one.
Awaited ==
  phase \in {"labelLen", "tag", "nameLen", "count"} /\ stack # << >> =>
    stack[Len(stack)].left > 0

IInv ==
  /\ DecodeTypeOK
  /\ WorkWithinInput
  /\ Untouched
  /\ AtStart
  /\ Underway
  /\ Awaited

-----------------------------------------------------------------------------
(***************************************************************************)
(* Numbers, texts and nodes.                                               *)
(***************************************************************************)

\* A number read so far is one.
LEMMA DigitsType ==
  ASSUME IInv, HasByte
  PROVE  Byte \in Bytes /\ Digits \in Nat
  <1>1. input \in Seq(Bytes) /\ pos + 1 \in 1 .. Len(input)
    BY DEF IInv, DecodeTypeOK, WorkWithinInput, HasByte
  <1>2. Byte \in Bytes
    BY <1>1, ElementOfSeq DEF Byte
  <1>3. Byte % 128 \in Nat /\ value \in Nat /\ weight \in Nat
    BY <1>2 DEF IInv, DecodeTypeOK, Bytes
  <1>4. Digits \in Nat
    BY <1>3 DEF Digits
  <1> QED BY <1>2, <1>4

\* A text that fits the slice is made of its bytes.
LEMMA TextType ==
  ASSUME IInv, HasByte, HasText
  PROVE  Text \in Seq(Bytes) /\ pos + 1 + Digits \in Nat /\ pos + 1 + Digits <= limit
  <1>1. Digits \in Nat
    BY DigitsType
  <1>2. pos + 1 + Digits \in Nat /\ pos + 1 + Digits <= limit
    BY <1>1 DEF IInv, DecodeTypeOK, HasByte, HasText
  <1>3. /\ input \in Seq(Bytes) /\ pos + 2 \in Nat /\ pos + 2 >= 1
        /\ pos + 1 + Digits <= Len(input)
    BY <1>2 DEF IInv, DecodeTypeOK, WorkWithinInput
  <1>4. SubSeq(input, pos + 2, pos + 1 + Digits) \in Seq(Bytes)
    BY <1>2, <1>3
  <1> QED BY <1>2, <1>4 DEF Text

LEMMA OneIsMaybe == ASSUME NEW S, NEW x \in S PROVE <<x>> \in MaybeOne(S)
  BY DEF MaybeOne

LEMMA NoNodeType == NoNode \in NodeRecords
  BY DEF NoNode, Node, NodeRecords, MaybeOne, NodeTags

\* The last one is taken off a sequence.
LEMMA FrontType ==
  ASSUME NEW S, NEW s \in Seq(S), s # << >>
  PROVE  Front(s) \in Seq(S) /\ Len(Front(s)) = Len(s) - 1
  <1> DEFINE last == Len(s) - 1
  <1>1. Len(s) \in Nat \ {0} /\ last \in Nat
    BY EmptySeq
  <1>2. \A i \in 1 .. last : s[i] \in S
    BY <1>1, ElementOfSeq
  <1>3. Front(s) = SubSeq(s, 1, last)
    BY DEF Front
  <1> HIDE DEF last
  <1>4. SubSeq(s, 1, last) \in Seq(S) /\ Len(SubSeq(s, 1, last)) = IF 1 <= last THEN last - 1 + 1 ELSE 0
    BY <1>1, <1>2, SubSeqProperties
  <1>5. Len(SubSeq(s, 1, last)) = last
    BY <1>1, <1>4
  <1> QED BY <1>3, <1>4, <1>5 DEF last

\* Entering a node adds one to the nodes and one to the stack, its parent
\* waiting for one child less.
LEMMA EnterNode ==
  ASSUME IInv, NEW n \in NodeRecords, Children(n) \in Nat, Enter(n),
         phase \in {"tag", "nameLen", "count"}, Len(stack) < MaxDepth
  PROVE  /\ stack' \in Seq(Frames) /\ Len(stack') <= MaxDepth
         /\ nodes' \in Seq(NodeRecords) /\ Len(nodes') = Len(nodes) + 1
         /\ node' = NoNode /\ phase' = "next"
  <1> DEFINE above == IF stack = << >> THEN << >> ELSE [stack EXCEPT ![Len(stack)].left = @ - 1]
  <1>1. Waiting(n) \in Frames
    BY DEF Waiting, Frames, NodeTag, NodeRecords
  <1>2. stack \in Seq(Frames) /\ nodes \in Seq(NodeRecords) /\ MaxDepth \in Nat
    BY SchemaBytesAssumption DEF IInv, DecodeTypeOK, Frames, NodeTag
  <1>3. above \in Seq(Frames) /\ Len(above) = Len(stack)
    <2>1. CASE stack = << >>
      BY <2>1
    <2>2. CASE stack # << >>
      <3>1. Len(stack) \in 1 .. Len(stack)
        BY <1>2, <2>2, EmptySeq
      <3>2. stack[Len(stack)] \in Frames /\ stack[Len(stack)].left > 0
        BY <1>2, <2>2, <3>1, ElementOfSeq DEF IInv, Awaited
      <3> DEFINE top == [stack[Len(stack)] EXCEPT !.left = @ - 1]
      <3>3. top \in Frames
        BY <3>2 DEF Frames
      <3>4. above = [stack EXCEPT ![Len(stack)] = top]
        BY <2>2
      <3> HIDE DEF above, top
      <3> QED BY <1>2, <3>1, <3>3, <3>4, ExceptSeq
    <2> QED BY <2>1, <2>2
  <1>4. stack' = Append(above, Waiting(n))
    BY DEF Enter, Entered
  <1> HIDE DEF above
  <1>5. stack' \in Seq(Frames) /\ Len(stack') = Len(stack) + 1
    BY <1>1, <1>3, <1>4
  <1>6. nodes' \in Seq(NodeRecords) /\ Len(nodes') = Len(nodes) + 1
    BY <1>2 DEF Enter
  <1> QED BY <1>2, <1>5, <1>6 DEF Enter

-----------------------------------------------------------------------------
(***************************************************************************)
(* The invariant holds at first, and every action keeps it.                *)
(***************************************************************************)

LEMMA AtFirst == DecodeInit => IInv
  <1> SUFFICES ASSUME DecodeInit PROVE IInv
    OBVIOUS
  <1>1. DecodeTypeOK
    BY NoNodeType DEF DecodeInit, DecodeTypeOK, Reading, Failures, VarintPhases
  <1>2. WorkWithinInput
    BY SchemaBytesAssumption DEF DecodeInit, WorkWithinInput
  <1>3. Untouched /\ AtStart /\ Underway /\ Awaited
    BY DEF DecodeInit, Untouched, AtStart, Underway, Awaited
  <1> QED BY <1>1, <1>2, <1>3 DEF IInv

LEMMA OpenBytesKeeps == ASSUME IInv, OpenBytes PROVE IInv'
  <1> USE DEF OpenBytes
  <1>1. DecodeTypeOK'
    BY DEF IInv, DecodeTypeOK, Reading, Failures, VarintPhases, AtStart
  <1>2. WorkWithinInput'
    BY DEF IInv, DecodeTypeOK, WorkWithinInput, AtStart
  <1>3. Untouched' /\ AtStart' /\ Underway' /\ Awaited'
    BY DEF IInv, DecodeTypeOK, Untouched, AtStart, Underway, Awaited
  <1> QED BY <1>1, <1>2, <1>3 DEF IInv

\* Nothing moves when decoding ends.
LEMMA EndKeeps ==
  ASSUME IInv, NEW outcome \in Failures \union {"accepted"}, End(outcome)
  PROVE  IInv'
  <1> USE DEF End, Failures
  <1>1. DecodeTypeOK'
    BY DEF IInv, DecodeTypeOK, Reading, VarintPhases
  <1>2. WorkWithinInput'
    BY DEF IInv, WorkWithinInput
  <1>3. Untouched' /\ AtStart' /\ Underway' /\ Awaited'
    BY DEF Untouched, AtStart, Underway, Awaited
  <1> QED BY <1>1, <1>2, <1>3 DEF IInv

\* The actions that only refuse, and the one that accepts.
LEMMA StopsKeep ==
  ASSUME IInv, BadVarint \/ NoByte \/ NoMagic \/ BadText \/ BadTag \/ EndOfSchema
  PROVE  IInv'
  <1>1. \E outcome \in Failures \union {"accepted"} : End(outcome)
    BY DEF BadVarint, NoByte, NoMagic, BadText, BadTag, EndOfSchema, Failures
  <1> QED BY <1>1, EndKeeps

LEMMA TakeDigitKeeps == ASSUME IInv, TakeDigit PROVE IInv'
  <1> USE DEF TakeDigit, VarintPhases
  <1>1. Digits \in Nat /\ HasByte
    BY DigitsType
  <1>2. DecodeTypeOK'
    BY <1>1 DEF IInv, DecodeTypeOK, Reading, Failures
  <1>3. WorkWithinInput'
    BY <1>1 DEF IInv, DecodeTypeOK, WorkWithinInput, HasByte
  <1>4. Untouched' /\ AtStart' /\ Underway' /\ Awaited'
    BY <1>1 DEF IInv, DecodeTypeOK, Untouched, AtStart, Underway, Awaited
  <1> QED BY <1>2, <1>3, <1>4 DEF IInv

LEMMA TakeMagicKeeps == ASSUME IInv, TakeMagic PROVE IInv'
  <1> USE DEF TakeMagic
  <1>1. Len(Magic) \in Nat /\ Len(Magic) <= limit /\ start = 0
    BY SchemaBytesAssumption DEF IInv, DecodeTypeOK, WorkWithinInput, AtStart, IsPrefix
  <1>2. DecodeTypeOK'
    BY <1>1 DEF IInv, DecodeTypeOK, Reading, Failures, VarintPhases
  <1>3. WorkWithinInput'
    BY <1>1 DEF IInv, DecodeTypeOK, WorkWithinInput, Untouched
  <1>4. Untouched' /\ AtStart' /\ Underway' /\ Awaited'
    BY DEF IInv, Untouched, AtStart, Underway, Awaited
  <1> QED BY <1>2, <1>3, <1>4 DEF IInv

LEMMA ReadVersionsKeep ==
  ASSUME IInv, ReadFrameVersion \/ ReadSchemaVersion
  PROVE  IInv'
  <1> USE DEF ReadFrameVersion, ReadSchemaVersion, Number, NumberDone
  <1>1. Digits \in Nat /\ HasByte
    BY DigitsType
  <1>2. phase' \in {"malformed", "unsupported", "schemaLen", "tag"}
    BY DEF VersionRead
  <1>3. phase' = "tag" => phase = "version"
    BY DEF VersionRead
  <1>4. DecodeTypeOK'
    BY <1>2 DEF IInv, DecodeTypeOK, Reading, Failures, VarintPhases
  <1>5. WorkWithinInput'
    BY <1>1 DEF IInv, DecodeTypeOK, WorkWithinInput, HasByte
  <1>6. Untouched' /\ AtStart' /\ Underway' /\ Awaited'
    BY <1>2, <1>3 DEF IInv, Untouched, AtStart, Underway, Awaited
  <1> QED BY <1>4, <1>5, <1>6 DEF IInv

LEMMA ReadSchemaLenKeeps == ASSUME IInv, ReadSchemaLen PROVE IInv'
  <1> USE DEF ReadSchemaLen, Number, NumberDone
  <1>1. Digits \in Nat /\ HasByte
    BY DigitsType
  <1>2. DecodeTypeOK'
    BY <1>1 DEF IInv, DecodeTypeOK, Reading, Failures, VarintPhases
  <1>3. WorkWithinInput'
    BY <1>1 DEF IInv, DecodeTypeOK, WorkWithinInput, HasByte
  <1>4. Untouched' /\ AtStart' /\ Underway' /\ Awaited'
    BY DEF IInv, Untouched, AtStart, Underway, Awaited
  <1> QED BY <1>2, <1>3, <1>4 DEF IInv

LEMMA ReadLabelKeeps == ASSUME IInv, ReadLabel PROVE IInv'
  <1> USE DEF ReadLabel, Number, TakeText, NumberDone
  <1>1. /\ Text \in Seq(Bytes) /\ Digits \in Nat /\ HasByte
        /\ pos + 1 + Digits \in Nat /\ pos + 1 + Digits <= limit
    BY DigitsType, TextType
  <1>2. node' \in NodeRecords
    BY <1>1, OneIsMaybe DEF IInv, DecodeTypeOK, NodeRecords, Texts
  <1>3. DecodeTypeOK'
    BY <1>1, <1>2 DEF IInv, DecodeTypeOK, Reading, Failures, VarintPhases
  <1>4. WorkWithinInput'
    BY <1>1 DEF IInv, DecodeTypeOK, WorkWithinInput
  <1>5. Untouched' /\ AtStart' /\ Underway' /\ Awaited'
    BY DEF IInv, Untouched, AtStart, Underway, Awaited
  <1> QED BY <1>3, <1>4, <1>5 DEF IInv

\* A node that is entered keeps the invariant, given its byte is consumed and
\* what its count alone allocates is bounded.
LEMMA EnterKeeps ==
  ASSUME IInv, NEW n \in NodeRecords, Children(n) \in Nat, Enter(n),
         phase \in {"tag", "nameLen", "count"}, Len(stack) < MaxDepth,
         pos' \in Nat, pos < pos', pos' <= limit,
         Len(nodes) < pos',
         UNCHANGED <<input, start, limit>>, value' = 0, weight' = 1,
         reserved' \in Nat, reserved' <= reserved + Reserve
  PROVE  IInv'
  <1>1. /\ stack' \in Seq(Frames) /\ Len(stack') <= MaxDepth
        /\ nodes' \in Seq(NodeRecords) /\ Len(nodes') = Len(nodes) + 1
        /\ node' = NoNode /\ phase' = "next"
    BY EnterNode
  <1>2. DecodeTypeOK'
    BY <1>1, NoNodeType DEF IInv, DecodeTypeOK, Frames, NodeTag, Reading, VarintPhases
  <1>3. Reserve * Len(nodes') = Reserve * Len(nodes) + Reserve
    BY <1>1, SchemaBytesAssumption DEF IInv, DecodeTypeOK
  <1>4. WorkWithinInput'
    BY <1>1, <1>3, SchemaBytesAssumption DEF IInv, DecodeTypeOK, WorkWithinInput
  <1>5. Untouched' /\ AtStart' /\ Underway' /\ Awaited'
    BY <1>1 DEF Untouched, AtStart, Underway, Awaited
  <1> QED BY <1>2, <1>4, <1>5 DEF IInv

LEMMA ReadTagKeeps == ASSUME IInv, ReadTag PROVE IInv'
  <1> DEFINE n == [node EXCEPT !.tag = Tag]
  <1> USE DEF ReadTag
  <1>1. n \in NodeRecords /\ n.tag = Tag /\ Tag \in NodeTag
    BY DEF KnownTag, NodeTag, IInv, DecodeTypeOK, NodeRecords
  <1>2. /\ HasByte /\ Len(stack) < MaxDepth /\ pos' = pos + 1 /\ phase = "tag"
        /\ pos' \in Nat /\ pos < pos' /\ pos' <= limit /\ Len(nodes) < pos'
        /\ UNCHANGED <<input, start, limit, value, weight, reserved>>
    BY SchemaBytesAssumption DEF TooDeep, HasByte, IInv, DecodeTypeOK, WorkWithinInput
  <1>3. value = 0 /\ weight = 1 /\ value' = 0 /\ weight' = 1
    BY <1>2 DEF IInv, DecodeTypeOK, Reading, VarintPhases
  <1>4. CASE Tag \in Named \union Counted
    <2>1. node' = n /\ phase' \in {"nameLen", "count"} /\ UNCHANGED <<stack, nodes>>
      BY <1>4
    <2> HIDE DEF n
    <2>2. DecodeTypeOK'
      BY <1>1, <1>2, <1>3, <2>1 DEF IInv, DecodeTypeOK, Reading, Failures, VarintPhases
    <2>3. WorkWithinInput'
      BY <1>2, <2>1 DEF IInv, DecodeTypeOK, WorkWithinInput
    <2>4. Untouched' /\ AtStart' /\ Underway' /\ Awaited'
      BY <1>2, <2>1 DEF IInv, Untouched, AtStart, Underway, Awaited
    <2> QED BY <2>2, <2>3, <2>4 DEF IInv
  <1>5. CASE Tag \notin Named \union Counted
    <2>1. Enter(n)
      BY <1>5
    <2>2. Children(n) \in Nat
      BY <1>1, <1>5 DEF Children, Arity
    <2>3. reserved' \in Nat /\ reserved' <= reserved + Reserve
      BY <1>2, SchemaBytesAssumption DEF IInv, DecodeTypeOK
    <2> HIDE DEF n, ReadTag
    <2> QED BY <1>1, <1>2, <1>3, <2>1, <2>2, <2>3, EnterKeeps
  <1> QED BY <1>4, <1>5

LEMMA ReadNameKeeps == ASSUME IInv, ReadName PROVE IInv'
  <1> DEFINE n == [node EXCEPT !.name = <<Text>>]
  <1> USE DEF ReadName, Number, TakeText, NumberDone
  <1>1. /\ Text \in Seq(Bytes) /\ Digits \in Nat /\ HasByte /\ phase = "nameLen"
        /\ pos' = pos + 1 + Digits /\ pos' \in Nat /\ pos < pos' /\ pos' <= limit
        /\ Len(nodes) < pos' /\ Len(stack) < MaxDepth
        /\ value' = 0 /\ weight' = 1 /\ UNCHANGED <<input, start, limit, reserved>>
    BY DigitsType, TextType DEF IInv, DecodeTypeOK, Underway
  <1>2. n \in NodeRecords /\ n.tag = node.tag
    BY <1>1, OneIsMaybe DEF IInv, DecodeTypeOK, NodeRecords, Texts
  <1>3. CASE n.tag \in Counted
    <2>1. node' = n /\ phase' = "count" /\ UNCHANGED <<stack, nodes>>
      BY <1>3
    <2> HIDE DEF n, ReadName, Number, TakeText, NumberDone
    <2>2. DecodeTypeOK'
      BY <1>1, <1>2, <2>1 DEF IInv, DecodeTypeOK, Reading, Failures, VarintPhases
    <2>3. WorkWithinInput'
      BY <1>1, <2>1 DEF IInv, DecodeTypeOK, WorkWithinInput
    <2>4. Untouched' /\ AtStart' /\ Underway' /\ Awaited'
      BY <1>1, <2>1 DEF IInv, Untouched, AtStart, Underway, Awaited
    <2> QED BY <2>2, <2>3, <2>4 DEF IInv
  <1>4. CASE n.tag \notin Counted
    <2>1. Enter(n)
      BY <1>4
    <2>2. Children(n) \in Nat
      BY <1>4 DEF Children, Arity
    <2> HIDE DEF n, ReadName, Number, TakeText, NumberDone
    <2>3. reserved' \in Nat /\ reserved' <= reserved + Reserve
      BY <1>1, SchemaBytesAssumption DEF IInv, DecodeTypeOK
    <2> QED BY <1>1, <1>2, <2>1, <2>2, <2>3, EnterKeeps
  <1> QED BY <1>3, <1>4

LEMMA ReadCountKeeps == ASSUME IInv, ReadCount PROVE IInv'
  <1> DEFINE n == [node EXCEPT !.count = <<Digits>>]
  <1> USE DEF ReadCount, Number, NumberDone
  <1>1. /\ Digits \in Nat /\ HasByte /\ phase = "count" /\ pos' = pos + 1
        /\ pos' \in Nat /\ pos < pos' /\ pos' <= limit
        /\ Len(nodes) < pos' /\ Len(stack) < MaxDepth
        /\ value' = 0 /\ weight' = 1 /\ UNCHANGED <<input, start, limit>>
    BY DigitsType DEF IInv, DecodeTypeOK, HasByte, Underway
  <1>2. n \in NodeRecords /\ n.count[1] = Digits
    BY <1>1, OneIsMaybe DEF IInv, DecodeTypeOK, NodeRecords
  <1>3. Children(n) \in Nat
    BY <1>1, <1>2 DEF Children, Arity
  <1>4. Allocated(Digits) \in Nat /\ Allocated(Digits) <= Reserve
    BY <1>1, SchemaBytesAssumption DEF Allocated
  <1>5. reserved' \in Nat /\ reserved' <= reserved + Reserve
    <2> DEFINE more == Allocated(Digits)
    <2>1. reserved' = reserved + more /\ more \in Nat /\ more <= Reserve
      BY <1>4
    <2>2. reserved \in Nat /\ Reserve \in Nat
      BY SchemaBytesAssumption DEF IInv, DecodeTypeOK
    <2> HIDE DEF more, ReadCount
    <2> QED BY <2>1, <2>2
  <1>6. Enter(n)
    OBVIOUS
  <1> HIDE DEF n
  <1> QED BY <1>1, <1>2, <1>3, <1>5, <1>6, EnterKeeps

LEMMA DescendKeeps == ASSUME IInv, Descend PROVE IInv'
  <1> USE DEF Descend
  <1>1. phase' \in {"labelLen", "tag"}
    OBVIOUS
  <1>2. DecodeTypeOK'
    BY <1>1 DEF IInv, DecodeTypeOK, Reading, Failures, VarintPhases
  <1>3. WorkWithinInput'
    BY DEF IInv, WorkWithinInput
  <1>4. Untouched' /\ AtStart' /\ Underway' /\ Awaited'
    BY <1>1 DEF Untouched, AtStart, Underway, Awaited
  <1> QED BY <1>2, <1>3, <1>4 DEF IInv

LEMMA ReturnKeeps == ASSUME IInv, Return PROVE IInv'
  <1> USE DEF Return
  <1>1. stack \in Seq(Frames) /\ Len(stack) \in Nat \ {0}
    BY EmptySeq DEF IInv, DecodeTypeOK, Frames, NodeTag
  <1>2. stack' \in Seq(Frames) /\ Len(stack') = Len(stack) - 1
    BY <1>1, FrontType
  <1>3. DecodeTypeOK'
    BY <1>2 DEF IInv, DecodeTypeOK, Frames, NodeTag
  <1>4. WorkWithinInput'
    BY <1>1, <1>2, SchemaBytesAssumption DEF IInv, WorkWithinInput
  <1>5. Untouched' /\ AtStart' /\ Underway' /\ Awaited'
    BY DEF Untouched, AtStart, Underway, Awaited
  <1> QED BY <1>3, <1>4, <1>5 DEF IInv

LEMMA StutterKeeps == ASSUME IInv, UNCHANGED decodeVars PROVE IInv'
  BY DEF decodeVars, IInv, DecodeTypeOK, WorkWithinInput, Untouched, AtStart, Underway, Awaited,
         HasByte

-----------------------------------------------------------------------------

\* Every state of the decoder satisfies the inductive invariant.
LEMMA Invariant == DecodeSpec => []IInv
  <1>1. DecodeInit => IInv
    BY AtFirst
  <1>2. IInv /\ [DecodeNext]_decodeVars => IInv'
    <2> SUFFICES ASSUME IInv, [DecodeNext]_decodeVars PROVE IInv'
      OBVIOUS
    <2>1. CASE OpenBytes
      BY <2>1, OpenBytesKeeps
    <2>2. CASE BadVarint \/ NoByte \/ NoMagic \/ BadText \/ BadTag \/ EndOfSchema
      BY <2>2, StopsKeep
    <2>3. CASE TakeDigit
      BY <2>3, TakeDigitKeeps
    <2>4. CASE TakeMagic
      BY <2>4, TakeMagicKeeps
    <2>5. CASE ReadFrameVersion \/ ReadSchemaVersion
      BY <2>5, ReadVersionsKeep
    <2>6. CASE ReadSchemaLen
      BY <2>6, ReadSchemaLenKeeps
    <2>7. CASE ReadLabel
      BY <2>7, ReadLabelKeeps
    <2>8. CASE ReadTag
      BY <2>8, ReadTagKeeps
    <2>9. CASE ReadName
      BY <2>9, ReadNameKeeps
    <2>10. CASE ReadCount
      BY <2>10, ReadCountKeeps
    <2>11. CASE Descend
      BY <2>11, DescendKeeps
    <2>12. CASE Return
      BY <2>12, ReturnKeeps
    <2>13. CASE UNCHANGED decodeVars
      BY <2>13, StutterKeeps
    <2> QED BY <2>1, <2>2, <2>3, <2>4, <2>5, <2>6, <2>7, <2>8, <2>9, <2>10, <2>11, <2>12, <2>13
            DEF DecodeNext, Decode
  <1> QED BY <1>1, <1>2, PTL DEF DecodeSpec

\* The decoder's state always has the form its actions expect, whatever bytes
\* it is given (schema.rs, from_bytes).
THEOREM TypeCorrect == DecodeSpec => []DecodeTypeOK
  <1>1. IInv => DecodeTypeOK
    BY DEF IInv
  <1> QED BY <1>1, Invariant, PTL

\* Whatever bytes it is given, the decoder stays within them, allocates for
\* each node it has read no more than the cap, and recurses no deeper than the
\* limit (lib.rs, "Untrusted input").
THEOREM Bounded == DecodeSpec => []WorkWithinInput
  <1>1. IInv => WorkWithinInput
    BY DEF IInv
  <1> QED BY <1>1, Invariant, PTL

-----------------------------------------------------------------------------
(***************************************************************************)
(* Varints: VarintOf is what its definition says, and reading digits       *)
(* undoes it.                                                              *)
(***************************************************************************)

\* The bytes of v, given those of v \div 128.
Spelled(v, rest) == IF v < 128 THEN <<v>> ELSE <<128 + (v % 128)>> \o rest

\* A function that spells the numbers up to m.
Spells(f, m) ==
  /\ f = [v \in 0 .. m |-> f[v]]
  /\ \A v \in 0 .. m : f[v] = Spelled(v, f[v \div 128])

\* Fewer digits make a smaller number.
LEMMA Quotient ==
  ASSUME NEW v \in Nat, v # 0
  PROVE  v \div 128 \in Nat /\ v \div 128 < v
  OBVIOUS

\* Nothing comes before the bytes of zero.
LEMMA SpelledZero == \A r, s : Spelled(0, r) = Spelled(0, s)
  BY DEF Spelled

\* Such functions exist, and agree where they meet.
LEMMA SpellsExists == \A m \in Nat : \E f : Spells(f, m)
  <1> DEFINE T == {m \in Nat : ~ \E f : Spells(f, m)}
  <1> SUFFICES ASSUME T # {} PROVE FALSE
    OBVIOUS
  <1>1. T \in SUBSET Nat
    OBVIOUS
  <1>2. PICK m \in T : \A k \in T : m <= k
    BY <1>1, LeastNatural
  <1>3. CASE m = 0
    <2> DEFINE f == [v \in 0 .. 0 |-> Spelled(0, << >>)]
    <2>1. f[0] = Spelled(0, f[0 \div 128])
      BY SpelledZero
    <2>2. f = [v \in 0 .. 0 |-> f[v]]
      OBVIOUS
    <2> HIDE DEF f
    <2>3. Spells(f, 0)
      BY <2>1, <2>2 DEF Spells
    <2> QED BY <1>2, <1>3, <2>3
  <1>4. CASE m # 0
    <2>1. m \in Nat /\ m - 1 \in Nat /\ ~ (m <= m - 1)
      BY <1>2, <1>4
    <2>2. PICK f : Spells(f, m - 1)
      BY <1>2, <2>1
    <2> DEFINE g == [v \in 0 .. m |-> IF v = m THEN Spelled(m, f[m \div 128]) ELSE f[v]]
    <2>3. ASSUME NEW v \in 0 .. m
          PROVE  g[v] = Spelled(v, g[v \div 128])
      <3>1. CASE v = 0
        <4>1. v # m /\ 0 \in 0 .. m - 1
          BY <1>4, <2>1, <3>1
        <4>2. g[v] = f[0] /\ f[0] = Spelled(0, f[0 \div 128])
          BY <2>2, <3>1, <4>1 DEF Spells
        <4> QED BY <3>1, <4>2, SpelledZero
      <3>2. CASE v # 0
        <4> DEFINE u == v \div 128
        <4>1. u \in 0 .. m /\ u # m
          BY <2>1, <3>2, Quotient
        <4> HIDE DEF u
        <4>2. g[u] = f[u]
          BY <4>1
        <4>3. CASE v = m
          BY <4>2, <4>3 DEF u
        <4>4. CASE v # m
          <5>1. v \in 0 .. m - 1
            BY <2>1, <4>4
          <5>2. f[v] = Spelled(v, f[u])
            BY <2>2, <5>1 DEF Spells, u
          <5> QED BY <4>2, <4>4, <5>2 DEF u
        <4> QED BY <4>3, <4>4
      <3> QED BY <3>1, <3>2
    <2>4. g = [v \in 0 .. m |-> g[v]]
      OBVIOUS
    <2> HIDE DEF g
    <2>5. Spells(g, m)
      BY <2>3, <2>4 DEF Spells
    <2> QED BY <1>2, <2>5
  <1> QED BY <1>3, <1>4

LEMMA SpellsAgree ==
  ASSUME NEW m \in Nat, NEW n \in Nat, NEW f, NEW g, Spells(f, m), Spells(g, n),
         NEW v \in Nat, v <= m, v <= n
  PROVE  f[v] = g[v]
  <1> DEFINE T == {u \in 0 .. v : f[u] # g[u]}
  <1> SUFFICES ASSUME T # {} PROVE FALSE
    OBVIOUS
  <1>1. T \in SUBSET Nat
    OBVIOUS
  <1>2. PICK u \in T : \A k \in T : u <= k
    BY <1>1, LeastNatural
  <1>3. u \in 0 .. m /\ u \in 0 .. n /\ u \in Nat /\ u <= v /\ f[u] # g[u]
    BY <1>2
  <1>4. f[u] = Spelled(u, f[u \div 128]) /\ g[u] = Spelled(u, g[u \div 128])
    BY <1>3 DEF Spells
  <1>5. u # 0
    BY <1>3, <1>4, SpelledZero
  <1>6. u \div 128 \in 0 .. v /\ ~ (u <= u \div 128)
    BY <1>3, <1>5, Quotient
  <1>7. f[u \div 128] = g[u \div 128]
    BY <1>2, <1>6
  <1> QED BY <1>3, <1>4, <1>7

\* VarintOf is what its definition says.
LEMMA VarintIs == \A v \in Nat : VarintOf[v] = Spelled(v, VarintOf[v \div 128])
  <1> DEFINE step(f) == [v \in Nat |-> Spelled(v, f[v \div 128])]
             upTo(v) == CHOOSE f : Spells(f, v)
             all == [v \in Nat |-> upTo(v)[v]]
  <1>1. \A v \in Nat : Spells(upTo(v), v)
    BY SpellsExists
  <1> HIDE DEF upTo
  <1>2. ASSUME NEW v \in Nat
        PROVE  all[v] = Spelled(v, all[v \div 128])
    <2>1. Spells(upTo(v), v) /\ v \in 0 .. v
      BY <1>1
    <2>2. all[v] = Spelled(v, upTo(v)[v \div 128])
      BY <2>1 DEF Spells
    <2>3. CASE v = 0
      BY <2>2, <2>3, SpelledZero
    <2>4. CASE v # 0
      <3> DEFINE u == v \div 128
      <3>1. u \in Nat /\ u <= u /\ u <= v
        BY <2>4, Quotient
      <3> HIDE DEF u
      <3>2. Spells(upTo(u), u) /\ all[u] = upTo(u)[u]
        BY <1>1, <3>1
      <3>3. upTo(v)[u] = upTo(u)[u]
        <4>1. \A f, g : Spells(f, v) /\ Spells(g, u) => f[u] = g[u]
          BY <3>1, SpellsAgree
        <4> QED BY <2>1, <3>2, <4>1
      <3> HIDE DEF all
      <3> QED BY <2>2, <3>2, <3>3 DEF u
    <2> QED BY <2>3, <2>4
  <1>3. all = step(all)
    BY <1>2
  <1>4. VarintOf = CHOOSE f : f = step(f)
    BY DEF VarintOf, Spelled
  <1> HIDE DEF all
  <1>5. VarintOf = step(VarintOf)
    BY <1>3, <1>4
  <1>6. ASSUME NEW v \in Nat
        PROVE  VarintOf[v] = Spelled(v, VarintOf[v \div 128])
    BY <1>5
  <1> QED BY <1>6

\* A number below 128 is its own byte; before any other stands its last digit,
\* marked.
LEMMA VarintDigit ==
  /\ \A b \in 0 .. 127 : VarintOf[b] = <<b>>
  /\ \A b \in 0 .. 127, w \in Nat \ {0} : VarintOf[b + 128 * w] = <<128 + b>> \o VarintOf[w]
  <1>1. ASSUME NEW b \in 0 .. 127 PROVE VarintOf[b] = <<b>>
    <2>1. VarintOf[b] = Spelled(b, VarintOf[b \div 128]) /\ b < 128
      BY VarintIs
    <2> QED BY <2>1 DEF Spelled
  <1>2. ASSUME NEW b \in 0 .. 127, NEW w \in Nat \ {0}
        PROVE  VarintOf[b + 128 * w] = <<128 + b>> \o VarintOf[w]
    <2> DEFINE v == b + 128 * w
    <2>1. v \in Nat /\ ~ (v < 128) /\ v \div 128 = w /\ v % 128 = b
      OBVIOUS
    <2> HIDE DEF v
    <2>2. VarintOf[v] = Spelled(v, VarintOf[w])
      BY <2>1, VarintIs
    <2>3. VarintOf[v] = <<128 + b>> \o VarintOf[w]
      BY <2>1, <2>2 DEF Spelled
    <2> QED BY <2>3 DEF v
  <1> QED BY <1>1, <1>2

\* The bytes of a number.
LEMMA VarintType == \A v \in Nat : VarintOf[v] \in Seq(Bytes)
  <1> DEFINE T == {v \in Nat : VarintOf[v] \notin Seq(Bytes)}
  <1> SUFFICES ASSUME T # {} PROVE FALSE
    OBVIOUS
  <1>1. T \in SUBSET Nat
    OBVIOUS
  <1>2. PICK v \in T : \A k \in T : v <= k
    BY <1>1, LeastNatural
  <1>3. v \in Nat /\ VarintOf[v] \notin Seq(Bytes)
    BY <1>2
  <1>4. CASE v < 128
    <2>0. v \in 0 .. 127
      BY <1>3, <1>4
    <2>1. VarintOf[v] = <<v>>
      BY <2>0, VarintDigit
    <2>2. <<v>> \in Seq(Bytes)
      BY <2>0, OneIsSeq DEF Bytes
    <2> QED BY <1>3, <2>1, <2>2
  <1>5. CASE ~ (v < 128)
    <2> DEFINE w == v \div 128
               b == v % 128
    <2>1. w \in Nat \ {0} /\ b \in 0 .. 127 /\ v = b + 128 * w /\ ~ (v <= w)
      BY <1>3, <1>5
    <2> HIDE DEF w, b
    <2>2. VarintOf[v] = <<128 + b>> \o VarintOf[w]
      BY <2>1, VarintDigit
    <2>3. VarintOf[w] \in Seq(Bytes)
      BY <1>2, <2>1
    <2>4. <<128 + b>> \in Seq(Bytes)
      <3>1. 128 + b \in Bytes
        BY <2>1 DEF Bytes
      <3> QED BY <3>1, OneIsSeq
    <2>5. <<128 + b>> \o VarintOf[w] \in Seq(Bytes)
      BY <2>3, <2>4, ConcatProperties, Zenon
    <2> QED BY <1>3, <2>2, <2>5
  <1> QED BY <1>4, <1>5

\* After `done`, the rest of a number continues as the whole number does after
\* `ahead`, v being its value so far and k the weight of its next digit.
Carried(done, ahead, v, k) ==
  \A w \in Nat : w > 0 \/ k = 1 => done \o VarintOf[w] = ahead \o VarintOf[v + k * w]

LEMMA CarriedStart == ASSUME NEW s PROVE Carried(s, s, 0, 1)
  <1>1. ASSUME NEW w \in Nat PROVE 0 + 1 * w = w
    OBVIOUS
  <1> QED BY <1>1 DEF Carried

LEMMA DigitBetween ==
  ASSUME NEW before \in Seq(Bytes), NEW d \in 0 .. 127, NEW w \in Nat
  PROVE  (before \o <<128 + d>>) \o VarintOf[w] = before \o (<<128 + d>> \o VarintOf[w])
  <1> DEFINE digit == <<128 + d>>
             rest == VarintOf[w]
  <1>1. digit \in Seq(Bytes) /\ rest \in Seq(Bytes)
    <2>1. 128 + d \in Bytes
      BY DEF Bytes
    <2> QED BY <2>1, OneIsSeq, VarintType
  <1> HIDE DEF digit, rest
  <1>2. (before \o digit) \o rest = before \o (digit \o rest)
    BY <1>1, ConcatAssociative
  <1> QED BY <1>2 DEF digit, rest

LEMMA CarriedDigit ==
  ASSUME NEW s \in Seq(Bytes), NEW a, NEW v \in Nat, NEW k \in Nat \ {0}, NEW d \in 0 .. 127,
         Carried(s, a, v, k)
  PROVE  Carried(s \o <<128 + d>>, a, v + d * k, k * 128)
  <1> SUFFICES ASSUME NEW w \in Nat, w > 0 \/ k * 128 = 1
               PROVE  (s \o <<128 + d>>) \o VarintOf[w] = a \o VarintOf[(v + d * k) + (k * 128) * w]
    BY DEF Carried
  <1>1. k * 128 # 1
    OBVIOUS
  <1>2. w > 0 /\ w \in Nat \ {0}
    BY <1>1
  <1> DEFINE u == d + 128 * w
  <1>3. u \in Nat /\ u > 0
    BY <1>2
  <1>4. (v + d * k) + (k * 128) * w = v + k * u
    <2>1. k * u = k * d + k * (128 * w)
      OBVIOUS
    <2>2. k * (128 * w) = (k * 128) * w /\ k * d = d * k
      OBVIOUS
    <2>3. v + k * d + k * (128 * w) = v + (k * d + k * (128 * w))
      OBVIOUS
    <2> HIDE DEF u
    <2> QED BY <2>1, <2>2, <2>3
  <1>5. VarintOf[u] = <<128 + d>> \o VarintOf[w]
    BY <1>2, VarintDigit
  <1> HIDE DEF u
  <1>6. s \o VarintOf[u] = a \o VarintOf[v + k * u]
    BY <1>3 DEF Carried
  <1>7. (s \o <<128 + d>>) \o VarintOf[w] = s \o (<<128 + d>> \o VarintOf[w])
    BY DigitBetween
  <1> QED BY <1>4, <1>5, <1>6, <1>7

\* The last digit ends the number.
Ended(done, ahead, v, k, b) == done \o <<b>> = ahead \o VarintOf[v + b * k]

LEMMA CarriedEnd ==
  ASSUME NEW s, NEW a, NEW v \in Nat, NEW k \in Nat \ {0}, NEW b \in 0 .. 127,
         b # 0 \/ k = 1, Carried(s, a, v, k)
  PROVE  Ended(s, a, v, k, b)
  <1>1. b \in Nat /\ (b > 0 \/ k = 1) /\ k * b = b * k
    OBVIOUS
  <1>2. s \o VarintOf[b] = a \o VarintOf[v + k * b]
    BY <1>1 DEF Carried
  <1>3. VarintOf[b] = <<b>>
    BY VarintDigit
  <1> QED BY <1>1, <1>2, <1>3 DEF Ended

-----------------------------------------------------------------------------
(***************************************************************************)
(* What the writer makes of the nodes read.                                *)
(***************************************************************************)

LEMMA TextBytes == ASSUME NEW text \in Texts PROVE TextOf(text) \in Seq(Bytes)
  <1>1. text \in Seq(Bytes) /\ Len(text) \in Nat
    BY LenProperties DEF Texts
  <1>2. VarintOf[Len(text)] \in Seq(Bytes)
    BY <1>1, VarintType
  <1> QED BY <1>1, <1>2, ConcatProperties DEF TextOf

LEMMA MaybeFirst ==
  ASSUME NEW S, NEW s \in MaybeOne(S), s # << >>
  PROVE  s[1] \in S /\ s = <<s[1]>>
  <1>1. s \in Seq(S) /\ Len(s) = 1
    <2>1. s \in Seq(S) /\ Len(s) <= 1
      BY DEF MaybeOne
    <2>2. Len(s) \in Nat \ {0}
      BY <2>1, EmptySeq
    <2> DEFINE n == Len(s)
    <2>3. n <= 1 /\ n \in Nat /\ n # 0
      BY <2>1, <2>2
    <2> HIDE DEF n
    <2>4. n = 1
      BY <2>3
    <2> QED BY <2>1, <2>4 DEF n
  <1>2. s[1] \in S
    BY <1>1, ElementOfSeq
  <1>3. <<s[1]>> \in Seq(S) /\ Len(<<s[1]>>) = 1 /\ <<s[1]>>[1] = s[1]
    BY <1>2
  <1>4. s = <<s[1]>>
    BY <1>1, <1>3, SeqEqual
  <1> QED BY <1>2, <1>4

\* The bytes of a node and of its parts.
LEMMA NodeBytes ==
  ASSUME NEW n \in NodeRecords
  PROVE  /\ LabelBytes(n) \in Seq(Bytes) /\ <<n.tag % 32>> \in Seq(Bytes)
         /\ NameBytes(n) \in Seq(Bytes) /\ CountBytes(n) \in Seq(Bytes)
         /\ BytesOf(n) \in Seq(Bytes)
  <1>1. /\ n.label \in MaybeOne(Texts) /\ n.name \in MaybeOne(Texts) /\ n.count \in MaybeOne(Nat)
        /\ n.tag \in NodeTags \union ShapeTags
    BY DEF NodeRecords
  <1>2. << >> \in Seq(Bytes)
    OBVIOUS
  <1>3. LabelBytes(n) \in Seq(Bytes)
    <2>1. CASE n.label = << >>
      BY <1>2, <2>1 DEF LabelBytes
    <2>2. CASE n.label # << >>
      <3>1. TextOf(n.label[1]) \in Seq(Bytes)
        BY <1>1, <2>2, MaybeFirst, TextBytes
      <3> QED BY <2>2, <3>1 DEF LabelBytes
    <2> QED BY <2>1, <2>2
  <1>4. NameBytes(n) \in Seq(Bytes)
    <2>1. CASE n.name = << >>
      BY <1>2, <2>1 DEF NameBytes
    <2>2. CASE n.name # << >>
      <3>1. TextOf(n.name[1]) \in Seq(Bytes)
        BY <1>1, <2>2, MaybeFirst, TextBytes
      <3> QED BY <2>2, <3>1 DEF NameBytes
    <2> QED BY <2>1, <2>2
  <1>5. CountBytes(n) \in Seq(Bytes)
    <2>1. CASE n.count = << >>
      BY <1>2, <2>1 DEF CountBytes
    <2>2. CASE n.count # << >>
      <3>1. VarintOf[n.count[1]] \in Seq(Bytes)
        BY <1>1, <2>2, MaybeFirst, VarintType
      <3> QED BY <2>2, <3>1 DEF CountBytes
    <2> QED BY <2>1, <2>2
  <1>6. <<n.tag % 32>> \in Seq(Bytes)
    <2>1. n.tag % 32 \in Bytes
      BY <1>1 DEF NodeTags, ShapeTags, Shape, Bytes
    <2> QED BY <2>1, OneIsSeq
  <1>7. LabelBytes(n) \o <<n.tag % 32>> \in Seq(Bytes)
    BY <1>3, <1>6, ConcatProperties, Zenon
  <1>8. LabelBytes(n) \o <<n.tag % 32>> \o NameBytes(n) \in Seq(Bytes)
    BY <1>4, <1>7, ConcatProperties, Zenon
  <1>9. BytesOf(n) \in Seq(Bytes)
    BY <1>5, <1>8, ConcatProperties, Zenon DEF BytesOf
  <1> QED BY <1>3, <1>4, <1>5, <1>6, <1>9

\* A node more adds its bytes.
LEMMA ToBytesAppend ==
  ASSUME NEW ns \in Seq(NodeRecords), NEW n \in NodeRecords
  PROVE  /\ ToBytes(ns) \in Seq(Bytes)
         /\ ToBytes(Append(ns, n)) = ToBytes(ns) \o BytesOf(n)
  <1> DEFINE each(s) == [i \in DOMAIN s |-> BytesOf(s[i])]
             more == Append(ns, n)
  <1>1. /\ Len(ns) \in Nat /\ DOMAIN ns = 1 .. Len(ns)
        /\ \A i \in 1 .. Len(ns) : ns[i] \in NodeRecords
    BY LenProperties, ElementOfSeq
  <1>2. /\ more \in Seq(NodeRecords) /\ Len(more) = Len(ns) + 1 /\ DOMAIN more = 1 .. Len(ns) + 1
        /\ \A i \in 1 .. Len(ns) : more[i] = ns[i]
        /\ more[Len(ns) + 1] = n
    BY AppendProperties, LenProperties
  <1>3. \A i \in 1 .. Len(ns) : BytesOf(ns[i]) \in Seq(Bytes)
    BY <1>1, NodeBytes
  <1>4. BytesOf(n) \in Seq(Bytes)
    BY NodeBytes
  <1> HIDE DEF more
  <1>5. each(ns) \in Seq(Seq(Bytes)) /\ Len(each(ns)) = Len(ns)
    <2>1. each(ns) = [i \in 1 .. Len(ns) |-> BytesOf(ns[i])]
      BY <1>1
    <2>2. each(ns) \in [1 .. Len(ns) -> Seq(Bytes)]
      BY <1>3, <2>1
    <2> HIDE DEF each
    <2> QED BY <1>1, <2>2
  <1>6. each(more) = Append(each(ns), BytesOf(n))
    <2> DEFINE k == Len(ns)
    <2>1. /\ each(more) = [i \in 1 .. k + 1 |-> BytesOf(more[i])]
          /\ \A i \in 1 .. k : each(ns)[i] = BytesOf(ns[i])
      BY <1>1, <1>2
    <2>2. \A i \in 1 .. k + 1 : BytesOf(more[i]) \in Seq(Bytes)
      BY <1>1, <1>2, <1>3, <1>4
    <2>3. each(more) \in [1 .. k + 1 -> Seq(Bytes)]
      BY <2>1, <2>2
    <2> HIDE DEF each
    <2> DEFINE s == each(more)
               t == Append(each(ns), BytesOf(n))
    <2>4. s \in Seq(Seq(Bytes)) /\ Len(s) = k + 1
      BY <1>1, <2>3
    <2>5. /\ t \in Seq(Seq(Bytes)) /\ Len(t) = k + 1
          /\ \A i \in 1 .. k : t[i] = each(ns)[i]
          /\ t[k + 1] = BytesOf(n)
      <3> DEFINE ss == each(ns)
                 x == BytesOf(n)
      <3>1. ss \in Seq(Seq(Bytes)) /\ x \in Seq(Bytes) /\ Len(ss) = k /\ k \in Nat
        BY <1>1, <1>4, <1>5
      <3> HIDE DEF ss, x, k, t
      <3>2. /\ Append(ss, x) \in Seq(Seq(Bytes)) /\ Len(Append(ss, x)) = k + 1
            /\ \A i \in 1 .. k : Append(ss, x)[i] = ss[i]
            /\ Append(ss, x)[k + 1] = x
        BY <3>1, AppendProperties
      <3> QED BY <3>2 DEF ss, x, t
    <2>6. ASSUME NEW i \in 1 .. k + 1 PROVE s[i] = t[i]
      <3> HIDE DEF t
      <3>1. CASE i = k + 1
        BY <1>2, <2>1, <2>5, <3>1
      <3>2. CASE i # k + 1
        <4>1. i \in 1 .. k
          BY <1>1, <3>2
        <4> QED BY <1>2, <2>1, <2>5, <4>1
      <3> QED BY <3>1, <3>2
    <2> HIDE DEF s, t, k
    <2>7. s = t
      BY <2>4, <2>5, <2>6, SeqEqual
    <2> QED BY <2>7 DEF s, t
  <1> DEFINE lead == VarintOf[SchemaVersion]
             flat == FlattenSeq(each(ns))
  <1>7. /\ flat \in Seq(Bytes) /\ FlattenSeq(each(more)) = flat \o BytesOf(n)
    <2> HIDE DEF each
    <2> QED BY <1>4, <1>5, <1>6, FlattenAppend
  <1>8. lead \in Seq(Bytes)
    BY VarintType DEF SchemaVersion
  <1>9. ToBytes(ns) = lead \o flat /\ ToBytes(more) = lead \o FlattenSeq(each(more))
    BY DEF ToBytes
  <1> HIDE DEF each, lead, flat
  <1>10. lead \o flat \in Seq(Bytes)
    BY <1>7, <1>8, ConcatProperties
  <1>11. lead \o (flat \o BytesOf(n)) = (lead \o flat) \o BytesOf(n)
    <2> DEFINE last == BytesOf(n)
    <2>1. last \in Seq(Bytes) /\ lead \in Seq(Bytes) /\ flat \in Seq(Bytes)
      BY <1>4, <1>7, <1>8
    <2> HIDE DEF last
    <2>2. (lead \o flat) \o last = lead \o (flat \o last)
      BY <2>1, ConcatAssociative
    <2> QED BY <2>2 DEF last
  <1> QED BY <1>7, <1>9, <1>10, <1>11 DEF more

LEMMA ToBytesNothing == ToBytes(<< >>) = VarintOf[SchemaVersion]
  <1>1. [i \in DOMAIN << >> |-> BytesOf(<< >>[i])] = << >>
    OBVIOUS
  <1>2. VarintOf[SchemaVersion] \in Seq(Bytes)
    BY VarintType DEF SchemaVersion
  <1> QED BY <1>1, <1>2, FlattenNothing, ConcatEmptySeq DEF ToBytes

\* The header of a frame.
LEMMA HeaderType == ASSUME NEW len \in Nat PROVE Header(len) \in Seq(Bytes)
  <1>1. Magic \in Seq(Bytes)
    BY SchemaBytesAssumption DEF Bytes
  <1>2. VarintOf[FormatVersion] \in Seq(Bytes) /\ VarintOf[len] \in Seq(Bytes)
    BY VarintType DEF FormatVersion
  <1>3. Magic \o VarintOf[FormatVersion] \in Seq(Bytes)
    BY <1>1, <1>2, ConcatProperties
  <1> QED BY <1>2, <1>3, ConcatProperties DEF Header

-----------------------------------------------------------------------------
(***************************************************************************)
(* The second invariant: at every byte, what is consumed is what the       *)
(* writer makes of what is read.                                           *)
(***************************************************************************)

Consumed == SubSeq(input, 1, pos)

\* The frame's header, and the nodes read so far.
Lead == IF start = 0 THEN << >> ELSE Header(limit - start)
Done == Lead \o ToBytes(nodes)

\* What is written before the number, tag or child that is read next.
Ahead ==
  CASE phase = "frameVersion" -> Magic
    [] phase = "schemaLen" -> Magic \o VarintOf[FormatVersion]
    [] phase = "version" -> Lead
    [] phase = "tag" -> Done \o LabelBytes(node)
    [] phase = "nameLen" -> Done \o LabelBytes(node) \o <<node.tag % 32>>
    [] phase = "count" -> Done \o LabelBytes(node) \o <<node.tag % 32>> \o NameBytes(node)
    [] OTHER -> Done

Reencoded ==
  /\ phase \in {"next", "accepted", "tag"} => Consumed = Ahead
  /\ phase \in VarintPhases => Carried(Consumed, Ahead, value, weight)

\* Of a node, only what comes before the phase is known.
Fresh ==
  /\ phase \in {"idle", "magic", "frameVersion", "schemaLen", "version", "labelLen"} => node = NoNode
  /\ phase \in {"tag", "nameLen"} => node.name = << >>
  /\ phase \in {"tag", "nameLen", "count"} => node.count = << >>

\* A frame begins its schema behind its length.
Unframed ==
  phase \in {"idle", "magic", "frameVersion", "schemaLen"} => start = 0

Readback == Reencoded /\ Fresh /\ Unframed

\* Where no digit is read yet, it is enough that what is consumed is written.
LEMMA Stands ==
  ASSUME (Consumed = Ahead)', value' = 0, weight' = 1
  PROVE  Reencoded'
  <1> DEFINE s == Consumed'
             a == Ahead'
  <1>1. s = a
    OBVIOUS
  <1> HIDE DEF s, a
  <1>2. Carried(s, a, 0, 1)
    BY <1>1, CarriedStart
  <1>3. Carried(s, a, value', weight')
    BY <1>2
  <1>4. Carried(Consumed, Ahead, value, weight)'
    BY <1>3 DEF s, a, Carried
  <1> QED BY <1>4 DEF Reencoded

\* A byte more.
LEMMA ByteConsumed ==
  ASSUME IInv, HasByte
  PROVE  /\ Consumed \in Seq(Bytes) /\ pos + 1 \in Nat /\ Byte \in Bytes
         /\ SubSeq(input, 1, pos + 1) = Consumed \o <<Byte>>
  <1>1. /\ input \in Seq(Bytes) /\ pos \in Nat /\ pos + 1 \in 1 .. Len(input) /\ pos + 1 <= Len(input)
    BY DEF IInv, DecodeTypeOK, WorkWithinInput, HasByte
  <1>2. \A i \in 1 .. pos + 1 : input[i] \in Bytes
    BY <1>1, ElementOfSeq
  <1> DEFINE s == SubSeq(input, 1, pos)
             t == SubSeq(input, 1, pos + 1)
  <1>3. s \in Seq(Bytes) /\ Len(s) = pos /\ \A i \in 1 .. pos : s[i] = input[i]
    BY <1>1, <1>2
  <1>4. t \in Seq(Bytes) /\ Len(t) = pos + 1 /\ \A i \in 1 .. pos + 1 : t[i] = input[i]
    BY <1>1, <1>2
  <1> HIDE DEF s, t
  <1>5. Byte \in Bytes /\ Byte = input[pos + 1]
    BY <1>1, <1>2 DEF Byte
  <1>6. Append(s, Byte) \in Seq(Bytes) /\ Len(Append(s, Byte)) = pos + 1
        /\ \A i \in 1 .. pos + 1 : Append(s, Byte)[i] = input[i]
    BY <1>1, <1>3, <1>5, AppendProperties
  <1>7. t = Append(s, Byte)
    BY <1>4, <1>6, SeqEqual
  <1>8. Append(s, Byte) = s \o <<Byte>>
    BY <1>3, <1>5, AppendIsConcat
  <1> QED BY <1>1, <1>3, <1>5, <1>7, <1>8 DEF s, t, Consumed

\* A text more.
LEMMA TextConsumed ==
  ASSUME IInv, HasByte, HasText
  PROVE  /\ Text \in Texts /\ Len(Text) = Digits
         /\ SubSeq(input, 1, pos + 1 + Digits) = Consumed \o <<Byte>> \o Text
  <1>1. /\ Text \in Seq(Bytes) /\ pos + 1 + Digits \in Nat /\ pos + 1 + Digits <= Len(input)
        /\ Digits \in Nat /\ input \in Seq(Bytes) /\ pos + 1 \in Nat
    BY TextType, DigitsType, ByteConsumed DEF IInv, DecodeTypeOK, WorkWithinInput
  <1> DEFINE m == pos + 1
             n == pos + 1 + Digits
             s == SubSeq(input, 1, m)
             t == SubSeq(input, m + 1, n)
             u == SubSeq(input, 1, n)
  <1>2. Text = t
    <2>1. pos + 2 = pos + 1 + 1
      BY DEF IInv, DecodeTypeOK
    <2> QED BY <2>1 DEF Text
  <1>3. m \in Nat /\ n \in Nat /\ m <= n /\ n <= Len(input) /\ n = m + Digits
    BY <1>1
  <1> HIDE DEF m, n
  <1>4. \A i \in 1 .. n : input[i] \in Bytes
    BY <1>1, <1>3, ElementOfSeq
  <1>5. s \in Seq(Bytes) /\ Len(s) = m /\ \A i \in 1 .. m : s[i] = input[i]
    BY <1>1, <1>3, <1>4
  <1>6. u \in Seq(Bytes) /\ Len(u) = n /\ \A i \in 1 .. n : u[i] = input[i]
    BY <1>1, <1>3, <1>4
  <1>7. t \in Seq(Bytes) /\ Len(t) = Digits /\ \A i \in 1 .. Digits : t[i] = input[m + i]
    BY <1>1, <1>3, <1>4
  <1> HIDE DEF s, t, u
  <1>8. s \o t \in Seq(Bytes) /\ Len(s \o t) = n
        /\ \A i \in 1 .. n : (s \o t)[i] = input[i]
    <2>1. /\ s \o t \in Seq(Bytes) /\ Len(s \o t) = Len(s) + Len(t)
          /\ \A i \in 1 .. Len(s) : (s \o t)[i] = s[i]
          /\ \A i \in 1 .. Len(t) : (s \o t)[Len(s) + i] = t[i]
      <3>1. s \in Seq(Bytes) /\ t \in Seq(Bytes)
        BY <1>5, <1>7
      <3>2. s \o t \in Seq(Bytes)
        BY <3>1, ConcatProperties
      <3> QED BY <3>1, <3>2, ConcatParts
    <2>2. ASSUME NEW i \in 1 .. n PROVE (s \o t)[i] = input[i]
      <3>1. CASE i <= m
        BY <1>3, <1>5, <2>1, <3>1
      <3>2. CASE ~ (i <= m)
        <4>1. i - m \in 1 .. Digits /\ m + (i - m) = i
          BY <1>1, <1>3, <3>2
        <4>2. (s \o t)[m + (i - m)] = t[i - m] /\ t[i - m] = input[m + (i - m)]
          BY <1>5, <1>7, <2>1, <4>1
        <4> QED BY <4>1, <4>2
      <3> QED BY <3>1, <3>2
    <2> QED BY <1>1, <1>3, <1>5, <1>7, <2>1, <2>2
  <1>9. u = s \o t
    BY <1>6, <1>8, SeqEqual
  <1>10. s = Consumed \o <<Byte>>
    BY ByteConsumed DEF s, m
  <1> QED BY <1>1, <1>2, <1>7, <1>9, <1>10 DEF u, n, Texts

\* A number is read to its last byte.
LEMMA NumberConsumed ==
  ASSUME IInv, Reencoded, phase \in VarintPhases, Number(phase)
  PROVE  Consumed \o <<Byte>> = Ahead \o VarintOf[Digits]
  <1>1. HasByte /\ Byte < 128 /\ (Byte # 0 \/ weight = 1)
    BY DEF Number, Shortest
  <1>2. Byte \in 0 .. 127 /\ Byte % 128 = Byte
    BY <1>1, DigitsType DEF Bytes
  <1>3. value \in Nat /\ weight \in Nat \ {0}
    BY DEF IInv, DecodeTypeOK
  <1>4. Carried(Consumed, Ahead, value, weight)
    BY DEF Reencoded
  <1>5. Consumed \o <<Byte>> = Ahead \o VarintOf[value + Byte * weight]
    <2> DEFINE done == Consumed
               before == Ahead
               byte == Byte
               sum == value
               scale == weight
    <2>1. /\ byte \in 0 .. 127 /\ (byte # 0 \/ scale = 1)
          /\ sum \in Nat /\ scale \in Nat \ {0}
          /\ Carried(done, before, sum, scale)
      BY <1>1, <1>2, <1>3, <1>4
    <2> HIDE DEF done, before, byte, sum, scale
    <2>2. Ended(done, before, sum, scale, byte)
      BY <2>1, CarriedEnd
    <2> QED BY <2>2 DEF Ended, done, before, byte, sum, scale
  <1> QED BY <1>2, <1>5 DEF Digits

LEMMA WrittenType ==
  ASSUME IInv
  PROVE  /\ Lead \in Seq(Bytes) /\ ToBytes(nodes) \in Seq(Bytes) /\ Done \in Seq(Bytes)
         /\ Done \o LabelBytes(node) \in Seq(Bytes)
         /\ Done \o LabelBytes(node) \o <<node.tag % 32>> \in Seq(Bytes)
         /\ Done \o LabelBytes(node) \o <<node.tag % 32>> \o NameBytes(node) \in Seq(Bytes)
  <1>1. nodes \in Seq(NodeRecords) /\ node \in NodeRecords /\ limit - start \in Nat
    BY DEF IInv, DecodeTypeOK, WorkWithinInput
  <1>2. Lead \in Seq(Bytes)
    <2>1. CASE start = 0
      BY <2>1, EmptySeq DEF Lead
    <2>2. CASE start # 0
      BY <1>1, <2>2, HeaderType DEF Lead
    <2> QED BY <2>1, <2>2
  <1>3. ToBytes(nodes) \in Seq(Bytes)
    <2>1. \A n \in NodeRecords : ToBytes(nodes) \in Seq(Bytes)
      BY <1>1, ToBytesAppend
    <2> QED BY <1>1, <2>1
  <1>4. Done \in Seq(Bytes)
    BY <1>2, <1>3, ConcatProperties DEF Done
  <1>5. /\ LabelBytes(node) \in Seq(Bytes) /\ <<node.tag % 32>> \in Seq(Bytes)
        /\ NameBytes(node) \in Seq(Bytes)
    BY <1>1, NodeBytes
  <1> DEFINE label == LabelBytes(node)
             tag == <<node.tag % 32>>
             name == NameBytes(node)
  <1>6. label \in Seq(Bytes) /\ tag \in Seq(Bytes) /\ name \in Seq(Bytes)
    BY <1>5
  <1> HIDE DEF label, tag, name
  <1>7. Done \o label \in Seq(Bytes)
    BY <1>4, <1>6, ConcatProperties
  <1>8. Done \o label \o tag \in Seq(Bytes)
    BY <1>6, <1>7, ConcatProperties
  <1>9. Done \o label \o tag \o name \in Seq(Bytes)
    BY <1>6, <1>8, ConcatProperties
  <1> QED BY <1>2, <1>3, <1>4, <1>7, <1>8, <1>9 DEF label, tag, name

\* A node's bytes behind those of the nodes before it, taken one part at a time.
Regroups(done, label, tag, name, count) ==
  done \o (label \o tag \o name \o count) = done \o label \o tag \o name \o count

LEMMA Regrouped ==
  ASSUME NEW S, NEW done \in Seq(S), NEW label \in Seq(S), NEW tag \in Seq(S),
         NEW name \in Seq(S), NEW count \in Seq(S)
  PROVE  Regroups(done, label, tag, name, count)
  <1>1. label \o tag \in Seq(S)
    BY ConcatProperties
  <1>2. (label \o tag) \o name \in Seq(S)
    BY <1>1, ConcatProperties, Zenon
  <1>3. Associates(done, label \o tag \o name, count)
    BY <1>2, Associative
  <1>4. Associates(done, label \o tag, name)
    BY <1>1, Associative
  <1>5. Associates(done, label, tag)
    BY Associative
  <1> QED BY <1>3, <1>4, <1>5, Zenon DEF Associates, Regroups

LEMMA EnterReads ==
  ASSUME IInv, NEW n \in NodeRecords, Enter(n), UNCHANGED <<start, limit>>
  PROVE  Ahead' = Done \o LabelBytes(n) \o <<n.tag % 32>> \o NameBytes(n) \o CountBytes(n)
  <1>1. /\ Lead \in Seq(Bytes) /\ ToBytes(nodes) \in Seq(Bytes) /\ Done \in Seq(Bytes)
        /\ nodes \in Seq(NodeRecords)
    BY WrittenType DEF IInv, DecodeTypeOK
  <1>2. /\ LabelBytes(n) \in Seq(Bytes) /\ <<n.tag % 32>> \in Seq(Bytes)
        /\ NameBytes(n) \in Seq(Bytes) /\ CountBytes(n) \in Seq(Bytes)
        /\ BytesOf(n) \in Seq(Bytes)
    BY NodeBytes
  <1>3. ToBytes(Append(nodes, n)) = ToBytes(nodes) \o BytesOf(n)
    BY <1>1, ToBytesAppend
  <1>4. Ahead' = Lead \o (ToBytes(nodes) \o BytesOf(n))
    BY <1>3 DEF Ahead, Done, Lead, Enter
  <1>5. Lead \o (ToBytes(nodes) \o BytesOf(n)) = Done \o BytesOf(n)
    <2>1. Associates(Lead, ToBytes(nodes), BytesOf(n))
      BY <1>1, <1>2, Associative
    <2> QED BY <2>1 DEF Done, Associates
  <1>6. Done \o BytesOf(n) = Done \o LabelBytes(n) \o <<n.tag % 32>> \o NameBytes(n) \o CountBytes(n)
    <2>1. Regroups(Done, LabelBytes(n), <<n.tag % 32>>, NameBytes(n), CountBytes(n))
      BY <1>1, <1>2, Regrouped
    <2> QED BY <2>1, Zenon DEF Regroups, BytesOf
  <1> QED BY <1>4, <1>5, <1>6

LEMMA FirstRead == DecodeInit => Readback
  BY DEF DecodeInit, Readback, Reencoded, Fresh, Unframed, VarintPhases

LEMMA OpenBytesReads == ASSUME IInv, Readback, OpenBytes PROVE Readback'
  <1>1. /\ pos = 0 /\ value = 0 /\ weight = 1 /\ start = 0 /\ node = NoNode
        /\ pos' = 0 /\ value' = 0 /\ weight' = 1 /\ start' = 0 /\ node' = NoNode
        /\ phase' \in {"magic", "version"}
    BY DEF OpenBytes, IInv, AtStart, Readback, Fresh, Unframed
  <1>2. Fresh' /\ Unframed'
    BY <1>1 DEF Fresh, Unframed
  <1>3. CASE phase' = "magic"
    <2>1. Reencoded'
      BY <1>3 DEF Reencoded, VarintPhases
    <2> QED BY <1>2, <2>1 DEF Readback
  <1>4. CASE phase' = "version"
    <2>1. Consumed' = << >>
      BY <1>1, SubSeqEmpty DEF Consumed
    <2>2. Ahead' = << >>
      BY <1>1, <1>4 DEF Ahead, Lead
    <2>3. Reencoded'
      BY <1>1, <2>1, <2>2, Stands
    <2> QED BY <1>2, <2>3 DEF Readback
  <1> QED BY <1>1, <1>3, <1>4

LEMMA StopsRead ==
  ASSUME IInv, Readback, BadVarint \/ NoByte \/ NoMagic \/ BadText \/ BadTag \/ EndOfSchema
  PROVE  Readback'
  <1>1. /\ UNCHANGED <<input, pos, start, limit, value, weight, node, stack, nodes, reserved>>
        /\ phase' \in Failures \/ (phase = "next" /\ phase' = "accepted")
    BY DEF BadVarint, NoByte, NoMagic, BadText, BadTag, EndOfSchema, Failures, End
  <1>2. Fresh' /\ Unframed'
    BY <1>1 DEF Fresh, Unframed, Failures
  <1>3. CASE phase' \in Failures
    <2>1. Reencoded'
      BY <1>3 DEF Reencoded, Failures, VarintPhases
    <2> QED BY <1>2, <2>1 DEF Readback
  <1>4. CASE phase = "next" /\ phase' = "accepted"
    <2>1. Consumed = Ahead
      BY <1>4 DEF Readback, Reencoded
    <2>2. Consumed' = Consumed /\ Ahead' = Ahead
      BY <1>1, <1>4 DEF Consumed, Ahead, Done, Lead
    <2>3. Reencoded'
      BY <1>4, <2>1, <2>2 DEF Reencoded, VarintPhases
    <2> QED BY <1>2, <2>3 DEF Readback
  <1> QED BY <1>1, <1>3, <1>4

LEMMA TakeDigitReads == ASSUME IInv, Readback, TakeDigit PROVE Readback'
  <1>1. /\ HasByte /\ Byte >= 128 /\ phase \in VarintPhases
        /\ pos' = pos + 1 /\ value' = Digits /\ weight' = weight * 128
        /\ UNCHANGED <<input, start, limit, phase, node, stack, nodes, reserved>>
    BY DEF TakeDigit
  <1>2. Fresh' /\ Unframed'
    BY <1>1 DEF Readback, Fresh, Unframed
  <1>3. Ahead' = Ahead
    BY <1>1 DEF Ahead, Done, Lead
  <1>4. /\ Consumed \in Seq(Bytes) /\ Byte \in Bytes
        /\ Consumed' = Consumed \o <<Byte>>
    BY <1>1, ByteConsumed DEF Consumed
  <1>5. Byte % 128 \in 0 .. 127 /\ Byte = 128 + (Byte % 128)
    <2> DEFINE byte == Byte
    <2>1. byte \in Bytes /\ byte >= 128
      BY <1>1, <1>4
    <2> HIDE DEF byte
    <2>2. byte % 128 \in 0 .. 127 /\ byte = 128 + (byte % 128)
      BY <2>1 DEF Bytes
    <2> QED BY <2>2 DEF byte
  <1>6. value \in Nat /\ weight \in Nat \ {0} /\ Carried(Consumed, Ahead, value, weight)
    BY <1>1 DEF IInv, DecodeTypeOK, Readback, Reencoded
  <1>7. Carried(Consumed \o <<128 + (Byte % 128)>>, Ahead, value + (Byte % 128) * weight, weight * 128)
    <2> DEFINE done == Consumed
               before == Ahead
               digit == Byte % 128
               sum == value
               scale == weight
    <2>1. /\ done \in Seq(Bytes) /\ digit \in 0 .. 127 /\ sum \in Nat /\ scale \in Nat \ {0}
          /\ Carried(done, before, sum, scale)
      BY <1>4, <1>5, <1>6
    <2> HIDE DEF done, before, digit, sum, scale
    <2>2. Carried(done \o <<128 + digit>>, before, sum + digit * scale, scale * 128)
      BY <2>1, CarriedDigit
    <2> QED BY <2>2 DEF done, before, digit, sum, scale
  <1>8. Carried(Consumed', Ahead', value', weight')
    BY <1>1, <1>3, <1>4, <1>5, <1>7 DEF Digits
  <1>9. Reencoded'
    BY <1>1, <1>8 DEF Reencoded, VarintPhases, Carried
  <1> QED BY <1>2, <1>9 DEF Readback

LEMMA TakeMagicReads == ASSUME IInv, Readback, TakeMagic PROVE Readback'
  <1>1. /\ phase = "magic" /\ IsPrefix(Magic, input) /\ pos' = Len(Magic) /\ phase' = "frameVersion"
        /\ UNCHANGED <<input, start, limit, value, weight, node, stack, nodes, reserved>>
    BY DEF TakeMagic
  <1>2. value' = 0 /\ weight' = 1
    BY <1>1 DEF IInv, AtStart
  <1>3. Fresh' /\ Unframed'
    BY <1>1 DEF Readback, Fresh, Unframed
  <1>4. Consumed' = SubSeq(Magic, 1, Len(Magic))
    BY <1>1 DEF Consumed, IsPrefix
  <1>5. SubSeq(Magic, 1, Len(Magic)) = Magic
    BY SchemaBytesAssumption, SubSeqFull
  <1>6. Ahead' = Magic
    BY <1>1 DEF Ahead
  <1>7. Reencoded'
    BY <1>2, <1>4, <1>5, <1>6, Stands
  <1> QED BY <1>3, <1>7 DEF Readback

\* A version that is supported is the version.
LEMMA VersionsReads ==
  ASSUME IInv, Readback, ReadFrameVersion \/ ReadSchemaVersion
  PROVE  Readback'
  <1>1. /\ phase \in VarintPhases /\ Number(phase)
        /\ pos' = pos + 1 /\ value' = 0 /\ weight' = 1
        /\ UNCHANGED <<input, start, limit, node, stack, nodes, reserved>>
        /\ phase \in {"frameVersion", "version"}
    BY DEF ReadFrameVersion, ReadSchemaVersion, Number, NumberDone, VarintPhases
  <1>2. /\ HasByte /\ Digits \in Nat
        /\ Consumed' = Consumed \o <<Byte>>
        /\ Consumed \o <<Byte>> = Ahead \o VarintOf[Digits]
    BY <1>1, DigitsType, ByteConsumed, NumberConsumed DEF Number, Readback, Consumed
  <1>3. phase' \in {"malformed", "unsupported"} \/ Digits = 1
    BY <1>2 DEF ReadFrameVersion, ReadSchemaVersion, VersionRead, FormatVersion, SchemaVersion
  <1>4. /\ node = NoNode /\ stack = << >> /\ nodes = << >>
        /\ phase = "frameVersion" => start = 0
    BY <1>1 DEF Readback, Fresh, Unframed, IInv, Untouched
  <1>5. phase' \in {"malformed", "unsupported", "schemaLen", "tag"}
    BY DEF ReadFrameVersion, ReadSchemaVersion, VersionRead
  <1>6. phase' = "schemaLen" => phase = "frameVersion"
    BY DEF ReadFrameVersion, ReadSchemaVersion, Number, VersionRead
  <1>7. phase' = "tag" => phase = "version"
    BY DEF ReadFrameVersion, ReadSchemaVersion, Number, VersionRead
  <1>8. Fresh' /\ Unframed'
    BY <1>1, <1>4, <1>5, <1>6 DEF Fresh, Unframed, NoNode, Node
  <1>9. CASE phase' \in {"malformed", "unsupported"}
    <2>1. Reencoded'
      BY <1>9 DEF Reencoded, VarintPhases
    <2> QED BY <1>8, <2>1 DEF Readback
  <1>10. CASE phase' = "schemaLen"
    <2>1. Ahead' = Magic \o VarintOf[FormatVersion] /\ Ahead = Magic
      BY <1>6, <1>10 DEF Ahead
    <2>2. Reencoded'
      BY <1>1, <1>2, <1>3, <1>10, <2>1, Stands DEF FormatVersion
    <2> QED BY <1>8, <2>2 DEF Readback
  <1>11. CASE phase' = "tag"
    <2>1. Ahead = Lead
      BY <1>7, <1>11 DEF Ahead
    <2>2. Ahead' = (Lead \o VarintOf[SchemaVersion]) \o << >>
      <3>1. LabelBytes(node') = << >>
        BY <1>1, <1>4 DEF LabelBytes, NoNode, Node
      <3>2. Done' = Lead \o VarintOf[SchemaVersion]
        BY <1>1, <1>4, ToBytesNothing DEF Done, Lead
      <3> QED BY <1>11, <3>1, <3>2 DEF Ahead
    <2>3. Lead \o VarintOf[SchemaVersion] \in Seq(Bytes)
      <3>1. Lead \in Seq(Bytes) /\ VarintOf[SchemaVersion] \in Seq(Bytes)
        BY WrittenType, VarintType DEF SchemaVersion
      <3> QED BY <3>1, ConcatProperties, Zenon
    <2>4. Ahead' = Lead \o VarintOf[SchemaVersion]
      BY <2>2, <2>3, ConcatEmptySeq
    <2>5. Reencoded'
      BY <1>1, <1>2, <1>3, <1>11, <2>1, <2>4, Stands DEF SchemaVersion
    <2> QED BY <1>8, <2>5 DEF Readback
  <1> QED BY <1>5, <1>9, <1>10, <1>11

LEMMA SchemaLenReads == ASSUME IInv, Readback, ReadSchemaLen PROVE Readback'
  <1>1. /\ phase \in VarintPhases /\ Number(phase) /\ phase = "schemaLen"
        /\ pos' = pos + 1 /\ value' = 0 /\ weight' = 1
        /\ UNCHANGED <<input, node, stack, nodes, reserved>>
        /\ phase' \in {"eof", "version"}
    BY DEF ReadSchemaLen, Number, NumberDone, VarintPhases
  <1>2. /\ HasByte /\ Digits \in Nat /\ pos \in Nat
        /\ Consumed' = Consumed \o <<Byte>>
        /\ Consumed \o <<Byte>> = Ahead \o VarintOf[Digits]
    BY <1>1, DigitsType, ByteConsumed, NumberConsumed
       DEF Number, Readback, Consumed, IInv, DecodeTypeOK
  <1>3. Fresh' /\ Unframed'
    BY <1>1 DEF Readback, Fresh, Unframed
  <1>4. CASE phase' = "eof"
    <2>1. Reencoded'
      BY <1>4 DEF Reencoded, VarintPhases
    <2> QED BY <1>3, <2>1 DEF Readback
  <1>5. CASE phase' = "version"
    <2>1. start' = pos + 1 /\ limit' = pos + 1 + Digits
      BY <1>5 DEF ReadSchemaLen
    <2>2. start' # 0 /\ limit' - start' = Digits
      BY <1>2, <2>1
    <2>3. Ahead' = Magic \o VarintOf[FormatVersion] \o VarintOf[Digits]
      BY <1>5, <2>2 DEF Ahead, Lead, Header
    <2>4. Ahead = Magic \o VarintOf[FormatVersion]
      BY <1>1 DEF Ahead
    <2>5. Reencoded'
      BY <1>1, <1>2, <2>3, <2>4, Stands
    <2> QED BY <1>3, <2>5 DEF Readback
  <1> QED BY <1>1, <1>4, <1>5

\* A text is read behind its length.
LEMMA TextRead ==
  ASSUME IInv, Readback, phase \in VarintPhases, Number(phase), HasText,
         TakeText, UNCHANGED input, Ahead \in Seq(Bytes)
  PROVE  Consumed' = Ahead \o TextOf(Text)
  <1>1. HasByte /\ pos' = pos + 1 + Digits /\ Digits \in Nat
    BY DigitsType DEF Number, TakeText
  <1>2. /\ Text \in Texts /\ Len(Text) = Digits
        /\ SubSeq(input, 1, pos + 1 + Digits) = Consumed \o <<Byte>> \o Text
    BY <1>1, TextConsumed
  <1>3. Consumed' = Consumed \o <<Byte>> \o Text
    BY <1>1, <1>2 DEF Consumed
  <1>4. Consumed \o <<Byte>> = Ahead \o VarintOf[Digits]
    BY NumberConsumed DEF Readback
  <1>5. Text \in Seq(Bytes) /\ VarintOf[Digits] \in Seq(Bytes)
    BY <1>1, <1>2, VarintType DEF Texts
  <1>6. Associates(Ahead, VarintOf[Digits], Text)
    BY <1>5, Associative
  <1> QED BY <1>2, <1>3, <1>4, <1>6 DEF Associates, TextOf

LEMMA LabelReads == ASSUME IInv, Readback, ReadLabel PROVE Readback'
  <1>1. /\ phase \in VarintPhases /\ Number(phase) /\ phase = "labelLen" /\ HasText /\ TakeText
        /\ value' = 0 /\ weight' = 1 /\ phase' = "tag"
        /\ node' = [node EXCEPT !.label = <<Text>>]
        /\ UNCHANGED <<input, start, limit, stack, nodes, reserved>>
    BY DEF ReadLabel, Number, TakeText, NumberDone, VarintPhases
  <1>2. node = NoNode
    BY <1>1 DEF Readback, Fresh
  <1>3. node'.label = <<Text>> /\ node'.name = << >> /\ node'.count = << >>
    BY <1>1, <1>2 DEF NoNode, Node
  <1>4. Fresh' /\ Unframed'
    BY <1>1, <1>3 DEF Fresh, Unframed
  <1>5. Ahead = Done /\ Done \in Seq(Bytes)
    BY <1>1, WrittenType DEF Ahead
  <1>6. Consumed' = Done \o TextOf(Text)
    BY <1>1, <1>5, TextRead
  <1>7. LabelBytes(node') = TextOf(Text)
    <2>1. node'.label # << >> /\ node'.label[1] = Text
      BY <1>3
    <2> QED BY <2>1 DEF LabelBytes
  <1>8. Ahead' = Done \o LabelBytes(node')
    BY <1>1 DEF Ahead, Done, Lead
  <1>9. Reencoded'
    BY <1>1, <1>6, <1>7, <1>8, Stands
  <1> QED BY <1>4, <1>9 DEF Readback

\* Variants are tagged apart, and written as their shape's tag.
LEMMA TagWritten == ASSUME HasByte, KnownTag, Byte \in Nat PROVE Tag % 32 = Byte
  <1>1. CASE Parent \in Enums
    <2>1. Tag = 32 + Byte /\ \E t \in 0 .. 3 : 32 + Byte = 32 + t
      BY <1>1 DEF Tag, KnownTag, Shape, ShapeTags
    <2> DEFINE b == Byte
    <2>2. b \in Nat /\ b <= 3
      BY <2>1
    <2> HIDE DEF b
    <2>3. (32 + b) % 32 = b
      BY <2>2
    <2> QED BY <2>1, <2>3 DEF b
  <1>2. CASE Parent \notin Enums
    <2>1. Tag = Byte /\ Byte \in 0 .. 26
      BY <1>2 DEF Tag, KnownTag, NodeTags
    <2> QED BY <2>1
  <1> QED BY <1>1, <1>2

LEMMA TagReads == ASSUME IInv, Readback, ReadTag PROVE Readback'
  <1> DEFINE n == [node EXCEPT !.tag = Tag]
  <1>1. /\ phase = "tag" /\ HasByte /\ KnownTag /\ pos' = pos + 1
        /\ UNCHANGED <<input, start, limit, value, weight, reserved>>
    BY DEF ReadTag
  <1>2. value' = 0 /\ weight' = 1
    BY <1>1 DEF IInv, DecodeTypeOK, Reading, VarintPhases
  <1>3. /\ n \in NodeRecords /\ n.tag % 32 = Byte /\ n.label = node.label
        /\ n.name = << >> /\ n.count = << >>
    <2>1. Tag % 32 = Byte /\ Tag \in NodeTags \union ShapeTags
      <3>1. Byte \in Bytes
        BY <1>1, ByteConsumed
      <3>2. Byte \in Nat
        BY <3>1 DEF Bytes
      <3>3. Tag % 32 = Byte
        BY <1>1, <3>2, TagWritten
      <3>4. Tag \in NodeTags \union ShapeTags
        BY <1>1 DEF KnownTag
      <3> QED BY <3>3, <3>4
    <2>2. node \in NodeRecords /\ node.name = << >> /\ node.count = << >>
      BY <1>1 DEF IInv, DecodeTypeOK, Readback, Fresh
    <2> QED BY <2>1, <2>2 DEF NodeRecords
  <1> HIDE DEF n
  <1>4. LabelBytes(n) = LabelBytes(node) /\ NameBytes(n) = << >> /\ CountBytes(n) = << >>
    BY <1>3 DEF LabelBytes, NameBytes, CountBytes
  <1> DEFINE before == Done \o LabelBytes(node) \o <<Byte>>
  <1>5. Consumed' = before
    <2>1. Consumed' = Consumed \o <<Byte>>
      BY <1>1, ByteConsumed DEF Consumed
    <2>2. Consumed = Ahead
      BY <1>1 DEF Readback, Reencoded
    <2>3. Ahead = Done \o LabelBytes(node)
      BY <1>1 DEF Ahead
    <2> QED BY <2>1, <2>2, <2>3
  <1>6. before \in Seq(Bytes)
    <2>1. Done \o LabelBytes(node) \in Seq(Bytes) /\ <<Byte>> \in Seq(Bytes)
      BY <1>1, WrittenType, ByteConsumed, OneIsSeq
    <2> DEFINE labelled == Done \o LabelBytes(node)
               tag == <<Byte>>
    <2>2. labelled \in Seq(Bytes) /\ tag \in Seq(Bytes)
      BY <2>1
    <2> HIDE DEF labelled, tag
    <2>3. labelled \o tag \in Seq(Bytes)
      BY <2>2, ConcatProperties
    <2> QED BY <2>3 DEF labelled, tag
  <1>7. CASE Tag \in Named \union Counted
    <2>1. node' = n /\ phase' \in {"nameLen", "count"} /\ UNCHANGED <<stack, nodes>>
      BY <1>7 DEF ReadTag, n
    <2>2. Fresh' /\ Unframed'
      BY <1>3, <2>1 DEF Fresh, Unframed
    <2>3. Done' = Done
      BY <1>1, <2>1 DEF Done, Lead
    <2>4. CASE phase' = "nameLen"
      <3>1. Ahead' = before
        BY <1>3, <1>4, <2>1, <2>3, <2>4 DEF Ahead
      <3> HIDE DEF before
      <3>2. Reencoded'
        BY <1>2, <1>5, <3>1, Stands
      <3> QED BY <2>2, <3>2 DEF Readback
    <2>5. CASE phase' = "count"
      <3>1. Ahead' = before \o << >>
        BY <1>3, <1>4, <2>1, <2>3, <2>5 DEF Ahead
      <3> HIDE DEF before
      <3>2. Ahead' = before
        BY <1>6, <3>1, ConcatEmptySeq
      <3>3. Reencoded'
        BY <1>2, <1>5, <3>2, Stands
      <3> QED BY <2>2, <3>3 DEF Readback
    <2> QED BY <2>1, <2>4, <2>5
  <1>8. CASE Tag \notin Named \union Counted
    <2>1. Enter(n) /\ phase' = "next"
      BY <1>8 DEF ReadTag, n, Enter
    <2>2. Fresh' /\ Unframed'
      BY <2>1 DEF Fresh, Unframed
    <2>3. Ahead' = Done \o LabelBytes(n) \o <<n.tag % 32>> \o NameBytes(n) \o CountBytes(n)
      BY <1>1, <1>3, <2>1, EnterReads
    <2>4. Ahead' = before \o << >> \o << >>
      BY <1>3, <1>4, <2>3
    <2> HIDE DEF before
    <2>5. Ahead' = before
      BY <1>6, <2>4, ConcatEmptySeq
    <2>6. Reencoded'
      BY <1>2, <1>5, <2>5, Stands
    <2> QED BY <2>2, <2>6 DEF Readback
  <1> QED BY <1>7, <1>8

LEMMA NameReads == ASSUME IInv, Readback, ReadName PROVE Readback'
  <1> DEFINE n == [node EXCEPT !.name = <<Text>>]
             before == Done \o LabelBytes(node) \o <<node.tag % 32>>
  <1>1. /\ phase \in VarintPhases /\ Number(phase) /\ phase = "nameLen" /\ HasText /\ TakeText
        /\ value' = 0 /\ weight' = 1
        /\ UNCHANGED <<input, start, limit, reserved>>
    BY DEF ReadName, Number, TakeText, NumberDone, VarintPhases
  <1>2. Text \in Texts /\ HasByte
    BY <1>1, TextConsumed DEF Number
  <1>3. /\ n \in NodeRecords /\ n.tag = node.tag /\ n.label = node.label
        /\ n.name = <<Text>> /\ n.count = << >>
    <2>1. node \in NodeRecords /\ node.count = << >> /\ <<Text>> \in MaybeOne(Texts)
      BY <1>1, <1>2, OneIsMaybe DEF IInv, DecodeTypeOK, Readback, Fresh
    <2> QED BY <2>1 DEF NodeRecords
  <1> HIDE DEF n
  <1>4. LabelBytes(n) = LabelBytes(node) /\ NameBytes(n) = TextOf(Text) /\ CountBytes(n) = << >>
    <2>1. n.name # << >> /\ n.name[1] = Text
      BY <1>3
    <2> QED BY <1>3, <2>1 DEF LabelBytes, NameBytes, CountBytes
  <1>5. Ahead = before /\ before \in Seq(Bytes) /\ TextOf(Text) \in Seq(Bytes)
    BY <1>1, <1>2, WrittenType, TextBytes DEF Ahead
  <1>6. Consumed' = before \o TextOf(Text)
    BY <1>1, <1>5, TextRead
  <1>7. before \o TextOf(Text) \in Seq(Bytes)
    <2> DEFINE text == TextOf(Text)
    <2>1. before \in Seq(Bytes) /\ text \in Seq(Bytes)
      BY <1>5
    <2> HIDE DEF before, text
    <2>2. before \o text \in Seq(Bytes)
      BY <2>1, ConcatProperties
    <2> QED BY <2>2 DEF text
  <1> DEFINE named == before \o TextOf(Text)
  <1>8. CASE n.tag \in Counted
    <2>1. node' = n /\ phase' = "count" /\ UNCHANGED <<stack, nodes>>
      BY <1>8 DEF ReadName, n
    <2>2. Fresh' /\ Unframed'
      BY <1>3, <2>1 DEF Fresh, Unframed
    <2>3. Done' = Done
      BY <1>1, <2>1 DEF Done, Lead
    <2>4. Ahead' = named
      BY <1>3, <1>4, <2>1, <2>3 DEF Ahead
    <2> HIDE DEF named
    <2>5. Reencoded'
      BY <1>1, <1>6, <2>4, Stands DEF named
    <2> QED BY <2>2, <2>5 DEF Readback
  <1>9. CASE n.tag \notin Counted
    <2>1. Enter(n) /\ phase' = "next"
      BY <1>9 DEF ReadName, n, Enter
    <2>2. Fresh' /\ Unframed'
      BY <2>1 DEF Fresh, Unframed
    <2>3. Ahead' = Done \o LabelBytes(n) \o <<n.tag % 32>> \o NameBytes(n) \o CountBytes(n)
      BY <1>1, <1>3, <2>1, EnterReads
    <2>4. Ahead' = named \o << >>
      BY <1>3, <1>4, <2>3
    <2>5. named \in Seq(Bytes) /\ Consumed' = named
      BY <1>6, <1>7
    <2> HIDE DEF named
    <2>6. Ahead' = named
      BY <2>4, <2>5, ConcatEmptySeq
    <2>7. Reencoded'
      BY <1>1, <2>5, <2>6, Stands
    <2> QED BY <2>2, <2>7 DEF Readback
  <1> QED BY <1>8, <1>9

LEMMA CountReads == ASSUME IInv, Readback, ReadCount PROVE Readback'
  <1> DEFINE n == [node EXCEPT !.count = <<Digits>>]
  <1>1. /\ phase \in VarintPhases /\ Number(phase) /\ phase = "count"
        /\ pos' = pos + 1 /\ value' = 0 /\ weight' = 1
        /\ UNCHANGED <<input, start, limit>>
    BY DEF ReadCount, Number, NumberDone, VarintPhases
  <1>2. /\ HasByte /\ Digits \in Nat
        /\ Consumed' = Consumed \o <<Byte>>
        /\ Consumed \o <<Byte>> = Ahead \o VarintOf[Digits]
    BY <1>1, DigitsType, ByteConsumed, NumberConsumed DEF Number, Readback, Consumed
  <1>3. /\ n \in NodeRecords /\ n.tag = node.tag /\ n.label = node.label /\ n.name = node.name
        /\ n.count = <<Digits>>
    <2>1. node \in NodeRecords /\ <<Digits>> \in MaybeOne(Nat)
      BY <1>2, OneIsMaybe DEF IInv, DecodeTypeOK
    <2> QED BY <2>1 DEF NodeRecords
  <1>4. Enter(n) /\ phase' = "next"
    BY DEF ReadCount, Enter
  <1> HIDE DEF n
  <1>5. /\ LabelBytes(n) = LabelBytes(node) /\ NameBytes(n) = NameBytes(node)
        /\ CountBytes(n) = VarintOf[Digits]
    <2>1. n.count # << >> /\ n.count[1] = Digits
      BY <1>3
    <2> QED BY <1>3, <2>1 DEF LabelBytes, NameBytes, CountBytes
  <1>6. Fresh' /\ Unframed'
    BY <1>4 DEF Fresh, Unframed
  <1>7. Ahead' = Done \o LabelBytes(n) \o <<n.tag % 32>> \o NameBytes(n) \o CountBytes(n)
    BY <1>1, <1>3, <1>4, EnterReads
  <1>8. Ahead' = Ahead \o VarintOf[Digits]
    <2>1. Ahead = Done \o LabelBytes(node) \o <<node.tag % 32>> \o NameBytes(node)
      BY <1>1 DEF Ahead
    <2> QED BY <1>3, <1>5, <1>7, <2>1
  <1>9. Reencoded'
    BY <1>1, <1>2, <1>8, Stands
  <1> QED BY <1>6, <1>9 DEF Readback

LEMMA DescendReads == ASSUME IInv, Readback, Descend PROVE Readback'
  <1>1. /\ phase = "next" /\ phase' \in {"labelLen", "tag"}
        /\ UNCHANGED <<input, pos, start, limit, value, weight, node, stack, nodes, reserved>>
    BY DEF Descend
  <1>2. node = NoNode /\ value' = 0 /\ weight' = 1
    BY <1>1 DEF IInv, DecodeTypeOK, Reading, VarintPhases
  <1>3. Fresh' /\ Unframed'
    BY <1>1, <1>2 DEF Fresh, Unframed, NoNode, Node
  <1>4. Consumed' = Done
    BY <1>1 DEF Consumed, Readback, Reencoded, Ahead
  <1>5. Done' = Done /\ Done \in Seq(Bytes)
    BY <1>1, WrittenType DEF Done, Lead
  <1>6. Ahead' = Done
    <2>1. CASE phase' = "labelLen"
      BY <1>5, <2>1 DEF Ahead
    <2>2. CASE phase' = "tag"
      <3>1. LabelBytes(node') = << >>
        BY <1>1, <1>2 DEF LabelBytes, NoNode, Node
      <3>2. Ahead' = Done \o << >>
        BY <1>5, <2>2, <3>1 DEF Ahead
      <3> QED BY <1>5, <3>2, ConcatEmptySeq
    <2> QED BY <1>1, <2>1, <2>2
  <1>7. Reencoded'
    BY <1>2, <1>4, <1>6, Stands
  <1> QED BY <1>3, <1>7 DEF Readback

LEMMA ReturnReads == ASSUME IInv, Readback, Return \/ UNCHANGED decodeVars PROVE Readback'
  <1>1. UNCHANGED <<input, pos, start, limit, phase, value, weight, node, nodes, reserved>>
    BY DEF Return, decodeVars
  <1>2. Consumed' = Consumed /\ Ahead' = Ahead
    BY <1>1 DEF Consumed, Ahead, Done, Lead
  <1>3. Reencoded'
    BY <1>1, <1>2 DEF Readback, Reencoded, Carried
  <1>4. Fresh' /\ Unframed'
    BY <1>1 DEF Readback, Fresh, Unframed
  <1> QED BY <1>3, <1>4 DEF Readback

-----------------------------------------------------------------------------

\* At every byte, what is consumed is what the writer makes of what is read.
LEMMA ReadsBack == DecodeSpec => []Readback
  <1>1. DecodeInit => Readback
    BY FirstRead
  <1>2. IInv /\ Readback /\ [DecodeNext]_decodeVars => Readback'
    <2> SUFFICES ASSUME IInv, Readback, [DecodeNext]_decodeVars PROVE Readback'
      OBVIOUS
    <2>1. CASE OpenBytes
      BY <2>1, OpenBytesReads
    <2>2. CASE BadVarint \/ NoByte \/ NoMagic \/ BadText \/ BadTag \/ EndOfSchema
      BY <2>2, StopsRead
    <2>3. CASE TakeDigit
      BY <2>3, TakeDigitReads
    <2>4. CASE TakeMagic
      BY <2>4, TakeMagicReads
    <2>5. CASE ReadFrameVersion \/ ReadSchemaVersion
      BY <2>5, VersionsReads
    <2>6. CASE ReadSchemaLen
      BY <2>6, SchemaLenReads
    <2>7. CASE ReadLabel
      BY <2>7, LabelReads
    <2>8. CASE ReadTag
      BY <2>8, TagReads
    <2>9. CASE ReadName
      BY <2>9, NameReads
    <2>10. CASE ReadCount
      BY <2>10, CountReads
    <2>11. CASE Descend
      BY <2>11, DescendReads
    <2>12. CASE Return \/ UNCHANGED decodeVars
      BY <2>12, ReturnReads
    <2> QED BY <2>1, <2>2, <2>3, <2>4, <2>5, <2>6, <2>7, <2>8, <2>9, <2>10, <2>11, <2>12
            DEF DecodeNext, Decode
  <1> QED BY <1>1, <1>2, Invariant, PTL DEF DecodeSpec

\* A schema has one form: what is accepted, and what is consumed behind each
\* node of it, is byte for byte what the writer makes of the nodes read
\* (varint.rs, "decoding and re-encoding reproduces the input exactly").
THEOREM ReadsOneForm == DecodeSpec => []ReadIsWritten
  <1>1. Readback => ReadIsWritten
    <2> SUFFICES ASSUME Readback, phase \in {"next", "accepted"}
                 PROVE  Consumed = Done
      BY DEF ReadIsWritten, Consumed, Done, Lead
    <2> QED BY DEF Readback, Reencoded, Ahead
  <1> QED BY <1>1, ReadsBack, PTL

-----------------------------------------------------------------------------
(***************************************************************************)
(* Bytes are read in one way: what stands at a place of the input is       *)
(* determined by the bytes there.                                          *)
(***************************************************************************)

\* Behind the first p bytes of b stands s.
At(b, p, s) == p + Len(s) <= Len(b) /\ \A i \in 1 .. Len(s) : b[p + i] = s[i]

LEMMA AtConcat ==
  ASSUME NEW b \in Seq(Bytes), NEW p \in Nat, NEW s \in Seq(Bytes), NEW t \in Seq(Bytes)
  PROVE  At(b, p, s \o t) <=> At(b, p, s) /\ At(b, p + Len(s), t)
  <1> DEFINE m == Len(s)
             n == Len(t)
             u == s \o t
             size == Len(b)
  <1>1. /\ Len(u) = m + n
        /\ \A i \in 1 .. m : u[i] = s[i]
        /\ \A i \in 1 .. n : u[m + i] = t[i]
    BY ConcatParts
  <1>2. m \in Nat /\ n \in Nat /\ size \in Nat
    BY LenProperties
  <1>3. ASSUME At(b, p, u) PROVE At(b, p, s) /\ At(b, p + m, t)
    <2>1. p + (m + n) <= size /\ \A i \in 1 .. m + n : b[p + i] = u[i]
      BY <1>1, <1>3 DEF At
    <2>2. p + m <= size /\ (p + m) + n <= size
      BY <1>2, <2>1
    <2>3. ASSUME NEW i \in 1 .. m PROVE b[p + i] = s[i]
      <3>1. i \in 1 .. m + n
        BY <1>2
      <3> QED BY <1>1, <2>1, <3>1
    <2>4. ASSUME NEW i \in 1 .. n PROVE b[(p + m) + i] = t[i]
      <3>1. m + i \in 1 .. m + n /\ p + (m + i) = (p + m) + i
        BY <1>2
      <3> QED BY <1>1, <2>1, <3>1
    <2> QED BY <2>2, <2>3, <2>4 DEF At
  <1>4. ASSUME At(b, p, s), At(b, p + m, t) PROVE At(b, p, u)
    <2>1. /\ (p + m) + n <= size
          /\ \A i \in 1 .. m : b[p + i] = s[i]
          /\ \A i \in 1 .. n : b[(p + m) + i] = t[i]
      BY <1>4 DEF At
    <2>2. ASSUME NEW i \in 1 .. m + n PROVE b[p + i] = u[i]
      <3>1. CASE i <= m
        <4>1. i \in 1 .. m
          BY <1>2, <3>1
        <4> QED BY <1>1, <2>1, <4>1
      <3>2. CASE ~ (i <= m)
        <4> DEFINE j == i - m
        <4>1. j \in 1 .. n /\ i = m + j /\ (p + m) + j = p + i
          BY <1>2, <3>2
        <4> HIDE DEF j, u, m, n
        <4>2. u[m + j] = t[j]
          BY <1>1, <4>1
        <4>3. b[(p + m) + j] = t[j]
          BY <2>1, <4>1
        <4> QED BY <4>1, <4>2, <4>3
      <3> QED BY <3>1, <3>2
    <2>3. p + (m + n) <= size
      BY <1>2, <2>1
    <2> HIDE DEF u
    <2> QED BY <1>1, <2>2, <2>3 DEF At
  <1> QED BY <1>3, <1>4

\* Of one length, only one thing stands there.
LEMMA AtSame ==
  ASSUME NEW b, NEW p, NEW s \in Seq(Bytes), NEW t \in Seq(Bytes),
         At(b, p, s), At(b, p, t), Len(s) = Len(t)
  PROVE  s = t
  <1>1. \A i \in 1 .. Len(s) : s[i] = t[i]
    BY DEF At
  <1> QED BY <1>1, SeqEqual

\* The first byte of a number, and what follows it.
LEMMA VarintAt ==
  ASSUME NEW b \in Seq(Bytes), NEW p \in Nat, NEW v \in Nat, At(b, p, VarintOf[v])
  PROVE  /\ p + 1 \in 1 .. Len(b)
         /\ v < 128 => b[p + 1] = v
         /\ v >= 128 => b[p + 1] = 128 + (v % 128) /\ At(b, p + 1, VarintOf[v \div 128])
  <1>1. CASE v < 128
    <2>0. v \in 0 .. 127
      BY <1>1
    <2>1. VarintOf[v] = <<v>>
      BY <2>0, VarintDigit
    <2>2. p + 1 <= Len(b) /\ b[p + 1] = v
      <3>1. Len(<<v>>) = 1 /\ <<v>>[1] = v /\ 1 \in 1 .. 1
        OBVIOUS
      <3> QED BY <2>1, <3>1 DEF At
    <2>3. Len(b) \in Nat
      BY LenProperties
    <2> QED BY <1>1, <2>2, <2>3
  <1>2. CASE ~ (v < 128)
    <2> DEFINE w == v \div 128
               d == v % 128
               head == <<128 + d>>
               rest == VarintOf[w]
    <2>1. w \in Nat \ {0} /\ d \in 0 .. 127 /\ v = d + 128 * w
      BY <1>2
    <2> HIDE DEF w, d
    <2>2. VarintOf[v] = head \o rest
      BY <2>1, VarintDigit
    <2>3. head \in Seq(Bytes) /\ rest \in Seq(Bytes) /\ Len(head) = 1 /\ head[1] = 128 + d
      BY <2>1, VarintType DEF Bytes
    <2> HIDE DEF head, rest
    <2>4. At(b, p, head \o rest)
      BY <2>2
    <2>5. At(b, p, head) /\ At(b, p + Len(head), rest)
      BY <2>3, <2>4, AtConcat
    <2>6. p + 1 <= Len(b) /\ b[p + 1] = 128 + d
      BY <2>3, <2>5 DEF At
    <2>7. At(b, p + 1, rest)
      BY <2>3, <2>5
    <2>8. Len(b) \in Nat
      BY LenProperties
    <2>9. p + 1 \in 1 .. Len(b)
      BY <2>6, <2>8
    <2> QED BY <1>2, <2>6, <2>7, <2>9 DEF w, d, rest
  <1> QED BY <1>1, <1>2

\* One number stands at a place.
LEMMA OneNumber ==
  ASSUME NEW b \in Seq(Bytes)
  PROVE  \A v \in Nat : \A p \in Nat : \A w \in Nat :
           At(b, p, VarintOf[v]) /\ At(b, p, VarintOf[w]) => v = w
  <1> DEFINE T == {v \in Nat : ~ \A p \in Nat : \A w \in Nat :
                     At(b, p, VarintOf[v]) /\ At(b, p, VarintOf[w]) => v = w}
  <1> SUFFICES ASSUME T # {} PROVE FALSE
    OBVIOUS
  <1>1. T \in SUBSET Nat
    OBVIOUS
  <1>2. PICK v \in T : \A k \in T : v <= k
    BY <1>1, LeastNatural
  <1>3. PICK p \in Nat : \E w \in Nat : At(b, p, VarintOf[v]) /\ At(b, p, VarintOf[w]) /\ v # w
    BY <1>2
  <1>4. PICK w \in Nat : At(b, p, VarintOf[v]) /\ At(b, p, VarintOf[w]) /\ v # w
    BY <1>3
  <1>5. v \in Nat
    BY <1>2
  <1>6. /\ v < 128 => b[p + 1] = v
        /\ v >= 128 => b[p + 1] = 128 + (v % 128) /\ At(b, p + 1, VarintOf[v \div 128])
    BY <1>4, <1>5, VarintAt
  <1>7. /\ w < 128 => b[p + 1] = w
        /\ w >= 128 => b[p + 1] = 128 + (w % 128) /\ At(b, p + 1, VarintOf[w \div 128])
    BY <1>4, VarintAt
  <1>8. v >= 128 /\ w >= 128 /\ v % 128 = w % 128
    BY <1>4, <1>5, <1>6, <1>7
  <1>9. v \div 128 \in Nat /\ v \div 128 < v /\ w \div 128 \in Nat /\ p + 1 \in Nat
    BY <1>5, <1>8
  <1>10. v \div 128 \notin T
    BY <1>2, <1>5, <1>9
  <1>11. v \div 128 = w \div 128
    BY <1>6, <1>7, <1>8, <1>9, <1>10
  <1> QED BY <1>4, <1>5, <1>8, <1>11

LEMMA OneText ==
  ASSUME NEW b \in Seq(Bytes), NEW p \in Nat, NEW t \in Texts, NEW u \in Texts,
         At(b, p, TextOf(t)), At(b, p, TextOf(u))
  PROVE  t = u
  <1> DEFINE m == Len(t)
             n == Len(u)
  <1>1. t \in Seq(Bytes) /\ u \in Seq(Bytes) /\ m \in Nat /\ n \in Nat
    BY LenProperties DEF Texts
  <1> HIDE DEF m, n
  <1>2. VarintOf[m] \in Seq(Bytes) /\ VarintOf[n] \in Seq(Bytes)
    BY <1>1, VarintType
  <1>3. At(b, p, VarintOf[m]) /\ At(b, p + Len(VarintOf[m]), t)
    BY <1>1, <1>2, AtConcat DEF TextOf, m
  <1>4. At(b, p, VarintOf[n]) /\ At(b, p + Len(VarintOf[n]), u)
    BY <1>1, <1>2, AtConcat DEF TextOf, n
  <1>5. m = n
    BY <1>1, <1>3, <1>4, OneNumber
  <1> QED BY <1>1, <1>3, <1>4, <1>5, AtSame DEF m, n

\* A node's parts stand one behind another.
LEMMA NodeAt ==
  ASSUME NEW b \in Seq(Bytes), NEW p \in Nat, NEW n \in NodeRecords, At(b, p, BytesOf(n))
  PROVE  /\ p + Len(LabelBytes(n)) + 1 \in Nat
         /\ p + Len(LabelBytes(n)) + 1 + Len(NameBytes(n)) \in Nat
         /\ At(b, p, LabelBytes(n))
         /\ p + Len(LabelBytes(n)) < Len(b)
         /\ b[p + Len(LabelBytes(n)) + 1] = n.tag % 32
         /\ At(b, p + Len(LabelBytes(n)) + 1, NameBytes(n))
         /\ At(b, p + Len(LabelBytes(n)) + 1 + Len(NameBytes(n)), CountBytes(n))
  <1> DEFINE label == LabelBytes(n)
             tag == <<n.tag % 32>>
             name == NameBytes(n)
             count == CountBytes(n)
             size == Len(b)
  <1>1. /\ label \in Seq(Bytes) /\ tag \in Seq(Bytes) /\ name \in Seq(Bytes) /\ count \in Seq(Bytes)
        /\ BytesOf(n) = label \o tag \o name \o count
    BY NodeBytes DEF BytesOf
  <1>2. Len(tag) = 1 /\ tag[1] = n.tag % 32
    OBVIOUS
  <1>3. Len(label) \in Nat /\ Len(name) \in Nat /\ size \in Nat
    BY <1>1, LenProperties
  <1>4. At(b, p, label \o tag \o name \o count)
    BY <1>1
  <1> HIDE DEF label, tag, name, count, size
  <1>5. label \o tag \in Seq(Bytes) /\ Len(label \o tag) = Len(label) + 1
    <2>1. label \o tag \in Seq(Bytes)
      BY <1>1, ConcatProperties, Zenon
    <2>2. Len(label \o tag) = Len(label) + Len(tag)
      BY <1>1, ConcatParts
    <2> QED BY <1>2, <2>1, <2>2
  <1>6. label \o tag \o name \in Seq(Bytes) /\ Len(label \o tag \o name) = Len(label) + 1 + Len(name)
    <2>1. label \o tag \o name \in Seq(Bytes)
      BY <1>1, <1>5, ConcatProperties, Zenon
    <2>2. Len((label \o tag) \o name) = Len(label \o tag) + Len(name)
      BY <1>1, <1>5, ConcatParts
    <2> QED BY <1>5, <2>1, <2>2
  <1>7. At(b, p, label \o tag \o name) /\ At(b, p + Len(label \o tag \o name), count)
    BY <1>1, <1>4, <1>6, AtConcat
  <1>8. At(b, p, label \o tag) /\ At(b, p + Len(label \o tag), name)
    BY <1>1, <1>5, <1>7, AtConcat
  <1>9. At(b, p, label) /\ At(b, p + Len(label), tag)
    BY <1>1, <1>8, AtConcat
  <1>10. p + Len(label) + 1 <= size /\ b[p + Len(label) + 1] = n.tag % 32
    <2>1. 1 \in 1 .. Len(tag)
      BY <1>2
    <2> QED BY <1>2, <1>9, <2>1 DEF At, size
  <1>11. /\ p + Len(label \o tag \o name) = p + Len(label) + 1 + Len(name)
         /\ p + Len(label \o tag) = p + Len(label) + 1
         /\ p + Len(label) < size
         /\ p + Len(label) + 1 \in Nat
         /\ p + Len(label) + 1 + Len(name) \in Nat
    BY <1>3, <1>5, <1>6, <1>10
  <1> QED BY <1>7, <1>8, <1>9, <1>10, <1>11 DEF label, name, count, size

\* None or one text stands at a place, whichever its node is known to have.
MaybeText(text) == IF text = << >> THEN << >> ELSE TextOf(text[1])

LEMMA OneMaybeText ==
  ASSUME NEW b \in Seq(Bytes), NEW p \in Nat, NEW t \in MaybeOne(Texts), NEW u \in MaybeOne(Texts),
         t = << >> <=> u = << >>,
         At(b, p, MaybeText(t)), At(b, p, MaybeText(u))
  PROVE  t = u
  <1>1. CASE t = << >>
    BY <1>1
  <1>2. CASE t # << >>
    <2>1. t[1] \in Texts /\ u[1] \in Texts /\ t = <<t[1]>> /\ u = <<u[1]>>
      BY <1>2, MaybeFirst
    <2>2. At(b, p, TextOf(t[1])) /\ At(b, p, TextOf(u[1]))
      BY <1>2 DEF MaybeText
    <2>3. t[1] = u[1]
      BY <2>1, <2>2, OneText
    <2> QED BY <2>1, <2>3
  <1> QED BY <1>1, <1>2

\* Nodes and variants each have their tags written apart.
LEMMA TagsApart ==
  /\ \A s, t \in NodeTags : s % 32 = t % 32 => s = t
  /\ \A s, t \in ShapeTags : s % 32 = t % 32 => s = t
  <1>1. ASSUME NEW s \in 0 .. 26 PROVE s % 32 = s
    OBVIOUS
  <1>2. ASSUME NEW s \in 0 .. 3 PROVE (32 + s) % 32 = s
    OBVIOUS
  <1>3. \A t \in ShapeTags : \E s \in 0 .. 3 : t = 32 + s
    BY DEF ShapeTags, Shape
  <1>4. \A s, t \in ShapeTags : s % 32 = t % 32 => s = t
    BY <1>2, <1>3
  <1> QED BY <1>1, <1>4 DEF NodeTags

\* One node stands at a place, once its parent is known.
LEMMA OneNode ==
  ASSUME NEW b \in Seq(Bytes), NEW p \in Nat, NEW n \in NodeRecords, NEW m \in NodeRecords,
         NEW parent, Placed(n, parent), Placed(m, parent),
         At(b, p, BytesOf(n)), At(b, p, BytesOf(m))
  PROVE  n = m
  <1>1. /\ n.label \in MaybeOne(Texts) /\ n.name \in MaybeOne(Texts) /\ n.count \in MaybeOne(Nat)
        /\ m.label \in MaybeOne(Texts) /\ m.name \in MaybeOne(Texts) /\ m.count \in MaybeOne(Nat)
        /\ n.tag \in NodeTags \union ShapeTags /\ m.tag \in NodeTags \union ShapeTags
    BY DEF NodeRecords
  <1>2. /\ LabelBytes(n) = MaybeText(n.label) /\ LabelBytes(m) = MaybeText(m.label)
        /\ NameBytes(n) = MaybeText(n.name) /\ NameBytes(m) = MaybeText(m.name)
    BY DEF LabelBytes, NameBytes, MaybeText
  <1> DEFINE p1 == p + Len(LabelBytes(n)) + 1
             p2 == p1 + Len(NameBytes(n))
             q1 == p + Len(LabelBytes(m)) + 1
             q2 == q1 + Len(NameBytes(m))
  <1>3. /\ p1 \in Nat /\ p2 \in Nat
        /\ At(b, p, LabelBytes(n)) /\ b[p1] = n.tag % 32
        /\ At(b, p1, NameBytes(n)) /\ At(b, p2, CountBytes(n))
    BY NodeAt
  <1>4. /\ At(b, p, LabelBytes(m)) /\ b[q1] = m.tag % 32
        /\ At(b, q1, NameBytes(m)) /\ At(b, q2, CountBytes(m))
    BY NodeAt
  <1>5. n.label = m.label
    <2>1. n.label = << >> <=> m.label = << >>
      BY DEF Placed
    <2>2. At(b, p, MaybeText(n.label)) /\ At(b, p, MaybeText(m.label))
      BY <1>2, <1>3, <1>4
    <2> QED BY <1>1, <2>1, <2>2, OneMaybeText
  <1>6. p1 = q1
    BY <1>2, <1>5
  <1>7. n.tag = m.tag
    <2>1. n.tag % 32 = m.tag % 32
      BY <1>3, <1>4, <1>6
    <2>2. \/ n.tag \in ShapeTags /\ m.tag \in ShapeTags
          \/ n.tag \in NodeTags /\ m.tag \in NodeTags
      <3>1. CASE parent \in Enums
        BY <3>1 DEF Placed
      <3>2. CASE parent \notin Enums
        BY <3>2 DEF Placed
      <3> QED BY <3>1, <3>2
    <2> QED BY <2>1, <2>2, TagsApart
  <1> HIDE DEF p1, q1
  <1>8. n.name = m.name
    <2>1. n.name = << >> <=> m.name = << >>
      BY <1>7 DEF Placed
    <2>2. At(b, p1, MaybeText(n.name)) /\ At(b, p1, MaybeText(m.name))
      BY <1>2, <1>3, <1>4, <1>6
    <2> QED BY <1>1, <1>3, <2>1, <2>2, OneMaybeText
  <1>9. p2 = q2
    BY <1>2, <1>6, <1>8
  <1> HIDE DEF p2, q2
  <1>10. n.count = m.count
    <2>1. n.count = << >> <=> m.count = << >>
      BY <1>7 DEF Placed
    <2>2. CASE n.count = << >>
      BY <2>1, <2>2
    <2>3. CASE n.count # << >>
      <3>1. /\ n.count[1] \in Nat /\ m.count[1] \in Nat
            /\ n.count = <<n.count[1]>> /\ m.count = <<m.count[1]>>
        BY <1>1, <2>1, <2>3, MaybeFirst
      <3>2. At(b, p2, VarintOf[n.count[1]]) /\ At(b, p2, VarintOf[m.count[1]])
        BY <1>3, <1>4, <1>9, <2>1, <2>3 DEF CountBytes
      <3>3. n.count[1] = m.count[1]
        BY <1>3, <3>1, <3>2, OneNumber
      <3> QED BY <3>1, <3>3
    <2> QED BY <2>2, <2>3
  <1> QED BY <1>5, <1>7, <1>8, <1>10 DEF NodeRecords

\* The first k of a sequence.
LEMMA FirstOnes ==
  ASSUME NEW S, NEW s \in Seq(S)
  PROVE  /\ SubSeq(s, 1, Len(s)) = s
         /\ SubSeq(s, 1, 0) = << >>
         /\ \A k \in 0 .. Len(s) : SubSeq(s, 1, k) \in Seq(S) /\ Len(SubSeq(s, 1, k)) = k
         /\ \A k \in 1 .. Len(s) : s[k] \in S /\ SubSeq(s, 1, k) = Append(SubSeq(s, 1, k - 1), s[k])
  <1>1. Len(s) \in Nat /\ \A i \in 1 .. Len(s) : s[i] \in S
    BY LenProperties, ElementOfSeq
  <1>2. ASSUME NEW k \in 0 .. Len(s)
        PROVE  /\ SubSeq(s, 1, k) \in Seq(S) /\ Len(SubSeq(s, 1, k)) = k
               /\ \A i \in 1 .. k : SubSeq(s, 1, k)[i] = s[i]
    BY <1>1
  <1>3. SubSeq(s, 1, Len(s)) = s
    BY <1>1, <1>2, SeqEqual
  <1>4. SubSeq(s, 1, 0) = << >>
    BY <1>1, <1>2, EmptySeq
  <1>5. ASSUME NEW k \in 1 .. Len(s)
        PROVE  SubSeq(s, 1, k) = Append(SubSeq(s, 1, k - 1), s[k])
    <2> DEFINE t == SubSeq(s, 1, k - 1)
               u == SubSeq(s, 1, k)
    <2>1. /\ t \in Seq(S) /\ Len(t) = k - 1 /\ \A i \in 1 .. k - 1 : t[i] = s[i]
          /\ u \in Seq(S) /\ Len(u) = k /\ \A i \in 1 .. k : u[i] = s[i]
          /\ s[k] \in S /\ k \in Nat
      BY <1>1, <1>2
    <2> HIDE DEF t, u
    <2>2. /\ Append(t, s[k]) \in Seq(S) /\ Len(Append(t, s[k])) = k
          /\ \A i \in 1 .. k - 1 : Append(t, s[k])[i] = t[i]
          /\ Append(t, s[k])[k] = s[k]
      BY <2>1, AppendProperties
    <2>3. ASSUME NEW i \in 1 .. k PROVE u[i] = Append(t, s[k])[i]
      <3>1. CASE i = k
        BY <2>1, <2>2, <3>1
      <3>2. CASE i # k
        <4>1. i \in 1 .. k - 1
          BY <2>1, <3>2
        <4> QED BY <2>1, <2>2, <4>1
      <3> QED BY <3>1, <3>2
    <2>4. u = Append(t, s[k])
      BY <2>1, <2>2, <2>3, SeqEqual
    <2> QED BY <2>4 DEF t, u
  <1> QED BY <1>1, <1>2, <1>3, <1>4, <1>5

\* The bytes of the first k nodes, and of the next, stand one behind another.
LEMMA SchemaAt ==
  ASSUME NEW b \in Seq(Bytes), NEW p \in Nat, NEW ns \in Seq(NodeRecords), At(b, p, ToBytes(ns))
  PROVE  /\ \A k \in 0 .. Len(ns) :
              /\ ToBytes(SubSeq(ns, 1, k)) \in Seq(Bytes)
              /\ At(b, p, ToBytes(SubSeq(ns, 1, k)))
         /\ \A k \in 1 .. Len(ns) :
              At(b, p + Len(ToBytes(SubSeq(ns, 1, k - 1))), BytesOf(ns[k]))
  <1> DEFINE first(k) == SubSeq(ns, 1, k)
             size == Len(ns)
  <1>1. /\ size \in Nat /\ first(size) = ns
        /\ \A k \in 0 .. size : first(k) \in Seq(NodeRecords)
        /\ \A k \in 1 .. size : ns[k] \in NodeRecords /\ first(k) = Append(first(k - 1), ns[k])
    BY FirstOnes, LenProperties
  <1>2. \A k \in 0 .. size : ToBytes(first(k)) \in Seq(Bytes)
    <2>1. NoNode \in NodeRecords
      BY NoNodeType
    <2> HIDE DEF first
    <2> QED BY <1>1, <2>1, ToBytesAppend
  <1>3. \A k \in 1 .. size : ToBytes(first(k)) = ToBytes(first(k - 1)) \o BytesOf(ns[k])
    <2> SUFFICES ASSUME NEW k \in 1 .. size
                 PROVE  ToBytes(first(k)) = ToBytes(first(k - 1)) \o BytesOf(ns[k])
      OBVIOUS
    <2>1. k - 1 \in 0 .. size /\ k \in 1 .. size
      BY <1>1
    <2>2. first(k - 1) \in Seq(NodeRecords) /\ ns[k] \in NodeRecords /\ first(k) = Append(first(k - 1), ns[k])
      BY <1>1, <2>1
    <2> HIDE DEF first
    <2> QED BY <2>2, ToBytesAppend
  <1>4. \A k \in 1 .. size : BytesOf(ns[k]) \in Seq(Bytes)
    BY <1>1, NodeBytes
  <1> HIDE DEF first
  <1>5. ASSUME NEW k \in 1 .. size, At(b, p, ToBytes(first(k)))
        PROVE  /\ At(b, p, ToBytes(first(k - 1)))
               /\ At(b, p + Len(ToBytes(first(k - 1))), BytesOf(ns[k]))
    <2>1. k - 1 \in 0 .. size
      BY <1>1
    <2> DEFINE s == ToBytes(first(k - 1))
               t == BytesOf(ns[k])
    <2>2. s \in Seq(Bytes) /\ t \in Seq(Bytes) /\ At(b, p, s \o t)
      BY <1>2, <1>3, <1>4, <1>5, <2>1
    <2> HIDE DEF s, t
    <2>3. At(b, p, s) /\ At(b, p + Len(s), t)
      BY <2>2, AtConcat
    <2> QED BY <2>3 DEF s, t
  <1> DEFINE T == {j \in 0 .. size : ~ At(b, p, ToBytes(first(size - j)))}
  <1>6. T = {}
    <2> SUFFICES ASSUME T # {} PROVE FALSE
      OBVIOUS
    <2>1. T \in SUBSET Nat
      OBVIOUS
    <2>2. PICK j \in T : \A i \in T : j <= i
      BY <2>1, LeastNatural
    <2>3. j # 0
      BY <1>1, <2>2
    <2> DEFINE k == size - (j - 1)
    <2>4. j - 1 \in 0 .. size /\ ~ (j <= j - 1) /\ k \in 1 .. size /\ k - 1 = size - j
      BY <1>1, <2>2, <2>3
    <2>5. At(b, p, ToBytes(first(k)))
      BY <2>2, <2>4
    <2> HIDE DEF k
    <2>6. At(b, p, ToBytes(first(k - 1)))
      BY <1>5, <2>4, <2>5
    <2> QED BY <2>2, <2>4, <2>6
  <1>7. \A k \in 0 .. size : At(b, p, ToBytes(first(k)))
    <2> SUFFICES ASSUME NEW k \in 0 .. size PROVE At(b, p, ToBytes(first(k)))
      OBVIOUS
    <2>1. size - k \in 0 .. size /\ size - (size - k) = k
      BY <1>1
    <2>2. size - k \notin T
      BY <1>6
    <2> HIDE DEF T
    <2>3. At(b, p, ToBytes(first(size - (size - k))))
      BY <2>1, <2>2 DEF T
    <2> QED BY <2>1, <2>3
  <1>8. \A k \in 1 .. size : k \in 0 .. size
    BY <1>1
  <1> QED BY <1>2, <1>5, <1>7, <1>8 DEF first

-----------------------------------------------------------------------------
(***************************************************************************)
(* Due is what its definition says.                                        *)
(***************************************************************************)

\* What is due after a node more.
DueAfter(before, n) ==
  Front(before) \o [i \in 1 .. Children(n) |-> Slot(n.tag, Last(before).level + 1)]

\* A function that says what is due up to the m-th node.
Dues(f, ns, m) ==
  /\ f = [k \in 0 .. m |-> f[k]]
  /\ f[0] = <<Slot(0, 0)>>
  /\ \A k \in 1 .. m : f[k] = DueAfter(f[k - 1], ns[k])

LEMMA DuesExist == ASSUME NEW ns PROVE \A m \in Nat : \E f : Dues(f, ns, m)
  <1> DEFINE T == {m \in Nat : ~ \E f : Dues(f, ns, m)}
  <1> SUFFICES ASSUME T # {} PROVE FALSE
    OBVIOUS
  <1>1. T \in SUBSET Nat
    OBVIOUS
  <1>2. PICK m \in T : \A k \in T : m <= k
    BY <1>1, LeastNatural
  <1>3. CASE m = 0
    <2> DEFINE f == [k \in 0 .. 0 |-> <<Slot(0, 0)>>]
    <2>1. f[0] = <<Slot(0, 0)>> /\ f = [k \in 0 .. 0 |-> f[k]]
      OBVIOUS
    <2> HIDE DEF f
    <2>2. Dues(f, ns, 0)
      BY <2>1 DEF Dues
    <2> QED BY <1>2, <1>3, <2>2
  <1>4. CASE m # 0
    <2>1. m \in Nat /\ m - 1 \in Nat /\ ~ (m <= m - 1)
      BY <1>2, <1>4
    <2>2. PICK f : Dues(f, ns, m - 1)
      BY <1>2, <2>1
    <2> DEFINE g == [k \in 0 .. m |-> IF k = m THEN DueAfter(f[m - 1], ns[m]) ELSE f[k]]
    <2>3. g[0] = <<Slot(0, 0)>>
      BY <1>4, <2>1, <2>2 DEF Dues
    <2>4. ASSUME NEW k \in 1 .. m
          PROVE  g[k] = DueAfter(g[k - 1], ns[k])
      <3>1. k - 1 \in 0 .. m /\ k - 1 # m /\ k \in 0 .. m
        BY <2>1
      <3>2. g[k - 1] = f[k - 1]
        BY <3>1
      <3>3. CASE k = m
        BY <3>1, <3>2, <3>3
      <3>4. CASE k # m
        <4>1. k \in 1 .. m - 1
          BY <2>1, <3>4
        <4>2. f[k] = DueAfter(f[k - 1], ns[k])
          BY <2>2, <4>1 DEF Dues
        <4> QED BY <3>1, <3>2, <3>4, <4>2
      <3> QED BY <3>3, <3>4
    <2>5. g = [k \in 0 .. m |-> g[k]]
      OBVIOUS
    <2> HIDE DEF g
    <2>6. Dues(g, ns, m)
      BY <2>3, <2>4, <2>5 DEF Dues
    <2> QED BY <1>2, <2>6
  <1> QED BY <1>3, <1>4

LEMMA DueIs ==
  ASSUME NEW ns, Len(ns) \in Nat
  PROVE  /\ Due(ns)[0] = <<Slot(0, 0)>>
         /\ \A k \in 1 .. Len(ns) : Due(ns)[k] = DueAfter(Due(ns)[k - 1], ns[k])
  <1> DEFINE size == Len(ns)
             step(f) == [k \in 0 .. size |->
                           IF k = 0 THEN <<Slot(0, 0)>> ELSE DueAfter(f[k - 1], ns[k])]
             e == CHOOSE f : f = step(f)
  <1>1. PICK f : Dues(f, ns, size)
    BY DuesExist
  <1>2. f = step(f)
    <2>1. ASSUME NEW k \in 0 .. size
          PROVE  f[k] = IF k = 0 THEN <<Slot(0, 0)>> ELSE DueAfter(f[k - 1], ns[k])
      <3>1. k = 0 \/ k \in 1 .. size
        OBVIOUS
      <3> QED BY <1>1, <3>1 DEF Dues
    <2> QED BY <1>1, <2>1 DEF Dues
  <1>3. e = step(e)
    BY <1>2
  <1>4. Due(ns) = e
    BY DEF Due, DueAfter
  <1> HIDE DEF e
  <1>5. e[0] = <<Slot(0, 0)>>
    <2>1. 0 \in 0 .. size
      OBVIOUS
    <2> QED BY <1>3, <2>1
  <1>6. ASSUME NEW k \in 1 .. size PROVE e[k] = DueAfter(e[k - 1], ns[k])
    <2>1. k \in 0 .. size /\ k # 0
      OBVIOUS
    <2> QED BY <1>3, <2>1
  <1> QED BY <1>4, <1>5, <1>6

\* What is due depends on the nodes before alone.
LEMMA DueSame ==
  ASSUME NEW ns, NEW ms, Len(ns) \in Nat, Len(ms) \in Nat,
         NEW k \in Nat, k <= Len(ns), k <= Len(ms), \A i \in 1 .. k : ns[i] = ms[i]
  PROVE  Due(ns)[k] = Due(ms)[k]
  <1> DEFINE d == Due(ns)
             e == Due(ms)
             T == {i \in 0 .. k : d[i] # e[i]}
  <1>1. /\ d[0] = e[0]
        /\ \A i \in 1 .. k : d[i] = DueAfter(d[i - 1], ns[i])
        /\ \A i \in 1 .. k : e[i] = DueAfter(e[i - 1], ms[i])
    <2>1. d[0] = <<Slot(0, 0)>> /\ \A i \in 1 .. Len(ns) : d[i] = DueAfter(d[i - 1], ns[i])
      BY DueIs
    <2>2. e[0] = <<Slot(0, 0)>> /\ \A i \in 1 .. Len(ms) : e[i] = DueAfter(e[i - 1], ms[i])
      BY DueIs
    <2>3. \A i \in 1 .. k : i \in 1 .. Len(ns) /\ i \in 1 .. Len(ms)
      OBVIOUS
    <2> HIDE DEF d, e
    <2> QED BY <2>1, <2>2, <2>3
  <1> HIDE DEF d, e
  <1>2. T = {}
    <2> SUFFICES ASSUME T # {} PROVE FALSE
      OBVIOUS
    <2>1. T \in SUBSET Nat
      OBVIOUS
    <2>2. PICK i \in T : \A j \in T : i <= j
      BY <2>1, LeastNatural
    <2>3. i # 0
      BY <1>1, <2>2
    <2>4. i \in 1 .. k /\ i - 1 \in 0 .. k /\ ~ (i <= i - 1)
      BY <2>2, <2>3
    <2>5. d[i - 1] = e[i - 1]
      BY <2>2, <2>4
    <2> QED BY <1>1, <2>2, <2>4, <2>5
  <1>3. d[k] = e[k]
    <2>1. k \in 0 .. k /\ k \notin T
      BY <1>2
    <2> QED BY <2>1
  <1> QED BY <1>3 DEF d, e

\* One schema's nodes are among another's that stands at the same place.
LEMMA NoFewer ==
  ASSUME NEW b \in Seq(Bytes), NEW p \in Nat, NEW ns, NEW ms, Whole(ns), Whole(ms),
         At(b, p, ToBytes(ns)), At(b, p, ToBytes(ms))
  PROVE  Len(ns) <= Len(ms) /\ \A k \in 1 .. Len(ns) : ns[k] = ms[k]
  <1> DEFINE size == Len(ns)
             other == Len(ms)
             T == {k \in 1 .. size : ~ (k <= other /\ ns[k] = ms[k])}
  <1>1. ns \in Seq(NodeRecords) /\ ms \in Seq(NodeRecords) /\ size \in Nat /\ other \in Nat
    BY LenProperties DEF Whole
  <1>2. T = {}
    <2> SUFFICES ASSUME T # {} PROVE FALSE
      OBVIOUS
    <2>1. T \in SUBSET Nat
      OBVIOUS
    <2>2. PICK k \in T : \A i \in T : k <= i
      BY <2>1, LeastNatural
    <2>3. k \in 1 .. size /\ k - 1 \in Nat /\ k - 1 <= size
      BY <1>1, <2>2
    <2>4. ASSUME NEW i \in 1 .. k - 1 PROVE i <= other /\ ns[i] = ms[i]
      <3>1. i \in 1 .. size /\ ~ (k <= i)
        BY <1>1, <2>3
      <3> QED BY <2>2, <3>1
    <2>5. k - 1 <= other
      <3>1. CASE k = 1
        BY <1>1, <3>1
      <3>2. CASE k # 1
        <4>1. k - 1 \in 1 .. k - 1
          BY <2>3, <3>2
        <4> QED BY <2>4, <4>1
      <3> QED BY <3>1, <3>2
    <2>6. Due(ns)[k - 1] = Due(ms)[k - 1]
      <3>1. \A i \in 1 .. k - 1 : ns[i] = ms[i]
        BY <2>4
      <3> QED BY <1>1, <2>3, <2>5, <3>1, DueSame
    <2> DEFINE due == Due(ns)[k - 1]
    <2>7. due # << >> /\ Placed(ns[k], Last(due).parent)
      BY <2>3 DEF Whole, Growing
    <2>8. k <= other
      <3> SUFFICES ASSUME ~ (k <= other) PROVE FALSE
        OBVIOUS
      <3>1. k - 1 = other
        BY <1>1, <2>3, <2>5
      <3>2. Due(ms)[other] = << >>
        BY DEF Whole
      <3> QED BY <2>6, <2>7, <3>1, <3>2
    <2>9. k \in 1 .. other /\ k - 1 \in 0 .. other /\ k - 1 \in 0 .. size
      BY <1>1, <2>3, <2>8
    <2>10. Placed(ms[k], Last(due).parent)
      BY <2>6, <2>9 DEF Whole, Growing
    <2>11. SubSeq(ns, 1, k - 1) = SubSeq(ms, 1, k - 1)
      <3> DEFINE s == SubSeq(ns, 1, k - 1)
                 t == SubSeq(ms, 1, k - 1)
      <3>1. s \in Seq(NodeRecords) /\ Len(s) = k - 1 /\ \A i \in 1 .. k - 1 : s[i] = ns[i]
        BY <1>1, <2>3
      <3>2. t \in Seq(NodeRecords) /\ Len(t) = k - 1 /\ \A i \in 1 .. k - 1 : t[i] = ms[i]
        BY <1>1, <2>3, <2>5
      <3> HIDE DEF s, t
      <3>3. \A i \in 1 .. k - 1 : s[i] = t[i]
        BY <2>4, <3>1, <3>2
      <3>4. s = t
        BY <3>1, <3>2, <3>3, SeqEqual
      <3> QED BY <3>4 DEF s, t
    <2> DEFINE q == p + Len(ToBytes(SubSeq(ns, 1, k - 1)))
    <2>12. q \in Nat /\ At(b, q, BytesOf(ns[k]))
      <3>1. ToBytes(SubSeq(ns, 1, k - 1)) \in Seq(Bytes)
        BY <1>1, <2>9, SchemaAt
      <3> QED BY <1>1, <2>3, <3>1, SchemaAt, LenProperties
    <2>13. At(b, q, BytesOf(ms[k]))
      BY <1>1, <2>9, <2>11, SchemaAt
    <2>14. ns[k] \in NodeRecords /\ ms[k] \in NodeRecords
      BY <1>1, <2>3, <2>9, ElementOfSeq
    <2> HIDE DEF q, due
    <2>15. ns[k] = ms[k]
      BY <2>7, <2>10, <2>12, <2>13, <2>14, OneNode
    <2> QED BY <2>2, <2>8, <2>15
  <1>3. \A k \in 1 .. size : k <= other /\ ns[k] = ms[k]
    BY <1>2
  <1>4. size <= other
    <2>1. size = 0 \/ size \in 1 .. size
      BY <1>1
    <2> QED BY <1>1, <1>3, <2>1
  <1> QED BY <1>3, <1>4

\* One schema stands at a place.
LEMMA OneSchema ==
  ASSUME NEW b \in Seq(Bytes), NEW p \in Nat, NEW ns, NEW ms, Whole(ns), Whole(ms),
         At(b, p, ToBytes(ns)), At(b, p, ToBytes(ms))
  PROVE  ns = ms
  <1>1. Len(ns) <= Len(ms) /\ \A k \in 1 .. Len(ns) : ns[k] = ms[k]
    BY NoFewer
  <1>2. Len(ms) <= Len(ns)
    BY NoFewer
  <1>3. ns \in Seq(NodeRecords) /\ ms \in Seq(NodeRecords) /\ Len(ns) \in Nat /\ Len(ms) \in Nat
    BY LenProperties DEF Whole
  <1>4. Len(ns) = Len(ms)
    BY <1>1, <1>2, <1>3
  <1> QED BY <1>1, <1>3, <1>4, SeqEqual

\* No schema's bytes begin another's: what follows a schema is never taken for
\* part of it, whatever follows (schema.rs, encode_into).
THEOREM PrefixFree ==
  ASSUME NEW ns, NEW ms, Whole(ns), Whole(ms), IsPrefix(ToBytes(ns), ToBytes(ms))
  PROVE  ns = ms
  <1> DEFINE s == ToBytes(ns)
             t == ToBytes(ms)
  <1>1. s \in Seq(Bytes) /\ t \in Seq(Bytes)
    BY NoNodeType, ToBytesAppend DEF Whole
  <1>2. Len(s) \in Nat /\ Len(t) \in Nat /\ Len(s) <= Len(t) /\ IsPrefix(s, t)
    BY <1>1, LenProperties DEF IsPrefix
  <1> HIDE DEF s, t
  <1>3. \A i \in 1 .. Len(s) : t[i] = s[i]
    BY <1>1, <1>2 DEF IsPrefix
  <1>4. At(t, 0, s) /\ At(t, 0, t)
    BY <1>2, <1>3 DEF At
  <1> QED BY <1>1, <1>4, OneSchema DEF s, t

-----------------------------------------------------------------------------
(***************************************************************************)
(* What a digit counts for.                                                *)
(***************************************************************************)

\* A function that weighs the first m digits after the first.
Weighs(f, m) ==
  /\ f = [i \in 0 .. m |-> f[i]]
  /\ f[0] = 1
  /\ \A i \in 1 .. m : f[i] = 128 * f[i - 1]

LEMMA WeighsExists == \A m \in Nat : \E f : Weighs(f, m)
  <1> DEFINE T == {m \in Nat : ~ \E f : Weighs(f, m)}
  <1> SUFFICES ASSUME T # {} PROVE FALSE
    OBVIOUS
  <1>1. T \in SUBSET Nat
    OBVIOUS
  <1>2. PICK m \in T : \A k \in T : m <= k
    BY <1>1, LeastNatural
  <1>3. CASE m = 0
    <2> DEFINE f == [i \in 0 .. 0 |-> 1]
    <2>1. f[0] = 1 /\ f = [i \in 0 .. 0 |-> f[i]]
      OBVIOUS
    <2> HIDE DEF f
    <2>2. Weighs(f, 0)
      BY <2>1 DEF Weighs
    <2> QED BY <1>2, <1>3, <2>2
  <1>4. CASE m # 0
    <2>1. m \in Nat /\ m - 1 \in Nat /\ ~ (m <= m - 1)
      BY <1>2, <1>4
    <2>2. PICK f : Weighs(f, m - 1)
      BY <1>2, <2>1
    <2> DEFINE g == [i \in 0 .. m |-> IF i = m THEN 128 * f[m - 1] ELSE f[i]]
    <2>3. g[0] = 1
      BY <1>4, <2>1, <2>2 DEF Weighs
    <2>4. ASSUME NEW i \in 1 .. m PROVE g[i] = 128 * g[i - 1]
      <3>1. i - 1 \in 0 .. m /\ i - 1 # m /\ i \in 0 .. m
        BY <2>1
      <3>2. g[i - 1] = f[i - 1]
        BY <3>1
      <3>3. CASE i = m
        BY <3>1, <3>2, <3>3
      <3>4. CASE i # m
        <4>1. i \in 1 .. m - 1
          BY <2>1, <3>4
        <4>2. f[i] = 128 * f[i - 1]
          BY <2>2, <4>1 DEF Weighs
        <4> QED BY <3>1, <3>2, <3>4, <4>2
      <3> QED BY <3>3, <3>4
    <2>5. g = [i \in 0 .. m |-> g[i]]
      OBVIOUS
    <2> HIDE DEF g
    <2>6. Weighs(g, m)
      BY <2>3, <2>4, <2>5 DEF Weighs
    <2> QED BY <1>2, <2>6
  <1> QED BY <1>3, <1>4

LEMMA WeighsAgree ==
  ASSUME NEW m \in Nat, NEW n \in Nat, NEW f, NEW g, Weighs(f, m), Weighs(g, n),
         NEW k \in Nat, k <= m, k <= n
  PROVE  f[k] = g[k]
  <1> DEFINE T == {i \in 0 .. k : f[i] # g[i]}
  <1> SUFFICES ASSUME T # {} PROVE FALSE
    OBVIOUS
  <1>1. T \in SUBSET Nat
    OBVIOUS
  <1>2. PICK i \in T : \A j \in T : i <= j
    BY <1>1, LeastNatural
  <1>3. i # 0
    BY <1>2 DEF Weighs
  <1>4. i \in 1 .. m /\ i \in 1 .. n /\ i - 1 \in 0 .. k /\ ~ (i <= i - 1) /\ f[i] # g[i]
    BY <1>2, <1>3
  <1>5. f[i - 1] = g[i - 1]
    BY <1>2, <1>4
  <1>6. f[i] = 128 * f[i - 1] /\ g[i] = 128 * g[i - 1]
    BY <1>4 DEF Weighs
  <1> QED BY <1>4, <1>5, <1>6

LEMMA WeightIs ==
  /\ Weight[0] = 1
  /\ \A i \in Nat \ {0} : Weight[i] = 128 * Weight[i - 1]
  <1> DEFINE step(f) == [i \in Nat |-> IF i = 0 THEN 1 ELSE 128 * f[i - 1]]
             upTo(i) == CHOOSE f : Weighs(f, i)
             all == [i \in Nat |-> upTo(i)[i]]
  <1>1. \A i \in Nat : Weighs(upTo(i), i)
    BY WeighsExists
  <1> HIDE DEF upTo
  <1>2. all[0] = 1
    BY <1>1 DEF Weighs
  <1>3. ASSUME NEW i \in Nat \ {0} PROVE all[i] = 128 * all[i - 1]
    <2>1. i \in 1 .. i /\ i - 1 \in Nat /\ i - 1 <= i /\ i - 1 <= i - 1
      OBVIOUS
    <2>2. Weighs(upTo(i), i) /\ Weighs(upTo(i - 1), i - 1)
      BY <1>1, <2>1
    <2>3. upTo(i)[i] = 128 * upTo(i)[i - 1]
      BY <2>1, <2>2 DEF Weighs
    <2>4. upTo(i)[i - 1] = upTo(i - 1)[i - 1]
      <3>1. \A f, g : Weighs(f, i) /\ Weighs(g, i - 1) => f[i - 1] = g[i - 1]
        BY <2>1, WeighsAgree
      <3> QED BY <2>2, <3>1
    <2>5. all[i] = upTo(i)[i] /\ all[i - 1] = upTo(i - 1)[i - 1]
      BY <2>1
    <2> QED BY <2>3, <2>4, <2>5
  <1>4. all = step(all)
    BY <1>2, <1>3
  <1>5. Weight = CHOOSE f : f = step(f)
    BY DEF Weight
  <1> HIDE DEF all
  <1>6. Weight = step(Weight)
    BY <1>4, <1>5
  <1>7. \A i \in Nat : Weight[i] = IF i = 0 THEN 1 ELSE 128 * Weight[i - 1]
    BY <1>6
  <1> QED BY <1>7

LEMMA WeightType == \A i \in Nat : Weight[i] \in Nat \ {0}
  <1> DEFINE T == {i \in Nat : Weight[i] \notin Nat \ {0}}
  <1> SUFFICES ASSUME T # {} PROVE FALSE
    OBVIOUS
  <1>1. T \in SUBSET Nat
    OBVIOUS
  <1>2. PICK i \in T : \A j \in T : i <= j
    BY <1>1, LeastNatural
  <1>3. i \in Nat \ {0}
    BY <1>2, WeightIs
  <1>4. i - 1 \in Nat /\ ~ (i <= i - 1)
    BY <1>3
  <1>5. Weight[i - 1] \in Nat \ {0}
    BY <1>2, <1>4
  <1>6. Weight[i] = 128 * Weight[i - 1]
    BY <1>3, WeightIs
  <1> QED BY <1>2, <1>5, <1>6

\* A later digit counts for at least 128 times as much.
LEMMA WeightGrows == \A j \in Nat : \A i \in Nat : i < j => 128 * Weight[i] <= Weight[j]
  <1> DEFINE T == {j \in Nat : ~ \A i \in Nat : i < j => 128 * Weight[i] <= Weight[j]}
  <1> SUFFICES ASSUME T # {} PROVE FALSE
    OBVIOUS
  <1>1. T \in SUBSET Nat
    OBVIOUS
  <1>2. PICK j \in T : \A k \in T : j <= k
    BY <1>1, LeastNatural
  <1>3. PICK i \in Nat : i < j /\ ~ (128 * Weight[i] <= Weight[j])
    BY <1>2
  <1>4. j \in Nat \ {0} /\ j - 1 \in Nat /\ ~ (j <= j - 1)
    BY <1>2, <1>3
  <1>5. Weight[j] = 128 * Weight[j - 1]
    BY <1>4, WeightIs
  <1>6. Weight[j - 1] \in Nat \ {0} /\ Weight[i] \in Nat \ {0}
    BY <1>4, WeightType
  <1>7. CASE i = j - 1
    BY <1>3, <1>5, <1>6, <1>7
  <1>8. CASE i # j - 1
    <2>1. i < j - 1
      BY <1>3, <1>4, <1>8
    <2>2. 128 * Weight[i] <= Weight[j - 1]
      BY <1>2, <1>4, <2>1
    <2> QED BY <1>3, <1>5, <1>6, <2>2
  <1> QED BY <1>7, <1>8

\* What counts for more counts for at least 128 times as much.
LEMMA WeightGap ==
  ASSUME NEW i \in Nat, NEW j \in Nat, Weight[i] < Weight[j]
  PROVE  128 * Weight[i] <= Weight[j]
  <1>1. Weight[i] \in Nat \ {0} /\ Weight[j] \in Nat \ {0}
    BY WeightType
  <1>2. i # j
    BY <1>1
  <1>3. ~ (j < i)
    <2> SUFFICES ASSUME j < i PROVE FALSE
      OBVIOUS
    <2>1. 128 * Weight[j] <= Weight[i]
      BY WeightGrows
    <2> QED BY <1>1, <2>1
  <1>4. i < j
    BY <1>2, <1>3
  <1> QED BY <1>4, WeightGrows

-----------------------------------------------------------------------------
(***************************************************************************)
(* Reading a number that stands there.                                     *)
(***************************************************************************)

\* The weight is a digit's.
Weighed == \E i \in Nat : weight = Weight[i]

\* The number v, whose bytes end before place p, is being read.
Reads(v, p) ==
  \E m \in Nat :
    /\ v = value + weight * m
    /\ m > 0 \/ weight = 1
    /\ At(input, pos, VarintOf[m])
    /\ pos + Len(VarintOf[m]) = p

\* A varint's bytes are its first and the rest.
LEMMA VarintLen ==
  ASSUME NEW v \in Nat
  PROVE  /\ Len(VarintOf[v]) \in Nat \ {0}
         /\ v < 128 => Len(VarintOf[v]) = 1
         /\ v >= 128 => Len(VarintOf[v]) = 1 + Len(VarintOf[v \div 128])
  <1>1. CASE v < 128
    <2>1. v \in 0 .. 127
      BY <1>1
    <2>2. VarintOf[v] = <<v>>
      BY <2>1, VarintDigit
    <2> QED BY <1>1, <2>2
  <1>2. CASE ~ (v < 128)
    <2> DEFINE w == v \div 128
               d == v % 128
               head == <<128 + d>>
               rest == VarintOf[w]
    <2>1. w \in Nat \ {0} /\ d \in 0 .. 127 /\ v = d + 128 * w
      BY <1>2
    <2> HIDE DEF w, d
    <2>2. VarintOf[v] = head \o rest
      BY <2>1, VarintDigit
    <2>3. head \in Seq(Bytes) /\ rest \in Seq(Bytes) /\ Len(head) = 1
      BY <2>1, VarintType DEF Bytes
    <2> HIDE DEF head, rest
    <2>4. Len(head \o rest) = Len(head) + Len(rest)
      BY <2>3, ConcatParts
    <2>5. Len(rest) \in Nat
      BY <2>3, LenProperties
    <2> QED BY <1>2, <2>2, <2>3, <2>4, <2>5 DEF rest, w
  <1> QED BY <1>1, <1>2

LEMMA Carries ==
  ASSUME NEW u \in Nat, NEW k \in Nat, NEW d \in Nat, NEW w \in Nat
  PROVE  u + k * (d + 128 * w) = (u + d * k) + (k * 128) * w
  OBVIOUS

\* The byte at hand is the number's next.
LEMMA ReadsByte ==
  ASSUME IInv, NEW v \in Nat, NEW p \in Nat, Reads(v, p)
  PROVE  /\ p <= limit => HasByte
         /\ TakeDigit => Reads(v, p)'
         /\ Byte < 128 => Shortest /\ Digits = v /\ pos + 1 = p
         /\ Weighed /\ v \in Numbers => Fits
  <1>1. PICK m \in Nat :
          /\ v = value + weight * m
          /\ m > 0 \/ weight = 1
          /\ At(input, pos, VarintOf[m])
          /\ pos + Len(VarintOf[m]) = p
    BY DEF Reads
  <1>2. /\ input \in Seq(Bytes) /\ pos \in Nat /\ limit \in Nat
        /\ value \in Nat /\ weight \in Nat \ {0} /\ limit <= Len(input)
    BY DEF IInv, DecodeTypeOK, WorkWithinInput
  <1>3. /\ pos + 1 \in 1 .. Len(input)
        /\ m < 128 => Byte = m
        /\ m >= 128 => Byte = 128 + (m % 128) /\ At(input, pos + 1, VarintOf[m \div 128])
    BY <1>1, <1>2, VarintAt DEF Byte
  <1>4. /\ Len(VarintOf[m]) \in Nat \ {0}
        /\ m < 128 => Len(VarintOf[m]) = 1
        /\ m >= 128 => Len(VarintOf[m]) = 1 + Len(VarintOf[m \div 128])
    BY VarintLen
  <1>5. p <= limit => HasByte
    BY <1>1, <1>2, <1>4 DEF HasByte
  <1>6. ASSUME TakeDigit PROVE Reads(v, p)'
    <2> DEFINE w == m \div 128
               d == m % 128
    <2>1. m >= 128
      BY <1>3, <1>6 DEF TakeDigit
    <2>2. w \in Nat \ {0} /\ d \in 0 .. 127 /\ m = d + 128 * w
      BY <2>1
    <2>3. Byte = 128 + d /\ At(input, pos + 1, VarintOf[w]) /\ Len(VarintOf[m]) = 1 + Len(VarintOf[w])
      BY <1>3, <1>4, <2>1
    <2> HIDE DEF w, d
    <2>4. /\ input' = input /\ pos' = pos + 1 /\ weight' = weight * 128 /\ value' = value + d * weight
      <3>1. (128 + d) % 128 = d
        BY <2>2
      <3> QED BY <1>6, <2>3, <3>1 DEF TakeDigit, Digits
    <2>5. v = value' + weight' * w
      <3>1. v = value + weight * (d + 128 * w)
        BY <1>1, <2>2
      <3>2. d \in Nat /\ w \in Nat /\ weight \in Nat
        BY <1>2, <2>2
      <3>3. v = (value + d * weight) + (weight * 128) * w
        BY <1>2, <3>1, <3>2, Carries
      <3> QED BY <2>4, <3>3
    <2>6. Len(VarintOf[w]) \in Nat
      BY <2>2, VarintLen
    <2>7. At(input', pos', VarintOf[w])
      BY <2>3, <2>4
    <2>9. pos' + Len(VarintOf[w]) = p
      <3> DEFINE l == Len(VarintOf[w])
      <3>1. l \in Nat /\ pos + (1 + l) = p /\ pos' = pos + 1 /\ pos \in Nat
        BY <1>1, <1>2, <2>3, <2>4, <2>6
      <3> HIDE DEF l
      <3>2. pos' + l = p
        BY <3>1
      <3> QED BY <3>2 DEF l
    <2>8. w \in Nat /\ w > 0
      BY <2>2
    <2> QED BY <2>5, <2>7, <2>8, <2>9 DEF Reads
  <1>7. ASSUME Byte < 128 PROVE Shortest /\ Digits = v /\ pos + 1 = p
    <2>1. m < 128 /\ Byte = m
      <3>1. CASE m < 128
        BY <1>3, <3>1
      <3>2. CASE ~ (m < 128)
        BY <1>3, <1>7, <3>2
      <3> QED BY <3>1, <3>2
    <2>2. m % 128 = m
      BY <2>1
    <2>3. Digits = v
      <3>1. m * weight = weight * m
        BY <1>2
      <3> QED BY <1>1, <2>1, <2>2, <3>1 DEF Digits
    <2>4. Shortest
      BY <1>1, <2>1 DEF Shortest
    <2> QED BY <1>1, <1>4, <2>1, <2>3, <2>4
  <1>8. ASSUME Weighed, v \in Numbers PROVE Fits
    <2>1. PICK i \in Nat : weight = Weight[i]
      BY <1>8 DEF Weighed
    <2>2. Places - 1 \in Nat
      BY SchemaBytesAssumption
    <2>3. LastWeight \in Nat \ {0} /\ v < 2 * LastWeight
      <3>1. LastWeight \in Nat \ {0}
        BY <2>2, WeightType DEF LastWeight
      <3> QED BY <1>8, <3>1 DEF Numbers
    <2>4. Byte % 128 <= m
      <3>1. CASE m < 128
        BY <1>3, <3>1
      <3>2. CASE ~ (m < 128)
        BY <1>3, <3>2
      <3> QED BY <3>1, <3>2
    <2>5. CASE weight < LastWeight
      BY <2>5 DEF Fits
    <2>6. CASE weight = LastWeight
      <3>1. LastWeight * m < 2 * LastWeight
        BY <1>1, <1>2, <2>3, <2>6
      <3>2. m <= 1
        <4> SUFFICES ASSUME m >= 2 PROVE FALSE
          BY <1>2
        <4>1. LastWeight * m >= LastWeight * 2
          BY <2>3
        <4> QED BY <2>3, <3>1, <4>1
      <3>3. Byte % 128 <= 1
        BY <1>3, <2>4, <3>2
      <3> QED BY <2>6, <3>3 DEF Fits
    <2>7. CASE weight > LastWeight
      <3>1. 128 * LastWeight <= weight
        BY <2>1, <2>2, <2>7, WeightGap DEF LastWeight
      <3>2. m > 0
        BY <1>1, <2>3, <2>7
      <3>3. weight * m >= weight
        BY <1>2, <3>2
      <3> QED BY <1>1, <1>2, <2>3, <3>1, <3>3
    <2> QED BY <1>2, <2>3, <2>5, <2>6, <2>7
  <1> QED BY <1>5, <1>6, <1>7, <1>8

-----------------------------------------------------------------------------
(***************************************************************************)
(* The stack holds the children that are due.                              *)
(***************************************************************************)

Slots == [parent : Nat, level : Nat]

\* The children one node of the stack waits for.
Copies(frame, level) == [x \in 1 .. frame.left |-> Slot(frame.tag, level)]

\* The children all of them wait for, the next one last.
Pending(frames) == FlattenSeq([i \in 1 .. Len(frames) |-> Copies(frames[i], i)])

\* The top of the stack waits for one less.
Lowered(frames) == [frames EXCEPT ![Len(frames)].left = @ - 1]

LEMMA CopiesType ==
  ASSUME NEW f \in Frames, NEW level \in Nat
  PROVE  Copies(f, level) \in Seq(Slots)
  <1>1. f.left \in Nat /\ f.tag \in Nat
    BY DEF Frames, NodeTag, NodeTags, ShapeTags, Shape
  <1>2. Slot(f.tag, level) \in Slots
    BY <1>1 DEF Slot, Slots
  <1> QED BY <1>1, <1>2 DEF Copies

\* A sequence is its first ones and its last.
LEMMA FrontAndLast ==
  ASSUME NEW S, NEW s \in Seq(S), s # << >>
  PROVE  /\ Len(s) \in Nat \ {0} /\ s[Len(s)] \in S
         /\ Front(s) \in Seq(S) /\ Len(Front(s)) = Len(s) - 1
         /\ s = Append(Front(s), s[Len(s)])
  <1>1. Len(s) \in Nat \ {0}
    BY EmptySeq
  <1>2. Len(s) \in 1 .. Len(s)
    BY <1>1
  <1>3. SubSeq(s, 1, Len(s)) = s
    BY FirstOnes
  <1>4. s[Len(s)] \in S /\ SubSeq(s, 1, Len(s)) = Append(SubSeq(s, 1, Len(s) - 1), s[Len(s)])
    BY <1>2, FirstOnes
  <1>5. Front(s) = SubSeq(s, 1, Len(s) - 1)
    BY DEF Front
  <1>6. Front(s) \in Seq(S) /\ Len(Front(s)) = Len(s) - 1
    BY FrontType
  <1> QED BY <1>1, <1>3, <1>4, <1>5, <1>6

LEMMA OffAppend ==
  ASSUME NEW S, NEW s \in Seq(S), NEW x \in S
  PROVE  /\ Append(s, x) \in Seq(S) /\ Append(s, x) # << >>
         /\ Front(Append(s, x)) = s /\ Last(Append(s, x)) = x
  <1> DEFINE t == Append(s, x)
  <1>1. /\ t \in Seq(S) /\ Len(s) \in Nat /\ Len(t) = Len(s) + 1
        /\ \A i \in 1 .. Len(s) : t[i] = s[i]
        /\ t[Len(s) + 1] = x
    BY AppendProperties, LenProperties
  <1> HIDE DEF t
  <1>2. t # << >>
    BY <1>1, EmptySeq
  <1>3. Last(t) = x
    BY <1>1 DEF Last
  <1>4. Front(t) \in Seq(S) /\ Len(Front(t)) = Len(s)
    <2>1. Front(t) \in Seq(S) /\ Len(Front(t)) = Len(t) - 1
      BY <1>1, <1>2, FrontType
    <2> QED BY <1>1, <2>1
  <1>5. \A i \in 1 .. Len(s) : Front(t)[i] = s[i]
    BY <1>1 DEF Front
  <1>6. Front(t) = s
    BY <1>4, <1>5, SeqEqual
  <1> QED BY <1>1, <1>2, <1>3, <1>6 DEF t

\* What the top waits for stands last.
LEMMA PendingAppend ==
  ASSUME NEW frames \in Seq(Frames), NEW f \in Frames
  PROVE  /\ Pending(frames) \in Seq(Slots)
         /\ Pending(Append(frames, f)) = Pending(frames) \o Copies(f, Len(frames) + 1)
  <1> DEFINE n == Len(frames)
             more == Append(frames, f)
             columns == [i \in 1 .. n |-> Copies(frames[i], i)]
             column == Copies(f, n + 1)
             all == [i \in 1 .. Len(more) |-> Copies(more[i], i)]
  <1>1. n \in Nat /\ \A i \in 1 .. n : frames[i] \in Frames
    BY LenProperties, ElementOfSeq
  <1>2. Len(more) = n + 1 /\ more[n + 1] = f /\ \A i \in 1 .. n : more[i] = frames[i]
    BY AppendProperties
  <1> HIDE DEF n, more
  <1>3. columns \in Seq(Seq(Slots)) /\ Len(columns) = n /\ \A i \in 1 .. n : columns[i] = Copies(frames[i], i)
    <2>1. \A i \in 1 .. n : Copies(frames[i], i) \in Seq(Slots)
      <3> SUFFICES ASSUME NEW i \in 1 .. n PROVE Copies(frames[i], i) \in Seq(Slots)
        OBVIOUS
      <3>1. i \in Nat
        BY <1>1
      <3> QED BY <1>1, <3>1, CopiesType
    <2> QED BY <1>1, <2>1
  <1>4. column \in Seq(Slots)
    <2>1. n + 1 \in Nat
      BY <1>1
    <2> QED BY <2>1, CopiesType
  <1>5. all = Append(columns, column)
    <2> DEFINE longer == Append(columns, column)
    <2>1. /\ longer \in Seq(Seq(Slots)) /\ Len(longer) = n + 1
          /\ longer[n + 1] = column /\ \A i \in 1 .. n : longer[i] = columns[i]
      <3> HIDE DEF columns, column
      <3> QED BY <1>3, <1>4, AppendProperties
    <2>2. all = [i \in 1 .. n + 1 |-> Copies(more[i], i)]
      BY <1>2
    <2>3. ASSUME NEW i \in 1 .. n + 1 PROVE longer[i] = Copies(more[i], i)
      <3> HIDE DEF longer
      <3>1. CASE i = n + 1
        BY <1>2, <2>1, <3>1
      <3>2. CASE i # n + 1
        <4>1. i \in 1 .. n
          BY <1>1, <3>2
        <4> QED BY <1>2, <1>3, <2>1, <4>1
      <3> QED BY <3>1, <3>2
    <2>4. longer = [i \in 1 .. n + 1 |-> longer[i]]
      <3> HIDE DEF longer
      <3> QED BY <1>1, <2>1
    <2> HIDE DEF longer, all
    <2> QED BY <2>2, <2>3, <2>4 DEF longer
  <1> HIDE DEF columns, column, all
  <1>6. FlattenSeq(columns) \in Seq(Slots) /\ FlattenSeq(all) = FlattenSeq(columns) \o column
    BY <1>3, <1>4, <1>5, FlattenAppend
  <1>7. Pending(frames) = FlattenSeq(columns) /\ Pending(more) = FlattenSeq(all)
    BY DEF Pending, columns, all, n
  <1> QED BY <1>6, <1>7 DEF more, column, n

LEMMA PendingNothing == Pending(<< >>) = << >>
  <1>1. [i \in 1 .. Len(<< >>) |-> Copies(<< >>[i], i)] = << >>
    OBVIOUS
  <1> QED BY <1>1, FlattenNothing DEF Pending

\* One more copy.
LEMMA CopiesMore ==
  ASSUME NEW f \in Frames, f.left > 0, NEW level \in Nat
  PROVE  /\ [f EXCEPT !.left = @ - 1] \in Frames
         /\ Slot(f.tag, level) \in Slots
         /\ Copies(f, level) = Append(Copies([f EXCEPT !.left = @ - 1], level), Slot(f.tag, level))
  <1> DEFINE g == [f EXCEPT !.left = @ - 1]
             x == Slot(f.tag, level)
             m == f.left - 1
             s == [i \in 1 .. m |-> x]
             t == [i \in 1 .. m + 1 |-> x]
  <1>1. f.left \in Nat /\ f.tag \in Nat /\ g \in Frames /\ g.left = m /\ g.tag = f.tag
    BY DEF Frames, NodeTag, NodeTags, ShapeTags, Shape
  <1>2. x \in Slots /\ m \in Nat /\ m + 1 = f.left
    BY <1>1 DEF Slot, Slots
  <1>3. Copies(f, level) = t /\ Copies(g, level) = s
    BY <1>1, <1>2 DEF Copies
  <1> HIDE DEF x, m
  <1>4. /\ s \in Seq(Slots) /\ Len(s) = m
        /\ t \in Seq(Slots) /\ Len(t) = m + 1
        /\ \A i \in 1 .. m : s[i] = x
        /\ \A i \in 1 .. m + 1 : t[i] = x
    BY <1>2
  <1> HIDE DEF s, t
  <1>5. /\ Append(s, x) \in Seq(Slots) /\ Len(Append(s, x)) = m + 1
        /\ \A i \in 1 .. m : Append(s, x)[i] = s[i]
        /\ Append(s, x)[m + 1] = x
    BY <1>2, <1>4, AppendProperties
  <1>6. ASSUME NEW i \in 1 .. m + 1 PROVE t[i] = Append(s, x)[i]
    <2>1. CASE i = m + 1
      BY <1>4, <1>5, <2>1
    <2>2. CASE i # m + 1
      <3>1. i \in 1 .. m
        BY <1>2, <2>2
      <3> QED BY <1>4, <1>5, <3>1
    <2> QED BY <2>1, <2>2
  <1>7. t = Append(s, x)
    BY <1>4, <1>5, <1>6, SeqEqual
  <1> HIDE DEF g
  <1> QED BY <1>1, <1>2, <1>3, <1>7 DEF g, x

\* The next child is the top's.
LEMMA PendingTop ==
  ASSUME NEW frames \in Seq(Frames), frames # << >>, frames[Len(frames)].left > 0
  PROVE  /\ Lowered(frames) \in Seq(Frames) /\ Len(Lowered(frames)) = Len(frames)
         /\ Pending(Lowered(frames)) \in Seq(Slots)
         /\ Slot(frames[Len(frames)].tag, Len(frames)) \in Slots
         /\ Pending(frames) =
              Append(Pending(Lowered(frames)), Slot(frames[Len(frames)].tag, Len(frames)))
  <1> DEFINE n == Len(frames)
             rest == Front(frames)
             top == frames[n]
             low == [top EXCEPT !.left = @ - 1]
             fewer == Append(rest, low)
             slot == Slot(top.tag, n)
  <1>1. /\ n \in Nat \ {0} /\ top \in Frames /\ rest \in Seq(Frames) /\ Len(rest) = n - 1
        /\ frames = Append(rest, top)
    BY FrontAndLast
  <1>2. low \in Frames /\ slot \in Slots /\ Copies(top, n) = Append(Copies(low, n), slot)
    BY <1>1, CopiesMore
  <1>3. Copies(low, n) \in Seq(Slots)
    BY <1>1, <1>2, CopiesType
  <1>4. Lowered(frames) = fewer /\ fewer \in Seq(Frames) /\ Len(fewer) = n
    <2>1. Lowered(frames) = [frames EXCEPT ![n] = low]
      BY DEF Lowered
    <2>2. n \in 1 .. n
      BY <1>1
    <2> HIDE DEF low, top, n, rest
    <2>3. /\ fewer \in Seq(Frames) /\ Len(fewer) = n
          /\ fewer[n] = low
          /\ \A i \in 1 .. n - 1 : fewer[i] = rest[i]
      <3>1. /\ fewer \in Seq(Frames) /\ Len(fewer) = Len(rest) + 1
            /\ fewer[Len(rest) + 1] = low
            /\ \A i \in 1 .. Len(rest) : fewer[i] = rest[i]
        BY <1>1, <1>2, AppendProperties
      <3> HIDE DEF fewer
      <3> QED BY <1>1, <3>1
    <2>4. \A i \in 1 .. n - 1 : frames[i] = rest[i]
      <3>1. \A i \in 1 .. Len(rest) : Append(rest, top)[i] = rest[i]
        BY <1>1, AppendProperties
      <3> QED BY <1>1, <3>1
    <2> DEFINE lowered == [frames EXCEPT ![n] = low]
    <2>5. lowered \in Seq(Frames) /\ Len(lowered) = n /\ lowered[n] = low
          /\ \A i \in 1 .. n - 1 : lowered[i] = frames[i]
      <3>1. Len(frames) = n
        BY DEF n
      <3>2. lowered \in Seq(Frames) /\ Len(lowered) = n
        BY <1>2, <2>2, <3>1, ExceptSeq
      <3>3. DOMAIN frames = 1 .. n /\ \A i \in 1 .. n - 1 : i \in 1 .. n /\ i # n
        BY <1>1, <3>1
      <3>4. lowered[n] = low
        BY <2>2, <3>3, Zenon
      <3>5. \A i \in 1 .. n - 1 : lowered[i] = frames[i]
        BY <3>3, Zenon
      <3> QED BY <3>2, <3>4, <3>5
    <2> HIDE DEF fewer, lowered
    <2>6. ASSUME NEW i \in 1 .. n PROVE lowered[i] = fewer[i]
      <3>1. CASE i = n
        BY <2>3, <2>5, <3>1
      <3>2. CASE i # n
        <4>1. i \in 1 .. n - 1
          BY <1>1, <3>2
        <4> QED BY <2>3, <2>4, <2>5, <4>1
      <3> QED BY <3>1, <3>2
    <2>7. lowered = fewer
      BY <2>3, <2>5, <2>6, SeqEqual
    <2> QED BY <2>1, <2>3, <2>7 DEF lowered
  <1> HIDE DEF n, rest, top, low, slot
  <1>5. /\ Pending(rest) \in Seq(Slots)
        /\ Pending(Append(rest, top)) = Pending(rest) \o Copies(top, Len(rest) + 1)
    BY <1>1, PendingAppend
  <1>6. Pending(Append(rest, low)) = Pending(rest) \o Copies(low, Len(rest) + 1)
    BY <1>1, <1>2, PendingAppend
  <1>7. Len(rest) + 1 = n
    BY <1>1
  <1>8. Pending(rest) \o Append(Copies(low, n), slot) = Append(Pending(rest) \o Copies(low, n), slot)
    <2> DEFINE s == Pending(rest)
               t == Copies(low, n)
    <2>1. s \in Seq(Slots) /\ t \in Seq(Slots) /\ slot \in Slots
      BY <1>2, <1>3, <1>5
    <2> HIDE DEF s, t
    <2>2. s \o Append(t, slot) = Append(s \o t, slot)
      <3>1. <<slot>> \in Seq(Slots)
        BY <2>1
      <3>2. s \o (t \o <<slot>>) = (s \o t) \o <<slot>>
        <4>1. Associates(s, t, <<slot>>)
          BY <2>1, <3>1, Associative
        <4> QED BY <4>1 DEF Associates
      <3>3. s \o t \in Seq(Slots)
        BY <2>1, ConcatProperties, Zenon
      <3>4. Append(t, slot) = t \o <<slot>> /\ Append(s \o t, slot) = (s \o t) \o <<slot>>
        BY <2>1, <3>3, AppendIsConcat
      <3> QED BY <3>2, <3>4
    <2> QED BY <2>2 DEF s, t
  <1>9. Pending(rest) \o Copies(low, n) \in Seq(Slots)
    BY <1>3, <1>5, ConcatProperties, Zenon
  <1> QED BY <1>1, <1>2, <1>4, <1>5, <1>6, <1>7, <1>8, <1>9 DEF slot, top, n

\* Once its children are read, the top waits for nothing.
LEMMA PendingReturn ==
  ASSUME NEW frames \in Seq(Frames), frames # << >>, frames[Len(frames)].left = 0
  PROVE  Pending(Front(frames)) = Pending(frames)
  <1> DEFINE rest == Front(frames)
             top == frames[Len(frames)]
  <1>1. top \in Frames /\ rest \in Seq(Frames) /\ frames = Append(rest, top)
    BY FrontAndLast
  <1>2. Copies(top, Len(rest) + 1) = << >>
    BY DEF Copies
  <1> HIDE DEF rest, top
  <1>3. Pending(rest) \in Seq(Slots) /\ Pending(frames) = Pending(rest) \o << >>
    BY <1>1, <1>2, PendingAppend
  <1>4. Pending(rest) \o << >> = Pending(rest)
    BY <1>3, ConcatEmptySeq
  <1> QED BY <1>3, <1>4 DEF rest

NodePhases == {"labelLen", "tag", "nameLen", "count"}

\* The children due, the next one last.
Awaits == IF nodes = << >> THEN <<Slot(0, 0)>> ELSE Pending(stack)

\* Nodes are on the stack once there are any, and a node is read only where one
\* is due.
Stacked ==
  /\ nodes = << >> => stack = << >>
  /\ phase \in NodePhases \union {"version"} /\ stack = << >> => nodes = << >>

\* The top of the stack waits for a child.
Waits ==
  /\ nodes = << >> <=> stack = << >>
  /\ stack # << >> => stack[Len(stack)].left > 0

\* It does wherever a node is read.
LEMMA WaitsHere ==
  ASSUME IInv, Stacked, phase \in NodePhases \union {"version"}
  PROVE  Waits
  BY DEF Waits, Stacked, IInv, Awaited, Untouched, NodePhases

\* The stack when the next child has left it.
Left == IF stack = << >> THEN << >> ELSE Lowered(stack)

\* The next child's parent is the top of the stack.
LEMMA AwaitsTop ==
  ASSUME IInv, Waits
  PROVE  /\ Left \in Seq(Frames) /\ Len(Left) = Len(stack)
         /\ Pending(Left) \in Seq(Slots)
         /\ Awaits # << >>
         /\ Front(Awaits) = Pending(Left)
         /\ Last(Awaits) = Slot(Parent, Len(stack))
  <1>1. stack \in Seq(Frames) /\ Len(stack) \in Nat
    BY LenProperties DEF IInv, DecodeTypeOK, Frames, NodeTag
  <1>2. CASE stack = << >>
    <2> DEFINE slot == Slot(0, 0)
    <2>1. nodes = << >> /\ Left = << >> /\ Parent = 0 /\ Len(stack) = 0
      BY <1>2 DEF Waits, Left, Parent
    <2>2. slot \in Slots /\ Awaits = <<slot>>
      BY <2>1 DEF Awaits, Slot, Slots
    <2>3. << >> \in Seq(Frames) /\ << >> \in Seq(Slots)
      OBVIOUS
    <2> HIDE DEF slot
    <2>4. Append(<< >>, slot) = <<slot>>
      BY <2>2
    <2>5. Awaits # << >> /\ Front(Awaits) = << >> /\ Last(Awaits) = slot
      BY <2>2, <2>3, <2>4, OffAppend
    <2> QED BY <2>1, <2>3, <2>5, PendingNothing DEF slot
  <1>3. CASE stack # << >>
    <2> DEFINE slot == Slot(stack[Len(stack)].tag, Len(stack))
    <2>1. nodes # << >> /\ Left = Lowered(stack) /\ Slot(Parent, Len(stack)) = slot
      BY <1>3 DEF Waits, Left, Parent
    <2>2. stack[Len(stack)].left > 0
      BY <1>3 DEF Waits
    <2>3. /\ Lowered(stack) \in Seq(Frames) /\ Len(Lowered(stack)) = Len(stack)
          /\ Pending(Lowered(stack)) \in Seq(Slots)
          /\ slot \in Slots
          /\ Pending(stack) = Append(Pending(Lowered(stack)), slot)
      BY <1>1, <1>3, <2>2, PendingTop
    <2>4. Awaits = Append(Pending(Lowered(stack)), slot)
      BY <2>1, <2>3 DEF Awaits
    <2> HIDE DEF slot
    <2>5. Awaits # << >> /\ Front(Awaits) = Pending(Lowered(stack)) /\ Last(Awaits) = slot
      BY <2>3, <2>4, OffAppend
    <2> QED BY <2>1, <2>3, <2>5
  <1> QED BY <1>2, <1>3

\* Entering a node leaves its children due.
LEMMA EnterAwaits ==
  ASSUME IInv, Waits, NEW n \in NodeRecords, Children(n) \in Nat, Enter(n)
  PROVE  Awaits' = DueAfter(Awaits, n)
  <1> DEFINE frame == Waiting(n)
             copies == Copies(frame, Len(stack) + 1)
  <1>1. /\ Left \in Seq(Frames) /\ Len(Left) = Len(stack)
        /\ Front(Awaits) = Pending(Left)
        /\ Last(Awaits) = Slot(Parent, Len(stack))
    BY AwaitsTop
  <1>2. frame \in Frames
    BY DEF Waiting, Frames, NodeTag, NodeRecords
  <1>3. stack' = Append(Left, frame)
    BY DEF Enter, Entered, Left, Lowered
  <1>4. Pending(Append(Left, frame)) = Pending(Left) \o Copies(frame, Len(Left) + 1)
    BY <1>1, <1>2, PendingAppend
  <1>5. copies = [i \in 1 .. Children(n) |-> Slot(n.tag, Last(Awaits).level + 1)]
    BY <1>1 DEF Copies, Waiting, Slot
  <1>6. nodes' # << >>
    BY AppendProperties DEF Enter, IInv, DecodeTypeOK
  <1>7. Awaits' = Pending(stack')
    BY <1>6 DEF Awaits
  <1> HIDE DEF frame, copies
  <1>8. Pending(stack') = Pending(Left) \o copies
    BY <1>1, <1>3, <1>4 DEF copies
  <1> QED BY <1>1, <1>5, <1>7, <1>8 DEF DueAfter

-----------------------------------------------------------------------------
(***************************************************************************)
(* A schema that stands in the input is read node for node.                *)
(***************************************************************************)

SchemaPhases == NodePhases \union {"version", "next", "accepted"}

\* The schema ns stands where the schema is read.
Holds(ns) == At(input, start, ToBytes(ns))

\* Its next node, and where that begins.
Upcoming(ns) == ns[Len(nodes) + 1]
Place == start + Len(ToBytes(nodes))
TagAt(n) == Place + Len(LabelBytes(n))

\* What is known of the next node.
KnownOf(n) ==
  CASE phase = "tag" -> Node(n.label, 0, << >>, << >>)
    [] phase = "nameLen" -> Node(n.label, n.tag, << >>, << >>)
    [] phase = "count" -> Node(n.label, n.tag, n.name, << >>)
    [] OTHER -> NoNode

\* The number being read, and where it begins.
NumberOf(n) ==
  CASE phase = "version" -> 1
    [] phase = "labelLen" -> Len(n.label[1])
    [] phase = "nameLen" -> Len(n.name[1])
    [] OTHER -> n.count[1]

NumberFrom(n) ==
  CASE phase = "version" -> start
    [] phase = "labelLen" -> Place
    [] phase = "nameLen" -> TagAt(n) + 1
    [] OTHER -> TagAt(n) + 1 + Len(NameBytes(n))

Upto(n) == NumberFrom(n) + Len(VarintOf[NumberOf(n)])

\* The part is there.
Present(n) ==
  /\ phase = "labelLen" => n.label # << >>
  /\ phase = "nameLen" => n.name # << >>
  /\ phase = "count" => n.count # << >>

Reached(n) ==
  /\ node = KnownOf(n)
  /\ Present(n)
  /\ phase = "tag" => pos = TagAt(n)
  /\ phase # "tag" => Reads(NumberOf(n), Upto(n))

\* The nodes read are the first of ns, none too deep, and the stack waits for
\* the others.
Along(ns) ==
  /\ Len(nodes) <= Len(ns) /\ nodes = SubSeq(ns, 1, Len(nodes))
  /\ Due(ns)[Len(nodes)] = Awaits
  /\ \A j \in 1 .. Len(nodes) : ~ (Last(Due(ns)[j - 1]).level >= MaxDepth)

Following(ns) ==
  /\ Along(ns)
  /\ Stacked
  /\ phase \in NodePhases \union {"version"} => Len(nodes) < Len(ns) /\ Reached(Upcoming(ns))
  /\ phase \in {"next", "accepted"} => nodes # << >> /\ pos = Place
  /\ phase = "accepted" => stack = << >> /\ pos = limit

Follows(ns) == Holds(ns) /\ phase \in SchemaPhases => Following(ns)

-----------------------------------------------------------------------------

\* The next node, as the decoder meets it.
LEMMA NextNode ==
  ASSUME IInv, NEW ns, Whole(ns), Holds(ns), Along(ns), Waits, Len(nodes) < Len(ns)
  PROVE  /\ Upcoming(ns) \in NodeRecords
         /\ Placed(Upcoming(ns), Parent)
         /\ Place \in Nat
         /\ At(input, Place, BytesOf(Upcoming(ns)))
         /\ SubSeq(ns, 1, Len(nodes) + 1) = Append(nodes, Upcoming(ns))
         /\ Due(ns)[Len(nodes) + 1] = DueAfter(Awaits, Upcoming(ns))
         /\ Last(Due(ns)[Len(nodes)]).level = Len(stack)
  <1> DEFINE k == Len(nodes)
             size == Len(ns)
  <1>1. /\ input \in Seq(Bytes) /\ start \in Nat /\ nodes \in Seq(NodeRecords)
        /\ ns \in Seq(NodeRecords) /\ k \in Nat /\ size \in Nat
    BY LenProperties DEF IInv, DecodeTypeOK, Whole
  <1>2. /\ k + 1 \in 1 .. size /\ k \in 0 .. size /\ k < size /\ (k + 1) - 1 = k
        /\ nodes = SubSeq(ns, 1, k) /\ Due(ns)[k] = Awaits
    BY <1>1 DEF Along
  <1>3. Upcoming(ns) = ns[k + 1]
    BY DEF Upcoming
  <1>4. Place = start + Len(ToBytes(SubSeq(ns, 1, k)))
    BY <1>2 DEF Place
  <1> HIDE DEF k, size
  <1>5. ns[k + 1] \in NodeRecords /\ SubSeq(ns, 1, k + 1) = Append(SubSeq(ns, 1, k), ns[k + 1])
    BY <1>1, <1>2, FirstOnes DEF size
  <1>6. Placed(ns[k + 1], Parent) /\ Last(Due(ns)[k]).level = Len(stack)
    <2>1. Last(Awaits) = Slot(Parent, Len(stack))
      BY AwaitsTop
    <2>2. Placed(ns[k + 1], Last(Due(ns)[k]).parent)
      BY <1>2 DEF Whole, Growing, size
    <2> QED BY <1>2, <2>1, <2>2 DEF Slot
  <1>7. ToBytes(SubSeq(ns, 1, k)) \in Seq(Bytes)
    BY <1>1, <1>2, SchemaAt DEF Holds, size
  <1>8. Place \in Nat
    BY <1>1, <1>4, <1>7, LenProperties
  <1>9. At(input, Place, BytesOf(ns[k + 1]))
    <2>1. At(input, start + Len(ToBytes(SubSeq(ns, 1, (k + 1) - 1))), BytesOf(ns[k + 1]))
      BY <1>1, <1>2, SchemaAt DEF Holds, size
    <2> QED BY <1>2, <1>4, <2>1
  <1>10. Due(ns)[k + 1] = DueAfter(Awaits, ns[k + 1])
    <2>1. \A i \in 1 .. size : Due(ns)[i] = DueAfter(Due(ns)[i - 1], ns[i])
      BY <1>1, DueIs DEF size
    <2>2. Due(ns)[k + 1] = DueAfter(Due(ns)[(k + 1) - 1], ns[k + 1])
      BY <1>2, <2>1
    <2> QED BY <1>2, <2>2
  <1> QED BY <1>2, <1>3, <1>5, <1>6, <1>8, <1>9, <1>10 DEF k

\* A node is as long as its parts.
LEMMA NodeParts ==
  ASSUME NEW n \in NodeRecords
  PROVE  /\ Len(LabelBytes(n)) \in Nat /\ Len(NameBytes(n)) \in Nat /\ Len(CountBytes(n)) \in Nat
         /\ Len(BytesOf(n)) = Len(LabelBytes(n)) + 1 + Len(NameBytes(n)) + Len(CountBytes(n))
  <1> DEFINE label == LabelBytes(n)
             tag == <<n.tag % 32>>
             name == NameBytes(n)
             count == CountBytes(n)
  <1>1. /\ label \in Seq(Bytes) /\ tag \in Seq(Bytes) /\ name \in Seq(Bytes) /\ count \in Seq(Bytes)
        /\ BytesOf(n) = label \o tag \o name \o count
    BY NodeBytes DEF BytesOf
  <1>2. Len(tag) = 1
    OBVIOUS
  <1>3. Len(label) \in Nat /\ Len(name) \in Nat /\ Len(count) \in Nat
    BY <1>1, LenProperties
  <1> HIDE DEF label, tag, name, count
  <1>4. label \o tag \in Seq(Bytes)
    BY <1>1, ConcatProperties, Zenon
  <1>5. Len(label \o tag) = Len(label) + Len(tag)
    BY <1>1, ConcatParts
  <1>6. (label \o tag) \o name \in Seq(Bytes)
    BY <1>1, <1>4, ConcatProperties, Zenon
  <1>7. Len((label \o tag) \o name) = Len(label \o tag) + Len(name)
    BY <1>1, <1>4, ConcatParts
  <1>8. Len(((label \o tag) \o name) \o count) = Len((label \o tag) \o name) + Len(count)
    BY <1>1, <1>6, ConcatParts
  <1>9. Len(BytesOf(n)) = Len(label) + 1 + Len(name) + Len(count)
    BY <1>1, <1>2, <1>3, <1>5, <1>7, <1>8
  <1> QED BY <1>3, <1>9 DEF label, name, count

\* A text's bytes are its length's and its own.
LEMMA TextAt ==
  ASSUME NEW b \in Seq(Bytes), NEW p \in Nat, NEW t \in Texts, At(b, p, TextOf(t))
  PROVE  /\ Len(t) \in Nat /\ Len(VarintOf[Len(t)]) \in Nat
         /\ Len(TextOf(t)) = Len(VarintOf[Len(t)]) + Len(t)
         /\ At(b, p, VarintOf[Len(t)])
         /\ p + Len(VarintOf[Len(t)]) + Len(t) <= Len(b)
         /\ SubSeq(b, p + Len(VarintOf[Len(t)]) + 1, p + Len(VarintOf[Len(t)]) + Len(t)) = t
  <1> DEFINE m == Len(t)
             s == VarintOf[m]
             q == p + Len(s)
             cut == SubSeq(b, q + 1, q + m)
  <1>1. t \in Seq(Bytes) /\ m \in Nat
    BY LenProperties DEF Texts
  <1>2. s \in Seq(Bytes)
    BY <1>1, VarintType
  <1>3. TextOf(t) = s \o t
    BY DEF TextOf
  <1> HIDE DEF m, s
  <1>4. Len(s \o t) = Len(s) + Len(t) /\ Len(s) \in Nat
    BY <1>1, <1>2, ConcatParts, LenProperties
  <1>5. At(b, p, s) /\ At(b, p + Len(s), t)
    BY <1>1, <1>2, <1>3, AtConcat
  <1>6. Len(b) \in Nat /\ q \in Nat /\ q + m <= Len(b) /\ \A i \in 1 .. m : b[q + i] = t[i]
    BY <1>1, <1>4, <1>5, LenProperties DEF At, m
  <1> HIDE DEF q
  <1>7. cut \in Seq(Bytes) /\ Len(cut) = m /\ \A i \in 1 .. m : cut[i] = b[q + i]
    BY <1>1, <1>6
  <1> HIDE DEF cut
  <1>8. \A i \in 1 .. m : cut[i] = t[i]
    BY <1>6, <1>7
  <1>9. cut = t
    BY <1>1, <1>7, <1>8, SeqEqual DEF m
  <1> QED BY <1>1, <1>3, <1>4, <1>5, <1>6, <1>9 DEF cut, q, s, m

\* A number that stands where it is read is begun.
LEMMA ReadsAnew ==
  ASSUME NEW v \in Nat, NEW q \in Nat, value' = 0, weight' = 1, pos' = q, input' = input,
         At(input, q, VarintOf[v])
  PROVE  Reads(v, q + Len(VarintOf[v]))'
  <1>1. v = value' + weight' * v
    OBVIOUS
  <1>2. At(input', pos', VarintOf[v]) /\ pos' + Len(VarintOf[v]) = q + Len(VarintOf[v])
    OBVIOUS
  <1> QED BY <1>1, <1>2 DEF Reads

LEMMA OneInNumbers == 1 \in Numbers /\ Numbers \subseteq Nat
  <1>1. Places - 1 \in Nat
    BY SchemaBytesAssumption
  <1>2. LastWeight \in Nat \ {0}
    BY <1>1, WeightType DEF LastWeight
  <1> QED BY <1>2 DEF Numbers

\* The number being read is one of the next node's.
LEMMA NumberIs ==
  ASSUME IInv, NEW n \in NodeRecords, Placed(n, Parent), Present(n), Place \in Nat,
         phase \in {"version", "labelLen", "nameLen", "count"}
  PROVE  /\ NumberOf(n) \in Numbers /\ NumberOf(n) \in Nat
         /\ NumberFrom(n) \in Nat /\ Upto(n) \in Nat
  <1>1. NumberOf(n) \in Numbers
    BY OneInNumbers DEF NumberOf, Placed, Present, IsText
  <1>2. NumberOf(n) \in Nat
    BY <1>1, OneInNumbers
  <1>3. Len(VarintOf[NumberOf(n)]) \in Nat
    BY <1>2, VarintLen
  <1>4. Len(LabelBytes(n)) \in Nat /\ Len(NameBytes(n)) \in Nat
    BY NodeParts
  <1>5. NumberFrom(n) \in Nat
    <2>1. start \in Nat
      BY DEF IInv, DecodeTypeOK
    <2>2. TagAt(n) \in Nat
      BY <1>4 DEF TagAt
    <2> QED BY <1>4, <2>1, <2>2 DEF NumberFrom
  <1> QED BY <1>1, <1>2, <1>3, <1>5 DEF Upto

\* What holds where a node or the version is read.
LEMMA NodeAhead ==
  ASSUME IInv, NEW ns, Whole(ns), Holds(ns), Following(ns),
         phase \in NodePhases \union {"version"}
  PROVE  /\ Waits /\ Along(ns) /\ Len(nodes) < Len(ns) /\ Reached(Upcoming(ns))
         /\ Upcoming(ns) \in NodeRecords
         /\ Placed(Upcoming(ns), Parent)
         /\ Place \in Nat
         /\ At(input, Place, BytesOf(Upcoming(ns)))
  <1>1. Waits
    BY WaitsHere DEF Following
  <1>2. Along(ns) /\ Len(nodes) < Len(ns) /\ Reached(Upcoming(ns))
    BY DEF Following
  <1> QED BY <1>1, <1>2, NextNode

\* A digit is taken of the number that stands there.
LEMMA DigitFollows ==
  ASSUME IInv, NEW ns, Whole(ns), Holds(ns), Following(ns), phase \in SchemaPhases, TakeDigit
  PROVE  Following(ns)'
  <1>1. phase \in {"version", "labelLen", "nameLen", "count"}
    BY DEF TakeDigit, SchemaPhases, NodePhases, VarintPhases
  <1>2. phase \in NodePhases \union {"version"}
    BY <1>1 DEF NodePhases
  <1>3. /\ Waits /\ Along(ns) /\ Len(nodes) < Len(ns) /\ Reached(Upcoming(ns))
        /\ Upcoming(ns) \in NodeRecords /\ Placed(Upcoming(ns), Parent) /\ Place \in Nat
    BY <1>2, NodeAhead
  <1>4. NumberOf(Upcoming(ns)) \in Nat /\ Upto(Upcoming(ns)) \in Nat
    BY <1>1, <1>3, NumberIs DEF Reached
  <1>5. PICK v \in Nat : v = NumberOf(Upcoming(ns))
    BY <1>4
  <1>6. PICK p \in Nat : p = Upto(Upcoming(ns))
    BY <1>4
  <1>7. Reads(v, p)
    BY <1>1, <1>3, <1>5, <1>6 DEF Reached
  <1>8. Reads(v, p)'
    BY <1>7, ReadsByte
  <1>9. UNCHANGED <<input, start, limit, phase, node, stack, nodes, reserved>>
    BY DEF TakeDigit
  <1>10. v = NumberOf(Upcoming(ns))' /\ p = Upto(Upcoming(ns))'
    BY <1>5, <1>6, <1>9 DEF NumberOf, Upto, NumberFrom, Upcoming, TagAt, Place
  <1>11. Reads(NumberOf(Upcoming(ns)), Upto(Upcoming(ns)))'
    BY <1>8, <1>10 DEF Reads
  <1>12. Reached(Upcoming(ns))'
    BY <1>1, <1>3, <1>9, <1>11 DEF Reached, KnownOf, Present, Upcoming
  <1>13. Along(ns)' /\ Stacked'
    BY <1>9 DEF Following, Along, Stacked, Awaits
  <1> QED BY <1>1, <1>3, <1>9, <1>12, <1>13 DEF Following

\* Where a number ends it is the node's.
LEMMA NumberFollows ==
  ASSUME IInv, NEW ns, Whole(ns), Holds(ns), Following(ns), phase \in SchemaPhases, Number(phase),
         phase \in VarintPhases
  PROVE  Digits = NumberOf(Upcoming(ns)) /\ pos + 1 = Upto(Upcoming(ns))
  <1>1. phase \in {"version", "labelLen", "nameLen", "count"} /\ Byte < 128
    BY DEF Number, SchemaPhases, NodePhases, VarintPhases
  <1>2. phase \in NodePhases \union {"version"}
    BY <1>1 DEF NodePhases
  <1>3. /\ Reached(Upcoming(ns)) /\ Upcoming(ns) \in NodeRecords
        /\ Placed(Upcoming(ns), Parent) /\ Place \in Nat
    BY <1>2, NodeAhead
  <1>4. NumberOf(Upcoming(ns)) \in Nat /\ Upto(Upcoming(ns)) \in Nat
    BY <1>1, <1>3, NumberIs DEF Reached
  <1>5. Reads(NumberOf(Upcoming(ns)), Upto(Upcoming(ns)))
    BY <1>1, <1>3 DEF Reached
  <1> QED BY <1>1, <1>4, <1>5, ReadsByte

\* The schema begins.
LEMMA VersionNext ==
  ASSUME IInv, NEW ns, Whole(ns), Holds(ns)', nodes = << >>, stack = << >>, node = NoNode,
         phase' = "version", start' \in Nat, pos' = start', value' = 0, weight' = 1, input' \in Seq(Bytes),
         UNCHANGED <<node, stack, nodes>>
  PROVE  Following(ns)'
  <1>1. /\ ns \in Seq(NodeRecords) /\ Len(ns) \in Nat /\ Len(nodes) = 0
        /\ SubSeq(ns, 1, 0) = << >>
    BY LenProperties, FirstOnes DEF Whole
  <1>2. Due(ns)[0] = <<Slot(0, 0)>>
    BY <1>1, DueIs
  <1>3. Len(ns) # 0
    <2>1. <<Slot(0, 0)>> # << >>
      OBVIOUS
    <2> QED BY <1>2, <2>1 DEF Whole
  <1>4. Along(ns)'
    BY <1>1, <1>2 DEF Along, Awaits
  <1>5. Stacked'
    BY DEF Stacked
  <1>6. At(input', start', VarintOf[1])
    <2>1. 0 \in 0 .. Len(ns)
      BY <1>1
    <2>2. At(input', start', ToBytes(SubSeq(ns, 1, 0)))
      BY <1>1, <2>1, SchemaAt DEF Holds
    <2> QED BY <1>1, <2>2, ToBytesNothing DEF SchemaVersion
  <1>7. Reads(1, start + Len(VarintOf[1]))'
    <2>1. 1 = value' + weight' * 1
      OBVIOUS
    <2>2. pos' + Len(VarintOf[1]) = start' + Len(VarintOf[1]) /\ At(input', pos', VarintOf[1])
      BY <1>6
    <2> QED BY <2>1, <2>2 DEF Reads
  <1>8. Reached(Upcoming(ns))'
    BY <1>7 DEF Reached, KnownOf, Present, Upto, NumberOf, NumberFrom
  <1>9. (Len(nodes) < Len(ns))'
    BY <1>1, <1>3
  <1> QED BY <1>4, <1>5, <1>8, <1>9 DEF Following

\* The version's one byte is read.
LEMMA VersionFollows ==
  ASSUME IInv, NEW ns, Whole(ns), Holds(ns), Following(ns), ReadSchemaVersion
  PROVE  phase' = "tag" /\ Following(ns)'
  <1>1. /\ phase = "version" /\ pos' = pos + 1 /\ phase' = VersionRead(SchemaVersion, "tag")
        /\ UNCHANGED <<input, start, limit, node, stack, nodes>>
    BY DEF ReadSchemaVersion, Number
  <1>2. stack = << >> /\ nodes = << >>
    BY <1>1 DEF IInv, Untouched
  <1>3. /\ Along(ns) /\ Len(nodes) < Len(ns) /\ Reached(Upcoming(ns))
        /\ Placed(Upcoming(ns), Parent) /\ Place \in Nat
    BY <1>1, NodeAhead DEF NodePhases
  <1>4. Digits = 1 /\ pos + 1 = start + Len(VarintOf[1])
    <2>1. Digits = NumberOf(Upcoming(ns)) /\ pos + 1 = Upto(Upcoming(ns))
      BY <1>1, NumberFollows DEF ReadSchemaVersion, SchemaPhases, VarintPhases
    <2> QED BY <1>1, <2>1 DEF NumberOf, Upto, NumberFrom
  <1>5. phase' = "tag"
    BY <1>1, <1>4 DEF VersionRead, SchemaVersion
  <1>6. pos' = Place
    BY <1>1, <1>2, <1>4, ToBytesNothing DEF Place, SchemaVersion
  <1>7. Upcoming(ns).label = << >>
    <2>1. Parent = 0
      BY <1>2 DEF Parent
    <2> QED BY <1>3, <2>1 DEF Placed, Labelled, Shape
  <1>8. Reached(Upcoming(ns))'
    <2>1. node' = Node(Upcoming(ns).label, 0, << >>, << >>)
      BY <1>1, <1>3, <1>7 DEF Reached, KnownOf, NoNode
    <2>2. Len(LabelBytes(Upcoming(ns))) = 0
      BY <1>7 DEF LabelBytes
    <2>3. pos' = TagAt(Upcoming(ns))
      BY <1>3, <1>6, <2>2 DEF TagAt
    <2> QED BY <1>1, <1>5, <2>1, <2>3 DEF Reached, KnownOf, Present, Upcoming, TagAt, Place
  <1>9. Along(ns)' /\ Stacked'
    BY <1>1, <1>2, <1>3 DEF Along, Awaits, Stacked
  <1> QED BY <1>1, <1>3, <1>5, <1>8, <1>9 DEF Following

\* The next node's label, name and count, where they stand.
LEMMA PartsAt ==
  ASSUME IInv, NEW n \in NodeRecords, Place \in Nat, At(input, Place, BytesOf(n))
  PROVE  /\ TagAt(n) \in Nat /\ TagAt(n) + 1 + Len(NameBytes(n)) \in Nat
         /\ Len(NameBytes(n)) \in Nat
         /\ At(input, Place, LabelBytes(n))
         /\ TagAt(n) < Len(input)
         /\ input[TagAt(n) + 1] = n.tag % 32
         /\ At(input, TagAt(n) + 1, NameBytes(n))
         /\ At(input, TagAt(n) + 1 + Len(NameBytes(n)), CountBytes(n))
         /\ Place + Len(BytesOf(n)) = TagAt(n) + 1 + Len(NameBytes(n)) + Len(CountBytes(n))
  <1>1. input \in Seq(Bytes)
    BY DEF IInv, DecodeTypeOK
  <1>2. /\ Len(LabelBytes(n)) \in Nat /\ Len(NameBytes(n)) \in Nat /\ Len(CountBytes(n)) \in Nat
        /\ Len(BytesOf(n)) = Len(LabelBytes(n)) + 1 + Len(NameBytes(n)) + Len(CountBytes(n))
    BY NodeParts
  <1>3. /\ At(input, Place, LabelBytes(n))
        /\ Place + Len(LabelBytes(n)) < Len(input)
        /\ input[Place + Len(LabelBytes(n)) + 1] = n.tag % 32
        /\ At(input, Place + Len(LabelBytes(n)) + 1, NameBytes(n))
        /\ At(input, Place + Len(LabelBytes(n)) + 1 + Len(NameBytes(n)), CountBytes(n))
    BY <1>1, NodeAt
  <1>4. /\ TagAt(n) \in Nat /\ TagAt(n) + 1 + Len(NameBytes(n)) \in Nat
        /\ Place + Len(BytesOf(n)) = TagAt(n) + 1 + Len(NameBytes(n)) + Len(CountBytes(n))
    BY <1>2 DEF TagAt
  <1> QED BY <1>2, <1>3, <1>4 DEF TagAt

\* A text in the node, once its length is read.
LEMMA TextHere ==
  ASSUME IInv, NEW p \in Nat, NEW t \in Texts, At(input, p, TextOf(t)),
         Digits = Len(t), pos + 1 = p + Len(VarintOf[Len(t)])
  PROVE  Text = t /\ pos + 1 + Digits = p + Len(TextOf(t))
  <1>1. input \in Seq(Bytes) /\ pos \in Nat
    BY DEF IInv, DecodeTypeOK
  <1>2. /\ Len(t) \in Nat /\ Len(VarintOf[Len(t)]) \in Nat
        /\ Len(TextOf(t)) = Len(VarintOf[Len(t)]) + Len(t)
        /\ SubSeq(input, p + Len(VarintOf[Len(t)]) + 1, p + Len(VarintOf[Len(t)]) + Len(t)) = t
    BY <1>1, TextAt
  <1>3. pos + 2 = p + Len(VarintOf[Len(t)]) + 1 /\ pos + 1 + Digits = p + Len(VarintOf[Len(t)]) + Len(t)
    BY <1>1, <1>2
  <1>4. Text = t
    BY <1>2, <1>3 DEF Text
  <1>5. pos + 1 + Digits = p + Len(TextOf(t))
    BY <1>2, <1>3
  <1> QED BY <1>4, <1>5

\* Only the text is known to be one.
LEMMA LabelText ==
  ASSUME NEW n \in NodeRecords, n.label # << >>
  PROVE  n.label[1] \in Texts /\ n.label = <<n.label[1]>> /\ LabelBytes(n) = TextOf(n.label[1])
  <1>1. n.label \in MaybeOne(Texts)
    BY DEF NodeRecords
  <1> QED BY <1>1, MaybeFirst DEF LabelBytes

LEMMA NameText ==
  ASSUME NEW n \in NodeRecords, n.name # << >>
  PROVE  n.name[1] \in Texts /\ n.name = <<n.name[1]>> /\ NameBytes(n) = TextOf(n.name[1])
  <1>1. n.name \in MaybeOne(Texts)
    BY DEF NodeRecords
  <1> QED BY <1>1, MaybeFirst DEF NameBytes

LEMMA CountNumber ==
  ASSUME NEW n \in NodeRecords, n.count # << >>
  PROVE  n.count[1] \in Nat /\ n.count = <<n.count[1]>> /\ CountBytes(n) = VarintOf[n.count[1]]
  <1>1. n.count \in MaybeOne(Nat)
    BY DEF NodeRecords
  <1> QED BY <1>1, MaybeFirst DEF CountBytes

\* The next child's label or tag stands behind the nodes read.
LEMMA DescendFollows ==
  ASSUME IInv, NEW ns, Whole(ns), Holds(ns), Following(ns), Descend
  PROVE  Following(ns)'
  <1> DEFINE n == Upcoming(ns)
  <1>1. /\ phase = "next" /\ stack # << >> /\ stack[Len(stack)].left > 0
        /\ phase' = IF Parent \in Labelled THEN "labelLen" ELSE "tag"
        /\ UNCHANGED <<input, pos, start, limit, value, weight, node, stack, nodes, reserved>>
    BY DEF Descend
  <1>2. Along(ns) /\ Stacked /\ nodes # << >> /\ pos = Place
    BY <1>1 DEF Following
  <1>3. Waits
    BY <1>1, <1>2 DEF Waits
  <1>4. node = NoNode /\ value = 0 /\ weight = 1
    BY <1>1 DEF IInv, DecodeTypeOK, Reading, VarintPhases
  <1>5. Len(nodes) < Len(ns)
    <2>1. Awaits # << >>
      BY <1>3, AwaitsTop
    <2>2. Len(nodes) # Len(ns)
      BY <1>2, <2>1 DEF Along, Whole
    <2>3. Len(nodes) \in Nat /\ Len(ns) \in Nat
      BY LenProperties DEF IInv, DecodeTypeOK, Whole
    <2> QED BY <1>2, <2>2, <2>3 DEF Along
  <1>6. n \in NodeRecords /\ Placed(n, Parent) /\ Place \in Nat /\ At(input, Place, BytesOf(n))
    BY <1>2, <1>3, <1>5, NextNode
  <1>7. At(input, Place, LabelBytes(n))
    BY <1>6, PartsAt
  <1>8. Reached(Upcoming(ns))'
    <2>1. n' = n /\ Place' = Place
      BY <1>1 DEF Upcoming, Place
    <2>2. CASE Parent \in Labelled
      <3>1. phase' = "labelLen" /\ n.label # << >>
        BY <1>1, <1>6, <2>2 DEF Placed
      <3>2. n.label[1] \in Texts /\ LabelBytes(n) = TextOf(n.label[1])
        BY <1>6, <3>1, LabelText
      <3> DEFINE v == Len(n.label[1])
      <3>3. v \in Nat /\ At(input, Place, VarintOf[v])
        <4>1. input \in Seq(Bytes)
          BY DEF IInv, DecodeTypeOK
        <4> QED BY <1>6, <1>7, <3>2, <4>1, TextAt
      <3> HIDE DEF v
      <3>4. value' = 0 /\ weight' = 1 /\ pos' = Place /\ input' = input
        BY <1>1, <1>2, <1>4
      <3>5. v = value' + weight' * v
        BY <3>3, <3>4
      <3>6. At(input', pos', VarintOf[v]) /\ pos' + Len(VarintOf[v]) = Place + Len(VarintOf[v])
        BY <3>3, <3>4
      <3>7. n' = n /\ Place' = Place /\ v' = v
        BY <2>1 DEF v
      <3>8. Reads(v, Place + Len(VarintOf[v]))'
        BY <3>3, <3>4, <3>5, <3>6, <3>7 DEF Reads
      <3>9. NumberOf(n)' = v /\ Upto(n)' = Place + Len(VarintOf[v])
        BY <3>1, <3>7 DEF NumberOf, Upto, NumberFrom, v
      <3>10. Reads(NumberOf(n), Upto(n))'
        BY <3>7, <3>8, <3>9 DEF Reads
      <3>11. node' = KnownOf(n)' /\ Present(n)'
        BY <1>1, <1>4, <3>1, <3>7 DEF KnownOf, Present
      <3> HIDE DEF n
      <3> QED BY <3>1, <3>10, <3>11 DEF Reached, n
    <2>3. CASE Parent \notin Labelled
      <3>1. phase' = "tag" /\ n.label = << >>
        BY <1>1, <1>6, <2>3 DEF Placed
      <3>2. node' = Node(n.label, 0, << >>, << >>)
        BY <1>1, <1>4, <3>1 DEF NoNode
      <3>3. Len(LabelBytes(n)) = 0
        BY <3>1 DEF LabelBytes
      <3>4. pos' = TagAt(n)'
        BY <1>1, <1>2, <1>6, <2>1, <3>1, <3>3 DEF TagAt
      <3>5. node' = KnownOf(n)' /\ Present(n)'
        BY <2>1, <3>1, <3>2 DEF KnownOf, Present
      <3> HIDE DEF n
      <3> QED BY <3>1, <3>4, <3>5 DEF Reached, n
    <2> QED BY <2>2, <2>3
  <1>9. Along(ns)' /\ Stacked'
    BY <1>1, <1>2 DEF Along, Stacked, Awaits
  <1>10. (Len(nodes) < Len(ns))' /\ phase' \in {"labelLen", "tag"}
    BY <1>1, <1>5
  <1> QED BY <1>8, <1>9, <1>10 DEF Following

LEMMA ReturnFollows ==
  ASSUME IInv, NEW ns, Whole(ns), Holds(ns), Following(ns), Return
  PROVE  Following(ns)'
  <1>1. /\ phase = "next" /\ stack # << >> /\ stack[Len(stack)].left = 0 /\ stack' = Front(stack)
        /\ UNCHANGED <<input, pos, start, limit, phase, value, weight, node, nodes, reserved>>
    BY DEF Return
  <1>2. Along(ns) /\ nodes # << >> /\ pos = Place
    BY <1>1 DEF Following
  <1>3. stack \in Seq(Frames)
    BY DEF IInv, DecodeTypeOK, Frames, NodeTag
  <1>4. Awaits' = Awaits
    <2>1. Pending(Front(stack)) = Pending(stack)
      BY <1>1, <1>3, PendingReturn
    <2> QED BY <1>1, <1>2, <2>1 DEF Awaits
  <1>5. Along(ns)' /\ Stacked'
    BY <1>1, <1>2, <1>4 DEF Along, Stacked, NodePhases
  <1>6. (nodes # << >> /\ pos = Place)'
    BY <1>1, <1>2 DEF Place
  <1> QED BY <1>1, <1>5, <1>6 DEF Following, NodePhases

LEMMA EndFollows ==
  ASSUME IInv, NEW ns, Whole(ns), Holds(ns), Following(ns), EndOfSchema, phase' \in SchemaPhases
  PROVE  Following(ns)'
  <1>1. /\ phase = "next" /\ stack = << >> /\ phase' = "accepted" /\ pos = limit
        /\ UNCHANGED <<input, pos, start, limit, value, weight, node, stack, nodes, reserved>>
    BY DEF EndOfSchema, End, AllConsumed, SchemaPhases, NodePhases
  <1>2. Along(ns) /\ Stacked /\ nodes # << >> /\ pos = Place
    BY <1>1 DEF Following
  <1>3. Along(ns)' /\ Stacked'
    BY <1>1, <1>2 DEF Along, Stacked, Awaits, NodePhases
  <1>4. (nodes # << >> /\ pos = Place /\ stack = << >> /\ pos = limit)'
    BY <1>1, <1>2 DEF Place
  <1> QED BY <1>1, <1>3, <1>4 DEF Following, NodePhases

LEMMA LabelFollows ==
  ASSUME IInv, NEW ns, Whole(ns), Holds(ns), Following(ns), ReadLabel
  PROVE  Following(ns)'
  <1> DEFINE n == Upcoming(ns)
  <1>1. /\ phase = "labelLen" /\ pos' = pos + 1 + Digits /\ phase' = "tag"
        /\ node' = [node EXCEPT !.label = <<Text>>]
        /\ UNCHANGED <<input, start, limit, stack, nodes, reserved>>
    BY DEF ReadLabel, Number, TakeText
  <1>2. /\ Along(ns) /\ Len(nodes) < Len(ns) /\ Reached(n)
        /\ n \in NodeRecords /\ Place \in Nat /\ At(input, Place, BytesOf(n))
    BY <1>1, NodeAhead DEF NodePhases
  <1>3. n.label # << >> /\ node = NoNode
    BY <1>1, <1>2 DEF Reached, Present, KnownOf
  <1>4. n.label[1] \in Texts /\ n.label = <<n.label[1]>> /\ LabelBytes(n) = TextOf(n.label[1])
    BY <1>2, <1>3, LabelText
  <1>5. Digits = Len(n.label[1]) /\ pos + 1 = Place + Len(VarintOf[Len(n.label[1])])
    <2>1. Digits = NumberOf(n) /\ pos + 1 = Upto(n)
      BY <1>1, NumberFollows DEF ReadLabel, SchemaPhases, NodePhases, VarintPhases
    <2> QED BY <1>1, <2>1 DEF NumberOf, Upto, NumberFrom
  <1>6. At(input, Place, LabelBytes(n))
    BY <1>2, PartsAt
  <1>7. Text = n.label[1] /\ pos + 1 + Digits = Place + Len(LabelBytes(n))
    BY <1>2, <1>4, <1>5, <1>6, TextHere
  <1>8. n' = n /\ Place' = Place
    BY <1>1 DEF Upcoming, Place
  <1>9. node' = Node(n.label, 0, << >>, << >>)
    <2>1. node' = [NoNode EXCEPT !.label = n.label]
      BY <1>1, <1>3, <1>4, <1>7
    <2> QED BY <2>1 DEF NoNode, Node
  <1>10. Reached(Upcoming(ns))'
    <2>1. node' = KnownOf(n)' /\ Present(n)'
      BY <1>1, <1>8, <1>9 DEF KnownOf, Present
    <2>2. pos' = TagAt(n)'
      BY <1>1, <1>7, <1>8 DEF TagAt
    <2> HIDE DEF n
    <2> QED BY <1>1, <2>1, <2>2 DEF Reached, n
  <1>11. Along(ns)' /\ Stacked'
    BY <1>1, <1>2 DEF Along, Awaits, Stacked, NodePhases, Following
  <1> QED BY <1>1, <1>2, <1>10, <1>11 DEF Following

\* A whole node is entered.
LEMMA EnterFollows ==
  ASSUME IInv, NEW ns, Whole(ns), Holds(ns), Following(ns), phase \in NodePhases,
         Enter(Upcoming(ns)), Children(Upcoming(ns)) \in Nat,
         Len(stack) < MaxDepth, UNCHANGED <<input, start, limit>>,
         pos' = Place + Len(BytesOf(Upcoming(ns)))
  PROVE  Following(ns)'
  <1> DEFINE n == Upcoming(ns)
             k == Len(nodes)
  <1>1. /\ Waits /\ Along(ns) /\ k < Len(ns) /\ n \in NodeRecords
        /\ Place \in Nat
    BY NodeAhead
  <1>2. /\ SubSeq(ns, 1, k + 1) = Append(nodes, n)
        /\ Due(ns)[k + 1] = DueAfter(Awaits, n)
        /\ Last(Due(ns)[k]).level = Len(stack)
    BY <1>1, NextNode
  <1>3. nodes' = Append(nodes, n) /\ phase' = "next"
    BY DEF Enter
  <1>4. nodes \in Seq(NodeRecords) /\ k \in Nat /\ Len(ns) \in Nat
    BY LenProperties DEF IInv, DecodeTypeOK, Whole
  <1>5. Len(nodes') = k + 1 /\ nodes' # << >>
    BY <1>1, <1>3, <1>4, AppendProperties
  <1>6. Awaits' = DueAfter(Awaits, n)
    BY <1>1, EnterAwaits
  <1>7. Along(ns)'
    <2>1. Len(nodes') <= Len(ns) /\ nodes' = SubSeq(ns, 1, Len(nodes'))
      BY <1>1, <1>2, <1>3, <1>4, <1>5
    <2>2. Due(ns)[Len(nodes')] = Awaits'
      BY <1>2, <1>5, <1>6
    <2>3. ASSUME NEW j \in 1 .. Len(nodes') PROVE ~ (Last(Due(ns)[j - 1]).level >= MaxDepth)
      <3>1. CASE j = k + 1
        <4>1. j - 1 = k
          BY <1>4, <3>1
        <4>2. ~ (Len(stack) >= MaxDepth)
          BY SchemaBytesAssumption, LenProperties DEF IInv, DecodeTypeOK
        <4> QED BY <1>2, <4>1, <4>2
      <3>2. CASE j # k + 1
        <4>1. j \in 1 .. k
          BY <1>4, <1>5, <3>2
        <4> QED BY <1>1, <4>1 DEF Along
      <3> QED BY <3>1, <3>2
    <2> HIDE DEF n, k
    <2> QED BY <2>1, <2>2, <2>3 DEF Along
  <1>8. Stacked'
    BY <1>3, <1>5 DEF Stacked, NodePhases
  <1>9. pos' = Place'
    <2>1. ToBytes(nodes') = ToBytes(nodes) \o BytesOf(n)
      BY <1>1, <1>3, <1>4, ToBytesAppend
    <2>2. ToBytes(nodes) \in Seq(Bytes) /\ BytesOf(n) \in Seq(Bytes)
      BY <1>1, <1>4, ToBytesAppend, NodeBytes
    <2>3. Len(ToBytes(nodes) \o BytesOf(n)) = Len(ToBytes(nodes)) + Len(BytesOf(n))
      BY <2>2, ConcatParts
    <2>4. Len(ToBytes(nodes)) \in Nat /\ Len(BytesOf(n)) \in Nat /\ start \in Nat
      BY <2>2, LenProperties DEF IInv, DecodeTypeOK
    <2>5. Place' = start + (Len(ToBytes(nodes)) + Len(BytesOf(n)))
      BY <2>1, <2>3 DEF Place
    <2>6. pos' = (start + Len(ToBytes(nodes))) + Len(BytesOf(n))
      BY DEF Place
    <2> QED BY <2>4, <2>5, <2>6
  <1> QED BY <1>3, <1>5, <1>7, <1>8, <1>9 DEF Following, NodePhases

\* The next node's tag is known for what it is.
LEMMA TagIs ==
  ASSUME NEW n \in NodeRecords, Placed(n, Parent), Byte = n.tag % 32
  PROVE  KnownTag /\ Tag = n.tag
  <1>1. CASE Parent \in Enums
    <2>1. n.tag \in ShapeTags
      BY <1>1 DEF Placed
    <2>2. PICK t \in 0 .. 3 : n.tag = 32 + t
      BY <2>1 DEF ShapeTags, Shape
    <2>3. n.tag % 32 = t
      BY <2>2
    <2>4. Tag = n.tag
      BY <1>1, <2>2, <2>3 DEF Tag, Shape
    <2> QED BY <1>1, <2>1, <2>4 DEF KnownTag
  <1>2. CASE Parent \notin Enums
    <2>1. n.tag \in NodeTags
      BY <1>2 DEF Placed
    <2>2. n.tag % 32 = n.tag
      BY <2>1 DEF NodeTags
    <2>3. Tag = n.tag
      BY <1>2, <2>2 DEF Tag
    <2> QED BY <1>2, <2>1, <2>3 DEF KnownTag
  <1> QED BY <1>1, <1>2

\* A number of the next node begins.
LEMMA NumberNext ==
  ASSUME NEW ns, UNCHANGED <<input, start, nodes>>, value' = 0, weight' = 1,
         NumberOf(Upcoming(ns))' \in Nat, pos' = NumberFrom(Upcoming(ns))',
         At(input', pos', VarintOf[NumberOf(Upcoming(ns))'])
  PROVE  Reads(NumberOf(Upcoming(ns)), Upto(Upcoming(ns)))'
  <1> DEFINE v == NumberOf(Upcoming(ns))
  <1>1. v' = value' + weight' * v'
    OBVIOUS
  <1>2. pos' + Len(VarintOf[v']) = Upto(Upcoming(ns))'
    BY DEF Upto
  <1> QED BY <1>1, <1>2 DEF Reads

\* A node's name, or count, is next.
LEMMA NameNext ==
  ASSUME IInv, NEW ns, Upcoming(ns) \in NodeRecords, Place \in Nat,
         At(input, Place, BytesOf(Upcoming(ns))),
         Upcoming(ns).name # << >>, phase' = "nameLen",
         UNCHANGED <<input, start, nodes>>, value' = 0, weight' = 1,
         pos' = TagAt(Upcoming(ns)) + 1,
         node' = Node(Upcoming(ns).label, Upcoming(ns).tag, << >>, << >>)
  PROVE  Reached(Upcoming(ns))'
  <1> DEFINE n == Upcoming(ns)
  <1>1. n' = n /\ Place' = Place
    BY DEF Upcoming, Place
  <1>2. n.name[1] \in Texts /\ NameBytes(n) = TextOf(n.name[1])
    BY NameText
  <1>3. TagAt(n) + 1 \in Nat /\ At(input, TagAt(n) + 1, NameBytes(n))
    BY PartsAt
  <1>4. Len(n.name[1]) \in Nat /\ At(input, TagAt(n) + 1, VarintOf[Len(n.name[1])])
    <2>1. input \in Seq(Bytes)
      BY DEF IInv, DecodeTypeOK
    <2> QED BY <1>2, <1>3, <2>1, TextAt
  <1>5. NumberOf(n)' = Len(n.name[1]) /\ NumberFrom(n)' = TagAt(n) + 1
    BY <1>1 DEF NumberOf, NumberFrom, TagAt
  <1>6. node' = KnownOf(n)' /\ Present(n)'
    BY <1>1 DEF KnownOf, Present
  <1> HIDE DEF n
  <1>7. Reads(NumberOf(n), Upto(n))'
    BY <1>4, <1>5, NumberNext DEF n
  <1> QED BY <1>6, <1>7 DEF Reached, n

LEMMA CountNext ==
  ASSUME IInv, NEW ns, Upcoming(ns) \in NodeRecords, Place \in Nat,
         At(input, Place, BytesOf(Upcoming(ns))),
         Upcoming(ns).count # << >>, phase' = "count",
         UNCHANGED <<input, start, nodes>>, value' = 0, weight' = 1,
         pos' = TagAt(Upcoming(ns)) + 1 + Len(NameBytes(Upcoming(ns))),
         node' = Node(Upcoming(ns).label, Upcoming(ns).tag, Upcoming(ns).name, << >>)
  PROVE  Reached(Upcoming(ns))'
  <1> DEFINE n == Upcoming(ns)
  <1>1. n' = n /\ Place' = Place
    BY DEF Upcoming, Place
  <1>2. n.count[1] \in Nat /\ CountBytes(n) = VarintOf[n.count[1]]
    BY CountNumber
  <1>3. At(input, TagAt(n) + 1 + Len(NameBytes(n)), CountBytes(n))
    BY PartsAt
  <1>4. NumberOf(n)' = n.count[1] /\ NumberFrom(n)' = TagAt(n) + 1 + Len(NameBytes(n))
    BY <1>1 DEF NumberOf, NumberFrom, TagAt
  <1>5. node' = KnownOf(n)' /\ Present(n)'
    BY <1>1 DEF KnownOf, Present
  <1> HIDE DEF n
  <1>6. Reads(NumberOf(n), Upto(n))'
    BY <1>2, <1>3, <1>4, NumberNext DEF n
  <1> QED BY <1>5, <1>6 DEF Reached, n

\* What a node of that tag lacks takes no bytes.
LEMMA NodeIs ==
  ASSUME NEW n \in NodeRecords
  PROVE  /\ n = Node(n.label, n.tag, n.name, n.count)
         /\ n.name = << >> => Len(NameBytes(n)) = 0
         /\ n.count = << >> => Len(CountBytes(n)) = 0
         /\ n.tag \notin Counted => Children(n) \in Nat
         /\ n.count # << >> => Children(n) \in Nat
  <1>1. n = Node(n.label, n.tag, n.name, n.count)
    BY DEF NodeRecords, Node
  <1>2. /\ n.name = << >> => Len(NameBytes(n)) = 0
        /\ n.count = << >> => Len(CountBytes(n)) = 0
    BY DEF NameBytes, CountBytes
  <1>3. n.tag \notin Counted => Children(n) \in Nat
    BY DEF Children, Arity
  <1>4. n.count # << >> => Children(n) \in Nat
    BY CountNumber DEF Children, Arity
  <1> QED BY <1>1, <1>2, <1>3, <1>4

LEMMA TagFollows ==
  ASSUME IInv, NEW ns, Whole(ns), Holds(ns), Following(ns), ReadTag
  PROVE  Following(ns)'
  <1> DEFINE n == Upcoming(ns)
             m == [node EXCEPT !.tag = Tag]
  <1>1. /\ phase = "tag" /\ ~ TooDeep /\ pos' = pos + 1
        /\ UNCHANGED <<input, start, limit, value, weight, reserved>>
    BY DEF ReadTag
  <1>2. /\ Along(ns) /\ Len(nodes) < Len(ns) /\ Reached(n)
        /\ n \in NodeRecords /\ Placed(n, Parent) /\ Place \in Nat /\ At(input, Place, BytesOf(n))
    BY <1>1, NodeAhead DEF NodePhases
  <1>3. node = Node(n.label, 0, << >>, << >>) /\ pos = TagAt(n)
    BY <1>1, <1>2 DEF Reached, KnownOf
  <1>4. /\ input[TagAt(n) + 1] = n.tag % 32
        /\ TagAt(n) \in Nat /\ Len(NameBytes(n)) \in Nat
        /\ Place + Len(BytesOf(n)) = TagAt(n) + 1 + Len(NameBytes(n)) + Len(CountBytes(n))
    BY <1>2, PartsAt
  <1>5. Tag = n.tag
    <2>1. Byte = n.tag % 32
      BY <1>3, <1>4 DEF Byte
    <2> QED BY <1>2, <2>1, TagIs
  <1>6. m = Node(n.label, n.tag, << >>, << >>)
    BY <1>3, <1>5 DEF Node
  <1>7. value' = 0 /\ weight' = 1
    BY <1>1 DEF IInv, DecodeTypeOK, Reading, VarintPhases
  <1>8. pos' = TagAt(n) + 1
    BY <1>1, <1>3
  <1>9. /\ n = Node(n.label, n.tag, n.name, n.count)
        /\ n.name = << >> => Len(NameBytes(n)) = 0
        /\ n.count = << >> => Len(CountBytes(n)) = 0
        /\ n.tag \notin Counted => Children(n) \in Nat
    BY <1>2, NodeIs
  <1>10. ASSUME UNCHANGED <<stack, nodes>>, Reached(Upcoming(ns))', phase' \in {"nameLen", "count"}
         PROVE  Following(ns)'
    <2>1. Along(ns)' /\ Stacked'
      BY <1>1, <1>2, <1>10 DEF Along, Awaits, Stacked, NodePhases, Following
    <2>2. (Len(nodes) < Len(ns))'
      BY <1>2, <1>10
    <2> QED BY <1>10, <2>1, <2>2 DEF Following
  <1>11. CASE Tag \in Named
    <2>1. node' = m /\ phase' = "nameLen" /\ UNCHANGED <<stack, nodes>>
      BY <1>11 DEF ReadTag
    <2>2. n.name # << >>
      BY <1>2, <1>5, <1>11 DEF Placed
    <2> HIDE DEF n, m
    <2>3. Reached(n)'
      BY <1>1, <1>2, <1>6, <1>7, <1>8, <2>1, <2>2, NameNext DEF n
    <2> QED BY <1>10, <2>1, <2>3 DEF n
  <1>12. CASE Tag \in Counted \ Named
    <2>1. node' = m /\ phase' = "count" /\ UNCHANGED <<stack, nodes>>
      BY <1>12 DEF ReadTag
    <2>2. n.count # << >> /\ n.name = << >>
      BY <1>2, <1>5, <1>12 DEF Placed
    <2> HIDE DEF n, m
    <2>3. pos' = TagAt(n) + 1 + Len(NameBytes(n))
      BY <1>4, <1>8, <1>9, <2>2
    <2>4. Reached(n)'
      BY <1>1, <1>2, <1>6, <1>7, <2>1, <2>2, <2>3, CountNext DEF n
    <2> QED BY <1>10, <2>1, <2>4 DEF n
  <1>13. CASE Tag \notin Named \union Counted
    <2>1. Enter(m)
      BY <1>13 DEF ReadTag
    <2>2. n.count = << >> /\ n.name = << >> /\ n.tag \notin Counted
      BY <1>2, <1>5, <1>13 DEF Placed
    <2> HIDE DEF n, m
    <2>3. m = n
      BY <1>6, <1>9, <2>2
    <2>4. pos' = Place + Len(BytesOf(n))
      BY <1>4, <1>8, <1>9, <2>2
    <2>5. Len(stack) < MaxDepth
      BY <1>1, SchemaBytesAssumption, LenProperties DEF TooDeep, IInv, DecodeTypeOK
    <2>6. Enter(n) /\ Children(n) \in Nat /\ phase \in NodePhases /\ UNCHANGED <<input, start, limit>>
      BY <1>1, <1>9, <2>1, <2>2, <2>3 DEF NodePhases
    <2> QED BY <2>4, <2>5, <2>6, EnterFollows DEF n
  <1> QED BY <1>11, <1>12, <1>13

LEMMA NameFollows ==
  ASSUME IInv, NEW ns, Whole(ns), Holds(ns), Following(ns), ReadName
  PROVE  Following(ns)'
  <1> DEFINE n == Upcoming(ns)
             m == [node EXCEPT !.name = <<Text>>]
  <1>1. /\ phase = "nameLen" /\ pos' = pos + 1 + Digits /\ value' = 0 /\ weight' = 1
        /\ UNCHANGED <<input, start, limit, reserved>>
    BY DEF ReadName, Number, TakeText, NumberDone
  <1>2. /\ Along(ns) /\ Len(nodes) < Len(ns) /\ Reached(n)
        /\ n \in NodeRecords /\ Placed(n, Parent) /\ Place \in Nat /\ At(input, Place, BytesOf(n))
    BY <1>1, NodeAhead DEF NodePhases
  <1>3. node = Node(n.label, n.tag, << >>, << >>) /\ n.name # << >>
    BY <1>1, <1>2 DEF Reached, KnownOf, Present
  <1>4. n.name[1] \in Texts /\ n.name = <<n.name[1]>> /\ NameBytes(n) = TextOf(n.name[1])
    BY <1>2, <1>3, NameText
  <1>5. /\ At(input, TagAt(n) + 1, NameBytes(n))
        /\ TagAt(n) + 1 \in Nat /\ TagAt(n) \in Nat /\ Len(NameBytes(n)) \in Nat
        /\ Place + Len(BytesOf(n)) = TagAt(n) + 1 + Len(NameBytes(n)) + Len(CountBytes(n))
    BY <1>2, PartsAt
  <1>6. Digits = Len(n.name[1]) /\ pos + 1 = TagAt(n) + 1 + Len(VarintOf[Len(n.name[1])])
    <2>1. Digits = NumberOf(n) /\ pos + 1 = Upto(n)
      BY <1>1, NumberFollows DEF ReadName, SchemaPhases, NodePhases, VarintPhases
    <2> QED BY <1>1, <2>1 DEF NumberOf, Upto, NumberFrom
  <1>7. Text = n.name[1] /\ pos + 1 + Digits = TagAt(n) + 1 + Len(NameBytes(n))
    BY <1>2, <1>4, <1>5, <1>6, TextHere
  <1>8. m = Node(n.label, n.tag, n.name, << >>)
    BY <1>3, <1>4, <1>7 DEF Node
  <1>9. /\ n = Node(n.label, n.tag, n.name, n.count)
        /\ n.count = << >> => Len(CountBytes(n)) = 0
        /\ n.tag \notin Counted => Children(n) \in Nat
    BY <1>2, NodeIs
  <1>10. m.tag = n.tag
    BY <1>8 DEF Node
  <1>11. CASE m.tag \in Counted
    <2>1. node' = m /\ phase' = "count" /\ UNCHANGED <<stack, nodes>>
      BY <1>11 DEF ReadName
    <2>2. n.count # << >>
      BY <1>2, <1>10, <1>11 DEF Placed
    <2> HIDE DEF n, m
    <2>3. Reached(n)'
      BY <1>1, <1>2, <1>7, <1>8, <2>1, <2>2, CountNext DEF n
    <2>4. Along(ns)' /\ Stacked'
      BY <1>1, <1>2, <2>1 DEF Along, Awaits, Stacked, NodePhases, Following
    <2>5. (Len(nodes) < Len(ns))'
      BY <1>2, <2>1
    <2> QED BY <2>1, <2>3, <2>4, <2>5 DEF Following, n
  <1>12. CASE m.tag \notin Counted
    <2>1. Enter(m)
      BY <1>12 DEF ReadName
    <2>2. n.count = << >> /\ n.tag \notin Counted
      BY <1>2, <1>10, <1>12 DEF Placed
    <2> HIDE DEF n, m
    <2>3. m = n
      BY <1>8, <1>9, <2>2
    <2>4. pos' = Place + Len(BytesOf(n))
      BY <1>1, <1>5, <1>7, <1>9, <2>2
    <2>5. Len(stack) < MaxDepth
      BY <1>1 DEF IInv, Underway
    <2>6. Enter(n) /\ Children(n) \in Nat /\ phase \in NodePhases /\ UNCHANGED <<input, start, limit>>
      BY <1>1, <1>9, <2>1, <2>2, <2>3 DEF NodePhases
    <2> QED BY <2>4, <2>5, <2>6, EnterFollows DEF n
  <1> QED BY <1>11, <1>12

LEMMA CountFollows ==
  ASSUME IInv, NEW ns, Whole(ns), Holds(ns), Following(ns), ReadCount
  PROVE  Following(ns)'
  <1> DEFINE n == Upcoming(ns)
             m == [node EXCEPT !.count = <<Digits>>]
  <1>1. /\ phase = "count" /\ pos' = pos + 1 /\ UNCHANGED <<input, start, limit>> /\ Enter(m)
    BY DEF ReadCount, Number
  <1>2. /\ Reached(n) /\ n \in NodeRecords /\ Place \in Nat /\ At(input, Place, BytesOf(n))
    BY <1>1, NodeAhead DEF NodePhases
  <1>3. node = Node(n.label, n.tag, n.name, << >>) /\ n.count # << >>
    BY <1>1, <1>2 DEF Reached, KnownOf, Present
  <1>4. n.count = <<n.count[1]>> /\ CountBytes(n) = VarintOf[n.count[1]]
    BY <1>2, <1>3, CountNumber
  <1>5. Place + Len(BytesOf(n)) = TagAt(n) + 1 + Len(NameBytes(n)) + Len(CountBytes(n))
    BY <1>2, PartsAt
  <1>6. Digits = n.count[1] /\ pos + 1 = TagAt(n) + 1 + Len(NameBytes(n)) + Len(VarintOf[n.count[1]])
    <2>1. Digits = NumberOf(n) /\ pos + 1 = Upto(n)
      BY <1>1, NumberFollows DEF ReadCount, SchemaPhases, NodePhases, VarintPhases
    <2> QED BY <1>1, <2>1 DEF NumberOf, Upto, NumberFrom
  <1>7. m = n
    <2>1. n = Node(n.label, n.tag, n.name, n.count)
      BY <1>2, NodeIs
    <2>2. m = Node(n.label, n.tag, n.name, <<Digits>>)
      BY <1>3 DEF Node
    <2> QED BY <1>4, <1>6, <2>1, <2>2
  <1>8. Children(n) \in Nat
    BY <1>2, <1>3, NodeIs
  <1>9. Len(stack) < MaxDepth /\ phase \in NodePhases
    BY <1>1 DEF IInv, Underway, NodePhases
  <1> HIDE DEF n, m
  <1>10. Enter(n) /\ pos' = Place + Len(BytesOf(n))
    BY <1>1, <1>4, <1>5, <1>6, <1>7
  <1> QED BY <1>1, <1>8, <1>9, <1>10, EnterFollows DEF n

\* Whichever schema stands where the schema is read is followed.
Followed == \A ns : Whole(ns) => Follows(ns)

LEMMA FollowedKeeps ==
  ASSUME IInv, Readback, Followed, [DecodeNext]_decodeVars
  PROVE  Followed'
  <1> SUFFICES ASSUME NEW ns, Whole(ns), Holds(ns)', phase' \in SchemaPhases
               PROVE  Following(ns)'
    BY DEF Followed, Follows
  <1>1. Holds(ns) /\ phase \in SchemaPhases => Following(ns)
    BY DEF Followed, Follows
  <1>2. CASE OpenBytes
    <2>1. /\ nodes = << >> /\ stack = << >> /\ node = NoNode /\ pos = 0 /\ value = 0 /\ weight = 1
          /\ start = 0
      BY <1>2 DEF OpenBytes, IInv, Untouched, AtStart, Readback, Fresh, Unframed
    <2>2. /\ phase' = "version" /\ input' \in Seq(Bytes)
          /\ UNCHANGED <<pos, start, value, weight, node, stack, nodes>>
      BY <1>2 DEF OpenBytes, SchemaPhases, NodePhases
    <2>3. start' \in Nat /\ pos' = start' /\ value' = 0 /\ weight' = 1
      BY <2>1, <2>2
    <2> QED BY <2>1, <2>2, <2>3, VersionNext
  <1>3. CASE ReadSchemaLen
    <2>1. phase = "schemaLen"
      BY <1>3 DEF ReadSchemaLen, Number
    <2>2. nodes = << >> /\ stack = << >> /\ node = NoNode
      BY <2>1 DEF IInv, Untouched, Readback, Fresh
    <2>3. /\ phase' = "version" /\ start' = pos + 1 /\ pos' = pos + 1 /\ value' = 0 /\ weight' = 1
          /\ UNCHANGED <<input, node, stack, nodes>>
      BY <1>3 DEF ReadSchemaLen, NumberDone, SchemaPhases, NodePhases
    <2>4. start' \in Nat /\ pos' = start' /\ input' \in Seq(Bytes)
      BY <2>3 DEF IInv, DecodeTypeOK
    <2> QED BY <2>2, <2>3, <2>4, VersionNext
  <1>4. CASE BadVarint \/ NoByte \/ NoMagic \/ BadText \/ BadTag
    <2>1. phase' \in Failures
      BY <1>4 DEF BadVarint, NoByte, NoMagic, BadText, BadTag, End, Failures
    <2> QED BY <2>1 DEF Failures, SchemaPhases, NodePhases
  <1>5. CASE TakeMagic \/ ReadFrameVersion
    <2>1. phase' \in {"frameVersion", "malformed", "unsupported", "schemaLen"}
      BY <1>5 DEF TakeMagic, ReadFrameVersion, VersionRead
    <2> QED BY <2>1 DEF SchemaPhases, NodePhases
  <1>6. ASSUME UNCHANGED <<input, start>>, phase \in SchemaPhases PROVE Holds(ns) /\ Following(ns)
    <2>1. Holds(ns)
      BY <1>6 DEF Holds
    <2> QED BY <1>1, <1>6, <2>1
  <1>7. CASE TakeDigit
    <2>1. UNCHANGED <<input, start, phase>>
      BY <1>7 DEF TakeDigit
    <2> QED BY <1>6, <1>7, <2>1, DigitFollows
  <1>8. CASE ReadSchemaVersion
    <2>1. UNCHANGED <<input, start>> /\ phase \in SchemaPhases
      BY <1>8 DEF ReadSchemaVersion, Number, SchemaPhases
    <2> QED BY <1>6, <1>8, <2>1, VersionFollows
  <1>9. CASE ReadLabel
    <2>1. UNCHANGED <<input, start>> /\ phase \in SchemaPhases
      BY <1>9 DEF ReadLabel, Number, SchemaPhases, NodePhases
    <2> QED BY <1>6, <1>9, <2>1, LabelFollows
  <1>10. CASE ReadTag
    <2>1. UNCHANGED <<input, start>> /\ phase \in SchemaPhases
      BY <1>10 DEF ReadTag, SchemaPhases, NodePhases
    <2> QED BY <1>6, <1>10, <2>1, TagFollows
  <1>11. CASE ReadName
    <2>1. UNCHANGED <<input, start>> /\ phase \in SchemaPhases
      BY <1>11 DEF ReadName, Number, SchemaPhases, NodePhases
    <2> QED BY <1>6, <1>11, <2>1, NameFollows
  <1>12. CASE ReadCount
    <2>1. UNCHANGED <<input, start>> /\ phase \in SchemaPhases
      BY <1>12 DEF ReadCount, Number, SchemaPhases, NodePhases
    <2> QED BY <1>6, <1>12, <2>1, CountFollows
  <1>13. CASE Descend
    <2>1. UNCHANGED <<input, start>> /\ phase \in SchemaPhases
      BY <1>13 DEF Descend, SchemaPhases
    <2> QED BY <1>6, <1>13, <2>1, DescendFollows
  <1>14. CASE Return
    <2>1. UNCHANGED <<input, start>> /\ phase \in SchemaPhases
      BY <1>14 DEF Return, SchemaPhases
    <2> QED BY <1>6, <1>14, <2>1, ReturnFollows
  <1>15. CASE EndOfSchema
    <2>1. UNCHANGED <<input, start>> /\ phase \in SchemaPhases
      BY <1>15 DEF EndOfSchema, End, SchemaPhases
    <2> QED BY <1>6, <1>15, <2>1, EndFollows
  <1>16. CASE UNCHANGED decodeVars
    <2>1. UNCHANGED <<input, start>> /\ phase \in SchemaPhases
      BY <1>16 DEF decodeVars
    <2>2. Following(ns)
      BY <1>6, <2>1
    <2> QED BY <1>16, <2>2 DEF decodeVars, Following, Along, Awaits, Stacked, Reached, KnownOf, Present,
          Reads, NumberOf, Upto, NumberFrom, TagAt, Place, Upcoming
  <1> QED BY <1>2, <1>3, <1>4, <1>5, <1>7, <1>8, <1>9, <1>10, <1>11, <1>12, <1>13, <1>14, <1>15, <1>16
          DEF DecodeNext, Decode

LEMMA AlwaysFollows == DecodeSpec => []Followed
  <1>1. DecodeInit => Followed
    BY DEF DecodeInit, Followed, Follows, SchemaPhases, NodePhases
  <1>2. IInv /\ Readback /\ Followed /\ [DecodeNext]_decodeVars => Followed'
    BY FollowedKeeps
  <1> QED BY <1>1, <1>2, Invariant, ReadsBack, PTL DEF DecodeSpec

\* Where nothing more is due, the schema is read, no deeper than the limit.
LEMMA ReadThrough ==
  ASSUME IInv, NEW ns, Whole(ns), Following(ns), phase \in {"next", "accepted"}, stack = << >>
  PROVE  nodes = ns /\ ~ Deep(ns) /\ pos = start + Len(ToBytes(ns))
  <1>1. Along(ns) /\ nodes # << >> /\ pos = Place
    BY DEF Following
  <1>2. Due(ns)[Len(nodes)] = << >>
    BY <1>1, PendingNothing DEF Along, Awaits
  <1>3. /\ ns \in Seq(NodeRecords) /\ Len(ns) \in Nat /\ Len(nodes) \in Nat
    BY LenProperties DEF IInv, DecodeTypeOK, Whole
  <1>4. Len(nodes) = Len(ns)
    <2> SUFFICES ASSUME Len(nodes) # Len(ns) PROVE FALSE
      OBVIOUS
    <2> DEFINE k == Len(nodes) + 1
    <2>1. k \in 1 .. Len(ns) /\ k - 1 = Len(nodes)
      BY <1>1, <1>3 DEF Along
    <2> HIDE DEF k
    <2>2. Due(ns)[k - 1] # << >>
      BY <2>1 DEF Whole, Growing
    <2> QED BY <1>2, <2>1, <2>2
  <1>5. nodes = ns
    <2>1. SubSeq(ns, 1, Len(ns)) = ns
      BY <1>3, FirstOnes
    <2> QED BY <1>1, <1>4, <2>1 DEF Along
  <1>6. ~ Deep(ns)
    <2> SUFFICES ASSUME NEW j \in 1 .. Len(ns), Last(Due(ns)[j - 1]).level >= MaxDepth PROVE FALSE
      BY DEF Deep
    <2> QED BY <1>1, <1>4 DEF Along
  <1> QED BY <1>1, <1>5, <1>6 DEF Place

LEMMA AcceptedIs ==
  ASSUME IInv, NEW ns, Whole(ns), Follows(ns), Holds(ns), phase = "accepted"
  PROVE  nodes = ns /\ ~ Deep(ns) /\ limit = start + Len(ToBytes(ns))
  <1>1. Following(ns)
    BY DEF Follows, SchemaPhases
  <1>2. stack = << >> /\ pos = limit
    BY <1>1 DEF Following
  <1> QED BY <1>1, <1>2, ReadThrough

\* Where the bytes of a schema stand, whatever follows them, the decoder accepts
\* that schema, those bytes and no more (from_bytes).
WrittenIsRead ==
  phase = "accepted" =>
    \A ns : Whole(ns) /\ Holds(ns) =>
      nodes = ns /\ ~ Deep(ns) /\ limit = start + Len(ToBytes(ns))

\* Whatever the input, a schema that stands in it is what is read there: none
\* is taken for another, or for more or fewer bytes than it was written in
\* (to_bytes and from_bytes in schema.rs).
THEOREM ReadsWhatStands == DecodeSpec => []WrittenIsRead
  <1>1. IInv /\ Followed => WrittenIsRead
    BY AcceptedIs DEF Followed, WrittenIsRead
  <1> QED BY <1>1, Invariant, AlwaysFollows, PTL

\* The weight is always a digit's.
LEMMA WeighedKeeps == ASSUME IInv, Weighed, [DecodeNext]_decodeVars PROVE Weighed'
  <1>1. CASE TakeDigit
    <2>1. PICK i \in Nat : weight = Weight[i]
      BY DEF Weighed
    <2>2. i + 1 \in Nat \ {0} /\ (i + 1) - 1 = i
      BY <2>1
    <2>3. Weight[i + 1] = 128 * Weight[(i + 1) - 1]
      BY <2>2, WeightIs
    <2>4. Weight[i] \in Nat
      BY <2>1, WeightType
    <2>5. weight' = Weight[i + 1]
      BY <1>1, <2>1, <2>2, <2>3, <2>4 DEF TakeDigit
    <2> QED BY <2>2, <2>5 DEF Weighed
  <1>2. CASE weight' = 1
    BY <1>2, WeightIs DEF Weighed
  <1>3. CASE weight' = weight
    BY <1>3 DEF Weighed
  <1>4. OpenBytes => weight' = weight
    BY DEF OpenBytes
  <1>5. (NoMagic \/ BadVarint \/ NoByte \/ BadText \/ BadTag \/ EndOfSchema) => weight' = weight
    BY DEF NoMagic, BadVarint, NoByte, BadText, BadTag, EndOfSchema, End
  <1>6. (ReadFrameVersion \/ ReadSchemaLen \/ ReadSchemaVersion \/ ReadLabel \/ ReadName \/ ReadCount)
          => weight' = 1
    BY DEF ReadFrameVersion, ReadSchemaLen, ReadSchemaVersion, ReadLabel, ReadName, ReadCount,
           TakeText, NumberDone
  <1>7. (TakeMagic \/ ReadTag \/ Descend \/ Return \/ UNCHANGED decodeVars) => weight' = weight
    BY DEF TakeMagic, ReadTag, Descend, Return, decodeVars
  <1> QED BY <1>1, <1>2, <1>3, <1>4, <1>5, <1>6, <1>7 DEF DecodeNext, Decode

LEMMA AlwaysWeighed == DecodeSpec => []Weighed
  <1>1. DecodeInit => Weighed
    BY WeightIs DEF DecodeInit, Weighed
  <1>2. IInv /\ Weighed /\ [DecodeNext]_decodeVars => Weighed'
    BY WeighedKeeps
  <1> QED BY <1>1, <1>2, Invariant, PTL DEF DecodeSpec

-----------------------------------------------------------------------------
(***************************************************************************)
(* A schema that stands there alone is refused only for its depth.         *)
(***************************************************************************)

\* The slice is the schema ns.
Slice(ns) == Holds(ns) /\ limit = start + Len(ToBytes(ns))

\* The next node is in the slice.
LEMMA NodeWithin ==
  ASSUME IInv, NEW ns, Whole(ns), Slice(ns), Along(ns), Len(nodes) < Len(ns)
  PROVE  Place + Len(BytesOf(Upcoming(ns))) <= limit
  <1> DEFINE b == SubSeq(input, 1, limit)
             k == Len(nodes) + 1
  <1>1. /\ input \in Seq(Bytes) /\ limit \in Nat /\ limit <= Len(input) /\ start \in Nat
        /\ ns \in Seq(NodeRecords) /\ Len(nodes) \in Nat /\ Len(ns) \in Nat
    BY LenProperties DEF IInv, DecodeTypeOK, WorkWithinInput, Whole
  <1>2. b \in Seq(Bytes) /\ Len(b) = limit /\ \A i \in 1 .. limit : b[i] = input[i]
    BY <1>1
  <1> HIDE DEF b
  <1>3. At(b, start, ToBytes(ns))
    <2> DEFINE s == ToBytes(ns)
    <2>1. Len(s) \in Nat
      <3>1. s \in Seq(Bytes)
        BY <1>1, NoNodeType, ToBytesAppend
      <3> QED BY <3>1, LenProperties
    <2>2. limit = start + Len(s) /\ \A i \in 1 .. Len(s) : input[start + i] = s[i]
      BY DEF Slice, Holds, At
    <2> HIDE DEF s
    <2>3. \A i \in 1 .. Len(s) : start + i \in 1 .. limit
      BY <1>1, <2>1, <2>2
    <2>4. \A i \in 1 .. Len(s) : b[start + i] = s[i]
      BY <1>2, <2>2, <2>3
    <2>5. start + Len(s) <= Len(b)
      BY <1>1, <1>2, <2>2
    <2> QED BY <2>4, <2>5 DEF At, s
  <1>4. k \in 1 .. Len(ns) /\ k - 1 = Len(nodes)
    BY <1>1
  <1>5. At(b, start + Len(ToBytes(SubSeq(ns, 1, k - 1))), BytesOf(ns[k]))
    BY <1>1, <1>2, <1>3, <1>4, SchemaAt
  <1>6. At(b, Place, BytesOf(Upcoming(ns)))
    BY <1>4, <1>5 DEF Along, Place, Upcoming
  <1> QED BY <1>2, <1>6 DEF At

LEMMA TextLen ==
  ASSUME NEW t \in Texts
  PROVE  /\ Len(t) \in Nat /\ Len(VarintOf[Len(t)]) \in Nat
         /\ Len(TextOf(t)) = Len(VarintOf[Len(t)]) + Len(t)
  <1>1. t \in Seq(Bytes) /\ Len(t) \in Nat
    BY LenProperties DEF Texts
  <1>2. VarintOf[Len(t)] \in Seq(Bytes)
    BY <1>1, VarintType
  <1>3. Len(VarintOf[Len(t)]) \in Nat
    BY <1>2, LenProperties
  <1>4. Len(VarintOf[Len(t)] \o t) = Len(VarintOf[Len(t)]) + Len(t)
    BY <1>1, <1>2, ConcatParts
  <1> QED BY <1>1, <1>3, <1>4 DEF TextOf

\* The number read ends in the slice, and so does the text behind it.
LEMMA NumberWithin ==
  ASSUME IInv, NEW ns, Whole(ns), Slice(ns), Following(ns),
         phase \in {"version", "labelLen", "nameLen", "count"}
  PROVE  /\ Upto(Upcoming(ns)) <= limit
         /\ phase \in {"labelLen", "nameLen"} =>
              Upto(Upcoming(ns)) + NumberOf(Upcoming(ns)) <= limit
  <1> DEFINE n == Upcoming(ns)
             l == Len(BytesOf(n))
  <1>1. /\ Along(ns) /\ Len(nodes) < Len(ns) /\ Reached(n) /\ n \in NodeRecords
        /\ Placed(n, Parent) /\ Place \in Nat /\ At(input, Place, BytesOf(n))
    BY NodeAhead DEF NodePhases, Slice
  <1>2. Place + l <= limit
    BY <1>1, NodeWithin
  <1>3. /\ Len(LabelBytes(n)) \in Nat /\ Len(NameBytes(n)) \in Nat /\ Len(CountBytes(n)) \in Nat
        /\ l = Len(LabelBytes(n)) + 1 + Len(NameBytes(n)) + Len(CountBytes(n))
    BY <1>1, NodeParts
  <1>4. limit \in Nat /\ start \in Nat /\ input \in Seq(Bytes)
    BY DEF IInv, DecodeTypeOK
  <1> HIDE DEF l
  <1>5. CASE phase = "version"
    <2>1. nodes = << >>
      BY <1>5 DEF IInv, Untouched
    <2>2. Upto(n) = Place
      BY <1>5, <2>1, ToBytesNothing DEF Upto, NumberFrom, NumberOf, Place, SchemaVersion
    <2> QED BY <1>1, <1>2, <1>3, <1>4, <1>5, <2>2
  <1>6. CASE phase = "labelLen"
    <2>1. n.label # << >>
      BY <1>1, <1>6 DEF Reached, Present
    <2>2. n.label[1] \in Texts /\ LabelBytes(n) = TextOf(n.label[1])
      BY <1>1, <2>1, LabelText
    <2> DEFINE t == n.label[1]
               v == Len(t)
               m == Len(VarintOf[v])
    <2>3. v \in Nat /\ m \in Nat /\ Len(LabelBytes(n)) = m + v
      BY <2>2, TextLen
    <2>4. NumberOf(n) = v /\ Upto(n) = Place + m
      BY <1>6 DEF NumberOf, Upto, NumberFrom
    <2> HIDE DEF t, v, m, n
    <2>5. Place + m <= limit /\ Place + m + v <= limit
      BY <1>1, <1>2, <1>3, <1>4, <2>3
    <2> QED BY <2>4, <2>5 DEF n
  <1>7. CASE phase = "nameLen"
    <2>1. n.name # << >>
      BY <1>1, <1>7 DEF Reached, Present
    <2>2. n.name[1] \in Texts /\ NameBytes(n) = TextOf(n.name[1])
      BY <1>1, <2>1, NameText
    <2> DEFINE t == n.name[1]
               v == Len(t)
               m == Len(VarintOf[v])
               p == Place + Len(LabelBytes(n)) + 1 + m
    <2>3. v \in Nat /\ m \in Nat /\ Len(NameBytes(n)) = m + v
      BY <2>2, TextLen
    <2>4. NumberOf(n) = v /\ Upto(n) = p
      BY <1>7 DEF NumberOf, Upto, NumberFrom, TagAt
    <2> HIDE DEF t, v, m, n
    <2>5. p <= limit /\ p + v <= limit
      BY <1>1, <1>2, <1>3, <1>4, <2>3
    <2> HIDE DEF p
    <2> QED BY <2>4, <2>5 DEF n
  <1>8. CASE phase = "count"
    <2>1. n.count # << >>
      BY <1>1, <1>8 DEF Reached, Present
    <2>2. CountBytes(n) = VarintOf[n.count[1]]
      BY <1>1, <2>1, CountNumber
    <2>3. Upto(n) = Place + Len(LabelBytes(n)) + 1 + Len(NameBytes(n)) + Len(CountBytes(n))
      BY <1>8, <2>2 DEF NumberOf, Upto, NumberFrom, TagAt
    <2> QED BY <1>1, <1>2, <1>3, <1>4, <1>8, <2>3
  <1> QED BY <1>5, <1>6, <1>7, <1>8

\* No number in the slice is refused or cut short.
LEMMA NumbersStand ==
  ASSUME IInv, Weighed, NEW ns, Whole(ns), Slice(ns), Following(ns), phase \in SchemaPhases,
         phase \in VarintPhases
  PROVE  ~ BadVarint /\ ~ NoByte
  <1>1. phase \in {"version", "labelLen", "nameLen", "count"}
    BY DEF SchemaPhases, NodePhases, VarintPhases
  <1>2. /\ Reached(Upcoming(ns)) /\ Upcoming(ns) \in NodeRecords
        /\ Placed(Upcoming(ns), Parent) /\ Place \in Nat
    BY <1>1, NodeAhead DEF NodePhases, Slice
  <1>3. /\ NumberOf(Upcoming(ns)) \in Numbers /\ NumberOf(Upcoming(ns)) \in Nat
        /\ Upto(Upcoming(ns)) \in Nat
    BY <1>1, <1>2, NumberIs DEF Reached
  <1>4. Reads(NumberOf(Upcoming(ns)), Upto(Upcoming(ns)))
    BY <1>1, <1>2 DEF Reached
  <1>5. Upto(Upcoming(ns)) <= limit
    BY <1>1, NumberWithin
  <1>6. HasByte /\ (Byte < 128 => Shortest) /\ Fits
    BY <1>3, <1>4, <1>5, ReadsByte
  <1> QED BY <1>6 DEF BadVarint, NoByte

\* No text in the slice is refused or cut short.
LEMMA TextsStand ==
  ASSUME IInv, NEW ns, Whole(ns), Slice(ns), Following(ns), phase \in {"labelLen", "nameLen"}
  PROVE  ~ BadText
  <1> DEFINE n == Upcoming(ns)
  <1> SUFFICES ASSUME Number(phase) PROVE HasText /\ IsUtf8(Text)
    BY DEF BadText, Number
  <1>1. /\ Reached(n) /\ n \in NodeRecords /\ Placed(n, Parent) /\ Place \in Nat
        /\ At(input, Place, BytesOf(n))
    BY NodeAhead DEF NodePhases, Slice
  <1>2. Digits = NumberOf(n) /\ pos + 1 = Upto(n)
    BY NumberFollows DEF SchemaPhases, NodePhases, VarintPhases, Slice
  <1>3. Upto(n) + NumberOf(n) <= limit
    BY NumberWithin
  <1>4. NumberOf(n) \in Nat
    BY <1>1, NumberIs DEF Reached
  <1>5. HasText
    <2> DEFINE d == NumberOf(n)
    <2>1. Digits = d /\ d \in Nat /\ pos + 1 + d <= limit /\ pos \in Nat /\ limit \in Nat
      BY <1>2, <1>3, <1>4 DEF IInv, DecodeTypeOK
    <2> HIDE DEF d
    <2> QED BY <2>1 DEF HasText
  <1>6. CASE phase = "labelLen"
    <2>1. n.label # << >>
      BY <1>1, <1>6 DEF Reached, Present
    <2>2. n.label[1] \in Texts /\ LabelBytes(n) = TextOf(n.label[1]) /\ IsUtf8(n.label[1])
      BY <1>1, <2>1, LabelText DEF Placed, IsText
    <2>3. At(input, Place, LabelBytes(n))
      BY <1>1, PartsAt
    <2>4. Digits = Len(n.label[1]) /\ pos + 1 = Place + Len(VarintOf[Len(n.label[1])])
      BY <1>2, <1>6 DEF NumberOf, Upto, NumberFrom
    <2>5. Text = n.label[1]
      BY <1>1, <2>2, <2>3, <2>4, TextHere
    <2> QED BY <1>5, <2>2, <2>5
  <1>7. CASE phase = "nameLen"
    <2>1. n.name # << >>
      BY <1>1, <1>7 DEF Reached, Present
    <2>2. n.name[1] \in Texts /\ NameBytes(n) = TextOf(n.name[1]) /\ IsUtf8(n.name[1])
      BY <1>1, <2>1, NameText DEF Placed, IsText
    <2>3. At(input, TagAt(n) + 1, NameBytes(n)) /\ TagAt(n) + 1 \in Nat
      BY <1>1, PartsAt
    <2>4. Digits = Len(n.name[1]) /\ pos + 1 = TagAt(n) + 1 + Len(VarintOf[Len(n.name[1])])
      BY <1>2, <1>7 DEF NumberOf, Upto, NumberFrom
    <2>5. Text = n.name[1]
      BY <2>2, <2>3, <2>4, TextHere
    <2> QED BY <1>5, <2>2, <2>5
  <1> QED BY <1>6, <1>7

\* A tag in the slice is refused only where its node is too deep.
LEMMA TagsStand ==
  ASSUME IInv, NEW ns, Whole(ns), Slice(ns), Following(ns), BadTag
  PROVE  phase' = "depth" /\ Deep(ns)
  <1> DEFINE n == Upcoming(ns)
             k == Len(nodes) + 1
  <1>1. phase = "tag"
    BY DEF BadTag
  <1>2. /\ Waits /\ Along(ns) /\ Len(nodes) < Len(ns)
        /\ Reached(n) /\ n \in NodeRecords /\ Placed(n, Parent) /\ Place \in Nat
        /\ At(input, Place, BytesOf(n))
    BY <1>1, NodeAhead DEF NodePhases, Slice
  <1>3. pos = TagAt(n)
    BY <1>1, <1>2 DEF Reached
  <1>4. HasByte
    <2>1. /\ TagAt(n) \in Nat /\ Len(NameBytes(n)) \in Nat
          /\ Place + Len(BytesOf(n)) = TagAt(n) + 1 + Len(NameBytes(n)) + Len(CountBytes(n))
      BY <1>2, PartsAt
    <2>2. Len(CountBytes(n)) \in Nat
      BY <1>2, NodeParts
    <2>3. Place + Len(BytesOf(n)) <= limit
      BY <1>2, NodeWithin
    <2>4. limit \in Nat
      BY DEF IInv, DecodeTypeOK
    <2> QED BY <1>3, <2>1, <2>2, <2>3, <2>4 DEF HasByte
  <1>5. KnownTag
    <2>1. input[TagAt(n) + 1] = n.tag % 32
      BY <1>2, PartsAt
    <2> QED BY <1>2, <1>3, <2>1, TagIs DEF Byte
  <1>6. TooDeep /\ phase' = "depth"
    BY <1>4, <1>5 DEF BadTag, End
  <1>7. Last(Due(ns)[Len(nodes)]).level = Len(stack)
    BY <1>2, NextNode DEF Slice
  <1>8. k \in 1 .. Len(ns) /\ k - 1 = Len(nodes)
    BY <1>2, LenProperties DEF IInv, DecodeTypeOK, Whole
  <1> HIDE DEF k
  <1>9. Last(Due(ns)[k - 1]).level >= MaxDepth
    BY <1>6, <1>7, <1>8 DEF TooDeep
  <1> QED BY <1>6, <1>8, <1>9 DEF Deep

LEMMA OnlyDeep ==
  ASSUME IInv, Weighed, NEW ns, Whole(ns), Slice(ns), Following(ns), phase \in SchemaPhases, Decode
  PROVE  phase' \in SchemaPhases \/ (phase' = "depth" /\ Deep(ns))
  <1>1. CASE TakeMagic \/ NoMagic \/ ReadFrameVersion \/ ReadSchemaLen
    <2>1. phase \in {"magic", "frameVersion", "schemaLen"}
      BY <1>1 DEF TakeMagic, NoMagic, ReadFrameVersion, ReadSchemaLen, Number
    <2> QED BY <2>1 DEF SchemaPhases, NodePhases
  <1>2. CASE BadVarint \/ NoByte
    <2>1. phase \in VarintPhases
      BY <1>2 DEF BadVarint, NoByte
    <2> QED BY <1>2, <2>1, NumbersStand
  <1>3. CASE BadText
    <2>1. phase \in {"labelLen", "nameLen"}
      BY <1>3 DEF BadText, Number
    <2> QED BY <1>3, <2>1, TextsStand
  <1>4. CASE BadTag
    BY <1>4, TagsStand
  <1>5. CASE ReadSchemaVersion
    BY <1>5, VersionFollows DEF Slice, SchemaPhases, NodePhases
  <1>6. CASE EndOfSchema
    <2>1. phase = "next" /\ stack = << >> /\ phase' = IF AllConsumed THEN "accepted" ELSE "trailing"
      BY <1>6 DEF EndOfSchema, End
    <2>2. pos = limit
      BY <2>1, ReadThrough DEF Slice
    <2> QED BY <2>1, <2>2 DEF AllConsumed, SchemaPhases
  <1>7. CASE TakeDigit \/ Return
    <2>1. phase' = phase
      BY <1>7 DEF TakeDigit, Return
    <2> QED BY <2>1
  <1>8. CASE ReadLabel \/ ReadTag \/ ReadName \/ ReadCount \/ Descend
    <2>1. phase' \in {"labelLen", "tag", "nameLen", "count", "next"}
      BY <1>8 DEF ReadLabel, ReadTag, ReadName, ReadCount, Descend, Enter
    <2> QED BY <2>1 DEF SchemaPhases, NodePhases
  <1> QED BY <1>1, <1>2, <1>3, <1>4, <1>5, <1>6, <1>7, <1>8 DEF Decode

-----------------------------------------------------------------------------
(***************************************************************************)
(* What is accepted is a schema.                                           *)
(***************************************************************************)

\* The digits read are less than the next one counts for.
Below == value < weight

LEMMA DigitBelow ==
  ASSUME NEW w \in Nat \ {0}, NEW v \in Nat, v < w, NEW d \in Nat
  PROVE  /\ d < 128 => v + d * w < 128 * w
         /\ d <= 1 => v + d * w < 2 * w
  <1>1. \A e \in Nat : d <= e => d * w <= e * w
    <2> TAKE e \in Nat
    <2> HAVE d <= e
    <2>1. PICK x \in Nat : e = d + x
      <3>1. e - d \in Nat /\ e = d + (e - d)
        OBVIOUS
      <3> QED BY <3>1
    <2>2. e * w = d * w + x * w
      BY <2>1
    <2>3. x * w \in Nat /\ d * w \in Nat
      BY <2>1
    <2> QED BY <2>2, <2>3
  <1>2. d * w \in Nat
    OBVIOUS
  <1>3. d < 128 => d * w <= 127 * w
    BY <1>1
  <1>4. d <= 1 => d * w <= 1 * w
    BY <1>1
  <1> QED BY <1>2, <1>3, <1>4

LEMMA BelowKeeps == ASSUME IInv, Below, [DecodeNext]_decodeVars PROVE Below'
  <1>1. CASE TakeDigit
    <2> DEFINE d == Byte % 128
    <2>1. HasByte /\ value' = value + d * weight /\ weight' = weight * 128
      BY <1>1 DEF TakeDigit, Digits
    <2>2. d \in Nat /\ d < 128
      BY <2>1, DigitsType DEF Bytes
    <2> HIDE DEF d
    <2>3. value \in Nat /\ weight \in Nat \ {0}
      BY DEF IInv, DecodeTypeOK
    <2>4. value + d * weight < 128 * weight
      BY <2>2, <2>3, DigitBelow DEF Below
    <2>5. 128 * weight = weight * 128
      BY <2>3
    <2> QED BY <2>1, <2>4, <2>5 DEF Below
  <1>2. CASE value' = 0 /\ weight' = 1
    BY <1>2 DEF Below
  <1>3. CASE value' = value /\ weight' = weight
    BY <1>3 DEF Below
  <1>4. OpenBytes => value' = value /\ weight' = weight
    BY DEF OpenBytes
  <1>5. (NoMagic \/ BadVarint \/ NoByte \/ BadText \/ BadTag \/ EndOfSchema)
          => value' = value /\ weight' = weight
    BY DEF NoMagic, BadVarint, NoByte, BadText, BadTag, EndOfSchema, End
  <1>6. (ReadFrameVersion \/ ReadSchemaLen \/ ReadSchemaVersion \/ ReadLabel \/ ReadName \/ ReadCount)
          => value' = 0 /\ weight' = 1
    BY DEF ReadFrameVersion, ReadSchemaLen, ReadSchemaVersion, ReadLabel, ReadName, ReadCount,
           TakeText, NumberDone
  <1>7. (TakeMagic \/ ReadTag \/ Descend \/ Return \/ UNCHANGED decodeVars)
          => value' = value /\ weight' = weight
    BY DEF TakeMagic, ReadTag, Descend, Return, decodeVars
  <1> QED BY <1>1, <1>2, <1>3, <1>4, <1>5, <1>6, <1>7 DEF DecodeNext, Decode

\* A number that is read fits a u64.
LEMMA NumberFits ==
  ASSUME IInv, Weighed, Below, HasByte, Fits
  PROVE  Digits \in Numbers
  <1> DEFINE d == Byte % 128
  <1>1. d \in Nat /\ d < 128 /\ Digits \in Nat
    BY DigitsType DEF Bytes
  <1>2. Digits = value + d * weight
    BY DEF Digits
  <1>3. value \in Nat /\ weight \in Nat \ {0} /\ value < weight
    BY DEF IInv, DecodeTypeOK, Below
  <1>4. Fits => weight < LastWeight \/ (weight = LastWeight /\ d <= 1)
    BY DEF Fits
  <1> HIDE DEF d
  <1>5. PICK i \in Nat : weight = Weight[i]
    BY DEF Weighed
  <1>6. Places - 1 \in Nat /\ LastWeight = Weight[Places - 1]
    BY SchemaBytesAssumption DEF LastWeight
  <1>7. LastWeight \in Nat \ {0}
    BY <1>6, WeightType
  <1>8. CASE weight < LastWeight
    <2>1. 128 * weight <= LastWeight
      <3>1. Weight[i] < Weight[Places - 1]
        BY <1>5, <1>6, <1>8
      <3> QED BY <1>5, <1>6, <3>1, WeightGap
    <2>2. value + d * weight < 128 * weight
      BY <1>1, <1>3, DigitBelow
    <2>3. 128 * weight \in Nat
      BY <1>3
    <2> QED BY <1>1, <1>2, <1>7, <2>1, <2>2, <2>3 DEF Numbers
  <1>9. CASE weight = LastWeight /\ d <= 1
    <2>1. value + d * weight < 2 * weight
      BY <1>1, <1>3, <1>9, DigitBelow
    <2> QED BY <1>1, <1>2, <1>7, <1>9, <2>1 DEF Numbers
  <1> QED BY <1>4, <1>8, <1>9

-----------------------------------------------------------------------------

\* Some nodes that are there are a schema's first, no deeper than the limit.
Begun(ns) ==
  /\ Growing(ns)
  /\ ~ Deep(ns)

\* The nodes read are a schema's first, and the stack holds what is missing.
Built == Begun(nodes) /\ Due(nodes)[Len(nodes)] = Awaits

\* What is read of a node is what its parent and its tag call for.
Partly ==
  /\ phase = "labelLen" => Parent \in Labelled
  /\ phase \in {"tag", "nameLen", "count"} =>
       /\ node.label # << >> <=> Parent \in Labelled
       /\ node.label # << >> => IsText(node.label[1])
  /\ phase \in {"nameLen", "count"} =>
       node.tag \in IF Parent \in Enums THEN ShapeTags ELSE NodeTags
  /\ phase = "nameLen" => node.tag \in Named
  /\ phase = "count" =>
       /\ node.tag \in Counted
       /\ node.name # << >> <=> node.tag \in Named
       /\ node.name # << >> => IsText(node.name[1])

\* So far it is a schema.
Grown ==
  phase \in SchemaPhases =>
    /\ Stacked
    /\ Built
    /\ Partly
    /\ phase \in {"next", "accepted"} => nodes # << >>
    /\ phase = "accepted" => stack = << >>

LEMMA NothingBuilt ==
  ASSUME nodes = << >>
  PROVE  Built
  <1>1. Len(nodes) = 0
    OBVIOUS
  <1>2. Due(nodes)[0] = <<Slot(0, 0)>>
    BY <1>1, DueIs
  <1>3. 1 .. Len(nodes) = {}
    BY <1>1
  <1>4. Begun(nodes)
    BY <1>3 DEF Begun, Growing, Deep
  <1> QED BY <1>1, <1>2, <1>4 DEF Built, Awaits

\* A node more, the one that is due.
LEMMA BegunMore ==
  ASSUME NEW ns \in Seq(NodeRecords), NEW n \in NodeRecords, Begun(ns),
         Due(ns)[Len(ns)] # << >>, Placed(n, Last(Due(ns)[Len(ns)]).parent),
         ~ (Last(Due(ns)[Len(ns)]).level >= MaxDepth)
  PROVE  /\ Begun(Append(ns, n))
         /\ Len(Append(ns, n)) = Len(ns) + 1
         /\ Due(Append(ns, n))[Len(ns) + 1] = DueAfter(Due(ns)[Len(ns)], n)
  <1> DEFINE k == Len(ns)
             ms == Append(ns, n)
  <1>1. k \in Nat /\ Len(ms) = k + 1 /\ ms[k + 1] = n /\ \A i \in 1 .. k : ms[i] = ns[i]
    BY LenProperties, AppendProperties
  <1> HIDE DEF ms, k
  <1>2. ASSUME NEW j \in 0 .. k PROVE Due(ms)[j] = Due(ns)[j]
    <2>1. \A i \in 1 .. j : ms[i] = ns[i]
      BY <1>1
    <2>2. j \in Nat /\ j <= k /\ j <= Len(ms) /\ Len(ms) \in Nat
      BY <1>1
    <2> QED BY <1>1, <2>1, <2>2, DueSame DEF k
  <1>3. Due(ms)[k + 1] = DueAfter(Due(ns)[k], n)
    <2>1. k + 1 \in 1 .. Len(ms) /\ (k + 1) - 1 = k /\ k \in 0 .. k /\ Len(ms) \in Nat
      BY <1>1
    <2>2. Due(ms)[k + 1] = DueAfter(Due(ms)[(k + 1) - 1], ms[k + 1])
      BY <2>1, DueIs
    <2> QED BY <1>1, <1>2, <2>1, <2>2
  <1>4. ASSUME NEW j \in 1 .. Len(ms)
        PROVE  /\ Due(ms)[j - 1] # << >> /\ Placed(ms[j], Last(Due(ms)[j - 1]).parent)
               /\ ~ (Last(Due(ms)[j - 1]).level >= MaxDepth)
    <2>1. CASE j = k + 1
      <3>1. j - 1 = k /\ k \in 0 .. k
        BY <1>1, <2>1
      <3> QED BY <1>1, <1>2, <2>1, <3>1 DEF k
    <2>2. CASE j # k + 1
      <3>1. j \in 1 .. k /\ j - 1 \in 0 .. k
        BY <1>1, <2>2
      <3>2. Due(ms)[j - 1] = Due(ns)[j - 1] /\ ms[j] = ns[j]
        BY <1>1, <1>2, <3>1
      <3>3. /\ Due(ns)[j - 1] # << >> /\ Placed(ns[j], Last(Due(ns)[j - 1]).parent)
            /\ ~ (Last(Due(ns)[j - 1]).level >= MaxDepth)
        BY <3>1 DEF Begun, Growing, Deep, k
      <3> QED BY <3>2, <3>3
    <2> QED BY <2>1, <2>2
  <1>5. Begun(ms)
    BY <1>4 DEF Begun, Growing, Deep
  <1> QED BY <1>1, <1>3, <1>5 DEF ms, k

\* A node that is entered is the one that was due.
LEMMA EnterGrows ==
  ASSUME IInv, Grown, phase \in NodePhases, NEW n \in NodeRecords, Placed(n, Parent),
         Len(stack) < MaxDepth, Enter(n)
  PROVE  Grown'
  <1>1. Stacked /\ Begun(nodes) /\ Due(nodes)[Len(nodes)] = Awaits
    BY DEF Grown, Built, SchemaPhases
  <1>2. Waits
    BY <1>1, WaitsHere
  <1>3. Awaits # << >> /\ Last(Awaits) = Slot(Parent, Len(stack))
    BY <1>2, AwaitsTop
  <1>4. Last(Awaits).parent = Parent /\ Last(Awaits).level = Len(stack)
    BY <1>3 DEF Slot
  <1>5. nodes \in Seq(NodeRecords) /\ Len(stack) \in Nat
    BY LenProperties DEF IInv, DecodeTypeOK
  <1>6. ~ (Last(Awaits).level >= MaxDepth)
    BY <1>4, <1>5, SchemaBytesAssumption
  <1>7. Children(n) \in Nat
    BY OneInNumbers DEF Placed, Children, Arity
  <1>8. nodes' = Append(nodes, n) /\ phase' = "next"
    BY DEF Enter
  <1>9. /\ Begun(Append(nodes, n))
        /\ Len(Append(nodes, n)) = Len(nodes) + 1
        /\ Due(Append(nodes, n))[Len(nodes) + 1] = DueAfter(Awaits, n)
    <2>1. PICK ns \in Seq(NodeRecords) : ns = nodes
      BY <1>5
    <2>2. /\ Begun(ns) /\ Due(ns)[Len(ns)] # << >> /\ Placed(n, Last(Due(ns)[Len(ns)]).parent)
          /\ ~ (Last(Due(ns)[Len(ns)]).level >= MaxDepth)
      BY <1>1, <1>3, <1>4, <1>6, <2>1
    <2> QED BY <1>1, <2>1, <2>2, BegunMore
  <1>10. Awaits' = DueAfter(Awaits, n)
    BY <1>2, <1>7, EnterAwaits
  <1>11. Built'
    <2>1. Begun(nodes')
      BY <1>8, <1>9
    <2>2. Due(nodes')[Len(nodes')] = Awaits'
      BY <1>8, <1>9, <1>10
    <2> QED BY <2>1, <2>2 DEF Built
  <1>12. nodes' # << >>
    BY <1>5, <1>8, AppendProperties
  <1> QED BY <1>8, <1>11, <1>12 DEF Grown, Stacked, Partly, NodePhases

\* A text that is read is a node's.
LEMMA TextFits ==
  ASSUME IInv, Weighed, Below, HasByte, Fits, HasText, IsUtf8(Text)
  PROVE  Text \in Texts /\ IsText(Text)
  BY TextConsumed, NumberFits DEF IsText

\* The actions that leave the nodes and the stack alone.
LEMMA StillBuilt == ASSUME Built, UNCHANGED <<nodes, stack>> PROVE Built'
  BY DEF Built, Awaits

LEMMA SchemaOpens ==
  ASSUME nodes = << >>, stack = << >>, UNCHANGED <<nodes, stack>>,
         phase' \in Failures \union {"magic", "frameVersion", "schemaLen", "version"}
  PROVE  Grown'
  <1>1. Built'
    BY NothingBuilt, StillBuilt
  <1> QED BY <1>1 DEF Grown, Stacked, Partly, Failures, SchemaPhases, NodePhases

LEMMA HeaderGrows ==
  ASSUME IInv, Readback, OpenBytes \/ TakeMagic \/ NoMagic \/ ReadFrameVersion \/ ReadSchemaLen
  PROVE  Grown'
  <1>1. phase \in {"idle", "magic", "frameVersion", "schemaLen"}
    BY DEF OpenBytes, TakeMagic, NoMagic, ReadFrameVersion, ReadSchemaLen, Number
  <1>2. nodes = << >> /\ stack = << >>
    BY <1>1 DEF IInv, Untouched
  <1>3. UNCHANGED <<nodes, stack>>
    BY DEF OpenBytes, TakeMagic, NoMagic, End, ReadFrameVersion, ReadSchemaLen
  <1>4. phase' \in Failures \union {"magic", "frameVersion", "schemaLen", "version"}
    BY DEF OpenBytes, TakeMagic, NoMagic, End, ReadFrameVersion, VersionRead, ReadSchemaLen, Failures
  <1> QED BY <1>2, <1>3, <1>4, SchemaOpens

LEMMA VersionGrows ==
  ASSUME IInv, Readback, ReadSchemaVersion
  PROVE  Grown'
  <1>1. /\ phase = "version" /\ phase' \in {"malformed", "unsupported", "tag"}
        /\ UNCHANGED <<node, nodes, stack>>
    BY DEF ReadSchemaVersion, Number, VersionRead
  <1>2. nodes = << >> /\ stack = << >> /\ node = NoNode
    BY <1>1 DEF IInv, Untouched, Readback, Fresh
  <1>3. Built'
    BY <1>1, <1>2, NothingBuilt, StillBuilt
  <1>4. Parent' = 0 /\ node' = NoNode
    BY <1>1, <1>2 DEF Parent
  <1>5. Partly'
    BY <1>1, <1>4 DEF Partly, NoNode, Node, Labelled, Shape
  <1> QED BY <1>1, <1>2, <1>3, <1>5 DEF Grown, Stacked, SchemaPhases, NodePhases

LEMMA LabelGrows ==
  ASSUME IInv, Readback, Weighed, Below, Grown, ReadLabel
  PROVE  Grown'
  <1>1. /\ phase = "labelLen" /\ phase' = "tag" /\ node' = [node EXCEPT !.label = <<Text>>]
        /\ UNCHANGED <<nodes, stack>> /\ HasByte /\ Fits /\ HasText /\ IsUtf8(Text)
    BY DEF ReadLabel, Number
  <1>2. Stacked /\ Built /\ Parent \in Labelled
    BY <1>1 DEF Grown, Partly, SchemaPhases, NodePhases
  <1>3. IsText(Text)
    BY <1>1, TextFits
  <1>4. node'.label = <<Text>>
    BY <1>1 DEF IInv, DecodeTypeOK, NodeRecords
  <1>5. Parent' = Parent
    BY <1>1 DEF Parent
  <1>6. Partly'
    BY <1>1, <1>2, <1>3, <1>4, <1>5 DEF Partly
  <1> QED BY <1>1, <1>2, <1>6, StillBuilt DEF Grown, Stacked, NodePhases

LEMMA TagGrows ==
  ASSUME IInv, Readback, Grown, ReadTag
  PROVE  Grown'
  <1> DEFINE n == [node EXCEPT !.tag = Tag]
  <1>1. phase = "tag" /\ KnownTag /\ ~ TooDeep
    BY DEF ReadTag
  <1>2. n \in NodeRecords /\ n.tag = Tag /\ n.label = node.label /\ n.name = << >> /\ n.count = << >>
    BY <1>1 DEF KnownTag, IInv, DecodeTypeOK, NodeRecords, Readback, Fresh
  <1>3. /\ Stacked /\ Built
        /\ node.label # << >> <=> Parent \in Labelled
        /\ node.label # << >> => IsText(node.label[1])
    BY <1>1 DEF Grown, Partly, SchemaPhases, NodePhases
  <1>4. Tag \in IF Parent \in Enums THEN ShapeTags ELSE NodeTags
    BY <1>1 DEF KnownTag
  <1>5. \/ /\ node' = n /\ UNCHANGED <<nodes, stack>>
           /\ \/ phase' = "nameLen" /\ Tag \in Named
              \/ phase' = "count" /\ Tag \in Counted \ Named
        \/ Enter(n) /\ Tag \notin Named \union Counted
    BY DEF ReadTag
  <1> HIDE DEF n
  <1>6. CASE node' = n /\ UNCHANGED <<nodes, stack>>
    <2>1. \/ phase' = "nameLen" /\ Tag \in Named
          \/ phase' = "count" /\ Tag \in Counted \ Named
      <3>1. CASE Enter(n)
        <4>1. nodes' # nodes
          <5>1. nodes \in Seq(NodeRecords)
            BY DEF IInv, DecodeTypeOK
          <5>2. Len(nodes) \in Nat /\ Len(Append(nodes, n)) = Len(nodes) + 1
            BY <1>2, <5>1, LenProperties, AppendProperties
          <5> QED BY <3>1, <5>2 DEF Enter
        <4> QED BY <1>6, <4>1
      <3> QED BY <1>5, <3>1
    <2>2. Parent' = Parent
      BY <1>6 DEF Parent
    <2>3. Partly'
      BY <1>2, <1>3, <1>4, <1>6, <2>1, <2>2 DEF Partly
    <2>4. Stacked'
      BY <1>1, <1>3, <1>6, <2>1 DEF Stacked, NodePhases
    <2> QED BY <1>3, <1>6, <2>1, <2>3, <2>4, StillBuilt DEF Grown
  <1>7. CASE Enter(n) /\ Tag \notin Named \union Counted
    <2>1. Placed(n, Parent)
      BY <1>2, <1>3, <1>4, <1>7 DEF Placed
    <2>2. Len(stack) < MaxDepth
      BY <1>1, SchemaBytesAssumption, LenProperties DEF TooDeep, IInv, DecodeTypeOK
    <2> QED BY <1>1, <1>2, <1>7, <2>1, <2>2, EnterGrows DEF NodePhases
  <1> QED BY <1>5, <1>6, <1>7

LEMMA NameGrows ==
  ASSUME IInv, Readback, Weighed, Below, Grown, ReadName
  PROVE  Grown'
  <1> DEFINE n == [node EXCEPT !.name = <<Text>>]
  <1>1. phase = "nameLen" /\ HasByte /\ Fits /\ HasText /\ IsUtf8(Text)
    BY DEF ReadName, Number
  <1>2. Text \in Texts /\ IsText(Text)
    BY <1>1, TextFits
  <1>3. /\ n \in NodeRecords /\ n.tag = node.tag /\ n.label = node.label /\ n.name = <<Text>>
        /\ n.count = << >>
    BY <1>1, <1>2, OneIsMaybe DEF IInv, DecodeTypeOK, NodeRecords, Readback, Fresh
  <1>4. /\ Stacked /\ Built
        /\ node.label # << >> <=> Parent \in Labelled
        /\ node.label # << >> => IsText(node.label[1])
        /\ node.tag \in Named
        /\ node.tag \in IF Parent \in Enums THEN ShapeTags ELSE NodeTags
    BY <1>1 DEF Grown, Partly, SchemaPhases, NodePhases
  <1>5. IF n.tag \in Counted
        THEN node' = n /\ phase' = "count" /\ UNCHANGED <<stack, nodes>>
        ELSE Enter(n)
    BY DEF ReadName
  <1> HIDE DEF n
  <1>6. CASE n.tag \in Counted
    <2>1. node' = n /\ phase' = "count" /\ UNCHANGED <<stack, nodes>>
      BY <1>5, <1>6
    <2>2. Parent' = Parent
      BY <2>1 DEF Parent
    <2>3. Partly'
      <3>1. /\ node'.tag = node.tag /\ node'.label = node.label
            /\ node'.name # << >> /\ node'.name[1] = Text
        BY <1>3, <2>1
      <3> QED BY <1>2, <1>4, <1>6, <1>3, <2>1, <2>2, <3>1 DEF Partly
    <2>4. Stacked'
      BY <1>1, <1>4, <2>1 DEF Stacked, NodePhases
    <2> QED BY <1>4, <2>1, <2>3, <2>4, StillBuilt DEF Grown
  <1>7. CASE n.tag \notin Counted
    <2>1. Placed(n, Parent)
      BY <1>2, <1>3, <1>4, <1>7 DEF Placed
    <2>2. Len(stack) < MaxDepth
      BY <1>1 DEF IInv, Underway
    <2> QED BY <1>1, <1>3, <1>5, <1>7, <2>1, <2>2, EnterGrows DEF NodePhases
  <1> QED BY <1>6, <1>7

LEMMA CountGrows ==
  ASSUME IInv, Readback, Weighed, Below, Grown, ReadCount
  PROVE  Grown'
  <1> DEFINE n == [node EXCEPT !.count = <<Digits>>]
  <1>1. phase = "count" /\ HasByte /\ Fits /\ Enter(n)
    BY DEF ReadCount, Number
  <1>2. Digits \in Numbers /\ Digits \in Nat
    BY <1>1, NumberFits, OneInNumbers
  <1>3. /\ n \in NodeRecords /\ n.tag = node.tag /\ n.label = node.label /\ n.name = node.name
        /\ n.count = <<Digits>>
    BY <1>2, OneIsMaybe DEF IInv, DecodeTypeOK, NodeRecords
  <1>4. /\ node.label # << >> <=> Parent \in Labelled
        /\ node.label # << >> => IsText(node.label[1])
        /\ node.name # << >> <=> node.tag \in Named
        /\ node.name # << >> => IsText(node.name[1])
        /\ node.tag \in Counted
        /\ node.tag \in IF Parent \in Enums THEN ShapeTags ELSE NodeTags
    BY <1>1 DEF Grown, Partly, SchemaPhases, NodePhases
  <1> HIDE DEF n
  <1>5. Placed(n, Parent)
    BY <1>2, <1>3, <1>4 DEF Placed
  <1>6. Len(stack) < MaxDepth
    BY <1>1 DEF IInv, Underway
  <1> QED BY <1>1, <1>3, <1>5, <1>6, EnterGrows DEF NodePhases

LEMMA DescendGrows ==
  ASSUME IInv, Grown, Descend
  PROVE  Grown'
  <1>1. /\ phase = "next" /\ stack # << >> /\ UNCHANGED <<node, nodes, stack>>
        /\ phase' = IF Parent \in Labelled THEN "labelLen" ELSE "tag"
    BY DEF Descend
  <1>2. Built /\ node = NoNode
    BY <1>1 DEF Grown, SchemaPhases, IInv, DecodeTypeOK
  <1>3. Parent' = Parent
    BY <1>1 DEF Parent
  <1>4. Stacked /\ Stacked'
    BY <1>1 DEF Grown, SchemaPhases, Stacked
  <1>5. Partly'
    BY <1>1, <1>2, <1>3 DEF Partly, NoNode, Node
  <1> QED BY <1>1, <1>2, <1>4, <1>5, StillBuilt DEF Grown

LEMMA ReturnGrows ==
  ASSUME IInv, Grown, Return
  PROVE  Grown'
  <1>1. /\ phase = "next" /\ stack # << >> /\ stack[Len(stack)].left = 0 /\ stack' = Front(stack)
        /\ phase' = "next" /\ nodes' = nodes
    BY DEF Return
  <1>2. Built /\ nodes # << >>
    BY <1>1 DEF Grown, SchemaPhases
  <1>3. Awaits' = Awaits
    <2>1. stack \in Seq(Frames)
      BY DEF IInv, DecodeTypeOK, Frames, NodeTag
    <2>2. Pending(Front(stack)) = Pending(stack)
      BY <1>1, <2>1, PendingReturn
    <2> QED BY <1>1, <1>2, <2>2 DEF Awaits
  <1>4. Built'
    BY <1>1, <1>2, <1>3 DEF Built
  <1> QED BY <1>1, <1>2, <1>4 DEF Grown, Stacked, Partly, NodePhases

LEMMA EndGrows ==
  ASSUME IInv, Grown, EndOfSchema
  PROVE  Grown'
  <1>1. /\ phase = "next" /\ stack = << >> /\ phase' \in {"accepted", "trailing"}
        /\ UNCHANGED <<nodes, stack>>
    BY DEF EndOfSchema, End
  <1>2. Built /\ nodes # << >>
    BY <1>1 DEF Grown, SchemaPhases
  <1> QED BY <1>1, <1>2, StillBuilt DEF Grown, Stacked, Partly, SchemaPhases, NodePhases

LEMMA GrownKeeps ==
  ASSUME IInv, Readback, Weighed, Below, Grown, [DecodeNext]_decodeVars
  PROVE  Grown'
  <1>1. CASE BadVarint \/ NoByte \/ BadText \/ BadTag
    <2>1. phase' \in Failures
      BY <1>1 DEF BadVarint, NoByte, BadText, BadTag, End, Failures
    <2> QED BY <2>1 DEF Grown, Failures, SchemaPhases, NodePhases
  <1>2. CASE TakeDigit \/ UNCHANGED decodeVars
    <2>1. UNCHANGED <<phase, node, stack, nodes>>
      BY <1>2 DEF TakeDigit, decodeVars
    <2>2. Parent' = Parent
      BY <2>1 DEF Parent
    <2>3. Partly => Partly'
      BY <2>1, <2>2 DEF Partly
    <2>4. Stacked => Stacked'
      BY <2>1 DEF Stacked
    <2> QED BY <2>1, <2>3, <2>4, StillBuilt DEF Grown
  <1> QED BY <1>1, <1>2, HeaderGrows, VersionGrows, LabelGrows, TagGrows, NameGrows, CountGrows,
          DescendGrows, ReturnGrows, EndGrows DEF DecodeNext, Decode

\* Where no child is due, the schema is whole.
AcceptedIsWhole == phase = "accepted" => Whole(nodes) /\ ~ Deep(nodes)

\* Whatever the input, what the decoder accepts is a schema: no node is missing
\* and none too many, each has the parts its tag and its parent call for, its
\* texts are UTF-8 and its numbers those of a u64, and it is no deeper than the
\* limit (SchemaNode::decode, which builds the tree as it reads it).
THEOREM ReadsSchemas == DecodeSpec => []AcceptedIsWhole
  <1>1. DecodeInit => Below /\ Grown
    BY DEF DecodeInit, Below, Grown, SchemaPhases, NodePhases
  <1>2. IInv /\ Readback /\ Weighed /\ Below /\ Grown /\ [DecodeNext]_decodeVars => (Below /\ Grown)'
    BY BelowKeeps, GrownKeeps
  <1>3. IInv /\ Grown => AcceptedIsWhole
    <2> SUFFICES ASSUME IInv, Grown, phase = "accepted" PROVE Whole(nodes) /\ ~ Deep(nodes)
      BY DEF AcceptedIsWhole
    <2>1. Built /\ nodes # << >> /\ stack = << >>
      BY DEF Grown, SchemaPhases
    <2>2. Due(nodes)[Len(nodes)] = << >>
      BY <2>1, PendingNothing DEF Built, Awaits
    <2> QED BY <2>1, <2>2 DEF Whole, Built, Begun, IInv, DecodeTypeOK
  <1> QED BY <1>1, <1>2, <1>3, Invariant, ReadsBack, AlwaysWeighed, PTL DEF DecodeSpec

-----------------------------------------------------------------------------
(***************************************************************************)
(* What is shipped.                                                        *)
(***************************************************************************)

Framed == Frame(ToBytes(sent), Data)

HeaderPhases == {"magic", "frameVersion", "schemaLen"}

\* What is being read came from a frame, perhaps damaged.
Whence ==
  phase # "idle" =>
    /\ Whole(sent) /\ Sized(sent)
    /\ start # 0 \/ phase \in HeaderPhases => input = Framed \/ input \in Harmed(Framed)

\* The header read is what its length says.
Headed ==
  start # 0 =>
    /\ limit - start \in Nat
    /\ start = Len(Header(limit - start))
    /\ At(input, 0, Header(limit - start))

\* What is shipped intact stands there, and is refused only for its depth.
Undamaged ==
  ~ damaged /\ phase # "idle" =>
    /\ phase \in Failures => phase = "depth" /\ Deep(sent)
    /\ phase \in SchemaPhases => Slice(sent)
    /\ phase \in HeaderPhases => input = Framed /\ limit = Len(input)
    /\ phase = "frameVersion" => Reads(1, Len(Magic) + Len(VarintOf[1]))
    /\ phase = "schemaLen" => Reads(Len(ToBytes(sent)), Len(Header(Len(ToBytes(sent)))))

SInv == Whence /\ Headed /\ Undamaged

\* Of what is shipped, the decoder reads some bytes as it does any.
LEMMA ShipOpens == ASSUME NEW ns, Ship(ns) PROVE OpenBytes /\ sent' = ns
  BY DEF Ship, ShipSchema, ShipFrame, Send

LEMMA ShipmentDecodes == ShipmentSpec => DecodeSpec
  <1>1. ShipmentInit => DecodeInit
    BY DEF ShipmentInit
  <1>2. [ShipmentNext]_shipmentVars => [DecodeNext]_decodeVars
    BY ShipOpens DEF ShipmentNext, Receive, DecodeNext, shipmentVars
  <1> QED BY <1>1, <1>2, PTL DEF ShipmentSpec, DecodeSpec

\* A frame is its header, its schema and its data, one behind another.
LEMMA FrameParts ==
  ASSUME NEW ns, Whole(ns)
  PROVE  LET schema == ToBytes(ns)
             header == Header(Len(schema))
         IN  /\ schema \in Seq(Bytes) /\ Len(schema) \in Nat
             /\ header \in Seq(Bytes) /\ Len(header) \in Nat
             /\ Frame(schema, Data) \in Seq(Bytes)
             /\ At(Frame(schema, Data), 0, header)
             /\ At(Frame(schema, Data), Len(header), schema)
  <1> DEFINE schema == ToBytes(ns)
             header == Header(Len(schema))
             frame == Frame(schema, Data)
  <1>1. schema \in Seq(Bytes) /\ Len(schema) \in Nat
    <2>1. schema \in Seq(Bytes)
      BY NoNodeType, ToBytesAppend DEF Whole
    <2> QED BY <2>1, LenProperties
  <1>2. Data \in Seq(Bytes)
    BY ShipmentAssumption
  <1>3. frame = (header \o schema) \o Data
    BY DEF Frame
  <1> HIDE DEF schema
  <1>4. header \in Seq(Bytes)
    BY <1>1, HeaderType
  <1> HIDE DEF header, frame
  <1>5. header \o schema \in Seq(Bytes)
    BY <1>1, <1>4, ConcatProperties, Zenon
  <1>6. (header \o schema) \o Data \in Seq(Bytes)
    BY <1>2, <1>5, ConcatProperties, Zenon
  <1>7. frame \in Seq(Bytes) /\ Len(header) \in Nat /\ Len(frame) \in Nat
    BY <1>3, <1>4, <1>6, LenProperties
  <1>8. At(frame, 0, (header \o schema) \o Data)
    BY <1>3, <1>7 DEF At
  <1>9. At(frame, 0, header \o schema)
    BY <1>2, <1>5, <1>7, <1>8, AtConcat
  <1>10. At(frame, 0, header) /\ At(frame, 0 + Len(header), schema)
    BY <1>1, <1>4, <1>7, <1>9, AtConcat
  <1>11. 0 + Len(header) = Len(header)
    BY <1>7
  <1> QED BY <1>1, <1>4, <1>7, <1>10, <1>11 DEF header, frame, schema

\* A header is as long as its parts, and its length is one number.
LEMMA HeaderParts ==
  ASSUME NEW b \in Seq(Bytes), NEW m \in Nat
  PROVE  LET before == Magic \o VarintOf[FormatVersion]
         IN  /\ Len(Magic) \in Nat /\ Len(before) \in Nat /\ Len(Header(m)) \in Nat
             /\ before \in Seq(Bytes) /\ Magic \in Seq(Bytes)
             /\ Len(before) = Len(Magic) + Len(VarintOf[1])
             /\ Len(Header(m)) = Len(before) + Len(VarintOf[m])
             /\ Len(Header(m)) # 0
             /\ At(b, 0, Header(m)) =>
                  At(b, 0, Magic) /\ At(b, Len(Magic), VarintOf[1]) /\ At(b, Len(before), VarintOf[m])
  <1> DEFINE version == VarintOf[FormatVersion]
             len == VarintOf[m]
             before == Magic \o version
  <1>1. Magic \in Seq(Bytes)
    BY SchemaBytesAssumption DEF Bytes
  <1>2. version \in Seq(Bytes) /\ version = VarintOf[1]
    <2>1. FormatVersion \in Nat /\ FormatVersion = 1
      BY DEF FormatVersion
    <2> QED BY <2>1, VarintType
  <1>3. len \in Seq(Bytes) /\ Len(len) \in Nat \ {0}
    BY VarintType, VarintLen
  <1>4. Header(m) = before \o len
    BY DEF Header
  <1> HIDE DEF version, len
  <1>5. before \in Seq(Bytes)
    BY <1>1, <1>2, ConcatProperties, Zenon
  <1>6. Len(before) = Len(Magic) + Len(version)
    BY <1>1, <1>2, ConcatParts
  <1>7. Len(Magic) \in Nat /\ Len(before) \in Nat /\ Len(version) \in Nat
    BY <1>1, <1>2, <1>5, LenProperties
  <1>8. At(b, 0, before) => At(b, 0, Magic) /\ At(b, 0 + Len(Magic), version)
    BY <1>1, <1>2, AtConcat
  <1> HIDE DEF before
  <1>9. Len(before \o len) = Len(before) + Len(len)
    BY <1>3, <1>5, ConcatParts
  <1>10. At(b, 0, before \o len) => At(b, 0, before) /\ At(b, 0 + Len(before), len)
    BY <1>3, <1>5, AtConcat
  <1>11. 0 + Len(Magic) = Len(Magic) /\ 0 + Len(before) = Len(before)
    BY <1>7
  <1>12. Len(Header(m)) \in Nat /\ Len(Header(m)) # 0
    BY <1>3, <1>4, <1>7, <1>9
  <1> QED BY <1>1, <1>2, <1>4, <1>5, <1>6, <1>7, <1>8, <1>9, <1>10, <1>11, <1>12
          DEF before, version, len

\* Decoding leaves the input alone, and its slice once the header is read.
LEMMA DecodeLeaves ==
  ASSUME IInv, Decode
  PROVE  /\ input' = input /\ phase \in Reading /\ phase' # "idle"
         /\ phase' \in HeaderPhases => phase \in HeaderPhases
         /\ UNCHANGED <<start, limit>> \/ ReadSchemaLen
  <1> USE DEF Reading, VarintPhases, HeaderPhases
  <1>1. CASE NoMagic \/ BadVarint \/ NoByte \/ BadText \/ BadTag \/ EndOfSchema
    <2>1. phase \in Reading
      BY <1>1 DEF NoMagic, BadVarint, NoByte, BadText, BadTag, EndOfSchema, Number
    <2>2. \E outcome \in Failures \union {"accepted"} : End(outcome)
      BY <1>1 DEF NoMagic, BadVarint, NoByte, BadText, BadTag, EndOfSchema, Failures
    <2> QED BY <2>1, <2>2 DEF End, Failures
  <1>2. CASE TakeDigit \/ TakeMagic \/ Descend \/ Return
    BY <1>2 DEF TakeDigit, TakeMagic, Descend, Return
  <1>3. CASE ReadFrameVersion \/ ReadSchemaVersion
    BY <1>3 DEF ReadFrameVersion, ReadSchemaVersion, Number, VersionRead
  <1>4. CASE ReadSchemaLen
    BY <1>4 DEF ReadSchemaLen, Number
  <1>5. CASE ReadLabel \/ ReadTag \/ ReadName \/ ReadCount
    BY <1>5 DEF ReadLabel, ReadTag, ReadName, ReadCount, Number, Enter
  <1> QED BY <1>1, <1>2, <1>3, <1>4, <1>5 DEF Decode

LEMMA WhenceKeeps ==
  ASSUME IInv, Readback, Whence, [ShipmentNext]_shipmentVars
  PROVE  Whence'
  <1>1. ASSUME NEW ns \in Seq(NodeRecords), Whole(ns), Sized(ns), Ship(ns) PROVE Whence'
    <2>1. sent' = ns /\ phase = "idle" /\ start' = start
      BY <1>1 DEF Ship, ShipSchema, ShipFrame, Send, OpenBytes
    <2>2. start' = 0
      BY <2>1 DEF Readback, Unframed
    <2>3. CASE ShipSchema(ns)
      <3>1. phase' = "version"
        BY <2>3 DEF ShipSchema, Send
      <3> QED BY <1>1, <2>1, <2>2, <3>1 DEF Whence, HeaderPhases
    <2>4. CASE ShipFrame(ns)
      <3>1. input' = Framed' \/ input' \in Harmed(Framed')
        BY <2>1, <2>4 DEF ShipFrame, Send, Framed
      <3> QED BY <1>1, <2>1, <3>1 DEF Whence
    <2> QED BY <1>1, <2>3, <2>4 DEF Ship
  <1>2. CASE Receive
    <2>1. Decode /\ UNCHANGED <<sent, damaged>>
      BY <1>2 DEF Receive
    <2>2. /\ input' = input /\ phase # "idle"
          /\ phase' \in HeaderPhases => phase \in HeaderPhases
          /\ UNCHANGED <<start, limit>> \/ ReadSchemaLen
      BY <2>1, DecodeLeaves DEF Reading, VarintPhases
    <2>3. ReadSchemaLen => phase \in HeaderPhases
      BY DEF ReadSchemaLen, Number, HeaderPhases
    <2>4. start' # 0 \/ phase' \in HeaderPhases => start # 0 \/ phase \in HeaderPhases
      BY <2>2, <2>3
    <2>5. Framed' = Framed
      BY <2>1 DEF Framed
    <2> QED BY <2>1, <2>2, <2>4, <2>5 DEF Whence
  <1>3. CASE UNCHANGED shipmentVars
    BY <1>3 DEF shipmentVars, decodeVars, Whence, Framed
  <1> QED BY <1>1, <1>2, <1>3 DEF ShipmentNext

\* The length in the header is the slice's.
LEMMA SchemaLenHeads ==
  ASSUME IInv, Readback, ReadSchemaLen, start' # 0
  PROVE  Headed'
  <1>1. /\ phase = "schemaLen" /\ start' = pos + 1 /\ limit' = (pos + 1) + Digits /\ input' = input
        /\ Number(phase)
    <2>1. phase = "schemaLen" /\ start = 0
      BY DEF ReadSchemaLen, Number, Readback, Unframed
    <2> QED BY <2>1 DEF ReadSchemaLen
  <1>2. HasByte /\ Digits \in Nat
    BY <1>1, DigitsType DEF Number
  <1>3. /\ Consumed \in Seq(Bytes) /\ pos + 1 \in Nat /\ Byte \in Bytes
        /\ SubSeq(input, 1, pos + 1) = Consumed \o <<Byte>>
    BY <1>2, ByteConsumed
  <1>4. Consumed \o <<Byte>> = Ahead \o VarintOf[Digits]
    BY <1>1, NumberConsumed DEF Readback, VarintPhases
  <1>5. SubSeq(input, 1, pos + 1) = Header(Digits)
    BY <1>1, <1>3, <1>4 DEF Ahead, Header
  <1>6. pos + 1 <= Len(input) /\ input \in Seq(Bytes) /\ Len(input) \in Nat
    BY <1>2, LenProperties DEF IInv, DecodeTypeOK, WorkWithinInput, HasByte
  <1> DEFINE p == pos + 1
             h == SubSeq(input, 1, p)
  <1>7. Len(h) = p /\ \A i \in 1 .. p : h[i] = input[i]
    BY <1>3, <1>6
  <1> HIDE DEF h, p
  <1>8. At(input, 0, h)
    <2>1. \A i \in 1 .. p : input[0 + i] = h[i]
      BY <1>7
    <2> QED BY <1>3, <1>6, <1>7, <2>1 DEF At, p
  <1>9. limit' - start' = Digits
    BY <1>1, <1>2, <1>3
  <1>10. h = Header(Digits)
    BY <1>5 DEF h, p
  <1>11. start' = Len(Header(Digits)) /\ At(input', 0, Header(Digits))
    BY <1>1, <1>7, <1>8, <1>10 DEF p
  <1> QED BY <1>2, <1>9, <1>11 DEF Headed

LEMMA HeadedKeeps ==
  ASSUME IInv, Readback, Headed, [ShipmentNext]_shipmentVars
  PROVE  Headed'
  <1>1. CASE ReadSchemaLen
    <2>1. CASE start' # 0
      BY <1>1, <2>1, SchemaLenHeads
    <2>2. CASE start' = 0
      BY <2>2 DEF Headed
    <2> QED BY <2>1, <2>2
  <1>2. CASE UNCHANGED <<input, start, limit>>
    BY <1>2 DEF Headed
  <1>3. ASSUME NEW ns, Ship(ns) PROVE Headed'
    <2>1. phase = "idle" /\ start' = start
      BY <1>3 DEF Ship, ShipSchema, ShipFrame, Send, OpenBytes
    <2>2. start' = 0
      BY <2>1 DEF Readback, Unframed
    <2> QED BY <2>2 DEF Headed
  <1>4. Receive => UNCHANGED <<input, start, limit>> \/ ReadSchemaLen
    BY DecodeLeaves DEF Receive
  <1>5. UNCHANGED shipmentVars => UNCHANGED <<input, start, limit>>
    BY DEF shipmentVars, decodeVars
  <1> QED BY <1>1, <1>2, <1>3, <1>4, <1>5 DEF ShipmentNext

-----------------------------------------------------------------------------

\* A number that stands in the slice is not refused, and is what ends there.
LEMMA NumberStands ==
  ASSUME IInv, Weighed, NEW v \in Numbers, NEW p \in Nat, Reads(v, p), p <= limit
  PROVE  /\ ~ BadVarint /\ ~ NoByte
         /\ TakeDigit => Reads(v, p)'
         /\ Byte < 128 => Digits = v /\ pos + 1 = p
  <1>1. v \in Nat
    BY OneInNumbers
  <1>2. HasByte /\ (Byte < 128 => Shortest) /\ Fits
    BY <1>1, ReadsByte
  <1> QED BY <1>1, <1>2, ReadsByte DEF BadVarint, NoByte

\* The magic of an intact frame is found.
LEMMA MagicStands ==
  ASSUME IInv, Readback, Whence, Undamaged, ~ damaged, phase = "magic", Decode
  PROVE  /\ phase' = "frameVersion" /\ UNCHANGED <<input, start, limit>>
         /\ Reads(1, Len(Magic) + Len(VarintOf[1]))'
  <1> DEFINE schema == ToBytes(sent)
  <1>1. Whole(sent) /\ input = Framed
    BY DEF Whence, Undamaged, HeaderPhases
  <1>2. input \in Seq(Bytes)
    BY DEF IInv, DecodeTypeOK
  <1>3. Len(schema) \in Nat /\ At(input, 0, Header(Len(schema)))
    <2>1. PICK ns : ns = sent
      OBVIOUS
    <2> QED BY <1>1, <2>1, FrameParts DEF Framed
  <1> HIDE DEF schema
  <1>4. /\ Len(Magic) \in Nat /\ Magic \in Seq(Bytes)
        /\ At(input, 0, Magic) /\ At(input, Len(Magic), VarintOf[1])
    BY <1>2, <1>3, HeaderParts
  <1>5. IsPrefix(Magic, input)
    <2>1. Len(Magic) <= Len(input) /\ \A i \in 1 .. Len(Magic) : input[i] = Magic[i]
      BY <1>4 DEF At
    <2> DEFINE first == SubSeq(input, 1, Len(Magic))
    <2>2. first \in Seq(Bytes) /\ Len(first) = Len(Magic) /\ \A i \in 1 .. Len(Magic) : first[i] = input[i]
      BY <1>2, <1>4, <2>1, LenProperties
    <2> HIDE DEF first
    <2>3. first = Magic
      BY <1>4, <2>1, <2>2, SeqEqual
    <2> QED BY <2>1, <2>3 DEF IsPrefix, first
  <1>6. TakeMagic
    BY <1>5 DEF Decode, NoMagic, TakeDigit, BadVarint, NoByte, ReadFrameVersion, ReadSchemaLen,
            ReadSchemaVersion, ReadLabel, BadText, ReadTag, BadTag, ReadName, ReadCount, Descend,
            Return, EndOfSchema, Number, VarintPhases
  <1>7. value' = 0 /\ weight' = 1
    BY <1>6 DEF TakeMagic, IInv, AtStart
  <1>8. pos' = Len(Magic) /\ input' = input
    BY <1>6 DEF TakeMagic
  <1>9. Reads(1, Len(Magic) + Len(VarintOf[1]))'
    BY <1>4, <1>7, <1>8, ReadsAnew
  <1> QED BY <1>6, <1>9 DEF TakeMagic

\* What stands in the header of an intact frame.
LEMMA HeaderStands ==
  ASSUME IInv, Whence, Undamaged, ~ damaged, phase \in HeaderPhases
  PROVE  LET l == Len(ToBytes(sent))
         IN  /\ l \in Numbers /\ limit = Len(input) /\ Len(input) \in Nat
             /\ Len(Magic) \in Nat /\ Len(VarintOf[1]) \in Nat /\ Len(VarintOf[l]) \in Nat
             /\ Len(Header(l)) = Len(Magic) + Len(VarintOf[1]) + Len(VarintOf[l])
             /\ Len(Header(l)) + l <= Len(input)
             /\ At(input, Len(Magic) + Len(VarintOf[1]), VarintOf[l])
             /\ At(input, Len(Header(l)), ToBytes(sent))
  <1> DEFINE schema == ToBytes(sent)
             l == Len(schema)
  <1>1. Whole(sent) /\ input = Framed /\ limit = Len(input) /\ l \in Numbers
    BY DEF Whence, Undamaged, HeaderPhases, Sized
  <1>2. input \in Seq(Bytes) /\ Len(input) \in Nat
    BY LenProperties DEF IInv, DecodeTypeOK
  <1>3. l \in Nat /\ At(input, 0, Header(l)) /\ At(input, Len(Header(l)), schema)
    <2>1. PICK ns : ns = sent
      OBVIOUS
    <2> QED BY <1>1, <2>1, FrameParts DEF Framed
  <1> DEFINE before == Magic \o VarintOf[FormatVersion]
  <1>4. Len(VarintOf[1]) \in Nat /\ Len(VarintOf[l]) \in Nat
    BY <1>3, VarintLen
  <1>5. /\ Len(Magic) \in Nat /\ Len(Header(l)) \in Nat
        /\ Len(before) = Len(Magic) + Len(VarintOf[1])
        /\ Len(Header(l)) = Len(before) + Len(VarintOf[l])
        /\ At(input, Len(before), VarintOf[l])
    BY <1>2, <1>3, HeaderParts
  <1>6. Len(Header(l)) + l <= Len(input)
    BY <1>3 DEF At
  <1> HIDE DEF before
  <1> QED BY <1>1, <1>2, <1>3, <1>4, <1>5, <1>6

\* Which actions read a number in the header.
LEMMA HeaderNumber ==
  ASSUME IInv, phase \in {"frameVersion", "schemaLen"}, Decode
  PROVE  \/ TakeDigit
         \/ BadVarint
         \/ NoByte
         \/ phase = "frameVersion" /\ ReadFrameVersion
         \/ phase = "schemaLen" /\ ReadSchemaLen
  BY DEF Decode, TakeMagic, NoMagic, ReadFrameVersion, ReadSchemaLen,
         ReadSchemaVersion, ReadLabel, BadText, ReadTag, BadTag, ReadName, ReadCount, Descend,
         Return, EndOfSchema, Number

LEMMA FrameVersionStands ==
  ASSUME IInv, Weighed, Whence, Undamaged, ~ damaged, phase = "frameVersion", Decode,
         sent' = sent
  PROVE  /\ UNCHANGED <<input, start, limit>>
         /\ \/ phase' = "frameVersion" /\ Reads(1, Len(Magic) + Len(VarintOf[1]))'
            \/ phase' = "schemaLen" /\ Reads(Len(ToBytes(sent)), Len(Header(Len(ToBytes(sent)))))'
  <1> DEFINE p == Len(Magic) + Len(VarintOf[1])
             l == Len(ToBytes(sent))
  <1>1. Reads(1, p)
    BY DEF Undamaged
  <1>2. /\ l \in Numbers /\ l \in Nat /\ p \in Nat /\ p <= limit
        /\ At(input, p, VarintOf[l]) /\ Len(Header(l)) = p + Len(VarintOf[l])
    <2>1. /\ l \in Numbers /\ limit = Len(input) /\ Len(input) \in Nat
          /\ Len(Magic) \in Nat /\ Len(VarintOf[1]) \in Nat /\ Len(VarintOf[l]) \in Nat
          /\ Len(Header(l)) = p + Len(VarintOf[l])
          /\ Len(Header(l)) + l <= Len(input)
          /\ At(input, p, VarintOf[l])
      BY HeaderStands DEF HeaderPhases
    <2>2. l \in Nat
      BY <2>1, OneInNumbers
    <2> DEFINE a == Len(Magic)
               b == Len(VarintOf[1])
               c == Len(VarintOf[l])
               h == Len(Header(l))
    <2>3. /\ a \in Nat /\ b \in Nat /\ c \in Nat /\ l \in Nat /\ Len(input) \in Nat
          /\ h = (a + b) + c /\ h + l <= Len(input) /\ limit = Len(input) /\ p = a + b
      BY <2>1, <2>2
    <2> HIDE DEF l, p, a, b, c, h
    <2>4. p \in Nat /\ p <= limit
      BY <2>3
    <2> QED BY <2>1, <2>2, <2>4
  <1> HIDE DEF l
  <1>3. 1 \in Numbers
    BY OneInNumbers
  <1> HIDE DEF p
  <1>4. /\ ~ BadVarint /\ ~ NoByte
        /\ TakeDigit => Reads(1, p)'
        /\ Byte < 128 => Digits = 1 /\ pos + 1 = p
    <2>1. PICK q \in Nat : q = p
      BY <1>2
    <2>2. Reads(1, q) /\ q <= limit
      BY <1>1, <1>2, <2>1
    <2>3. /\ ~ BadVarint /\ ~ NoByte
          /\ TakeDigit => Reads(1, q)'
          /\ Byte < 128 => Digits = 1 /\ pos + 1 = q
      BY <1>3, <2>2, NumberStands
    <2>4. p' = p
      BY DEF p
    <2> QED BY <2>1, <2>3, <2>4 DEF Reads
  <1>5. CASE TakeDigit
    BY <1>4, <1>5 DEF TakeDigit, p
  <1>6. CASE ReadFrameVersion
    <2>1. Byte < 128 /\ value' = 0 /\ weight' = 1 /\ pos' = pos + 1 /\ UNCHANGED <<input, start, limit>>
      BY <1>6 DEF ReadFrameVersion, Number, NumberDone
    <2>2. Digits = 1 /\ pos' = p
      BY <1>4, <2>1
    <2>3. phase' = "schemaLen"
      BY <1>6, <2>2 DEF ReadFrameVersion, VersionRead, FormatVersion
    <2>4. Reads(Len(ToBytes(sent)), Len(Header(Len(ToBytes(sent)))))'
      <3>1. PICK v \in Nat : v = l
        BY <1>2
      <3>2. PICK q \in Nat : q = p
        BY <1>2
      <3>3. Reads(v, q + Len(VarintOf[v]))'
        BY <1>2, <2>1, <2>2, <3>1, <3>2, ReadsAnew
      <3>4. v = l' /\ q + Len(VarintOf[v]) = Len(Header(l))'
        BY <1>2, <3>1, <3>2 DEF l
      <3> QED BY <3>3, <3>4 DEF Reads, l
    <2> QED BY <2>1, <2>3, <2>4
  <1> QED BY <1>4, <1>5, <1>6, HeaderNumber

LEMMA SchemaLenStands ==
  ASSUME IInv, Weighed, Whence, Undamaged, ~ damaged, phase = "schemaLen", Decode, sent' = sent
  PROVE  \/ /\ phase' = "schemaLen" /\ UNCHANGED <<input, start, limit>>
            /\ Reads(Len(ToBytes(sent)), Len(Header(Len(ToBytes(sent)))))'
         \/ phase' = "version" /\ Slice(sent)'
  <1> DEFINE l == Len(ToBytes(sent))
             p == Len(Header(l))
  <1>1. Reads(l, p)
    BY DEF Undamaged
  <1>2. /\ l \in Numbers /\ l \in Nat /\ p \in Nat /\ limit \in Nat /\ p + l <= limit
        /\ At(input, p, ToBytes(sent))
    <2>1. /\ l \in Numbers /\ limit = Len(input) /\ Len(input) \in Nat
          /\ Len(Magic) \in Nat /\ Len(VarintOf[1]) \in Nat /\ Len(VarintOf[l]) \in Nat
          /\ p = Len(Magic) + Len(VarintOf[1]) + Len(VarintOf[l])
          /\ p + l <= Len(input)
          /\ At(input, p, ToBytes(sent))
      BY HeaderStands DEF HeaderPhases
    <2>2. l \in Nat
      BY <2>1, OneInNumbers
    <2> DEFINE a == Len(Magic)
               b == Len(VarintOf[1])
               c == Len(VarintOf[l])
    <2>3. /\ a \in Nat /\ b \in Nat /\ c \in Nat /\ Len(input) \in Nat
          /\ p = (a + b) + c /\ p + l <= Len(input) /\ limit = Len(input)
      BY <2>1, <2>2
    <2> HIDE DEF l, p, a, b, c
    <2>4. p \in Nat /\ limit \in Nat /\ p + l <= limit
      BY <2>3
    <2>5. l \in Numbers /\ At(input, p, ToBytes(sent))
      BY <2>1
    <2> QED BY <2>2, <2>4, <2>5
  <1>3. l' = l /\ p' = p
    OBVIOUS
  <1> HIDE DEF l, p
  <1>4. /\ ~ BadVarint /\ ~ NoByte
        /\ TakeDigit => Reads(l, p)'
        /\ Byte < 128 => Digits = l /\ pos + 1 = p
    <2>1. PICK q \in Nat : q = p
      BY <1>2
    <2>2. PICK v \in Numbers : v = l
      BY <1>2
    <2>3. Reads(v, q) /\ q <= limit
      BY <1>1, <1>2, <2>1, <2>2
    <2>4. /\ ~ BadVarint /\ ~ NoByte
          /\ TakeDigit => Reads(v, q)'
          /\ Byte < 128 => Digits = v /\ pos + 1 = q
      BY <2>3, NumberStands
    <2> QED BY <1>3, <2>1, <2>2, <2>4 DEF Reads
  <1>5. CASE TakeDigit
    BY <1>4, <1>5 DEF TakeDigit, l, p
  <1>6. CASE ReadSchemaLen
    <2>1. Byte < 128
      BY <1>6 DEF ReadSchemaLen, Number
    <2>2. Digits = l /\ pos + 1 = p
      BY <1>4, <2>1
    <2>3. ~ (Digits > limit - (pos + 1))
      BY <1>2, <2>2
    <2>4. phase' = "version" /\ start' = p /\ limit' = p + l /\ input' = input
      BY <1>6, <2>2, <2>3 DEF ReadSchemaLen
    <2>5. Slice(sent)'
      BY <1>2, <2>4 DEF Slice, Holds, l
    <2> QED BY <2>4, <2>5
  <1> QED BY <1>4, <1>5, <1>6, HeaderNumber

\* A schema shipped intact stands where it is read from.
LEMMA ShippedStands ==
  ASSUME IInv, Readback, NEW ns, Whole(ns), Ship(ns), ~ damaged'
  PROVE  Undamaged'
  <1>1. /\ start' = 0 /\ sent' = ns /\ limit' = Len(input')
    BY DEF Ship, ShipSchema, ShipFrame, Send, OpenBytes, Readback, Unframed
  <1>2. CASE ShipSchema(ns)
    <2>1. input' = ToBytes(ns) /\ phase' = "version"
      BY <1>2 DEF ShipSchema, Send
    <2> DEFINE schema == ToBytes(ns)
    <2>2. schema \in Seq(Bytes) /\ Len(schema) \in Nat
      BY FrameParts
    <2>3. Slice(ns)'
      <3>1. input' = schema /\ start' = 0 /\ limit' = Len(schema)
        BY <1>1, <2>1
      <3>2. ToBytes(ns)' = schema
        OBVIOUS
      <3> HIDE DEF schema
      <3>3. At(input', start', schema) /\ limit' = start' + Len(schema)
        BY <2>2, <3>1 DEF At
      <3> QED BY <3>2, <3>3 DEF Slice, Holds, schema
    <2>4. Slice(sent)'
      BY <1>1, <2>3 DEF Slice, Holds
    <2> QED BY <2>1, <2>4 DEF Undamaged, Failures, SchemaPhases, NodePhases, HeaderPhases
  <1>3. CASE ShipFrame(ns)
    <2>1. input' = Framed' /\ phase' = "magic"
      BY <1>1, <1>3 DEF ShipFrame, Send, Framed
    <2> QED BY <1>1, <2>1 DEF Undamaged, Failures, SchemaPhases, NodePhases, HeaderPhases
  <1> QED BY <1>2, <1>3 DEF Ship

\* Decoding an intact schema, each byte is as it was written.
LEMMA DecodeStands ==
  ASSUME IInv, Readback, Followed, Weighed, Whence, Undamaged, ~ damaged,
         Decode, sent' = sent, damaged' = damaged
  PROVE  Undamaged'
  <1>1. input' = input /\ phase \in Reading /\ (UNCHANGED <<start, limit>> \/ ReadSchemaLen)
    BY DecodeLeaves
  <1>2. phase # "idle" /\ Framed' = Framed
    BY <1>1 DEF Reading, VarintPhases, Framed
  <1>3. CASE phase = "magic"
    <2>1. /\ phase' = "frameVersion" /\ UNCHANGED <<input, start, limit>>
          /\ Reads(1, Len(Magic) + Len(VarintOf[1]))'
      BY <1>3, MagicStands
    <2> QED BY <1>2, <1>3, <2>1 DEF Undamaged, Failures, SchemaPhases, NodePhases, HeaderPhases
  <1>4. CASE phase = "frameVersion"
    <2>1. /\ UNCHANGED <<input, start, limit>>
          /\ \/ phase' = "frameVersion" /\ Reads(1, Len(Magic) + Len(VarintOf[1]))'
             \/ phase' = "schemaLen" /\ Reads(Len(ToBytes(sent)), Len(Header(Len(ToBytes(sent)))))'
      BY <1>4, FrameVersionStands
    <2> QED BY <1>2, <1>4, <2>1 DEF Undamaged, Failures, SchemaPhases, NodePhases, HeaderPhases
  <1>5. CASE phase = "schemaLen"
    <2>1. \/ /\ phase' = "schemaLen" /\ UNCHANGED <<input, start, limit>>
             /\ Reads(Len(ToBytes(sent)), Len(Header(Len(ToBytes(sent)))))'
          \/ phase' = "version" /\ Slice(sent)'
      BY <1>5, SchemaLenStands
    <2> QED BY <1>2, <1>5, <2>1 DEF Undamaged, Failures, SchemaPhases, NodePhases, HeaderPhases
  <1>6. CASE phase \in SchemaPhases
    <2>1. Slice(sent) /\ Whole(sent)
      BY <1>2, <1>6 DEF Undamaged, Whence
    <2>2. Following(sent)
      BY <1>6, <2>1 DEF Followed, Follows, Slice
    <2>3. phase' \in SchemaPhases \/ (phase' = "depth" /\ Deep(sent))
      <3>1. PICK ns : ns = sent
        OBVIOUS
      <3> QED BY <1>6, <2>1, <2>2, <3>1, OnlyDeep
    <2>4. UNCHANGED <<start, limit>>
      BY <1>1, <1>6 DEF ReadSchemaLen, Number, SchemaPhases, NodePhases
    <2>5. Slice(sent)' /\ (Deep(sent) => Deep(sent)')
      BY <1>1, <2>1, <2>4 DEF Slice, Holds
    <2> QED BY <2>3, <2>5 DEF Undamaged, Failures, SchemaPhases, NodePhases, HeaderPhases
  <1> QED BY <1>1, <1>3, <1>4, <1>5, <1>6 DEF Reading, VarintPhases, SchemaPhases, NodePhases

LEMMA UndamagedKeeps ==
  ASSUME IInv, Readback, Followed, Weighed, Whence, Undamaged, [ShipmentNext]_shipmentVars
  PROVE  Undamaged'
  <1>1. ASSUME NEW ns, Whole(ns), Ship(ns) PROVE Undamaged'
    BY <1>1, ShippedStands DEF Undamaged
  <1>2. CASE Receive
    BY <1>2, DecodeStands DEF Receive, Undamaged
  <1>3. CASE UNCHANGED shipmentVars
    <2>1. UNCHANGED <<input, pos, start, limit, phase, value, weight, sent, damaged>>
      BY <1>3 DEF shipmentVars, decodeVars
    <2> QED BY <2>1 DEF Undamaged, Slice, Holds, Reads, Framed
  <1> QED BY <1>1, <1>2, <1>3 DEF ShipmentNext

-----------------------------------------------------------------------------

\* What is proved of the decoder holds of what is shipped too, and the rest.
LEMMA Delivered == ShipmentSpec => [](IInv /\ Readback /\ Followed /\ Weighed /\ SInv)
  <1>1. ShipmentSpec => [](IInv /\ Readback /\ Followed /\ Weighed)
    BY ShipmentDecodes, Invariant, ReadsBack, AlwaysFollows, AlwaysWeighed, PTL
  <1>2. ShipmentInit => SInv
    BY DEF ShipmentInit, DecodeInit, SInv, Whence, Headed, Undamaged
  <1>3. IInv /\ Readback /\ Followed /\ Weighed /\ SInv /\ [ShipmentNext]_shipmentVars => SInv'
    BY WhenceKeeps, HeadedKeeps, UndamagedKeeps DEF SInv
  <1> QED BY <1>1, <1>2, <1>3, PTL DEF ShipmentSpec

\* A schema shipped intact, whatever it is and however it is framed, is read
\* back node for node, unless decode counts it too deep (Schema::to_bytes and
\* from_bytes, SelfDescribingSerializer::to_vec and split).
THEOREM IntactIsRead == ShipmentSpec => []ShippedIsRead
  <1>1. IInv /\ Followed /\ SInv => ShippedIsRead
    <2> SUFFICES ASSUME IInv, Followed, Whence, Undamaged, ~ damaged
                 PROVE  /\ phase = "accepted" => nodes = sent /\ ~ Deep(sent)
                        /\ phase \in Failures => phase = "depth" /\ Deep(sent)
      BY DEF SInv, ShippedIsRead
    <2>1. ASSUME phase = "accepted" PROVE nodes = sent /\ ~ Deep(sent)
      <3>1. Holds(sent) /\ Whole(sent)
        BY <2>1 DEF Undamaged, Whence, SchemaPhases, Slice
      <3>2. Follows(sent)
        BY <3>1 DEF Followed
      <3>3. PICK ns : ns = sent
        OBVIOUS
      <3> QED BY <2>1, <3>1, <3>2, <3>3, AcceptedIs
    <2>2. ASSUME phase \in Failures PROVE phase = "depth" /\ Deep(sent)
      BY <2>2 DEF Undamaged, Failures
    <2> QED BY <2>1, <2>2
  <1> QED BY <1>1, Delivered, PTL

-----------------------------------------------------------------------------

\* Two headers of one length at the front of the same bytes are one header.
LEMMA OneHeader ==
  ASSUME NEW b \in Seq(Bytes), NEW m \in Nat, NEW l \in Nat,
         At(b, 0, Header(m)), At(b, 0, Header(l))
  PROVE  m = l
  <1> DEFINE before == Magic \o VarintOf[FormatVersion]
             p == Len(before)
  <1>1. p \in Nat /\ At(b, p, VarintOf[m])
    BY HeaderParts
  <1>2. At(b, p, VarintOf[l])
    BY HeaderParts
  <1> HIDE DEF p
  <1> QED BY <1>1, <1>2, OneNumber

\* c is b without its i-th byte, b but for it, the beginning of b.
Without(b, c, i) ==
  /\ i \in 1 .. Len(b)
  /\ Len(b) = Len(c) + 1
  /\ \A j \in 1 .. i - 1 : c[j] = b[j]
  /\ \A j \in i .. Len(c) : c[j] = b[j + 1]

Beside(b, c, i) ==
  /\ i \in 1 .. Len(b)
  /\ Len(b) = Len(c)
  /\ \A j \in 1 .. Len(b) : j # i => c[j] = b[j]

Begins(c, b) == Len(c) < Len(b) /\ \A j \in 1 .. Len(c) : c[j] = b[j]

\* A byte taken out.
LEMMA RemovedIs ==
  ASSUME NEW b \in Seq(Bytes), NEW i \in 1 .. Len(b)
  PROVE  RemoveAt(b, i) \in Seq(Bytes) /\ Without(b, RemoveAt(b, i), i)
  <1> DEFINE s == SubSeq(b, 1, i - 1)
             t == SubSeq(b, i + 1, Len(b))
             c == s \o t
             size == Len(b)
  <1>1. size \in Nat /\ i \in 1 .. size
    BY LenProperties
  <1>2. /\ s \in Seq(Bytes) /\ Len(s) = i - 1 /\ \A j \in 1 .. i - 1 : s[j] = b[j]
        /\ t \in Seq(Bytes) /\ Len(t) = size - i /\ \A j \in 1 .. size - i : t[j] = b[i + j]
    BY <1>1
  <1> HIDE DEF s, t, size
  <1>3. c \in Seq(Bytes)
    BY <1>2, ConcatProperties, Zenon
  <1>4. /\ Len(c) = Len(s) + Len(t)
        /\ \A j \in 1 .. Len(s) : c[j] = s[j]
        /\ \A j \in 1 .. Len(t) : c[Len(s) + j] = t[j]
    <2>1. s \in Seq(Bytes) /\ t \in Seq(Bytes)
      BY <1>2
    <2> QED BY <2>1, ConcatParts
  <1> HIDE DEF c
  <1>5. size = Len(c) + 1 /\ \A j \in 1 .. i - 1 : c[j] = b[j]
    BY <1>1, <1>2, <1>4
  <1>6. ASSUME NEW j \in i .. Len(c) PROVE c[j] = b[j + 1]
    <2> DEFINE k == j - (i - 1)
    <2>1. k \in 1 .. size - i /\ (i - 1) + k = j /\ i + k = j + 1
      BY <1>1, <1>5
    <2> HIDE DEF k
    <2>2. c[(i - 1) + k] = t[k] /\ t[k] = b[i + k]
      BY <1>2, <1>4, <2>1
    <2> QED BY <2>1, <2>2
  <1>7. RemoveAt(b, i) = c
    BY DEF RemoveAt, c, s, t
  <1> QED BY <1>3, <1>5, <1>6, <1>7 DEF Without, size

\* A byte put in.
LEMMA InsertedIs ==
  ASSUME NEW b \in Seq(Bytes), NEW i \in 1 .. Len(b) + 1, NEW x \in Bytes
  PROVE  /\ InsertAt(b, i, x) \in Seq(Bytes)
         /\ Without(InsertAt(b, i, x), b, i)
         /\ InsertAt(b, i, x)[i] = x
  <1> DEFINE s == SubSeq(b, 1, i - 1)
             t == SubSeq(b, i, Len(b))
             d == s \o <<x>>
             c == d \o t
             size == Len(b)
  <1>1. size \in Nat /\ i \in 1 .. size + 1
    BY LenProperties
  <1>2. /\ s \in Seq(Bytes) /\ Len(s) = i - 1 /\ \A j \in 1 .. i - 1 : s[j] = b[j]
        /\ t \in Seq(Bytes) /\ Len(t) = size - (i - 1)
        /\ \A j \in 1 .. size - (i - 1) : t[j] = b[(i - 1) + j]
    BY <1>1
  <1> HIDE DEF s, t, size
  <1>3. <<x>> \in Seq(Bytes) /\ Len(<<x>>) = 1 /\ <<x>>[1] = x
    OBVIOUS
  <1>4. d \in Seq(Bytes)
    BY <1>2, <1>3, ConcatProperties, Zenon
  <1>5. /\ Len(d) = Len(s) + 1
        /\ \A j \in 1 .. Len(s) : d[j] = s[j]
        /\ d[Len(s) + 1] = x
    <2>1. /\ Len(d) = Len(s) + Len(<<x>>)
          /\ \A j \in 1 .. Len(s) : d[j] = s[j]
          /\ \A j \in 1 .. Len(<<x>>) : d[Len(s) + j] = <<x>>[j]
      BY <1>2, <1>3, ConcatParts
    <2> QED BY <1>3, <2>1
  <1> HIDE DEF d
  <1>6. c \in Seq(Bytes)
    BY <1>2, <1>4, ConcatProperties, Zenon
  <1>7. /\ Len(c) = Len(d) + Len(t)
        /\ \A j \in 1 .. Len(d) : c[j] = d[j]
        /\ \A j \in 1 .. Len(t) : c[Len(d) + j] = t[j]
    <2>1. t \in Seq(Bytes)
      BY <1>2
    <2> QED BY <1>4, <2>1, ConcatParts
  <1> HIDE DEF c
  <1>8. Len(d) = i /\ Len(c) = size + 1 /\ c[i] = x /\ \A j \in 1 .. i - 1 : b[j] = c[j]
    BY <1>1, <1>2, <1>5, <1>7
  <1>9. ASSUME NEW j \in i .. size PROVE b[j] = c[j + 1]
    <2> DEFINE k == j - (i - 1)
    <2>1. k \in 1 .. size - (i - 1) /\ (i - 1) + k = j /\ i + k = j + 1
      BY <1>1
    <2> HIDE DEF k
    <2>2. c[i + k] = t[k] /\ t[k] = b[(i - 1) + k]
      BY <1>2, <1>7, <1>8, <2>1
    <2> QED BY <2>1, <2>2
  <1>10. InsertAt(b, i, x) = c
    BY DEF InsertAt, c, d, s, t
  <1>11. i \in 1 .. Len(c)
    BY <1>1, <1>8
  <1> QED BY <1>6, <1>8, <1>9, <1>10, <1>11 DEF Without, size

\* What damage leaves.
LEMMA HarmIs ==
  ASSUME NEW b \in Seq(Bytes), NEW c \in Harmed(b)
  PROVE  /\ c \in Seq(Bytes)
         /\ \/ \E i : Beside(b, c, i)
            \/ Begins(c, b)
            \/ \E i : Without(b, c, i)
            \/ \E i : Without(c, b, i)
  <1>1. DOMAIN b = 1 .. Len(b) /\ Len(b) \in Nat /\ DamageBytes \subseteq Bytes /\ StrayBytes \subseteq Bytes
    BY LenProperties, ShipmentAssumption
  <1>2. ASSUME NEW i \in 1 .. Len(b), NEW x \in DamageBytes, c = [b EXCEPT ![i] = x]
        PROVE  c \in Seq(Bytes) /\ Beside(b, c, i)
    <2>1. c \in Seq(Bytes) /\ Len(c) = Len(b) /\ \A j \in 1 .. Len(b) : j # i => c[j] = b[j]
      BY <1>1, <1>2, ExceptSeq
    <2> QED BY <2>1 DEF Beside
  <1>3. ASSUME NEW i \in 1 .. Len(b), c = SubSeq(b, 1, i - 1)
        PROVE  c \in Seq(Bytes) /\ Begins(c, b)
    <2>1. c \in Seq(Bytes) /\ Len(c) = i - 1 /\ \A j \in 1 .. i - 1 : c[j] = b[j]
      BY <1>1, <1>3
    <2>2. i - 1 < Len(b)
      BY <1>1
    <2> QED BY <2>1, <2>2 DEF Begins
  <1>4. ASSUME NEW i \in 1 .. Len(b), c = RemoveAt(b, i)
        PROVE  c \in Seq(Bytes) /\ Without(b, c, i)
    BY <1>4, RemovedIs
  <1>5. ASSUME NEW i \in 1 .. Len(b) + 1, NEW x \in StrayBytes, c = InsertAt(b, i, x)
        PROVE  c \in Seq(Bytes) /\ Without(c, b, i)
    <2>1. x \in Bytes
      BY <1>1
    <2> QED BY <1>5, <2>1, InsertedIs
  <1>6. CASE c \in Changed(b)
    BY <1>1, <1>2, <1>6 DEF Changed
  <1>7. CASE c \in Cut(b)
    BY <1>1, <1>3, <1>7 DEF Cut
  <1>8. CASE c \in Less(b)
    BY <1>1, <1>4, <1>8 DEF Less
  <1>9. CASE c \in More(b)
    BY <1>5, <1>9 DEF More
  <1> QED BY <1>6, <1>7, <1>8, <1>9 DEF Harmed

\* What stands in bytes stands in others that are the same there.
LEMMA StandsToo ==
  ASSUME NEW b, NEW c, NEW s \in Seq(Bytes), NEW p \in Nat, At(b, p, s),
         p + Len(s) <= Len(c),
         \A j \in p + 1 .. p + Len(s) : c[j] = b[j]
  PROVE  At(c, p, s)
  <1> DEFINE n == Len(s)
  <1>1. n \in Nat
    BY LenProperties
  <1>2. \A j \in 1 .. n : b[p + j] = s[j]
    BY DEF At
  <1>3. ASSUME NEW j \in 1 .. n PROVE c[p + j] = s[j]
    <2>1. p + j \in p + 1 .. p + n
      BY <1>1
    <2> QED BY <1>2, <2>1
  <1> QED BY <1>3 DEF At

\* A schema begins with its version, and one whose root has the tag of a bool is
\* the root alone.
LEMMA RootIs ==
  ASSUME NEW ns, Whole(ns), NEW s, s = ToBytes(ns)
  PROVE  /\ s \in Seq(Bytes) /\ Len(s) \in Nat /\ Len(s) >= 2
         /\ s[1] = 1
         /\ s[2] = 1 => Len(s) = 2
  <1>1. ns \in Seq(NodeRecords) /\ Len(ns) \in Nat /\ Growing(ns)
    BY LenProperties DEF Whole
  <1>2. s \in Seq(Bytes) /\ Len(s) \in Nat
    <2>1. s \in Seq(Bytes)
      BY <1>1, NoNodeType, ToBytesAppend
    <2> QED BY <2>1, LenProperties
  <1>3. /\ Due(ns)[0] = <<Slot(0, 0)>>
        /\ \A k \in 1 .. Len(ns) : Due(ns)[k] = DueAfter(Due(ns)[k - 1], ns[k])
        /\ Due(ns)[Len(ns)] = << >>
    BY <1>1, DueIs DEF Whole
  <1>4. Len(ns) # 0
    <2>1. <<Slot(0, 0)>> # << >>
      OBVIOUS
    <2> QED BY <1>3, <2>1
  <1> DEFINE size == Len(ns)
             n == ns[1]
  <1>5. 1 \in 1 .. size /\ 1 - 1 = 0 /\ 1 \in 0 .. size /\ 0 \in 0 .. size /\ (size # 1 => 2 \in 1 .. size)
    <2>1. size \in Nat /\ size # 0
      BY <1>1, <1>4
    <2> HIDE DEF size
    <2> QED BY <2>1
  <1>6. n \in NodeRecords /\ SubSeq(ns, 1, 0) = << >>
    BY <1>1, <1>5, FirstOnes
  <1>7. Placed(n, 0)
    <2>1. Placed(ns[1], Last(Due(ns)[1 - 1]).parent)
      BY <1>1, <1>5 DEF Growing
    <2>2. Last(<<Slot(0, 0)>>).parent = 0
      BY DEF Last, Slot
    <2> QED BY <1>3, <1>5, <2>1, <2>2
  <1>8. n.label = << >> /\ n.tag % 32 = n.tag /\ n.tag \in Nat
    <2>1. 0 \notin Labelled /\ 0 \notin Enums
      BY DEF Labelled, Enums, Shape
    <2>2. n.label = << >> /\ n.tag \in NodeTags
      BY <1>7, <2>1 DEF Placed
    <2>3. PICK tag \in 0 .. 26 : tag = n.tag
      BY <2>2 DEF NodeTags
    <2>4. tag % 32 = tag /\ tag \in Nat
      OBVIOUS
    <2> QED BY <2>2, <2>3, <2>4
  <1>9. ToBytes(<< >>) = <<1>>
    <2>1. SchemaVersion \in 0 .. 127 /\ SchemaVersion = 1
      BY DEF SchemaVersion
    <2>2. VarintOf[SchemaVersion] = <<SchemaVersion>>
      BY <2>1, VarintDigit
    <2> QED BY <2>1, <2>2, ToBytesNothing
  <1>10. At(s, 0, <<1>>) /\ At(s, 1, BytesOf(n))
    <2>1. At(s, 0, ToBytes(ns))
      BY <1>2 DEF At
    <2>2. /\ \A k \in 0 .. size : At(s, 0, ToBytes(SubSeq(ns, 1, k)))
          /\ \A k \in 1 .. size : At(s, 0 + Len(ToBytes(SubSeq(ns, 1, k - 1))), BytesOf(ns[k]))
      BY <1>1, <1>2, <2>1, SchemaAt
    <2>3. At(s, 0, ToBytes(SubSeq(ns, 1, 0)))
      BY <1>5, <2>2
    <2>4. At(s, 0 + Len(ToBytes(SubSeq(ns, 1, 1 - 1))), BytesOf(ns[1]))
      BY <1>5, <2>2
    <2>5. 0 + Len(<<1>>) = 1
      OBVIOUS
    <2> QED BY <1>5, <1>6, <1>9, <2>3, <2>4, <2>5
  <1>11. s[1] = 1
    <2>1. 1 \in 1 .. Len(<<1>>) /\ <<1>>[1] = 1 /\ 0 + 1 = 1
      OBVIOUS
    <2>2. s[0 + 1] = <<1>>[1]
      BY <1>10, <2>1 DEF At
    <2> QED BY <2>1, <2>2
  <1>12. 2 <= Len(s) /\ s[2] = n.tag
    <2>1. Len(LabelBytes(n)) = 0
      BY <1>8 DEF LabelBytes
    <2>2. /\ 1 + Len(LabelBytes(n)) < Len(s)
          /\ s[1 + Len(LabelBytes(n)) + 1] = n.tag % 32
      BY <1>2, <1>6, <1>10, NodeAt
    <2>3. 1 + 0 + 1 = 2 /\ 1 + 0 = 1
      OBVIOUS
    <2> QED BY <1>2, <1>8, <2>1, <2>2, <2>3
  <1>13. ASSUME s[2] = 1 PROVE Len(s) = 2
    <2>1. n.tag = 1 /\ n.name = << >> /\ n.count = << >>
      <3>1. 1 \notin Named /\ 1 \notin Counted
        BY DEF Named, Counted, Shape
      <3> QED BY <1>7, <1>12, <1>13, <3>1 DEF Placed
    <2>2. Children(n) = 0
      BY <2>1 DEF Children, Arity, Counted, Shape
    <2>3. Due(ns)[1] = << >>
      <3>1. Due(ns)[1] = DueAfter(<<Slot(0, 0)>>, n)
        BY <1>3, <1>5
      <3>2. Front(<<Slot(0, 0)>>) = << >>
        BY DEF Front
      <3>3. [i \in 1 .. Children(n) |-> Slot(n.tag, Last(<<Slot(0, 0)>>).level + 1)] = << >>
        BY <2>2
      <3> QED BY <3>1, <3>2, <3>3 DEF DueAfter
    <2>4. size = 1
      <3> SUFFICES ASSUME size # 1 PROVE FALSE
        OBVIOUS
      <3>1. 2 \in 1 .. size /\ 2 - 1 = 1
        BY <1>5
      <3>2. Due(ns)[2 - 1] # << >>
        BY <1>1, <3>1 DEF Growing
      <3> QED BY <2>3, <3>1, <3>2
    <2>5. ns = Append(<< >>, n)
      <3>1. SubSeq(ns, 1, 1) = Append(SubSeq(ns, 1, 1 - 1), ns[1]) /\ SubSeq(ns, 1, size) = ns
        BY <1>1, <1>5, FirstOnes
      <3> QED BY <1>5, <1>6, <2>4, <3>1
    <2>6. LabelBytes(n) = << >> /\ NameBytes(n) = << >> /\ CountBytes(n) = << >>
      BY <1>8, <2>1 DEF LabelBytes, NameBytes, CountBytes
    <2>7. Len(BytesOf(n)) = 1
      <3>1. Len(BytesOf(n)) = Len(LabelBytes(n)) + 1 + Len(NameBytes(n)) + Len(CountBytes(n))
        BY <1>6, NodeParts
      <3> QED BY <2>6, <3>1
    <2>8. s = <<1>> \o BytesOf(n)
      <3>1. << >> \in Seq(NodeRecords)
        OBVIOUS
      <3>2. ToBytes(Append(<< >>, n)) = ToBytes(<< >>) \o BytesOf(n)
        BY <1>6, <3>1, ToBytesAppend
      <3> QED BY <1>9, <2>5, <3>2
    <2>9. <<1>> \in Seq(Bytes) /\ BytesOf(n) \in Seq(Bytes) /\ Len(<<1>>) = 1
      <3>1. BytesOf(n) \in Seq(Bytes)
        BY <1>6, NodeBytes
      <3> QED BY <3>1 DEF Bytes
    <2>10. Len(<<1>> \o BytesOf(n)) = Len(<<1>>) + Len(BytesOf(n))
      BY <2>9, ConcatParts
    <2> QED BY <2>7, <2>8, <2>9, <2>10
  <1> QED BY <1>2, <1>11, <1>12, <1>13

\* A frame of that schema.
Opens(b, ns) ==
  LET schema == ToBytes(ns)
      header == Header(Len(schema))
  IN  At(b, 0, header) /\ At(b, Len(header), schema)

\* How it begins: a schema of l bytes behind a header of h.
Heads(b, l, h) ==
  /\ l \in Nat /\ l >= 2 /\ h \in Nat \ {0} /\ Len(b) \in Nat /\ h + l <= Len(b)
  /\ b[h + 1] = 1
  /\ b[h + 2] = 1 => l = 2
  /\ Len(VarintOf[l]) \in Nat \ {0}
  /\ h = Len(Header(0)) - 1 + Len(VarintOf[l])
  /\ l < 128 => Len(VarintOf[l]) = 1 /\ b[h] = l
  /\ l >= 128 => Len(VarintOf[l]) # 1

LEMMA OpensAt ==
  ASSUME NEW b \in Seq(Bytes), NEW ns, Whole(ns), Opens(b, ns),
         NEW l, l = Len(ToBytes(ns)), NEW h, h = Len(Header(l))
  PROVE  Heads(b, l, h)
  <1> DEFINE s == ToBytes(ns)
  <1>1. /\ s \in Seq(Bytes) /\ l \in Nat /\ l >= 2 /\ s[1] = 1 /\ (s[2] = 1 => l = 2)
    BY RootIs
  <1>2. At(b, 0, Header(l)) /\ At(b, h, s) /\ Len(s) = l
    BY DEF Opens
  <1> HIDE DEF s
  <1> DEFINE before == Magic \o VarintOf[FormatVersion]
             p == Len(before)
             z == Len(VarintOf[l])
  <1>3. /\ p \in Nat /\ h = p + z /\ At(b, p, VarintOf[l])
        /\ Len(Header(0)) = p + Len(VarintOf[0])
    <2>1. 0 \in Nat
      OBVIOUS
    <2> QED BY <1>1, <1>2, <2>1, HeaderParts
  <1>4. z \in Nat \ {0} /\ (l < 128 => z = 1) /\ (l >= 128 => z = 1 + Len(VarintOf[l \div 128]))
    BY <1>1, VarintLen
  <1>5. Len(VarintOf[0]) = 1
    BY VarintLen
  <1> HIDE DEF p, z
  <1>6. l >= 128 => z # 1
    <2> SUFFICES ASSUME l >= 128 PROVE z # 1
      OBVIOUS
    <2>1. l \div 128 \in Nat
      BY <1>1
    <2>2. Len(VarintOf[l \div 128]) \in Nat \ {0}
      BY <2>1, VarintLen
    <2> QED BY <1>4, <2>2
  <1>7. l < 128 => b[h] = l
    <2> SUFFICES ASSUME l < 128 PROVE b[h] = l
      OBVIOUS
    <2>1. b[p + 1] = l
      BY <1>1, <1>3, VarintAt
    <2> QED BY <1>3, <1>4, <2>1
  <1>8. h \in Nat \ {0} /\ Len(b) \in Nat /\ h + l <= Len(b)
    <2>1. h \in Nat \ {0}
      BY <1>3, <1>4
    <2>2. h + l <= Len(b)
      BY <1>2 DEF At
    <2> QED BY <2>1, <2>2, LenProperties
  <1>9. b[h + 1] = s[1] /\ b[h + 2] = s[2]
    <2>1. \A i \in 1 .. l : b[h + i] = s[i]
      BY <1>2 DEF At
    <2>2. 1 \in 1 .. l /\ 2 \in 1 .. l
      BY <1>1
    <2> QED BY <2>1, <2>2
  <1>10. h = Len(Header(0)) - 1 + z
    BY <1>3, <1>4, <1>5
  <1> QED BY <1>1, <1>4, <1>6, <1>7, <1>8, <1>9, <1>10 DEF Heads, z

\* A byte lost from the header of a frame does not leave a frame whose header is
\* as long.
LEMMA NoSlip ==
  ASSUME NEW b \in Seq(Bytes), NEW c \in Seq(Bytes), NEW ns, NEW ms, Whole(ns), Whole(ms),
         Opens(b, ns), Opens(c, ms), NEW i, Without(b, c, i),
         NEW l, l = Len(ToBytes(ns)), NEW m, m = Len(ToBytes(ms)),
         NEW h, h = Len(Header(l)), h = Len(Header(m)), i <= h
  PROVE  FALSE
  <1>1. Heads(b, l, h)
    BY OpensAt
  <1>2. Heads(c, m, h)
    BY OpensAt
  <1> USE DEF Heads
  <1>3. i \in 1 .. Len(b) /\ \A j \in i .. Len(c) : c[j] = b[j + 1]
    BY DEF Without
  <1>4. h \in i .. Len(c) /\ h + 1 \in i .. Len(c) /\ h + 1 + 1 = h + 2
    <2> DEFINE size == Len(c)
    <2>1. h \in Nat /\ m \in Nat /\ m >= 2 /\ size \in Nat /\ h + m <= size /\ i \in Nat
      BY <1>1, <1>2, <1>3
    <2> HIDE DEF size
    <2>2. h \in i .. size /\ h + 1 \in i .. size /\ h + 1 + 1 = h + 2
      BY <2>1
    <2> QED BY <2>2 DEF size
  <1>5. c[h] = 1 /\ b[h + 2] = 1
    BY <1>1, <1>2, <1>3, <1>4
  <1>6. l = 2 /\ Len(VarintOf[l]) = 1
    <2>1. l = 2
      BY <1>1, <1>5
    <2>2. l < 128
      BY <2>1
    <2> QED BY <1>1, <2>1, <2>2
  <1>7. Len(VarintOf[m]) = 1
    <2> DEFINE x == Len(VarintOf[l])
               y == Len(VarintOf[m])
               z == Len(Header(0))
    <2>1. h = z - 1 + x /\ h = z - 1 + y /\ x = 1 /\ y \in Nat /\ z \in Int
      <3>1. z \in Nat
        BY HeaderType, LenProperties
      <3> QED BY <1>1, <1>2, <1>6, <3>1
    <2> HIDE DEF x, y, z
    <2>2. y = 1
      BY <2>1
    <2> QED BY <2>2 DEF y
  <1>8. m < 128
    <2>1. ~ (m >= 128) /\ m \in Nat
      BY <1>2, <1>7
    <2> QED BY <2>1
  <1>9. c[h] = m /\ m >= 2
    BY <1>2, <1>8
  <1> QED BY <1>5, <1>9

\* A frame of a schema of l bytes behind a header of h, and one that was written.
Framing(b, ns, l, h) ==
  /\ b \in Seq(Bytes) /\ Whole(ns) /\ Opens(b, ns)
  /\ l = Len(ToBytes(ns)) /\ h = Len(Header(l))

Written(b, ns, l, h) ==
  /\ Framing(b, ns, l, h)
  /\ Len(b) = h + l + Len(Data)
  /\ \A k \in 1 .. Len(Data) : b[h + l + k] = Data[k]

LEMMA FramingType ==
  ASSUME NEW b, NEW ns, NEW l, NEW h, Framing(b, ns, l, h)
  PROVE  l \in Nat /\ l >= 2 /\ h \in Nat \ {0} /\ Len(b) \in Nat /\ h + l <= Len(b)
  <1>1. Heads(b, l, h)
    BY OpensAt DEF Framing
  <1> QED BY <1>1 DEF Heads

\* The frame that is shipped.
LEMMA FrameIs ==
  ASSUME NEW ns, Whole(ns), NEW l, l = Len(ToBytes(ns)), NEW h, h = Len(Header(l))
  PROVE  Written(Frame(ToBytes(ns), Data), ns, l, h)
  <1> DEFINE schema == ToBytes(ns)
             header == Header(l)
             b == Frame(schema, Data)
             front == header \o schema
  <1>1. /\ schema \in Seq(Bytes) /\ l \in Nat /\ header \in Seq(Bytes) /\ h \in Nat
        /\ b \in Seq(Bytes) /\ Opens(b, ns)
    BY FrameParts DEF Opens
  <1>2. Data \in Seq(Bytes) /\ b = front \o Data
    BY ShipmentAssumption DEF Frame
  <1> HIDE DEF schema, header, b
  <1>3. front \in Seq(Bytes)
    BY <1>1, ConcatProperties, Zenon
  <1>4. Len(front) = Len(header) + Len(schema)
    BY <1>1, ConcatParts
  <1> HIDE DEF front
  <1>5. /\ Len(front \o Data) = Len(front) + Len(Data)
        /\ \A k \in 1 .. Len(Data) : (front \o Data)[Len(front) + k] = Data[k]
    BY <1>2, <1>3, ConcatParts
  <1>6. Len(header) = h /\ Len(schema) = l
    BY DEF header, schema
  <1>7. Len(b) = h + l + Len(Data) /\ \A k \in 1 .. Len(Data) : b[h + l + k] = Data[k]
    BY <1>2, <1>4, <1>5, <1>6
  <1> QED BY <1>1, <1>7 DEF Written, Framing, b, schema

\* A header that is the same is that of a schema as long.
LEMMA HeaderStays ==
  ASSUME NEW b, NEW c, NEW ns, NEW ms, NEW l, NEW m, NEW h,
         Framing(b, ns, l, h), Framing(c, ms, m, h),
         \A j \in 1 .. h : c[j] = b[j]
  PROVE  l = m
  <1>1. l \in Nat /\ m \in Nat /\ h \in Nat \ {0} /\ Len(c) \in Nat /\ h + m <= Len(c)
    BY FramingType
  <1>2. At(b, 0, Header(l)) /\ At(c, 0, Header(m)) /\ c \in Seq(Bytes) /\ Len(Header(l)) = h
    BY DEF Framing, Opens
  <1>3. Header(l) \in Seq(Bytes)
    BY <1>1, HeaderType
  <1>4. 0 + h <= Len(c) /\ \A j \in 0 + 1 .. 0 + h : c[j] = b[j]
    BY <1>1
  <1>5. At(c, 0, Header(l))
    BY <1>2, <1>3, <1>4, StandsToo
  <1> QED BY <1>1, <1>2, <1>5, OneHeader

\* A schema that is the same, in its place, is that schema.
LEMMA SchemaStays ==
  ASSUME NEW b, NEW c, NEW ns, NEW ms, NEW l, NEW m, NEW h,
         Framing(b, ns, l, h), Framing(c, ms, m, h), h + l <= Len(c),
         \A j \in h + 1 .. h + l : c[j] = b[j]
  PROVE  ns = ms /\ l = m
  <1> DEFINE s == ToBytes(ns)
  <1>1. h \in Nat
    BY FramingType
  <1>2. /\ At(b, h, s) /\ At(c, h, ToBytes(ms)) /\ c \in Seq(Bytes) /\ Len(s) = l
        /\ Whole(ns) /\ Whole(ms)
    BY DEF Framing, Opens
  <1>3. s \in Seq(Bytes)
    BY <1>2, RootIs
  <1> HIDE DEF s
  <1>4. At(c, h, s)
    BY <1>1, <1>2, <1>3, StandsToo
  <1>5. ns = ms
    BY <1>1, <1>2, <1>4, OneSchema DEF s
  <1> QED BY <1>5 DEF Framing

\* What is behind p bytes.
Behind(c, p) == SubSeq(c, p + 1, Len(c))

LEMMA BehindIs ==
  ASSUME NEW c \in Seq(Bytes), NEW d \in Seq(Bytes), NEW p \in Nat, Len(c) = p + Len(d),
         \A k \in 1 .. Len(d) : c[p + k] = d[k]
  PROVE  Behind(c, p) = d
  <1> DEFINE n == Len(d)
             size == Len(c)
             e == SubSeq(c, p + 1, size)
  <1>1. n \in Nat /\ size \in Nat /\ size = p + n
    BY LenProperties
  <1>2. e \in Seq(Bytes) /\ Len(e) = n /\ \A k \in 1 .. n : e[k] = c[p + k]
    BY <1>1
  <1> HIDE DEF e
  <1>3. \A k \in 1 .. n : e[k] = d[k]
    BY <1>2
  <1>4. e = d
    BY <1>2, <1>3, SeqEqual
  <1> QED BY <1>4 DEF Behind, e

\* Where a damaged frame splits.
Splits(c, ns, ms, l, m, h) ==
  l = m /\ (ns = ms \/ Behind(c, h + l) \in {Data} \union Slipped(ToBytes(ns)))

\* A byte was changed.
LEMMA ChangedSplits ==
  ASSUME NEW b, NEW c, NEW ns, NEW ms, NEW l, NEW m, NEW h,
         Written(b, ns, l, h), Framing(c, ms, m, h), NEW i, Beside(b, c, i)
  PROVE  Splits(c, ns, ms, l, m, h)
  <1> DEFINE n == Len(Data)
  <1>1. Framing(b, ns, l, h) /\ Len(b) = h + l + n /\ \A k \in 1 .. n : b[h + l + k] = Data[k]
    BY DEF Written
  <1>2. l \in Nat /\ m \in Nat /\ h \in Nat /\ n \in Nat /\ c \in Seq(Bytes) /\ Data \in Seq(Bytes)
    BY <1>1, FramingType, ShipmentAssumption, LenProperties DEF Framing
  <1> HIDE DEF n
  <1>3. Len(c) = h + l + n /\ i \in Nat /\ \A j \in 1 .. h + l + n : j # i => c[j] = b[j]
    BY <1>1, <1>2 DEF Beside
  <1>4. CASE i <= h \/ i > h + l
    <2>1. \A j \in h + 1 .. h + l : c[j] = b[j]
      BY <1>2, <1>3, <1>4
    <2>2. h + l <= Len(c)
      BY <1>2, <1>3
    <2> QED BY <1>1, <2>1, <2>2, SchemaStays DEF Splits
  <1>5. CASE h < i /\ i <= h + l
    <2>1. \A j \in 1 .. h : c[j] = b[j]
      BY <1>2, <1>3, <1>5
    <2>2. l = m
      BY <1>1, <2>1, HeaderStays
    <2>3. \A k \in 1 .. n : c[h + l + k] = Data[k]
      <3> TAKE k \in 1 .. n
      <3>1. h + l + k \in 1 .. h + l + n /\ h + l + k # i
        BY <1>2, <1>5
      <3> QED BY <1>1, <1>3, <3>1
    <2>4. Behind(c, h + l) = Data
      <3>1. PICK p \in Nat : p = h + l
        BY <1>2
      <3>2. Len(c) = p + Len(Data) /\ \A k \in 1 .. Len(Data) : c[p + k] = Data[k]
        BY <1>3, <2>3, <3>1 DEF n
      <3> QED BY <1>2, <3>1, <3>2, BehindIs
    <2> QED BY <2>2, <2>4 DEF Splits
  <1> QED BY <1>2, <1>3, <1>4, <1>5

\* The end was cut off.
LEMMA CutSplits ==
  ASSUME NEW b, NEW c, NEW ns, NEW ms, NEW l, NEW m, NEW h,
         Written(b, ns, l, h), Framing(c, ms, m, h), Begins(c, b)
  PROVE  Splits(c, ns, ms, l, m, h)
  <1>1. Framing(b, ns, l, h) /\ \A j \in 1 .. Len(c) : c[j] = b[j]
    BY DEF Written, Begins
  <1>2. l \in Nat /\ m \in Nat /\ h \in Nat /\ Len(c) \in Nat /\ h + m <= Len(c)
    BY <1>1, FramingType
  <1> DEFINE size == Len(c)
  <1> HIDE DEF size
  <1>3. \A j \in 1 .. h : c[j] = b[j]
    <2>1. \A j \in 1 .. h : j \in 1 .. size
      BY <1>2 DEF size
    <2> QED BY <1>1, <2>1 DEF size
  <1>4. l = m
    BY <1>1, <1>3, HeaderStays
  <1>5. \A j \in h + 1 .. h + l : c[j] = b[j]
    <2>1. \A j \in h + 1 .. h + l : j \in 1 .. size
      BY <1>2, <1>4 DEF size
    <2> QED BY <1>1, <2>1 DEF size
  <1> QED BY <1>1, <1>2, <1>4, <1>5, SchemaStays DEF Splits

\* A byte was lost.
LEMMA LostSplits ==
  ASSUME NEW b, NEW c, NEW ns, NEW ms, NEW l, NEW m, NEW h,
         Written(b, ns, l, h), Framing(c, ms, m, h), NEW i, Without(b, c, i)
  PROVE  Splits(c, ns, ms, l, m, h)
  <1> DEFINE n == Len(Data)
             size == Len(c)
  <1>1. Framing(b, ns, l, h) /\ Len(b) = h + l + n /\ \A k \in 1 .. n : b[h + l + k] = Data[k]
    BY DEF Written
  <1>2. /\ l \in Nat /\ m \in Nat /\ h \in Nat /\ n \in Nat /\ size \in Nat /\ h + m <= size
        /\ c \in Seq(Bytes) /\ Data \in Seq(Bytes)
    BY <1>1, FramingType, ShipmentAssumption, LenProperties DEF Framing
  <1>3. /\ h + l + n = size + 1 /\ i \in 1 .. size + 1
        /\ \A j \in 1 .. i - 1 : c[j] = b[j]
        /\ \A j \in i .. size : c[j] = b[j + 1]
    BY <1>1, <1>2 DEF Without
  <1>4. ~ (i <= h)
    <2> SUFFICES ASSUME i <= h PROVE FALSE
      OBVIOUS
    <2> QED BY <1>1, NoSlip DEF Framing
  <1> HIDE DEF n, size
  <1>5. l = m
    <2>1. h < i /\ i \in Nat /\ h \in Nat
      BY <1>2, <1>3, <1>4
    <2>2. \A j \in 1 .. h : j \in 1 .. i - 1
      BY <2>1
    <2>3. \A j \in 1 .. h : c[j] = b[j]
      BY <1>3, <2>2
    <2> QED BY <1>1, <2>3, HeaderStays
  <1>6. CASE i > h + l
    <2>1. \A j \in h + 1 .. h + l : c[j] = b[j]
      BY <1>2, <1>3, <1>6
    <2>2. h + l <= Len(c)
      BY <1>2, <1>5 DEF size
    <2> QED BY <1>1, <2>1, <2>2, SchemaStays DEF Splits
  <1>7. CASE i <= h + l
    <2>1. n \in Nat \ {0}
      BY <1>2, <1>3, <1>5
    <2> DEFINE d == Tail(Data)
    <2>2. d \in Seq(Bytes) /\ Len(d) = n - 1 /\ \A k \in 1 .. n - 1 : d[k] = Data[k + 1]
      BY <1>2, <2>1 DEF n
    <2> HIDE DEF d
    <2>3. PICK p \in Nat : p = h + l
      BY <1>2
    <2>4. Len(c) = p + Len(d)
      BY <1>2, <1>3, <2>2, <2>3 DEF size
    <2>5. ASSUME NEW k \in 1 .. n - 1 PROVE c[p + k] = Data[k + 1]
      <3>1. p + k \in i .. size /\ k + 1 \in 1 .. n /\ p + k + 1 = h + l + (k + 1)
        BY <1>2, <1>3, <1>7, <2>3
      <3>2. c[p + k] = b[p + k + 1]
        BY <1>3, <3>1
      <3> QED BY <1>1, <3>1, <3>2 DEF n
    <2>6. \A k \in 1 .. Len(d) : c[p + k] = d[k]
      BY <2>2, <2>5
    <2>7. Behind(c, p) = d
      BY <1>2, <2>2, <2>4, <2>6, BehindIs
    <2> QED BY <1>5, <2>3, <2>7 DEF Splits, Slipped, d
  <1> QED BY <1>2, <1>3, <1>6, <1>7

\* A byte was put in.
LEMMA PutInSplits ==
  ASSUME NEW b, NEW c, NEW ns, NEW ms, NEW l, NEW m, NEW h,
         Written(b, ns, l, h), Framing(c, ms, m, h), NEW i, Without(c, b, i)
  PROVE  Splits(c, ns, ms, l, m, h)
  <1> DEFINE n == Len(Data)
             size == Len(c)
             schema == ToBytes(ns)
  <1>1. Framing(b, ns, l, h) /\ Len(b) = h + l + n /\ \A k \in 1 .. n : b[h + l + k] = Data[k]
    BY DEF Written
  <1>2. /\ l \in Nat \ {0} /\ m \in Nat /\ h \in Nat /\ n \in Nat /\ size \in Nat /\ h + m <= size
        /\ c \in Seq(Bytes) /\ Data \in Seq(Bytes)
    <2>1. l \in Nat /\ l >= 2 /\ h \in Nat
      BY <1>1, FramingType
    <2>2. m \in Nat /\ size \in Nat /\ h + m <= size
      BY FramingType
    <2>3. c \in Seq(Bytes) /\ Data \in Seq(Bytes) /\ n \in Nat
      BY ShipmentAssumption, LenProperties DEF Framing
    <2> QED BY <2>1, <2>2, <2>3
  <1>3. /\ size = h + l + n + 1 /\ i \in 1 .. size
        /\ \A j \in 1 .. i - 1 : c[j] = b[j]
        /\ \A j \in i .. h + l + n : c[j + 1] = b[j]
    BY <1>1, <1>2 DEF Without
  <1>4. ~ (i <= h)
    <2> SUFFICES ASSUME i <= h PROVE FALSE
      OBVIOUS
    <2> QED BY <1>1, NoSlip DEF Framing
  <1>5. schema \in Seq(Bytes) /\ Len(schema) = l /\ At(b, h, schema)
    BY <1>1, RootIs DEF Framing, Opens
  <1> HIDE DEF n, size, schema
  <1>6. l = m
    <2>1. h < i /\ i \in Nat /\ h \in Nat
      BY <1>2, <1>3, <1>4
    <2>2. \A j \in 1 .. h : j \in 1 .. i - 1
      BY <2>1
    <2>3. \A j \in 1 .. h : c[j] = b[j]
      BY <1>3, <2>2
    <2> QED BY <1>1, <2>3, HeaderStays
  <1>7. CASE i > h + l
    <2>1. \A j \in h + 1 .. h + l : c[j] = b[j]
      BY <1>2, <1>3, <1>7
    <2>2. h + l <= Len(c)
      BY <1>2, <1>6 DEF size
    <2> QED BY <1>1, <2>1, <2>2, SchemaStays DEF Splits
  <1>8. CASE i <= h + l
    <2> DEFINE last == <<Last(schema)>>
               d == last \o Data
    <2>1. b[h + l] = Last(schema) /\ Last(schema) \in Bytes
      <3>1. l \in 1 .. l
        BY <1>2
      <3> QED BY <1>5, <3>1, ElementOfSeq DEF At, Last
    <2>2. last \in Seq(Bytes) /\ Len(last) = 1 /\ last[1] = Last(schema)
      BY <2>1
    <2> HIDE DEF last
    <2>3. d \in Seq(Bytes)
      BY <1>2, <2>2, ConcatProperties, Zenon
    <2>4. /\ Len(d) = Len(last) + Len(Data)
          /\ \A k \in 1 .. Len(last) : d[k] = last[k]
          /\ \A k \in 1 .. Len(Data) : d[Len(last) + k] = Data[k]
      BY <1>2, <2>2, ConcatParts
    <2> HIDE DEF d
    <2>5. Len(d) = 1 + n /\ d[1] = Last(schema) /\ \A k \in 1 .. n : d[1 + k] = Data[k]
      BY <2>2, <2>4 DEF n
    <2>6. PICK p \in Nat : p = h + l
      BY <1>2
    <2>7. Len(c) = p + Len(d)
      BY <1>2, <1>3, <2>5, <2>6 DEF size
    <2>8. c[p + 1] = d[1]
      <3>1. h + l \in i .. h + l + n
        BY <1>2, <1>3, <1>8
      <3> QED BY <1>3, <2>1, <2>5, <2>6, <3>1
    <2>9. ASSUME NEW k \in 2 .. 1 + n PROVE c[p + k] = d[k]
      <3> DEFINE j == k - 1
      <3>1. j \in 1 .. n /\ p + j \in i .. h + l + n /\ p + j + 1 = p + k /\ 1 + j = k
        BY <1>2, <1>3, <1>8, <2>6
      <3> HIDE DEF j
      <3>2. c[p + j + 1] = b[p + j] /\ b[p + j] = Data[j] /\ d[1 + j] = Data[j]
        BY <1>1, <1>3, <2>5, <2>6, <3>1 DEF n
      <3> QED BY <3>1, <3>2
    <2>10. \A k \in 1 .. Len(d) : c[p + k] = d[k]
      <3> TAKE k \in 1 .. Len(d)
      <3>1. k = 1 \/ k \in 2 .. 1 + n
        BY <1>2, <2>5
      <3> QED BY <2>8, <2>9, <3>1
    <2>11. Behind(c, p) = d
      BY <1>2, <2>3, <2>7, <2>10, BehindIs
    <2> QED BY <1>6, <2>6, <2>11 DEF Splits, Slipped, d, last, schema
  <1> QED BY <1>2, <1>3, <1>7, <1>8

\* Whatever the damage, a frame still accepted splits where it was written, but
\* for a byte that slips between its schema and its data.
LEMMA HarmSplits ==
  ASSUME NEW b, NEW c, NEW ns, NEW ms, NEW l, NEW m, NEW h,
         Written(b, ns, l, h), Framing(c, ms, m, h), c = b \/ c \in Harmed(b)
  PROVE  Splits(c, ns, ms, l, m, h)
  <1>1. Framing(b, ns, l, h) /\ b \in Seq(Bytes)
    BY DEF Written, Framing
  <1>2. CASE c = b
    <2>1. h + l <= Len(c)
      BY <1>1, <1>2, FramingType
    <2> QED BY <1>1, <1>2, <2>1, SchemaStays DEF Splits
  <1>3. CASE c \in Harmed(b)
    <2>1. \/ \E i : Beside(b, c, i)
          \/ Begins(c, b)
          \/ \E i : Without(b, c, i)
          \/ \E i : Without(c, b, i)
      BY <1>1, <1>3, HarmIs
    <2> QED BY <2>1, ChangedSplits, CutSplits, LostSplits, PutInSplits
  <1> QED BY <1>2, <1>3

\* A frame that is accepted is one of the schema read from it.
LEMMA AcceptedFrame ==
  ASSUME IInv, Readback, Followed, Headed, Whole(nodes), phase = "accepted", start # 0
  PROVE  Framing(input, nodes, limit - start, start)
  <1> DEFINE m == limit - start
             h == Header(m)
             s == ToBytes(nodes)
  <1>1. m \in Nat /\ start = Len(h) /\ At(input, 0, h)
    BY DEF Headed
  <1>2. h \in Seq(Bytes) /\ s \in Seq(Bytes)
    <2>1. PICK ns : ns = nodes
      OBVIOUS
    <2>2. ToBytes(ns) \in Seq(Bytes)
      BY <2>1, RootIs
    <2> QED BY <1>1, <2>1, <2>2, HeaderType
  <1>3. /\ input \in Seq(Bytes) /\ start \in Nat /\ limit \in Nat /\ pos \in Nat
        /\ pos <= Len(input) /\ Len(input) \in Nat /\ Len(s) \in Nat
    BY <1>2, LenProperties DEF IInv, DecodeTypeOK, WorkWithinInput
  <1>4. SubSeq(input, 1, pos) = h \o s
    BY DEF Readback, Reencoded, Ahead, Done, Lead, Consumed
  <1> HIDE DEF m, h, s
  <1>5. /\ Len(h \o s) = Len(h) + Len(s)
        /\ \A i \in 1 .. Len(s) : (h \o s)[Len(h) + i] = s[i]
    BY <1>2, ConcatParts
  <1> DEFINE c == SubSeq(input, 1, pos)
             n == Len(s)
             size == Len(input)
  <1>6. Len(c) = pos /\ \A i \in 1 .. pos : c[i] = input[i]
    BY <1>3
  <1>7. pos = start + n /\ \A i \in 1 .. n : c[start + i] = s[i]
    BY <1>1, <1>4, <1>5, <1>6
  <1> HIDE DEF c, n, size
  <1>8. \A i \in 1 .. n : input[start + i] = s[i]
    <2> TAKE i \in 1 .. n
    <2>1. start + i \in 1 .. pos
      BY <1>3, <1>7 DEF n
    <2> QED BY <1>6, <1>7, <2>1
  <1>9. At(input, start, s)
    BY <1>3, <1>7, <1>8 DEF At, n
  <1>10. limit = start + Len(s)
    <2>1. PICK ns : ns = nodes
      OBVIOUS
    <2>2. Holds(nodes) /\ Follows(nodes)
      BY <1>9 DEF Holds, Followed, s
    <2>3. limit = start + Len(ToBytes(ns))
      BY <2>1, <2>2, AcceptedIs
    <2> QED BY <2>1, <2>3 DEF s
  <1>11. m = Len(s)
    BY <1>3, <1>10 DEF m
  <1>12. Opens(input, nodes)
    BY <1>1, <1>9, <1>11 DEF Opens, h, s
  <1> QED BY <1>1, <1>3, <1>11, <1>12 DEF Framing, h, m, s

\* Whatever one byte of a frame is changed, lost or put in, and wherever its end
\* is cut off, its header still as long as it was: the frame is refused, or as
\* many bytes as were written are taken for its schema, and the schema or the
\* data is as it was, unless a byte has slipped between them (split of
\* SelfDescribingDeserializer, which trusts the length it reads).
THEOREM SplitStays == ShipmentSpec => []SplitsWhereWritten
  <1>1. IInv /\ Readback /\ Followed /\ SInv /\ AcceptedIsWhole => SplitsWhereWritten
    <2> DEFINE schema == ToBytes(sent)
               l == Len(schema)
    <2> SUFFICES ASSUME IInv, Readback, Followed, Whence, Headed, AcceptedIsWhole,
                        phase = "accepted", start = Len(Header(l))
                 PROVE  /\ limit = start + l
                        /\ nodes = sent \/ Rest = Data \/ Rest \in Slipped(schema)
      BY DEF SInv, SplitsWhereWritten
    <2>1. Whole(sent) /\ Whole(nodes)
      BY DEF Whence, AcceptedIsWhole
    <2>2. PICK ns : ns = sent
      OBVIOUS
    <2>3. PICK b : b = Framed
      OBVIOUS
    <2>4. PICK k : k = l
      OBVIOUS
    <2>5. PICK h : h = start
      OBVIOUS
    <2>6. Written(b, ns, k, h)
      BY <2>1, <2>2, <2>3, <2>4, <2>5, FrameIs DEF Framed
    <2>7. k \in Nat /\ h \in Nat \ {0}
      BY <2>6, FramingType DEF Written
    <2>8. start # 0
      BY <2>5, <2>7
    <2>9. PICK c : c = input
      OBVIOUS
    <2>10. PICK ms : ms = nodes
      OBVIOUS
    <2>11. PICK m : m = limit - start
      OBVIOUS
    <2>12. Framing(c, ms, m, h)
      BY <2>1, <2>5, <2>8, <2>9, <2>10, <2>11, AcceptedFrame
    <2>13. c = b \/ c \in Harmed(b)
      BY <2>3, <2>8, <2>9 DEF Whence
    <2>14. Splits(c, ns, ms, k, m, h)
      BY <2>6, <2>12, <2>13, HarmSplits
    <2>15. limit = start + l
      <3>1. m = k
        BY <2>14 DEF Splits
      <3>2. limit \in Nat /\ start \in Nat
        BY DEF IInv, DecodeTypeOK
      <3> QED BY <2>4, <2>11, <3>1, <3>2
    <2>16. nodes = sent \/ Behind(c, h + k) \in {Data} \union Slipped(schema)
      BY <2>2, <2>10, <2>14 DEF Splits
    <2>17. Behind(c, h + k) = Rest
      BY <2>4, <2>5, <2>9, <2>15 DEF Behind, Rest
    <2> QED BY <2>15, <2>16, <2>17
  <1> QED BY <1>1, Delivered, ShipmentDecodes, ReadsSchemas, PTL

=============================================================================
