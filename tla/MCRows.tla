------------------------------- MODULE MCRows -------------------------------
(***************************************************************************)
(* Rows for TLC, on the schema of struct { tags: Vec<u8>, flag: bool }     *)
(* with bytes 0 .. 2: a length is 0, 1 or 2, an element is any byte, and   *)
(* 2 is no bool.  MCValue is every value these bytes can decode to.        *)
(***************************************************************************)
EXTENDS Rows

MCCell == 0 .. 2

Tags == UNION {[1 .. n -> MCCell] : n \in 0 .. 2}

MCValue == [tags : Tags, flag : {0, 1}]

MCEnc == [v \in MCValue |-> << <<Len(v.tags)>>, v.tags, <<v.flag>> >>]

\* A type whose Deserialize impl validates: it takes no repeated tag.
MCRefused == {v \in MCValue : v.tags \in {<<1, 1>>, <<2, 2>>}}

\* bound: how many data bytes a blob has
MaxBytes == 4

MCInput ==
  { b \in [rows : 0 .. 3, count : {3}, lengths : [1 .. 3 -> 0 .. 2],
           data : UNION {[1 .. n -> MCCell] : n \in 0 .. MaxBytes}] :
      ClaimedBytes(b) \in {Len(b.data), Len(b.data) + 1} }
  \union [rows : {1}, count : {2}, lengths : {<<1, 1>>}, data : {<<0, 0>>}]
=============================================================================
