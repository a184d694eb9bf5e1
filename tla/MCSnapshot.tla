----------------------------- MODULE MCSnapshot -----------------------------
(***************************************************************************)
(* Types of every kind, traceable or not, and bytes that damage leaves.    *)
(***************************************************************************)
EXTENDS Snapshot

U8 == Prim("u8")

Payload(fields) == Tuple("V", fields)

Coin    == Enum("E", <<"a", "b">>, <<UnitStruct("V"), Newtype("V", U8)>>)
Flat    == Struct("S", <<"a", "b">>, <<U8, Str>>)
Many    == Tuple("", <<Prim("bool"), Prim("u16"), Unit, UnitStruct("S"), ByteBuf>>)
Boxes   == Tuple("T", <<Option(U8), Vec(Newtype("N", U8)), Map(Str, Shared(U8))>>)
Nested  == Enum("E", <<"a", "b">>, <<Payload(<<Coin, U8>>), Struct("V", <<"x">>, <<Coin>>)>>)
Twice   == Tuple("", <<Coin, Vec(Coin)>>)
Deepest == Option(Option(Option(U8)))
DeepSum == Option(Option(Enum("E", <<"a">>, <<UnitStruct("V")>>)))
TooDeepType == Option(Deepest)

Aliased == Struct("S", <<"a">>, <<[Flat EXCEPT !.alias[2] = {"x"}]>>)
Renamed == [Coin EXCEPT !.alias[1] = {"x"}]
Never   == Tuple("", <<U8, Option(Enum("E", << >>, << >>))>>)
Value   == Enum("E", <<"a", "b">>, <<UnitStruct("V"), Newtype("V", Dynamic)>>)
List    == Struct("S", <<"a">>, <<Option(Self)>>)
Tree    == Enum("E", <<"a", "b">>, <<UnitStruct("V"), Payload(<<Self, Self>>)>>)
Moody   == Struct("S", <<"a", "b">>, <<Coin, Fickle(U8, Prim("u16"))>>)
Torn    == Enum("E", <<"a", "b">>, <<Newtype("V", Fickle(Coin, U8)), Newtype("V", Coin)>>)

AllTypes ==
  {Coin, Flat, Many, Boxes, Nested, Twice, Deepest, DeepSum, TooDeepType,
   Aliased, Renamed, Never, Value, List, Tree, Moody, Torn}

Letters == [S |-> <<83>>, T |-> <<84>>, N |-> <<78, 78>>, E |-> <<69>>, V |-> << >>,
            a |-> <<97>>, b |-> << >>, x |-> <<120, 121>>]

MagicBytes == <<67, 82>>
DataBytes  == <<1, 6>>
Harm       == {0, 1, 2, 12, 17, 21, 27, 128, 255}
Strays     == {0, 1, 17}

\* No byte from 128 on is a character by itself, and those that Harm leaves
\* never begin a longer one.
Ascii == Seq(0 .. 127)

=============================================================================
