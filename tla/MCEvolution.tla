---------------------------- MODULE MCEvolution -----------------------------
(***************************************************************************)
(* One type of each shape, and the changes each run makes to them.         *)
(***************************************************************************)
EXTENDS Evolution

U8 == Prim("u8")

Named          == Struct("S", <<"a", "b">>, <<U8, U8>>)
Positional     == Tuple("T", <<U8, Option(U8)>>)
Empty          == UnitStruct("U")
Variants       == Enum("E", <<"A", "B">>, <<UnitStruct("V"), Tuple("V", <<U8, U8, U8>>)>>)
NamedVariant   == Enum("E", <<"A">>, <<Struct("V", <<"a">>, <<U8>>)>>)
NewtypeVariant == Enum("E", <<"A">>, <<Newtype("V", U8)>>)
Meters         == Newtype("M", U8)
List           == Struct("L", <<"a">>, <<Vec(U8)>>)
Choice         == Struct("O", <<"a", "b">>, <<Option(Meters), U8>>)
Arrays         == Tuple("", <<Tuple("", <<U8, U8>>), U8>>)

AllTypes ==
  {Named, Positional, Empty, Variants, NamedVariant, NewtypeVariant, Meters, List, Choice, Arrays}

FieldOps == {"add", "remove", "reorder", "rename"}
TupleOps == {"grow", "shrink", "hold", "name", "populate"}
EnumOps  == {"addvariant", "renamevariant", "reordervariants"}

ProductOps == FieldOps \union TupleOps \union EnumOps
ValueOps   == {"some", "widen", "add", "grow"}
ListOps    == {"list", "vec", "widen", "unit"}
ArrayOps   == {"array", "vec", "widen", "unit"}
PlainOps   == {"wrap", "unwrap", "promote", "widen"}

Composing == {ProductOps, ValueOps, ListOps, ArrayOps, PlainOps}

\* Steps the table allows one by one, and what they are made to.
JustArrays      == {{"array"}}
RenameRemoveAdd == {{"rename", "remove", "add"}}

Lists    == {List}
OldNames == {Named}

TwoEach  == <<2, 2>>
TooMany  == <<3, 2, 2>>

=============================================================================
