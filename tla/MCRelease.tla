----------------------------- MODULE MCRelease ------------------------------
(***************************************************************************)
(* Released types of each shape, and the changes made to them.             *)
(***************************************************************************)
EXTENDS Release

U8  == Prim("u8")
U16 == Prim("u16")
I8  == Prim("i8")

Coin(name) == Enum(name, <<"A", "B">>, <<UnitStruct("V"), UnitStruct("V")>>)
Dice       == Enum("D", <<"A", "B", "C">>, <<UnitStruct("V"), UnitStruct("V"), UnitStruct("V")>>)
Nothing    == Enum("N", << >>, << >>)

Record   == Struct("S", <<"a", "b">>, <<U16, Option(I8)>>)
Pair     == Tuple("T", <<U16, I8>>)
Meters   == Newtype("M", U16)
Maybe    == Option(Newtype("M", U8))
Lists    == Tuple("", <<Vec(U8), Map(U8, I8)>>)
Sum      == Enum("E", <<"A", "B">>, <<Struct("V", <<"a">>, <<U8>>), Tuple("V", <<U8, U8>>)>>)
Siblings == Tuple("", <<Coin("C"), Dice>>)
Nested   == Enum("E", <<"A", "B">>, <<Newtype("V", Coin("C")), UnitStruct("V")>>)
Deepest  == Enum("E", <<"A", "B">>, <<Newtype("V", Nested), Newtype("V", Dice)>>)
Gap      == Struct("S", <<"a", "b">>, <<U8, Option(Nothing)>>)
OnlyGap  == Struct("S", <<"a">>, <<Option(Nothing)>>)

AllTypes ==
  {Record, Pair, Meters, Maybe, Lists, Sum, Siblings, Nested, Deepest, Gap, OnlyGap}

\* Changes the probe decides.
Shapes ==
  {"add", "remove", "reorder", "rename", "grow", "shrink", "name", "populate", "addvariant",
   "renamevariant", "reordervariants", "some", "list", "vec", "wrap", "unwrap", "promote",
   "add without default", "rename without alias", "drop"}

\* Changes the comparison decides, where the trees still line up.
Ranges ==
  {"retype", "widen", "some", "list", "wrap", "unwrap", "add", "reorder", "reordervariants",
   "drop", "swap"}

\* A field renamed as the table says, and one narrowed.
Renames == {"rename", "retype"}

Composing == {Shapes, Ranges, Renames}

=============================================================================
