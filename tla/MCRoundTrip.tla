---------------------------- MODULE MCRoundTrip -----------------------------
(***************************************************************************)
(* Types with every kind of node in each other's places: structs and enums *)
(* that differ in the order of what they list, a nest of lengths, and      *)
(* elements of no columns.                                                 *)
(***************************************************************************)
EXTENDS RoundTrip

N(x) == Val(x, << >>)
P(kids) == Val(0, kids)
Many(kids) == Val(Len(kids), kids)

U8 == Prim("u8")

Pair   == Struct("S", <<"a", "b">>, <<U8, U8>>)
Riap   == Struct("S", <<"b", "a">>, <<U8, U8>>)
Wrap   == Newtype("W", Option(U8))
Shape  == Enum("E", <<"A", "B", "C">>, <<Unit, Newtype("", U8), Tuple("", <<U8, Str>>)>>)
Epahs  == Enum("E", <<"C", "D", "A", "B">>,
               <<Tuple("", <<U8, Str>>), Newtype("", Option(U8)), Unit, Newtype("", U8)>>)
Nested == Vec(Vec(U8))
Units  == Tuple("", <<Vec(Unit), Prim("bool")>>)
Dict   == Map(U8, Pair)

MCTypes == {Pair, Riap, Wrap, Shape, Epahs, Nested, Units, Dict}

MCValues ==
  [t \in MCTypes |->
    CASE t = Pair -> {P(<<N(2), N(1)>>), P(<<N(1), N(0)>>)}
      [] t = Riap -> {P(<<N(1), N(1)>>)}
      [] t = Wrap -> {P(<<Val(0, << >>)>>), P(<<Val(1, <<N(2)>>)>>)}
      [] t = Shape -> {Val(1, <<N(0)>>), Val(2, <<P(<<N(1)>>)>>),
                       Val(3, <<P(<<N(2), Many(<<N(1), N(2)>>)>>)>>)}
      [] t = Epahs -> {Val(1, <<P(<<N(2), Many(<< >>)>>)>>),
                       Val(2, <<P(<<Val(1, <<N(1)>>)>>)>>), Val(3, <<N(0)>>)}
      [] t = Nested -> {Many(<< >>), Many(<<Many(<<N(1)>>), Many(<< >>), Many(<<N(2), N(1)>>)>>)}
      [] t = Units -> {P(<<Many(<<N(0), N(0)>>), N(1)>>), P(<<Many(<< >>), N(0)>>)}
      [] t = Dict -> {Val(1, <<N(1), P(<<N(2), N(0)>>)>>),
                      Val(2, <<N(1), P(<<N(1), N(1)>>), N(2), P(<<N(1), N(0)>>)>>)}]

=============================================================================
