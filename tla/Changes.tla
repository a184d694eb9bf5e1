------------------------------ MODULE Changes -------------------------------
(***************************************************************************)
(* The changes README.md ("What you can change") lists for a type whose    *)
(* files are already written, each made as its table says it has to be,    *)
(* and what each makes of a value of the old type.  The author of a type   *)
(* makes them; the derive refuses some (removed.rs: CheckFields).          *)
(*                                                                         *)
(* A change is [path, op, i, to]: at the node down `path` do `op`, at      *)
(* position i, which turns the whole type into `to`.                       *)
(***************************************************************************)
EXTENDS Reader

CONSTANTS
  FieldNames,        \* names to choose from
  PlainKinds,        \* kinds of field that are wrapped, unwrapped and promoted
  LeastVariant,      \* the fewest fields a tuple variant is shrunk to
  KeepFirst,         \* the field tagged with position 0 is never removed
  RetireAliases,     \* a removed field's aliases are retired with its name
  PlaceholderDefault,\* the `()` put in a retired position has #[serde(default)]
  ArrayLen           \* the length of the array a sequence becomes

At(op, i, to) == [path |-> << >>, op |-> op, i |-> i, to |-> to]

IsPlaceholder(type) == type.kind = "unit" /\ type.name = ""

TakenNames(type) == UNION {Answers(type, i) : i \in DOMAIN type.kids}

InsertField(type, i, name, field, dflt) ==
  [type EXCEPT !.kids = InsertAt(@, i, field),
               !.names = InsertAt(@, i, name),
               !.alias = InsertAt(@, i, {}),
               !.dflt = InsertAt(@, i, dflt)]

\* A tuple struct, or variant, of one field is a newtype to serde.
Sized(type) ==
  [type EXCEPT !.kind = IF Len(type.kids) = 1 /\ type.name # "" THEN "newtype" ELSE "tuple"]

-----------------------------------------------------------------------------
(***************************************************************************)
(* Fields of a struct, and of a struct variant.                            *)
(***************************************************************************)

AddField(t) ==
  {At("add", i, InsertField(t, i, name, Prim("u8"), TRUE)) :
     i \in {1, Len(t.kids) + 1}, name \in FieldNames \ TakenNames(t)}

\* The field that took position 0 may be the one tag a positional file needs.
Removable(t) ==
  {i \in DOMAIN t.kids : KeepFirst => "0" \notin Answers(t, i)}

RemoveField(t) ==
  {At("remove", i,
      [t EXCEPT !.kids = RemoveAt(@, i), !.names = RemoveAt(@, i),
                !.alias = RemoveAt(@, i), !.dflt = RemoveAt(@, i),
                !.retired = @ \union {t.names[i]}
                              \union IF RetireAliases THEN t.alias[i] ELSE {}]) :
     i \in Removable(t)}

RenameField(t) ==
  {At("rename", i, [t EXCEPT !.names[i] = name, !.alias[i] = @ \union {t.names[i]}]) :
     i \in DOMAIN t.kids, name \in FieldNames \ TakenNames(t)}

Reversed(t) ==
  [t EXCEPT !.kids = Reverse(@), !.names = Reverse(@), !.alias = Reverse(@), !.dflt = Reverse(@)]

ReorderFields(t) == {At("reorder", Len(t.kids), Reversed(t))}

StructChanges(t) == AddField(t) \union RemoveField(t) \union RenameField(t) \union ReorderFields(t)

-----------------------------------------------------------------------------
(***************************************************************************)
(* Positional and named groups of fields.  A bare tuple has no name, has   *)
(* nowhere to record a retirement and cannot grow.                         *)
(***************************************************************************)

Appended(t, field, dflt) ==
  Sized([t EXCEPT !.kids = Append(@, field), !.alias = Append(@, {}), !.dflt = Append(@, dflt)])

GrowTuple(t) == {At("grow", Len(t.kids) + 1, Appended(t, Prim("u8"), TRUE))}

\* The position of the field dropped is retired.
ShrinkTuple(t, least) ==
  {At("shrink", n,
      Sized([t EXCEPT !.kids = Front(@), !.alias = Front(@), !.dflt = Front(@),
                      !.retired = IF t.name = "" THEN @ ELSE @ \union {ToString(n - 1)}])) :
     n \in {Len(t.kids)} \cap {m \in 2 .. 9 : m > least}}

\* The next position being retired, `()` is put there for others to follow.
HoldPosition(t) ==
  {At("hold", n + 1, Appended(t, Unit, PlaceholderDefault)) :
     n \in {m \in {Len(t.kids)} : ToString(m) \in t.retired}}

\* Named fields, each tagged with the position it replaces.
NameFields(t) ==
  LET new == <<"x", "y", "z">>
  IN  {At("name", n,
          [t EXCEPT !.kind = "struct",
                    !.names = SubSeq(new, 1, n),
                    !.alias = [i \in 1 .. n |-> {ToString(i - 1)}]]) :
         n \in {Len(t.kids)} \cap 1 .. 3}

\* Named fields where there were none.
NameUnit(t) ==
  {At("populate", 1, InsertField([t EXCEPT !.kind = "struct"], 1, "x", Prim("u8"), TRUE))}

TakeAway(unit) == {At("unit", 0, unit)}

PositionChanges(t, least) ==
  NameFields(t) \union ShrinkTuple(t, least)
  \union IF t.name = "" THEN {} ELSE GrowTuple(t) \union HoldPosition(t)

-----------------------------------------------------------------------------
(***************************************************************************)
(* Enums.  The payload of a variant is a product named "V".                *)
(***************************************************************************)

NoPayload == UnitStruct("V")

EnumChanges(t) ==
  {At("addvariant", i, InsertField(t, i, name, NoPayload, FALSE)) :
     i \in {1, Len(t.kids) + 1}, name \in FieldNames \ (TakenNames(t) \union t.retired)}
  \union {At("renamevariant", i,
             [t EXCEPT !.names[i] = name, !.alias[i] = @ \union {t.names[i]}]) :
            i \in DOMAIN t.kids, name \in FieldNames \ TakenNames(t)}
  \union {At("reordervariants", Len(t.kids), Reversed(t))}

VariantChanges(t) ==
  CASE t.kind = "struct" -> StructChanges(t) \union TakeAway(NoPayload)
    [] t.kind \in {"newtype", "tuple"} -> PositionChanges(t, LeastVariant) \union TakeAway(NoPayload)
    [] t.kind = "unit" -> NameUnit(t)

-----------------------------------------------------------------------------
(***************************************************************************)
(* Wrappers and containers, and every change to a type.                    *)
(***************************************************************************)

SameKids(t) == t.kids # << >> /\ \A i \in DOMAIN t.kids : t.kids[i] = t.kids[1]

ContainerChanges(t) ==
  {At("some", 1, Option(t)) : k \in {t.kind} \ {"option"}}
  \union {At("list", 1, Vec(t.kids[1])) : k \in {t.kind} \cap {"option"}}
  \union {At("vec", Len(t.kids), Vec(t.kids[1])) :
            k \in {t.kind} \cap (IF t.name = "" /\ SameKids(t) THEN {"tuple"} ELSE {})}
  \union {At("array", ArrayLen, Tuple("", [i \in 1 .. ArrayLen |-> t.kids[1]])) :
            k \in {t.kind} \cap {"seq"}}

PlainChanges(t) ==
  {At("wrap", 1, Newtype("W", t)),
   At("promote", 1, [Struct("P", <<"x">>, <<t>>) EXCEPT !.alias = <<{"0"}>>])}

Unwrap(t) == {At("unwrap", 1, t.kids[1])}

Widen(t) == {At("widen", 1, Prim("u16")) : k \in {t.name} \cap {"u8"}}

OwnChanges(t) ==
  ContainerChanges(t)
  \union TakeAway(Unit)
  \union (IF t.kind \in PlainKinds THEN PlainChanges(t) ELSE {})
  \union (IF t.kind = "newtype" /\ t.kids[1].kind \in PlainKinds THEN Unwrap(t) ELSE {})
  \union CASE t.kind = "struct" -> StructChanges(t)
           [] t.kind \in {"newtype", "tuple"} -> PositionChanges(t, 1)
           [] t.kind = "unit" -> NameUnit(t)
           [] t.kind = "enum" -> EnumChanges(t)
           [] t.kind = "prim" -> Widen(t)
           [] OTHER -> {}

Below(t, i, changes) ==
  {[c EXCEPT !.path = <<i>> \o @, !.to = [t EXCEPT !.kids[i] = c.to]] : c \in changes}

RECURSIVE ChangesTo(_)
ChangesTo(t) ==
  OwnChanges(t) \union
  UNION {Below(t, i, IF t.kind # "enum" THEN ChangesTo(t.kids[i])
                     ELSE VariantChanges(t.kids[i]) \union
                          UNION {Below(t.kids[i], j, ChangesTo(t.kids[i].kids[j])) :
                                   j \in DOMAIN t.kids[i].kids}) :
           i \in DOMAIN t.kids}

-----------------------------------------------------------------------------
(***************************************************************************)
(* What the derive accepts (carbonite-derive/src/removed.rs).              *)
(***************************************************************************)

\* Mutation: retirements are recorded and never looked at.
CheckFields_Never(t) == TRUE

\* removed::check_fields and check_enum.  A field may hold a retired name or
\* position only as `()`; no alias may be retired, and no variant's name.
CheckFields(t) ==
  \A i \in DOMAIN t.kids :
    /\ t.alias[i] \cap t.retired = {}
    /\ CASE t.kind = "struct" -> t.names[i] \in t.retired => IsPlaceholder(t.kids[i])
         [] t.kind \in {"newtype", "tuple"} ->
              ToString(i - 1) \in t.retired => IsPlaceholder(t.kids[i])
         [] t.kind = "enum" -> t.names[i] \notin t.retired
         [] OTHER -> TRUE

RECURSIVE Derives(_)
Derives(t) == CheckFields(t) /\ \A i \in DOMAIN t.kids : Derives(t.kids[i])

-----------------------------------------------------------------------------
(***************************************************************************)
(* What a change makes of a value.  Missing is a field the file does not   *)
(* have, whatever is done to its type later; Filled gives it its default.  *)
(***************************************************************************)

Missing == Val(-1, << >>)

CarryHere(c, v) ==
  CASE c.op \in {"add", "grow", "hold"} -> [v EXCEPT !.kids = InsertAt(@, c.i, Missing)]
    [] c.op = "remove" -> [v EXCEPT !.kids = RemoveAt(@, c.i)]
    [] c.op = "shrink" -> [v EXCEPT !.kids = Front(@)]
    [] c.op = "reorder" -> [v EXCEPT !.kids = Reverse(@)]
    [] c.op = "populate" -> Val(0, <<Missing>>)
    [] c.op = "unit" -> Val(0, << >>)
    [] c.op = "some" -> Val(1, <<v>>)
    [] c.op \in {"wrap", "promote"} -> Val(0, <<v>>)
    [] c.op = "unwrap" -> v.kids[1]
    [] c.op = "vec" -> Val(c.i, v.kids)
    [] c.op = "array" -> Val(0, SubSeq(v.kids, 1, IF Len(v.kids) < c.i THEN Len(v.kids) ELSE c.i))
    [] c.op = "addvariant" -> IF v.n >= c.i THEN [v EXCEPT !.n = @ + 1] ELSE v
    [] c.op = "reordervariants" -> [v EXCEPT !.n = c.i + 1 - @]
    [] OTHER -> v

RECURSIVE Carry(_, _, _)

\* `t` is the type the change is made to.
Carry(c, t, v) ==
  LET down == [c EXCEPT !.path = Tail(@)]
      i == Head(c.path)
  IN  CASE v = Missing -> v
        [] v # Missing /\ c.path = << >> -> CarryHere(c, v)
        [] v # Missing /\ c.path # << >> /\ t.kind \in {"option", "seq"} ->
             [v EXCEPT !.kids = [k \in DOMAIN @ |-> Carry(down, t.kids[1], @[k])]]
        [] v # Missing /\ c.path # << >> /\ t.kind = "enum" ->
             IF v.n = i THEN [v EXCEPT !.kids = <<Carry(down, t.kids[i], @[1])>>] ELSE v
        [] OTHER -> [v EXCEPT !.kids[i] = Carry(down, t.kids[i], @)]

RECURSIVE Filled(_, _)

Filled(t, v) ==
  CASE v = Missing -> DefaultOf(t)
    [] v # Missing /\ t.kind \in {"option", "seq"} ->
         [v EXCEPT !.kids = [k \in DOMAIN @ |-> Filled(t.kids[1], @[k])]]
    [] v # Missing /\ t.kind = "enum" -> [v EXCEPT !.kids = <<Filled(t.kids[v.n], @[1])>>]
    [] OTHER -> [v EXCEPT !.kids = [k \in DOMAIN @ |-> Filled(t.kids[k], @[k])]]

=============================================================================
