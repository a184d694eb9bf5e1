------------------------------ MODULE Release -------------------------------
(***************************************************************************)
(* A released type is changed, as README.md's table allows or as it does   *)
(* not, and its schema is then checked against the type it has become      *)
(* (README.md, "Checking compatibility in CI").                            *)
(***************************************************************************)
EXTENDS Changes, Compat

CONSTANTS
  FirstTypes,   \* the types released
  Families,     \* sets of kinds of change, each made to a type of its own
  MaxChanges,   \* bound: changes made in all
  Cases         \* bound: the rows, unlike the probe's, a file is made of

ASSUME ReleaseAssumption ==
  /\ MaxZeroColumnRepeat \in Nat
  /\ MaxChanges \in Nat
  /\ ArrayLen \in Nat
  /\ Cases \in Nat

VARIABLES
  allowed,    \* the kinds of change made to this type
  released,   \* the type whose schema was kept
  type,       \* the type as it is now
  changes,    \* how many changes were made
  checked,    \* what check said, "" before it is asked
  static      \* what check_static said

vars == <<allowed, released, type, changes, checked, static>>

-----------------------------------------------------------------------------
(***************************************************************************)
(* Changes the table forbids, or allows only with an attribute that is     *)
(* left out here.                                                          *)
(***************************************************************************)

Without(t, i) ==
  [t EXCEPT !.kids = RemoveAt(@, i), !.names = RemoveAt(@, i), !.alias = RemoveAt(@, i),
            !.dflt = RemoveAt(@, i)]

CarelessFields(t) ==
  {At("add without default", i, InsertField(t, i, name, Prim("u8"), FALSE)) :
     i \in {Len(t.kids) + 1}, name \in FieldNames \ TakenNames(t)}
  \union {At("rename without alias", i, [t EXCEPT !.names[i] = name]) :
            i \in DOMAIN t.kids, name \in FieldNames \ TakenNames(t)}

CarelessVariants(t) ==
  {At("rename without alias", i, [t EXCEPT !.names[i] = name]) :
     i \in DOMAIN t.kids, name \in FieldNames \ TakenNames(t)}
  \union {At("drop", i, Without(t, i)) : i \in DOMAIN t.kids}

CarelessPositions(t) ==
  IF Len(t.kids) < 2 THEN {}
  ELSE {At("swap", Len(t.kids), Reversed([t EXCEPT !.names = << >>]))}

OtherPrims(t) == {At("retype", 0, Prim(p)) : p \in DOMAIN PrimValues \ {t.name}}

Careless(t) ==
  CASE t.kind = "struct" -> CarelessFields(t)
    [] t.kind = "enum" -> CarelessVariants(t)
    [] t.kind \in {"newtype", "tuple"} -> CarelessPositions(t)
    [] t.kind = "prim" -> OtherPrims(t)
    [] OTHER -> {}

RECURSIVE CarelessTo(_)
CarelessTo(t) ==
  Careless(t) \union
  UNION {Below(t, i, CarelessTo(t.kids[i])) :
           i \in {j \in DOMAIN t.kids : t.kind # "str"}}

-----------------------------------------------------------------------------

Init ==
  /\ allowed \in Families
  /\ released \in FirstTypes
  /\ type = released
  /\ changes = 0
  /\ checked = ""
  /\ static = ""

\* The author changes the type to one the derive accepts.
Change ==
  /\ checked = ""
  /\ changes < MaxChanges
  /\ \E c \in {d \in ChangesTo(type) \union CarelessTo(type) : d.op \in allowed} :
       Derives(c.to) /\ type' = c.to
  /\ changes' = changes + 1
  /\ UNCHANGED <<allowed, released, checked, static>>

\* compat::check and compat::check_static.
RunChecks ==
  /\ checked = ""
  /\ checked' = Check(type, released)
  /\ static' = CheckStatic(type, released)
  /\ UNCHANGED <<allowed, released, type, changes>>

Next == Change \/ RunChecks

Spec == Init /\ [][Next]_vars

-----------------------------------------------------------------------------
(***************************************************************************)
(* Rows of the released type that a file may hold.                         *)
(***************************************************************************)

Least(S) == CHOOSE x \in S : \A y \in S : x <= y

\* The ends of a primitive's range.
Extreme(p, k) ==
  LET bits == IF p = "bool" THEN 1 ELSE Integer[p].bits
      low == IF p # "bool" /\ Integer[p].signed THEN -(2 ^ (bits - 1)) ELSE 0
  IN  IF k % 2 = 0 THEN low ELSE low + 2 ^ bits - 1

\* Nothing is a value of an enum without variants.
IsNever(t) == t.kind = "enum" /\ t.kids = << >>

\* The k-th row: absent and present options, sequences of none to two, maps of
\* two keys, both ends of every range and every variant; k's digits choose,
\* outermost first.
RECURSIVE Instance(_, _)
Instance(t, k) ==
  LET Choice(n) == IF IsNever(t.kids[1]) THEN 0 ELSE k % n
      Copies(n, rest) ==
        Val(n, [i \in 1 .. n * Len(t.kids) |-> Instance(t.kids[((i - 1) % Len(t.kids)) + 1], rest)])
      Keyed(n, rest) ==
        Val(n, FlattenSeq([i \in 1 .. n |-> <<Instance(t.kids[1], rest + i),
                                             Instance(t.kids[2], rest)>>]))
  IN  CASE t.kind = "prim" -> Val(Extreme(t.name, k), << >>)
        [] t.kind = "option" -> Copies(Choice(2), k \div 2)
        [] t.kind = "seq" -> Copies(Choice(3), k \div 3)
        [] t.kind = "map" -> Collected(Keyed(Choice(3), k \div 3))
        [] t.kind = "str" -> Val(0, << >>)
        [] t.kind = "enum" ->
             LET n == (k % Len(t.kids)) + 1
             IN  Val(n, <<Instance(t.kids[n], k \div Len(t.kids))>>)
        [] OTHER -> Val(0, [i \in DOMAIN t.kids |-> Instance(t.kids[i], k)])

FileOf(t, k) == Write(t, Instance(t, k), LayoutOf(t), NoCells(t)).cells

\* The type reads a file with that row in it.
ReadsCase(k) == ReadsRows(type, released, FileOf(released, k), 1)

-----------------------------------------------------------------------------
(***************************************************************************)
(* Properties.                                                             *)
(***************************************************************************)

\* The probe has a row, and as many as it takes.
Probeable(t) == VariantSpan(t) \in 1 .. MaxProbeRows

\* What check_static approves is read, whatever its values: absent options,
\* long sequences, the ends of each range, every variant (compat.rs: "Two
\* passes, because neither settles the question alone").  A field renamed and
\* narrowed is the limit tests/compat.rs records.
ApprovedFilesRead ==
  static = "ok" /\ Probeable(released) /\ (Unnameable(type) => "retype" \notin allowed) =>
    \A k \in 0 .. Cases - 1 : ReadsCase(k)

\* A break that is reported is one: some row of the released type is refused
\* (compat.rs: "reports only what it can be sure of").
AlarmsAreReal ==
  {checked, static} \cap {"unreadable", "value dependent"} # {} =>
    \E k \in 0 .. Cases - 1 : ~ReadsCase(k)

RECURSIVE EnumNodes(_)
EnumNodes(node) ==
  (IF node.kind = "enum" THEN {node} ELSE {}) \union
  UNION {EnumNodes(node.kids[i]) : i \in DOMAIN node.kids}

HasNever(t) == \E node \in EnumNodes(t) : IsNever(node)

\* A probe holds every variant of every enum, however enums nest (compat.rs:
\* "every enum variant is written at least once"); sampling panics only on an
\* enum without variants.
EveryVariantProbed ==
  \E blob \in {ProbeBlob(type, ProbeRows(type))} :
    /\ blob.ok /\ VariantSpan(type) <= MaxProbeRows =>
         \A node \in EnumNodes(LayoutOf(type)) :
           ToSet(blob.cells[node.col]) = DOMAIN node.kids
    /\ ~blob.ok \/ "panicked" \in {checked, static} => HasNever(type) \/ HasNever(released)

\* check and check_static disagree only on a type that cannot be traced, and
\* then check_static is the one to believe: where check comes to no conclusion
\* there is a break, and where check approves there may be values refused, for
\* without a schema of its own the type is not compared (compat.rs: "Or the
\* type's own schema may be unavailable").
StaticDecides ==
  /\ static # "inconclusive"
  /\ checked # static =>
       /\ Unnameable(type)
       /\ \/ checked = "inconclusive" /\ static \in {"unreadable", "panicked"}
          \/ checked = "ok" /\ static = "value dependent"

=============================================================================
