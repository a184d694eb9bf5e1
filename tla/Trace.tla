------------------------------- MODULE Trace --------------------------------
(***************************************************************************)
(* Discovering a schema by tracing (src/trace.rs).  A type's Deserialize   *)
(* impl is run over and over with made-up values; each run shows one       *)
(* variant of every enum it meets, and what it shows is merged into what   *)
(* is known, until no variant is unexplored.                               *)
(*                                                                         *)
(* Types are module Layout's, with four kinds more, of which tracing must  *)
(* make something or nothing:                                              *)
(*                                                                         *)
(*   "bytes"   serialize_bytes: a leaf, like a string                      *)
(*   "shared"  Shared<T>                                                   *)
(*   "self"    the whole type again: the type is recursive                 *)
(*   "any"     deserialize_any                                             *)
(*   "fickle"  a hand-written impl that asks for one kid or the other      *)
(*                                                                         *)
(* What is known of a type is a tree of the same form, without attributes, *)
(* with a hole for each unexplored variant.  What stops a pass is a node   *)
(* of its tree, of one of the kinds in Problems.                           *)
(***************************************************************************)
EXTENDS Layout

CONSTANTS
  TracedTypes,    \* the types traced
  TraceDepth      \* schema::MAX_DEPTH

Leaves == {"prim", "str", "bytes", "unit"}
Problems == {"untraceable", "depth", "aliased", "mismatch"}

Hole == Type("hole", "", << >>, << >>)
Problem(kind, kids) == Type(kind, "", << >>, kids)

Shared(inner)  == Type("shared", "", << >>, <<inner>>)
ByteBuf        == Type("bytes", "", << >>, << >>)
Self           == Type("self", "", << >>, << >>)
Dynamic        == Type("any", "", << >>, << >>)
Fickle(x, y)   == Type("fickle", "", << >>, <<x, y>>)

VARIABLES
  type,      \* the type being traced
  merged,    \* what is known of it
  passes,    \* how many passes were made
  outcome    \* "tracing", "traced", or what was wrong

traceVars == <<type, merged, passes, outcome>>

-----------------------------------------------------------------------------
(***************************************************************************)
(* What is still unexplored.                                               *)
(***************************************************************************)

RECURSIVE Unexplored(_), CountVariants(_), FirstProblem(_)

\* Mutation: only an enum at hand is looked into.
Unexplored_Shallow(tree) ==
  \/ tree.kind = "hole"
  \/ tree.kind = "enum" /\ \E i \in DOMAIN tree.kids : tree.kids[i] = Hole

\* node_has_unexplored and variant_has_unexplored.
Unexplored(tree) ==
  tree.kind = "hole" \/ \E i \in DOMAIN tree.kids : Unexplored(tree.kids[i])

\* count_variants.
CountVariants(tree) ==
  FoldLeft(LAMBDA sum, kid : sum + CountVariants(kid),
           IF tree.kind = "enum" THEN Len(tree.kids) ELSE 0, tree.kids)

Either(problem, other) == IF problem # "" THEN problem ELSE other

\* The problem a pass meets first, "" if none.
FirstProblem(tree) ==
  Either(FoldLeft(LAMBDA first, kid : Either(first, FirstProblem(kid)), "", tree.kids),
         IF tree.kind \in Problems THEN tree.kind ELSE "")

-----------------------------------------------------------------------------
(***************************************************************************)
(* One pass: the type's Deserialize impl drives the Tracer.                *)
(***************************************************************************)

\* Mutation: only variants never seen are sought.
ChooseVariant_UnseenOnly(prior, count) ==
  LET unseen == SelectInSeq(prior.kids, LAMBDA kid : kid = Hole)
  IN  IF prior.kind # "enum" \/ Len(prior.kids) # count \/ unseen = 0 THEN 1 ELSE unseen

\* choose_variant: one never seen, else one with something unexplored below.
ChooseVariant(prior, count) ==
  LET unseen == SelectInSeq(prior.kids, LAMBDA kid : kid = Hole)
      unfinished == SelectInSeq(prior.kids, LAMBDA kid : Unexplored(kid))
  IN  CASE prior.kind # "enum" \/ Len(prior.kids) # count -> 1
        [] prior.kind = "enum" /\ Len(prior.kids) = count /\ unseen # 0 -> unseen
        [] OTHER -> IF unfinished = 0 THEN 1 ELSE unfinished

\* Priors::get and prior_variant: what is known of the i-th kid.
PriorOf(prior, t, i) ==
  IF prior.kind = t.kind /\ (prior.name = "") = (t.name = "") /\ i \in DOMAIN prior.kids
  THEN prior.kids[i]
  ELSE Hole

\* The names serde hands over: aliases are among them, unmarked.
Listed(t) ==
  FlattenSeq([i \in DOMAIN t.kids |-> <<t.names[i]>> \o SetToSeq(t.alias[i])])

\* The keys of a field's aliases are offered after its own, and refused.
Refusing(t, i, tree) == IF t.alias[i] = {} THEN tree ELSE Problem("aliased", <<tree>>)

Leaf(t) == Type(t.kind, t.name, << >>, << >>)

RECURSIVE TracePass(_, _, _, _, _), TraceKids(_, _, _, _, _), TraceEnum(_, _, _, _, _, _)

\* The kids of a node, traced at `depth`.
TraceKids(t, prior, depth, root, turn) ==
  Type(t.kind, t.name, t.names,
       [i \in DOMAIN t.kids |->
          Refusing(t, i, TracePass(t.kids[i], PriorOf(prior, t, i), depth, root, turn))])

\* deserialize_enum: the impl is steered to one of the variants listed, and
\* refuses an index it has no variant for.
TraceEnum(t, prior, depth, root, turn, chosen) ==
  IF chosen > Len(t.kids) THEN Problem("aliased", << >>)
  ELSE Type("enum", t.name, Listed(t),
            [i \in DOMAIN Listed(t) |->
               IF i # chosen THEN Hole
               ELSE TraceKids(t.kids[i], PriorOf(prior, t, i), depth, root, turn)])

\* Tracer's deserialize_* methods.
TracePass(t, prior, depth, root, turn) ==
  CASE t.kind \in Leaves -> Leaf(t)
    [] t.kind = "any" -> Problem("untraceable", << >>)
    [] t.kind = "self" -> TracePass(root, prior, depth, root, turn)
    [] t.kind = "fickle" -> TracePass(t.kids[turn], prior, depth, root, turn)
    [] t.kind \notin Leaves \union {"any", "self", "fickle"} /\ depth + 1 > TraceDepth ->
         Problem("depth", << >>)
    [] t.kind = "enum" /\ depth + 1 <= TraceDepth ->
         TraceEnum(t, prior, depth + 1, root, turn, ChooseVariant(prior, Len(Listed(t))))
    [] OTHER -> TraceKids(t, prior, depth + 1, root, turn)

-----------------------------------------------------------------------------
(***************************************************************************)
(* merge, merge_all and merge_variant.                                     *)
(***************************************************************************)

Alike(a, b) ==
  /\ a.kind = b.kind
  /\ a.name = b.name
  /\ a.names = b.names
  /\ Len(a.kids) = Len(b.kids)

RECURSIVE Merge(_, _)
Merge(a, b) ==
  CASE a = Hole -> b
    [] a # Hole /\ b = Hole -> a
    [] a # Hole /\ b # Hole /\ ~Alike(a, b) -> Problem("mismatch", << >>)
    [] OTHER -> [a EXCEPT !.kids = [i \in DOMAIN @ |-> Merge(@[i], b.kids[i])]]

-----------------------------------------------------------------------------
(***************************************************************************)
(* trace.                                                                  *)
(***************************************************************************)

TraceInit ==
  /\ type \in TracedTypes
  /\ merged = Hole
  /\ passes = 0
  /\ outcome = "tracing"

\* Mutation: a pass that fails is made again.
Stopped_Retries(problem) == UNCHANGED traceVars

Stopped(problem) ==
  /\ outcome' = IF problem = "depth" THEN "depth" ELSE "untraceable"
  /\ UNCHANGED <<type, merged, passes>>

\* Exploration did not converge.
GaveUp(tree) == passes + 1 > CountVariants(tree) + 1

Learn(tree) ==
  /\ merged' = tree
  /\ passes' = passes + 1
  /\ outcome' = IF ~Unexplored(tree) THEN "traced"
                ELSE IF GaveUp(tree) THEN "gave up" ELSE "tracing"
  /\ UNCHANGED type

\* One run of the type's Deserialize impl, merged into what is known.
Pass ==
  /\ outcome = "tracing"
  /\ \E turn \in {1, 2} :
       \E tree \in {TracePass(type, merged, 0, type, turn)} :
         IF FirstProblem(tree) # "" THEN Stopped(FirstProblem(tree))
         ELSE \E both \in {Merge(merged, tree)} :
                IF FirstProblem(both) # "" THEN Stopped(FirstProblem(both)) ELSE Learn(both)

TraceSpec == TraceInit /\ [][Pass]_traceVars /\ WF_traceVars(Pass)

-----------------------------------------------------------------------------
(***************************************************************************)
(* What #[derive(Schema)] and static_schema.rs give the same type.         *)
(***************************************************************************)

RECURSIVE SchemaOf(_), Within(_, _), Explored(_), Holds(_, _), Reaches(_, _)

\* The tree the derive builds: names as serde writes them, aliases left out.
NodeOver(t, kids) == Type(t.kind, t.name, t.names, kids)

\* StaticSchema::schema_node.
SchemaOf(t) ==
  IF t.kind \in Leaves THEN Leaf(t)
  ELSE NodeOver(t, [i \in DOMAIN t.kids |-> SchemaOf(t.kids[i])])

\* `tree` is `whole` with some variants unexplored.
Within(tree, whole) ==
  \/ tree = Hole
  \/ /\ Alike(tree, whole)
     /\ \A i \in DOMAIN tree.kids : Within(tree.kids[i], whole.kids[i])

\* The nodes known.
Explored(tree) ==
  FoldLeft(LAMBDA sum, kid : sum + Explored(kid), IF tree = Hole THEN 0 ELSE 1, tree.kids)

\* A node of that kind is somewhere in the type.
Holds(t, kind) == t.kind = kind \/ \E i \in DOMAIN t.kids : Holds(t.kids[i], kind)

\* Containers nest deeper than tracing goes; a variant's payload is no level.
Reaches(t, depth) ==
  /\ t.kind \notin Leaves
  /\ \/ depth >= TraceDepth
     \/ \E i \in DOMAIN t.kids :
          IF t.kind # "enum" THEN Reaches(t.kids[i], depth + 1)
          ELSE \E j \in DOMAIN t.kids[i].kids : Reaches(t.kids[i].kids[j], depth + 1)

-----------------------------------------------------------------------------
(***************************************************************************)
(* Properties.                                                             *)
(***************************************************************************)

\* Data-dependent types aside, what is known at any time is part of the schema
\* the derive gives the type, and tracing succeeds exactly on the types that
\* have one that names and depth allow (static_schema.rs: "A derived schema is
\* identical to what runtime tracing would discover").
TracedIsDerived ==
  ~Holds(type, "fickle") =>
    /\ Within(merged, SchemaOf(type)) \/ Holds(type, "self") \/ Unnameable(type)
    /\ outcome = "traced" => merged = SchemaOf(type) /\ ~Unnameable(type)
    /\ outcome \in {"untraceable", "depth"} =>
         Holds(type, "any") \/ Holds(type, "self") \/ Unnameable(type) \/ Reaches(type, 0)
    /\ outcome = "depth" => Holds(type, "self") \/ Reaches(type, 0)

\* Whatever a type asks for, pass after pass, each pass that does not end
\* tracing explores something: the bound on passes is never what stops it.
EveryPassExplores ==
  [][/\ merged' # merged => Explored(merged') > Explored(merged)
     /\ passes' # passes => merged' # merged
     /\ outcome' # "gave up"]_traceVars

=============================================================================
