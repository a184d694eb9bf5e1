------------------------------ MODULE Fallback ------------------------------
(***************************************************************************)
(* The process-wide registry of traced fallback types (src/fallback.rs):   *)
(* a memo behind a RwLock that any thread may reach at any time.  A miss   *)
(* traces the type outside the lock, because tracing runs the type's       *)
(* Deserialize impl, which may itself reach the registry for other types;  *)
(* threads that miss together race to insert.                              *)
(*                                                                         *)
(* An entry is <<type, thread, n>>: the n-th one that thread leaked for    *)
(* that type.                                                              *)
(***************************************************************************)
EXTENDS Naturals, Sequences, FiniteSets

CONSTANTS
  Thread,
  Type,
  NoEntry,      \* a type not in the registry
  NoThread,     \* nobody holds the write lock
  Untraceable,  \* types whose trace fails
  Reaches,      \* Reaches[T]: the types that tracing T asks the registry for
  Rank          \* how deep a type nests: a trace reaches types of lower rank only

\* A type whose trace reached itself would never finish tracing.
ASSUME FallbackAssumption ==
  /\ NoThread \notin Thread
  /\ NoEntry \notin Type \X Thread \X Nat
  /\ Untraceable \subseteq Type
  /\ Reaches \in [Type -> SUBSET Type]
  /\ Rank \in [Type -> Nat]
  /\ \A T \in Type : \A U \in Reaches[T] : Rank[U] < Rank[T]

VARIABLES
  registry,  \* the map: the leaked entry of each type traced
  writer,    \* who holds the write lock
  stack,     \* per thread, its calls to traced, a nested one last
  leaks,     \* how many entries each thread has leaked for each type
  answers    \* history: the <<type, entry>> pairs traced has returned

vars == <<registry, writer, stack, leaks, answers>>

Entry == Type \X Thread \X Nat

Call == [ type : Type,
          at : {"lookup", "trace", "insert", "inserting"},
          untraced : SUBSET Type,
          entry : Entry \union {NoEntry} ]

NewCall(T) == [type |-> T, at |-> "lookup", untraced |-> Reaches[T], entry |-> NoEntry]

Init ==
  /\ registry = [T \in Type |-> NoEntry]
  /\ writer = NoThread
  /\ stack = [t \in Thread |-> << >>]
  /\ leaks = [T \in Type |-> [t \in Thread |-> 0]]
  /\ answers = {}

Depth(t) == Len(stack[t])
Top(t) == stack[t][Depth(t)]
At(t, at) == Depth(t) > 0 /\ Top(t).at = at

SetTop(t, call) == stack' = [stack EXCEPT ![t][Depth(t)] = call]
Pop(t) == stack' = [stack EXCEPT ![t] = SubSeq(@, 1, Depth(t) - 1)]

-----------------------------------------------------------------------------
\* Generated code asks for a type's entry.
BeginCall(t, T) ==
  /\ Depth(t) = 0
  /\ stack' = [stack EXCEPT ![t] = <<NewCall(T)>>]
  /\ UNCHANGED <<registry, writer, leaks, answers>>

\* The read lock is held for the lookup alone.
Hit(t) ==
  /\ At(t, "lookup")
  /\ writer = NoThread
  /\ registry[Top(t).type] # NoEntry
  /\ answers' = answers \union {<<Top(t).type, registry[Top(t).type]>>}
  /\ Pop(t)
  /\ UNCHANGED <<registry, writer, leaks>>

\* Mutation: the lookup never hits.
Miss_Always(t) ==
  /\ At(t, "lookup")
  /\ writer = NoThread
  /\ SetTop(t, [Top(t) EXCEPT !.at = "trace"])
  /\ UNCHANGED <<registry, writer, leaks, answers>>

Miss(t) ==
  /\ At(t, "lookup")
  /\ writer = NoThread
  /\ registry[Top(t).type] = NoEntry
  /\ SetTop(t, [Top(t) EXCEPT !.at = "trace"])
  /\ UNCHANGED <<registry, writer, leaks, answers>>

\* The Deserialize impl being traced reaches the registry in its turn.
Reach(t, U) ==
  /\ At(t, "trace")
  /\ U \in Top(t).untraced
  /\ LET rest == [Top(t) EXCEPT !.untraced = @ \ {U}] IN
       stack' = [stack EXCEPT ![t] = Append([@ EXCEPT ![Depth(t)] = rest], NewCall(U))]
  /\ UNCHANGED <<registry, writer, leaks, answers>>

\* Mutation: the entry leaked is not carried to the insertion.
Traced_Drops(t) ==
  /\ At(t, "trace")
  /\ Top(t).untraced = {}
  /\ Top(t).type \notin Untraceable
  /\ leaks' = [leaks EXCEPT ![Top(t).type][t] = @ + 1]
  /\ SetTop(t, [Top(t) EXCEPT !.at = "insert"])
  /\ UNCHANGED <<registry, writer, answers>>

\* The trace succeeds: the entry is built and leaked, still outside the lock.
Traced(t) ==
  /\ At(t, "trace")
  /\ Top(t).untraced = {}
  /\ Top(t).type \notin Untraceable
  /\ LET T == Top(t).type IN
       /\ leaks' = [leaks EXCEPT ![T][t] = @ + 1]
       /\ SetTop(t, [Top(t) EXCEPT !.at = "insert", !.entry = <<T, t, leaks[T][t] + 1>>])
  /\ UNCHANGED <<registry, writer, answers>>

\* Mutations: a failed trace is retried, and a panic empties the registry.
TracePanics_Retries(t) ==
  /\ At(t, "trace")
  /\ Top(t).untraced = {}
  /\ Top(t).type \in Untraceable
  /\ SetTop(t, NewCall(Top(t).type))
  /\ UNCHANGED <<registry, writer, leaks, answers>>

TracePanics_Empties(t) ==
  /\ At(t, "trace")
  /\ Top(t).untraced = {}
  /\ Top(t).type \in Untraceable
  /\ registry' = [T \in Type |-> NoEntry]
  /\ stack' = [stack EXCEPT ![t] = << >>]
  /\ UNCHANGED <<writer, leaks, answers>>

\* The trace fails: the panic unwinds every call of this thread.
TracePanics(t) ==
  /\ At(t, "trace")
  /\ Top(t).untraced = {}
  /\ Top(t).type \in Untraceable
  /\ stack' = [stack EXCEPT ![t] = << >>]
  /\ UNCHANGED <<registry, writer, leaks, answers>>

LockForInsert(t) ==
  /\ At(t, "insert")
  /\ writer = NoThread
  /\ writer' = t
  /\ SetTop(t, [Top(t) EXCEPT !.at = "inserting"])
  /\ UNCHANGED <<registry, leaks, answers>>

\* Mutation: the last tracer wins.
Kept_Last(t) == Top(t).entry

\* or_insert: whichever entry landed first stays, and is what is returned.
Kept(t) ==
  IF registry[Top(t).type] = NoEntry THEN Top(t).entry ELSE registry[Top(t).type]

Insert(t) ==
  /\ At(t, "inserting")
  /\ registry' = [registry EXCEPT ![Top(t).type] = Kept(t)]
  /\ answers' = answers \union {<<Top(t).type, Kept(t)>>}
  /\ writer' = NoThread
  /\ Pop(t)
  /\ UNCHANGED leaks

Step(t) ==
  \/ Hit(t)
  \/ Miss(t)
  \/ \E U \in Type : Reach(t, U)
  \/ Traced(t)
  \/ TracePanics(t)
  \/ LockForInsert(t)
  \/ Insert(t)

Next == \E t \in Thread : Step(t) \/ \E T \in Type : BeginCall(t, T)

\* A thread inside traced keeps running: tracing terminates and the lock is
\* never held across a trace.
Spec == Init /\ [][Next]_vars /\ \A t \in Thread : WF_vars(Step(t))

-----------------------------------------------------------------------------
(***************************************************************************)
(* Properties.                                                             *)
(***************************************************************************)

\* The registry and the calls hold what their types hold, and a call past its
\* trace carries an entry for its own type.
TypeOK ==
  /\ registry \in [Type -> Entry \union {NoEntry}]
  /\ writer \in Thread \union {NoThread}
  /\ stack \in [Thread -> Seq(Call)]
  /\ leaks \in [Type -> [Thread -> Nat]]
  /\ answers \subseteq Type \X Entry
  /\ \A t \in Thread : \A i \in DOMAIN stack[t] :
       stack[t][i].at \in {"insert", "inserting"} =>
         stack[t][i].entry # NoEntry /\ stack[t][i].entry[1] = stack[t][i].type

\* "Every caller sees one identical layout": any two answers for a type, on any
\* threads, are the same entry, and it is the one in the registry.
EveryCallerSeesOneEntry ==
  \A a \in answers : a[2] = registry[a[1]]

\* An entry, once in the registry, is there for good: the &'static references
\* handed out stay the registry's.
EntriesAreForever ==
  [][\A T \in Type : registry[T] # NoEntry => registry'[T] = registry[T]]_vars

\* A thread leaks at most one entry per type: having traced it, it inserts
\* before it can look again.
OneLeakPerThread ==
  \A T \in Type, t \in Thread : leaks[T][t] <= 1

\* Every call returns or panics, tracing that reaches the registry included.
EveryCallEnds == \A t \in Thread : Depth(t) > 0 ~> Depth(t) = 0

=============================================================================
