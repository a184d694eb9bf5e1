--------------------------- MODULE FallbackProofs ---------------------------
(***************************************************************************)
(* Proofs about Fallback, for any set of threads and any (acyclic) set of  *)
(* types: one entry per type ever reaches a caller, and a thread leaks at  *)
(* most one.                                                               *)
(***************************************************************************)
EXTENDS Fallback, TLAPS

\* What an answer promises: it is the registry's entry.
Answered ==
  \A a \in answers : a[2] = registry[a[1]] /\ registry[a[1]] # NoEntry

\* Only the innermost call of a thread can be past its trace, and a nested call
\* is for a type of lower rank: no thread asks for a type it is tracing.
WellNested(s) ==
  /\ \A i \in 1 .. Len(s) : i # Len(s) => s[i].at = "trace"
  /\ \A i, j \in 1 .. Len(s) : i < j => Rank[s[j].type] < Rank[s[i].type]
  /\ \A i \in 1 .. Len(s) : s[i].untraced \subseteq Reaches[s[i].type]

\* A call past its trace carries an entry for its type (as TypeOK says).
Carries(s) ==
  \A i \in DOMAIN s :
    s[i].at \in {"insert", "inserting"} =>
      s[i].entry # NoEntry /\ s[i].entry[1] = s[i].type

Inserting(s, T) ==
  /\ Len(s) > 0
  /\ s[Len(s)].type = T
  /\ s[Len(s)].at \in {"insert", "inserting"}

Tracing(s, T) == \E i \in 1 .. Len(s) : s[i].type = T /\ s[i].at = "trace"

\* A thread that has leaked an entry for T is about to insert it or finds T in
\* the registry; while it traces T it has leaked none.
Leaked ==
  \A t \in Thread, T \in Type :
    /\ leaks[T][t] <= 1
    /\ leaks[T][t] = 1 => registry[T] # NoEntry \/ Inserting(stack[t], T)
    /\ Tracing(stack[t], T) => leaks[T][t] = 0

IInv ==
  /\ TypeOK
  /\ Answered
  /\ \A t \in Thread : WellNested(stack[t])
  /\ Leaked

-----------------------------------------------------------------------------
(***************************************************************************)
(* Stacks of calls: what replacing, pushing and popping the innermost call *)
(* preserves.                                                              *)
(***************************************************************************)

\* A fresh call is well typed and starts with a lookup.
LEMMA NewCallType ==
  ASSUME NEW T \in Type
  PROVE  /\ NewCall(T) \in Call
         /\ NewCall(T).type = T
         /\ NewCall(T).at = "lookup"
         /\ NewCall(T).untraced = Reaches[T]
  BY FallbackAssumption DEF NewCall, Call

\* Returning from the innermost call leaves the ones it is nested in, all of
\* them tracing.
LEMMA PopStack ==
  ASSUME NEW s \in Seq(Call), Len(s) > 0, WellNested(s), Carries(s)
  PROVE  LET r == SubSeq(s, 1, Len(s) - 1) IN
           /\ r \in Seq(Call) /\ WellNested(r) /\ Carries(r)
           /\ \A T : ~ Inserting(r, T)
           /\ \A T : Tracing(r, T) => Tracing(s, T)
  <1> DEFINE r == SubSeq(s, 1, Len(s) - 1)
  <1>1. /\ r \in Seq(Call)
        /\ Len(r) = Len(s) - 1
        /\ Len(s) \in Nat
        /\ \A i \in 1 .. Len(r) : r[i] = s[i]
    OBVIOUS
  <1>2. DOMAIN r = 1 .. Len(r) /\ DOMAIN s = 1 .. Len(s)
    BY <1>1
  <1> HIDE DEF r
  <1>3. \A i \in 1 .. Len(r) : i \in 1 .. Len(s) /\ i # Len(s) /\ r[i] = s[i]
    BY <1>1
  <1>4. WellNested(r)
    BY <1>3 DEF WellNested
  <1>5. Carries(r)
    BY <1>2, <1>3 DEF Carries
  <1>6. ASSUME NEW T PROVE ~ Inserting(r, T)
    <2>1. Len(r) > 0 => r[Len(r)].at = "trace"
      BY <1>1, <1>3 DEF WellNested
    <2> QED
      BY <2>1 DEF Inserting
  <1>7. ASSUME NEW T PROVE Tracing(r, T) => Tracing(s, T)
    BY <1>3 DEF Tracing
  <1> QED
    BY <1>1, <1>4, <1>5, <1>6, <1>7 DEF r

\* Moving the innermost call on, for the same type, disturbs no other.
LEMMA SetStack ==
  ASSUME NEW s \in Seq(Call), Len(s) > 0, WellNested(s), Carries(s),
         NEW c \in Call,
         c.type = s[Len(s)].type,
         c.untraced \subseteq s[Len(s)].untraced,
         c.at \in {"insert", "inserting"} => c.entry # NoEntry /\ c.entry[1] = c.type
  PROVE  LET r == [s EXCEPT ![Len(s)] = c] IN
           /\ r \in Seq(Call) /\ Len(r) = Len(s) /\ r[Len(r)] = c
           /\ \A i \in 1 .. Len(s) : i # Len(s) => r[i] = s[i]
           /\ WellNested(r) /\ Carries(r)
  <1> DEFINE r == [s EXCEPT ![Len(s)] = c]
  <1>1. /\ r \in Seq(Call)
        /\ Len(r) = Len(s)
        /\ Len(s) \in Nat
        /\ r[Len(s)] = c
        /\ \A i \in 1 .. Len(s) : i # Len(s) => r[i] = s[i]
    OBVIOUS
  <1>2. DOMAIN r = 1 .. Len(s) /\ DOMAIN s = 1 .. Len(s) /\ Len(s) \in 1 .. Len(s)
    BY <1>1
  <1> HIDE DEF r
  <1>3. \A i \in 1 .. Len(s) :
          r[i].type = s[i].type /\ r[i].untraced \subseteq s[i].untraced
    BY <1>1
  <1>4. WellNested(r)
    BY <1>1, <1>3 DEF WellNested
  <1>5. Carries(r)
    BY <1>1, <1>2 DEF Carries
  <1> QED
    BY <1>1, <1>4, <1>5 DEF r

\* A trace reaches types of lower rank: the call it starts nests.
LEMMA PushStack ==
  ASSUME NEW s \in Seq(Call), Len(s) > 0, WellNested(s), Carries(s),
         s[Len(s)].at = "trace",
         NEW U \in Type, U \in s[Len(s)].untraced
  PROVE  LET rest == [s[Len(s)] EXCEPT !.untraced = @ \ {U}]
             r == Append([s EXCEPT ![Len(s)] = rest], NewCall(U)) IN
           /\ r \in Seq(Call) /\ WellNested(r) /\ Carries(r)
           /\ \A T : ~ Inserting(r, T)
           /\ \A T : Tracing(r, T) => Tracing(s, T)
  <1> DEFINE c == [s[Len(s)] EXCEPT !.untraced = @ \ {U}]
             q == [s EXCEPT ![Len(s)] = c]
             r == Append(q, NewCall(U))
  <1>1. Len(s) \in Nat /\ Len(s) \in 1 .. Len(s) /\ s[Len(s)] \in Call
    OBVIOUS
  <1>2. /\ c \in Call
        /\ c.type = s[Len(s)].type
        /\ c.at = "trace"
        /\ c.untraced \subseteq s[Len(s)].untraced
    BY <1>1 DEF Call
  <1>3. /\ q \in Seq(Call) /\ Len(q) = Len(s) /\ q[Len(q)] = c
        /\ \A i \in 1 .. Len(s) : i # Len(s) => q[i] = s[i]
        /\ WellNested(q) /\ Carries(q)
    <2> HIDE DEF c
    <2> QED
      BY <1>2, SetStack
  <1> HIDE DEF c, q
  <1>5. /\ r \in Seq(Call)
        /\ Len(r) = Len(q) + 1
        /\ r[Len(q) + 1] = NewCall(U)
        /\ \A i \in 1 .. Len(q) : r[i] = q[i]
    BY <1>3, NewCallType
  <1>6. DOMAIN r = 1 .. Len(r) /\ DOMAIN q = 1 .. Len(q) /\ Len(q) \in Nat
    BY <1>3, <1>5
  <1> HIDE DEF r
  <1>7. \A i \in 1 .. Len(q) : q[i].at = "trace" /\ q[i].type = s[i].type
    BY <1>1, <1>2, <1>3 DEF WellNested
  <1>8. \A i \in 1 .. Len(q) : Rank[U] < Rank[q[i].type]
    <2>1. U \in Reaches[q[Len(q)].type]
      BY <1>1, <1>2, <1>3 DEF WellNested
    <2>2. /\ q[Len(q)].type \in Type
          /\ Rank[U] \in Nat
          /\ \A i \in 1 .. Len(q) : Rank[q[i].type] \in Nat
      <3>1. \A i \in 1 .. Len(q) : q[i] \in Call
        BY <1>3
      <3>2. \A i \in 1 .. Len(q) : q[i].type \in Type
        BY <3>1 DEF Call
      <3>3. Len(q) \in 1 .. Len(q)
        BY <1>1, <1>3
      <3> QED
        BY <3>2, <3>3, FallbackAssumption
    <2>3. Rank[U] < Rank[q[Len(q)].type]
      BY <2>1, <2>2, FallbackAssumption
    <2>4. \A i \in 1 .. Len(q) : i # Len(q) => Rank[q[Len(q)].type] < Rank[q[i].type]
      BY <1>1, <1>3 DEF WellNested
    <2> QED
      BY <1>1, <1>3, <2>2, <2>3, <2>4
  <1>9. WellNested(r)
    <2>1. \A i \in 1 .. Len(r) : i # Len(r) => r[i].at = "trace"
      BY <1>5, <1>6, <1>7
    <2>2. \A i, j \in 1 .. Len(r) : i < j => Rank[r[j].type] < Rank[r[i].type]
      <3> SUFFICES ASSUME NEW i \in 1 .. Len(r), NEW j \in 1 .. Len(r), i < j
                   PROVE  Rank[r[j].type] < Rank[r[i].type]
        OBVIOUS
      <3>1. i \in 1 .. Len(q) /\ r[i] = q[i]
        BY <1>5, <1>6
      <3>2. CASE j = Len(r)
        BY <1>5, <1>8, <3>1, <3>2, NewCallType
      <3>3. CASE j # Len(r)
        <4>1. j \in 1 .. Len(q) /\ r[j] = q[j]
          BY <1>5, <1>6, <3>3
        <4> QED
          BY <1>3, <3>1, <4>1 DEF WellNested
      <3> QED
        BY <3>2, <3>3
    <2>3. \A i \in 1 .. Len(r) : r[i].untraced \subseteq Reaches[r[i].type]
      <3> SUFFICES ASSUME NEW i \in 1 .. Len(r)
                   PROVE  r[i].untraced \subseteq Reaches[r[i].type]
        OBVIOUS
      <3>1. CASE i = Len(r)
        BY <1>5, <3>1, NewCallType
      <3>2. CASE i # Len(r)
        <4>1. i \in 1 .. Len(q) /\ r[i] = q[i]
          BY <1>5, <1>6, <3>2
        <4> QED
          BY <1>3, <4>1 DEF WellNested
      <3> QED
        BY <3>1, <3>2
    <2> QED
      BY <2>1, <2>2, <2>3 DEF WellNested
  <1>10. Carries(r)
    <2>1. \A i \in 1 .. Len(r) : r[i].at \notin {"insert", "inserting"}
      BY <1>5, <1>6, <1>7, NewCallType
    <2> QED
      BY <1>6, <2>1 DEF Carries
  <1>11. ASSUME NEW T PROVE ~ Inserting(r, T)
    BY <1>5, NewCallType DEF Inserting
  <1>12. ASSUME NEW T, Tracing(r, T) PROVE Tracing(s, T)
    <2>1. PICK i \in 1 .. Len(r) : r[i].type = T /\ r[i].at = "trace"
      BY <1>12 DEF Tracing
    <2>2. i \in 1 .. Len(q)
      BY <1>5, <1>6, <2>1, NewCallType
    <2>3. s[i].type = T /\ s[i].at = "trace"
      BY <1>3, <1>5, <1>7, <2>1, <2>2 DEF WellNested
    <2> QED
      BY <1>3, <2>2, <2>3 DEF Tracing
  <1> QED
    BY <1>5, <1>9, <1>10, <1>11, <1>12 DEF r, q, c

-----------------------------------------------------------------------------
(***************************************************************************)
(* The invariant is inductive.                                             *)
(***************************************************************************)

LEMMA InitIInv == Init => IInv
  <1> SUFFICES ASSUME Init PROVE IInv
    OBVIOUS
  <1>1. \A t \in Thread : stack[t] = << >> /\ Len(stack[t]) = 0
    BY DEF Init
  <1>2. TypeOK
    BY FallbackAssumption DEF Init, TypeOK
  <1>3. Answered
    BY DEF Init, Answered
  <1>4. \A t \in Thread : WellNested(stack[t])
    BY <1>1 DEF WellNested
  <1>5. Leaked
    BY <1>1 DEF Init, Leaked
  <1> QED
    BY <1>2, <1>3, <1>4, <1>5 DEF IInv

\* The innermost call of a thread, under the invariant.
LEMMA TopIsCall ==
  ASSUME IInv, NEW t \in Thread
  PROVE  /\ stack[t] \in Seq(Call)
         /\ Depth(t) = Len(stack[t])
         /\ WellNested(stack[t])
         /\ Carries(stack[t])
         /\ Depth(t) > 0 =>
              /\ Len(stack[t]) \in 1 .. Len(stack[t])
              /\ Top(t) = stack[t][Len(stack[t])]
              /\ Top(t) \in Call
              /\ Top(t).type \in Type
              /\ Top(t).at = "trace" => Tracing(stack[t], Top(t).type)
              /\ Top(t).at \in {"insert", "inserting"} =>
                   Top(t).entry \in Entry /\ Top(t).entry[1] = Top(t).type
  <1>1. stack[t] \in Seq(Call) /\ Depth(t) = Len(stack[t])
    BY DEF IInv, TypeOK, Depth
  <1>2. WellNested(stack[t]) /\ Carries(stack[t])
    BY DEF IInv, TypeOK, Carries
  <1>3. ASSUME Depth(t) > 0
        PROVE  /\ Len(stack[t]) \in 1 .. Len(stack[t])
               /\ Top(t) = stack[t][Len(stack[t])]
               /\ Top(t) \in Call
    BY <1>1, <1>3 DEF Top
  <1>4. ASSUME Depth(t) > 0
        PROVE  Top(t).type \in Type /\ Top(t).entry \in Entry \union {NoEntry}
    BY <1>3, <1>4 DEF Call
  <1>5. ASSUME Depth(t) > 0, Top(t).at = "trace"
        PROVE  Tracing(stack[t], Top(t).type)
    BY <1>3, <1>5 DEF Tracing
  <1>6. ASSUME Depth(t) > 0, Top(t).at \in {"insert", "inserting"}
        PROVE  Top(t).entry \in Entry /\ Top(t).entry[1] = Top(t).type
    <2>1. Len(stack[t]) \in DOMAIN stack[t]
      BY <1>1, <1>3, <1>6
    <2> QED
      BY <1>2, <1>3, <1>4, <1>6, <2>1 DEF Carries
  <1> QED
    BY <1>1, <1>2, <1>3, <1>4, <1>5, <1>6

\* An action that changes one thread's stack to r keeps all stacks well formed.
LEMMA OneStack ==
  ASSUME IInv, NEW t \in Thread, NEW r \in Seq(Call), WellNested(r), Carries(r),
         stack' = [stack EXCEPT ![t] = r]
  PROVE  /\ stack' \in [Thread -> Seq(Call)]
         /\ stack'[t] = r
         /\ \A u \in Thread : u # t => stack'[u] = stack[u]
         /\ \A u \in Thread : WellNested(stack'[u])
         /\ \A u \in Thread : Carries(stack'[u])
         /\ \A u \in Thread : \A i \in DOMAIN stack'[u] :
              stack'[u][i].at \in {"insert", "inserting"} =>
                stack'[u][i].entry # NoEntry /\ stack'[u][i].entry[1] = stack'[u][i].type
  <1>1. /\ stack' \in [Thread -> Seq(Call)]
        /\ stack'[t] = r
        /\ \A u \in Thread : u # t => stack'[u] = stack[u]
    BY DEF IInv, TypeOK
  <1>2. \A u \in Thread : WellNested(stack'[u])
    BY <1>1 DEF IInv
  <1>3. \A u \in Thread : Carries(stack'[u])
    BY <1>1, TopIsCall
  <1> QED
    BY <1>1, <1>2, <1>3 DEF Carries

\* When nothing is leaked and no entry leaves the registry, it is enough that
\* the one stack that changes neither stops inserting nor starts tracing.
LEMMA LeakedKept ==
  ASSUME IInv, NEW t \in Thread,
         UNCHANGED leaks,
         \A T \in Type : registry[T] # NoEntry => registry'[T] # NoEntry,
         \A u \in Thread : u # t => stack'[u] = stack[u],
         \A T \in Type : Inserting(stack[t], T) =>
            registry'[T] # NoEntry \/ Inserting(stack'[t], T),
         \A T \in Type : Tracing(stack'[t], T) =>
            Tracing(stack[t], T) \/ leaks[T][t] = 0
  PROVE  Leaked'
  <1> SUFFICES ASSUME NEW u \in Thread, NEW T \in Type
               PROVE  /\ leaks[T][u] <= 1
                      /\ leaks[T][u] = 1 => registry'[T] # NoEntry \/ Inserting(stack'[u], T)
                      /\ Tracing(stack'[u], T) => leaks[T][u] = 0
    BY DEF Leaked, Inserting, Tracing
  <1>1. CASE u = t
    BY <1>1 DEF IInv, Leaked
  <1>2. CASE u # t
    BY <1>2 DEF IInv, Leaked
  <1> QED
    BY <1>1, <1>2

LEMMA BeginCallIInv ==
  ASSUME IInv, NEW t \in Thread, NEW T \in Type, BeginCall(t, T)
  PROVE  IInv'
  <1> DEFINE r == <<NewCall(T)>>
  <1>1. r \in Seq(Call) /\ Len(r) = 1 /\ r[1] = NewCall(T) /\ DOMAIN r = {1}
    BY NewCallType
  <1> HIDE DEF r
  <1>2. WellNested(r) /\ Carries(r)
    BY <1>1, NewCallType DEF WellNested, Carries
  <1>3. \A S : ~ Inserting(r, S) /\ ~ Tracing(r, S)
    BY <1>1, NewCallType DEF Inserting, Tracing
  <1>4. stack' = [stack EXCEPT ![t] = r]
    BY DEF BeginCall, r
  <1>5. \A S : ~ Inserting(stack[t], S)
    BY TopIsCall DEF BeginCall, Inserting
  <1>6. TypeOK'
    BY <1>1, <1>2, <1>4, OneStack DEF BeginCall, IInv, TypeOK
  <1>7. Answered'
    BY DEF BeginCall, IInv, Answered
  <1>8. Leaked'
    BY <1>1, <1>2, <1>3, <1>4, <1>5, OneStack, LeakedKept DEF BeginCall
  <1> QED
    BY <1>1, <1>2, <1>4, <1>6, <1>7, <1>8, OneStack DEF IInv

LEMMA HitIInv ==
  ASSUME IInv, NEW t \in Thread, Hit(t)
  PROVE  IInv'
  <1> DEFINE r == SubSeq(stack[t], 1, Len(stack[t]) - 1)
  <1>1. /\ Depth(t) > 0 /\ Top(t).at = "lookup"
        /\ stack' = [stack EXCEPT ![t] = r]
    BY TopIsCall DEF Hit, At, Pop
  <1>2. /\ r \in Seq(Call) /\ WellNested(r) /\ Carries(r)
        /\ \A T : ~ Inserting(r, T)
        /\ \A T : Tracing(r, T) => Tracing(stack[t], T)
    BY <1>1, TopIsCall, PopStack
  <1> HIDE DEF r
  <1>3. \A T : ~ Inserting(stack[t], T)
    BY <1>1, TopIsCall DEF Inserting
  <1>4. answers' \subseteq Type \X Entry
    BY <1>1, TopIsCall DEF Hit, IInv, TypeOK
  <1>5. TypeOK'
    BY <1>1, <1>2, <1>4, OneStack DEF Hit, IInv, TypeOK
  <1>6. Answered'
    BY DEF Hit, IInv, Answered
  <1>7. Leaked'
    BY <1>1, <1>2, <1>3, OneStack, LeakedKept DEF Hit
  <1> QED
    BY <1>1, <1>2, <1>5, <1>6, <1>7, OneStack DEF IInv

LEMMA MissIInv ==
  ASSUME IInv, NEW t \in Thread, Miss(t)
  PROVE  IInv'
  <1> DEFINE c == [Top(t) EXCEPT !.at = "trace"]
             r == [stack[t] EXCEPT ![Len(stack[t])] = c]
  <1>1. /\ Depth(t) > 0 /\ Top(t).at = "lookup"
        /\ stack' = [stack EXCEPT ![t][Depth(t)] = c]
        /\ registry[Top(t).type] = NoEntry
    BY DEF Miss, At, SetTop
  <1>2. stack' = [stack EXCEPT ![t] = r]
    BY <1>1, TopIsCall DEF IInv, TypeOK
  <1>3. /\ c \in Call
        /\ c.type = Top(t).type
        /\ c.untraced = Top(t).untraced
        /\ c.at = "trace"
    BY <1>1, TopIsCall DEF Call
  <1> HIDE DEF c
  <1>4. /\ r \in Seq(Call) /\ Len(r) = Len(stack[t]) /\ r[Len(r)] = c
        /\ \A i \in 1 .. Len(stack[t]) : i # Len(stack[t]) => r[i] = stack[t][i]
        /\ WellNested(r) /\ Carries(r)
    BY <1>1, <1>3, TopIsCall, SetStack
  <1> HIDE DEF r
  <1>5. \A T : ~ Inserting(stack[t], T)
    BY <1>1, TopIsCall DEF Inserting
  <1>6. ASSUME NEW T \in Type, Tracing(r, T)
        PROVE  Tracing(stack[t], T) \/ leaks[T][t] = 0
    <2>1. CASE T = Top(t).type
      <3>1. leaks[T][t] \in Nat
        BY DEF IInv, TypeOK
      <3>2. leaks[T][t] <= 1 /\ leaks[T][t] # 1
        BY <1>1, <1>5, <2>1 DEF IInv, Leaked
      <3> QED
        BY <3>1, <3>2
    <2>2. CASE T # Top(t).type
      BY <1>3, <1>4, <1>6, <2>2 DEF Tracing
    <2> QED
      BY <2>1, <2>2
  <1>7. TypeOK'
    BY <1>2, <1>4, OneStack DEF Miss, IInv, TypeOK
  <1>8. Answered'
    BY DEF Miss, IInv, Answered
  <1>9. Leaked'
    BY <1>2, <1>4, <1>5, <1>6, OneStack, LeakedKept DEF Miss
  <1> QED
    BY <1>2, <1>4, <1>7, <1>8, <1>9, OneStack DEF IInv

LEMMA ReachIInv ==
  ASSUME IInv, NEW t \in Thread, NEW U \in Type, Reach(t, U)
  PROVE  IInv'
  <1> DEFINE rest == [Top(t) EXCEPT !.untraced = @ \ {U}]
             r == Append([stack[t] EXCEPT ![Len(stack[t])] = rest], NewCall(U))
  <1>1. /\ Depth(t) > 0 /\ Top(t).at = "trace"
        /\ U \in Top(t).untraced
    BY DEF Reach, At
  <1>2. stack' = [stack EXCEPT ![t] = r]
    BY <1>1, TopIsCall DEF Reach, IInv, TypeOK
  <1>3. /\ r \in Seq(Call) /\ WellNested(r) /\ Carries(r)
        /\ \A T : ~ Inserting(r, T)
        /\ \A T : Tracing(r, T) => Tracing(stack[t], T)
    BY <1>1, TopIsCall, PushStack
  <1> HIDE DEF r
  <1>4. \A T : ~ Inserting(stack[t], T)
    BY <1>1, TopIsCall DEF Inserting
  <1>5. TypeOK'
    BY <1>2, <1>3, OneStack DEF Reach, IInv, TypeOK
  <1>6. Answered'
    BY DEF Reach, IInv, Answered
  <1>7. Leaked'
    <2>1. UNCHANGED leaks /\ UNCHANGED registry
      BY DEF Reach
    <2> QED
      BY <1>2, <1>3, <1>4, <2>1, OneStack, LeakedKept
  <1> QED
    BY <1>2, <1>3, <1>5, <1>6, <1>7, OneStack DEF IInv

LEMMA TracedIInv ==
  ASSUME IInv, NEW t \in Thread, Traced(t)
  PROVE  IInv'
  <1> DEFINE S == Top(t).type
             e == <<S, t, leaks[S][t] + 1>>
             c == [Top(t) EXCEPT !.at = "insert", !.entry = e]
             r == [stack[t] EXCEPT ![Len(stack[t])] = c]
  <1>1. /\ Depth(t) > 0 /\ Top(t).at = "trace"
        /\ stack' = [stack EXCEPT ![t][Depth(t)] = c]
        /\ leaks' = [leaks EXCEPT ![S][t] = @ + 1]
    BY DEF Traced, At, SetTop
  <1>2. stack' = [stack EXCEPT ![t] = r]
    BY <1>1, TopIsCall DEF IInv, TypeOK
  <1>3. S \in Type /\ e \in Entry /\ e # NoEntry /\ e[1] = S
    <2>1. S \in Type
      BY <1>1, TopIsCall
    <2>2. leaks[S][t] \in Nat
      BY <2>1 DEF IInv, TypeOK
    <2>3. e \in Entry
      BY <2>1, <2>2 DEF Entry
    <2> QED
      BY <2>1, <2>3, FallbackAssumption DEF Entry
  <1>4. /\ c \in Call
        /\ c.type = S
        /\ c.untraced = Top(t).untraced
        /\ c.at = "insert"
        /\ c.entry = e
    <2> HIDE DEF e
    <2> QED
      BY <1>1, <1>3, TopIsCall DEF Call
  <1>5. leaks[S][t] = 0
    BY <1>1, <1>3, TopIsCall DEF IInv, Leaked
  <1> HIDE DEF c, e, S
  <1>6. /\ r \in Seq(Call) /\ Len(r) = Len(stack[t]) /\ r[Len(r)] = c
        /\ \A i \in 1 .. Len(stack[t]) : i # Len(stack[t]) => r[i] = stack[t][i]
        /\ WellNested(r) /\ Carries(r)
    BY <1>1, <1>3, <1>4, TopIsCall, SetStack DEF S
  <1> HIDE DEF r
  <1>7. Inserting(r, S)
    BY <1>1, <1>4, <1>6, TopIsCall DEF Inserting
  <1>8. \A T : ~ Inserting(stack[t], T)
    BY <1>1, TopIsCall DEF Inserting
  <1>9. \A T : Tracing(r, T) => Tracing(stack[t], T)
    BY <1>4, <1>6 DEF Tracing
  <1>10. ~ Tracing(r, S)
    <2> SUFFICES ASSUME NEW i \in 1 .. Len(r), r[i].type = S, r[i].at = "trace"
                 PROVE  FALSE
      BY DEF Tracing
    <2>1. i # Len(r)
      BY <1>4, <1>6
    <2>2. i < Len(r) /\ Len(r) \in 1 .. Len(r) /\ r[Len(r)].type = S
      BY <1>1, <1>4, <1>6, <2>1, TopIsCall
    <2>3. Rank[S] < Rank[S]
      BY <1>6, <2>2 DEF WellNested
    <2>4. Rank[S] \in Nat
      BY <1>3, FallbackAssumption
    <2> QED
      BY <2>3, <2>4
  <1>11. /\ leaks' \in [Type -> [Thread -> Nat]]
         /\ leaks'[S][t] = 1
         /\ \A u \in Thread, T \in Type : u # t \/ T # S => leaks'[T][u] = leaks[T][u]
    BY <1>1, <1>3, <1>5 DEF IInv, TypeOK
  <1>12. TypeOK'
    BY <1>2, <1>6, <1>11, OneStack DEF Traced, IInv, TypeOK
  <1>13. Answered'
    BY DEF Traced, IInv, Answered
  <1>14. Leaked'
    <2>1. registry' = registry
      BY DEF Traced
    <2> SUFFICES ASSUME NEW u \in Thread, NEW T \in Type
                 PROVE  /\ leaks'[T][u] <= 1
                        /\ leaks'[T][u] = 1 => registry[T] # NoEntry \/ Inserting(stack'[u], T)
                        /\ Tracing(stack'[u], T) => leaks'[T][u] = 0
      BY <2>1 DEF Leaked, Inserting, Tracing
    <2>2. /\ stack'[t] = r
          /\ \A v \in Thread : v # t => stack'[v] = stack[v]
      BY <1>2, <1>6, OneStack
    <2>3. CASE u = t /\ T = S
      BY <1>7, <1>10, <1>11, <2>2, <2>3
    <2>4. CASE u = t /\ T # S
      BY <1>8, <1>9, <1>11, <2>2, <2>4 DEF IInv, Leaked
    <2>5. CASE u # t
      BY <1>11, <2>2, <2>5 DEF IInv, Leaked
    <2> QED
      BY <2>3, <2>4, <2>5
  <1> QED
    BY <1>2, <1>6, <1>12, <1>13, <1>14, OneStack DEF IInv

LEMMA TracePanicsIInv ==
  ASSUME IInv, NEW t \in Thread, TracePanics(t)
  PROVE  IInv'
  <1> DEFINE r == << >>
  <1>1. Depth(t) > 0 /\ Top(t).at = "trace" /\ stack' = [stack EXCEPT ![t] = r]
    BY DEF TracePanics, At
  <1>2. r \in Seq(Call) /\ Len(r) = 0 /\ DOMAIN r = {}
    OBVIOUS
  <1> HIDE DEF r
  <1>3. WellNested(r) /\ Carries(r) /\ \A T : ~ Tracing(r, T)
    BY <1>2 DEF WellNested, Carries, Tracing
  <1>4. \A T : ~ Inserting(stack[t], T)
    BY <1>1, TopIsCall DEF Inserting
  <1>5. TypeOK'
    BY <1>1, <1>2, <1>3, OneStack DEF TracePanics, IInv, TypeOK
  <1>6. Answered'
    BY DEF TracePanics, IInv, Answered
  <1>7. Leaked'
    BY <1>1, <1>2, <1>3, <1>4, OneStack, LeakedKept DEF TracePanics
  <1> QED
    BY <1>1, <1>2, <1>3, <1>5, <1>6, <1>7, OneStack DEF IInv

LEMMA LockForInsertIInv ==
  ASSUME IInv, NEW t \in Thread, LockForInsert(t)
  PROVE  IInv'
  <1> DEFINE c == [Top(t) EXCEPT !.at = "inserting"]
             r == [stack[t] EXCEPT ![Len(stack[t])] = c]
  <1>1. /\ Depth(t) > 0 /\ Top(t).at = "insert"
        /\ stack' = [stack EXCEPT ![t][Depth(t)] = c]
    BY DEF LockForInsert, At, SetTop
  <1>2. stack' = [stack EXCEPT ![t] = r]
    BY <1>1, TopIsCall DEF IInv, TypeOK
  <1>3. /\ c \in Call
        /\ c.type = Top(t).type
        /\ c.untraced = Top(t).untraced
        /\ c.at = "inserting"
        /\ c.entry = Top(t).entry
    BY <1>1, TopIsCall DEF Call
  <1>4. c.entry # NoEntry /\ c.entry[1] = c.type
    BY <1>1, <1>3, TopIsCall, FallbackAssumption DEF Entry
  <1> HIDE DEF c
  <1>5. /\ r \in Seq(Call) /\ Len(r) = Len(stack[t]) /\ r[Len(r)] = c
        /\ \A i \in 1 .. Len(stack[t]) : i # Len(stack[t]) => r[i] = stack[t][i]
        /\ WellNested(r) /\ Carries(r)
    BY <1>1, <1>3, <1>4, TopIsCall, SetStack
  <1> HIDE DEF r
  <1>6. \A T : Inserting(stack[t], T) => Inserting(r, T)
    BY <1>1, <1>3, <1>5, TopIsCall DEF Inserting
  <1>7. \A T : Tracing(r, T) => Tracing(stack[t], T)
    BY <1>3, <1>5 DEF Tracing
  <1>8. TypeOK'
    BY <1>2, <1>5, OneStack DEF LockForInsert, IInv, TypeOK
  <1>9. Answered'
    BY DEF LockForInsert, IInv, Answered
  <1>10. Leaked'
    BY <1>2, <1>5, <1>6, <1>7, OneStack, LeakedKept DEF LockForInsert
  <1> QED
    BY <1>2, <1>5, <1>8, <1>9, <1>10, OneStack DEF IInv

LEMMA InsertIInv ==
  ASSUME IInv, NEW t \in Thread, Insert(t)
  PROVE  IInv'
  <1> DEFINE S == Top(t).type
             r == SubSeq(stack[t], 1, Len(stack[t]) - 1)
  <1>1. /\ Depth(t) > 0 /\ Top(t).at = "inserting"
        /\ stack' = [stack EXCEPT ![t] = r]
    BY TopIsCall DEF Insert, At, Pop
  <1>2. /\ r \in Seq(Call) /\ WellNested(r) /\ Carries(r)
        /\ \A T : Tracing(r, T) => Tracing(stack[t], T)
    BY <1>1, TopIsCall, PopStack
  <1> HIDE DEF r
  <1>3. S \in Type
    BY <1>1, TopIsCall
  <1>4. Kept(t) \in Entry /\ Kept(t) # NoEntry
    <2>1. Top(t).entry \in Entry
      BY <1>1, TopIsCall
    <2>2. registry[S] \in Entry \union {NoEntry}
      BY <1>3 DEF IInv, TypeOK
    <2>3. Kept(t) \in Entry
      BY <2>1, <2>2 DEF Kept
    <2> QED
      BY <2>3, FallbackAssumption DEF Entry
  <1>5. /\ registry' \in [Type -> Entry \union {NoEntry}]
        /\ registry'[S] = Kept(t)
        /\ registry[S] # NoEntry => Kept(t) = registry[S]
        /\ \A T \in Type : T # S => registry'[T] = registry[T]
    BY <1>3, <1>4 DEF Insert, IInv, TypeOK, Kept
  <1>6. answers' = answers \union {<<S, Kept(t)>>}
    BY DEF Insert
  <1>7. TypeOK'
    <2>1. answers' \subseteq Type \X Entry
      BY <1>3, <1>4, <1>6 DEF IInv, TypeOK
    <2>2. writer' \in Thread \union {NoThread} /\ leaks' \in [Type -> [Thread -> Nat]]
      BY DEF Insert, IInv, TypeOK
    <2> QED
      BY <1>1, <1>2, <1>5, <2>1, <2>2, OneStack DEF TypeOK
  <1>8. Answered'
    <2> SUFFICES ASSUME NEW a \in answers'
                 PROVE  a[2] = registry'[a[1]] /\ registry'[a[1]] # NoEntry
      BY DEF Answered
    <2>1. CASE a = <<S, Kept(t)>>
      BY <1>4, <1>5, <2>1
    <2>2. CASE a \in answers
      <3>1. a[1] \in Type /\ a[2] = registry[a[1]] /\ registry[a[1]] # NoEntry
        BY <2>2 DEF IInv, TypeOK, Answered
      <3> QED
        BY <1>5, <3>1
    <2> QED
      BY <1>6, <2>1, <2>2
  <1>9. \A T : Inserting(stack[t], T) => T = S
    BY <1>1, TopIsCall DEF Inserting
  <1>10. \A T \in Type : registry[T] # NoEntry => registry'[T] # NoEntry
    BY <1>4, <1>5
  <1>11. Leaked'
    BY <1>1, <1>2, <1>4, <1>5, <1>9, <1>10, OneStack, LeakedKept DEF Insert
  <1> QED
    BY <1>1, <1>2, <1>7, <1>8, <1>11, OneStack DEF IInv

LEMMA NextIInv == IInv /\ [Next]_vars => IInv'
  <1> SUFFICES ASSUME IInv, [Next]_vars PROVE IInv'
    OBVIOUS
  <1>1. CASE UNCHANGED vars
    BY <1>1 DEF vars, IInv, TypeOK, Answered, WellNested, Leaked, Inserting, Tracing
  <1>2. ASSUME NEW t \in Thread, NEW T \in Type, BeginCall(t, T) PROVE IInv'
    BY <1>2, BeginCallIInv
  <1>3. ASSUME NEW t \in Thread, Step(t) PROVE IInv'
    BY <1>3, HitIInv, MissIInv, ReachIInv, TracedIInv, TracePanicsIInv,
       LockForInsertIInv, InsertIInv DEF Step
  <1> QED
    BY <1>1, <1>2, <1>3 DEF Next

-----------------------------------------------------------------------------
LEMMA Invariance == Spec => []IInv
  BY InitIInv, NextIInv, PTL DEF Spec

\* The types of the registry's state, on every thread.
THEOREM TypeCorrect == Spec => []TypeOK
  BY Invariance, PTL DEF IInv

\* However threads race, every answer traced has given for a type is the entry
\* the registry holds: one layout per type.
THEOREM OneEntry == Spec => []EveryCallerSeesOneEntry
  <1>1. IInv => EveryCallerSeesOneEntry
    BY DEF IInv, Answered, EveryCallerSeesOneEntry
  <1> QED
    BY <1>1, Invariance, PTL

\* The leak is bounded by types times threads, never by calls: a thread leaks
\* an entry for a type at most once.
THEOREM LeakBounded == Spec => []OneLeakPerThread
  <1>1. IInv => OneLeakPerThread
    BY DEF IInv, Leaked, OneLeakPerThread
  <1> QED
    BY <1>1, Invariance, PTL

\* A &'static entry handed out is never replaced in the registry.
THEOREM Forever == Spec => EntriesAreForever
  <1>1. IInv /\ [Next]_vars => [\A T \in Type : registry[T] # NoEntry => registry'[T] = registry[T]]_vars
    <2> SUFFICES ASSUME IInv, Next, NEW T \in Type, registry[T] # NoEntry
                 PROVE  registry'[T] = registry[T]
      OBVIOUS
    <2>1. ASSUME NEW t \in Thread, Insert(t) PROVE registry'[T] = registry[T]
      <3>1. Kept(t) = registry[T] \/ T # Top(t).type
        BY DEF Kept
      <3> QED
        BY <2>1, <3>1 DEF Insert, IInv, TypeOK
    <2>2. ASSUME NEW t \in Thread, Step(t) \/ (\E U \in Type : BeginCall(t, U)), ~ Insert(t)
          PROVE  registry' = registry
      BY <2>2 DEF Step, BeginCall, Hit, Miss, Reach, Traced, TracePanics, LockForInsert
    <2> QED
      BY <2>1, <2>2 DEF Next
  <1> QED
    BY <1>1, Invariance, PTL DEF Spec, EntriesAreForever
=============================================================================
