---------------------------- MODULE SharedProofs ----------------------------
(***************************************************************************)
(* Proofs about Shared, for any positions, objects, payloads, rows, damage *)
(* and depth of nested calls.                                              *)
(*                                                                         *)
(* Whatever is read: the thread-locals are typed, the dictionary of a row  *)
(* being written is dense, no row leaves a handoff or a registry behind,   *)
(* and a registry only holds values of its own row and position.           *)
(*                                                                         *)
(* Of a row that was written: it is read to its end, and what comes out    *)
(* shares as what went in, by any way of reading each occurrence and in    *)
(* the middle of any other rows.                                           *)
(***************************************************************************)
EXTENDS SharedInv, FlattenProofs

-----------------------------------------------------------------------------
(***************************************************************************)
(* Sequences.                                                              *)
(***************************************************************************)
\* Replacing the last element.
LEMMA SetLast ==
  ASSUME NEW S, NEW s \in Seq(S), Len(s) > 0, NEW x \in S
  PROVE  LET r == [s EXCEPT ![Len(s)] = x] IN
           /\ r \in Seq(S) /\ Len(r) = Len(s)
           /\ r[Len(s)] = x
           /\ \A i \in 1 .. Len(s) - 1 : r[i] = s[i]
  OBVIOUS

\* Dropping it.
LEMMA Prefix ==
  ASSUME NEW S, NEW s \in Seq(S), NEW n \in Nat, n <= Len(s)
  PROVE  /\ SubSeq(s, 1, n) \in Seq(S) /\ Len(SubSeq(s, 1, n)) = n
         /\ \A i \in 1 .. n : SubSeq(s, 1, n)[i] = s[i]
  OBVIOUS

\* What is left when the last is dropped.
LEMMA DropLast ==
  ASSUME NEW S, NEW s \in Seq(S), Len(s) > 0
  PROVE  LET r == SubSeq(s, 1, Len(s) - 1) IN
           /\ r \in Seq(S) /\ Len(r) = Len(s) - 1
           /\ \A i \in 1 .. Len(s) - 1 : r[i] = s[i]
  <1>1. Len(s) - 1 \in Nat /\ Len(s) - 1 <= Len(s)
    OBVIOUS
  <1> QED
    BY <1>1, Prefix, Zenon

\* What is left when the first is dropped.
LEMMA TailType ==
  ASSUME NEW S, NEW s \in Seq(S), s # << >>
  PROVE  Tail(s) \in Seq(S) /\ Head(s) \in S
  OBVIOUS

\* A cursor that is not at the end reads an element.
LEMMA ReadAt ==
  ASSUME NEW S, NEW s \in Seq(S), NEW n \in Nat, n < Len(s)
  PROVE  s[n + 1] \in S
  OBVIOUS

\* A sequence of any values can be appended to, and keeps what it had.
Grows(h, g) ==
  /\ g \in Seq({g[i] : i \in DOMAIN g})
  /\ \A i \in DOMAIN h : i \in DOMAIN g /\ g[i] = h[i]

\* Putting a value on the heap leaves the others where they are.
LEMMA AppendGrows ==
  ASSUME NEW h, h \in Seq({h[i] : i \in DOMAIN h}), NEW x
  PROVE  /\ Grows(h, Append(h, x))
         /\ Len(h) + 1 \in DOMAIN Append(h, x)
         /\ Append(h, x)[Len(h) + 1] = x
         /\ Len(h) + 1 \in Nat \ {NoPtr}
  <1> DEFINE S == {h[i] : i \in DOMAIN h} \union {x}
             g == Append(h, x)
  <1>1. h \in Seq(S) /\ x \in S
    BY SeqMonotonic
  <1> HIDE DEF S
  <1>2. /\ Len(h) \in Nat /\ DOMAIN h = 1 .. Len(h)
        /\ g \in Seq(S) /\ Len(g) = Len(h) + 1
        /\ DOMAIN g = 1 .. Len(g)
        /\ \A i \in 1 .. Len(h) : g[i] = h[i]
        /\ g[Len(h) + 1] = x
    BY <1>1
  <1> HIDE DEF g
  <1>3. g \in Seq({g[i] : i \in DOMAIN g})
    <2> DEFINE R == {g[i] : i \in DOMAIN g}
    <2>1. \A i \in 1 .. Len(g) : g[i] \in R
      BY <1>2
    <2> HIDE DEF R
    <2>2. g = [i \in 1 .. Len(g) |-> g[i]] /\ Len(g) \in Nat
      BY <1>2
    <2>3. g \in Seq(R)
      BY <2>1, <2>2
    <2> QED BY <2>3 DEF R
  <1> QED
    BY <1>2, <1>3 DEF Grows, g, NoPtr

\* A heap has what it has.
LEMMA GrowsRefl ==
  ASSUME NEW h, h \in Seq({h[i] : i \in DOMAIN h})
  PROVE  Grows(h, h)
  BY DEF Grows

\* A pointer into the heap means the same when the heap grows.
LEMMA OwnGrows ==
  ASSUME NEW h, NEW g, Grows(h, g), NEW row, NEW reg, Own(reg, row, h)
  PROVE  Own(reg, row, g)
  BY DEF Own, OwnPtr, Grows

-----------------------------------------------------------------------------
(***************************************************************************)
(* The dictionaries.                                                       *)
(***************************************************************************)
\* The locals outside any row.
LEMMA FreshType ==
  /\ Fresh \in Locals
  /\ KeysAreDense(Fresh.write)
  /\ Fresh.delivered = NoPtr
  /\ \A row, h : Own(Fresh.read, row, h)
  <1>1. EmptyWrite \in WriteState
    <2>1. [x \in {} |-> 0] \in [{} -> Nat] /\ {} \in SUBSET (Position \X Object)
      OBVIOUS
    <2>2. [x \in {} |-> 0] \in KeyMap
      BY <2>1 DEF KeyMap
    <2> QED BY <2>2 DEF EmptyWrite, WriteState
  <1>2. EmptyRead \in [Position -> Seq(Nat)]
    BY DEF EmptyRead
  <1>3. KeysAreDense(EmptyWrite)
    BY DEF KeysAreDense, EmptyWrite
  <1>4. \A row, h : Own(EmptyRead, row, h)
    BY DEF Own, EmptyRead
  <1> QED
    BY <1>1, <1>2, <1>3, <1>4 DEF Fresh, Locals, NoPtr

\* The fields of a write dictionary.
LEMMA WriteStateParts ==
  ASSUME NEW w \in WriteState
  PROVE  /\ DOMAIN w.keys \subseteq Position \X Object
         /\ \A x \in DOMAIN w.keys : w.keys[x] \in Nat
         /\ w.counts \in [Position -> Nat]
  BY DEF WriteState, KeyMap

\* A key is a number.
LEMMA KeyType ==
  ASSUME NEW w \in WriteState, NEW p \in Position, NEW o \in Object
  PROVE  KeyFor(w, p, o) \in Nat
  BY WriteStateParts DEF KeyFor, Known

\* Assigning a key keeps the types.
LEMMA AfterKeyType ==
  ASSUME NEW w \in WriteState, NEW p \in Position, NEW o \in Object
  PROVE  AfterKey(w, p, o) \in WriteState
  <1> DEFINE D == DOMAIN w.keys \union {<<p, o>>}
             f == [x \in D |-> IF x = <<p, o>> THEN w.counts[p] ELSE w.keys[x]]
             c == [w.counts EXCEPT ![p] = @ + 1]
  <1>1. D \in SUBSET (Position \X Object)
    BY WriteStateParts
  <1>2. f \in [D -> Nat]
    BY WriteStateParts
  <1>3. c \in [Position -> Nat]
    BY WriteStateParts
  <1> HIDE DEF D, f, c
  <1>4. f \in KeyMap
    BY <1>1, <1>2 DEF KeyMap
  <1>5. [keys |-> f, counts |-> c] \in WriteState
    BY <1>3, <1>4 DEF WriteState
  <1> QED
    BY <1>5 DEF AfterKey, f, c, D

\* Giving a new object its position's next key keeps the keys dense.
LEMMA AfterKeyDense ==
  ASSUME NEW w \in WriteState, KeysAreDense(w), NEW p \in Position, NEW o \in Object
  PROVE  KeysAreDense(AfterKey(w, p, o))
  <1>1. CASE Known(w, p, o)
    BY <1>1 DEF AfterKey
  <1>2. CASE ~ Known(w, p, o)
    <2> DEFINE v == AfterKey(w, p, o)
    <2>1. /\ DOMAIN w.keys \subseteq Position \X Object
          /\ \A x \in DOMAIN w.keys : w.keys[x] \in Nat
          /\ w.counts \in [Position -> Nat]
          /\ <<p, o>> \notin DOMAIN w.keys
          /\ \A x \in DOMAIN w.keys : w.keys[x] < w.counts[x[1]]
          /\ \A x, y \in DOMAIN w.keys : x[1] = y[1] /\ w.keys[x] = w.keys[y] => x = y
          /\ \A q \in Position : \A k \in 0 .. w.counts[q] - 1 :
               \E a \in Object : <<q, a>> \in DOMAIN w.keys /\ w.keys[<<q, a>>] = k
      BY <1>2, WriteStateParts DEF KeysAreDense, Known
    <2>2. /\ DOMAIN v.keys = DOMAIN w.keys \union {<<p, o>>}
          /\ v.keys[<<p, o>>] = w.counts[p]
          /\ \A x \in DOMAIN w.keys : v.keys[x] = w.keys[x]
          /\ v.counts = [w.counts EXCEPT ![p] = @ + 1]
      BY <1>2, <2>1 DEF AfterKey
    <2> HIDE DEF v
    <2>3. /\ \A q \in Position : w.counts[q] \in Nat /\ v.counts[q] \in Nat
          /\ v.counts[p] = w.counts[p] + 1
          /\ \A q \in Position : q # p => v.counts[q] = w.counts[q]
          /\ \A q \in Position : w.counts[q] <= v.counts[q]
          /\ \A x \in DOMAIN w.keys : x[1] \in Position
          /\ <<p, o>>[1] = p
      BY <2>1, <2>2
    <2>4. \A x \in DOMAIN v.keys : v.keys[x] < v.counts[x[1]]
      <3> SUFFICES ASSUME NEW x \in DOMAIN v.keys PROVE v.keys[x] < v.counts[x[1]]
        OBVIOUS
      <3>1. CASE x = <<p, o>>
        BY <3>1, <2>2, <2>3
      <3>2. CASE x \in DOMAIN w.keys
        BY <3>2, <2>1, <2>2, <2>3
      <3> QED BY <3>1, <3>2, <2>2
    <2>5. \A x, y \in DOMAIN v.keys : x[1] = y[1] /\ v.keys[x] = v.keys[y] => x = y
      <3>1. \A x \in DOMAIN w.keys : x[1] = p => v.keys[x] # w.counts[p]
        <4> SUFFICES ASSUME NEW x \in DOMAIN w.keys, x[1] = p
                     PROVE  v.keys[x] # w.counts[p]
          OBVIOUS
        <4>1. w.keys[x] < w.counts[p] /\ w.keys[x] \in Nat /\ w.counts[p] \in Nat
          BY <2>1, <2>3
        <4> QED BY <4>1, <2>2
      <3> QED BY <3>1, <2>1, <2>2, <2>3
    <2>6. \A q \in Position : \A k \in 0 .. v.counts[q] - 1 :
            \E a \in Object : <<q, a>> \in DOMAIN v.keys /\ v.keys[<<q, a>>] = k
      <3> SUFFICES ASSUME NEW q \in Position, NEW k \in 0 .. v.counts[q] - 1
                   PROVE  \E a \in Object : <<q, a>> \in DOMAIN v.keys /\ v.keys[<<q, a>>] = k
        OBVIOUS
      <3>1. CASE k < w.counts[q]
        <4>1. k \in 0 .. w.counts[q] - 1
          BY <3>1, <2>3
        <4>2. PICK a \in Object : <<q, a>> \in DOMAIN w.keys /\ w.keys[<<q, a>>] = k
          BY <4>1, <2>1
        <4> QED BY <4>2, <2>2
      <3>2. CASE ~ (k < w.counts[q])
        <4>1. q = p /\ k = w.counts[p]
          BY <3>2, <2>3
        <4> QED BY <4>1, <2>2
      <3> QED BY <3>1, <3>2
    <2> QED BY <2>4, <2>5, <2>6 DEF KeysAreDense, v
  <1> QED BY <1>1, <1>2

\* What a registry has under a key is a pointer.
LEMMA EntryType ==
  ASSUME NEW r \in [Position -> Seq(Nat)], NEW p \in Position, NEW k \in Nat,
         IsRepeat(r, p, k)
  PROVE  Entry(r, p, k) \in Nat /\ k + 1 \in DOMAIN r[p]
  <1>1. r[p] \in Seq(Nat) /\ k < Len(r[p])
    BY DEF IsRepeat
  <1>2. k + 1 \in 1 .. Len(r[p])
    BY <1>1
  <1> QED BY <1>1, <1>2 DEF Entry

\* A reservation adds no pointer.
LEMMA ReserveOwn ==
  ASSUME NEW r \in [Position -> Seq(Nat)], NEW p \in Position,
         NEW row, NEW h, Own(r, row, h)
  PROVE  Reserve(r, p) \in [Position -> Seq(Nat)] /\ Own(Reserve(r, p), row, h)
  <1> DEFINE s == Reserve(r, p)
  <1>1. r[p] \in Seq(Nat) /\ NoPtr \in Nat
    BY DEF NoPtr
  <1>2. Append(r[p], NoPtr) \in Seq(Nat)
    BY <1>1
  <1>3. s \in [Position -> Seq(Nat)] /\ s[p] = Append(r[p], NoPtr)
        /\ \A q \in Position : q # p => s[q] = r[q]
    BY <1>2 DEF Reserve
  <1>4. \A k \in DOMAIN s[p] : s[p][k] # NoPtr => k \in DOMAIN r[p] /\ s[p][k] = r[p][k]
    BY <1>1, <1>3
  <1> HIDE DEF s
  <1>5. Own(s, row, h)
    BY <1>3, <1>4 DEF Own
  <1> QED BY <1>3, <1>5 DEF s

\* Fulfilling one adds the pointer that was made for it.
LEMMA FulfillOwn ==
  ASSUME NEW r \in [Position -> Seq(Nat)], NEW p \in Position, NEW k \in Nat,
         NEW ptr \in Nat, NEW row, NEW h, Own(r, row, h), OwnPtr(ptr, p, row, h)
  PROVE  Fulfill(r, p, k, ptr) \in [Position -> Seq(Nat)] /\ Own(Fulfill(r, p, k, ptr), row, h)
  <1> DEFINE s == Fulfill(r, p, k, ptr)
  <1>1. r[p] \in Seq(Nat)
    OBVIOUS
  <1>2. /\ [r[p] EXCEPT ![k + 1] = ptr] \in Seq(Nat)
        /\ DOMAIN [r[p] EXCEPT ![k + 1] = ptr] = DOMAIN r[p]
        /\ \A i \in DOMAIN r[p] :
             [r[p] EXCEPT ![k + 1] = ptr][i] \in {ptr, r[p][i]}
    <2>1. CASE k + 1 \in 1 .. Len(r[p])
      BY <1>1, <2>1, ExceptSeq
    <2>2. CASE k + 1 \notin 1 .. Len(r[p])
      <3>1. [r[p] EXCEPT ![k + 1] = ptr] = r[p]
        BY <1>1, <2>2
      <3> QED BY <1>1, <3>1
    <2> QED BY <2>1, <2>2
  <1>3. s \in [Position -> Seq(Nat)] /\ s[p] = [r[p] EXCEPT ![k + 1] = ptr]
        /\ \A q \in Position : q # p => s[q] = r[q]
    BY <1>2 DEF Fulfill
  <1> HIDE DEF s
  <1>4. Own(s, row, h)
    BY <1>2, <1>3 DEF Own
  <1> QED BY <1>3, <1>4 DEF s

-----------------------------------------------------------------------------
(***************************************************************************)
(* Steps: a row begins, the innermost row moves on, the innermost row ends.*)
(***************************************************************************)
\* The row in progress is one.
LEMMA TopType ==
  ASSUME Typed, Depth > 0
  PROVE  /\ Top \in Row
         /\ Top.kind = "write" => Top \in WriteRow
         /\ Top.kind = "read" => Top \in ReadRow
         /\ Depth \in Nat
  <1>1. Top \in Row /\ Depth \in Nat
    BY DEF Typed, Depth, Top
  <1> QED
    BY <1>1 DEF Row, WriteRow, ReadRow

\* It holds at the start.
LEMMA InitIInv == Init => IInv
  <1> SUFFICES ASSUME Init PROVE IInv
    OBVIOUS
  <1>1. Depth = 0 /\ tls = Fresh /\ rows = << >> /\ saved = << >>
    BY DEF Init, Depth
  <1>2. EmptyWire \in Wire
    BY DEF EmptyWire, Wire
  <1>3. heap \in Seq({heap[i] : i \in DOMAIN heap})
    <2>1. heap = <<ForeignNode>> /\ heap[1] = ForeignNode /\ DOMAIN heap = {1}
      BY DEF Init
    <2>2. {heap[i] : i \in DOMAIN heap} = {ForeignNode}
      BY <2>1
    <2> QED BY <2>1, <2>2
  <1>4. Typed
    BY <1>1, <1>2, <1>3, FreshType DEF Init, Typed
  <1> QED
    BY <1>1, <1>4, FreshType DEF IInv, Scoped, Handoffs, Owned, Dense

\* User code begins a row inside the one in progress, if any.
LEMMA BeginStep ==
  ASSUME IInv, NEW row \in Row, row.phase = "work", BeginRow(row),
         UNCHANGED <<wire, heap>>
  PROVE  IInv'
  <1>1. /\ active' = active + 1 /\ saved' = Append(saved, tls) /\ tls' = Fresh
        /\ rows' = Append(rows, row) /\ begun' = begun + 1
        /\ Depth > 0 => Top.phase = "work"
    BY DEF BeginRow, OpenScope
  <1>2. /\ rows \in Seq(Row) /\ saved \in Seq(Locals) /\ tls \in Locals
        /\ active = Len(rows) /\ Len(saved) = Len(rows) /\ Depth = Len(rows)
        /\ Len(rows) \in Nat
    BY DEF IInv, Typed, Depth
  <1>3. /\ rows' \in Seq(Row) /\ Len(rows') = Len(rows) + 1
        /\ rows'[Len(rows) + 1] = row
        /\ \A i \in 1 .. Len(rows) : rows'[i] = rows[i]
    BY <1>1, <1>2, AppendProperties
  <1>4. /\ saved' \in Seq(Locals) /\ Len(saved') = Len(rows) + 1
        /\ saved'[Len(rows) + 1] = tls
        /\ \A i \in 1 .. Len(rows) : saved'[i] = saved[i]
    BY <1>1, <1>2, AppendProperties
  <1>5. Depth' = Len(rows) + 1 /\ Top' = row
    BY <1>3 DEF Depth, Top
  <1>6. tls.delivered = NoPtr
    <2>1. CASE Depth = 0
      BY <2>1, FreshType DEF IInv, Scoped
    <2>2. CASE Depth > 0
      BY <2>2, <1>1 DEF IInv, Handoffs, HandedOff, Shares
    <2> QED BY <2>1, <2>2, <1>2
  <1>7. Typed'
    BY <1>1, <1>2, <1>3, <1>4, FreshType DEF IInv, Typed
  <1>8. Scoped'
    <2>1. saved'[1] = Fresh
      <3>1. CASE Depth = 0
        BY <3>1, <1>2, <1>4 DEF IInv, Scoped
      <3>2. CASE Depth > 0
        BY <3>2, <1>2, <1>4 DEF IInv, Scoped
      <3> QED BY <3>1, <3>2, <1>2
    <2>2. \A i \in 1 .. Depth' : saved'[i].delivered = NoPtr
      BY <1>2, <1>4, <1>5, <1>6, SMTT(30) DEF IInv, Scoped
    <2>3. \A i \in 1 .. Depth' - 1 : rows'[i].phase = "work"
      <3> SUFFICES ASSUME NEW i \in 1 .. Len(rows) PROVE rows[i].phase = "work"
        BY <1>2, <1>3, <1>5
      <3>1. CASE i = Len(rows)
        BY <3>1, <1>1, <1>2 DEF Top, Depth
      <3>2. CASE i # Len(rows)
        BY <3>2, <1>2 DEF IInv, Scoped
      <3> QED BY <3>1, <3>2
    <2>4. Depth' # 0
      BY <1>2, <1>5
    <2> QED BY <2>1, <2>2, <2>3, <2>4 DEF Scoped
  <1>9. Handoffs'
    BY <1>1, <1>5, FreshType DEF Handoffs, HandedOff
  <1>10. Owned'
    <2>1. Own(tls'.read, Top', heap')
      BY <1>1, FreshType
    <2>2. ASSUME NEW i \in 1 .. Len(rows)
          PROVE  Own(saved'[i + 1].read, rows'[i], heap')
      <3>1. CASE i = Len(rows)
        BY <3>1, <1>2, <1>3, <1>4 DEF IInv, Owned, Top, Depth
      <3>2. CASE i # Len(rows)
        <4>1. i \in 1 .. Depth - 1 /\ i + 1 \in 1 .. Len(rows)
          BY <3>2, <1>2
        <4> QED BY <4>1, <1>2, <1>3, <1>4 DEF IInv, Owned
      <3> QED BY <3>1, <3>2
    <2>3. Depth' - 1 = Len(rows)
      BY <1>2, <1>5
    <2> QED BY <2>1, <2>2, <2>3 DEF Owned
  <1>11. Dense'
    BY <1>1, <1>2, <1>4, <1>5, FreshType DEF IInv, Dense
  <1> QED
    BY <1>7, <1>8, <1>9, <1>10, <1>11 DEF IInv

\* The row in progress moves on: its locals and the heap may change, the rows
\* waiting for it are left alone.
LEMMA TopStep ==
  ASSUME IInv, Depth > 0, NEW r \in Row, SetTop(r),
         r.kind = Top.kind, r.kind = "read" => r.id = Top.id,
         UNCHANGED <<active, saved, begun, wire>>,
         tls' \in Locals, KeysAreDense(tls'.write), Grows(heap, heap'),
         HandedOff(r, tls', heap'), Own(tls'.read, r, heap')
  PROVE  IInv'
  <1>1. /\ rows \in Seq(Row) /\ Depth = Len(rows) /\ Len(rows) \in Nat
        /\ rows' = [rows EXCEPT ![Len(rows)] = r]
    BY DEF IInv, Typed, Depth, SetTop
  <1>2. /\ rows' \in Seq(Row) /\ Len(rows') = Len(rows) /\ rows'[Len(rows)] = r
        /\ \A i \in 1 .. Len(rows) - 1 : rows'[i] = rows[i]
    BY <1>1, SetLast, SMTT(30)
  <1>3. Depth' = Depth /\ Top' = r
    BY <1>1, <1>2 DEF Depth, Top
  <1>4. Typed'
    BY <1>1, <1>2 DEF IInv, Typed, Grows
  <1>5. Scoped'
    BY <1>1, <1>2, <1>3 DEF IInv, Scoped
  <1>6. Handoffs'
    BY <1>3 DEF Handoffs
  <1>7. Owned'
    <2>1. ASSUME NEW i \in 1 .. Depth - 1
          PROVE  Own(saved'[i + 1].read, rows'[i], heap')
      <3>1. Own(saved[i + 1].read, rows[i], heap)
        BY DEF IInv, Owned
      <3>2. Own(saved[i + 1].read, rows[i], heap')
        BY <3>1, OwnGrows
      <3> QED BY <3>2, <1>1, <1>2
    <2> QED BY <2>1, <1>3 DEF Owned
  <1>8. Dense'
    BY <1>3 DEF IInv, Dense
  <1> QED
    BY <1>4, <1>5, <1>6, <1>7, <1>8 DEF IInv

\* The innermost row ends, however it ends.
LEMMA EndStep ==
  ASSUME IInv, Depth > 0, EndRow, wire' \in Wire
  PROVE  IInv'
  <1>1. /\ active' = active - 1 /\ tls' = saved[Len(saved)]
        /\ saved' = SubSeq(saved, 1, Len(saved) - 1)
        /\ rows' = SubSeq(rows, 1, Len(rows) - 1)
        /\ begun' = IF Depth = 1 THEN 0 ELSE begun
        /\ heap' = IF Depth = 1 THEN <<ForeignNode>> ELSE heap
    BY DEF EndRow, CloseScope, Depth
  <1>2. /\ rows \in Seq(Row) /\ saved \in Seq(Locals)
        /\ active = Len(rows) /\ Len(saved) = Len(rows) /\ Depth = Len(rows)
        /\ Len(rows) \in Nat /\ Len(rows) > 0
    BY DEF IInv, Typed, Depth
  <1>3. /\ rows' \in Seq(Row) /\ Len(rows') = Len(rows) - 1
        /\ \A i \in 1 .. Len(rows) - 1 : rows'[i] = rows[i]
    BY <1>1, <1>2, DropLast
  <1>4. /\ saved' \in Seq(Locals) /\ Len(saved') = Len(rows) - 1
        /\ \A i \in 1 .. Len(rows) - 1 : saved'[i] = saved[i]
    BY <1>1, <1>2, DropLast
  <1>5. Depth' = Len(rows) - 1 /\ Depth' \in Nat
    BY <1>2, <1>3 DEF Depth
  <1>6. tls' \in Locals /\ tls' = saved[Len(rows)]
    BY <1>1, <1>2
  <1>7. heap' \in Seq({heap'[i] : i \in DOMAIN heap'})
    <2>1. CASE Depth = 1
      <3>1. heap' = <<ForeignNode>> /\ heap'[1] = ForeignNode /\ DOMAIN heap' = {1}
        BY <2>1, <1>1
      <3>2. {heap'[i] : i \in DOMAIN heap'} = {ForeignNode}
        BY <3>1
      <3> QED BY <3>1, <3>2
    <2>2. CASE Depth # 1
      BY <2>2, <1>1 DEF IInv, Typed
    <2> QED BY <2>1, <2>2
  <1>8. Typed'
    BY <1>1, <1>2, <1>3, <1>4, <1>6, <1>7 DEF IInv, Typed
  <1>9. CASE Depth = 1
    <2>1. Depth' = 0 /\ tls' = Fresh
      BY <1>2, <1>5, <1>6, <1>9 DEF IInv, Scoped
    <2> QED
      BY <2>1, <1>8, FreshType DEF IInv, Scoped, Handoffs, Owned, Dense
  <1>10. CASE Depth # 1
    <2>1. /\ Depth' > 0 /\ heap' = heap /\ Top' = rows[Len(rows) - 1]
          /\ Len(rows) - 1 \in 1 .. Depth - 1
      BY <1>1, <1>2, <1>3, <1>5, <1>10 DEF Depth, Top
    <2>2. Top'.phase = "work" /\ tls'.delivered = NoPtr
      <3>1. rows[Len(rows) - 1].phase = "work"
        BY <2>1 DEF IInv, Scoped
      <3>2. saved[Len(rows)].delivered = NoPtr
        BY <1>2 DEF IInv, Scoped
      <3> QED BY <3>1, <3>2, <2>1, <1>6
    <2>3. Scoped'
      <3>1. saved'[1] = Fresh
        BY <2>1, <1>2, <1>4 DEF IInv, Scoped
      <3>2. \A i \in 1 .. Depth' : saved'[i].delivered = NoPtr
        BY <1>2, <1>4, <1>5 DEF IInv, Scoped
      <3>3. \A i \in 1 .. Depth' - 1 : rows'[i].phase = "work"
        BY <1>2, <1>3, <1>5 DEF IInv, Scoped
      <3> QED BY <2>1, <3>1, <3>2, <3>3 DEF Scoped
    <2>4. Handoffs'
      BY <2>2 DEF Handoffs, HandedOff
    <2>5. Own(tls'.read, Top', heap')
      <3>1. Own(saved[(Len(rows) - 1) + 1].read, rows[Len(rows) - 1], heap)
        BY <2>1 DEF IInv, Owned
      <3>2. (Len(rows) - 1) + 1 = Len(rows)
        BY <1>2
      <3> QED BY <3>1, <3>2, <2>1, <1>6
    <2>6. ASSUME NEW i \in 1 .. Depth' - 1
          PROVE  Own(saved'[i + 1].read, rows'[i], heap')
      <3>1. i \in 1 .. Depth - 1 /\ i + 1 \in 1 .. Len(rows) - 1 /\ i \in 1 .. Len(rows) - 1
        BY <1>2, <1>5
      <3>2. Own(saved[i + 1].read, rows[i], heap)
        BY <3>1 DEF IInv, Owned
      <3> QED BY <3>1, <3>2, <2>1, <1>3, <1>4
    <2>7. Owned'
      BY <2>5, <2>6 DEF Owned
    <2>8. Dense'
      BY <1>2, <1>4, <1>5, <1>6, SMTT(30) DEF IInv, Dense
    <2> QED BY <1>8, <2>3, <2>4, <2>7, <2>8 DEF IInv
  <1> QED BY <1>9, <1>10

-----------------------------------------------------------------------------
(***************************************************************************)
(* The row in progress after one of its steps.                             *)
(***************************************************************************)
\* What the cursors of a row are at.
HasKeyAt(row, p) == row.keysRead[p] < Len(row.wire.keys[p])
HasPayloadAt(row, p) == row.payloadsRead[p] < Len(row.wire.payload[p])
PayloadAt(row, p) == row.wire.payload[p][row.payloadsRead[p] + 1]

\* A row after its next occurrence has been written with dictionary d.
Wrote(row, r, d) ==
  LET p == Head(row.todo)[1]
      o == Head(row.todo)[2]
      isNew == ~ Known(d, p, o)
  IN  /\ r \in WriteRow /\ r.phase = "work"
      /\ r.wire.row = row.wire.row
      /\ r.wire.keys = [row.wire.keys EXCEPT ![p] = Append(@, KeyFor(d, p, o))]
      /\ r.wire.payload = [row.wire.payload EXCEPT ![p] = IF isNew THEN Append(@, o) ELSE @]
      /\ r.todo = (IF isNew THEN Kids[o] ELSE << >>) \o Tail(row.todo)

\* A row after an occurrence has yielded ptr.
Passed(row, r, ptr) ==
  /\ r \in ReadRow /\ r.phase = "work" /\ r.id = row.id /\ r.wire = row.wire
  /\ r.todo = Tail(row.todo)
  /\ r.vals = Append(row.vals, ptr)
  /\ r.keysRead = [row.keysRead EXCEPT ![Pos(row)] = @ + 1]
  /\ r.payloadsRead = row.payloadsRead

\* A row after it has gone down into a new entry, which `end` will end.
WentDown(row, r, end, b) ==
  /\ r \in ReadRow /\ r.phase = "work" /\ r.id = row.id /\ r.wire = row.wire
  /\ r.vals = row.vals
  /\ end \in Step /\ end.op = "end"
  /\ EntryOf(end) = <<Pos(row), PayloadAt(row, Pos(row)), KeyAt(row, Pos(row))>>
  /\ r.todo = Occurrences(Kids[PayloadAt(row, Pos(row))], b) \o <<end>> \o Tail(row.todo)
  /\ r.keysRead = [row.keysRead EXCEPT ![Pos(row)] = @ + 1]
  /\ r.payloadsRead = [row.payloadsRead EXCEPT ![Pos(row)] = @ + 1]

\* A row about to end an entry: the values of its kids, and those before them.
AtMarker(row) ==
  row \in ReadRow /\ row.phase = "work" /\ row.todo # << >> /\ Head(row.todo).op = "end"

KidCount(row) == Len(Kids[Head(row.todo).obj])
KidValues(row) == SubSeq(row.vals, Len(row.vals) - KidCount(row) + 1, Len(row.vals))
Older(row) == SubSeq(row.vals, 1, Len(row.vals) - KidCount(row))

\* A row after its marker has yielded ptr.
Ended(row, r, ptr, phase) ==
  /\ r \in ReadRow /\ r.phase = phase /\ r.id = row.id /\ r.wire = row.wire
  /\ r.keysRead = row.keysRead /\ r.payloadsRead = row.payloadsRead
  /\ r.vals = Append(Older(row), ptr)
  /\ r.todo = IF phase = "work" THEN Tail(row.todo) ELSE row.todo

\* A row after the value published has been registered.
Registered(row, r) ==
  /\ r \in ReadRow /\ r.phase = "work" /\ r.id = row.id /\ r.wire = row.wire
  /\ r.keysRead = row.keysRead /\ r.payloadsRead = row.payloadsRead
  /\ r.vals = row.vals
  /\ r.todo = Tail(row.todo)

\* User code runs: nothing is handed over.
LEMMA AtWorkQuiet ==
  ASSUME IInv, Depth > 0, Top.phase = "work"
  PROVE  tls.delivered = NoPtr
  BY DEF IInv, Handoffs, HandedOff, Shares

\* The fields of the thread-locals.
LEMMA LocalsParts ==
  ASSUME IInv
  PROVE  /\ tls \in Locals
         /\ tls.write \in WriteState
         /\ tls.read \in [Position -> Seq(Nat)]
         /\ KeysAreDense(tls.write)
         /\ Grows(heap, heap)
  BY GrowsRefl DEF IInv, Typed, Locals, Dense

\* The next occurrence of a row being written.
LEMMA HeadOccurrence ==
  ASSUME Typed, Depth > 0, Top.kind = "write", Top.todo # << >>
  PROVE  /\ Head(Top.todo)[1] \in Position
         /\ Head(Top.todo)[2] \in Object
         /\ Tail(Top.todo) \in Seq(Position \X Object)
  <1>1. Top.todo \in Seq(Position \X Object)
    BY TopType DEF WriteRow
  <1>2. Head(Top.todo) \in Position \X Object /\ Tail(Top.todo) \in Seq(Position \X Object)
    BY <1>1, TailType
  <1> QED
    BY <1>2

\* Writing an occurrence.
LEMMA WroteOccurrence ==
  ASSUME IInv, Depth > 0, Top.kind = "write", Top.todo # << >>,
         WriteOccurrence(Head(Top.todo)[2])
  PROVE  \E r : Wrote(Top, r, tls.write) /\ SetTop(r)
  <1> DEFINE p == Head(Top.todo)[1]
             o == Head(Top.todo)[2]
             isNew == ~ Known(tls.write, p, o)
             key == KeyFor(tls.write, p, o)
             todo == (IF isNew THEN Kids[o] ELSE << >>) \o Tail(Top.todo)
             r == [Top EXCEPT !.phase = "work",
                              !.wire.keys[p] = Append(@, key),
                              !.wire.payload[p] = IF isNew THEN Append(@, o) ELSE @,
                              !.todo = todo]
  <1>1. /\ p \in Position /\ o \in Object /\ Tail(Top.todo) \in Seq(Position \X Object)
        /\ key \in Nat
        /\ Top \in WriteRow
    BY HeadOccurrence, LocalsParts, KeyType, TopType DEF IInv
  <1>2. /\ Top.wire \in Wire
        /\ Top.wire.keys \in [Position -> Seq(Nat)]
        /\ Top.wire.payload \in [Position -> Seq(Object)]
    BY <1>1 DEF WriteRow, Wire
  <1>3. todo \in Seq(Position \X Object)
    <2>1. Kids[o] \in Seq(Position \X Object)
      BY <1>1, SharedAssumption, Zenon
    <2>2. << >> \in Seq(Position \X Object)
      OBVIOUS
    <2> QED BY <2>1, <2>2, <1>1, ConcatProperties
  <1>4. SetTop(r)
    BY Zenon DEF WriteOccurrence
  <1>5. Append(Top.wire.keys[p], key) \in Seq(Nat)
    BY <1>1, <1>2, SMTT(30)
  <1>6. Top.wire.payload[p] \in Seq(Object) /\ Append(Top.wire.payload[p], o) \in Seq(Object)
    BY <1>1, <1>2
  <1>7. /\ r \in WriteRow /\ r.phase = "work" /\ r.todo = todo /\ r.wire.row = Top.wire.row
        /\ r.wire.keys = [Top.wire.keys EXCEPT ![p] = Append(@, key)]
        /\ r.wire.payload = [Top.wire.payload EXCEPT ![p] = IF isNew THEN Append(@, o) ELSE @]
    <2> HIDE DEF key, isNew, todo, p, o
    <2> DEFINE keys == [Top.wire.keys EXCEPT ![p] = Append(@, key)]
               payload == [Top.wire.payload EXCEPT ![p] = IF isNew THEN Append(@, o) ELSE @]
               w == [Top.wire EXCEPT !.keys = keys, !.payload = payload]
    <2>1. r = [Top EXCEPT !.phase = "work", !.wire = w, !.todo = todo]
      BY <1>1, <1>2 DEF WriteRow, Wire
    <2>2. keys \in [Position -> Seq(Nat)] /\ payload \in [Position -> Seq(Object)]
      BY <1>1, <1>2, <1>5, <1>6
    <2> HIDE DEF keys, payload, r
    <2>3. w \in Wire /\ w.row = Top.wire.row /\ w.keys = keys /\ w.payload = payload
      BY <1>2, <2>2 DEF Wire
    <2> HIDE DEF w
    <2>4. r \in WriteRow /\ r.phase = "work" /\ r.todo = todo /\ r.wire = w
      BY <1>1, <1>3, <2>1, <2>3, Zenon DEF WriteRow
    <2> QED BY <2>3, <2>4 DEF keys, payload
  <1> HIDE DEF r
  <1>8. Wrote(Top, r, tls.write)
    BY <1>7, Zenon DEF Wrote
  <1> QED
    BY <1>4, <1>8

\* What a reader's top of `todo` and cursors hold.
LEMMA ReadingType ==
  ASSUME IInv, Depth > 0, Top.kind = "read", Top.todo # << >>
  PROVE  /\ Top \in ReadRow
         /\ Head(Top.todo) \in Step
         /\ Tail(Top.todo) \in Seq(Step)
         /\ At \in Position
         /\ HasKey => Key \in Nat
         /\ HasPayload => Payload \in Object
  <1>1. Top \in ReadRow
    BY TopType DEF IInv
  <1>2. /\ Top.todo \in Seq(Step)
        /\ Top.keysRead \in [Position -> Nat] /\ Top.payloadsRead \in [Position -> Nat]
        /\ Top.wire.keys \in [Position -> Seq(Nat)]
        /\ Top.wire.payload \in [Position -> Seq(Object)]
    BY <1>1 DEF ReadRow, Wire
  <1>3. Head(Top.todo) \in Step /\ Tail(Top.todo) \in Seq(Step)
    BY <1>2, TailType
  <1>4. At \in Position
    BY <1>3 DEF At, Step
  <1>5. HasKey => Key \in Nat
    <2>1. /\ Top.wire.keys[At] \in Seq(Nat) /\ Top.keysRead[At] \in Nat
      BY <1>2, <1>4
    <2> QED BY <2>1, ReadAt DEF HasKey, Key
  <1>6. HasPayload => Payload \in Object
    <2>1. /\ Top.wire.payload[At] \in Seq(Object) /\ Top.payloadsRead[At] \in Nat
      BY <1>2, <1>4
    <2> QED BY <2>1, ReadAt DEF HasPayload, Payload
  <1> QED
    BY <1>1, <1>3, <1>4, <1>5, <1>6

\* The operators that name the next occurrence are of the row in progress.
LEMMA AtPos ==
  /\ At = Pos(Top) /\ Key = KeyAt(Top, Pos(Top)) /\ Payload = PayloadAt(Top, Pos(Top))
  /\ HasKey = HasKeyAt(Top, Pos(Top)) /\ HasPayload = HasPayloadAt(Top, Pos(Top))
  BY DEF At, Pos, Key, KeyAt, Payload, PayloadAt, HasKey, HasKeyAt, HasPayload, HasPayloadAt

\* The row after an occurrence has yielded a value.
LEMMA Yielded ==
  ASSUME IInv, Depth > 0, Top.kind = "read", Top.todo # << >>, NEW ptr \in Nat, Yield(ptr)
  PROVE  \E r : Passed(Top, r, ptr) /\ SetTop(r)
  <1> DEFINE r == [Top EXCEPT !.phase = "work", !.keysRead[At] = @ + 1,
                              !.vals = Append(@, ptr), !.todo = Tail(@)]
  <1>1. SetTop(r)
    BY DEF Yield
  <1>2. /\ Top \in ReadRow /\ At \in Position /\ Tail(Top.todo) \in Seq(Step)
        /\ Top.keysRead \in [Position -> Nat] /\ Top.vals \in Seq(Nat)
    BY ReadingType DEF ReadRow
  <1>3. /\ [Top.keysRead EXCEPT ![At] = @ + 1] \in [Position -> Nat]
        /\ Append(Top.vals, ptr) \in Seq(Nat)
    BY <1>2
  <1>4. At = Pos(Top)
    BY DEF At, Pos
  <1>5. /\ r \in ReadRow /\ r.phase = "work" /\ r.id = Top.id /\ r.wire = Top.wire
        /\ r.todo = Tail(Top.todo) /\ r.vals = Append(Top.vals, ptr)
        /\ r.keysRead = [Top.keysRead EXCEPT ![At] = @ + 1]
        /\ r.payloadsRead = Top.payloadsRead
    BY <1>2, <1>3 DEF ReadRow
  <1> HIDE DEF r
  <1>6. Passed(Top, r, ptr)
    BY <1>4, <1>5 DEF Passed
  <1> QED
    BY <1>1, <1>6

\* A row of occurrences, as steps of a reader.
LEMMA OccurrencesType ==
  ASSUME NEW data \in Seq(Position \X Object), NEW b \in BOOLEAN
  PROVE  Occurrences(data, b) \in Seq(Step)
  <1>1. \A i \in 1 .. Len(data) : Occurrence(data[i][1], b) \in Step
    BY DEF Occurrence, Step
  <1>2. Len(data) \in Nat
    OBVIOUS
  <1> QED
    BY <1>1, <1>2 DEF Occurrences

\* The row after it has gone down into a new entry.
LEMMA Descended ==
  ASSUME IInv, Depth > 0, Top.kind = "read", Top.todo # << >>, Top.phase = "work",
         NEW as \in {"rc", "arc", "plain", "skip"}, HasKey, HasPayload, Descend(as)
  PROVE  \E r, end : WentDown(Top, r, end, as = "skip") /\ SetTop(r)
  <1> DEFINE end == [op |-> "end", pos |-> At, obj |-> Payload, as |-> as, key |-> Key]
             todo == Occurrences(Kids[Payload], as = "skip") \o <<end>> \o Tail(Top.todo)
             r == [Top EXCEPT !.keysRead[At] = @ + 1, !.payloadsRead[At] = @ + 1,
                              !.todo = todo]
  <1>1. SetTop(r)
    BY DEF Descend
  <1>2. /\ Top \in ReadRow /\ At \in Position /\ Tail(Top.todo) \in Seq(Step)
        /\ Key \in Nat /\ Payload \in Object
    BY ReadingType
  <1>3. end \in Step /\ end.op = "end" /\ EntryOf(end) = <<At, Payload, Key>>
    BY <1>2 DEF Step, EntryOf
  <1>4. todo \in Seq(Step)
    <2>1. Kids[Payload] \in Seq(Position \X Object) /\ (as = "skip") \in BOOLEAN
      BY <1>2, SharedAssumption
    <2>2. Occurrences(Kids[Payload], as = "skip") \in Seq(Step)
      BY <2>1, OccurrencesType
    <2> HIDE DEF end
    <2>3. <<end>> \in Seq(Step)
      BY <1>3
    <2>4. Occurrences(Kids[Payload], as = "skip") \o <<end>> \in Seq(Step)
      BY <2>2, <2>3, ConcatProperties
    <2> QED BY <2>4, <1>2, ConcatProperties
  <1>5. /\ [Top.keysRead EXCEPT ![At] = @ + 1] \in [Position -> Nat]
        /\ [Top.payloadsRead EXCEPT ![At] = @ + 1] \in [Position -> Nat]
    BY <1>2 DEF ReadRow
  <1>6. /\ r \in ReadRow /\ r.phase = "work" /\ r.id = Top.id /\ r.wire = Top.wire
        /\ r.vals = Top.vals /\ r.todo = todo
        /\ r.keysRead = [Top.keysRead EXCEPT ![At] = @ + 1]
        /\ r.payloadsRead = [Top.payloadsRead EXCEPT ![At] = @ + 1]
    <2> HIDE DEF todo
    <2> QED BY <1>2, <1>4, <1>5 DEF ReadRow
  <1> HIDE DEF r
  <1>7. WentDown(Top, r, end, as = "skip")
    <2>1. todo = Occurrences(Kids[PayloadAt(Top, Pos(Top))], as = "skip") \o <<end>> \o Tail(Top.todo)
      BY AtPos
    <2> HIDE DEF end, todo
    <2> QED BY <1>3, <1>6, <2>1, AtPos DEF WentDown
  <1> QED
    BY <1>1, <1>7

\* The marker at the end of a payload.
LEMMA MarkerType ==
  ASSUME IInv, Depth > 0, Top.kind = "read", Top.todo # << >>, Marker.op = "end"
  PROVE  /\ Top \in ReadRow /\ Marker.pos \in Position /\ Marker.obj \in Object
         /\ Marker.key \in Nat /\ Arity \in Nat
  <1>1. Top \in ReadRow /\ Head(Top.todo) \in Step
    BY ReadingType
  <1>2. /\ Marker.pos \in Position /\ Marker.obj \in Object /\ Marker.key \in Nat
    BY <1>1 DEF Marker, Step
  <1> QED
    BY <1>1, <1>2, SharedAssumption DEF Arity

\* The row in progress is at a marker, and has that marker's object.
LEMMA AtMarkerTop ==
  ASSUME IInv, EndOfPayload
  PROVE  /\ AtMarker(Top) /\ Depth > 0 /\ Top.kind = "read" /\ Marker = Head(Top.todo)
         /\ Arity = KidCount(Top) /\ KidVals = KidValues(Top)
  <1>1. /\ Depth > 0 /\ Top.kind = "read" /\ Top.phase = "work" /\ Top.todo # << >>
        /\ Head(Top.todo).op = "end"
    BY DEF EndOfPayload, AtWork
  <1>2. Top \in ReadRow
    BY <1>1, ReadingType
  <1> QED
    BY <1>1, <1>2 DEF AtMarker, Marker, Arity, KidCount, KidVals, KidValues

\* The values of the kids give way to the value of their parent.
LEMMA Finished ==
  ASSUME IInv, EndOfPayload, NEW ptr \in Nat, NEW phase \in {"work", "register"},
         FinishValue(ptr, phase)
  PROVE  \E r : Ended(Top, r, ptr, phase) /\ SetTop(r)
  <1> DEFINE vals == Append(SubSeq(Top.vals, 1, Len(Top.vals) - Arity), ptr)
             todo == IF phase = "work" THEN Tail(Top.todo) ELSE Top.todo
             r == [Top EXCEPT !.phase = phase, !.vals = vals, !.todo = todo]
  <1>1. SetTop(r)
    BY DEF FinishValue
  <1>2. /\ Top \in ReadRow /\ Arity = KidCount(Top) /\ Arity \in Nat
        /\ Top.todo \in Seq(Step) /\ Tail(Top.todo) \in Seq(Step)
        /\ Top.vals \in Seq(Nat)
    BY AtMarkerTop, MarkerType, ReadingType DEF AtMarker, ReadRow, EndOfPayload, Marker
  <1>3. vals \in Seq(Nat)
    <2>1. Len(Top.vals) - Arity \in Int /\ \A i \in 1 .. Len(Top.vals) - Arity : Top.vals[i] \in Nat
      BY <1>2, SMTT(30)
    <2>2. SubSeq(Top.vals, 1, Len(Top.vals) - Arity) \in Seq(Nat)
      BY <2>1, SubSeqProperties
    <2> QED BY <2>2, AppendProperties
  <1>4. vals = Append(Older(Top), ptr) /\ todo \in Seq(Step)
    BY <1>2 DEF Older
  <1>5. /\ r \in ReadRow /\ r.phase = phase /\ r.id = Top.id /\ r.wire = Top.wire
        /\ r.keysRead = Top.keysRead /\ r.payloadsRead = Top.payloadsRead
        /\ r.vals = vals /\ r.todo = todo
    <2> HIDE DEF vals, todo
    <2> QED BY <1>2, <1>3, <1>4 DEF ReadRow
  <1> HIDE DEF r, vals
  <1>6. Ended(Top, r, ptr, phase)
    BY <1>4, <1>5 DEF Ended
  <1> QED
    BY <1>1, <1>6

-----------------------------------------------------------------------------
(***************************************************************************)
(* Every action keeps IInv: a lemma for each.                              *)
(***************************************************************************)
LEMMA BeginWriteKeeps ==
  ASSUME IInv, NEW engine \in Engine, NEW data \in RowData, BeginWrite(engine, data)
  PROVE  IInv'
  <1> DEFINE row == [kind |-> "write", engine |-> engine, phase |-> "work",
                     todo |-> data, wire |-> [EmptyWire EXCEPT !.row = data]]
  <1>1. data \in Seq(Position \X Object)
    BY SharedAssumption
  <1>2. [EmptyWire EXCEPT !.row = data] \in Wire
    <2>1. /\ EmptyWire.keys \in [Position -> Seq(Nat)]
          /\ EmptyWire.payload \in [Position -> Seq(Object)]
      BY DEF EmptyWire
    <2> QED BY <1>1, <2>1 DEF EmptyWire, Wire
  <1>3. row \in Row /\ row.phase = "work"
    BY <1>1, <1>2 DEF Row, WriteRow
  <1>4. BeginRow(row) /\ UNCHANGED <<wire, heap>>
    BY DEF BeginWrite
  <1> HIDE DEF row
  <1> QED
    BY <1>3, <1>4, BeginStep

LEMMA BeginReadKeeps ==
  ASSUME IInv, NEW engine \in Engine, NEW w \in {wire} \union Damaged, BeginRead(engine, w)
  PROVE  IInv'
  <1> DEFINE todo == Occurrences(w.row, FALSE)
             row == [kind |-> "read", engine |-> engine, phase |-> "work", id |-> begun + 1,
                     todo |-> todo, vals |-> << >>, wire |-> w,
                     keysRead |-> [p \in Position |-> 0],
                     payloadsRead |-> [p \in Position |-> 0]]
  <1>1. w \in Wire /\ begun + 1 \in Nat
    BY SharedAssumption DEF IInv, Typed
  <1>2. todo \in Seq(Step)
    BY <1>1, OccurrencesType DEF Wire
  <1>3. BeginRow(row) /\ UNCHANGED <<wire, heap>>
    BY DEF BeginRead
  <1>4. row \in Row /\ row.phase = "work"
    <2> HIDE DEF todo
    <2> QED BY <1>1, <1>2 DEF Row, ReadRow
  <1> HIDE DEF row
  <1> QED
    BY <1>3, <1>4, BeginStep

LEMMA StashAddrKeeps ==
  ASSUME IInv, StashAddr
  PROVE  IInv'
  <1> DEFINE r == [Top EXCEPT !.phase = "token"]
             o == Head(Top.todo)[2]
  <1>1. /\ Depth > 0 /\ Top.kind = "write" /\ Top.phase = "work" /\ Top.todo # << >>
        /\ tls' = [tls EXCEPT !.stash = o] /\ SetTop(r)
        /\ UNCHANGED <<active, saved, begun, wire, heap>>
    BY DEF StashAddr, AtWork, Put
  <1>2. Top \in WriteRow /\ o \in Object
    BY <1>1, TopType, HeadOccurrence DEF IInv
  <1>3. r \in Row /\ r.kind = "write" /\ r.phase = "token" /\ r.todo = Top.todo
    BY <1>2 DEF Row, WriteRow
  <1> HIDE DEF r
  <1>4. tls' \in Locals /\ tls'.write = tls.write /\ tls'.stash = o /\ tls'.delivered = NoPtr
    BY <1>1, <1>2, LocalsParts, AtWorkQuiet DEF Locals
  <1>5. HandedOff(r, tls', heap')
    BY <1>1, <1>3, <1>4 DEF HandedOff
  <1>6. Own(tls'.read, r, heap')
    BY <1>3 DEF Own
  <1> QED
    BY <1>1, <1>3, <1>4, <1>5, <1>6, LocalsParts, TopStep

\* The two ways an occurrence is written: through the token, and by columns.
LEMMA WriteKeeps ==
  ASSUME IInv, Depth > 0, Top.kind = "write", Top.todo # << >>, WriteOccurrence(Head(Top.todo)[2]),
         NEW x \in Locals, x.delivered = NoPtr,
         tls' = [x EXCEPT !.write = AfterKey(tls.write, Head(Top.todo)[1], Head(Top.todo)[2])],
         UNCHANGED <<active, saved, begun, wire, heap>>
  PROVE  IInv'
  <1> DEFINE p == Head(Top.todo)[1]
             o == Head(Top.todo)[2]
             v == AfterKey(tls.write, p, o)
  <1>1. p \in Position /\ o \in Object
    BY HeadOccurrence DEF IInv
  <1>2. v \in WriteState /\ KeysAreDense(v)
    BY <1>1, LocalsParts, AfterKeyType, AfterKeyDense
  <1>3. PICK r : Wrote(Top, r, tls.write) /\ SetTop(r)
    BY WroteOccurrence, Zenon
  <1>4. r \in Row /\ r.kind = "write" /\ r.phase = "work"
    BY <1>3, Zenon DEF Wrote, Row, WriteRow
  <1> HIDE DEF v, p, o
  <1>5. tls' = [x EXCEPT !.write = v]
    BY DEF v, p, o
  <1>6. tls' \in Locals /\ tls'.write = v /\ tls'.delivered = NoPtr
    BY <1>2, <1>5 DEF Locals
  <1>7. HandedOff(r, tls', heap')
    BY <1>4, <1>6 DEF HandedOff
  <1>8. Own(tls'.read, r, heap')
    BY <1>4 DEF Own
  <1> QED
    BY <1>2, <1>3, <1>4, <1>6, <1>7, <1>8, LocalsParts, TopStep

LEMMA WriteTokenKeeps ==
  ASSUME IInv, WriteToken
  PROVE  IInv'
  <1> DEFINE x == [tls EXCEPT !.stash = NoObject]
  <1>1. /\ Depth > 0 /\ Top.phase = "token" /\ WriteOccurrence(tls.stash)
        /\ UNCHANGED <<active, saved, begun, wire, heap>>
        /\ tls' = [tls EXCEPT !.stash = NoObject,
                              !.write = AfterKey(@, Head(Top.todo)[1], tls.stash)]
    BY DEF WriteToken
  <1>2. Top.kind = "write"
    BY <1>1, TopType DEF IInv, Row, ReadRow, WriteRow
  <1>3. Top.todo # << >> /\ tls.stash = Head(Top.todo)[2] /\ tls.delivered = NoPtr
    BY <1>1 DEF IInv, Handoffs, HandedOff, Shares
  <1>4. x \in Locals /\ x.delivered = NoPtr
    BY <1>3, LocalsParts DEF Locals
  <1>5. tls' = [x EXCEPT !.write = AfterKey(tls.write, Head(Top.todo)[1], Head(Top.todo)[2])]
    BY <1>1, <1>3, LocalsParts DEF Locals
  <1> HIDE DEF x
  <1>6. WriteOccurrence(Head(Top.todo)[2])
    BY <1>1, <1>3
  <1> QED
    BY <1>1, <1>2, <1>3, <1>4, <1>5, <1>6, WriteKeeps

LEMMA WriteColumnsKeeps ==
  ASSUME IInv, WriteColumns
  PROVE  IInv'
  <1>1. /\ Depth > 0 /\ Top.kind = "write" /\ Top.phase = "work" /\ Top.todo # << >>
        /\ WriteOccurrence(Head(Top.todo)[2])
        /\ tls' = [tls EXCEPT !.write = AfterKey(@, Head(Top.todo)[1], Head(Top.todo)[2])]
        /\ UNCHANGED <<active, saved, begun, wire, heap>>
    BY DEF WriteColumns, AtWork
  <1>2. tls \in Locals /\ tls.delivered = NoPtr
    BY <1>1, LocalsParts, AtWorkQuiet
  <1>3. tls' = [tls EXCEPT !.write = AfterKey(tls.write, Head(Top.todo)[1], Head(Top.todo)[2])]
    BY <1>1
  <1> QED
    BY <1>1, <1>2, <1>3, WriteKeeps

LEMMA EndWriteKeeps ==
  ASSUME IInv, EndWrite
  PROVE  IInv'
  <1>1. Depth > 0 /\ Top.kind = "write" /\ EndRow /\ wire' \in {Top.wire, wire}
    BY DEF EndWrite, AtWork
  <1>2. wire' \in Wire
    BY <1>1, TopType DEF IInv, Typed, WriteRow
  <1> QED
    BY <1>1, <1>2, EndStep

LEMMA FailedKeeps ==
  ASSUME IInv, AbandonRow \/ ReadDamage \/ EndRead
  PROVE  IInv'
  <1>1. Depth > 0 /\ EndRow /\ wire' = wire
    BY DEF AbandonRow, ReadDamage, EndRead, Reading, AtWork
  <1>2. wire' \in Wire
    BY <1>1 DEF IInv, Typed
  <1> QED
    BY <1>1, <1>2, EndStep

\* User code hands a value to another format: the row is where it was.
LEMMA ForeignKeeps ==
  ASSUME IInv, Depth > 0, Top.phase = "work",
         NEW x \in Locals, tls' = x, x.write = tls.write, x.read = tls.read,
         x.delivered = tls.delivered,
         UNCHANGED <<active, saved, rows, begun, wire, heap>>
  PROVE  IInv'
  <1>1. Top \in Row
    BY TopType DEF IInv
  <1>2. SetTop(Top)
    <2>1. rows \in Seq(Row) /\ rows' = rows
      BY DEF IInv, Typed
    <2>2. [rows EXCEPT ![Depth] = Top] = rows
      BY <2>1 DEF Depth, Top
    <2> QED BY <2>1, <2>2 DEF SetTop
  <1>3. tls'.delivered = NoPtr
    BY AtWorkQuiet
  <1>4. HandedOff(Top, tls', heap')
    BY <1>3 DEF HandedOff
  <1>5. Own(tls'.read, Top, heap')
    BY DEF IInv, Owned
  <1>6. KeysAreDense(tls'.write) /\ tls' \in Locals /\ Grows(heap, heap')
    BY LocalsParts
  <1> QED
    BY <1>1, <1>2, <1>4, <1>5, <1>6, TopStep

LEMMA StashForeignKeeps ==
  ASSUME IInv, NEW o \in Foreign, StashForeign(o)
  PROVE  IInv'
  <1> DEFINE x == [tls EXCEPT !.stash = o]
  <1>1. /\ Depth > 0 /\ Top.phase = "work" /\ tls' = x
        /\ UNCHANGED <<active, saved, rows, begun, wire, heap>>
    BY DEF StashForeign, Put
  <1>2. /\ x \in Locals /\ x.write = tls.write /\ x.read = tls.read
        /\ x.delivered = tls.delivered
    BY LocalsParts, SharedAssumption DEF Locals
  <1> HIDE DEF x
  <1> QED
    BY <1>1, <1>2, ForeignKeeps

LEMMA PublishForeignKeeps ==
  ASSUME IInv, PublishForeign
  PROVE  IInv'
  <1> DEFINE x == [tls EXCEPT !.published = ForeignPtr]
  <1>1. /\ Depth > 0 /\ Top.phase = "work" /\ tls' = x
        /\ UNCHANGED <<active, saved, rows, begun, wire, heap>>
    BY DEF PublishForeign, Put
  <1>2. /\ x \in Locals /\ x.write = tls.write /\ x.read = tls.read
        /\ x.delivered = tls.delivered
    BY LocalsParts DEF Locals, ForeignPtr
  <1> HIDE DEF x
  <1> QED
    BY <1>1, <1>2, ForeignKeeps

\* A reading row goes back to work, with its registry still its own.
LEMMA ReadStep ==
  ASSUME IInv, Depth > 0, Top.kind = "read",
         NEW r \in ReadRow, r.phase = "work", r.id = Top.id, SetTop(r),
         UNCHANGED <<active, saved, begun, wire>>,
         tls' \in Locals, tls'.write = tls.write, tls'.delivered = NoPtr,
         Grows(heap, heap'), Own(tls'.read, Top, heap')
  PROVE  IInv'
  <1>1. r \in Row /\ r.kind = Top.kind
    BY DEF Row, ReadRow
  <1>2. HandedOff(r, tls', heap')
    BY DEF HandedOff
  <1>3. Own(tls'.read, r, heap')
    BY DEF Own, OwnPtr
  <1>4. KeysAreDense(tls'.write)
    BY LocalsParts
  <1> QED
    BY <1>1, <1>2, <1>3, <1>4, TopStep

LEMMA ReadNewKeeps ==
  ASSUME IInv, NEW as \in ReadAs, ReadNew(as)
  PROVE  IInv'
  <1>1. /\ Depth > 0 /\ Top.kind = "read" /\ Top.phase = "work" /\ Top.todo # << >>
        /\ HasKey /\ HasPayload /\ Descend(as)
        /\ tls' = [tls EXCEPT !.read = Reserve(@, At)]
        /\ UNCHANGED <<active, saved, begun, wire, heap>>
    BY DEF ReadNew, Reading, AtWork
  <1>2. as \in {"rc", "arc", "plain", "skip"}
    BY SharedAssumption
  <1>3. PICK r : r \in ReadRow /\ r.phase = "work" /\ r.id = Top.id /\ SetTop(r)
    BY <1>1, <1>2, Descended DEF WentDown
  <1>4. At \in Position
    BY <1>1, ReadingType
  <1>5. Own(tls.read, Top, heap)
    BY <1>1 DEF IInv, Owned
  <1>6. Reserve(tls.read, At) \in [Position -> Seq(Nat)] /\ Own(Reserve(tls.read, At), Top, heap)
    BY <1>4, <1>5, LocalsParts, ReserveOwn
  <1>7. /\ tls' \in Locals /\ tls'.write = tls.write /\ tls'.delivered = NoPtr
        /\ tls'.read = Reserve(tls.read, At)
    BY <1>1, <1>6, LocalsParts, AtWorkQuiet DEF Locals
  <1> QED
    BY <1>1, <1>3, <1>6, <1>7, LocalsParts, ReadStep

\* An occurrence that yields a value leaves the registry as it was.
LEMMA YieldKeeps ==
  ASSUME IInv, Depth > 0, Top.kind = "read", Top.todo # << >>, NEW ptr \in Nat, Yield(ptr),
         tls' \in Locals, tls'.write = tls.write, tls'.read = tls.read, tls'.delivered = NoPtr,
         UNCHANGED <<active, saved, begun, wire, heap>>
  PROVE  IInv'
  <1>1. PICK r : r \in ReadRow /\ r.phase = "work" /\ r.id = Top.id /\ SetTop(r)
    BY Yielded DEF Passed
  <1>2. Own(tls'.read, Top, heap')
    BY DEF IInv, Owned
  <1> QED
    BY <1>1, <1>2, LocalsParts, ReadStep

LEMMA ReadRepeatKeeps ==
  ASSUME IInv, NEW as \in ReadAs, ReadRepeat(as) \/ SwallowRepeat(as)
  PROVE  IInv'
  <1>1. /\ Depth > 0 /\ Top.kind = "read" /\ Top.phase = "work" /\ Top.todo # << >>
        /\ HasKey /\ IsRepeat(tls.read, At, Key)
        /\ Yield(NoPtr) \/ Yield(Entry(tls.read, At, Key))
        /\ UNCHANGED <<active, tls, saved, begun, wire, heap>>
    BY DEF ReadRepeat, SwallowRepeat, Reading, AtWork
  <1>2. Entry(tls.read, At, Key) \in Nat /\ NoPtr \in Nat
    BY <1>1, ReadingType, LocalsParts, EntryType DEF NoPtr
  <1>3. tls.delivered = NoPtr /\ tls \in Locals
    BY <1>1, AtWorkQuiet, LocalsParts
  <1> QED
    BY <1>1, <1>2, <1>3, YieldKeeps

LEMMA DeliverKeeps ==
  ASSUME IInv, NEW as \in ReadAs, Deliver(as)
  PROVE  IInv'
  <1> DEFINE r == [Top EXCEPT !.phase = as]
             ptr == Entry(tls.read, At, Key)
  <1>1. /\ Depth > 0 /\ Top.kind = "read" /\ Top.phase = "work" /\ Top.todo # << >>
        /\ HasKey /\ IsRepeat(tls.read, At, Key) /\ as \in {"rc", "arc"}
        /\ tls' = [tls EXCEPT !.delivered = ptr] /\ SetTop(r)
        /\ UNCHANGED <<active, saved, begun, wire, heap>>
    BY DEF Deliver, Reading, AtWork, Put, Shares
  <1>2. ptr \in Nat
    BY <1>1, ReadingType, LocalsParts, EntryType
  <1>3. Top \in ReadRow
    BY <1>1, ReadingType
  <1>4. r \in Row /\ r.kind = Top.kind /\ r.phase = as /\ r.todo = Top.todo /\ r.id = Top.id
    BY <1>1, <1>3 DEF Row, ReadRow
  <1> HIDE DEF r, ptr
  <1>5. tls' \in Locals /\ tls'.write = tls.write /\ tls'.read = tls.read
    BY <1>1, <1>2, LocalsParts DEF Locals
  <1>6. HandedOff(r, tls', heap')
    BY <1>1, <1>4 DEF HandedOff, Shares
  <1>7. Own(tls'.read, r, heap')
    BY <1>1, <1>4, <1>5 DEF IInv, Owned, Own, OwnPtr
  <1> QED
    BY <1>1, <1>4, <1>5, <1>6, <1>7, LocalsParts, TopStep

LEMMA VisitorKeeps ==
  ASSUME IInv, TakeDelivered \/ SwallowDelivered
  PROVE  IInv'
  <1>1. /\ Depth > 0 /\ Top.phase \in {"rc", "arc"}
        /\ tls' = [tls EXCEPT !.delivered = NoPtr]
        /\ Yield(tls.delivered) \/ Yield(NoPtr)
        /\ UNCHANGED <<active, saved, begun, wire, heap>>
    BY DEF TakeDelivered, SwallowDelivered, Put, Shares
  <1>2. Top.kind = "read" /\ Top.todo # << >>
    BY <1>1, TopType DEF IInv, Handoffs, HandedOff, Row, WriteRow, ReadRow
  <1>3. NoPtr \in Nat /\ tls.delivered \in Nat
    BY LocalsParts DEF NoPtr, Locals
  <1>4. /\ tls' \in Locals /\ tls'.write = tls.write /\ tls'.read = tls.read
        /\ tls'.delivered = NoPtr
    BY <1>1, <1>3, LocalsParts DEF Locals
  <1> QED
    BY <1>1, <1>2, <1>3, <1>4, YieldKeeps

\* A value made for the marker's entry.
LEMMA Materialized ==
  ASSUME IInv, Depth > 0, Materialize
  PROVE  /\ NewPtr \in Nat /\ Grows(heap, heap')
         /\ Own(tls.read, Top, heap')
         /\ Shares(Marker.as) => OwnPtr(NewPtr, Marker.pos, Top, heap')
  <1> DEFINE node == [row |-> Top.id, pos |-> Marker.pos, obj |-> Marker.obj,
                      as |-> Marker.as, kids |-> KidVals]
  <1>1. heap' = Append(heap, node) /\ node.row = Top.id /\ node.pos = Marker.pos /\ node.as = Marker.as
    BY DEF Materialize
  <1>2. heap \in Seq({heap[i] : i \in DOMAIN heap})
    BY DEF IInv, Typed
  <1> HIDE DEF node
  <1>3. /\ Grows(heap, heap') /\ NewPtr \in DOMAIN heap' /\ heap'[NewPtr] = node
        /\ NewPtr \in Nat
    BY <1>1, <1>2, AppendGrows DEF NewPtr
  <1>4. Own(tls.read, Top, heap')
    BY <1>3, OwnGrows DEF IInv, Owned
  <1> QED
    BY <1>1, <1>3, <1>4 DEF OwnPtr

LEMMA FinishUnsharedKeeps ==
  ASSUME IInv, FinishUnshared
  PROVE  IInv'
  <1>1. /\ Depth > 0 /\ Top.kind = "read" /\ Top.phase = "work" /\ Top.todo # << >>
        /\ Marker.op = "end"
        /\ \/ FinishValue(NoPtr, "work") /\ UNCHANGED heap
           \/ FinishValue(NewPtr, "work") /\ Materialize
        /\ EndOfPayload /\ UNCHANGED <<active, tls, saved, begun, wire>>
    BY DEF FinishUnshared, EndOfPayload, AtWork, Marker
  <1>2. tls' \in Locals /\ tls'.write = tls.write /\ tls'.delivered = NoPtr
    BY <1>1, LocalsParts, AtWorkQuiet
  <1>3. /\ Grows(heap, heap') /\ Own(tls'.read, Top, heap')
        /\ \E ptr \in Nat : FinishValue(ptr, "work")
    <2>1. CASE FinishValue(NoPtr, "work") /\ UNCHANGED heap
      BY <1>1, <2>1, LocalsParts DEF IInv, Owned, NoPtr
    <2>2. CASE FinishValue(NewPtr, "work") /\ Materialize
      BY <1>1, <2>2, Materialized
    <2> QED BY <1>1, <2>1, <2>2
  <1>4. PICK r : r \in ReadRow /\ r.phase = "work" /\ r.id = Top.id /\ SetTop(r)
    BY <1>1, <1>3, Finished DEF Ended
  <1> QED
    BY <1>1, <1>2, <1>3, <1>4, ReadStep

LEMMA FinishColumnsKeeps ==
  ASSUME IInv, FinishColumns
  PROVE  IInv'
  <1> DEFINE reg == Fulfill(tls.read, Marker.pos, Marker.key, NewPtr)
  <1>1. /\ Depth > 0 /\ Top.kind = "read" /\ Top.phase = "work" /\ Top.todo # << >>
        /\ Marker.op = "end" /\ Shares(Marker.as) /\ Materialize
        /\ FinishValue(NewPtr, "work")
        /\ tls' = [tls EXCEPT !.read = reg]
        /\ EndOfPayload /\ UNCHANGED <<active, saved, begun, wire>>
    BY DEF FinishColumns, EndOfPayload, AtWork, Marker
  <1>2. /\ NewPtr \in Nat /\ Grows(heap, heap') /\ Own(tls.read, Top, heap')
        /\ OwnPtr(NewPtr, Marker.pos, Top, heap')
    BY <1>1, Materialized
  <1>3. Marker.pos \in Position /\ Marker.key \in Nat
    BY <1>1, MarkerType
  <1>4. reg \in [Position -> Seq(Nat)] /\ Own(reg, Top, heap')
    BY <1>2, <1>3, LocalsParts, FulfillOwn
  <1> HIDE DEF reg
  <1>5. /\ tls' \in Locals /\ tls'.write = tls.write /\ tls'.delivered = NoPtr
        /\ tls'.read = reg
    BY <1>1, <1>4, LocalsParts, AtWorkQuiet DEF Locals
  <1>6. PICK r : r \in ReadRow /\ r.phase = "work" /\ r.id = Top.id /\ SetTop(r)
    BY <1>1, <1>2, Finished DEF Ended
  <1> QED
    BY <1>1, <1>2, <1>4, <1>5, <1>6, ReadStep

LEMMA PublishKeeps ==
  ASSUME IInv, Publish
  PROVE  IInv'
  <1>1. /\ Depth > 0 /\ Top.kind = "read" /\ Top.phase = "work" /\ Top.todo # << >>
        /\ Marker.op = "end" /\ Shares(Marker.as) /\ Materialize
        /\ FinishValue(NewPtr, "register")
        /\ tls' = [tls EXCEPT !.published = NewPtr]
        /\ EndOfPayload /\ UNCHANGED <<active, saved, begun, wire>>
    BY DEF Publish, EndOfPayload, AtWork, Marker, Put
  <1>2. /\ NewPtr \in Nat /\ Grows(heap, heap') /\ Own(tls.read, Top, heap')
        /\ OwnPtr(NewPtr, Marker.pos, Top, heap')
    BY <1>1, Materialized
  <1>3. PICK r : /\ r \in ReadRow /\ r.phase = "register" /\ r.id = Top.id /\ SetTop(r)
                 /\ r.todo = Top.todo
    BY <1>1, <1>2, Finished DEF Ended
  <1>4. r \in Row /\ r.kind = Top.kind
    BY <1>1, <1>3 DEF Row, ReadRow
  <1>5. /\ tls' \in Locals /\ tls'.write = tls.write /\ tls'.delivered = NoPtr
        /\ tls'.read = tls.read /\ tls'.published = NewPtr
    BY <1>1, <1>2, LocalsParts, AtWorkQuiet DEF Locals
  <1>6. HandedOff(r, tls', heap')
    BY <1>1, <1>2, <1>3, <1>5 DEF HandedOff, OwnPtr, Marker
  <1>7. Own(tls'.read, r, heap')
    BY <1>2, <1>3, <1>4, <1>5 DEF Own, OwnPtr
  <1> QED
    BY <1>1, <1>2, <1>3, <1>4, <1>5, <1>6, <1>7, LocalsParts, TopStep

LEMMA RegisterKeeps ==
  ASSUME IInv, Register
  PROVE  IInv'
  <1> DEFINE r == [Top EXCEPT !.phase = "work", !.todo = Tail(@)]
             reg == Fulfill(tls.read, Marker.pos, Marker.key, tls.published)
  <1>1. /\ Depth > 0 /\ Top.phase = "register"
        /\ tls' = [tls EXCEPT !.published = NoPtr, !.read = reg]
        /\ SetTop(r) /\ UNCHANGED <<active, saved, begun, wire, heap>>
    BY DEF Register
  <1>2. Top.kind = "read"
    BY <1>1, TopType DEF IInv, Row, WriteRow, ReadRow
  <1>3. /\ Top.todo # << >> /\ tls.delivered = NoPtr
        /\ OwnPtr(tls.published, Marker.pos, Top, heap)
    BY <1>1 DEF IInv, Handoffs, HandedOff, Shares, Marker
  <1>4. Marker.op = "end"
    BY <1>1 DEF IInv, Handoffs, HandedOff, Marker
  <1>5. /\ Top \in ReadRow /\ Marker.pos \in Position /\ Marker.key \in Nat
        /\ Tail(Top.todo) \in Seq(Step)
    BY <1>1, <1>2, <1>3, <1>4, MarkerType, ReadingType
  <1>6. r \in ReadRow /\ r.phase = "work" /\ r.id = Top.id
    BY <1>5 DEF ReadRow
  <1>7. Own(tls.read, Top, heap) /\ tls.published \in Nat
    BY <1>1, LocalsParts DEF IInv, Owned, Locals
  <1>8. reg \in [Position -> Seq(Nat)] /\ Own(reg, Top, heap)
    BY <1>3, <1>5, <1>7, LocalsParts, FulfillOwn
  <1> HIDE DEF r, reg
  <1>9. /\ tls' \in Locals /\ tls'.write = tls.write /\ tls'.delivered = NoPtr
        /\ tls'.read = reg
    BY <1>1, <1>3, <1>8, LocalsParts DEF Locals, NoPtr
  <1> QED
    BY <1>1, <1>2, <1>6, <1>8, <1>9, LocalsParts, ReadStep

-----------------------------------------------------------------------------
(***************************************************************************)
(* Theorems.                                                               *)
(***************************************************************************)
LEMMA StepKeeps == IInv /\ [Next]_vars => IInv'
  <1> SUFFICES ASSUME IInv, [Next]_vars PROVE IInv'
    OBVIOUS
  <1>1. ASSUME NEW engine \in {"serde", "columns"}, NEW data \in RowData, BeginWrite(engine, data)
        PROVE  IInv'
    BY <1>1, BeginWriteKeeps DEF Engine
  <1>2. ASSUME NEW engine \in {"serde", "columns"}, NEW w \in {wire} \union Damaged,
               BeginRead(engine, w)
        PROVE  IInv'
    BY <1>2, BeginReadKeeps DEF Engine
  <1>3. ASSUME NEW as \in ReadAs, ReadNew(as) \/ ReadRepeat(as) \/ Deliver(as) \/ SwallowRepeat(as)
        PROVE  IInv'
    BY <1>3, ReadNewKeeps, ReadRepeatKeeps, DeliverKeeps
  <1>4. ASSUME NEW o \in Foreign, StashForeign(o) PROVE IInv'
    BY <1>4, StashForeignKeeps
  <1>5. CASE StashAddr \/ WriteToken \/ WriteColumns \/ EndWrite
    BY <1>5, StashAddrKeeps, WriteTokenKeeps, WriteColumnsKeeps, EndWriteKeeps
  <1>6. CASE TakeDelivered \/ SwallowDelivered
    BY <1>6, VisitorKeeps
  <1>7. CASE FinishUnshared \/ FinishColumns \/ Publish \/ Register
    BY <1>7, FinishUnsharedKeeps, FinishColumnsKeeps, PublishKeeps, RegisterKeeps
  <1>8. CASE EndRead \/ ReadDamage \/ AbandonRow
    BY <1>8, FailedKeeps
  <1>9. CASE PublishForeign
    BY <1>9, PublishForeignKeeps
  <1>10. CASE UNCHANGED vars
    BY <1>10 DEF vars, IInv, Typed, Scoped, Handoffs, Owned, Dense, Depth, Top
  <1> QED
    BY <1>1, <1>2, <1>3, <1>4, <1>5, <1>6, <1>7, <1>8, <1>9, <1>10 DEF Next

\* The state is typed, scoped, own and dense in every behaviour of the module:
\* the invariant the theorems below are read off.
THEOREM Inductive == Spec => []IInv
  <1> QED
    BY InitIInv, StepKeeps, PTL DEF Spec

\* Every copy of the thread-locals has its type.
LEMMA LocalsAreTyped ==
  ASSUME NEW x \in Locals
  PROVE  IsLocals(x)
  BY WriteStateParts DEF Locals, IsLocals

\* The thread-locals and every saved copy of them hold what their types hold,
\* with one scope per row in progress.
THEOREM TypeCorrect == Spec => []TypeOK
  <1>1. IInv => TypeOK
    <2> SUFFICES ASSUME IInv PROVE TypeOK
      OBVIOUS
    <2>1. \A i \in DOMAIN saved : saved[i] \in Locals
      BY DEF IInv, Typed
    <2> QED
      BY <2>1, LocalsAreTyped DEF IInv, Typed, TypeOK
  <1> QED
    BY <1>1, Inductive, PTL

\* write_key numbers the objects of a position 0 .. n-1, in the row being
\* written and in every row waiting for a nested one.
THEOREM KeysDense == Spec => []DictionariesDense
  <1>1. IInv => DictionariesDense
    <2> SUFFICES ASSUME IInv PROVE DictionariesDense
      OBVIOUS
    <2>1. DOMAIN saved = 1 .. Depth
      BY DEF IInv, Typed, Depth
    <2> QED
      BY <2>1 DEF IInv, Dense, DictionariesDense
  <1> QED
    BY <1>1, Inductive, PTL

\* RowScope: outside carbonite the thread-locals are as new, however the rows
\* ended, and a delivered pointer waits only for the visitor about to take it.
THEOREM SlotsClean == Spec => []NothingIsStale
  <1>1. IInv => NothingIsStale
    <2> SUFFICES ASSUME IInv PROVE NothingIsStale
      OBVIOUS
    <2>1. DOMAIN saved = 1 .. Depth /\ active = Depth
      BY DEF IInv, Typed, Depth
    <2>2. Depth = 0 => tls = Fresh /\ tls.delivered = NoPtr
      BY FreshType DEF IInv, Scoped
    <2>3. Depth \in Nat
      BY DEF IInv, Typed, Depth
    <2> QED
      BY <2>1, <2>2, <2>3 DEF IInv, Scoped, Handoffs, HandedOff, NothingIsStale
  <1> QED
    BY <1>1, Inductive, PTL

\* The registry of the row being read holds values made for that row, for the
\* position they are found at, and shared: damaged rows, nested rows that fail
\* and pointers of other formats included.
THEOREM OwnValues == Spec => []RegistriesHoldOwnValues
  <1>1. IInv => RegistriesHoldOwnValues
    BY DEF IInv, Owned, Own, OwnPtr, RegistriesHoldOwnValues
  <1> QED
    BY <1>1, Inductive, PTL

-----------------------------------------------------------------------------
(***************************************************************************)
(* The writer's log.                                                       *)
(***************************************************************************)
\* What is left to write is occurrences.
LEMMA MomentOcc ==
  ASSUME NEW m \in Moment, m.todo # << >>
  PROVE  /\ Head(m.todo) \in Occ
         /\ Head(m.todo)[1] \in Position /\ Head(m.todo)[2] \in Object
         /\ Tail(m.todo) \in Seq(Occ)
  <1>1. m.todo \in Seq(Occ)
    BY DEF Moment
  <1>2. Head(m.todo) \in Occ /\ Tail(m.todo) \in Seq(Occ)
    BY <1>1, TailType, Zenon
  <1> QED BY <1>2 DEF Occ

\* What the next occurrence adds to the cells.
LEMMA AfterAdds ==
  ASSUME NEW m \in Moment, m.todo # << >>
  PROVE  LET p == Head(m.todo)[1]
             o == Head(m.todo)[2]
         IN  /\ After(m).keys \in [Position -> Seq(Nat)]
             /\ After(m).payload \in [Position -> Seq(Object)]
             /\ After(m).keys[p] = Append(m.keys[p], KeyFor(m.dict, p, o))
             /\ \A q \in Position : q # p => After(m).keys[q] = m.keys[q]
             /\ New(m) => After(m).payload[p] = Append(m.payload[p], o)
             /\ \A q \in Position : q # p \/ ~New(m) => After(m).payload[q] = m.payload[q]
  <1> DEFINE p == Head(m.todo)[1]
             o == Head(m.todo)[2]
             key == KeyFor(m.dict, p, o)
  <1>1. p \in Position /\ o \in Object
    BY MomentOcc
  <1>2. /\ m.dict \in WriteState /\ m.keys \in [Position -> Seq(Nat)]
        /\ m.payload \in [Position -> Seq(Object)]
    BY DEF Moment
  <1>3. key \in Nat
    BY <1>1, <1>2, KeyType
  <1>4. /\ After(m).keys = [m.keys EXCEPT ![p] = Append(@, key)]
        /\ After(m).payload = IF New(m) THEN [m.payload EXCEPT ![p] = Append(@, o)] ELSE m.payload
    BY DEF After
  <1> HIDE DEF p, o, key
  <1>5. Append(m.keys[p], key) \in Seq(Nat) /\ Append(m.payload[p], o) \in Seq(Object)
    BY <1>1, <1>2, <1>3
  <1>6. /\ After(m).keys \in [Position -> Seq(Nat)]
        /\ After(m).keys[p] = Append(m.keys[p], key)
        /\ \A q \in Position : q # p => After(m).keys[q] = m.keys[q]
    BY <1>1, <1>2, <1>4, <1>5
  <1>7. /\ After(m).payload \in [Position -> Seq(Object)]
        /\ New(m) => After(m).payload[p] = Append(m.payload[p], o)
        /\ \A q \in Position : q # p \/ ~New(m) => After(m).payload[q] = m.payload[q]
    BY <1>1, <1>2, <1>4, <1>5
  <1> QED BY <1>6, <1>7, Zenon DEF p, o, key

\* A moment is followed by a moment.
LEMMA AfterType ==
  ASSUME NEW m \in Moment, m.todo # << >>, KeysAreDense(m.dict)
  PROVE  After(m) \in Moment /\ KeysAreDense(After(m).dict)
  <1> DEFINE p == Head(m.todo)[1]
             o == Head(m.todo)[2]
             todo == (IF New(m) THEN Kids[o] ELSE << >>) \o Tail(m.todo)
             dict == AfterKey(m.dict, p, o)
  <1>1. p \in Position /\ o \in Object /\ Tail(m.todo) \in Seq(Occ) /\ m.dict \in WriteState
    BY MomentOcc DEF Moment
  <1>2. todo \in Seq(Occ)
    <2>1. Kids[o] \in Seq(Occ) /\ << >> \in Seq(Occ)
      BY <1>1, SharedAssumption DEF Occ
    <2> QED BY <1>1, <2>1, ConcatProperties
  <1>3. dict \in WriteState /\ KeysAreDense(dict)
    BY <1>1, AfterKeyType, AfterKeyDense
  <1>4. After(m).todo = todo /\ After(m).dict = dict
        /\ After(m) = [todo |-> After(m).todo, dict |-> After(m).dict,
                       keys |-> After(m).keys, payload |-> After(m).payload]
    BY DEF After
  <1> HIDE DEF todo, dict
  <1>5. After(m).keys \in [Position -> Seq(Nat)] /\ After(m).payload \in [Position -> Seq(Object)]
    BY AfterAdds
  <1> QED BY <1>2, <1>3, <1>4, <1>5 DEF Moment

\* Adding a cell continues a column.
LEMMA ContinuesAppend ==
  ASSUME NEW S, NEW s \in Seq(S), NEW x
  PROVE  Continues(s, s) /\ Continues(s, Append(s, x))
  BY DEF Continues

\* A column continued twice is continued.
LEMMA ContinuesThrough ==
  ASSUME NEW S, NEW r \in Seq(S), NEW s \in Seq(S), NEW t \in Seq(S),
         Continues(r, s), Continues(s, t)
  PROVE  Continues(r, t)
  BY DEF Continues

\* Writing an occurrence only adds cells.
LEMMA BeforeAfter ==
  ASSUME NEW m \in Moment, m.todo # << >>
  PROVE  Before(m, m) /\ Before(m, After(m))
  <1>1. \A p \in Position : m.keys[p] \in Seq(Nat) /\ m.payload[p] \in Seq(Object)
    BY DEF Moment
  <1>2. \A p \in Position : Continues(m.keys[p], m.keys[p]) /\ Continues(m.payload[p], m.payload[p])
    BY <1>1, ContinuesAppend
  <1>3. ASSUME NEW q \in Position
        PROVE  Continues(m.keys[q], After(m).keys[q]) /\ Continues(m.payload[q], After(m).payload[q])
    <2> DEFINE p == Head(m.todo)[1]
               o == Head(m.todo)[2]
               key == KeyFor(m.dict, p, o)
               a == After(m)
    <2>1. /\ a.keys[p] = Append(m.keys[p], key)
          /\ q # p => a.keys[q] = m.keys[q]
          /\ New(m) => a.payload[p] = Append(m.payload[p], o)
          /\ q # p \/ ~New(m) => a.payload[q] = m.payload[q]
      BY AfterAdds, ZenonT(30)
    <2> HIDE DEF p, o, key, a
    <2>2. Continues(m.keys[q], a.keys[q])
      BY <1>1, <1>2, <2>1, ContinuesAppend
    <2>3. Continues(m.payload[q], a.payload[q])
      BY <1>1, <1>2, <2>1, ContinuesAppend
    <2> QED BY <2>2, <2>3, ZenonT(30) DEF a
  <1> QED BY <1>2, <1>3 DEF Before

\* So do two.
LEMMA BeforeThrough ==
  ASSUME NEW k \in Moment, NEW l \in Moment, NEW m \in Moment, Before(k, l), Before(l, m)
  PROVE  Before(k, m)
  <1> SUFFICES ASSUME NEW p \in Position
               PROVE  Continues(k.keys[p], m.keys[p]) /\ Continues(k.payload[p], m.payload[p])
    BY DEF Before
  <1>1. /\ k.keys[p] \in Seq(Nat) /\ l.keys[p] \in Seq(Nat) /\ m.keys[p] \in Seq(Nat)
        /\ k.payload[p] \in Seq(Object) /\ l.payload[p] \in Seq(Object) /\ m.payload[p] \in Seq(Object)
    BY DEF Moment
  <1>2. /\ Continues(k.keys[p], l.keys[p]) /\ Continues(l.keys[p], m.keys[p])
        /\ Continues(k.payload[p], l.payload[p]) /\ Continues(l.payload[p], m.payload[p])
    BY DEF Before
  <1> QED BY <1>1, <1>2, ContinuesThrough

\* A row is begun.
LEMMA LogStart ==
  ASSUME NEW data \in Seq(Occ)
  PROVE  Start(data) \in Moment /\ \E f : Logged(data, 0, f) /\ f[0] = Start(data)
  <1>1. Fresh.write = EmptyWrite /\ Fresh \in Locals
    BY FreshType DEF Fresh
  <1>2. EmptyWrite \in WriteState /\ KeysAreDense(EmptyWrite)
    BY <1>1, FreshType DEF Locals
  <1>3. /\ EmptyWire.keys \in [Position -> Seq(Nat)]
        /\ EmptyWire.payload \in [Position -> Seq(Object)]
    BY DEF EmptyWire
  <1>4. Start(data) \in Moment
    BY <1>2, <1>3 DEF Start, Moment
  <1> DEFINE m == Start(data)
             f == [i \in {0} |-> m]
  <1>5. Before(m, m)
    <2>1. \A p \in Position : m.keys[p] \in Seq(Nat) /\ m.payload[p] \in Seq(Object)
      BY <1>4 DEF Moment
    <2> HIDE DEF m
    <2> QED BY <2>1, ContinuesAppend DEF Before
  <1>6. m.dict = EmptyWrite
    BY DEF Start
  <1> HIDE DEF m
  <1>7. 0 .. 0 = {0} /\ 0 .. 0 - 1 = {} /\ f \in [{0} -> Moment] /\ f[0] = m
    BY <1>4 DEF m
  <1>8. Logged(data, 0, f)
    BY <1>2, <1>5, <1>6, <1>7 DEF Logged, m
  <1> QED BY <1>4, <1>7, <1>8 DEF m

\* An occurrence is written.
LEMMA LogMore ==
  ASSUME NEW data, NEW n, NEW f, Logged(data, n, f), f[n].todo # << >>
  PROVE  \E g : Logged(data, n + 1, g) /\ g[n + 1] = After(f[n])
  <1> DEFINE a == After(f[n])
             g == [i \in 0 .. n + 1 |-> IF i = n + 1 THEN a ELSE f[i]]
  <1>1. /\ n \in Nat /\ f \in [0 .. n -> Moment] /\ f[n] \in Moment
        /\ \A i \in 0 .. n : f[i] \in Moment /\ KeysAreDense(f[i].dict) /\ Before(f[i], f[n])
    BY DEF Logged
  <1>2. a \in Moment /\ KeysAreDense(a.dict) /\ Before(f[n], a)
    BY <1>1, AfterType, BeforeAfter
  <1>3. Before(a, a)
    <2>1. \A p \in Position : a.keys[p] \in Seq(Nat) /\ a.payload[p] \in Seq(Object)
      BY <1>2 DEF Moment
    <2> HIDE DEF a
    <2> QED BY <2>1, ContinuesAppend DEF Before
  <1>4. \A i \in 0 .. n : Before(f[i], a)
    BY <1>1, <1>2, BeforeThrough
  <1>5. f[0] = Start(data) /\ \A i \in 0 .. n - 1 : f[i].todo # << >> /\ f[i + 1] = After(f[i])
    BY DEF Logged
  <1>6. a = After(f[n])
    OBVIOUS
  <1> HIDE DEF a
  <1>7. g \in [0 .. n + 1 -> Moment] /\ g[n + 1] = a /\ \A i \in 0 .. n : g[i] = f[i]
    BY <1>1, <1>2
  <1> HIDE DEF g
  <1>8. \A i \in 0 .. n + 1 : KeysAreDense(g[i].dict) /\ Before(g[i], g[n + 1])
    <2> SUFFICES ASSUME NEW i \in 0 .. n + 1
                 PROVE  KeysAreDense(g[i].dict) /\ Before(g[i], g[n + 1])
      OBVIOUS
    <2>1. CASE i = n + 1
      BY <1>2, <1>3, <1>7, <2>1
    <2>2. CASE i # n + 1
      <3>1. i \in 0 .. n
        BY <1>1, <2>2
      <3> QED BY <1>1, <1>4, <1>7, <3>1
    <2> QED BY <2>1, <2>2
  <1>9. \A i \in 0 .. (n + 1) - 1 : g[i].todo # << >> /\ g[i + 1] = After(g[i])
    <2> SUFFICES ASSUME NEW i \in 0 .. n
                 PROVE  g[i].todo # << >> /\ g[i + 1] = After(g[i])
      BY <1>1
    <2>1. CASE i = n
      BY <1>1, <1>6, <1>7, <2>1
    <2>2. CASE i # n
      <3>1. i \in 0 .. n - 1 /\ i + 1 \in 0 .. n
        BY <1>1, <2>2
      <3> QED BY <1>5, <1>7, <3>1
    <2> QED BY <2>1, <2>2
  <1>10. Logged(data, n + 1, g)
    <2>1. n + 1 \in Nat /\ g[0] = Start(data)
      BY <1>1, <1>5, <1>7
    <2> QED BY <1>7, <1>8, <1>9, <2>1 DEF Logged
  <1> QED BY <1>6, <1>7, <1>10

\* What a moment of a written row says about the row: there is a next moment
\* and the row's cells agree with it, or it is the last and they are its own.
LEMMA OnLogNext ==
  ASSUME NEW m, NEW w, OnLog(m, w)
  PROVE  /\ m \in Moment /\ KeysAreDense(m.dict)
         /\ m.todo # << >> => OnLog(After(m), w) /\ Before(After(m), w)
         /\ m.todo = << >> => m.keys = w.keys /\ m.payload = w.payload
  <1>1. PICK n \in Nat : \E f : \E i \in 0 .. n :
          /\ Logged(w.row, n, f) /\ f[i] = m
          /\ f[n].todo = << >> /\ f[n].keys = w.keys /\ f[n].payload = w.payload
    BY DEF OnLog
  <1>2. PICK f : \E i \in 0 .. n :
          /\ Logged(w.row, n, f) /\ f[i] = m
          /\ f[n].todo = << >> /\ f[n].keys = w.keys /\ f[n].payload = w.payload
    BY <1>1
  <1>3. PICK i \in 0 .. n :
          /\ Logged(w.row, n, f) /\ f[i] = m
          /\ f[n].todo = << >> /\ f[n].keys = w.keys /\ f[n].payload = w.payload
    BY <1>2
  <1>4. m \in Moment /\ KeysAreDense(m.dict)
    BY <1>3 DEF Logged
  <1>5. CASE i = n
    BY <1>3, <1>4, <1>5
  <1>6. CASE i # n
    <2>1. i \in 0 .. n - 1 /\ i + 1 \in 0 .. n
      BY <1>6
    <2>2. m.todo # << >> /\ f[i + 1] = After(m) /\ Before(f[i + 1], f[n])
      BY <1>3, <2>1 DEF Logged
    <2>3. OnLog(After(m), w)
      BY <1>3, <2>1, <2>2 DEF OnLog
    <2>4. Before(After(m), w)
      BY <1>3, <2>2 DEF Before
    <2> QED BY <1>4, <2>2, <2>3, <2>4
  <1> QED BY <1>5, <1>6

-----------------------------------------------------------------------------
(***************************************************************************)
(* The reader's plan.                                                      *)
(***************************************************************************)
\* Nothing is left to do.
LEMMA PlanDone ==
  /\ \A goal \in Stage : Plan(<< >>, goal, goal)
  /\ \A a, goal : Plan(<< >>, a, goal) => a = goal
  <1>1. ASSUME NEW goal \in Stage PROVE Plan(<< >>, goal, goal)
    <2> DEFINE run == [j \in {1} |-> goal]
    <2>1. 1 .. Len(<< >>) + 1 = {1} /\ 1 .. Len(<< >>) = {} /\ Len(<< >>) + 1 = 1
      OBVIOUS
    <2>2. run \in [{1} -> Stage] /\ run[1] = goal
      OBVIOUS
    <2> HIDE DEF run
    <2> QED BY <2>1, <2>2 DEF Plan
  <1>2. ASSUME NEW a, NEW goal, Plan(<< >>, a, goal) PROVE a = goal
    BY <1>2 DEF Plan
  <1> QED BY <1>1, <1>2

\* The first step is done.
LEMMA PlanTail ==
  ASSUME NEW S, NEW todo \in Seq(S), todo # << >>, NEW a, NEW goal, Plan(todo, a, goal)
  PROVE  a \in Stage /\ \E b \in Stage : Does(Head(todo), a, b) /\ Plan(Tail(todo), b, goal)
  <1> DEFINE n == Len(todo)
             t == Tail(todo)
  <1>1. PICK run : /\ run \in [1 .. n + 1 -> Stage]
                   /\ run[1] = a /\ run[n + 1] = goal
                   /\ \A j \in 1 .. n : Does(todo[j], run[j], run[j + 1])
    BY DEF Plan
  <1>2. /\ n \in Nat /\ n >= 1 /\ Head(todo) = todo[1]
        /\ Len(t) = n - 1 /\ \A j \in 1 .. n - 1 : t[j] = todo[j + 1]
    OBVIOUS
  <1> HIDE DEF n, t
  <1> DEFINE later == [j \in 1 .. n |-> run[j + 1]]
  <1>3. \A j \in 1 .. n : j + 1 \in 1 .. n + 1 /\ run[j + 1] \in Stage
    BY <1>1, <1>2
  <1>4. later \in [1 .. n -> Stage] /\ \A j \in 1 .. n : later[j] = run[j + 1]
    BY <1>3
  <1> HIDE DEF later
  <1>5. a \in Stage /\ run[2] \in Stage /\ Does(Head(todo), a, run[2])
    BY <1>1, <1>2
  <1>6. later[1] = run[2] /\ later[n] = goal
    BY <1>1, <1>2, <1>4
  <1>7. ASSUME NEW j \in 1 .. n - 1 PROVE Does(t[j], later[j], later[j + 1])
    <2>1. j \in 1 .. n /\ j + 1 \in 1 .. n
      BY <1>2
    <2> QED BY <1>1, <1>2, <1>4, <2>1
  <1>8. Plan(t, run[2], goal)
    <2>1. Len(t) + 1 = n /\ Len(t) = n - 1
      BY <1>2
    <2> QED BY <1>4, <1>6, <1>7, <2>1 DEF Plan
  <1> QED BY <1>5, <1>8 DEF t

\* One step more in front.
LEMMA PlanCons ==
  ASSUME NEW S, NEW todo \in Seq(S), NEW step \in S, NEW a \in Stage, NEW b, NEW goal,
         Does(step, a, b), Plan(todo, b, goal)
  PROVE  Plan(<<step>> \o todo, a, goal)
  <1> DEFINE n == Len(todo)
             t == <<step>> \o todo
  <1>1. PICK run : /\ run \in [1 .. n + 1 -> Stage]
                   /\ run[1] = b /\ run[n + 1] = goal
                   /\ \A j \in 1 .. n : Does(todo[j], run[j], run[j + 1])
    BY DEF Plan
  <1>2. /\ n \in Nat /\ Len(t) = n + 1 /\ t[1] = step
        /\ \A j \in 1 .. n : t[j + 1] = todo[j]
    OBVIOUS
  <1> HIDE DEF n, t
  <1> DEFINE longer == [j \in 1 .. n + 2 |-> IF j = 1 THEN a ELSE run[j - 1]]
  <1>3. \A j \in 2 .. n + 2 : j - 1 \in 1 .. n + 1 /\ run[j - 1] \in Stage
    BY <1>1, <1>2
  <1>4. /\ longer \in [1 .. n + 2 -> Stage] /\ longer[1] = a
        /\ \A j \in 2 .. n + 2 : longer[j] = run[j - 1]
    <2>1. \A j \in 1 .. n + 2 : j # 1 => j \in 2 .. n + 2
      BY <1>2
    <2>2. 1 \in 1 .. n + 2 /\ \A j \in 2 .. n + 2 : j \in 1 .. n + 2 /\ j # 1
      BY <1>2
    <2> QED BY <1>3, <2>1, <2>2
  <1> HIDE DEF longer
  <1>5. longer[n + 2] = goal /\ longer[2] = b
    BY <1>1, <1>2, <1>4
  <1>6. ASSUME NEW j \in 1 .. n + 1 PROVE Does(t[j], longer[j], longer[j + 1])
    <2>1. CASE j = 1
      BY <1>2, <1>4, <1>5, <2>1
    <2>2. CASE j # 1
      <3>1. j - 1 \in 1 .. n /\ j \in 2 .. n + 2 /\ j + 1 \in 2 .. n + 2
            /\ (j - 1) + 1 = j /\ (j + 1) - 1 = j
        BY <1>2, <2>2
      <3>2. t[j] = todo[j - 1] /\ longer[j] = run[j - 1] /\ longer[j + 1] = run[j]
        BY <1>2, <1>4, <3>1
      <3> QED BY <1>1, <3>1, <3>2
    <2> QED BY <2>1, <2>2
  <1>7. Plan(t, a, goal)
    <2>1. Len(t) + 1 = n + 2 /\ Len(t) = n + 1
      BY <1>2
    <2> QED BY <1>4, <1>5, <1>6, <2>1 DEF Plan
  <1> QED BY <1>7 DEF t

\* From the j-th of `kids` on, with `w` after them and `g` before.
Onward(kids, w, j) == SubSeq(kids, j, Len(kids)) \o w

Behind(kids, g, j) == g \o SubSeq(kids, 1, j - 1)

\* A slice is a sequence of its elements.
LEMMA SliceParts ==
  ASSUME NEW S, NEW s \in Seq(S), NEW m \in 1 .. Len(s) + 1, NEW n \in 0 .. Len(s)
  PROVE  /\ SubSeq(s, m, n) \in Seq(S)
         /\ Len(SubSeq(s, m, n)) = IF m <= n THEN n - m + 1 ELSE 0
         /\ \A i \in 1 .. n - m + 1 : SubSeq(s, m, n)[i] = s[m + i - 1]
  <1>1. m \in Int /\ n \in Int /\ \A i \in m .. n : s[i] \in S
    OBVIOUS
  <1> QED BY <1>1, SubSeqProperties

\* The same two, element by element.
IsOnward(s, kids, w, j) ==
  /\ Len(s) = Len(kids) - j + 1 + Len(w)
  /\ \A i \in 1 .. Len(kids) - j + 1 : s[i] = kids[j + i - 1]
  /\ \A i \in 1 .. Len(w) : s[Len(kids) - j + 1 + i] = w[i]

IsBehind(s, kids, g, j) ==
  /\ Len(s) = Len(g) + j - 1
  /\ \A i \in 1 .. Len(g) : s[i] = g[i]
  /\ \A i \in 1 .. j - 1 : s[Len(g) + i] = kids[i]

\* Onward is what IsOnward says ...
LEMMA OnwardParts ==
  ASSUME NEW S, NEW kids \in Seq(S), NEW w \in Seq(S), NEW j \in 1 .. Len(kids) + 1
  PROVE  Onward(kids, w, j) \in Seq(S) /\ IsOnward(Onward(kids, w, j), kids, w, j)
  <1> DEFINE k == Len(kids)
             u == SubSeq(kids, j, k)
  <1>1. k \in Nat /\ k \in 0 .. k
    OBVIOUS
  <1>2. /\ u \in Seq(S) /\ Len(u) = k - j + 1
        /\ \A i \in 1 .. k - j + 1 : u[i] = kids[j + i - 1]
    BY <1>1, SliceParts
  <1>3. Onward(kids, w, j) = u \o w
    BY DEF Onward
  <1> HIDE DEF k, u
  <1>4a. u \in Seq(S)
    BY <1>2
  <1>4. u \o w \in Seq(S)
    BY <1>4a, ConcatProperties
  <1>5. /\ Len(u \o w) = Len(u) + Len(w)
        /\ \A i \in 1 .. Len(u) : (u \o w)[i] = u[i]
        /\ \A i \in 1 .. Len(w) : (u \o w)[Len(u) + i] = w[i]
    BY <1>4a, ConcatParts
  <1> QED BY <1>2, <1>3, <1>4, <1>5 DEF k, IsOnward

\* ... and Behind what IsBehind says.
LEMMA BehindParts ==
  ASSUME NEW S, NEW kids \in Seq(S), NEW g \in Seq(S), NEW j \in 1 .. Len(kids) + 1
  PROVE  Behind(kids, g, j) \in Seq(S) /\ IsBehind(Behind(kids, g, j), kids, g, j)
  <1> DEFINE u == SubSeq(kids, 1, j - 1)
  <1>1. j - 1 \in 0 .. Len(kids) /\ 1 \in 1 .. Len(kids) + 1
    OBVIOUS
  <1>2. /\ u \in Seq(S) /\ Len(u) = j - 1
        /\ \A i \in 1 .. j - 1 : u[i] = kids[i]
    BY <1>1, SliceParts
  <1>3. Behind(kids, g, j) = g \o u
    BY DEF Behind
  <1> HIDE DEF u
  <1>4a. u \in Seq(S)
    BY <1>2
  <1>4. g \o u \in Seq(S)
    BY <1>4a, ConcatProperties
  <1>5. /\ Len(g \o u) = Len(g) + Len(u)
        /\ \A i \in 1 .. Len(g) : (g \o u)[i] = g[i]
        /\ \A i \in 1 .. Len(u) : (g \o u)[Len(g) + i] = u[i]
    BY <1>4a, ConcatParts
  <1>6. Len(g) \in Nat
    OBVIOUS
  <1> QED BY <1>2, <1>3, <1>4, <1>5, <1>6 DEF IsBehind

\* The ends of both: nothing passed, everything passed.
LEMMA OnwardEnds ==
  ASSUME NEW S, NEW kids \in Seq(S), NEW w \in Seq(S)
  PROVE  Onward(kids, w, 1) = kids \o w /\ Onward(kids, w, Len(kids) + 1) = w
  <1>1. SubSeq(kids, 1, Len(kids)) = kids
    BY SubSeqFull
  <1>2. SubSeq(kids, Len(kids) + 1, Len(kids)) = << >>
    <2>1. Len(kids) + 1 \in Int /\ Len(kids) \in Int /\ Len(kids) < Len(kids) + 1
      OBVIOUS
    <2> QED BY <2>1, SubSeqEmpty
  <1>3. << >> \o w = w
    BY ConcatEmptySeq
  <1> QED BY <1>1, <1>2, <1>3 DEF Onward

\* ... of Behind.
LEMMA BehindEnds ==
  ASSUME NEW S, NEW kids \in Seq(S), NEW g \in Seq(S)
  PROVE  Behind(kids, g, 1) = g /\ Behind(kids, g, Len(kids) + 1) = g \o kids
  <1>1. SubSeq(kids, 1, Len(kids)) = kids /\ (Len(kids) + 1) - 1 = Len(kids)
    BY SubSeqFull
  <1>2. SubSeq(kids, 1, 0) = << >> /\ 1 - 1 = 0
    BY SubSeqEmpty
  <1>3. g \o << >> = g
    BY ConcatEmptySeq
  <1> QED BY <1>1, <1>2, <1>3 DEF Behind

\* One kid is read.
LEMMA OnwardStep ==
  ASSUME NEW S, NEW kids \in Seq(S), NEW w \in Seq(S), NEW j \in 1 .. Len(kids)
  PROVE  /\ Onward(kids, w, j) # << >>
         /\ Head(Onward(kids, w, j)) = kids[j]
         /\ Tail(Onward(kids, w, j)) = Onward(kids, w, j + 1)
  <1> DEFINE k == Len(kids)
             a == Onward(kids, w, j)
             b == Onward(kids, w, j + 1)
  <1>1. k \in Nat /\ Len(w) \in Nat /\ j \in 1 .. k + 1 /\ j + 1 \in 1 .. k + 1
    OBVIOUS
  <1>2. /\ a \in Seq(S) /\ Len(a) = k - j + 1 + Len(w)
        /\ \A i \in 1 .. k - j + 1 : a[i] = kids[j + i - 1]
        /\ \A i \in 1 .. Len(w) : a[k - j + 1 + i] = w[i]
    <2>1. a \in Seq(S) /\ IsOnward(a, kids, w, j)
      BY <1>1, OnwardParts
    <2> QED BY <2>1 DEF IsOnward
  <1>3. /\ b \in Seq(S) /\ Len(b) = k - (j + 1) + 1 + Len(w)
        /\ \A i \in 1 .. k - (j + 1) + 1 : b[i] = kids[(j + 1) + i - 1]
        /\ \A i \in 1 .. Len(w) : b[k - (j + 1) + 1 + i] = w[i]
    <2>1. b \in Seq(S) /\ IsOnward(b, kids, w, j + 1)
      BY <1>1, OnwardParts
    <2> QED BY <2>1 DEF IsOnward
  <1> HIDE DEF a, b, k
  <1>4. j \in Nat /\ j >= 1 /\ j <= k
    BY DEF k
  <1>5. a # << >> /\ Head(a) = a[1] /\ 1 \in 1 .. k - j + 1 /\ j + 1 - 1 = j
    BY <1>1, <1>2, <1>4
  <1>6. /\ Tail(a) \in Seq(S) /\ Len(Tail(a)) = Len(a) - 1
        /\ \A i \in 1 .. Len(a) - 1 : Tail(a)[i] = a[i + 1]
    BY <1>2, <1>5, HeadTailProperties
  <1>7. Len(Tail(a)) = Len(b)
    BY <1>1, <1>2, <1>3, <1>4, <1>6
  <1>8. ASSUME NEW i \in 1 .. Len(b) PROVE Tail(a)[i] = b[i]
    <2>1. Tail(a)[i] = a[i + 1]
      BY <1>6, <1>7
    <2>2. CASE i <= k - j
      <3>1. /\ i + 1 \in 1 .. k - j + 1 /\ i \in 1 .. k - (j + 1) + 1
            /\ j + (i + 1) - 1 = (j + 1) + i - 1
        BY <1>1, <1>4, <2>2
      <3> QED BY <1>2, <1>3, <2>1, <3>1, ZenonT(30)
    <2>3. CASE ~ (i <= k - j)
      <3> DEFINE l == i - (k - j)
      <3>1. /\ l \in 1 .. Len(w) /\ i = k - (j + 1) + 1 + l /\ i + 1 = k - j + 1 + l
        BY <1>1, <1>3, <1>4, <2>3
      <3> HIDE DEF l
      <3> QED BY <1>2, <1>3, <2>1, <3>1
    <2> QED BY <2>2, <2>3
  <1>9. Tail(a) = b
    BY <1>3, <1>6, <1>7, <1>8, SeqEqual
  <1> QED BY <1>2, <1>5, <1>9 DEF a, b

\* ... and is behind.
LEMMA BehindStep ==
  ASSUME NEW S, NEW kids \in Seq(S), NEW g \in Seq(S), NEW j \in 1 .. Len(kids)
  PROVE  Behind(kids, g, j + 1) = Append(Behind(kids, g, j), kids[j])
  <1> DEFINE k == Len(kids)
             a == Behind(kids, g, j)
             b == Behind(kids, g, j + 1)
             c == Append(a, kids[j])
  <1>1. k \in Nat /\ Len(g) \in Nat /\ j \in 1 .. k + 1 /\ j + 1 \in 1 .. k + 1 /\ kids[j] \in S
    OBVIOUS
  <1>2. /\ a \in Seq(S) /\ Len(a) = Len(g) + j - 1
        /\ \A i \in 1 .. Len(g) : a[i] = g[i]
        /\ \A i \in 1 .. j - 1 : a[Len(g) + i] = kids[i]
    <2>1. a \in Seq(S) /\ IsBehind(a, kids, g, j)
      BY <1>1, BehindParts
    <2> QED BY <2>1 DEF IsBehind
  <1>3. /\ b \in Seq(S) /\ Len(b) = Len(g) + (j + 1) - 1
        /\ \A i \in 1 .. Len(g) : b[i] = g[i]
        /\ \A i \in 1 .. (j + 1) - 1 : b[Len(g) + i] = kids[i]
    <2>1. b \in Seq(S) /\ IsBehind(b, kids, g, j + 1)
      BY <1>1, BehindParts
    <2> QED BY <2>1 DEF IsBehind
  <1> HIDE DEF a, b, k
  <1>4. /\ c \in Seq(S) /\ Len(c) = Len(a) + 1 /\ c[Len(a) + 1] = kids[j]
        /\ \A i \in 1 .. Len(a) : c[i] = a[i]
    BY <1>1, <1>2, AppendProperties
  <1> HIDE DEF c
  <1>5. j \in Nat /\ j >= 1 /\ Len(a) \in Nat
    BY <1>2
  <1>6. Len(b) = Len(c)
    BY <1>1, <1>2, <1>3, <1>4, <1>5
  <1>7. ASSUME NEW i \in 1 .. Len(b) PROVE b[i] = c[i]
    <2>1. CASE i <= Len(g)
      <3>1. i \in 1 .. Len(g) /\ i \in 1 .. Len(a)
        BY <1>1, <1>2, <1>5, <2>1
      <3> QED BY <1>2, <1>3, <1>4, <3>1
    <2>2. CASE ~ (i <= Len(g))
      <3> DEFINE l == i - Len(g)
      <3>1. l \in 1 .. (j + 1) - 1 /\ i = Len(g) + l
        BY <1>1, <1>3, <1>5, <2>2
      <3>2. CASE l = j
        <4>1. i = Len(a) + 1
          BY <1>1, <1>2, <1>5, <3>1, <3>2
        <4> QED BY <1>3, <1>4, <3>1, <3>2, <4>1
      <3>3. CASE l # j
        <4>1. l \in 1 .. j - 1 /\ i \in 1 .. Len(a)
          BY <1>1, <1>2, <1>5, <3>1, <3>3
        <4> HIDE DEF l
        <4> QED BY <1>2, <1>3, <1>4, <3>1, <4>1
      <3> QED BY <3>2, <3>3
    <2> QED BY <2>1, <2>2
  <1>8. b = c
    BY <1>3, <1>4, <1>6, <1>7, SeqEqual
  <1> QED BY <1>8 DEF a, b, c

\* The kids of a new entry are read one after another.
LEMMA PlanKids ==
  ASSUME NEW todo \in Seq(Step), NEW kids \in Seq(Occ), NEW b \in BOOLEAN,
         NEW w \in Seq(Occ), NEW g \in Seq(Occ), NEW open \in SUBSET Entries, NEW goal,
         Plan(todo, [left |-> w, got |-> g \o kids, open |-> open], goal)
  PROVE  Plan(Occurrences(kids, b) \o todo,
              [left |-> kids \o w, got |-> g, open |-> open], goal)
  <1> DEFINE k == Len(kids)
             n == Len(todo)
             at(j) == [left |-> Onward(kids, w, j), got |-> Behind(kids, g, j), open |-> open]
             occs == Occurrences(kids, b)
             t == occs \o todo
  <1>1. /\ at(1) = [left |-> kids \o w, got |-> g, open |-> open]
        /\ at(k + 1) = [left |-> w, got |-> g \o kids, open |-> open]
    <2>1. Onward(kids, w, 1) = kids \o w /\ Onward(kids, w, k + 1) = w
      BY OnwardEnds
    <2>2. Behind(kids, g, 1) = g /\ Behind(kids, g, k + 1) = g \o kids
      BY BehindEnds
    <2> QED BY <2>1, <2>2
  <1>2. PICK run : /\ run \in [1 .. n + 1 -> Stage]
                   /\ run[1] = at(k + 1) /\ run[n + 1] = goal
                   /\ \A j \in 1 .. n : Does(todo[j], run[j], run[j + 1])
    BY <1>1 DEF Plan
  <1>3. k \in Nat /\ n \in Nat
    OBVIOUS
  <1>4. ASSUME NEW j \in 1 .. k + 1 PROVE at(j) \in Stage
    BY OnwardParts, BehindParts DEF Stage
  <1>5. /\ occs \in Seq(Step) /\ Len(occs) = k
        /\ \A j \in 1 .. k : occs[j].op = "occ" /\ occs[j].pos = kids[j][1]
    <2>1. occs \in Seq(Step)
      BY OccurrencesType DEF Occ
    <2> QED BY <2>1 DEF Occurrences, Occurrence
  <1>6. ASSUME NEW j \in 1 .. k PROVE Does(occs[j], at(j), at(j + 1))
    <2>1. /\ Onward(kids, w, j) # << >> /\ Head(Onward(kids, w, j)) = kids[j]
          /\ Tail(Onward(kids, w, j)) = Onward(kids, w, j + 1)
      BY OnwardStep
    <2>2. Behind(kids, g, j + 1) = Append(Behind(kids, g, j), kids[j])
      BY BehindStep
    <2> QED BY <1>5, <2>1, <2>2 DEF Does, Takes
  <1>7. /\ Len(t) = k + n /\ \A j \in 1 .. k : t[j] = occs[j]
        /\ \A j \in 1 .. n : t[k + j] = todo[j]
    <2>1. occs \in Seq(Step) /\ Len(occs) = k
      BY <1>5
    <2> HIDE DEF occs, k
    <2>2. /\ Len(occs \o todo) = Len(occs) + Len(todo)
          /\ \A i \in 1 .. Len(occs) : (occs \o todo)[i] = occs[i]
          /\ \A i \in 1 .. Len(todo) : (occs \o todo)[Len(occs) + i] = todo[i]
      <3>1. occs \in Seq(Step) /\ todo \in Seq(Step)
        BY <2>1
      <3> HIDE DEF n, t, at
      <3> QED BY <3>1, ConcatParts
    <2> QED BY <2>1, <2>2
  <1> HIDE DEF k, n, occs, t, at
  <1> DEFINE longer == [j \in 1 .. k + n + 1 |-> IF j <= k THEN at(j) ELSE run[j - k]]
  <1>8. /\ longer \in [1 .. k + n + 1 -> Stage]
        /\ \A j \in 1 .. k : longer[j] = at(j)
        /\ \A j \in 1 .. n + 1 : longer[k + j] = run[j]
    <2>1. \A j \in 1 .. k : j \in 1 .. k + n + 1 /\ j \in 1 .. k + 1 /\ j <= k
      BY <1>3
    <2>2. \A j \in 1 .. k + n + 1 : ~ (j <= k) => j - k \in 1 .. n + 1
      BY <1>3
    <2>3. \A j \in 1 .. n + 1 : k + j \in 1 .. k + n + 1 /\ ~ (k + j <= k) /\ (k + j) - k = j
      BY <1>3
    <2>4. \A j \in 1 .. k + n + 1 : j <= k => j \in 1 .. k + 1
      BY <1>3
    <2> QED BY <1>2, <1>4, <2>1, <2>2, <2>3, <2>4
  <1> HIDE DEF longer
  <1>9. longer[1] = at(1) /\ longer[k + n + 1] = goal /\ longer[k + 1] = at(k + 1)
    <2>1. longer[k + 1] = at(k + 1)
      BY <1>2, <1>3, <1>8
    <2>2. longer[k + (n + 1)] = goal /\ k + (n + 1) = k + n + 1
      BY <1>2, <1>3, <1>8
    <2>3. CASE k = 0
      BY <1>3, <2>1, <2>2, <2>3
    <2>4. CASE k # 0
      BY <1>3, <1>8, <2>1, <2>2, <2>4
    <2> QED BY <2>3, <2>4
  <1>10. ASSUME NEW j \in 1 .. k + n PROVE Does(t[j], longer[j], longer[j + 1])
    <2>1. CASE j < k
      <3>1. j \in 1 .. k /\ j + 1 \in 1 .. k
        BY <1>3, <2>1
      <3> QED BY <1>6, <1>7, <1>8, <3>1
    <2>2. CASE j = k
      <3>1. j \in 1 .. k
        BY <1>3, <2>2
      <3> QED BY <1>6, <1>7, <1>8, <1>9, <2>2, <3>1
    <2>3. CASE j > k
      <3> DEFINE i == j - k
      <3>1. i \in 1 .. n /\ i \in 1 .. n + 1 /\ i + 1 \in 1 .. n + 1 /\ j = k + i /\ j + 1 = k + (i + 1)
        BY <1>3, <2>3
      <3> HIDE DEF i
      <3>2. t[j] = todo[i] /\ longer[j] = run[i] /\ longer[j + 1] = run[i + 1]
        BY <1>7, <1>8, <3>1
      <3> QED BY <1>2, <3>1, <3>2
    <2> QED BY <1>3, <2>1, <2>2, <2>3
  <1>11. Plan(t, at(1), goal)
    BY <1>7, <1>8, <1>9, <1>10 DEF Plan
  <1> QED BY <1>1, <1>11 DEF t, occs

-----------------------------------------------------------------------------
(***************************************************************************)
(* Where a reader stands.                                                  *)
(***************************************************************************)
\* A cell that was added is there in the end.
LEMMA ContinuesNext ==
  ASSUME NEW S, NEW s \in Seq(S), NEW x \in S, NEW t \in Seq(S), Continues(Append(s, x), t)
  PROVE  Len(s) < Len(t) /\ t[Len(s) + 1] = x
  BY DEF Continues

\* The next occurrence the reader comes to is the next one the writer wrote.
LEMMA NextOccurrence ==
  ASSUME NEW row \in ReadRow, row.todo # << >>, Head(row.todo).op = "occ",
         row.phase # "register",
         NEW x \in Locals, NEW h, NEW m, NEW got \in Seq(Occ), NEW open \in SUBSET Entries,
         TracksBy(row, x, h, m, got, open)
  PROVE  /\ m \in Moment /\ KeysAreDense(m.dict) /\ m.todo # << >> /\ OnLog(After(m), row.wire)
         /\ Head(m.todo) = <<Pos(row), Head(m.todo)[2]>>
         /\ Pos(row) \in Position /\ Head(m.todo)[2] \in Object
         /\ Plan(Tail(row.todo),
                 [left |-> Tail(m.todo), got |-> Append(got, Head(m.todo)), open |-> open],
                 Goal(row))
  <1> DEFINE a == [left |-> m.todo, got |-> got, open |-> open]
             goal == Goal(row)
  <1>1. m \in Moment /\ KeysAreDense(m.dict) /\ OnLog(m, row.wire)
    BY OnLogNext DEF TracksBy
  <1>2. row.todo \in Seq(Step) /\ Plan(row.todo, a, goal)
    BY DEF ReadRow, TracksBy, Rest
  <1>3. a.left = m.todo /\ a.got = got /\ a.open = open
    OBVIOUS
  <1> HIDE DEF a, goal
  <1>4. PICK b \in Stage : Does(Head(row.todo), a, b) /\ Plan(Tail(row.todo), b, goal)
    BY <1>2, PlanTail
  <1>5. Takes(Head(row.todo), a, b)
    BY <1>4 DEF Does, Collects
  <1>6. /\ m.todo # << >> /\ Head(m.todo)[1] = Pos(row)
        /\ b.left = Tail(m.todo) /\ b.got = Append(got, Head(m.todo)) /\ b.open = open
    BY <1>3, <1>5 DEF Takes, Pos
  <1>7. b = [left |-> Tail(m.todo), got |-> Append(got, Head(m.todo)), open |-> open]
    BY <1>6 DEF Stage
  <1>8. Head(m.todo) \in Occ /\ Head(m.todo)[1] \in Position /\ Head(m.todo)[2] \in Object
    BY <1>1, <1>6, MomentOcc
  <1>9. Head(m.todo) = <<Pos(row), Head(m.todo)[2]>>
    BY <1>6, <1>8 DEF Occ
  <1>10. OnLog(After(m), row.wire)
    BY <1>1, <1>6, OnLogNext
  <1> QED BY <1>1, <1>4, <1>6, <1>7, <1>8, <1>9, <1>10 DEF goal

\* Its key is there, and says of the registry what the object was to the writer.
LEMMA NextCells ==
  ASSUME NEW row \in ReadRow, row.todo # << >>, Head(row.todo).op = "occ",
         row.phase # "register",
         NEW x \in Locals, NEW h, NEW m, NEW got \in Seq(Occ), NEW open \in SUBSET Entries,
         TracksBy(row, x, h, m, got, open)
  PROVE  LET p == Pos(row) o == Head(m.todo)[2] IN
         /\ HasKeyAt(row, p) /\ KeyAt(row, p) = KeyFor(m.dict, p, o) /\ KeyAt(row, p) \in Nat
         /\ New(m) => /\ HasPayloadAt(row, p) /\ PayloadAt(row, p) = o
                      /\ IsNew(x.read, p, KeyAt(row, p)) /\ ~ IsRepeat(x.read, p, KeyAt(row, p))
         /\ ~ New(m) => /\ IsRepeat(x.read, p, KeyAt(row, p))
                        /\ m.dict.keys[<<p, o>>] = KeyAt(row, p)
                        /\ <<p, o>> \in DOMAIN m.dict.keys
  <1> DEFINE p == Pos(row)
             o == Head(m.todo)[2]
             key == KeyFor(m.dict, p, o)
             w == row.wire
  <1>1. /\ m \in Moment /\ KeysAreDense(m.dict) /\ m.todo # << >>
        /\ p \in Position /\ o \in Object /\ Head(m.todo)[1] = p
        /\ OnLog(m, w)
    <2>1. OnLog(m, w)
      BY DEF TracksBy
    <2>2. Head(m.todo) = <<p, o>>
      BY NextOccurrence
    <2>3. <<p, o>>[1] = p
      OBVIOUS
    <2>4. /\ m \in Moment /\ KeysAreDense(m.dict) /\ m.todo # << >>
          /\ p \in Position /\ o \in Object
      BY NextOccurrence
    <2> HIDE DEF p, o
    <2> QED BY <2>1, <2>2, <2>3, <2>4
  <1>2. Before(After(m), w)
    BY <1>1, OnLogNext
  <1>3. w.keys[p] \in Seq(Nat) /\ w.payload[p] \in Seq(Object)
    BY <1>1 DEF ReadRow, Wire
  <1>4. m.keys[p] \in Seq(Nat) /\ m.payload[p] \in Seq(Object) /\ m.dict \in WriteState
    BY <1>1 DEF Moment
  <1>5. key \in Nat
    BY <1>1, <1>4, KeyType
  <1>6. New(m) <=> ~ Known(m.dict, p, o)
    BY <1>1, SMTT(30) DEF New
  <1>7. /\ After(m).keys[p] = Append(m.keys[p], key)
        /\ New(m) => After(m).payload[p] = Append(m.payload[p], o)
    BY <1>1, AfterAdds
  <1>8. /\ row.keysRead[p] = Len(m.keys[p]) /\ row.payloadsRead[p] = Len(m.payload[p])
        /\ Len(x.read[p]) = m.dict.counts[p]
    BY <1>1 DEF TracksBy, InStep
  <1>9. Continues(After(m).keys[p], w.keys[p]) /\ Continues(After(m).payload[p], w.payload[p])
    BY <1>1, <1>2 DEF Before
  <1>10. /\ m.dict.counts[p] \in Nat
         /\ New(m) => key = m.dict.counts[p]
         /\ ~ New(m) => key = m.dict.keys[<<p, o>>] /\ <<p, o>> \in DOMAIN m.dict.keys
    BY <1>1, <1>4, <1>6, WriteStateParts DEF KeyFor, Known
  <1>11. ~ New(m) => key < m.dict.counts[p]
    <2>1. \A y \in DOMAIN m.dict.keys : m.dict.keys[y] < m.dict.counts[y[1]]
      BY <1>1 DEF KeysAreDense
    <2>2. ~ New(m) => m.dict.keys[<<p, o>>] < m.dict.counts[<<p, o>>[1]]
      BY <1>10, <2>1
    <2>3. <<p, o>>[1] = p
      OBVIOUS
    <2> QED BY <1>10, <2>2, <2>3
  <1> HIDE DEF p, o, key, w
  <1>12. Len(m.keys[p]) < Len(w.keys[p]) /\ w.keys[p][Len(m.keys[p]) + 1] = key
    <2>1. m.keys[p] \in Seq(Nat) /\ w.keys[p] \in Seq(Nat) /\ Continues(Append(m.keys[p], key), w.keys[p])
      BY <1>3, <1>4, <1>7, <1>9
    <2> DEFINE s == m.keys[p]
               u == w.keys[p]
    <2>2. s \in Seq(Nat) /\ u \in Seq(Nat) /\ Continues(Append(s, key), u)
      BY <2>1
    <2> HIDE DEF s, u
    <2>3. Len(s) < Len(u) /\ u[Len(s) + 1] = key
      <3> DEFINE v == Append(s, key)
      <3>1. Len(v) = Len(s) + 1 /\ v[Len(s) + 1] = key /\ Len(s) \in Nat /\ Len(u) \in Nat
        BY <1>5, <2>2, AppendProperties
      <3>2. Continues(v, u)
        BY <2>2
      <3> HIDE DEF v
      <3>3. Len(v) <= Len(u) /\ \A i \in 1 .. Len(v) : u[i] = v[i]
        BY <3>2 DEF Continues
      <3>4. Len(s) + 1 \in 1 .. Len(v)
        BY <3>1
      <3> QED BY <3>1, <3>3, <3>4
    <2> QED BY <2>3 DEF s, u
  <1>13. New(m) => Len(m.payload[p]) < Len(w.payload[p]) /\ w.payload[p][Len(m.payload[p]) + 1] = o
    <2> SUFFICES ASSUME New(m)
                 PROVE  Len(m.payload[p]) < Len(w.payload[p]) /\ w.payload[p][Len(m.payload[p]) + 1] = o
      OBVIOUS
    <2>1. /\ m.payload[p] \in Seq(Object) /\ w.payload[p] \in Seq(Object)
          /\ Continues(Append(m.payload[p], o), w.payload[p])
      BY <1>3, <1>4, <1>7, <1>9
    <2> QED BY <1>1, <2>1, ContinuesNext
  <1>14. HasKeyAt(row, p) /\ KeyAt(row, p) = key
    BY <1>8, <1>12 DEF HasKeyAt, KeyAt, w
  <1>15. New(m) => HasPayloadAt(row, p) /\ PayloadAt(row, p) = o
    BY <1>8, <1>13 DEF HasPayloadAt, PayloadAt, w
  <1>16. New(m) => IsNew(x.read, p, key) /\ ~ IsRepeat(x.read, p, key)
    BY <1>5, <1>8, <1>10 DEF IsNew, IsRepeat
  <1>17. ~ New(m) => IsRepeat(x.read, p, key)
    BY <1>8, <1>11 DEF IsRepeat
  <1> QED BY <1>5, <1>10, <1>14, <1>15, <1>16, <1>17 DEF p, o, key, w

\* One more value made of one more occurrence.
LEMMA SameAppend ==
  ASSUME NEW h, NEW S, NEW vals \in Seq(Nat), NEW got \in Seq(S), NEW id, Same(h, vals, got, id),
         NEW ptr \in Nat, NEW occ \in S,
         ptr # NoPtr => ptr \in DOMAIN h /\ h[ptr].row = id /\ <<h[ptr].pos, h[ptr].obj>> = occ
  PROVE  Same(h, Append(vals, ptr), Append(got, occ), id)
  <1> DEFINE v == Append(vals, ptr)
             g == Append(got, occ)
             n == Len(vals)
  <1>1. /\ n \in Nat /\ DOMAIN vals = 1 .. n /\ Len(got) = n
        /\ \A i \in 1 .. n : vals[i] # NoPtr =>
             /\ vals[i] \in DOMAIN h /\ h[vals[i]].row = id
             /\ <<h[vals[i]].pos, h[vals[i]].obj>> = got[i]
    BY DEF Same
  <1>2. /\ Len(v) = n + 1 /\ DOMAIN v = 1 .. n + 1 /\ v[n + 1] = ptr
        /\ \A i \in 1 .. n : v[i] = vals[i]
    OBVIOUS
  <1>3. /\ Len(g) = n + 1 /\ g[n + 1] = occ /\ \A i \in 1 .. n : g[i] = got[i]
    BY <1>1
  <1> HIDE DEF v, g, n
  <1>4. ASSUME NEW i \in 1 .. n + 1, v[i] # NoPtr
        PROVE  /\ v[i] \in DOMAIN h /\ h[v[i]].row = id
               /\ <<h[v[i]].pos, h[v[i]].obj>> = g[i]
    <2>1. CASE i = n + 1
      BY <1>2, <1>3, <1>4, <2>1
    <2>2. CASE i # n + 1
      <3>1. i \in 1 .. n
        BY <1>1, <2>2
      <3> QED BY <1>1, <1>2, <1>3, <1>4, <3>1
    <2> QED BY <2>1, <2>2
  <1>5. Same(h, v, g, id)
    BY <1>2, <1>3, <1>4 DEF Same
  <1> QED BY <1>5 DEF v, g

\* Values stay what they are while the heap grows.
LEMMA SameGrows ==
  ASSUME NEW h, NEW g, Grows(h, g), NEW ptrs, NEW occs, NEW id, Same(h, ptrs, occs, id)
  PROVE  Same(g, ptrs, occs, id)
  BY DEF Same, Grows

\* The values of the kids are the last ones.
LEMMA SameSplit ==
  ASSUME NEW h, NEW vals \in Seq(Nat), NEW S, NEW pre \in Seq(S), NEW kids \in Seq(S), NEW id,
         Same(h, vals, pre \o kids, id)
  PROVE  /\ Same(h, SubSeq(vals, 1, Len(vals) - Len(kids)), pre, id)
         /\ Same(h, SubSeq(vals, Len(vals) - Len(kids) + 1, Len(vals)), kids, id)
         /\ SubSeq(vals, 1, Len(vals) - Len(kids)) \in Seq(Nat)
  <1> DEFINE n == Len(pre)
             k == Len(kids)
             l == Len(vals)
             g == pre \o kids
             u == SubSeq(vals, 1, l - k)
             v == SubSeq(vals, l - k + 1, l)
  <1>1. /\ n \in Nat /\ k \in Nat /\ l \in Nat /\ DOMAIN vals = 1 .. l
    OBVIOUS
  <1>2. /\ Len(g) = n + k
        /\ \A i \in 1 .. n : g[i] = pre[i]
        /\ \A i \in 1 .. k : g[n + i] = kids[i]
    BY ConcatParts
  <1>3. /\ l = n + k
        /\ \A i \in 1 .. l : vals[i] # NoPtr =>
             /\ vals[i] \in DOMAIN h /\ h[vals[i]].row = id
             /\ <<h[vals[i]].pos, h[vals[i]].obj>> = g[i]
    BY <1>1, <1>2 DEF Same
  <1>4. /\ u \in Seq(Nat) /\ Len(u) = n /\ \A i \in 1 .. n : u[i] = vals[i]
    <2>1. l - k = n /\ n \in 0 .. Len(vals) /\ 1 \in 1 .. Len(vals) + 1
          /\ n - 1 + 1 = n /\ (\A i \in 1 .. n : 1 + i - 1 = i)
      BY <1>1, <1>3
    <2>2. /\ SubSeq(vals, 1, n) \in Seq(Nat) /\ Len(SubSeq(vals, 1, n)) = n
          /\ \A i \in 1 .. n : SubSeq(vals, 1, n)[i] = vals[i]
      BY <2>1, <1>1, Prefix
    <2> QED BY <2>1, <2>2
  <1>5. /\ Len(v) = k /\ DOMAIN v = 1 .. k /\ \A i \in 1 .. k : v[i] = vals[n + i]
    <2>1. /\ n + 1 \in 1 .. Len(vals) + 1 /\ l \in 0 .. Len(vals) /\ l - k + 1 = n + 1
      BY <1>1, <1>3
    <2> DEFINE a == n + 1
               s == SubSeq(vals, a, l)
    <2>2. /\ s \in Seq(Nat) /\ Len(s) = (IF a <= l THEN l - a + 1 ELSE 0)
          /\ \A i \in 1 .. l - a + 1 : s[i] = vals[a + i - 1]
      BY <2>1, SliceParts
    <2>3. v = s
      BY <2>1
    <2> HIDE DEF s, v, l
    <2>4. Len(s) = k
      BY <1>1, <1>3, <2>2
    <2>5. \A i \in 1 .. k : i \in 1 .. l - a + 1 /\ a + i - 1 = n + i
      BY <1>1, <1>3
    <2>6. DOMAIN s = 1 .. Len(s)
      BY <2>2
    <2> QED BY <2>2, <2>3, <2>4, <2>5, <2>6
  <1>6. DOMAIN u = 1 .. n
    BY <1>4
  <1> HIDE DEF n, k, l, g, u, v
  <1>7. Same(h, u, pre, id)
    <2>1. \A i \in 1 .. n : i \in 1 .. l
      BY <1>1, <1>3
    <2> QED BY <1>2, <1>3, <1>4, <1>6, <2>1 DEF Same, n
  <1>8. Same(h, v, kids, id)
    <2>1. \A i \in 1 .. k : n + i \in 1 .. l
      BY <1>1, <1>3
    <2>2. \A i \in 1 .. k : v[i] = vals[n + i] /\ kids[i] = g[n + i]
      BY <1>2, <1>5
    <2>3. \A i \in 1 .. k : v[i] # NoPtr =>
             /\ v[i] \in DOMAIN h /\ h[v[i]].row = id
             /\ <<h[v[i]].pos, h[v[i]].obj>> = kids[i]
      BY <1>3, <2>1, <2>2
    <2> QED BY <1>5, <2>3 DEF Same, k
  <1> QED BY <1>4, <1>7, <1>8 DEF u, v, l, k

-----------------------------------------------------------------------------
(***************************************************************************)
(* A repeat is passed.                                                     *)
(***************************************************************************)
\* The moment after an object known is written.
LEMMA AfterKnown ==
  ASSUME NEW m \in Moment, m.todo # << >>, ~ New(m)
  PROVE  After(m).dict = m.dict /\ After(m).todo = Tail(m.todo) /\ After(m).payload = m.payload
  <1>1. Tail(m.todo) \in Seq(Occ)
    BY MomentOcc
  <1>2. << >> \o Tail(m.todo) = Tail(m.todo)
    BY <1>1, ConcatEmptySeq, Zenon
  <1> QED BY <1>2 DEF After, AfterKey, New

\* The moment after a new one is.
LEMMA AfterNew ==
  ASSUME NEW m \in Moment, m.todo # << >>, New(m)
  PROVE  LET p == Head(m.todo)[1]
             o == Head(m.todo)[2]
         IN  /\ After(m).todo = Kids[o] \o Tail(m.todo)
             /\ DOMAIN After(m).dict.keys = DOMAIN m.dict.keys \union {<<p, o>>}
             /\ <<p, o>> \notin DOMAIN m.dict.keys
             /\ After(m).dict.keys[<<p, o>>] = m.dict.counts[p]
             /\ \A y \in DOMAIN m.dict.keys : After(m).dict.keys[y] = m.dict.keys[y]
             /\ After(m).dict.counts[p] = m.dict.counts[p] + 1
             /\ \A q \in Position : q # p => After(m).dict.counts[q] = m.dict.counts[q]
             /\ KeyFor(m.dict, p, o) = m.dict.counts[p]
  <1> DEFINE p == Head(m.todo)[1]
             o == Head(m.todo)[2]
             w == m.dict
  <1>1. p \in Position /\ o \in Object /\ w \in WriteState
    BY MomentOcc DEF Moment
  <1>2. <<p, o>> \notin DOMAIN w.keys /\ ~ Known(w, p, o)
    BY DEF New, Known
  <1>3. w.counts \in [Position -> Nat]
    BY <1>1, WriteStateParts
  <1>4. /\ After(m).todo = Kids[o] \o Tail(m.todo)
        /\ After(m).dict = AfterKey(w, p, o)
    BY DEF After
  <1> HIDE DEF p, o, w
  <1>5. /\ AfterKey(w, p, o).keys =
             [x \in DOMAIN w.keys \union {<<p, o>>} |-> IF x = <<p, o>> THEN w.counts[p] ELSE w.keys[x]]
        /\ AfterKey(w, p, o).counts = [w.counts EXCEPT ![p] = @ + 1]
        /\ KeyFor(w, p, o) = w.counts[p]
    BY <1>2 DEF AfterKey, KeyFor
  <1>6. /\ DOMAIN AfterKey(w, p, o).keys = DOMAIN w.keys \union {<<p, o>>}
        /\ AfterKey(w, p, o).keys[<<p, o>>] = w.counts[p]
        /\ \A y \in DOMAIN w.keys : AfterKey(w, p, o).keys[y] = w.keys[y]
    BY <1>2, <1>5
  <1>7. /\ AfterKey(w, p, o).counts[p] = w.counts[p] + 1
        /\ \A q \in Position : q # p => AfterKey(w, p, o).counts[q] = w.counts[q]
    BY <1>1, <1>3, <1>5
  <1> QED BY <1>2, <1>4, <1>5, <1>6, <1>7, Zenon DEF p, o, w

\* Cursors after a key, and after a payload, has been passed.
LEMMA CursorPast ==
  ASSUME NEW c \in [Position -> Nat], NEW p \in Position
  PROVE  LET d == [c EXCEPT ![p] = @ + 1] IN
           d[p] = c[p] + 1 /\ \A q \in Position : q # p => d[q] = c[q]
  OBVIOUS

\* The reader is in step after a repeat.
LEMMA InStepKnown ==
  ASSUME NEW row \in ReadRow, NEW r, NEW ptr, Passed(row, r, ptr), NEW reg, NEW m \in Moment,
         m.todo # << >>, ~ New(m), Head(m.todo)[1] = Pos(row), InStep(row, reg, m)
  PROVE  InStep(r, reg, After(m))
  <1> DEFINE p == Pos(row)
             key == KeyFor(m.dict, p, Head(m.todo)[2])
  <1>1. p \in Position /\ Head(m.todo)[2] \in Object
    BY MomentOcc, SMTT(30)
  <1>2. /\ After(m).dict = m.dict /\ After(m).payload = m.payload
        /\ After(m).keys[p] = Append(m.keys[p], key)
        /\ \A q \in Position : q # p => After(m).keys[q] = m.keys[q]
    BY AfterKnown, AfterAdds
  <1>3. m.keys[p] \in Seq(Nat) /\ key \in Nat
    BY <1>1, KeyType DEF Moment
  <1>4. /\ r.keysRead[p] = row.keysRead[p] + 1
        /\ \A q \in Position : q # p => r.keysRead[q] = row.keysRead[q]
        /\ r.payloadsRead = row.payloadsRead
    <2>1. row.keysRead \in [Position -> Nat] /\ r.keysRead = [row.keysRead EXCEPT ![p] = @ + 1]
      BY DEF ReadRow, Passed
    <2> HIDE DEF p
    <2> QED BY <1>1, <2>1, CursorPast DEF Passed
  <1> HIDE DEF p, key
  <1>5. Len(Append(m.keys[p], key)) = Len(m.keys[p]) + 1
    BY <1>3, AppendProperties
  <1> SUFFICES ASSUME NEW q \in Position
               PROVE  /\ Len(reg[q]) = After(m).dict.counts[q]
                      /\ r.keysRead[q] = Len(After(m).keys[q])
                      /\ r.payloadsRead[q] = Len(After(m).payload[q])
    BY DEF InStep
  <1>6. /\ Len(reg[q]) = m.dict.counts[q] /\ row.keysRead[q] = Len(m.keys[q])
        /\ row.payloadsRead[q] = Len(m.payload[q])
    BY DEF InStep
  <1>7. CASE q = p
    BY <1>2, <1>4, <1>5, <1>6, <1>7
  <1>8. CASE q # p
    BY <1>2, <1>4, <1>6, <1>8
  <1> QED BY <1>7, <1>8

\* The values of a row stay what they are while its registry keeps them.
LEMMA MineKept ==
  ASSUME NEW row, NEW r, r.id = row.id, row.phase # "register",
         NEW x, NEW y, NEW h, Mine(row, x, h),
         \A a \in DOMAIN h : h[a].pos \in Position /\ InRegistry(x.read, a, h) => InRegistry(y.read, a, h)
  PROVE  Mine(r, y, h)
  BY DEF Mine

\* Key k of position p was given to object o.
HasKeyIn(m, p, o, k) == <<p, o>> \in DOMAIN m.dict.keys /\ m.dict.keys[<<p, o>>] = k

\* The pointer, if it is one, is a value of the row made of object o.
IsOf(h, ptr, row, p, o) ==
  ptr \in DOMAIN h /\ h[ptr].row = row.id /\ h[ptr].pos = p /\ h[ptr].obj = o

\* A pointer in the registry is of the object whose key it has.
LEMMA EntryIsOf ==
  ASSUME NEW row \in ReadRow, NEW reg \in [Position -> Seq(Nat)], NEW h, Own(reg, row, h),
         NEW m, KeysAreDense(m.dict), Filled(reg, m, h),
         NEW p \in Position, NEW o, NEW k \in Nat, HasKeyIn(m, p, o, k),
         IsRepeat(reg, p, k), Entry(reg, p, k) # NoPtr
  PROVE  IsOf(h, Entry(reg, p, k), row, p, o)
  <1> DEFINE ptr == Entry(reg, p, k)
  <1>1. k + 1 \in DOMAIN reg[p] /\ ptr = reg[p][k + 1]
    BY EntryType DEF Entry
  <1>2. OwnPtr(ptr, p, row, h)
    BY <1>1 DEF Own, ReadRow
  <1>3. /\ <<p, h[ptr].obj>> \in DOMAIN m.dict.keys
        /\ m.dict.keys[<<p, h[ptr].obj>>] = (k + 1) - 1
    BY <1>1 DEF Filled
  <1>4. (k + 1) - 1 = k
    OBVIOUS
  <1>5. \A y, z \in DOMAIN m.dict.keys : y[1] = z[1] /\ m.dict.keys[y] = m.dict.keys[z] => y = z
    BY DEF KeysAreDense
  <1>6. <<p, h[ptr].obj>> = <<p, o>>
    <2>1. <<p, h[ptr].obj>>[1] = <<p, o>>[1]
      OBVIOUS
    <2> QED BY <1>3, <1>4, <1>5, <2>1 DEF HasKeyIn
  <1>7. h[ptr].obj = o
    BY <1>6
  <1> QED BY <1>2, <1>7 DEF OwnPtr, IsOf

\* A repeat is passed, whether the pointer is taken or not.
LEMMA PassedKeeps ==
  ASSUME NEW row \in ReadRow, row.todo # << >>, Head(row.todo).op = "occ", row.phase # "register",
         NEW x \in Locals, NEW h, Own(x.read, row, h),
         NEW m, NEW got \in Seq(Occ), NEW open \in SUBSET Entries, TracksBy(row, x, h, m, got, open),
         IsRepeat(x.read, Pos(row), KeyAt(row, Pos(row))),
         NEW ptr \in {NoPtr, Entry(x.read, Pos(row), KeyAt(row, Pos(row)))},
         NEW r, Passed(row, r, ptr), NEW y, y.read = x.read
  PROVE  Tracks(r, y, h)
  <1> DEFINE p == Pos(row)
             occ == Head(m.todo)
             o == occ[2]
             key == KeyAt(row, p)
             a == After(m)
             more == Append(got, occ)
  <1>1. /\ m \in Moment /\ KeysAreDense(m.dict) /\ m.todo # << >> /\ OnLog(a, row.wire)
        /\ occ = <<p, o>> /\ p \in Position /\ o \in Object
        /\ Plan(Tail(row.todo), [left |-> Tail(m.todo), got |-> more, open |-> open], Goal(row))
    BY NextOccurrence
  <1>2. /\ ~ New(m) /\ key \in Nat /\ m.dict.keys[<<p, o>>] = key /\ <<p, o>> \in DOMAIN m.dict.keys
    BY NextCells
  <1>3. x.read \in [Position -> Seq(Nat)] /\ row.vals \in Seq(Nat)
    BY DEF Locals, ReadRow
  <1>4. a.dict = m.dict /\ a.todo = Tail(m.todo)
    BY <1>1, <1>2, AfterKnown
  <1>5. occ \in Occ /\ occ[1] = p /\ more \in Seq(Occ)
    <2>1. occ \in Occ
      BY <1>1, MomentOcc
    <2>2. more \in Seq(Occ)
      BY <2>1, AppendProperties
    <2>3. <<p, o>>[1] = p
      OBVIOUS
    <2> HIDE DEF p, o, occ, more
    <2> QED BY <1>1, <2>1, <2>2, <2>3
  <1>6. /\ InStep(row, x.read, m) /\ Same(h, row.vals, got, row.id)
        /\ \A e \in open : Waits(x.read, m, e)
        /\ Filled(x.read, m, h) /\ Mine(row, x, h)
    BY DEF TracksBy
  <1>7. InStep(r, y.read, a)
    BY <1>1, <1>2, <1>5, <1>6, InStepKnown
  <1> HIDE DEF p, occ, o, key, a, more
  <1>8. Same(h, r.vals, more, r.id)
    <2>1. ptr \in Nat
      <3>1. Entry(x.read, p, key) \in Nat
        BY <1>1, <1>2, <1>3, EntryType DEF p, key
      <3> QED BY <3>1 DEF p, key, NoPtr
    <2>2. ptr # NoPtr => ptr \in DOMAIN h /\ h[ptr].row = row.id /\ h[ptr].pos = p /\ h[ptr].obj = o
      <3> SUFFICES ASSUME ptr # NoPtr
                   PROVE  ptr \in DOMAIN h /\ h[ptr].row = row.id /\ h[ptr].pos = p /\ h[ptr].obj = o
        OBVIOUS
      <3>1. ptr = Entry(x.read, p, key) /\ IsRepeat(x.read, p, key)
        BY DEF p, key
      <3>2. /\ Filled(x.read, m, h) /\ KeysAreDense(m.dict) /\ HasKeyIn(m, p, o, key)
            /\ x.read \in [Position -> Seq(Nat)] /\ p \in Position /\ key \in Nat
        BY <1>1, <1>2, <1>3, <1>6 DEF HasKeyIn
      <3>3. IsOf(h, Entry(x.read, p, key), row, p, o)
        BY <3>1, <3>2, EntryIsOf
      <3> QED BY <3>1, <3>3 DEF IsOf
    <2>3. ptr # NoPtr => <<h[ptr].pos, h[ptr].obj>> = occ
      BY <1>1, <2>2
    <2>4. Same(h, Append(row.vals, ptr), Append(got, occ), row.id)
      BY <1>3, <1>5, <1>6, <2>1, <2>2, <2>3, SameAppend
    <2> QED BY <2>4 DEF Passed, more
  <1>10. \A e \in open : Waits(y.read, a, e)
    BY <1>4, <1>6 DEF Waits
  <1>11. Filled(y.read, a, h)
    BY <1>4, <1>6 DEF Filled
  <1>12. Mine(r, y, h)
    <2>1. r.id = row.id
      BY DEF Passed
    <2>2. \A b \in DOMAIN h : h[b].pos \in Position /\ InRegistry(x.read, b, h) => InRegistry(y.read, b, h)
      BY DEF InRegistry
    <2> QED BY <1>6, <2>1, <2>2, MineKept
  <1>13. Plan(Rest(r), [left |-> a.todo, got |-> more, open |-> open], Goal(r))
    BY <1>1, <1>4 DEF Passed, Rest, Goal
  <1>14. OnLog(a, r.wire) /\ Publishing(r, y, h, a, open) /\ Delivering(r, y)
    BY <1>1 DEF Passed, Publishing, Delivering, Shares
  <1>15. TracksBy(r, y, h, a, more, open)
    BY <1>7, <1>8, <1>10, <1>11, <1>12, <1>13, <1>14 DEF TracksBy
  <1> QED BY <1>5, <1>15 DEF Tracks

-----------------------------------------------------------------------------
(***************************************************************************)
(* A new entry is entered.                                                 *)
(***************************************************************************)
\* Reserving adds an empty slot to one registry.
LEMMA ReserveParts ==
  ASSUME NEW reg \in [Position -> Seq(Nat)], NEW p \in Position
  PROVE  LET s == Reserve(reg, p) IN
           /\ Len(s[p]) = Len(reg[p]) + 1 /\ s[p][Len(reg[p]) + 1] = NoPtr
           /\ \A k \in DOMAIN reg[p] : k \in DOMAIN s[p] /\ s[p][k] = reg[p][k]
           /\ \A k \in DOMAIN s[p] : k = Len(reg[p]) + 1 \/ k \in DOMAIN reg[p]
           /\ \A q \in Position : q # p => s[q] = reg[q]
           /\ Len(reg[p]) \in Nat
  <1> DEFINE s == Reserve(reg, p)
  <1>1. reg[p] \in Seq(Nat) /\ NoPtr \in Nat
    BY DEF NoPtr
  <1>2. s[p] = Append(reg[p], NoPtr) /\ \A q \in Position : q # p => s[q] = reg[q]
    BY DEF Reserve
  <1> HIDE DEF s
  <1> QED BY <1>1, <1>2 DEF s

\* The reader is in step after a new entry.
LEMMA InStepNew ==
  ASSUME NEW row \in ReadRow, NEW r, NEW end, NEW b, WentDown(row, r, end, b),
         NEW reg \in [Position -> Seq(Nat)], NEW m \in Moment,
         m.todo # << >>, New(m), Head(m.todo)[1] = Pos(row), InStep(row, reg, m)
  PROVE  InStep(r, Reserve(reg, Pos(row)), After(m))
  <1> DEFINE p == Pos(row)
             o == Head(m.todo)[2]
             key == KeyFor(m.dict, p, o)
             s == Reserve(reg, p)
             a == After(m)
  <1>1. p \in Position /\ o \in Object
    BY MomentOcc
  <1>2. /\ a.dict.counts[p] = m.dict.counts[p] + 1
        /\ \A q \in Position : q # p => a.dict.counts[q] = m.dict.counts[q]
    BY AfterNew
  <1>3. /\ a.keys[p] = Append(m.keys[p], key) /\ a.payload[p] = Append(m.payload[p], o)
        /\ \A q \in Position : q # p => a.keys[q] = m.keys[q] /\ a.payload[q] = m.payload[q]
    BY AfterAdds
  <1>4. m.keys[p] \in Seq(Nat) /\ m.payload[p] \in Seq(Object) /\ key \in Nat
    BY <1>1, KeyType DEF Moment
  <1>5. /\ r.keysRead[p] = row.keysRead[p] + 1 /\ r.payloadsRead[p] = row.payloadsRead[p] + 1
        /\ \A q \in Position : q # p =>
             r.keysRead[q] = row.keysRead[q] /\ r.payloadsRead[q] = row.payloadsRead[q]
    <2>1. /\ row.keysRead \in [Position -> Nat] /\ r.keysRead = [row.keysRead EXCEPT ![p] = @ + 1]
          /\ row.payloadsRead \in [Position -> Nat]
          /\ r.payloadsRead = [row.payloadsRead EXCEPT ![p] = @ + 1]
      BY DEF ReadRow, WentDown
    <2> HIDE DEF p
    <2> QED BY <1>1, <2>1, CursorPast
  <1>6. Len(s[p]) = Len(reg[p]) + 1 /\ \A q \in Position : q # p => s[q] = reg[q]
    BY <1>1, ReserveParts
  <1> HIDE DEF p, o, key, s, a
  <1>7. /\ Len(Append(m.keys[p], key)) = Len(m.keys[p]) + 1
        /\ Len(Append(m.payload[p], o)) = Len(m.payload[p]) + 1
    BY <1>1, <1>4, AppendProperties
  <1>8. ASSUME NEW q \in Position
        PROVE  /\ Len(s[q]) = a.dict.counts[q]
               /\ r.keysRead[q] = Len(a.keys[q])
               /\ r.payloadsRead[q] = Len(a.payload[q])
    <2>1. /\ Len(reg[q]) = m.dict.counts[q] /\ row.keysRead[q] = Len(m.keys[q])
          /\ row.payloadsRead[q] = Len(m.payload[q])
      BY DEF InStep
    <2>2. CASE q = p
      BY <1>2, <1>3, <1>5, <1>6, <1>7, <2>1, <2>2
    <2>3. CASE q # p
      BY <1>2, <1>3, <1>5, <1>6, <2>1, <2>3
    <2> QED BY <2>2, <2>3
  <1>9. InStep(r, s, a)
    BY <1>8 DEF InStep
  <1> QED BY <1>9 DEF s, a, p

\* The plan of a row that goes down into a new entry.
LEMMA PlanDown ==
  ASSUME NEW rest \in Seq(Step), NEW end \in Step, end.op = "end", NEW b \in BOOLEAN,
         NEW w \in Seq(Occ), NEW got \in Seq(Occ), NEW open \in SUBSET Entries,
         EntryOf(end) \in Entries, EntryOf(end) \notin open, NEW goal,
         Kids[end.obj] \in Seq(Occ),
         Plan(rest, [left |-> w, got |-> Append(got, <<end.pos, end.obj>>), open |-> open], goal)
  PROVE  Plan(Occurrences(Kids[end.obj], b) \o <<end>> \o rest,
              [left |-> Kids[end.obj] \o w, got |-> got, open |-> open \union {EntryOf(end)}],
              goal)
  <1> DEFINE kids == Kids[end.obj]
             e == EntryOf(end)
             opened == open \union {e}
             occs == Occurrences(kids, b)
             now == [left |-> w, got |-> got \o kids, open |-> opened]
             then == [left |-> w, got |-> Append(got, <<end.pos, end.obj>>), open |-> open]
  <1>1. opened \in SUBSET Entries /\ opened \ {e} = open /\ e \in opened
    OBVIOUS
  <1>2. got \o kids \in Seq(Occ)
    BY ConcatProperties
  <1>3. now \in Stage
    BY <1>1, <1>2 DEF Stage
  <1>4. Does(end, now, then)
    <2>1. /\ now.left = w /\ now.got = got \o kids /\ now.open = opened
          /\ then.left = w /\ then.got = Append(got, <<end.pos, end.obj>>) /\ then.open = open
      OBVIOUS
    <2> HIDE DEF now, then, opened
    <2> QED BY <1>1, <2>1 DEF Does, Collects
  <1>5. Plan(<<end>> \o rest, now, goal)
    <2> HIDE DEF now
    <2> QED BY <1>3, <1>4, PlanCons
  <1>6. <<end>> \o rest \in Seq(Step) /\ <<end>> \in Seq(Step)
    BY OneIsSeq, ConcatProperties
  <1>7. Plan(occs \o (<<end>> \o rest), [left |-> kids \o w, got |-> got, open |-> opened], goal)
    <2> DEFINE later == <<end>> \o rest
    <2>1. /\ kids \in Seq(Occ) /\ later \in Seq(Step) /\ opened \in SUBSET Entries
          /\ Plan(later, [left |-> w, got |-> got \o kids, open |-> opened], goal)
      BY <1>1, <1>5, <1>6
    <2> HIDE DEF opened, kids, later
    <2>2. Plan(Occurrences(kids, b) \o later, [left |-> kids \o w, got |-> got, open |-> opened], goal)
      BY <2>1, PlanKids
    <2> QED BY <2>2 DEF later
  <1>8. occs \in Seq(Step)
    BY OccurrencesType DEF Occ
  <1>9. occs \o (<<end>> \o rest) = occs \o <<end>> \o rest
    <2> HIDE DEF occs
    <2> QED BY <1>6, <1>8, Associative, SMTT(30) DEF Associates
  <1> QED BY <1>7, <1>9

\* The entry that the next occurrence makes, when it is new.
Numbered(m) ==
  <<Head(m.todo)[1], Head(m.todo)[2], m.dict.counts[Head(m.todo)[1]]>>

\* A reservation is a slot that waits for the new object; the others are as
\* they were.
LEMMA ReserveWaits ==
  ASSUME NEW reg \in [Position -> Seq(Nat)], NEW m \in Moment, m.todo # << >>, New(m),
         KeysAreDense(m.dict), Len(reg[Head(m.todo)[1]]) = m.dict.counts[Head(m.todo)[1]]
  PROVE  /\ Waits(Reserve(reg, Head(m.todo)[1]), After(m), Numbered(m))
         /\ \A e : Waits(reg, m, e) =>
              e # Numbered(m) /\ Waits(Reserve(reg, Head(m.todo)[1]), After(m), e)
  <1> DEFINE p == Head(m.todo)[1]
             o == Head(m.todo)[2]
             k == m.dict.counts[p]
             s == Reserve(reg, p)
             a == After(m)
             new == <<p, o, k>>
  <1>1. p \in Position /\ o \in Object /\ <<p, o>>[1] = p /\ <<p, o>>[2] = o
    <2>1. Head(m.todo)[1] \in Position /\ Head(m.todo)[2] \in Object
      BY MomentOcc
    <2>2. <<p, o>>[1] = p /\ <<p, o>>[2] = o
      BY Zenon
    <2> QED BY <2>1, <2>2
  <1>2. /\ DOMAIN a.dict.keys = DOMAIN m.dict.keys \union {<<p, o>>}
        /\ <<p, o>> \notin DOMAIN m.dict.keys
        /\ a.dict.keys[<<p, o>>] = m.dict.counts[p]
        /\ \A y \in DOMAIN m.dict.keys : a.dict.keys[y] = m.dict.keys[y]
    BY <1>1, AfterNew, Zenon
  <1>3. /\ s[p][Len(reg[p]) + 1] = NoPtr /\ Len(reg[p]) \in Nat
        /\ \A i \in DOMAIN reg[p] : s[p][i] = reg[p][i]
        /\ \A q \in Position : q # p => s[q] = reg[q]
    BY <1>1, ReserveParts
  <1>4. new \in Entries /\ new[1] = p /\ new[2] = o /\ new[3] = k
    BY <1>1, <1>3 DEF Entries
  <1>5. DOMAIN reg[p] = 1 .. Len(reg[p])
    BY <1>1
  <1>6. \A y \in DOMAIN m.dict.keys : m.dict.keys[y] < m.dict.counts[y[1]]
    BY DEF KeysAreDense
  <1>5a. new = Numbered(m) /\ Len(reg[p]) = k
    BY DEF Numbered
  <1> HIDE DEF s, a, new, p, o, k
  <1>5b. k = m.dict.counts[p]
    BY DEF k
  <1>7. Waits(s, a, new)
    BY <1>2, <1>3, <1>4, <1>5a, <1>5b DEF Waits
  <1>8. ASSUME NEW e, Waits(reg, m, e) PROVE e # new /\ Waits(s, a, e)
    <2> DEFINE c == <<e[1], e[2]>>
    <2>1. /\ e \in Entries /\ c \in DOMAIN m.dict.keys
          /\ m.dict.keys[c] = e[3] /\ reg[e[1]][e[3] + 1] = NoPtr
      BY <1>8 DEF Waits
    <2>2. e[1] \in Position /\ e[3] \in Nat /\ c[1] = e[1]
      BY <2>1 DEF Entries
    <2>3. e # new
      <3>1. CASE e = new
        BY <1>2, <1>4, <2>1, <3>1 DEF c
      <3> QED BY <3>1
    <2>4. m.dict.keys[c] < m.dict.counts[c[1]]
      BY <1>6, <2>1
    <2> HIDE DEF c
    <2>5. e[3] < m.dict.counts[e[1]]
      BY <2>1, <2>2, <2>4
    <2>6. s[e[1]][e[3] + 1] = NoPtr
      <3>1. CASE e[1] = p
        <4>1. e[3] < Len(reg[p])
          BY <1>5a, <1>5b, <2>5, <3>1
        <4>2. e[3] + 1 \in DOMAIN reg[p]
          BY <1>3, <1>5, <2>2, <4>1
        <4> QED BY <1>3, <2>1, <3>1, <4>2
      <3>2. CASE e[1] # p
        BY <1>3, <2>1, <2>2, <3>2
      <3> QED BY <3>1, <3>2
    <2>7. c \in DOMAIN a.dict.keys /\ a.dict.keys[c] = e[3]
      BY <1>2, <2>1
    <2> QED BY <2>1, <2>3, <2>6, <2>7 DEF Waits, c
  <1> QED BY <1>5a, <1>7, <1>8 DEF s, a, p

\* No pointer comes with a reservation ...
LEMMA ReserveFilled ==
  ASSUME NEW reg \in [Position -> Seq(Nat)], NEW m \in Moment, m.todo # << >>, New(m), NEW h,
         NEW p, Head(m.todo)[1] = p, Filled(reg, m, h)
  PROVE  Filled(Reserve(reg, p), After(m), h)
  <1> DEFINE s == Reserve(reg, p)
             a == After(m)
  <1>1. p \in Position
    BY MomentOcc
  <1>2. /\ \A y \in DOMAIN m.dict.keys : y \in DOMAIN a.dict.keys /\ a.dict.keys[y] = m.dict.keys[y]
    BY AfterNew
  <1>3. /\ s[p][Len(reg[p]) + 1] = NoPtr
        /\ \A i \in DOMAIN reg[p] : s[p][i] = reg[p][i]
        /\ \A i \in DOMAIN s[p] : i = Len(reg[p]) + 1 \/ i \in DOMAIN reg[p]
        /\ \A q \in Position : q # p => s[q] = reg[q]
    BY <1>1, ReserveParts
  <1> HIDE DEF s, a
  <1>4. ASSUME NEW q \in Position, NEW k \in DOMAIN s[q], s[q][k] # NoPtr
        PROVE  /\ <<q, h[s[q][k]].obj>> \in DOMAIN a.dict.keys
               /\ a.dict.keys[<<q, h[s[q][k]].obj>>] = k - 1
    <2>1. k \in DOMAIN reg[q] /\ s[q][k] = reg[q][k]
      BY <1>3, <1>4
    <2>2. /\ <<q, h[reg[q][k]].obj>> \in DOMAIN m.dict.keys
          /\ m.dict.keys[<<q, h[reg[q][k]].obj>>] = k - 1
      BY <1>4, <2>1 DEF Filled
    <2> QED BY <1>2, <2>1, <2>2
  <1>5. Filled(s, a, h)
    BY <1>4 DEF Filled
  <1> QED BY <1>5 DEF s, a

\* ... and none goes.
LEMMA ReserveRegistry ==
  ASSUME NEW reg \in [Position -> Seq(Nat)], NEW p \in Position, NEW h, NEW a,
         h[a].pos \in Position, InRegistry(reg, a, h)
  PROVE  InRegistry(Reserve(reg, p), a, h)
  <1> DEFINE s == Reserve(reg, p)
             q == h[a].pos
  <1>1. /\ \A i \in DOMAIN reg[p] : i \in DOMAIN s[p] /\ s[p][i] = reg[p][i]
        /\ q # p => s[q] = reg[q]
    BY ReserveParts
  <1> HIDE DEF s, q
  <1>2. PICK i \in DOMAIN reg[q] : reg[q][i] = a
    BY DEF InRegistry, q
  <1>3. i \in DOMAIN s[q] /\ s[q][i] = a
    BY <1>1, <1>2
  <1> QED BY <1>3 DEF InRegistry, s, q

\* A new entry is entered.
LEMMA DownKeeps ==
  ASSUME NEW row \in ReadRow, row.todo # << >>, Head(row.todo).op = "occ", row.phase = "work",
         NEW x \in Locals, NEW h,
         NEW m, NEW got \in Seq(Occ), NEW open \in SUBSET Entries, TracksBy(row, x, h, m, got, open),
         IsNew(x.read, Pos(row), KeyAt(row, Pos(row))),
         NEW r, NEW end, NEW b \in BOOLEAN, WentDown(row, r, end, b),
         NEW y, y.read = Reserve(x.read, Pos(row))
  PROVE  Tracks(r, y, h)
  <1> DEFINE p == Pos(row)
             occ == Head(m.todo)
             o == occ[2]
             key == KeyAt(row, p)
             a == After(m)
             e == <<p, o, key>>
             opened == open \union {e}
  <1>1. /\ m \in Moment /\ KeysAreDense(m.dict) /\ m.todo # << >> /\ OnLog(a, row.wire)
        /\ occ = <<p, o>> /\ p \in Position /\ o \in Object
        /\ Plan(Tail(row.todo), [left |-> Tail(m.todo), got |-> Append(got, occ), open |-> open],
                Goal(row))
    BY NextOccurrence
  <1>2. New(m) /\ PayloadAt(row, p) = o /\ key \in Nat /\ key = KeyFor(m.dict, p, o)
    <2>1. /\ key = KeyFor(m.dict, p, o) /\ key \in Nat
          /\ New(m) => PayloadAt(row, p) = o
          /\ ~ New(m) => IsRepeat(x.read, p, key)
      BY NextCells
    <2>2. ~ IsRepeat(x.read, p, key)
      <3>1. key = Len(x.read[p])
        BY DEF IsNew
      <3> HIDE DEF key, p
      <3>2. key \in Nat
        BY <2>1
      <3> QED BY <3>1, <3>2 DEF IsRepeat
    <2> QED BY <2>1, <2>2
  <1>3. x.read \in [Position -> Seq(Nat)]
    BY DEF Locals
  <1>4. occ[1] = p /\ Tail(m.todo) \in Seq(Occ)
    <2>1. <<p, o>>[1] = p
      OBVIOUS
    <2>2. Tail(m.todo) \in Seq(Occ)
      BY <1>1, MomentOcc, ZenonT(30)
    <2> HIDE DEF p, o, occ
    <2> QED BY <1>1, <2>1, <2>2
  <1>5. a.todo = Kids[o] \o Tail(m.todo) /\ key = m.dict.counts[p]
    BY <1>1, <1>2, <1>4, AfterNew, ZenonT(30)
  <1>6. /\ InStep(row, x.read, m) /\ Same(h, row.vals, got, row.id)
        /\ \A c \in open : Waits(x.read, m, c)
        /\ Filled(x.read, m, h) /\ Mine(row, x, h)
    BY DEF TracksBy
  <1>7. InStep(r, y.read, a)
    BY <1>1, <1>2, <1>3, <1>4, <1>6, InStepNew, Zenon
  <1>8. e \in Entries /\ EntryOf(end) = e /\ end.pos = p /\ end.obj = o
    BY <1>1, <1>2 DEF Entries, WentDown, EntryOf
  <1> HIDE DEF p, occ, o, key, a, e
  <1>9. /\ Waits(y.read, a, e)
        /\ \A c \in open : c # e /\ Waits(y.read, a, c)
    <2>1. Len(x.read[p]) = m.dict.counts[p]
      BY <1>1, <1>6 DEF InStep
    <2>2. Head(m.todo)[1] = p /\ Head(m.todo)[2] = o
      BY <1>4 DEF occ, o
    <2>3. /\ Waits(Reserve(x.read, Head(m.todo)[1]), After(m), Numbered(m))
          /\ \A c : Waits(x.read, m, c) =>
               c # Numbered(m) /\ Waits(Reserve(x.read, Head(m.todo)[1]), After(m), c)
      <3>1. Len(x.read[Head(m.todo)[1]]) = m.dict.counts[Head(m.todo)[1]]
        BY <2>1, <2>2
      <3> QED BY <1>1, <1>2, <1>3, <3>1, ReserveWaits
    <2>4. Numbered(m) = e
      BY <1>5, <2>2 DEF Numbered, e
    <2> QED BY <1>6, <2>2, <2>3, <2>4 DEF a, p
  <1>10. opened \in SUBSET Entries /\ e \notin open
    BY <1>8, <1>9
  <1>11. Filled(y.read, a, h)
    <2>1. Filled(Reserve(x.read, p), After(m), h)
      BY <1>1, <1>2, <1>3, <1>4, <1>6, ReserveFilled DEF occ
    <2> QED BY <2>1 DEF a, p
  <1>12. Mine(r, y, h)
    <2>1. r.id = row.id
      BY DEF WentDown
    <2>2. \A c \in DOMAIN h : h[c].pos \in Position /\ InRegistry(x.read, c, h) => InRegistry(y.read, c, h)
      BY <1>1, <1>3, ReserveRegistry DEF p
    <2> QED BY <1>6, <2>1, <2>2, MineKept
  <1>13. Plan(Rest(r), [left |-> a.todo, got |-> got, open |-> opened], Goal(r))
    <2> DEFINE rest == Tail(row.todo)
               w == Tail(m.todo)
               goal == Goal(row)
               t == Occurrences(Kids[end.obj], b) \o <<end>> \o rest
    <2>1. rest \in Seq(Step)
      <3>1. row.todo \in Seq(Step)
        BY DEF ReadRow
      <3> QED BY <3>1, TailType
    <2>2. Kids[end.obj] \in Seq(Occ)
      BY <1>1, <1>8, SharedAssumption DEF Occ
    <2>3. end \in Step /\ end.op = "end"
      BY DEF WentDown
    <2>4. Append(got, <<end.pos, end.obj>>) = Append(got, occ)
      BY <1>1, <1>8
    <2>5. Plan(rest, [left |-> w, got |-> Append(got, <<end.pos, end.obj>>), open |-> open], goal)
      BY <1>1, <2>4
    <2> HIDE DEF rest, w, goal, t
    <2>6. Plan(t, [left |-> Kids[end.obj] \o w, got |-> got, open |-> open \union {EntryOf(end)}], goal)
      <3>1. w \in Seq(Occ) /\ EntryOf(end) \in Entries /\ EntryOf(end) \notin open
        BY <1>4, <1>8, <1>10 DEF w
      <3> QED BY <2>1, <2>2, <2>3, <2>5, <3>1, PlanDown DEF t
    <2>7. Rest(r) = t /\ Goal(r) = goal
      BY <1>2, <1>8 DEF WentDown, Rest, Goal, t, goal, rest, p
    <2> QED BY <1>5, <1>8, <2>6, <2>7 DEF w
  <1>14. OnLog(a, r.wire) /\ Publishing(r, y, h, a, opened) /\ Delivering(r, y)
    BY <1>1 DEF WentDown, Publishing, Delivering, Shares
  <1>15. Same(h, r.vals, got, r.id)
    BY <1>6 DEF WentDown
  <1>16. \A c \in opened : Waits(y.read, a, c)
    BY <1>9
  <1>17. TracksBy(r, y, h, a, got, opened)
    BY <1>7, <1>11, <1>12, <1>13, <1>14, <1>15, <1>16 DEF TracksBy
  <1> QED BY <1>10, <1>17 DEF Tracks

-----------------------------------------------------------------------------
(***************************************************************************)
(* A reservation is fulfilled.                                             *)
(***************************************************************************)
\* The registry has a slot for every entry that waits.
LEMMA WaitsSlot ==
  ASSUME NEW row, NEW reg \in [Position -> Seq(Nat)], NEW m \in Moment, KeysAreDense(m.dict),
         InStep(row, reg, m), NEW e, Waits(reg, m, e)
  PROVE  /\ e[1] \in Position /\ e[2] \in Object /\ e[3] \in Nat
         /\ e[3] + 1 \in DOMAIN reg[e[1]]
         /\ e = <<e[1], e[2], e[3]>>
  <1>1. /\ e \in Entries /\ <<e[1], e[2]>> \in DOMAIN m.dict.keys
        /\ m.dict.keys[<<e[1], e[2]>>] = e[3]
    BY DEF Waits
  <1>2. e[1] \in Position /\ e[2] \in Object /\ e[3] \in Nat /\ e = <<e[1], e[2], e[3]>>
    BY <1>1 DEF Entries
  <1>3. \A y \in DOMAIN m.dict.keys : m.dict.keys[y] < m.dict.counts[y[1]]
    BY DEF KeysAreDense
  <1>4. <<e[1], e[2]>>[1] = e[1]
    OBVIOUS
  <1>5. e[3] < m.dict.counts[e[1]]
    BY <1>1, <1>3, <1>4
  <1>6. Len(reg[e[1]]) = m.dict.counts[e[1]] /\ reg[e[1]] \in Seq(Nat)
    BY <1>2 DEF InStep
  <1>7. e[3] + 1 \in DOMAIN reg[e[1]]
    <2>1. Len(reg[e[1]]) \in Nat /\ DOMAIN reg[e[1]] = 1 .. Len(reg[e[1]])
      BY <1>6
    <2> QED BY <1>2, <1>5, <1>6, <2>1
  <1> QED BY <1>2, <1>7

\* The registry s is reg but for the pointer in slot k of p.
Fulfilled(s, reg, p, k, ptr) ==
  /\ s \in [Position -> Seq(Nat)]
  /\ s[p][k + 1] = ptr
  /\ \A q \in Position : DOMAIN s[q] = DOMAIN reg[q] /\ Len(s[q]) = Len(reg[q])
  /\ \A q \in Position : \A i \in DOMAIN reg[q] : q # p \/ i # k + 1 => s[q][i] = reg[q][i]

\* Fulfilling sets one slot.
LEMMA FulfillParts ==
  ASSUME NEW reg \in [Position -> Seq(Nat)], NEW p \in Position, NEW k \in Nat, NEW ptr \in Nat,
         k + 1 \in DOMAIN reg[p]
  PROVE  Fulfilled(Fulfill(reg, p, k, ptr), reg, p, k, ptr)
  <1> DEFINE s == Fulfill(reg, p, k, ptr)
             t == [reg[p] EXCEPT ![k + 1] = ptr]
  <1>1. reg[p] \in Seq(Nat) /\ k + 1 \in 1 .. Len(reg[p])
    OBVIOUS
  <1>2. /\ t \in Seq(Nat) /\ Len(t) = Len(reg[p]) /\ DOMAIN t = DOMAIN reg[p]
        /\ t[k + 1] = ptr /\ \A i \in DOMAIN reg[p] : i # k + 1 => t[i] = reg[p][i]
    BY <1>1, ExceptSeq
  <1>3. s = [reg EXCEPT ![p] = t]
    BY DEF Fulfill
  <1> HIDE DEF t, s
  <1>4. s \in [Position -> Seq(Nat)] /\ s[p] = t /\ \A q \in Position : q # p => s[q] = reg[q]
    BY <1>2, <1>3
  <1> QED BY <1>2, <1>4 DEF s, Fulfilled

\* Two entries that wait have slots of their own.
LEMMA WaitsApart ==
  ASSUME NEW row, NEW reg \in [Position -> Seq(Nat)], NEW m \in Moment, KeysAreDense(m.dict),
         InStep(row, reg, m), NEW e, Waits(reg, m, e), NEW c, Waits(reg, m, c),
         c[1] = e[1], c[3] = e[3]
  PROVE  c = e
  <1>1. e = <<e[1], e[2], e[3]>> /\ c = <<c[1], c[2], c[3]>>
    BY WaitsSlot
  <1>2. /\ <<e[1], e[2]>> \in DOMAIN m.dict.keys /\ <<c[1], c[2]>> \in DOMAIN m.dict.keys
        /\ m.dict.keys[<<e[1], e[2]>>] = m.dict.keys[<<c[1], c[2]>>]
    BY DEF Waits
  <1>3. \A y, z \in DOMAIN m.dict.keys : y[1] = z[1] /\ m.dict.keys[y] = m.dict.keys[z] => y = z
    BY DEF KeysAreDense
  <1>4. <<e[1], e[2]>>[1] = <<c[1], c[2]>>[1]
    OBVIOUS
  <1>5. <<e[1], e[2]>> = <<c[1], c[2]>>
    BY <1>2, <1>3, <1>4
  <1>6. e[2] = c[2]
    BY <1>5
  <1> QED BY <1>1, <1>6

\* The registry s after entry e got ptr: the cursors are in step, the registry
\* is true and has what it had, the other entries wait.
Took(s, reg, row, m, e, ptr, h) ==
  /\ s \in [Position -> Seq(Nat)]
  /\ InStep(row, s, m)
  /\ Filled(s, m, h)
  /\ \A c : c # e /\ Waits(reg, m, c) => Waits(s, m, c)
  /\ h[ptr].pos = e[1] => InRegistry(s, ptr, h)
  /\ \A a : a # NoPtr /\ h[a].pos \in Position /\ InRegistry(reg, a, h) => InRegistry(s, a, h)

\* The slot of an entry that waited gets a pointer to a value of its object.
LEMMA FulfillKeeps ==
  ASSUME NEW row, NEW reg \in [Position -> Seq(Nat)], NEW m \in Moment, KeysAreDense(m.dict),
         InStep(row, reg, m), NEW e, Waits(reg, m, e), NEW ptr \in Nat,
         NEW h, Filled(reg, m, h), h[ptr].obj = e[2]
  PROVE  Took(Fulfill(reg, e[1], e[3], ptr), reg, row, m, e, ptr, h)
  <1> DEFINE p == e[1]
             k == e[3]
             s == Fulfill(reg, p, k, ptr)
  <1>1. p \in Position /\ k \in Nat /\ k + 1 \in DOMAIN reg[p]
    BY WaitsSlot
  <1>2. /\ <<p, e[2]>> \in DOMAIN m.dict.keys /\ m.dict.keys[<<p, e[2]>>] = k
        /\ reg[p][k + 1] = NoPtr
    BY DEF Waits
  <1> HIDE DEF p, k
  <1>3. /\ s \in [Position -> Seq(Nat)]
        /\ s[p][k + 1] = ptr
        /\ \A q \in Position : DOMAIN s[q] = DOMAIN reg[q] /\ Len(s[q]) = Len(reg[q])
        /\ \A q \in Position : \A i \in DOMAIN reg[q] : q # p \/ i # k + 1 => s[q][i] = reg[q][i]
    <2>1. Fulfilled(s, reg, p, k, ptr)
      BY <1>1, FulfillParts
    <2> QED BY <2>1 DEF Fulfilled
  <1> HIDE DEF s
  <1>4. InStep(row, s, m)
    BY <1>3 DEF InStep
  <1>5. Filled(s, m, h)
    <2> SUFFICES ASSUME NEW q \in Position, NEW i \in DOMAIN s[q], s[q][i] # NoPtr
                 PROVE  /\ <<q, h[s[q][i]].obj>> \in DOMAIN m.dict.keys
                        /\ m.dict.keys[<<q, h[s[q][i]].obj>>] = i - 1
      BY DEF Filled
    <2>1. CASE q = p /\ i = k + 1
      <3>1. (k + 1) - 1 = k
        BY <1>1
      <3> QED BY <1>2, <1>3, <2>1, <3>1
    <2>2. CASE ~ (q = p /\ i = k + 1)
      <3>1. i \in DOMAIN reg[q] /\ s[q][i] = reg[q][i]
        BY <1>3, <2>2
      <3> QED BY <3>1 DEF Filled
    <2> QED BY <2>1, <2>2
  <1>6. ASSUME NEW c, c # e, Waits(reg, m, c) PROVE Waits(s, m, c)
    <2>1. c[1] \in Position /\ c[3] + 1 \in DOMAIN reg[c[1]] /\ c[3] \in Nat
      BY <1>6, WaitsSlot
    <2>2. c[1] # p \/ c[3] # k
      BY <1>6, WaitsApart DEF p, k
    <2>3. c[1] # p \/ c[3] + 1 # k + 1
      BY <1>1, <2>1, <2>2, SMTT(30)
    <2>4. s[c[1]][c[3] + 1] = reg[c[1]][c[3] + 1]
      BY <1>3, <2>1, <2>3
    <2> QED BY <1>6, <2>4 DEF Waits
  <1>7. h[ptr].pos = p => InRegistry(s, ptr, h)
    BY <1>1, <1>3 DEF InRegistry
  <1>8. ASSUME NEW a, a # NoPtr, h[a].pos \in Position, InRegistry(reg, a, h) PROVE InRegistry(s, a, h)
    <2>1. PICK i \in DOMAIN reg[h[a].pos] : reg[h[a].pos][i] = a
      BY <1>8 DEF InRegistry
    <2>2. h[a].pos # p \/ i # k + 1
      BY <1>2, <1>8, <2>1
    <2>3. i \in DOMAIN s[h[a].pos] /\ s[h[a].pos][i] = a
      BY <1>3, <1>8, <2>1, <2>2
    <2> QED BY <2>3 DEF InRegistry
  <1> QED BY <1>3, <1>4, <1>5, <1>6, <1>7, <1>8 DEF s, p, k, Took

-----------------------------------------------------------------------------
(***************************************************************************)
(* A value is made at the end of a payload.                                *)
(***************************************************************************)
\* The heap g is h with a value of this row at ptr.
Made(h, g, ptr, row, step, kids) ==
  /\ Grows(h, g)
  /\ ptr \in Nat \ {NoPtr} /\ ptr \in DOMAIN g
  /\ ptr \notin DOMAIN h
  /\ \A a \in DOMAIN g : a # ptr => a \in DOMAIN h
  /\ g[ptr].row = row.id /\ g[ptr].pos = step.pos /\ g[ptr].obj = step.obj
  /\ g[ptr].as = step.as /\ g[ptr].kids = kids

\* Registries stay true while the heap grows.
LEMMA FilledGrows ==
  ASSUME NEW row, row.kind = "read", NEW reg, NEW h, NEW g, Grows(h, g), Own(reg, row, h),
         NEW m, Filled(reg, m, h)
  PROVE  Filled(reg, m, g)
  <1> SUFFICES ASSUME NEW p \in Position, NEW k \in DOMAIN reg[p], reg[p][k] # NoPtr
               PROVE  /\ <<p, g[reg[p][k]].obj>> \in DOMAIN m.dict.keys
                      /\ m.dict.keys[<<p, g[reg[p][k]].obj>>] = k - 1
    BY DEF Filled
  <1>1. reg[p][k] \in DOMAIN h
    BY DEF Own, OwnPtr
  <1>2. g[reg[p][k]] = h[reg[p][k]]
    BY <1>1 DEF Grows
  <1> QED BY <1>2 DEF Filled

\* A value stays in its registry.
LEMMA RegistryGrows ==
  ASSUME NEW reg, NEW h, NEW g, Grows(h, g), NEW a \in DOMAIN h, InRegistry(reg, a, h)
  PROVE  InRegistry(reg, a, g)
  BY DEF InRegistry, Grows

\* A row that waits is not touched by what the rows inside it make.
LEMMA TracksGrows ==
  ASSUME NEW row, row.kind = "read", row.phase = "work", NEW x, NEW h, NEW g, Grows(h, g),
         Own(x.read, row, h), \A a \in DOMAIN g : a \notin DOMAIN h => g[a].row # row.id,
         Tracks(row, x, h)
  PROVE  Tracks(row, x, g)
  <1>1. PICK m : \E got \in Seq(Occ) : \E open \in SUBSET Entries : TracksBy(row, x, h, m, got, open)
    BY DEF Tracks
  <1>2. PICK got \in Seq(Occ) : \E open \in SUBSET Entries : TracksBy(row, x, h, m, got, open)
    BY <1>1
  <1>3. PICK open \in SUBSET Entries : TracksBy(row, x, h, m, got, open)
    BY <1>2
  <1>4. Same(g, row.vals, got, row.id)
    BY <1>3, SameGrows DEF TracksBy
  <1>5. Filled(x.read, m, g)
    BY <1>3, FilledGrows DEF TracksBy
  <1>6. Mine(row, x, g)
    <2> SUFFICES ASSUME NEW a \in DOMAIN g, g[a].row = row.id
                 PROVE  /\ g[a].pos \in Position /\ g[a].obj \in Object
                        /\ Same(g, g[a].kids, Kids[g[a].obj], row.id)
                        /\ Shares(g[a].as) => InRegistry(x.read, a, g)
      BY DEF Mine
    <2>1. a \in DOMAIN h /\ g[a] = h[a]
      BY DEF Grows
    <2>2. /\ h[a].pos \in Position /\ h[a].obj \in Object
          /\ Same(h, h[a].kids, Kids[h[a].obj], row.id)
          /\ Shares(h[a].as) => InRegistry(x.read, a, h)
      BY <1>3, <2>1 DEF TracksBy, Mine
    <2>3. Same(g, h[a].kids, Kids[h[a].obj], row.id)
      BY <2>2, SameGrows
    <2> QED BY <2>1, <2>2, <2>3, RegistryGrows
  <1>7. TracksBy(row, x, g, m, got, open)
    BY <1>3, <1>4, <1>5, <1>6 DEF TracksBy, Publishing, Delivering, Shares
  <1> QED BY <1>7 DEF Tracks

\* What the plan says of the marker.
Collected(row, m, got, open, pre) ==
  /\ pre \in Seq(Occ)
  /\ got = pre \o Kids[Head(row.todo).obj]
  /\ EntryOf(Head(row.todo)) \in open
  /\ Plan(Tail(row.todo),
          [left |-> m.todo,
           got  |-> Append(pre, <<Head(row.todo).pos, Head(row.todo).obj>>),
           open |-> open \ {EntryOf(Head(row.todo))}],
          Goal(row))

\* The marker, the entry it ends and the values before it.
LEMMA MarkerParts ==
  ASSUME NEW row, AtMarker(row)
  PROVE  /\ Head(row.todo) \in Step /\ Tail(row.todo) \in Seq(Step)
         /\ Head(row.todo).pos \in Position /\ Head(row.todo).obj \in Object
         /\ Head(row.todo).key \in Nat
         /\ Kids[Head(row.todo).obj] \in Seq(Occ)
         /\ EntryOf(Head(row.todo))[1] = Head(row.todo).pos
         /\ EntryOf(Head(row.todo))[2] = Head(row.todo).obj
         /\ EntryOf(Head(row.todo))[3] = Head(row.todo).key
  <1>1. row.todo \in Seq(Step) /\ row.todo # << >> /\ Head(row.todo).op = "end"
    BY DEF AtMarker, ReadRow
  <1>2. Head(row.todo) \in Step /\ Tail(row.todo) \in Seq(Step)
    BY <1>1, TailType
  <1>3. /\ Head(row.todo).pos \in Position /\ Head(row.todo).obj \in Object
        /\ Head(row.todo).key \in Nat
    BY <1>1, <1>2 DEF Step
  <1> QED BY <1>2, <1>3, SharedAssumption DEF Occ, EntryOf

\* The plan after the marker.
LEMMA EndPlan ==
  ASSUME NEW row, AtMarker(row), NEW x, NEW h, NEW m,
         NEW got \in Seq(Occ), NEW open \in SUBSET Entries, TracksBy(row, x, h, m, got, open)
  PROVE  \E pre : Collected(row, m, got, open, pre)
  <1> DEFINE a == [left |-> m.todo, got |-> got, open |-> open]
             step == Head(row.todo)
             goal == Goal(row)
  <1>1. row.todo \in Seq(Step) /\ row.todo # << >> /\ step.op = "end" /\ Rest(row) = row.todo
    BY DEF AtMarker, ReadRow, Rest
  <1>2. Plan(row.todo, a, goal) /\ a.left = m.todo /\ a.got = got /\ a.open = open
    BY <1>1 DEF TracksBy
  <1> HIDE DEF a, goal, step
  <1>3. PICK b \in Stage : Does(step, a, b) /\ Plan(Tail(row.todo), b, goal)
    BY <1>1, <1>2, PlanTail DEF step
  <1>4. Collects(step, a, b)
    BY <1>1, <1>3 DEF Does, Takes
  <1>5. PICK pre \in Seq(Occ) : /\ got = pre \o Kids[step.obj]
                                /\ b.got = Append(pre, <<step.pos, step.obj>>)
    BY <1>2, <1>4 DEF Collects
  <1>6. EntryOf(step) \in open /\ b.left = m.todo /\ b.open = open \ {EntryOf(step)}
    BY <1>2, <1>4 DEF Collects
  <1>7. b = [left |-> m.todo, got |-> Append(pre, <<step.pos, step.obj>>),
             open |-> open \ {EntryOf(step)}]
    BY <1>5, <1>6, Zenon DEF Stage
  <1>8. Collected(row, m, got, open, pre)
    BY <1>3, <1>5, <1>6, <1>7 DEF Collected, step, goal
  <1> QED BY <1>8

\* The values collected are of what the object holds.
LEMMA KidsSame ==
  ASSUME NEW row, AtMarker(row), NEW x, NEW h, NEW m, NEW got, NEW open, NEW pre,
         Collected(row, m, got, open, pre), Same(h, row.vals, got, row.id)
  PROVE  /\ Same(h, Older(row), pre, row.id) /\ Older(row) \in Seq(Nat)
         /\ Same(h, KidValues(row), Kids[Head(row.todo).obj], row.id)
  <1> DEFINE kids == Kids[Head(row.todo).obj]
  <1>1. kids \in Seq(Occ) /\ pre \in Seq(Occ) /\ row.vals \in Seq(Nat)
    BY MarkerParts DEF AtMarker, ReadRow, Collected
  <1>2. Same(h, row.vals, pre \o kids, row.id)
    BY DEF Collected
  <1>3. KidCount(row) = Len(kids)
    BY DEF KidCount
  <1> HIDE DEF kids
  <1>4. /\ Same(h, SubSeq(row.vals, 1, Len(row.vals) - Len(kids)), pre, row.id)
        /\ Same(h, SubSeq(row.vals, Len(row.vals) - Len(kids) + 1, Len(row.vals)), kids, row.id)
        /\ SubSeq(row.vals, 1, Len(row.vals) - Len(kids)) \in Seq(Nat)
    BY <1>1, <1>2, SameSplit
  <1> QED BY <1>3, <1>4 DEF Older, KidValues, kids

\* The new value joins the older ones.
LEMMA EndedSame ==
  ASSUME NEW row, AtMarker(row), NEW g, NEW pre \in Seq(Occ), NEW ptr \in Nat,
         Same(g, Older(row), pre, row.id), Older(row) \in Seq(Nat),
         ptr # NoPtr => /\ ptr \in DOMAIN g /\ g[ptr].row = row.id
                        /\ g[ptr].pos = Head(row.todo).pos /\ g[ptr].obj = Head(row.todo).obj,
         NEW r, NEW phase, Ended(row, r, ptr, phase)
  PROVE  /\ Same(g, r.vals, Append(pre, <<Head(row.todo).pos, Head(row.todo).obj>>), r.id)
         /\ Append(pre, <<Head(row.todo).pos, Head(row.todo).obj>>) \in Seq(Occ)
  <1> DEFINE occ == <<Head(row.todo).pos, Head(row.todo).obj>>
  <1>1. occ \in Occ
    BY MarkerParts DEF Occ
  <1>2. ptr # NoPtr => ptr \in DOMAIN g /\ g[ptr].row = row.id /\ <<g[ptr].pos, g[ptr].obj>> = occ
    OBVIOUS
  <1> HIDE DEF occ
  <1>3. Same(g, Append(Older(row), ptr), Append(pre, occ), row.id)
    BY <1>1, <1>2, SameAppend
  <1>4. Append(pre, occ) \in Seq(Occ)
    BY <1>1, AppendProperties
  <1> QED BY <1>3, <1>4 DEF Ended, occ

\* The values of the row, when one is made.
LEMMA MadeMine ==
  ASSUME NEW row, NEW r, r.id = row.id, row.phase # "register", NEW x, NEW y, NEW h, NEW g,
         Mine(row, x, h), NEW ptr, NEW step, NEW kids, Made(h, g, ptr, row, step, kids),
         step.pos \in Position, step.obj \in Object, Same(h, kids, Kids[step.obj], row.id),
         \A a \in DOMAIN h : h[a].pos \in Position /\ InRegistry(x.read, a, h) => InRegistry(y.read, a, g),
         Shares(step.as) => InRegistry(y.read, ptr, g) \/ (r.phase = "register" /\ ptr = y.published)
  PROVE  Mine(r, y, g)
  <1>0. Grows(h, g)
    BY DEF Made
  <1> SUFFICES ASSUME NEW a \in DOMAIN g, g[a].row = r.id
               PROVE  /\ g[a].pos \in Position /\ g[a].obj \in Object
                      /\ Same(g, g[a].kids, Kids[g[a].obj], r.id)
                      /\ Shares(g[a].as) => \/ InRegistry(y.read, a, g)
                                            \/ r.phase = "register" /\ a = y.published
    BY DEF Mine
  <1>1. CASE a = ptr
    <2>1. /\ g[a].pos = step.pos /\ g[a].obj = step.obj /\ g[a].as = step.as /\ g[a].kids = kids
      BY <1>1 DEF Made
    <2>2. Same(g, kids, Kids[step.obj], row.id)
      BY <1>0, SameGrows
    <2> QED BY <1>1, <2>1, <2>2
  <1>2. CASE a # ptr
    <2>1. a \in DOMAIN h /\ g[a] = h[a]
      BY <1>0, <1>2 DEF Made, Grows
    <2>2. /\ h[a].pos \in Position /\ h[a].obj \in Object
          /\ Same(h, h[a].kids, Kids[h[a].obj], row.id)
          /\ Shares(h[a].as) => InRegistry(x.read, a, h)
      BY <2>1 DEF Mine
    <2>3. Same(g, h[a].kids, Kids[h[a].obj], row.id)
      BY <1>0, <2>2, SameGrows
    <2> QED BY <2>1, <2>2, <2>3
  <1> QED BY <1>1, <1>2

\* What holds at a marker, and of the entry it ends.
LEMMA AtMarkerFacts ==
  ASSUME NEW row, AtMarker(row), NEW x \in Locals, NEW h, Own(x.read, row, h),
         NEW m, NEW got \in Seq(Occ), NEW open \in SUBSET Entries, TracksBy(row, x, h, m, got, open)
  PROVE  /\ m \in Moment /\ KeysAreDense(m.dict) /\ OnLog(m, row.wire)
         /\ InStep(row, x.read, m) /\ Same(h, row.vals, got, row.id)
         /\ Filled(x.read, m, h) /\ Mine(row, x, h)
         /\ \A c \in open : Waits(x.read, m, c)
         /\ x.read \in [Position -> Seq(Nat)]
         /\ row.kind = "read" /\ row.phase = "work"
  BY OnLogNext DEF TracksBy, AtMarker, ReadRow, Locals

\* The values of a row after its marker.
LEMMA EndedParts ==
  ASSUME NEW row, AtMarker(row), NEW r, NEW ptr, NEW phase, Ended(row, r, ptr, phase)
  PROVE  /\ r.id = row.id /\ Goal(r) = Goal(row) /\ r.wire = row.wire /\ r.phase = phase
         /\ phase \in {"work", "register"} => Rest(r) = Tail(row.todo) /\ ~ Shares(r.phase)
         /\ \A reg, m : InStep(row, reg, m) => InStep(r, reg, m)
         /\ phase = "register" => r.todo = row.todo
  BY DEF Ended, Rest, Goal, Shares, InStep

\* The marker yields nothing, or a value that nobody shares.
LEMMA EndUnsharedKeeps ==
  ASSUME NEW row, AtMarker(row), NEW x \in Locals, NEW h, Own(x.read, row, h), Tracks(row, x, h),
         NEW ptr \in Nat, NEW r, Ended(row, r, ptr, "work"), NEW y, y.read = x.read, NEW g,
         \/ ptr = NoPtr /\ g = h /\ Grows(h, g)
         \/ Made(h, g, ptr, row, Head(row.todo), KidValues(row)) /\ ~ Shares(Head(row.todo).as)
  PROVE  Tracks(r, y, g)
  <1>1. PICK m : \E got \in Seq(Occ) : \E open \in SUBSET Entries : TracksBy(row, x, h, m, got, open)
    BY DEF Tracks
  <1>2. PICK got \in Seq(Occ) : \E open \in SUBSET Entries : TracksBy(row, x, h, m, got, open)
    BY <1>1
  <1>3. PICK open \in SUBSET Entries : TracksBy(row, x, h, m, got, open)
    BY <1>2
  <1>4. PICK pre : Collected(row, m, got, open, pre)
    BY <1>3, EndPlan
  <1> DEFINE step == Head(row.todo)
             e == EntryOf(step)
             more == Append(pre, <<step.pos, step.obj>>)
             left == open \ {e}
  <1>5. /\ m \in Moment /\ OnLog(m, row.wire)
        /\ InStep(row, x.read, m) /\ Same(h, row.vals, got, row.id)
        /\ Filled(x.read, m, h) /\ Mine(row, x, h)
        /\ \A c \in open : Waits(x.read, m, c)
        /\ row.kind = "read" /\ row.phase = "work"
    BY <1>3, AtMarkerFacts
  <1>6. Grows(h, g)
    BY DEF Made
  <1>7. /\ Same(h, Older(row), pre, row.id) /\ Older(row) \in Seq(Nat)
        /\ Same(h, KidValues(row), Kids[step.obj], row.id)
    BY <1>4, <1>5, KidsSame
  <1>8. Same(g, r.vals, more, r.id) /\ more \in Seq(Occ)
    <2>1. Same(g, Older(row), pre, row.id)
      BY <1>6, <1>7, SameGrows
    <2>2. pre \in Seq(Occ)
      BY <1>4 DEF Collected
    <2>3. ptr # NoPtr => /\ ptr \in DOMAIN g /\ g[ptr].row = row.id
                         /\ g[ptr].pos = Head(row.todo).pos /\ g[ptr].obj = Head(row.todo).obj
      BY DEF Made
    <2> QED BY <1>7, <2>1, <2>2, <2>3, EndedSame
  <1>9. Filled(y.read, m, g)
    BY <1>5, <1>6, FilledGrows
  <1>10. r.id = row.id
    BY EndedParts
  <1>11. Mine(r, y, g)
    <2>1. CASE ptr = NoPtr /\ g = h
      BY <1>5, <1>10, <2>1 DEF Mine
    <2>2. CASE Made(h, g, ptr, row, step, KidValues(row)) /\ ~ Shares(step.as)
      <3>1. \A a \in DOMAIN h : h[a].pos \in Position /\ InRegistry(x.read, a, h) => InRegistry(y.read, a, g)
        BY <1>6, RegistryGrows
      <3>2. step.pos \in Position /\ step.obj \in Object
        BY MarkerParts, SMTT(30)
      <3> HIDE DEF step
      <3> QED BY <1>5, <1>7, <1>10, <2>2, <3>1, <3>2, MadeMine
    <2> QED BY <2>1, <2>2
  <1>12. Plan(Rest(r), [left |-> m.todo, got |-> more, open |-> left], Goal(r))
    BY <1>4, EndedParts DEF Collected
  <1>13. InStep(r, y.read, m) /\ OnLog(m, r.wire)
    BY <1>5, EndedParts
  <1>14. Publishing(r, y, g, m, left) /\ Delivering(r, y)
    BY EndedParts DEF Publishing, Delivering
  <1>15. \A c \in left : Waits(y.read, m, c)
    BY <1>5
  <1>16. TracksBy(r, y, g, m, more, left)
    BY <1>8, <1>9, <1>11, <1>12, <1>13, <1>14, <1>15 DEF TracksBy
  <1>17. left \in SUBSET Entries
    OBVIOUS
  <1> QED BY <1>8, <1>16, <1>17 DEF Tracks

\* The marker yields a value the columnar engine registers.
LEMMA EndColumnsKeeps ==
  ASSUME NEW row, AtMarker(row), NEW x \in Locals, NEW h, Own(x.read, row, h), Tracks(row, x, h),
         NEW ptr \in Nat, NEW r, Ended(row, r, ptr, "work"), NEW g,
         Made(h, g, ptr, row, Head(row.todo), KidValues(row)), DOMAIN h \subseteq Nat \ {NoPtr},
         NEW y, y.read = Fulfill(x.read, Head(row.todo).pos, Head(row.todo).key, ptr)
  PROVE  Tracks(r, y, g)
  <1>1. PICK m : \E got \in Seq(Occ) : \E open \in SUBSET Entries : TracksBy(row, x, h, m, got, open)
    BY DEF Tracks
  <1>2. PICK got \in Seq(Occ) : \E open \in SUBSET Entries : TracksBy(row, x, h, m, got, open)
    BY <1>1
  <1>3. PICK open \in SUBSET Entries : TracksBy(row, x, h, m, got, open)
    BY <1>2
  <1>4. PICK pre : Collected(row, m, got, open, pre)
    BY <1>3, EndPlan
  <1> DEFINE step == Head(row.todo)
             e == EntryOf(step)
             more == Append(pre, <<step.pos, step.obj>>)
             left == open \ {e}
  <1>5. /\ m \in Moment /\ OnLog(m, row.wire) /\ KeysAreDense(m.dict)
        /\ InStep(row, x.read, m) /\ Same(h, row.vals, got, row.id)
        /\ Filled(x.read, m, h) /\ Mine(row, x, h)
        /\ \A c \in open : Waits(x.read, m, c)
        /\ row.kind = "read" /\ row.phase = "work" /\ x.read \in [Position -> Seq(Nat)]
    BY <1>3, AtMarkerFacts
  <1>6. Grows(h, g)
    BY DEF Made
  <1>7. /\ Same(h, Older(row), pre, row.id) /\ Older(row) \in Seq(Nat)
        /\ Same(h, KidValues(row), Kids[step.obj], row.id)
    BY <1>4, <1>5, KidsSame
  <1>8. Same(g, r.vals, more, r.id) /\ more \in Seq(Occ)
    <2>1. Same(g, Older(row), pre, row.id)
      BY <1>6, <1>7, SameGrows
    <2>2. pre \in Seq(Occ)
      BY <1>4 DEF Collected
    <2>3. ptr # NoPtr => /\ ptr \in DOMAIN g /\ g[ptr].row = row.id
                         /\ g[ptr].pos = Head(row.todo).pos /\ g[ptr].obj = Head(row.todo).obj
      BY DEF Made
    <2> QED BY <1>7, <2>1, <2>2, <2>3, EndedSame
  <1>9. Filled(x.read, m, g)
    BY <1>5, <1>6, FilledGrows
  <1>10. r.id = row.id
    BY EndedParts, Zenon
  <1>11. e \in open /\ Waits(x.read, m, e)
    BY <1>4, <1>5 DEF Collected
  <1>12. /\ e[1] = step.pos /\ e[2] = step.obj /\ e[3] = step.key
         /\ step.pos \in Position /\ step.obj \in Object
    BY MarkerParts
  <1>13. g[ptr].pos = e[1] /\ g[ptr].obj = e[2]
    BY <1>12 DEF Made
  <1>14. y.read = Fulfill(x.read, e[1], e[3], ptr)
    BY <1>12
  <1> HIDE DEF e, step, more, left
  <1>15. /\ InStep(row, y.read, m)
         /\ Filled(y.read, m, g)
         /\ \A c : c # e /\ Waits(x.read, m, c) => Waits(y.read, m, c)
         /\ InRegistry(y.read, ptr, g)
         /\ \A a : a # NoPtr /\ g[a].pos \in Position /\ InRegistry(x.read, a, g) => InRegistry(y.read, a, g)
    <2>1. Took(y.read, x.read, row, m, e, ptr, g)
      BY <1>5, <1>9, <1>11, <1>13, <1>14, FulfillKeeps
    <2> QED BY <1>13, <2>1 DEF Took
  <1>16. Mine(r, y, g)
    <2>1. ASSUME NEW a \in DOMAIN h, h[a].pos \in Position, InRegistry(x.read, a, h)
          PROVE  InRegistry(y.read, a, g)
      <3>1. a # NoPtr
        OBVIOUS
      <3>2. InRegistry(x.read, a, g) /\ g[a].pos \in Position
        BY <1>6, <2>1, RegistryGrows DEF Grows
      <3> QED BY <1>15, <3>1, <3>2
    <2>2. Made(h, g, ptr, row, step, KidValues(row))
      BY DEF step
    <2>3. \A a \in DOMAIN h : h[a].pos \in Position /\ InRegistry(x.read, a, h) => InRegistry(y.read, a, g)
      BY <2>1
    <2>4. Same(h, KidValues(row), Kids[step.obj], row.id) /\ Mine(row, x, h)
      BY <1>5, <1>7 DEF step
    <2>5. row.phase # "register"
      BY <1>5
    <2>6. Shares(step.as) => InRegistry(y.read, ptr, g) \/ (r.phase = "register" /\ ptr = y.published)
      BY <1>15
    <2>7. r.id = row.id
      BY <1>10
    <2>8. step.pos \in Position /\ step.obj \in Object
      BY <1>12
    <2> QED BY <2>2, <2>3, <2>4, <2>5, <2>6, <2>7, <2>8, MadeMine
  <1>17. Plan(Rest(r), [left |-> m.todo, got |-> more, open |-> left], Goal(r))
    BY <1>4, EndedParts DEF Collected, more, left, e, step
  <1>18. InStep(r, y.read, m) /\ OnLog(m, r.wire)
    BY <1>5, <1>15, EndedParts
  <1>19. Publishing(r, y, g, m, left) /\ Delivering(r, y)
    BY EndedParts DEF Publishing, Delivering
  <1>20. \A c \in left : Waits(y.read, m, c)
    BY <1>5, <1>15, Zenon DEF left
  <1>21. TracksBy(r, y, g, m, more, left)
    BY <1>8, <1>15, <1>16, <1>17, <1>18, <1>19, <1>20 DEF TracksBy, more, step
  <1>22. left \in SUBSET Entries /\ more \in Seq(Occ)
    BY <1>8 DEF left, more, step
  <1> QED BY <1>21, <1>22 DEF Tracks

\* The marker yields a value that is published for its entry.
LEMMA EndPublishKeeps ==
  ASSUME NEW row, AtMarker(row), NEW x \in Locals, NEW h, Own(x.read, row, h), Tracks(row, x, h),
         NEW ptr \in Nat, NEW r, Ended(row, r, ptr, "register"), NEW g,
         Made(h, g, ptr, row, Head(row.todo), KidValues(row)),
         NEW y, y.read = x.read, y.published = ptr
  PROVE  Tracks(r, y, g)
  <1>1. PICK m : \E got \in Seq(Occ) : \E open \in SUBSET Entries : TracksBy(row, x, h, m, got, open)
    BY DEF Tracks
  <1>2. PICK got \in Seq(Occ) : \E open \in SUBSET Entries : TracksBy(row, x, h, m, got, open)
    BY <1>1
  <1>3. PICK open \in SUBSET Entries : TracksBy(row, x, h, m, got, open)
    BY <1>2
  <1>4. PICK pre : Collected(row, m, got, open, pre)
    BY <1>3, EndPlan
  <1> DEFINE step == Head(row.todo)
             e == EntryOf(step)
             more == Append(pre, <<step.pos, step.obj>>)
             left == open \ {e}
  <1>5. /\ m \in Moment /\ OnLog(m, row.wire)
        /\ InStep(row, x.read, m) /\ Same(h, row.vals, got, row.id)
        /\ Filled(x.read, m, h) /\ Mine(row, x, h)
        /\ \A c \in open : Waits(x.read, m, c)
        /\ row.kind = "read" /\ row.phase = "work"
    BY <1>3, AtMarkerFacts
  <1>6. Grows(h, g)
    BY DEF Made
  <1>7. /\ Same(h, Older(row), pre, row.id) /\ Older(row) \in Seq(Nat)
        /\ Same(h, KidValues(row), Kids[step.obj], row.id)
    BY <1>4, <1>5, KidsSame
  <1>8. Same(g, r.vals, more, r.id) /\ more \in Seq(Occ)
    <2>1. Same(g, Older(row), pre, row.id)
      BY <1>6, <1>7, SameGrows
    <2>2. pre \in Seq(Occ)
      BY <1>4 DEF Collected
    <2>3. ptr # NoPtr => /\ ptr \in DOMAIN g /\ g[ptr].row = row.id
                         /\ g[ptr].pos = Head(row.todo).pos /\ g[ptr].obj = Head(row.todo).obj
      BY DEF Made
    <2> QED BY <1>7, <2>1, <2>2, <2>3, EndedSame
  <1>9. Filled(y.read, m, g)
    BY <1>5, <1>6, FilledGrows
  <1>10. r.id = row.id /\ r.phase = "register" /\ r.todo = row.todo
    BY EndedParts
  <1>11. Mine(r, y, g)
    <2>1. \A a \in DOMAIN h : h[a].pos \in Position /\ InRegistry(x.read, a, h) => InRegistry(y.read, a, g)
      BY <1>6, RegistryGrows
    <2>2. step.pos \in Position /\ step.obj \in Object
      BY MarkerParts
    <2>3. Made(h, g, ptr, row, step, KidValues(row))
      OBVIOUS
    <2> HIDE DEF step
    <2>4. Shares(step.as) => InRegistry(y.read, ptr, g) \/ (r.phase = "register" /\ ptr = y.published)
      BY <1>10, Zenon
    <2> QED BY <1>5, <1>7, <1>10, <2>1, <2>2, <2>3, <2>4, MadeMine
  <1>12. Plan(Rest(r), [left |-> m.todo, got |-> more, open |-> left], Goal(r))
    BY <1>4, EndedParts DEF Collected
  <1>13. InStep(r, y.read, m) /\ OnLog(m, r.wire)
    BY <1>5, EndedParts
  <1>14. Publishing(r, y, g, m, left) /\ Delivering(r, y)
    <2>1. e \in open /\ Waits(y.read, m, e) /\ e \notin left
      BY <1>4, <1>5 DEF Collected
    <2>2. g[y.published].obj = step.obj
      BY DEF Made
    <2> QED BY <1>10, <2>1, <2>2 DEF Publishing, Delivering, Shares
  <1>15. \A c \in left : Waits(y.read, m, c)
    BY <1>5
  <1>16. TracksBy(r, y, g, m, more, left)
    BY <1>8, <1>9, <1>11, <1>12, <1>13, <1>14, <1>15 DEF TracksBy
  <1>17. left \in SUBSET Entries
    OBVIOUS
  <1> QED BY <1>8, <1>16, <1>17 DEF Tracks

\* The value published is registered.
LEMMA RegisterTracks ==
  ASSUME NEW row \in ReadRow, row.phase = "register", Head(row.todo).key \in Nat,
         NEW x \in Locals, NEW h, Own(x.read, row, h), Tracks(row, x, h),
         OwnPtr(x.published, Head(row.todo).pos, row, h), DOMAIN h \subseteq Nat \ {NoPtr},
         NEW r, Registered(row, r),
         NEW y, y.read = Fulfill(x.read, Head(row.todo).pos, Head(row.todo).key, x.published)
  PROVE  Tracks(r, y, h)
  <1>1. PICK m : \E got \in Seq(Occ) : \E open \in SUBSET Entries : TracksBy(row, x, h, m, got, open)
    BY DEF Tracks
  <1>2. PICK got \in Seq(Occ) : \E open \in SUBSET Entries : TracksBy(row, x, h, m, got, open)
    BY <1>1
  <1>3. PICK open \in SUBSET Entries : TracksBy(row, x, h, m, got, open)
    BY <1>2
  <1> DEFINE step == Head(row.todo)
             e == EntryOf(step)
             ptr == x.published
  <1>4. /\ m \in Moment /\ KeysAreDense(m.dict) /\ OnLog(m, row.wire)
        /\ InStep(row, x.read, m) /\ Same(h, row.vals, got, row.id)
        /\ Filled(x.read, m, h) /\ Mine(row, x, h)
        /\ \A c \in open : Waits(x.read, m, c)
        /\ x.read \in [Position -> Seq(Nat)] /\ ptr \in Nat
    BY <1>3, OnLogNext DEF TracksBy, Locals
  <1>5. e \notin open /\ Waits(x.read, m, e) /\ h[ptr].obj = step.obj
    BY <1>3 DEF TracksBy, Publishing
  <1>6. e[1] = step.pos /\ e[2] = step.obj /\ e[3] = step.key
    BY DEF EntryOf
  <1>7. h[ptr].pos = e[1] /\ h[ptr].obj = e[2]
    BY <1>5, <1>6 DEF OwnPtr
  <1>8. y.read = Fulfill(x.read, e[1], e[3], ptr)
    BY <1>6
  <1> HIDE DEF e, step, ptr
  <1>9. Took(y.read, x.read, row, m, e, ptr, h)
    BY <1>4, <1>5, <1>7, <1>8, FulfillKeeps
  <1>10. /\ InStep(row, y.read, m) /\ Filled(y.read, m, h) /\ InRegistry(y.read, ptr, h)
         /\ \A c : c # e /\ Waits(x.read, m, c) => Waits(y.read, m, c)
         /\ \A a : a # NoPtr /\ h[a].pos \in Position /\ InRegistry(x.read, a, h) => InRegistry(y.read, a, h)
    BY <1>7, <1>9 DEF Took
  <1>11. Mine(r, y, h)
    <2> SUFFICES ASSUME NEW a \in DOMAIN h, h[a].row = r.id
                 PROVE  /\ h[a].pos \in Position /\ h[a].obj \in Object
                        /\ Same(h, h[a].kids, Kids[h[a].obj], r.id)
                        /\ Shares(h[a].as) => InRegistry(y.read, a, h)
      BY DEF Mine
    <2>1. /\ h[a].pos \in Position /\ h[a].obj \in Object
          /\ Same(h, h[a].kids, Kids[h[a].obj], r.id)
          /\ Shares(h[a].as) => InRegistry(x.read, a, h) \/ a = ptr
      BY <1>4 DEF Mine, Registered, ptr
    <2>2. a # NoPtr
      OBVIOUS
    <2> QED BY <1>10, <2>1, <2>2
  <1>12. Plan(Rest(r), [left |-> m.todo, got |-> got, open |-> open], Goal(r))
    BY <1>3 DEF TracksBy, Rest, Goal, Registered
  <1>13. InStep(r, y.read, m)
    BY <1>10 DEF InStep, Registered
  <1>14. OnLog(m, r.wire) /\ Same(h, r.vals, got, r.id)
    BY <1>4 DEF Registered
  <1>15. Publishing(r, y, h, m, open) /\ Delivering(r, y)
    BY DEF Publishing, Delivering, Shares, Registered
  <1>16. \A c \in open : Waits(y.read, m, c)
    BY <1>4, <1>5, <1>10
  <1>17. TracksBy(r, y, h, m, got, open)
    BY <1>10, <1>11, <1>12, <1>13, <1>14, <1>15, <1>16 DEF TracksBy
  <1> QED BY <1>17 DEF Tracks

-----------------------------------------------------------------------------
(***************************************************************************)
(* The other steps of a reader, and the first.                             *)
(***************************************************************************)
\* A row that hands a repeat over, or whose user code does something else, is
\* where it was.
LEMMA DeliverTracks ==
  ASSUME NEW row \in ReadRow, row.phase = "work", Head(row.todo).op = "occ",
         NEW x, NEW h, Tracks(row, x, h),
         NEW as \in {"rc", "arc"}, NEW r, r = [row EXCEPT !.phase = as],
         IsRepeat(x.read, Pos(row), KeyAt(row, Pos(row))),
         NEW y, y.read = x.read, y.delivered = Entry(x.read, Pos(row), KeyAt(row, Pos(row)))
  PROVE  Tracks(r, y, h)
  <1>1. PICK m : \E got \in Seq(Occ) : \E open \in SUBSET Entries : TracksBy(row, x, h, m, got, open)
    BY DEF Tracks
  <1>2. PICK got \in Seq(Occ) : \E open \in SUBSET Entries : TracksBy(row, x, h, m, got, open)
    BY <1>1
  <1>3. PICK open \in SUBSET Entries : TracksBy(row, x, h, m, got, open)
    BY <1>2
  <1>4. /\ r.phase = as /\ r.todo = row.todo /\ r.wire = row.wire /\ r.vals = row.vals
        /\ r.id = row.id /\ r.keysRead = row.keysRead /\ r.payloadsRead = row.payloadsRead
    BY DEF ReadRow
  <1>5. InStep(r, y.read, m)
    BY <1>3, <1>4 DEF TracksBy, InStep
  <1>6. Plan(Rest(r), [left |-> m.todo, got |-> got, open |-> open], Goal(r))
    BY <1>3, <1>4 DEF TracksBy, Rest, Goal
  <1>7. Mine(r, y, h)
    BY <1>3, <1>4, Zenon DEF TracksBy, Mine
  <1>8. Publishing(r, y, h, m, open)
    BY <1>4 DEF Publishing
  <1>9. Delivering(r, y)
    BY <1>4, Zenon DEF Delivering, Pos, KeyAt
  <1>10. TracksBy(r, y, h, m, got, open)
    BY <1>3, <1>4, <1>5, <1>6, <1>7, <1>8, <1>9 DEF TracksBy
  <1> QED BY <1>10 DEF Tracks

\* A row that was handing something over and is not.
LEMMA WorkTracks ==
  ASSUME NEW row, row.phase = "work", NEW x, NEW h, Tracks(row, x, h), NEW y, y.read = x.read
  PROVE  Tracks(row, y, h)
  <1>1. PICK m : \E got \in Seq(Occ) : \E open \in SUBSET Entries : TracksBy(row, x, h, m, got, open)
    BY DEF Tracks
  <1>2. PICK got \in Seq(Occ) : \E open \in SUBSET Entries : TracksBy(row, x, h, m, got, open)
    BY <1>1
  <1>3. PICK open \in SUBSET Entries : TracksBy(row, x, h, m, got, open)
    BY <1>2
  <1>4. Mine(row, y, h)
    BY <1>3 DEF TracksBy, Mine
  <1>5. Publishing(row, y, h, m, open) /\ Delivering(row, y)
    BY DEF Publishing, Delivering, Shares
  <1>6. TracksBy(row, y, h, m, got, open)
    BY <1>3, <1>4, <1>5 DEF TracksBy
  <1> QED BY <1>6 DEF Tracks

\* A row is begun where its writer began.
LEMMA BeginTracks ==
  ASSUME NEW w \in Wire, OnLog(Start(w.row), w), NEW h,
         NEW row \in ReadRow, row.phase = "work", row.wire = w, row.vals = << >>,
         row.todo = Occurrences(w.row, FALSE),
         row.keysRead = [p \in Position |-> 0], row.payloadsRead = [p \in Position |-> 0],
         \A a \in DOMAIN h : h[a].row # row.id
  PROVE  Tracks(row, Fresh, h)
  <1> DEFINE m == Start(w.row)
  <1>1. w.row \in Seq(Occ)
    BY DEF Wire, Occ
  <1>2. m \in Moment
    <2> DEFINE data == w.row
    <2>1. data \in Seq(Occ)
      BY <1>1
    <2> HIDE DEF data
    <2>2. Start(data) \in Moment
      BY <2>1, LogStart, Zenon
    <2> QED BY <2>2 DEF data
  <1>3. /\ m.todo = w.row /\ m.dict.counts = [p \in Position |-> 0]
        /\ m.keys = [p \in Position |-> << >>] /\ m.payload = [p \in Position |-> << >>]
    BY DEF Start, EmptyWrite, EmptyWire
  <1>4. Fresh.read = [p \in Position |-> << >>]
    BY DEF Fresh, EmptyRead
  <1>5. InStep(row, Fresh.read, m)
    <2> DEFINE reg == Fresh.read
    <2> HIDE DEF m, reg
    <2> SUFFICES ASSUME NEW p \in Position
                 PROVE  /\ Len(reg[p]) = m.dict.counts[p]
                        /\ row.keysRead[p] = Len(m.keys[p])
                        /\ row.payloadsRead[p] = Len(m.payload[p])
      BY DEF InStep, reg
    <2>1. /\ m.dict.counts[p] = 0 /\ m.keys[p] = << >> /\ m.payload[p] = << >>
          /\ row.keysRead[p] = 0 /\ row.payloadsRead[p] = 0
      BY <1>3
    <2>2. reg[p] = << >>
      BY <1>4 DEF reg
    <2> QED BY <2>1, <2>2
  <1>6. Same(h, row.vals, << >>, row.id)
    BY DEF Same
  <1>7. Filled(Fresh.read, m, h)
    BY <1>4 DEF Filled
  <1>8. Mine(row, Fresh, h)
    BY DEF Mine
  <1>9. Publishing(row, Fresh, h, m, {}) /\ Delivering(row, Fresh)
    BY DEF Publishing, Delivering, Shares
  <1>10. Plan(Rest(row), [left |-> m.todo, got |-> << >>, open |-> {}], Goal(row))
    <2> DEFINE data == w.row
               goal == Goal(row)
               none == << >>
    <2>1. none \in Seq(Occ) /\ none \in Seq(Step) /\ {} \in SUBSET Entries
      OBVIOUS
    <2>2. data \o none = data /\ none \o data = data
      BY <1>1, ConcatEmptySeq
    <2>3. goal = [left |-> none, got |-> data, open |-> {}] /\ goal \in Stage
      BY <1>1, <2>1 DEF Goal, Stage
    <2>4. Plan(none, goal, goal)
      BY <2>3, PlanDone
    <2>5. Occurrences(data, FALSE) \in Seq(Step)
      BY <1>1, OccurrencesType DEF Occ
    <2>6. Occurrences(data, FALSE) \o none = Occurrences(data, FALSE)
      BY <2>5, ConcatEmptySeq
    <2>7. Rest(row) = Occurrences(data, FALSE) /\ data \in Seq(Occ)
      BY <1>1 DEF Rest
    <2> HIDE DEF data, goal, none
    <2>8. Plan(none, [left |-> none, got |-> none \o data, open |-> {}], goal)
      BY <2>2, <2>3, <2>4
    <2>9. Plan(Occurrences(data, FALSE) \o none, [left |-> data \o none, got |-> none, open |-> {}], goal)
      BY <2>1, <2>7, <2>8, PlanKids
    <2>10. Plan(Rest(row), [left |-> data, got |-> none, open |-> {}], goal)
      BY <2>2, <2>6, <2>7, <2>9
    <2> QED BY <1>3, <2>10 DEF data, goal, none
  <1> HIDE DEF m
  <1>11. TracksBy(row, Fresh, h, m, << >>, {})
    BY <1>5, <1>6, <1>7, <1>8, <1>9, <1>10 DEF TracksBy, m
  <1>12. << >> \in Seq(Occ) /\ {} \in SUBSET Entries
    OBVIOUS
  <1> QED BY <1>11, <1>12 DEF Tracks

-----------------------------------------------------------------------------
(***************************************************************************)
(* Steps of the state: the rows waiting stay where they are.               *)
(***************************************************************************)
\* A row that waits is where it was when the row inside it makes values.
LEMMA FollowsGrows ==
  ASSUME NEW row, row.phase = "work", NEW x, NEW h, NEW g, Grows(h, g),
         Own(x.read, row, h),
         row.kind = "read" => \A a \in DOMAIN g : a \notin DOMAIN h => g[a].row # row.id,
         Follows(row, x, h)
  PROVE  Follows(row, x, g)
  <1>1. ASSUME Genuine(row) PROVE Tracks(row, x, g)
    <2>1. row.kind = "read" /\ Tracks(row, x, h)
      BY <1>1 DEF Genuine, Follows
    <2> QED BY <2>1, TracksGrows
  <1> QED BY <1>1 DEF Follows

\* The values made are those of a row that is being read.
NewOf(h, g, row) ==
  \A a \in DOMAIN g : a \notin DOMAIN h => row.kind = "read" /\ g[a].row = row.id

\* A row begins on top of the others.
LEMMA RowBegins ==
  ASSUME IInv, ReadInv, NEW row \in Row, row.phase = "work", BeginRow(row),
         UNCHANGED <<wire, heap>>,
         row.kind = "read" => row.id = begun + 1,
         Follows(row, Fresh, heap)
  PROVE  ReadInv'
  <1>1. /\ saved' = Append(saved, tls) /\ tls' = Fresh
        /\ rows' = Append(rows, row) /\ begun' = begun + 1
        /\ wire' = wire /\ heap' = heap
    BY DEF BeginRow, OpenScope
  <1>2. /\ rows \in Seq(Row) /\ saved \in Seq(Locals) /\ tls \in Locals
        /\ Len(saved) = Len(rows) /\ Depth = Len(rows)
        /\ Len(rows) \in Nat /\ begun \in Nat
    BY DEF IInv, Typed, Depth
  <1>3. /\ rows' \in Seq(Row) /\ Len(rows') = Len(rows) + 1
        /\ rows'[Len(rows) + 1] = row
        /\ \A i \in 1 .. Len(rows) : rows'[i] = rows[i]
    BY <1>1, <1>2, AppendProperties
  <1>4. /\ saved' \in Seq(Locals) /\ Len(saved') = Len(rows) + 1
        /\ saved'[Len(rows) + 1] = tls
        /\ \A i \in 1 .. Len(rows) : saved'[i] = saved[i]
    BY <1>1, <1>2, AppendProperties
  <1>5. Depth' = Len(rows) + 1 /\ Top' = row
    BY <1>3 DEF Depth, Top
  <1>6. Ids /\ Followed /\ Readable
    BY DEF ReadInv
  <1>7. Ids'
    <2>1. \A a \in DOMAIN heap : heap'[a].row \in 0 .. begun'
      BY <1>1, <1>2, <1>6 DEF Ids
    <2>2. ASSUME NEW i \in 1 .. Depth', rows'[i].kind = "read"
          PROVE  rows'[i].id \in 1 .. begun'
      <3>1. CASE i = Len(rows) + 1
        BY <3>1, <2>2, <1>1, <1>2, <1>3
      <3>2. CASE i # Len(rows) + 1
        <4>1. i \in 1 .. Depth /\ rows'[i] = rows[i]
          BY <3>2, <1>2, <1>3, <1>5
        <4>2. rows[i].id \in 1 .. begun
          BY <4>1, <2>2, <1>6 DEF Ids
        <4> QED BY <4>1, <4>2, <1>1, <1>2
      <3> QED BY <3>1, <3>2
    <2>3. ASSUME NEW i \in 1 .. Depth', NEW j \in 1 .. Depth',
                 i < j, rows'[i].kind = "read", rows'[j].kind = "read"
          PROVE  rows'[i].id # rows'[j].id
      <3>1. i \in 1 .. Depth /\ rows'[i] = rows[i]
        BY <2>3, <1>2, <1>3, <1>5
      <3>2. rows[i].id \in 1 .. begun
        BY <3>1, <2>3, <1>6 DEF Ids
      <3>3. CASE j = Len(rows) + 1
        <4>1. rows'[j].id = begun + 1
          BY <3>3, <2>3, <1>3
        <4> QED BY <4>1, <3>1, <3>2, <1>2
      <3>4. CASE j # Len(rows) + 1
        <4>1. j \in 1 .. Depth /\ rows'[j] = rows[j]
          BY <3>4, <1>2, <1>3, <1>5
        <4> QED BY <4>1, <3>1, <2>3, <1>6 DEF Ids
      <3> QED BY <3>3, <3>4
    <2> QED BY <2>1, <2>2, <2>3, <1>1 DEF Ids
  <1>8. Followed'
    <2>1. Follows(Top', tls', heap')
      BY <1>1, <1>5
    <2>2. ASSUME NEW i \in 1 .. Len(rows)
          PROVE  Follows(rows'[i], saved'[i + 1], heap')
      <3>1. CASE i = Len(rows)
        <4>1. Follows(Top, tls, heap) /\ rows'[i] = Top /\ saved'[i + 1] = tls
          BY <3>1, <1>2, <1>3, <1>4, <1>6 DEF Followed, Top, Depth
        <4> QED BY <4>1, <1>1
      <3>2. CASE i # Len(rows)
        <4>1. i \in 1 .. Depth - 1 /\ i + 1 \in 1 .. Len(rows)
          BY <3>2, <1>2
        <4>2. Follows(rows[i], saved[i + 1], heap) /\ rows'[i] = rows[i] /\ saved'[i + 1] = saved[i + 1]
          BY <4>1, <1>3, <1>4, <1>6 DEF Followed
        <4> QED BY <4>2, <1>1
      <3> QED BY <3>1, <3>2
    <2>3. Depth' - 1 = Len(rows)
      BY <1>2, <1>5
    <2> QED BY <2>1, <2>2, <2>3 DEF Followed
  <1>9. Readable'
    BY <1>1, <1>6 DEF Readable
  <1> QED BY <1>7, <1>8, <1>9 DEF ReadInv

\* The innermost row moves on.
LEMMA TopMoves ==
  ASSUME IInv, ReadInv, Depth > 0, NEW r \in Row, SetTop(r),
         r.kind = Top.kind, r.kind = "read" => r.id = Top.id,
         UNCHANGED <<active, saved, begun, wire>>,
         Grows(heap, heap'), NewOf(heap, heap', Top),
         Follows(r, tls', heap')
  PROVE  ReadInv'
  <1>1. /\ rows \in Seq(Row) /\ Depth = Len(rows) /\ Len(rows) \in Nat
        /\ rows' = [rows EXCEPT ![Len(rows)] = r] /\ Top = rows[Depth]
    BY DEF IInv, Typed, Depth, SetTop, Top
  <1>2. /\ rows' \in Seq(Row) /\ Len(rows') = Len(rows) /\ rows'[Len(rows)] = r
        /\ \A i \in 1 .. Len(rows) - 1 : rows'[i] = rows[i]
    BY <1>1, SetLast, SMTT(30)
  <1>3. Depth' = Depth /\ Top' = r /\ wire' = wire /\ saved' = saved /\ begun' = begun
    BY <1>1, <1>2 DEF Depth, Top
  <1>4. Ids /\ Followed /\ Readable
    BY DEF ReadInv
  <1>5. \A i \in 1 .. Depth : rows'[i].kind = rows[i].kind
          /\ (rows[i].kind = "read" => rows'[i].id = rows[i].id)
    <2> SUFFICES ASSUME NEW i \in 1 .. Depth
                 PROVE  /\ rows'[i].kind = rows[i].kind
                        /\ rows[i].kind = "read" => rows'[i].id = rows[i].id
      OBVIOUS
    <2>1. CASE i = Depth
      BY <2>1, <1>1, <1>2
    <2>2. CASE i # Depth
      <3>1. i \in 1 .. Len(rows) - 1
        BY <2>2, <1>1
      <3> QED BY <3>1, <1>2
    <2> QED BY <2>1, <2>2
  <1>6. Ids'
    <2>1. ASSUME NEW a \in DOMAIN heap'
          PROVE  heap'[a].row \in 0 .. begun'
      <3>1. CASE a \in DOMAIN heap
        <4>1. heap'[a] = heap[a]
          BY <3>1 DEF Grows
        <4> QED BY <4>1, <3>1, <1>3, <1>4 DEF Ids
      <3>2. CASE a \notin DOMAIN heap
        <4>1. Top.kind = "read" /\ heap'[a].row = Top.id
          BY <3>2 DEF NewOf
        <4>2. Depth \in 1 .. Depth
          BY <1>1
        <4>3. Top.id \in 1 .. begun
          BY <4>1, <4>2, <1>1, <1>4 DEF Ids
        <4>4. begun \in Nat
          BY DEF IInv, Typed
        <4> QED BY <4>1, <4>3, <4>4, <1>3
      <3> QED BY <3>1, <3>2
    <2>2. \A i \in 1 .. Depth' : rows'[i].kind = "read" => rows'[i].id \in 1 .. begun'
      BY <1>3, <1>4, <1>5 DEF Ids
    <2>3. \A i, j \in 1 .. Depth' :
            i < j /\ rows'[i].kind = "read" /\ rows'[j].kind = "read" => rows'[i].id # rows'[j].id
      BY <1>3, <1>4, <1>5 DEF Ids
    <2> QED BY <2>1, <2>2, <2>3 DEF Ids
  <1>7. Followed'
    <2>1. ASSUME NEW i \in 1 .. Depth - 1
          PROVE  Follows(rows'[i], saved'[i + 1], heap')
      <3> DEFINE row == rows[i]
                 x == saved[i + 1]
      <3>1. Follows(row, x, heap) /\ Own(x.read, row, heap) /\ row.phase = "work"
        BY <1>4 DEF IInv, Owned, Scoped, Followed
      <3>2. row.kind = "read" => \A a \in DOMAIN heap' : a \notin DOMAIN heap => heap'[a].row # row.id
        <4> SUFFICES ASSUME row.kind = "read", NEW a \in DOMAIN heap', a \notin DOMAIN heap
                     PROVE  heap'[a].row # row.id
          OBVIOUS
        <4>1. Top.kind = "read" /\ heap'[a].row = Top.id
          BY DEF NewOf
        <4>2. i \in 1 .. Depth /\ Depth \in 1 .. Depth /\ i < Depth
          BY <1>1
        <4>3. rows[i].id # rows[Depth].id
          BY <4>1, <4>2, <1>1, <1>4 DEF Ids
        <4> QED BY <4>1, <4>3, <1>1
      <3> HIDE DEF row, x
      <3>3. Follows(row, x, heap')
        BY <3>1, <3>2, FollowsGrows
      <3>4. rows'[i] = row /\ saved'[i + 1] = x
        BY <1>1, <1>2, <1>3 DEF row, x
      <3> QED BY <3>3, <3>4
    <2> QED BY <2>1, <1>3 DEF Followed
  <1>8. Readable'
    BY <1>3, <1>4 DEF Readable
  <1> QED BY <1>6, <1>7, <1>8 DEF ReadInv

\* The innermost row ends, and the one under it has its locals again.
LEMMA TopEnds ==
  ASSUME IInv, ReadInv, Depth > 0, EndRow, OnLog(Start(wire'.row), wire')
  PROVE  ReadInv'
  <1>1. /\ tls' = saved[Len(saved)]
        /\ saved' = SubSeq(saved, 1, Len(saved) - 1)
        /\ rows' = SubSeq(rows, 1, Len(rows) - 1)
        /\ begun' = IF Depth = 1 THEN 0 ELSE begun
        /\ heap' = IF Depth = 1 THEN <<ForeignNode>> ELSE heap
    BY DEF EndRow, CloseScope, Depth
  <1>2. /\ rows \in Seq(Row) /\ saved \in Seq(Locals)
        /\ Len(saved) = Len(rows) /\ Depth = Len(rows)
        /\ Len(rows) \in Nat /\ Len(rows) > 0
    BY DEF IInv, Typed, Depth
  <1>3. /\ rows' \in Seq(Row) /\ Len(rows') = Len(rows) - 1
        /\ \A i \in 1 .. Len(rows) - 1 : rows'[i] = rows[i]
    BY <1>1, <1>2, DropLast
  <1>4. /\ saved' \in Seq(Locals) /\ Len(saved') = Len(rows) - 1
        /\ \A i \in 1 .. Len(rows) - 1 : saved'[i] = saved[i]
    BY <1>1, <1>2, DropLast
  <1>5. Depth' = Len(rows) - 1 /\ Depth' \in Nat /\ Top' = rows'[Depth']
    BY <1>2, <1>3 DEF Depth, Top
  <1>6. Ids /\ Followed
    BY DEF ReadInv
  <1>7. Readable'
    BY DEF Readable
  <1>8. CASE Depth = 1
    <2>1. Depth' = 0
      BY <1>2, <1>5, <1>8
    <2>2. DOMAIN heap' = {1} /\ heap'[1].row = 0 /\ begun' = 0
      BY <1>1, <1>8 DEF ForeignNode
    <2>3. Ids'
      BY <2>1, <2>2 DEF Ids
    <2>4. Followed'
      BY <2>1 DEF Followed
    <2> QED BY <1>7, <2>3, <2>4 DEF ReadInv
  <1>9. CASE Depth # 1
    <2>1. heap' = heap /\ begun' = begun /\ Depth' > 0
      BY <1>1, <1>2, <1>5, <1>9
    <2>2. \A i \in 1 .. Depth' : i \in 1 .. Depth /\ rows'[i] = rows[i]
      BY <1>2, <1>3, <1>5
    <2>3. Ids'
      BY <2>1, <2>2, <1>6 DEF Ids
    <2>4. Follows(Top', tls', heap')
      <3> DEFINE n == Len(rows) - 1
      <3>1. n \in 1 .. Depth - 1 /\ n + 1 = Len(rows) /\ Depth' = n
        BY <1>2, <1>5, <1>9
      <3> HIDE DEF n
      <3>2. Follows(rows[n], saved[n + 1], heap)
        BY <3>1, <1>6 DEF Followed
      <3>3. Top' = rows[n] /\ tls' = saved[n + 1]
        BY <3>1, <1>1, <1>2, <1>3, <1>5 DEF n
      <3> QED BY <3>2, <3>3, <2>1
    <2>5. ASSUME NEW i \in 1 .. Depth' - 1
          PROVE  Follows(rows'[i], saved'[i + 1], heap')
      <3>1. i \in 1 .. Depth - 1 /\ i + 1 \in 1 .. Len(rows) - 1 /\ i \in 1 .. Len(rows) - 1
        BY <1>2, <1>5
      <3>2. Follows(rows[i], saved[i + 1], heap)
        BY <3>1, <1>6 DEF Followed
      <3> QED BY <3>1, <3>2, <2>1, <1>3, <1>4
    <2>6. Followed'
      BY <2>4, <2>5 DEF Followed
    <2> QED BY <1>7, <2>3, <2>6 DEF ReadInv
  <1> QED BY <1>8, <1>9

-----------------------------------------------------------------------------
(***************************************************************************)
(* Every action keeps ReadInv: lemmas for each, and for several.           *)
(***************************************************************************)
\* Writing an occurrence writes the next moment of the log.
LEMMA WroteWrites ==
  ASSUME NEW row \in WriteRow, row.todo # << >>, NEW x, Writes(row, x),
         NEW r, Wrote(row, r, x.write),
         NEW y, y.write = AfterKey(x.write, Head(row.todo)[1], Head(row.todo)[2])
  PROVE  Writes(r, y)
  <1>1. PICK n : \E f :
          /\ Logged(row.wire.row, n, f)
          /\ f[n].todo = row.todo /\ f[n].dict = x.write
          /\ f[n].keys = row.wire.keys /\ f[n].payload = row.wire.payload
    BY DEF Writes
  <1>2. PICK f :
          /\ Logged(row.wire.row, n, f)
          /\ f[n].todo = row.todo /\ f[n].dict = x.write
          /\ f[n].keys = row.wire.keys /\ f[n].payload = row.wire.payload
    BY <1>1
  <1>3. f[n].todo # << >>
    BY <1>2
  <1>4. PICK g : Logged(row.wire.row, n + 1, g) /\ g[n + 1] = After(f[n])
    BY <1>2, <1>3, LogMore
  <1> DEFINE p == Head(row.todo)[1]
             o == Head(row.todo)[2]
             m == f[n]
  <1>5. row.wire.payload \in [Position -> Seq(Object)]
    BY DEF WriteRow, Wire
  <1>6. /\ After(m).todo = r.todo /\ After(m).dict = y.write
        /\ After(m).keys = r.wire.keys /\ After(m).payload = r.wire.payload
    <2>1. /\ Head(m.todo)[1] = p /\ Head(m.todo)[2] = o /\ Tail(m.todo) = Tail(row.todo)
          /\ m.dict = x.write /\ m.keys = row.wire.keys /\ m.payload = row.wire.payload
      BY <1>2, Zenon
    <2>2. /\ r.wire.keys = [row.wire.keys EXCEPT ![p] = Append(@, KeyFor(x.write, p, o))]
          /\ r.wire.payload = [row.wire.payload EXCEPT ![p] = IF ~ Known(x.write, p, o) THEN Append(@, o) ELSE @]
          /\ r.todo = (IF ~ Known(x.write, p, o) THEN Kids[o] ELSE << >>) \o Tail(row.todo)
          /\ y.write = AfterKey(x.write, p, o)
      BY Zenon DEF Wrote
    <2>3. New(m) <=> ~ Known(x.write, p, o)
      BY <2>1, ZenonT(30) DEF New
    <2> HIDE DEF m, p, o
    <2>4. After(m).todo = r.todo /\ After(m).dict = y.write /\ After(m).keys = r.wire.keys
      BY <2>1, <2>2, <2>3 DEF After
    <2>5. After(m).payload = r.wire.payload
      <3>1. CASE New(m)
        BY <3>1, <2>1, <2>2, <2>3 DEF After
      <3>2. CASE ~ New(m)
        <4>1. After(m).payload = m.payload
          BY <3>2 DEF After
        <4>2. r.wire.payload = [row.wire.payload EXCEPT ![p] = @]
          BY <3>2, <2>2, <2>3
        <4>3. r.wire.payload = row.wire.payload
          BY <4>2, <1>5, Zenon
        <4> QED BY <4>1, <4>3, <2>1
      <3> QED BY <3>1, <3>2
    <2> QED BY <2>4, <2>5
  <1>7. r.wire.row = row.wire.row
    BY Zenon DEF Wrote
  <1> HIDE DEF m, p, o
  <1> QED BY <1>4, <1>6, <1>7 DEF Writes, m

\* A writer whose row and dictionary are unchanged is where it was.
LEMMA WritesSame ==
  ASSUME NEW row, NEW x, Writes(row, x), NEW r, NEW y,
         r.wire = row.wire, r.todo = row.todo, y.write = x.write
  PROVE  Writes(r, y)
  BY DEF Writes

\* The last row written is readable when its writing is done.
LEMMA WritesDone ==
  ASSUME NEW row \in WriteRow, NEW x, Writes(row, x), row.todo = << >>
  PROVE  OnLog(Start(row.wire.row), row.wire)
  <1>1. PICK n : \E f :
          /\ Logged(row.wire.row, n, f)
          /\ f[n].todo = row.todo /\ f[n].dict = x.write
          /\ f[n].keys = row.wire.keys /\ f[n].payload = row.wire.payload
    BY DEF Writes
  <1>2. PICK f :
          /\ Logged(row.wire.row, n, f)
          /\ f[n].todo = row.todo /\ f[n].dict = x.write
          /\ f[n].keys = row.wire.keys /\ f[n].payload = row.wire.payload
    BY <1>1
  <1>3. n \in Nat /\ f[0] = Start(row.wire.row) /\ 0 \in 0 .. n
    BY <1>2 DEF Logged
  <1> QED BY <1>2, <1>3 DEF OnLog

\* A row that is begun is at the first moment.
LEMMA WritesStart ==
  ASSUME NEW row, row.todo \in Seq(Occ), row.wire = [EmptyWire EXCEPT !.row = row.todo],
         NEW x, x.write = EmptyWrite
  PROVE  Writes(row, x)
  <1> DEFINE data == row.todo
  <1>1. PICK f : Logged(data, 0, f) /\ f[0] = Start(data)
    BY LogStart
  <1>2. row.wire.row = data /\ row.wire.keys = EmptyWire.keys /\ row.wire.payload = EmptyWire.payload
    BY DEF EmptyWire
  <1>3. /\ Start(data).todo = data /\ Start(data).dict = EmptyWrite
        /\ Start(data).keys = EmptyWire.keys /\ Start(data).payload = EmptyWire.payload
    BY DEF Start
  <1> HIDE DEF data
  <1>4. /\ Logged(row.wire.row, 0, f) /\ f[0].todo = row.todo /\ f[0].dict = x.write
        /\ f[0].keys = row.wire.keys /\ f[0].payload = row.wire.payload
    <2>1. row.todo = data
      BY DEF data
    <2> QED BY <1>1, <1>2, <1>3, <2>1
  <1> QED BY <1>4 DEF Writes

\* A row being written moves on.
LEMMA WriterMoves ==
  ASSUME IInv, ReadInv, Depth > 0, Top.kind = "write", NEW r \in WriteRow, SetTop(r),
         UNCHANGED <<active, saved, begun, wire, heap>>, Writes(r, tls')
  PROVE  ReadInv'
  <1>1. r \in Row /\ r.kind = "write"
    BY DEF Row, WriteRow
  <1>2. Grows(heap, heap') /\ NewOf(heap, heap', Top)
    BY LocalsParts DEF NewOf
  <1>3. Follows(r, tls', heap')
    BY <1>1 DEF Follows, Genuine
  <1> QED BY <1>1, <1>2, <1>3, TopMoves

\* The writer in progress is at the last moment of its log.
LEMMA TopWrites ==
  ASSUME ReadInv, Depth > 0, Top.kind = "write"
  PROVE  Writes(Top, tls)
  BY DEF ReadInv, Followed, Follows

LEMMA BeginWriteReads ==
  ASSUME IInv, ReadInv, NEW engine \in Engine, NEW data \in RowData, BeginWrite(engine, data)
  PROVE  ReadInv'
  <1> DEFINE row == [kind |-> "write", engine |-> engine, phase |-> "work",
                     todo |-> data, wire |-> [EmptyWire EXCEPT !.row = data]]
  <1>1. data \in Seq(Position \X Object)
    BY SharedAssumption
  <1>2. [EmptyWire EXCEPT !.row = data] \in Wire
    <2>1. /\ EmptyWire.keys \in [Position -> Seq(Nat)]
          /\ EmptyWire.payload \in [Position -> Seq(Object)]
      BY DEF EmptyWire
    <2> QED BY <1>1, <2>1 DEF EmptyWire, Wire
  <1>3. row \in Row /\ row.phase = "work" /\ row.kind = "write"
    BY <1>1, <1>2 DEF Row, WriteRow
  <1>4. BeginRow(row) /\ UNCHANGED <<wire, heap>>
    BY DEF BeginWrite
  <1>5. row.todo \in Seq(Occ) /\ row.wire = [EmptyWire EXCEPT !.row = row.todo]
    BY <1>1 DEF Occ
  <1>6. Fresh.write = EmptyWrite
    BY DEF Fresh
  <1> HIDE DEF row
  <1>7. Follows(row, Fresh, heap)
    BY <1>3, <1>5, <1>6, WritesStart DEF Follows, Genuine
  <1> QED
    BY <1>3, <1>4, <1>7, RowBegins

LEMMA StashAddrReads ==
  ASSUME IInv, ReadInv, StashAddr
  PROVE  ReadInv'
  <1> DEFINE r == [Top EXCEPT !.phase = "token"]
             o == Head(Top.todo)[2]
  <1>1. /\ Depth > 0 /\ Top.kind = "write" /\ Top.phase = "work" /\ Top.todo # << >>
        /\ tls' = [tls EXCEPT !.stash = o] /\ SetTop(r)
        /\ UNCHANGED <<active, saved, begun, wire, heap>>
    BY DEF StashAddr, AtWork, Put
  <1>2. Top \in WriteRow
    BY <1>1, TopType DEF IInv
  <1>3. r \in WriteRow /\ r.todo = Top.todo /\ r.wire = Top.wire
    BY <1>2 DEF WriteRow
  <1> HIDE DEF r
  <1>4. tls'.write = tls.write
    BY <1>1, LocalsParts DEF Locals
  <1>5. Writes(r, tls')
    BY <1>1, <1>3, <1>4, TopWrites, WritesSame
  <1> QED
    BY <1>1, <1>3, <1>5, WriterMoves

\* The two ways an occurrence is written.
LEMMA WroteReads ==
  ASSUME IInv, ReadInv, Depth > 0, Top.kind = "write", Top.todo # << >>,
         WriteOccurrence(Head(Top.todo)[2]),
         tls'.write = AfterKey(tls.write, Head(Top.todo)[1], Head(Top.todo)[2]),
         UNCHANGED <<active, saved, begun, wire, heap>>
  PROVE  ReadInv'
  <1>1. PICK r : Wrote(Top, r, tls.write) /\ SetTop(r)
    BY WroteOccurrence
  <1>2. Top \in WriteRow /\ r \in WriteRow
    BY <1>1, TopType, Zenon DEF IInv, Wrote
  <1>3. Writes(r, tls')
    BY <1>1, <1>2, TopWrites, WroteWrites
  <1> QED
    BY <1>1, <1>2, <1>3, WriterMoves

LEMMA WriteTokenReads ==
  ASSUME IInv, ReadInv, WriteToken
  PROVE  ReadInv'
  <1>1. /\ Depth > 0 /\ Top.phase = "token" /\ WriteOccurrence(tls.stash)
        /\ UNCHANGED <<active, saved, begun, wire, heap>>
        /\ tls' = [tls EXCEPT !.stash = NoObject,
                              !.write = AfterKey(@, Head(Top.todo)[1], tls.stash)]
    BY DEF WriteToken
  <1>2. Top.kind = "write"
    BY <1>1, TopType DEF IInv, Row, ReadRow, WriteRow
  <1>3. Top.todo # << >> /\ tls.stash = Head(Top.todo)[2]
    BY <1>1 DEF IInv, Handoffs, HandedOff
  <1>4. tls'.write = AfterKey(tls.write, Head(Top.todo)[1], Head(Top.todo)[2])
    BY <1>1, <1>3, LocalsParts DEF Locals
  <1>5. WriteOccurrence(Head(Top.todo)[2])
    BY <1>1, <1>3
  <1> QED
    BY <1>1, <1>2, <1>3, <1>4, <1>5, WroteReads

LEMMA WriteColumnsReads ==
  ASSUME IInv, ReadInv, WriteColumns
  PROVE  ReadInv'
  <1>1. /\ Depth > 0 /\ Top.kind = "write" /\ Top.phase = "work" /\ Top.todo # << >>
        /\ WriteOccurrence(Head(Top.todo)[2])
        /\ tls' = [tls EXCEPT !.write = AfterKey(@, Head(Top.todo)[1], Head(Top.todo)[2])]
        /\ UNCHANGED <<active, saved, begun, wire, heap>>
    BY DEF WriteColumns, AtWork
  <1>2. tls'.write = AfterKey(tls.write, Head(Top.todo)[1], Head(Top.todo)[2])
    BY <1>1, LocalsParts DEF Locals
  <1> QED
    BY <1>1, <1>2, WroteReads

LEMMA EndWriteReads ==
  ASSUME IInv, ReadInv, EndWrite
  PROVE  ReadInv'
  <1>1. Depth > 0 /\ Top.kind = "write" /\ Top.todo = << >> /\ EndRow /\ wire' \in {Top.wire, wire}
    BY DEF EndWrite, AtWork
  <1>2. OnLog(Start(wire'.row), wire')
    <2>1. Top \in WriteRow
      BY <1>1, TopType DEF IInv
    <2>2. OnLog(Start(Top.wire.row), Top.wire)
      BY <1>1, <2>1, TopWrites, WritesDone
    <2>3. OnLog(Start(wire.row), wire)
      BY DEF ReadInv, Readable
    <2> QED BY <1>1, <2>2, <2>3
  <1> QED
    BY <1>1, <1>2, TopEnds

LEMMA FailedReads ==
  ASSUME IInv, ReadInv, AbandonRow \/ ReadDamage \/ EndRead
  PROVE  ReadInv'
  <1>1. Depth > 0 /\ EndRow /\ wire' = wire
    BY DEF AbandonRow, ReadDamage, EndRead, Reading, AtWork
  <1>2. OnLog(Start(wire'.row), wire')
    BY <1>1 DEF ReadInv, Readable
  <1> QED
    BY <1>1, <1>2, TopEnds

\* The reader in progress is at a moment of its row's log.
LEMMA TopTracks ==
  ASSUME IInv, ReadInv, Depth > 0, Genuine(Top)
  PROVE  /\ Top \in ReadRow /\ Tracks(Top, tls, heap)
         /\ tls \in Locals /\ Own(tls.read, Top, heap)
         /\ DOMAIN heap \subseteq Nat \ {NoPtr}
  <1>1. Follows(Top, tls, heap) /\ Top.kind = "read"
    BY DEF ReadInv, Followed, Genuine
  <1>2. DOMAIN heap \subseteq Nat \ {NoPtr}
    <2>1. heap \in Seq({heap[i] : i \in DOMAIN heap})
      BY DEF IInv, Typed
    <2> QED BY <2>1 DEF NoPtr
  <1> QED
    BY <1>1, <1>2, TopType, LocalsParts DEF Follows, IInv, Owned

\* A row being read moves on.
LEMMA ReaderMoves ==
  ASSUME IInv, ReadInv, Depth > 0, Top.kind = "read",
         NEW r \in ReadRow, SetTop(r), r.id = Top.id, r.wire = Top.wire,
         UNCHANGED <<active, saved, begun, wire>>,
         Grows(heap, heap'), NewOf(heap, heap', Top),
         Genuine(Top) => Tracks(r, tls', heap')
  PROVE  ReadInv'
  <1>1. r \in Row /\ r.kind = "read"
    BY DEF Row, ReadRow
  <1>2. Genuine(r) => Genuine(Top)
    BY DEF Genuine
  <1>3. Follows(r, tls', heap')
    BY <1>1, <1>2 DEF Follows
  <1> QED BY <1>1, <1>3, TopMoves

\* ... without making a value.
LEMMA ReaderPasses ==
  ASSUME IInv, ReadInv, Depth > 0, Top.kind = "read",
         NEW r \in ReadRow, SetTop(r), r.id = Top.id, r.wire = Top.wire,
         UNCHANGED <<active, saved, begun, wire, heap>>,
         Genuine(Top) => Tracks(r, tls', heap)
  PROVE  ReadInv'
  <1>1. Grows(heap, heap') /\ NewOf(heap, heap', Top)
    BY LocalsParts DEF NewOf
  <1> QED BY <1>1, ReaderMoves

LEMMA BeginReadReads ==
  ASSUME IInv, ReadInv, NEW engine \in Engine, NEW w \in {wire} \union Damaged, BeginRead(engine, w)
  PROVE  ReadInv'
  <1> DEFINE todo == Occurrences(w.row, FALSE)
             row == [kind |-> "read", engine |-> engine, phase |-> "work", id |-> begun + 1,
                     todo |-> todo, vals |-> << >>, wire |-> w,
                     keysRead |-> [p \in Position |-> 0],
                     payloadsRead |-> [p \in Position |-> 0]]
  <1>1. w \in Wire /\ begun + 1 \in Nat /\ begun \in Nat
    BY SharedAssumption DEF IInv, Typed
  <1>2. todo \in Seq(Step)
    BY <1>1, OccurrencesType DEF Wire
  <1>3. BeginRow(row) /\ UNCHANGED <<wire, heap>>
    BY DEF BeginRead
  <1>4. row \in Row /\ row \in ReadRow /\ row.phase = "work"
    <2> HIDE DEF todo
    <2> QED BY <1>1, <1>2 DEF Row, ReadRow
  <1>5. /\ row.id = begun + 1 /\ row.kind = "read" /\ row.wire = w /\ row.vals = << >>
        /\ row.todo = Occurrences(w.row, FALSE)
        /\ row.keysRead = [p \in Position |-> 0] /\ row.payloadsRead = [p \in Position |-> 0]
    OBVIOUS
  <1> HIDE DEF row
  <1>6. \A a \in DOMAIN heap : heap[a].row # row.id
    <2> SUFFICES ASSUME NEW a \in DOMAIN heap PROVE heap[a].row # row.id
      OBVIOUS
    <2>1. heap[a].row \in 0 .. begun
      BY DEF ReadInv, Ids
    <2> QED BY <2>1, <1>1, <1>5
  <1>7. ASSUME Genuine(row) PROVE Tracks(row, Fresh, heap)
    <2>1. w = wire
      BY <1>5, <1>7 DEF Genuine
    <2>2. OnLog(Start(w.row), w)
      BY <2>1 DEF ReadInv, Readable
    <2> QED
      BY <1>1, <1>4, <1>5, <1>6, <2>2, BeginTracks
  <1>8. Follows(row, Fresh, heap)
    BY <1>5, <1>7 DEF Follows
  <1> QED
    BY <1>3, <1>4, <1>5, <1>8, RowBegins

LEMMA PassedReads ==
  ASSUME IInv, ReadInv, Depth > 0, Top.kind = "read", Top.phase # "register", Top.todo # << >>,
         Head(Top.todo).op = "occ",
         Genuine(Top) => IsRepeat(tls.read, Pos(Top), KeyAt(Top, Pos(Top))),
         NEW ptr \in Nat, Yield(ptr),
         Genuine(Top) => ptr \in {NoPtr, Entry(tls.read, Pos(Top), KeyAt(Top, Pos(Top)))},
         tls'.read = tls.read,
         UNCHANGED <<active, saved, begun, wire, heap>>
  PROVE  ReadInv'
  <1>1. PICK r : Passed(Top, r, ptr) /\ SetTop(r)
    BY Yielded
  <1>2. r \in ReadRow /\ r.id = Top.id /\ r.wire = Top.wire
    BY <1>1 DEF Passed
  <1>3. ASSUME Genuine(Top) PROVE Tracks(r, tls', heap)
    <2> DEFINE row == Top
               x == tls
               y == tls'
    <2>1. /\ row \in ReadRow /\ Tracks(row, x, heap) /\ x \in Locals /\ Own(x.read, row, heap)
      BY <1>3, TopTracks
    <2>2. PICK m : \E got \in Seq(Occ) : \E open \in SUBSET Entries :
            TracksBy(row, x, heap, m, got, open)
      BY <2>1 DEF Tracks
    <2>3. PICK got \in Seq(Occ) : \E open \in SUBSET Entries : TracksBy(row, x, heap, m, got, open)
      BY <2>2
    <2>4. PICK open \in SUBSET Entries : TracksBy(row, x, heap, m, got, open)
      BY <2>3
    <2>5. /\ row.todo # << >> /\ Head(row.todo).op = "occ" /\ row.phase # "register"
          /\ IsRepeat(x.read, Pos(row), KeyAt(row, Pos(row)))
          /\ ptr \in {NoPtr, Entry(x.read, Pos(row), KeyAt(row, Pos(row)))}
          /\ Passed(row, r, ptr) /\ y.read = x.read
      BY <1>1, <1>3
    <2> HIDE DEF row, x, y
    <2>6. Tracks(r, y, heap)
      BY <2>1, <2>4, <2>5, PassedKeeps
    <2> QED BY <2>6 DEF y
  <1> QED
    BY <1>1, <1>2, <1>3, ReaderPasses

LEMMA RepeatReads ==
  ASSUME IInv, ReadInv, NEW as \in ReadAs, ReadRepeat(as) \/ SwallowRepeat(as)
  PROVE  ReadInv'
  <1> DEFINE ptr == Entry(tls.read, At, Key)
  <1>1. /\ Depth > 0 /\ Top.kind = "read" /\ Top.phase = "work" /\ Top.todo # << >>
        /\ Head(Top.todo).op = "occ"
        /\ HasKey /\ IsRepeat(tls.read, At, Key)
        /\ Yield(NoPtr) \/ Yield(ptr)
        /\ UNCHANGED <<active, tls, saved, begun, wire, heap>>
    BY DEF ReadRepeat, SwallowRepeat, Reading, AtWork
  <1>2. ptr \in Nat /\ NoPtr \in Nat
    BY <1>1, ReadingType, LocalsParts, EntryType DEF NoPtr
  <1>3. /\ IsRepeat(tls.read, Pos(Top), KeyAt(Top, Pos(Top)))
        /\ ptr = Entry(tls.read, Pos(Top), KeyAt(Top, Pos(Top)))
        /\ tls'.read = tls.read
    BY <1>1, AtPos
  <1> HIDE DEF ptr
  <1>4. CASE Yield(NoPtr)
    BY <1>1, <1>2, <1>3, <1>4, PassedReads
  <1>5. CASE Yield(ptr)
    BY <1>1, <1>2, <1>3, <1>5, PassedReads
  <1> QED
    BY <1>1, <1>4, <1>5

LEMMA VisitorReads ==
  ASSUME IInv, ReadInv, TakeDelivered \/ SwallowDelivered
  PROVE  ReadInv'
  <1>1. /\ Depth > 0 /\ Top.phase \in {"rc", "arc"}
        /\ tls' = [tls EXCEPT !.delivered = NoPtr]
        /\ Yield(tls.delivered) \/ Yield(NoPtr)
        /\ UNCHANGED <<active, saved, begun, wire, heap>>
    BY DEF TakeDelivered, SwallowDelivered, Put, Shares
  <1>2. Top.kind = "read" /\ Top.todo # << >> /\ Top.phase # "register" /\ Top.phase # "work"
    BY <1>1, TopType DEF IInv, Handoffs, HandedOff, Row, WriteRow, ReadRow
  <1>3. NoPtr \in Nat /\ tls.delivered \in Nat
    BY LocalsParts DEF NoPtr, Locals
  <1>4. tls'.read = tls.read
    BY <1>1, LocalsParts DEF Locals
  <1>5. Genuine(Top) =>
          /\ Head(Top.todo).op = "occ"
          /\ IsRepeat(tls.read, Pos(Top), KeyAt(Top, Pos(Top)))
          /\ tls.delivered = Entry(tls.read, Pos(Top), KeyAt(Top, Pos(Top)))
    <2> SUFFICES ASSUME Genuine(Top)
                 PROVE  /\ Head(Top.todo).op = "occ"
                        /\ IsRepeat(tls.read, Pos(Top), KeyAt(Top, Pos(Top)))
                        /\ tls.delivered = Entry(tls.read, Pos(Top), KeyAt(Top, Pos(Top)))
      OBVIOUS
    <2>1. Tracks(Top, tls, heap)
      BY <1>1, TopTracks
    <2>2. Delivering(Top, tls)
      BY <2>1 DEF Tracks, TracksBy
    <2> QED BY <1>1, <2>2 DEF Delivering, Shares
  <1>6. PICK ptr \in Nat : ptr \in {NoPtr, tls.delivered} /\ Yield(ptr)
    BY <1>1, <1>3
  <1>7. CASE Genuine(Top)
    <2>1. /\ Head(Top.todo).op = "occ"
          /\ IsRepeat(tls.read, Pos(Top), KeyAt(Top, Pos(Top)))
          /\ ptr \in {NoPtr, Entry(tls.read, Pos(Top), KeyAt(Top, Pos(Top)))}
      BY <1>5, <1>6, <1>7
    <2> QED BY <1>1, <1>2, <1>4, <1>6, <2>1, PassedReads
  <1>8. CASE ~ Genuine(Top)
    <2>1. PICK r : Passed(Top, r, ptr) /\ SetTop(r)
      BY <1>1, <1>2, <1>6, Yielded
    <2>2. r \in ReadRow /\ r.id = Top.id /\ r.wire = Top.wire
      BY <2>1 DEF Passed
    <2> QED BY <1>1, <1>2, <1>8, <2>1, <2>2, ReaderPasses
  <1> QED
    BY <1>7, <1>8

LEMMA DeliverReads ==
  ASSUME IInv, ReadInv, NEW as \in ReadAs, Deliver(as)
  PROVE  ReadInv'
  <1> DEFINE r == [Top EXCEPT !.phase = as]
             ptr == Entry(tls.read, At, Key)
  <1>1. /\ Depth > 0 /\ Top.kind = "read" /\ Top.phase = "work" /\ Top.todo # << >>
        /\ Head(Top.todo).op = "occ"
        /\ HasKey /\ IsRepeat(tls.read, At, Key) /\ as \in {"rc", "arc"}
        /\ tls' = [tls EXCEPT !.delivered = ptr] /\ SetTop(r)
        /\ UNCHANGED <<active, saved, begun, wire, heap>>
    BY DEF Deliver, Reading, AtWork, Put, Shares
  <1>2. Top \in ReadRow
    BY <1>1, ReadingType
  <1>3. r \in ReadRow /\ r.id = Top.id /\ r.wire = Top.wire
    BY <1>1, <1>2 DEF ReadRow
  <1>4. ASSUME Genuine(Top) PROVE Tracks(r, tls', heap)
    <2>1. Tracks(Top, tls, heap)
      BY <1>1, <1>4, TopTracks
    <2>2. /\ IsRepeat(tls.read, Pos(Top), KeyAt(Top, Pos(Top)))
          /\ tls'.read = tls.read
          /\ tls'.delivered = Entry(tls.read, Pos(Top), KeyAt(Top, Pos(Top)))
      BY <1>1, LocalsParts, AtPos DEF Locals
    <2> QED BY <1>1, <1>2, <2>1, <2>2, DeliverTracks
  <1> HIDE DEF r
  <1> QED
    BY <1>1, <1>3, <1>4, ReaderPasses

LEMMA ReadNewReads ==
  ASSUME IInv, ReadInv, NEW as \in ReadAs, ReadNew(as)
  PROVE  ReadInv'
  <1>1. /\ Depth > 0 /\ Top.kind = "read" /\ Top.phase = "work" /\ Top.todo # << >>
        /\ Head(Top.todo).op = "occ"
        /\ HasKey /\ HasPayload /\ Descend(as) /\ IsNew(tls.read, At, Key)
        /\ tls' = [tls EXCEPT !.read = Reserve(@, At)]
        /\ UNCHANGED <<active, saved, begun, wire, heap>>
    BY DEF ReadNew, Reading, AtWork
  <1>2. as \in {"rc", "arc", "plain", "skip"} /\ (as = "skip") \in BOOLEAN
    BY SharedAssumption
  <1>3. PICK r : \E end : WentDown(Top, r, end, as = "skip") /\ SetTop(r)
    BY <1>1, <1>2, Descended
  <1>4. PICK end : WentDown(Top, r, end, as = "skip") /\ SetTop(r)
    BY <1>3
  <1>5. r \in ReadRow /\ r.id = Top.id /\ r.wire = Top.wire
    BY <1>4 DEF WentDown
  <1>6. IsNew(tls.read, Pos(Top), KeyAt(Top, Pos(Top))) /\ tls'.read = Reserve(tls.read, Pos(Top))
    BY <1>1, LocalsParts, AtPos DEF Locals
  <1>7. ASSUME Genuine(Top) PROVE Tracks(r, tls', heap)
    <2> DEFINE row == Top
               x == tls
               y == tls'
               b == (as = "skip")
    <2>1. row \in ReadRow /\ Tracks(row, x, heap) /\ x \in Locals
      BY <1>1, <1>7, TopTracks
    <2>2. PICK m : \E got \in Seq(Occ) : \E open \in SUBSET Entries :
            TracksBy(row, x, heap, m, got, open)
      BY <2>1 DEF Tracks
    <2>3. PICK got \in Seq(Occ) : \E open \in SUBSET Entries : TracksBy(row, x, heap, m, got, open)
      BY <2>2
    <2>4. PICK open \in SUBSET Entries : TracksBy(row, x, heap, m, got, open)
      BY <2>3
    <2>5. /\ row.todo # << >> /\ Head(row.todo).op = "occ" /\ row.phase = "work"
          /\ IsNew(x.read, Pos(row), KeyAt(row, Pos(row)))
          /\ WentDown(row, r, end, b) /\ b \in BOOLEAN /\ y.read = Reserve(x.read, Pos(row))
      BY <1>1, <1>2, <1>4, <1>6
    <2> HIDE DEF row, x, y, b
    <2>6. Tracks(r, y, heap)
      BY <2>1, <2>4, <2>5, DownKeeps
    <2> QED BY <2>6 DEF y
  <1> QED
    BY <1>1, <1>4, <1>5, <1>7, ReaderPasses

\* The value made is of the row, of the marker's object, with the values of its kids.
LEMMA MaterializeMade ==
  ASSUME IInv, EndOfPayload, Materialize
  PROVE  /\ Made(heap, heap', NewPtr, Top, Head(Top.todo), KidValues(Top))
         /\ Grows(heap, heap') /\ NewOf(heap, heap', Top) /\ NewPtr \in Nat
  <1> DEFINE node == [row |-> Top.id, pos |-> Marker.pos, obj |-> Marker.obj,
                      as |-> Marker.as, kids |-> KidVals]
  <1>1. /\ heap' = Append(heap, node) /\ node.row = Top.id /\ node.pos = Head(Top.todo).pos
        /\ node.obj = Head(Top.todo).obj
        /\ node.as = Head(Top.todo).as /\ node.kids = KidValues(Top)
        /\ Top.kind = "read"
    BY AtMarkerTop DEF Materialize
  <1>2. heap \in Seq({heap[i] : i \in DOMAIN heap})
    BY DEF IInv, Typed
  <1> HIDE DEF node
  <1>3. /\ Grows(heap, heap') /\ NewPtr \in DOMAIN heap' /\ heap'[NewPtr] = node
        /\ NewPtr \in Nat \ {NoPtr}
    BY <1>1, <1>2, AppendGrows DEF NewPtr
  <1>4. NewPtr \notin DOMAIN heap /\ \A a \in DOMAIN heap' : a # NewPtr => a \in DOMAIN heap
    <2> DEFINE S == {heap[i] : i \in DOMAIN heap} \union {node}
    <2>1. heap \in Seq(S) /\ node \in S
      BY <1>2, SeqMonotonic
    <2> HIDE DEF S
    <2> QED BY <2>1, <1>1 DEF NewPtr
  <1>5. NewOf(heap, heap', Top)
    BY <1>1, <1>3, <1>4 DEF NewOf
  <1>6. Made(heap, heap', NewPtr, Top, Head(Top.todo), KidValues(Top))
    BY <1>1, <1>3, <1>4 DEF Made
  <1> QED
    BY <1>3, <1>5, <1>6

LEMMA FinishUnsharedReads ==
  ASSUME IInv, ReadInv, FinishUnshared
  PROVE  ReadInv'
  <1>1. /\ EndOfPayload /\ ~ Shares(Marker.as)
        /\ \/ FinishValue(NoPtr, "work") /\ UNCHANGED heap
           \/ FinishValue(NewPtr, "work") /\ Materialize
        /\ UNCHANGED <<active, tls, saved, begun, wire>>
    BY DEF FinishUnshared
  <1>2. AtMarker(Top) /\ Depth > 0 /\ Top.kind = "read" /\ Marker = Head(Top.todo)
    BY <1>1, AtMarkerTop
  <1>3. \E ptr \in Nat :
          /\ FinishValue(ptr, "work")
          /\ Grows(heap, heap') /\ NewOf(heap, heap', Top)
          /\ \/ ptr = NoPtr /\ heap' = heap
             \/ Made(heap, heap', ptr, Top, Head(Top.todo), KidValues(Top))
    <2>1. CASE FinishValue(NoPtr, "work") /\ UNCHANGED heap
      <3>1. NoPtr \in Nat /\ Grows(heap, heap') /\ NewOf(heap, heap', Top)
        BY <2>1, LocalsParts DEF NoPtr, NewOf
      <3> QED BY <2>1, <3>1
    <2>2. CASE FinishValue(NewPtr, "work") /\ Materialize
      BY <1>1, <2>2, MaterializeMade
    <2> QED BY <1>1, <2>1, <2>2
  <1>4. PICK ptr \in Nat :
          /\ FinishValue(ptr, "work")
          /\ Grows(heap, heap') /\ NewOf(heap, heap', Top)
          /\ \/ ptr = NoPtr /\ heap' = heap
             \/ Made(heap, heap', ptr, Top, Head(Top.todo), KidValues(Top))
    BY <1>3
  <1>5. PICK r : Ended(Top, r, ptr, "work") /\ SetTop(r)
    BY <1>1, <1>4, Finished
  <1>6. r \in ReadRow /\ r.id = Top.id /\ r.wire = Top.wire
    BY <1>5 DEF Ended
  <1>7. ASSUME Genuine(Top) PROVE Tracks(r, tls', heap')
    <2> DEFINE row == Top
               x == tls
               y == tls'
               h == heap
               g == heap'
    <2>1. /\ x \in Locals /\ Own(x.read, row, h) /\ Tracks(row, x, h)
          /\ AtMarker(row) /\ Ended(row, r, ptr, "work") /\ y.read = x.read
      BY <1>1, <1>2, <1>5, <1>7, TopTracks
    <2>2. \/ ptr = NoPtr /\ g = h /\ Grows(h, g)
          \/ Made(h, g, ptr, row, Head(row.todo), KidValues(row)) /\ ~ Shares(Head(row.todo).as)
      BY <1>1, <1>2, <1>4
    <2> HIDE DEF row, x, y, h, g
    <2>3. Tracks(r, y, g)
      BY <2>1, <2>2, EndUnsharedKeeps
    <2> QED BY <2>3 DEF y, g
  <1> QED
    BY <1>1, <1>2, <1>4, <1>5, <1>6, <1>7, ReaderMoves

LEMMA FinishColumnsReads ==
  ASSUME IInv, ReadInv, FinishColumns
  PROVE  ReadInv'
  <1>1. /\ EndOfPayload /\ Materialize /\ FinishValue(NewPtr, "work")
        /\ tls' = [tls EXCEPT !.read = Fulfill(@, Marker.pos, Marker.key, NewPtr)]
        /\ UNCHANGED <<active, saved, begun, wire>>
    BY DEF FinishColumns
  <1>2. AtMarker(Top) /\ Depth > 0 /\ Top.kind = "read" /\ Marker = Head(Top.todo)
    BY <1>1, AtMarkerTop
  <1>3. /\ Made(heap, heap', NewPtr, Top, Head(Top.todo), KidValues(Top))
        /\ Grows(heap, heap') /\ NewOf(heap, heap', Top) /\ NewPtr \in Nat
    BY <1>1, MaterializeMade
  <1>4. PICK r : Ended(Top, r, NewPtr, "work") /\ SetTop(r)
    BY <1>1, <1>3, Finished
  <1>5. r \in ReadRow /\ r.id = Top.id /\ r.wire = Top.wire
    BY <1>4 DEF Ended
  <1>6. tls'.read = Fulfill(tls.read, Head(Top.todo).pos, Head(Top.todo).key, NewPtr)
    BY <1>1, <1>2, LocalsParts DEF Locals
  <1>7. ASSUME Genuine(Top) PROVE Tracks(r, tls', heap')
    <2> DEFINE row == Top
               x == tls
               y == tls'
               h == heap
               g == heap'
               ptr == NewPtr
    <2>1. /\ x \in Locals /\ Own(x.read, row, h) /\ Tracks(row, x, h) /\ DOMAIN h \subseteq Nat \ {NoPtr}
          /\ AtMarker(row) /\ Ended(row, r, ptr, "work") /\ ptr \in Nat
          /\ Made(h, g, ptr, row, Head(row.todo), KidValues(row))
          /\ y.read = Fulfill(x.read, Head(row.todo).pos, Head(row.todo).key, ptr)
      BY <1>2, <1>3, <1>4, <1>6, <1>7, TopTracks
    <2> HIDE DEF row, x, y, h, g, ptr
    <2>2. Tracks(r, y, g)
      BY <2>1, EndColumnsKeeps
    <2> QED BY <2>2 DEF y, g
  <1> QED
    BY <1>1, <1>2, <1>3, <1>4, <1>5, <1>7, ReaderMoves

LEMMA PublishReads ==
  ASSUME IInv, ReadInv, Publish
  PROVE  ReadInv'
  <1>1. /\ EndOfPayload /\ Materialize /\ FinishValue(NewPtr, "register")
        /\ tls' = [tls EXCEPT !.published = NewPtr]
        /\ UNCHANGED <<active, saved, begun, wire>>
    BY DEF Publish, Put
  <1>2. AtMarker(Top) /\ Depth > 0 /\ Top.kind = "read" /\ Marker = Head(Top.todo)
    BY <1>1, AtMarkerTop
  <1>3. /\ Made(heap, heap', NewPtr, Top, Head(Top.todo), KidValues(Top))
        /\ Grows(heap, heap') /\ NewOf(heap, heap', Top) /\ NewPtr \in Nat
    BY <1>1, MaterializeMade
  <1>4. PICK r : Ended(Top, r, NewPtr, "register") /\ SetTop(r)
    BY <1>1, <1>3, Finished
  <1>5. r \in ReadRow /\ r.id = Top.id /\ r.wire = Top.wire
    BY <1>4 DEF Ended
  <1>6. tls'.read = tls.read /\ tls'.published = NewPtr
    BY <1>1, LocalsParts DEF Locals
  <1>7. ASSUME Genuine(Top) PROVE Tracks(r, tls', heap')
    <2> DEFINE row == Top
               x == tls
               y == tls'
               h == heap
               g == heap'
               ptr == NewPtr
    <2>1. /\ x \in Locals /\ Own(x.read, row, h) /\ Tracks(row, x, h)
          /\ AtMarker(row) /\ Ended(row, r, ptr, "register") /\ ptr \in Nat
          /\ Made(h, g, ptr, row, Head(row.todo), KidValues(row))
          /\ y.read = x.read /\ y.published = ptr
      BY <1>2, <1>3, <1>4, <1>6, <1>7, TopTracks
    <2> HIDE DEF row, x, y, h, g, ptr
    <2>2. Tracks(r, y, g)
      BY <2>1, EndPublishKeeps
    <2> QED BY <2>2 DEF y, g
  <1> QED
    BY <1>1, <1>2, <1>3, <1>4, <1>5, <1>7, ReaderMoves

LEMMA RegisterReads ==
  ASSUME IInv, ReadInv, Register
  PROVE  ReadInv'
  <1> DEFINE r == [Top EXCEPT !.phase = "work", !.todo = Tail(@)]
  <1>1. /\ Depth > 0 /\ Top.phase = "register"
        /\ tls' = [tls EXCEPT !.published = NoPtr,
                              !.read = Fulfill(@, Marker.pos, Marker.key, tls.published)]
        /\ SetTop(r) /\ UNCHANGED <<active, saved, begun, wire, heap>>
    BY DEF Register
  <1>2. Top.kind = "read"
    BY <1>1, TopType DEF IInv, Row, WriteRow, ReadRow
  <1>3. /\ Top.todo # << >> /\ OwnPtr(tls.published, Head(Top.todo).pos, Top, heap)
        /\ Marker.op = "end" /\ Marker = Head(Top.todo)
    BY <1>1 DEF IInv, Handoffs, HandedOff, Shares, Marker
  <1>4. Top \in ReadRow /\ Head(Top.todo).key \in Nat /\ Tail(Top.todo) \in Seq(Step)
    BY <1>1, <1>2, <1>3, MarkerType, ReadingType
  <1>5. Registered(Top, r) /\ r \in ReadRow /\ r.id = Top.id /\ r.wire = Top.wire
    BY <1>4 DEF ReadRow, Registered
  <1> HIDE DEF r
  <1>6. tls'.read = Fulfill(tls.read, Head(Top.todo).pos, Head(Top.todo).key, tls.published)
    BY <1>1, <1>3, LocalsParts DEF Locals
  <1>7. ASSUME Genuine(Top) PROVE Tracks(r, tls', heap)
    <2> DEFINE row == Top
               x == tls
               y == tls'
               h == heap
    <2>1. /\ x \in Locals /\ Own(x.read, row, h) /\ Tracks(row, x, h) /\ DOMAIN h \subseteq Nat \ {NoPtr}
          /\ row \in ReadRow /\ row.phase = "register" /\ Head(row.todo).key \in Nat
          /\ OwnPtr(x.published, Head(row.todo).pos, row, h) /\ Registered(row, r)
          /\ y.read = Fulfill(x.read, Head(row.todo).pos, Head(row.todo).key, x.published)
      BY <1>1, <1>3, <1>4, <1>5, <1>6, <1>7, TopTracks
    <2> HIDE DEF row, x, y, h
    <2>2. Tracks(r, y, h)
      BY <2>1, RegisterTracks
    <2> QED BY <2>2 DEF y, h
  <1> QED
    BY <1>1, <1>2, <1>5, <1>7, ReaderPasses

\* User code hands a value to another format: the row is where it was.
LEMMA ForeignReads ==
  ASSUME IInv, ReadInv, Depth > 0, Top.phase = "work",
         tls'.write = tls.write, tls'.read = tls.read,
         UNCHANGED <<active, saved, rows, begun, wire, heap>>
  PROVE  ReadInv'
  <1>1. Top \in Row
    BY TopType DEF IInv
  <1>2. SetTop(Top)
    <2>1. rows \in Seq(Row) /\ rows' = rows
      BY DEF IInv, Typed
    <2>2. [rows EXCEPT ![Depth] = Top] = rows
      BY <2>1 DEF Depth, Top
    <2> QED BY <2>1, <2>2 DEF SetTop
  <1>3. Follows(Top, tls, heap)
    BY DEF ReadInv, Followed
  <1>4. Top.kind = "write" => Writes(Top, tls')
    BY <1>3, WritesSame DEF Follows
  <1>5. Genuine(Top) => Tracks(Top, tls', heap)
    BY <1>3, WorkTracks DEF Follows
  <1>6. Follows(Top, tls', heap')
    BY <1>4, <1>5 DEF Follows
  <1>7. Grows(heap, heap') /\ NewOf(heap, heap', Top)
    BY LocalsParts DEF NewOf
  <1> QED
    BY <1>1, <1>2, <1>6, <1>7, TopMoves

\* ... by the token, or by the pointer it publishes.
LEMMA SlotReads ==
  ASSUME IInv, ReadInv, PublishForeign \/ \E o \in Foreign : StashForeign(o)
  PROVE  ReadInv'
  <1>1. /\ Depth > 0 /\ Top.phase = "work"
        /\ UNCHANGED <<active, saved, rows, begun, wire, heap>>
        /\ \/ tls' = [tls EXCEPT !.published = ForeignPtr]
           \/ \E o \in Foreign : tls' = [tls EXCEPT !.stash = o]
    BY DEF PublishForeign, StashForeign, Put
  <1>2. tls'.write = tls.write /\ tls'.read = tls.read
    BY <1>1, LocalsParts DEF Locals
  <1> QED
    BY <1>1, <1>2, ForeignReads

\* It holds at the start, where the row written is the empty one.
LEMMA InitReadInv == Init => ReadInv
  <1> SUFFICES ASSUME Init PROVE ReadInv
    OBVIOUS
  <1>1. Depth = 0 /\ heap = <<ForeignNode>> /\ wire = EmptyWire /\ begun = 0
    BY DEF Init, Depth
  <1>2. Ids
    <2>1. DOMAIN heap = {1} /\ heap[1].row = 0
      BY <1>1 DEF ForeignNode
    <2> QED BY <1>1, <2>1 DEF Ids
  <1>3. Followed
    BY <1>1 DEF Followed
  <1>4. Readable
    <2> DEFINE data == wire.row
    <2>1. data = << >> /\ data \in Seq(Occ)
      BY <1>1 DEF EmptyWire
    <2>2. /\ Start(data).todo = data /\ Start(data).keys = wire.keys
          /\ Start(data).payload = wire.payload
      BY <1>1 DEF Start
    <2> HIDE DEF data
    <2>3. PICK f : Logged(data, 0, f) /\ f[0] = Start(data)
      BY <2>1, LogStart
    <2>4. 0 \in Nat /\ 0 \in 0 .. 0
      OBVIOUS
    <2>5. OnLog(Start(data), wire)
      BY <2>1, <2>2, <2>3, <2>4 DEF OnLog, data
    <2> QED BY <2>5 DEF Readable, data
  <1> QED BY <1>2, <1>3, <1>4 DEF ReadInv

LEMMA StepReads == IInv /\ ReadInv /\ [Next]_vars => ReadInv'
  <1> SUFFICES ASSUME IInv, ReadInv, [Next]_vars PROVE ReadInv'
    OBVIOUS
  <1>1. ASSUME NEW engine \in {"serde", "columns"}, NEW data \in RowData, BeginWrite(engine, data)
        PROVE  ReadInv'
    BY <1>1, BeginWriteReads DEF Engine
  <1>2. ASSUME NEW engine \in {"serde", "columns"}, NEW w \in {wire} \union Damaged,
               BeginRead(engine, w)
        PROVE  ReadInv'
    BY <1>2, BeginReadReads DEF Engine
  <1>3. ASSUME NEW as \in ReadAs, ReadNew(as) \/ ReadRepeat(as) \/ Deliver(as) \/ SwallowRepeat(as)
        PROVE  ReadInv'
    BY <1>3, ReadNewReads, RepeatReads, DeliverReads
  <1>4. CASE StashAddr \/ WriteToken \/ WriteColumns \/ EndWrite
    BY <1>4, StashAddrReads, WriteTokenReads, WriteColumnsReads, EndWriteReads
  <1>5. CASE TakeDelivered \/ SwallowDelivered
    BY <1>5, VisitorReads
  <1>6. CASE FinishUnshared \/ FinishColumns \/ Publish \/ Register
    BY <1>6, FinishUnsharedReads, FinishColumnsReads, PublishReads, RegisterReads
  <1>7. CASE EndRead \/ ReadDamage \/ AbandonRow
    BY <1>7, FailedReads
  <1>8. CASE PublishForeign \/ \E o \in Foreign : StashForeign(o)
    BY <1>8, SlotReads
  <1>9. CASE UNCHANGED vars
    BY <1>9 DEF vars, ReadInv, Ids, Followed, Readable, Depth, Top
  <1> QED
    BY <1>1, <1>2, <1>3, <1>4, <1>5, <1>6, <1>7, <1>8, <1>9 DEF Next

-----------------------------------------------------------------------------
(***************************************************************************)
(* Theorems about written rows.                                            *)
(***************************************************************************)
\* Both invariants hold throughout.
THEOREM InductiveReads == Spec => [](IInv /\ ReadInv)
  <1> QED
    BY InitIInv, InitReadInv, StepKeeps, StepReads, PTL DEF Spec

\* A row with nothing left to read is at the end of its writing.
LEMMA TracksDone ==
  ASSUME NEW row, row.phase = "work", row.todo = << >>, NEW x, NEW h, Tracks(row, x, h)
  PROVE  /\ Same(h, row.vals, row.wire.row, row.id)
         /\ \A p \in Position :
              /\ row.keysRead[p] = Len(row.wire.keys[p])
              /\ row.payloadsRead[p] = Len(row.wire.payload[p])
  <1>1. PICK m : \E got \in Seq(Occ) : \E open \in SUBSET Entries : TracksBy(row, x, h, m, got, open)
    BY DEF Tracks
  <1>2. PICK got \in Seq(Occ) : \E open \in SUBSET Entries : TracksBy(row, x, h, m, got, open)
    BY <1>1
  <1>3. PICK open \in SUBSET Entries : TracksBy(row, x, h, m, got, open)
    BY <1>2
  <1> DEFINE a == [left |-> m.todo, got |-> got, open |-> open]
             goal == Goal(row)
  <1>4. Plan(<< >>, a, goal)
    BY <1>3 DEF TracksBy, Rest
  <1>5. a = goal
    <2> HIDE DEF a, goal
    <2> QED BY <1>4, PlanDone
  <1>6. m.todo = << >> /\ got = row.wire.row
    BY <1>5 DEF Goal
  <1>7. OnLog(m, row.wire) /\ InStep(row, x.read, m) /\ Same(h, row.vals, got, row.id)
    BY <1>3 DEF TracksBy
  <1>8. m.keys = row.wire.keys /\ m.payload = row.wire.payload
    BY <1>6, <1>7, OnLogNext
  <1> QED
    BY <1>6, <1>7, <1>8 DEF InStep

\* The next occurrence can be read.
LEMMA TracksOn ==
  ASSUME NEW row \in ReadRow, row.todo # << >>, Head(row.todo).op = "occ", row.phase # "register",
         NEW x \in Locals, NEW h, Tracks(row, x, h)
  PROVE  /\ HasKeyAt(row, Pos(row))
         /\ ~ IsInvalid(x.read, Pos(row), KeyAt(row, Pos(row)))
         /\ IsNew(x.read, Pos(row), KeyAt(row, Pos(row))) => HasPayloadAt(row, Pos(row))
  <1>1. PICK m : \E got \in Seq(Occ) : \E open \in SUBSET Entries : TracksBy(row, x, h, m, got, open)
    BY DEF Tracks
  <1>2. PICK got \in Seq(Occ) : \E open \in SUBSET Entries : TracksBy(row, x, h, m, got, open)
    BY <1>1
  <1>3. PICK open \in SUBSET Entries : TracksBy(row, x, h, m, got, open)
    BY <1>2
  <1> DEFINE p == Pos(row)
             key == KeyAt(row, p)
  <1>4. /\ HasKeyAt(row, p) /\ key \in Nat
        /\ New(m) => HasPayloadAt(row, p) /\ IsNew(x.read, p, key)
        /\ ~ New(m) => IsRepeat(x.read, p, key)
    BY <1>3, NextCells
  <1>5. p \in Position
    BY <1>3, NextOccurrence
  <1>6. Len(x.read[p]) \in Nat
    BY <1>5 DEF Locals
  <1> HIDE DEF p, key
  <1>7. /\ HasKeyAt(row, p) /\ ~ IsInvalid(x.read, p, key)
        /\ IsNew(x.read, p, key) => HasPayloadAt(row, p)
    BY <1>4, <1>6 DEF IsInvalid, IsNew, IsRepeat
  <1> QED
    BY <1>7 DEF p, key

\* Whichever way each occurrence is read, skipped ones included, and whatever
\* other rows user code writes, reads or abandons in between, the reader of a
\* written row finds, at each occurrence, the key write_key wrote for it, never out
\* of the range read_slot and read_skip accept, and the payload of a new one; at
\* the end it has read every cell, so that the next row starts where this one
\* ended.  (A repeat is still refused where its first occurrence was skipped.)
THEOREM ReadsThrough == Spec => []WrittenRowsReadThrough
  <1>1. IInv /\ ReadInv => WrittenRowsReadThrough
    <2> SUFFICES ASSUME IInv, ReadInv, Depth > 0, Genuine(Top), Top.phase = "work"
                 PROVE  IF Top.todo = << >>
                        THEN \A p \in Position :
                               /\ Top.keysRead[p] = Len(Top.wire.keys[p])
                               /\ Top.payloadsRead[p] = Len(Top.wire.payload[p])
                        ELSE Head(Top.todo).op = "occ" =>
                               /\ HasKey
                               /\ ~IsInvalid(tls.read, At, Key)
                               /\ IsNew(tls.read, At, Key) => HasPayload
      BY DEF WrittenRowsReadThrough
    <2>1. Top \in ReadRow /\ Tracks(Top, tls, heap) /\ tls \in Locals
      BY TopTracks
    <2>2. CASE Top.todo = << >>
      BY <2>1, <2>2, TracksDone
    <2>3. CASE Top.todo # << >>
      <3> SUFFICES ASSUME Head(Top.todo).op = "occ"
                   PROVE  /\ HasKey
                          /\ ~IsInvalid(tls.read, At, Key)
                          /\ IsNew(tls.read, At, Key) => HasPayload
        BY <2>3
      <3> QED BY <2>1, <2>3, TracksOn, AtPos
    <2> QED BY <2>2, <2>3
  <1> QED
    BY <1>1, InductiveReads, PTL

\* Two shared values of one object are one: an object has one slot, and a value
\* published is for a slot that holds nothing.
LEMMA OneValue ==
  ASSUME NEW row \in ReadRow, NEW x \in Locals, NEW h, Tracks(row, x, h),
         DOMAIN h \subseteq Nat \ {NoPtr},
         row.phase = "register" => OwnPtr(x.published, Head(row.todo).pos, row, h),
         NEW a \in DOMAIN h, NEW b \in DOMAIN h, h[a].row = row.id, h[b].row = row.id,
         h[a].pos = h[b].pos, h[a].obj = h[b].obj, Shares(h[a].as), Shares(h[b].as)
  PROVE  a = b
  <1>1. PICK m : \E got \in Seq(Occ) : \E open \in SUBSET Entries : TracksBy(row, x, h, m, got, open)
    BY DEF Tracks
  <1>2. PICK got \in Seq(Occ) : \E open \in SUBSET Entries : TracksBy(row, x, h, m, got, open)
    BY <1>1
  <1>3. PICK open \in SUBSET Entries : TracksBy(row, x, h, m, got, open)
    BY <1>2
  <1>4. Filled(x.read, m, h) /\ Mine(row, x, h) /\ Publishing(row, x, h, m, open)
    BY <1>3 DEF TracksBy
  <1>5. x.read \in [Position -> Seq(Nat)]
    BY DEF Locals
  <1>6. h[a].pos \in Position
    BY <1>4 DEF Mine
  <1> DEFINE Held(c) == InRegistry(x.read, c, h)
             Given(c) == row.phase = "register" /\ c = x.published
  <1>7. (Held(a) \/ Given(a)) /\ (Held(b) \/ Given(b))
    BY <1>4 DEF Mine
  <1> DEFINE p == h[a].pos
             key == m.dict.keys[<<h[a].pos, h[a].obj>>]
  <1>8. ASSUME NEW c \in DOMAIN h, h[c].pos = h[a].pos, h[c].obj = h[a].obj, Held(c)
        PROVE  \E k \in Nat : x.read[p][k] = c /\ key = k - 1
    <2>1. c \in Nat \ {NoPtr} /\ h[c].pos \in Position /\ InRegistry(x.read, c, h)
      BY <1>6, <1>8
    <2>2. PICK k \in DOMAIN x.read[h[c].pos] : x.read[h[c].pos][k] = c
      BY <2>1 DEF InRegistry
    <2>5. m.dict.keys[<<h[c].pos, h[c].obj>>] = k - 1
      <3>1. x.read[h[c].pos][k] # NoPtr
        BY <2>1, <2>2, Zenon
      <3>2. m.dict.keys[<<h[c].pos, h[x.read[h[c].pos][k]].obj>>] = k - 1
        BY <1>4, <2>1, <3>1 DEF Filled
      <3> QED BY <2>2, <3>2
    <2>3. x.read[p] \in Seq(Nat)
      BY <1>5, <1>6
    <2>4. k \in Nat
      BY <1>8, <2>2, <2>3
    <2> QED BY <1>8, <2>2, <2>4, <2>5
  <1>9. ASSUME NEW c \in DOMAIN h, h[c].pos = h[a].pos, h[c].obj = h[a].obj, Given(c)
        PROVE  key \in Nat /\ x.read[p][key + 1] = NoPtr
    <2>1. /\ Waits(x.read, m, EntryOf(Head(row.todo))) /\ h[c].obj = Head(row.todo).obj
          /\ h[c].pos = Head(row.todo).pos
      BY <1>4, <1>9 DEF Publishing, OwnPtr
    <2> DEFINE e == EntryOf(Head(row.todo))
    <2>2. e[1] = p /\ e[2] = h[a].obj
      BY <1>9, <2>1 DEF EntryOf
    <2> HIDE DEF e
    <2>3. Waits(x.read, m, e)
      BY <2>1 DEF e
    <2>4. e[3] \in Nat
      BY <2>3 DEF Waits, Entries
    <2>5. m.dict.keys[<<e[1], e[2]>>] = e[3] /\ x.read[e[1]][e[3] + 1] = NoPtr
      BY <2>3 DEF Waits
    <2>6. key = e[3]
      BY <2>2, <2>5
    <2> QED BY <2>2, <2>4, <2>5, <2>6
  <1>10. a # NoPtr /\ b # NoPtr
    OBVIOUS
  <1> HIDE DEF p, key, Held
  <1>11. CASE Held(a) /\ Held(b)
    <2>1. PICK k \in Nat : x.read[p][k] = a /\ key = k - 1
      BY <1>8, <1>11
    <2>2. PICK l \in Nat : x.read[p][l] = b /\ key = l - 1
      BY <1>8, <1>11
    <2>3. k = l
      BY <2>1, <2>2
    <2> QED BY <2>1, <2>2, <2>3
  <1>12. CASE Held(a) /\ Given(b)
    <2>1. PICK k \in Nat : x.read[p][k] = a /\ key = k - 1
      BY <1>8, <1>12
    <2>2. key \in Nat /\ x.read[p][key + 1] = NoPtr
      BY <1>9, <1>12
    <2>3. key + 1 = k
      BY <2>1, <2>2
    <2> QED BY <2>1, <2>2, <2>3, <1>10
  <1>13. CASE Given(a) /\ Held(b)
    <2>1. PICK k \in Nat : x.read[p][k] = b /\ key = k - 1
      BY <1>8, <1>13
    <2>2. key \in Nat /\ x.read[p][key + 1] = NoPtr
      BY <1>9, <1>13
    <2>3. key + 1 = k
      BY <2>1, <2>2
    <2> QED BY <2>1, <2>2, <2>3, <1>10
  <1>14. CASE Given(a) /\ Given(b)
    BY <1>14
  <1> QED
    BY <1>7, <1>11, <1>12, <1>13, <1>14

\* The locals of each row in progress.
LocalsOf(i) == IF i = Depth THEN tls ELSE saved[i + 1]

\* Each reader of a written row, in progress or waiting, is at a moment of it.
LEMMA EachTracks ==
  ASSUME IInv, ReadInv, NEW i \in DOMAIN rows, Genuine(rows[i])
  PROVE  /\ rows[i] \in ReadRow /\ LocalsOf(i) \in Locals
         /\ Tracks(rows[i], LocalsOf(i), heap)
         /\ DOMAIN heap \subseteq Nat \ {NoPtr}
         /\ rows[i].phase = "register" =>
              OwnPtr(LocalsOf(i).published, Head(rows[i].todo).pos, rows[i], heap)
         /\ rows[i].todo = << >> => rows[i].phase = "work"
  <1>1. /\ rows \in Seq(Row) /\ saved \in Seq(Locals) /\ tls \in Locals
        /\ Len(saved) = Len(rows) /\ Depth = Len(rows) /\ DOMAIN rows = 1 .. Len(rows)
    BY DEF IInv, Typed, Depth
  <1>2. DOMAIN heap \subseteq Nat \ {NoPtr}
    <2>1. heap \in Seq({heap[j] : j \in DOMAIN heap})
      BY DEF IInv, Typed
    <2> QED BY <2>1 DEF NoPtr
  <1>3. rows[i] \in ReadRow /\ rows[i].kind = "read"
    <2>1. rows[i] \in Row /\ rows[i].kind = "read"
      BY <1>1 DEF Genuine
    <2> QED BY <2>1 DEF Row, WriteRow
  <1>4. CASE i = Depth
    <2>1. Depth > 0 /\ rows[i] = Top /\ LocalsOf(i) = tls
      BY <1>1, <1>4 DEF Top, LocalsOf
    <2>2. Tracks(rows[i], tls, heap)
      BY <2>1, TopTracks
    <2>3. HandedOff(Top, tls, heap)
      BY <2>1 DEF IInv, Handoffs
    <2> QED BY <1>1, <1>2, <1>3, <2>1, <2>2, <2>3 DEF HandedOff
  <1>5. CASE i # Depth
    <2>1. i \in 1 .. Depth - 1 /\ LocalsOf(i) = saved[i + 1] /\ i + 1 \in 1 .. Len(saved)
      BY <1>1, <1>5 DEF LocalsOf
    <2>2. Follows(rows[i], saved[i + 1], heap) /\ rows[i].phase = "work"
      BY <2>1 DEF ReadInv, Followed, IInv, Scoped
    <2> QED BY <1>1, <1>2, <1>3, <2>1, <2>2 DEF Follows
  <1> QED BY <1>4, <1>5

\* What the values of a row are of, in the words of the property.
LEMMA SameOnHeap ==
  ASSUME NEW ptrs, NEW occs, NEW id, Same(heap, ptrs, occs, id)
  PROVE  SameOccurrences(ptrs, occs, id)
  BY DEF Same, SameOccurrences

\* The values read from a written row are of the objects written, all the way down,
\* and two shared values of one object at one position are one value: Shared::ptr_eq
\* after the round trip where it held before, in any nesting of rows.
THEOREM SharingReadBack == Spec => []SharingPreserved
  <1>1. IInv /\ ReadInv => SharingPreserved
    <2> SUFFICES ASSUME IInv, ReadInv, NEW i \in DOMAIN rows, Genuine(rows[i])
                 PROVE  LET mine == {a \in DOMAIN heap : heap[a].row = rows[i].id}
                        IN  /\ \A a \in mine : SameOccurrences(heap[a].kids, Kids[heap[a].obj], rows[i].id)
                            /\ \A a, b \in mine :
                                 /\ heap[a].pos = heap[b].pos /\ heap[a].obj = heap[b].obj
                                 /\ Shares(heap[a].as) /\ Shares(heap[b].as)
                                 => a = b
                            /\ rows[i].todo = << >> =>
                                 SameOccurrences(rows[i].vals, rows[i].wire.row, rows[i].id)
      BY DEF SharingPreserved
    <2> DEFINE row == rows[i]
               x == LocalsOf(i)
    <2>1. /\ row \in ReadRow /\ x \in Locals /\ Tracks(row, x, heap)
          /\ DOMAIN heap \subseteq Nat \ {NoPtr}
          /\ row.phase = "register" => OwnPtr(x.published, Head(row.todo).pos, row, heap)
          /\ row.todo = << >> => row.phase = "work"
      BY EachTracks
    <2> HIDE DEF row, x
    <2>2. ASSUME NEW a \in DOMAIN heap, heap[a].row = row.id
          PROVE  SameOccurrences(heap[a].kids, Kids[heap[a].obj], row.id)
      <3>1. Mine(row, x, heap)
        BY <2>1 DEF Tracks, TracksBy
      <3>2. Same(heap, heap[a].kids, Kids[heap[a].obj], row.id)
        BY <2>2, <3>1 DEF Mine
      <3> QED BY <3>2, SameOnHeap
    <2>3. ASSUME NEW a \in DOMAIN heap, NEW b \in DOMAIN heap, heap[a].row = row.id, heap[b].row = row.id,
                 heap[a].pos = heap[b].pos, heap[a].obj = heap[b].obj,
                 Shares(heap[a].as), Shares(heap[b].as)
          PROVE  a = b
      BY <2>1, <2>3, OneValue
    <2>4. ASSUME row.todo = << >>
          PROVE  SameOccurrences(row.vals, row.wire.row, row.id)
      BY <2>1, <2>4, TracksDone, SameOnHeap
    <2> QED BY <2>2, <2>3, <2>4 DEF row
  <1> QED
    BY <1>1, InductiveReads, PTL

=============================================================================
