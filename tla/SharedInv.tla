----------------------------- MODULE SharedInv -----------------------------
(***************************************************************************)
(* The inductive invariants of Shared that SharedProofs proves.            *)
(*                                                                         *)
(* IInv says what the state holds whatever rows are read: types, what the  *)
(* scopes will put back, what is being handed over, whose values a         *)
(* registry holds, dense dictionaries.                                     *)
(*                                                                         *)
(* ReadInv says where every row in progress stands.  A written row has a   *)
(* log, the moments between its occurrences.  The reader of one is at a    *)
(* moment of that log: its registry is as long as the writer's dictionary, *)
(* its cursors are past the cells written so far, its values are of the    *)
(* occurrences read, and its `todo` leads from there to the row's end.     *)
(***************************************************************************)
EXTENDS Shared

-----------------------------------------------------------------------------
(***************************************************************************)
(* What the state holds.                                                   *)
(***************************************************************************)
\* WriteState::keys
KeyMap == UNION {[D -> Nat] : D \in SUBSET (Position \X Object)}

WriteState == [keys : KeyMap, counts : [Position -> Nat]]

\* WRITE, READ, STASHED_ADDR, PUBLISHED, DELIVERED
Locals == [write     : WriteState,
           read      : [Position -> Seq(Nat)],
           stash     : Object \union {NoObject},
           published : Nat,
           delivered : Nat]

Engine == {"serde", "columns"}

\* A reader has occurrences before it, and ends of payloads.
Step == [op : {"occ"}, pos : Position, skipping : BOOLEAN]
        \union [op : {"end"}, pos : Position, obj : Object,
                as : {"rc", "arc", "plain", "skip"}, key : Nat]

WriteRow == [kind : {"write"}, engine : Engine, phase : {"work", "token"},
             todo : Seq(Position \X Object), wire : Wire]

ReadRow == [kind : {"read"}, engine : Engine,
            phase : {"work", "rc", "arc", "register"}, id : Nat,
            todo : Seq(Step), vals : Seq(Nat), wire : Wire,
            keysRead : [Position -> Nat], payloadsRead : [Position -> Nat]]

Row == WriteRow \union ReadRow

Typed ==
  /\ tls \in Locals
  /\ saved \in Seq(Locals)
  /\ rows \in Seq(Row)
  /\ active = Len(rows)
  /\ Len(saved) = Len(rows)
  /\ begun \in Nat
  /\ wire \in Wire
  /\ heap \in Seq({heap[i] : i \in DOMAIN heap})

\* The outermost scope puts back fresh locals, and a row waits for a nested
\* call only while its user code runs.
Scoped ==
  /\ Depth = 0 => tls = Fresh
  /\ Depth > 0 => saved[1] = Fresh
  /\ \A i \in 1 .. Depth : saved[i].delivered = NoPtr
  /\ \A i \in 1 .. Depth - 1 : rows[i].phase = "work"

\* A shared value made for a position of a row.
OwnPtr(ptr, p, row, h) ==
  /\ ptr \in DOMAIN h
  /\ h[ptr].row = row.id
  /\ h[ptr].pos = p
  /\ Shares(h[ptr].as)

\* A registry that holds such values and nothing else.
Own(reg, row, h) ==
  row.kind = "read" =>
    \A p \in Position : \A k \in DOMAIN reg[p] :
      reg[p][k] # NoPtr => OwnPtr(reg[p][k], p, row, h)

\* What a row is handing over, when it is: the stash is the object whose token
\* was sent, a pointer is delivered to a waiting visitor only, and the pointer
\* published is the one just made for the entry read.
HandedOff(row, x, h) ==
  /\ row.phase # "work" => row.todo # << >>
  /\ row.phase = "token" => x.stash = Head(row.todo)[2]
  /\ x.delivered # NoPtr => Shares(row.phase)
  /\ row.phase = "register" =>
       /\ Head(row.todo).op = "end"
       /\ OwnPtr(x.published, Head(row.todo).pos, row, h)

Handoffs == Depth > 0 => HandedOff(Top, tls, heap)

\* The registry of the row in progress, and those set aside for the rows waiting.
Owned ==
  /\ Depth > 0 => Own(tls.read, Top, heap)
  /\ \A i \in 1 .. Depth - 1 : Own(saved[i + 1].read, rows[i], heap)

\* The dictionary of the row in progress, and those set aside.
Dense ==
  /\ KeysAreDense(tls.write)
  /\ \A i \in 1 .. Depth : KeysAreDense(saved[i].write)

IInv == Typed /\ Scoped /\ Handoffs /\ Owned /\ Dense

-----------------------------------------------------------------------------
(***************************************************************************)
(* The log of a written row: the moments between its occurrences.          *)
(***************************************************************************)
Occ == Position \X Object

\* What is left to write, the dictionary, and the cells written.
Moment == [todo    : Seq(Occ),
           dict    : WriteState,
           keys    : [Position -> Seq(Nat)],
           payload : [Position -> Seq(Object)]]

Start(data) ==
  [todo |-> data, dict |-> EmptyWrite, keys |-> EmptyWire.keys, payload |-> EmptyWire.payload]

\* The next occurrence is the first of its object.
New(m) == ~ Known(m.dict, Head(m.todo)[1], Head(m.todo)[2])

\* The moment after it is written (write_key, then the payload of a new one).
After(m) ==
  LET p == Head(m.todo)[1]
      o == Head(m.todo)[2]
  IN  [ todo    |-> (IF New(m) THEN Kids[o] ELSE << >>) \o Tail(m.todo),
        dict    |-> AfterKey(m.dict, p, o),
        keys    |-> [m.keys EXCEPT ![p] = Append(@, KeyFor(m.dict, p, o))],
        payload |-> IF New(m) THEN [m.payload EXCEPT ![p] = Append(@, o)] ELSE m.payload ]

\* Cells are only ever added.
Continues(s, t) == Len(s) <= Len(t) /\ \A i \in 1 .. Len(s) : t[i] = s[i]

Before(m, l) ==
  \A p \in Position : Continues(m.keys[p], l.keys[p]) /\ Continues(m.payload[p], l.payload[p])

\* f is the log of the first n occurrences written of a row.
Logged(data, n, f) ==
  /\ n \in Nat
  /\ f \in [0 .. n -> Moment]
  /\ f[0] = Start(data)
  /\ \A i \in 0 .. n : KeysAreDense(f[i].dict) /\ Before(f[i], f[n])
  /\ \A i \in 0 .. n - 1 : f[i].todo # << >> /\ f[i + 1] = After(f[i])

\* A moment of the writing of a whole row.
OnLog(m, w) ==
  \E n \in Nat : \E f : \E i \in 0 .. n :
    /\ Logged(w.row, n, f)
    /\ f[i] = m
    /\ f[n].todo = << >> /\ f[n].keys = w.keys /\ f[n].payload = w.payload

-----------------------------------------------------------------------------
(***************************************************************************)
(* What a reader has before it: each step of its `todo` takes the next of  *)
(* the occurrences the writer had left, or collects the kids of an entry.  *)
(***************************************************************************)
\* A position, an object and the key it was given.
Entries == Position \X Object \X Nat

\* The occurrences the writer had left, those whose values the reader holds, and
\* the entries whose payloads it is in the middle of.
Stage == [left : Seq(Occ), got : Seq(Occ), open : SUBSET Entries]

EntryOf(step) == <<step.pos, step.obj, step.key>>

\* An occurrence is read ...
Takes(step, a, b) ==
  /\ step.op = "occ"
  /\ a.left # << >>
  /\ Head(a.left)[1] = step.pos
  /\ b.left = Tail(a.left)
  /\ b.got = Append(a.got, Head(a.left))
  /\ b.open = a.open

\* ... and what an entry holds is collected.
Collects(step, a, b) ==
  /\ step.op = "end"
  /\ EntryOf(step) \in a.open
  /\ b.left = a.left
  /\ b.open = a.open \ {EntryOf(step)}
  /\ \E pre \in Seq(Occ) :
       /\ a.got = pre \o Kids[step.obj]
       /\ b.got = Append(pre, <<step.pos, step.obj>>)

Does(step, a, b) == Takes(step, a, b) \/ Collects(step, a, b)

\* The steps of todo lead from stage a to the goal.
Plan(todo, a, goal) ==
  \E run :
    /\ run \in [1 .. Len(todo) + 1 -> Stage]
    /\ run[1] = a /\ run[Len(todo) + 1] = goal
    /\ \A j \in 1 .. Len(todo) : Does(todo[j], run[j], run[j + 1])

-----------------------------------------------------------------------------
(***************************************************************************)
(* A reader of a written row is at a moment of its writing.                *)
(***************************************************************************)

\* The values held for these occurrences were made for this row, of them.
Same(h, ptrs, occurrences, id) ==
  /\ Len(ptrs) = Len(occurrences)
  /\ \A i \in DOMAIN ptrs :
       ptrs[i] # NoPtr =>
         /\ ptrs[i] \in DOMAIN h
         /\ h[ptrs[i]].row = id
         /\ <<h[ptrs[i]].pos, h[ptrs[i]].obj>> = occurrences[i]

\* The registry has an entry for every key given, the cursors are past every
\* cell written.
InStep(row, reg, m) ==
  \A p \in Position :
    /\ Len(reg[p]) = m.dict.counts[p]
    /\ row.keysRead[p] = Len(m.keys[p])
    /\ row.payloadsRead[p] = Len(m.payload[p])

\* An entry being read: its object has its key, its slot holds nothing yet.
Waits(reg, m, e) ==
  /\ e \in Entries
  /\ <<e[1], e[2]>> \in DOMAIN m.dict.keys
  /\ m.dict.keys[<<e[1], e[2]>>] = e[3]
  /\ reg[e[1]][e[3] + 1] = NoPtr

\* A pointer in the registry is of the object that has its key.
Filled(reg, m, h) ==
  \A p \in Position : \A k \in DOMAIN reg[p] :
    reg[p][k] # NoPtr =>
      /\ <<p, h[reg[p][k]].obj>> \in DOMAIN m.dict.keys
      /\ m.dict.keys[<<p, h[reg[p][k]].obj>>] = k - 1

\* A value is in the slot of some key.
InRegistry(reg, a, h) == \E k \in DOMAIN reg[h[a].pos] : reg[h[a].pos][k] = a

\* A value of this row is of an object, with what that object holds, and is in
\* the registry or about to be when it is shared.
Mine(row, x, h) ==
  \A a \in DOMAIN h : h[a].row = row.id =>
    /\ h[a].pos \in Position /\ h[a].obj \in Object
    /\ Same(h, h[a].kids, Kids[h[a].obj], row.id)
    /\ Shares(h[a].as) => \/ InRegistry(x.read, a, h)
                          \/ row.phase = "register" /\ a = x.published

\* A row ends with the values of its own occurrences.
Goal(row) == [left |-> << >>, got |-> row.wire.row, open |-> {}]

\* The marker of a value published has been read already.
Rest(row) == IF row.phase = "register" THEN Tail(row.todo) ELSE row.todo

\* The value published belongs into the slot of the marker.
Publishing(row, x, h, m, open) ==
  row.phase = "register" =>
    /\ EntryOf(Head(row.todo)) \notin open
    /\ Waits(x.read, m, EntryOf(Head(row.todo)))
    /\ h[x.published].obj = Head(row.todo).obj

\* The next occurrence, and its key.
Pos(row) == Head(row.todo).pos

KeyAt(row, p) == row.wire.keys[p][row.keysRead[p] + 1]

\* The pointer delivered is the entry the occurrence repeats.
Delivering(row, x) ==
  Shares(row.phase) =>
    /\ Head(row.todo).op = "occ"
    /\ IsRepeat(x.read, Pos(row), KeyAt(row, Pos(row)))
    /\ x.delivered = Entry(x.read, Pos(row), KeyAt(row, Pos(row)))

\* The row is at moment m, holds the values of `got` and is reading `open`.
TracksBy(row, x, h, m, got, open) ==
  /\ OnLog(m, row.wire)
  /\ InStep(row, x.read, m)
  /\ Plan(Rest(row), [left |-> m.todo, got |-> got, open |-> open], Goal(row))
  /\ Same(h, row.vals, got, row.id)
  /\ \A e \in open : Waits(x.read, m, e)
  /\ Filled(x.read, m, h)
  /\ Mine(row, x, h)
  /\ Publishing(row, x, h, m, open)
  /\ Delivering(row, x)

Tracks(row, x, h) ==
  \E m : \E got \in Seq(Occ) : \E open \in SUBSET Entries : TracksBy(row, x, h, m, got, open)

-----------------------------------------------------------------------------
(***************************************************************************)
(* What a row, being written or read, is in the middle of.                 *)
(***************************************************************************)

\* The locals and the cells are those of the last moment logged.
Writes(row, x) ==
  \E n : \E f :
    /\ Logged(row.wire.row, n, f)
    /\ f[n].todo = row.todo
    /\ f[n].dict = x.write
    /\ f[n].keys = row.wire.keys
    /\ f[n].payload = row.wire.payload

Follows(row, x, h) ==
  /\ row.kind = "write" => Writes(row, x)
  /\ Genuine(row) => Tracks(row, x, h)

\* No two rows being read have one id, and a row that begins has one that no
\* value has.
Ids ==
  /\ \A a \in DOMAIN heap : heap[a].row \in 0 .. begun
  /\ \A i \in 1 .. Depth : rows[i].kind = "read" => rows[i].id \in 1 .. begun
  /\ \A i, j \in 1 .. Depth :
       i < j /\ rows[i].kind = "read" /\ rows[j].kind = "read" => rows[i].id # rows[j].id

\* The row in progress, and those waiting with their locals set aside.
Followed ==
  /\ Depth > 0 => Follows(Top, tls, heap)
  /\ \A i \in 1 .. Depth - 1 : Follows(rows[i], saved[i + 1], heap)

\* The last row written can be read from its beginning to its end.
Readable == OnLog(Start(wire.row), wire)

ReadInv == Ids /\ Followed /\ Readable

=============================================================================
