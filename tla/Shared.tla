------------------------------- MODULE Shared -------------------------------
(***************************************************************************)
(* Shared values on one thread (src/shared.rs with the parts of src/ser.rs *)
(* and src/de.rs that drive it).  Rows are written and read depth first; a *)
(* shared object is written where it first occurs in its position and      *)
(* repeated by key afterwards, and a reader hands the pointer it made at   *)
(* the first occurrence to the repeats.                                    *)
(*                                                                         *)
(* Identity crosses serde's traits through three thread-local slots        *)
(* (stash, published, delivered).  User code runs between any two          *)
(* occurrences: it may call carbonite again (a nested row, which may fail  *)
(* or unwind), hand shared values to other serde formats, which leave the  *)
(* slots set, or swallow an error.  A RowScope around every row saves,     *)
(* clears and restores the dictionaries and the slots.                     *)
(***************************************************************************)
EXTENDS SharedDict

CONSTANTS
  NoObject,    \* an empty stash
  Kids,        \* Kids[o]: the <<position, object>> occurrences in o's payload
  RowData,     \* the rows a caller may write: sequences of occurrences
  Foreign,     \* objects user code also hands to formats other than carbonite
  Damaged,     \* row wires that no writer produced
  ReadAs,      \* how a visitor may read an occurrence: "rc", "arc", "plain", "skip"
  MaxDepth,    \* bound: nested rows
  MaxRows      \* bound: rows begun in one call from outside

\* A row's cells in the columns of each position: the keys, and the payloads
\* (an object's own content) of the first occurrences; with the row they stand for.
Wire == [keys    : [Position -> Seq(Nat)],
         payload : [Position -> Seq(Object)],
         row     : Seq(Position \X Object)]

ASSUME SharedAssumption ==
  /\ NoObject \notin Object
  /\ Kids \in [Object -> Seq(Position \X Object)]
  /\ RowData \subseteq Seq(Position \X Object)
  /\ Damaged \subseteq Wire
  /\ Foreign \subseteq Object
  /\ ReadAs \subseteq {"rc", "arc", "plain", "skip"}
  /\ MaxDepth \in Nat
  /\ MaxRows \in Nat

VARIABLES
  active,  \* ACTIVE: how many row scopes are open
  tls,     \* WRITE, READ, STASHED_ADDR, PUBLISHED, DELIVERED
  saved,   \* what each open RowScope will put back, innermost last
  rows,    \* the rows in progress, innermost last
  begun,   \* rows begun since the thread was last outside carbonite
  wire,    \* the last row written from outside
  heap     \* the values readers have materialized, by pointer

vars == <<active, tls, saved, rows, begun, wire, heap>>

Fresh == [write |-> EmptyWrite, read |-> EmptyRead,
          stash |-> NoObject, published |-> NoPtr, delivered |-> NoPtr]

\* The cells of a row in the columns of each position: keys, and the payloads
\* (an object's own content) of the first occurrences.
EmptyWire == [keys    |-> [p \in Position |-> << >>],
              payload |-> [p \in Position |-> << >>],
              row     |-> << >>]

\* A value another format materialized: no carbonite row owns it.
ForeignPtr == 1
ForeignNode == [row |-> 0, pos |-> "none", obj |-> NoObject, as |-> "rc", kids |-> << >>]

Init ==
  /\ active = 0
  /\ tls = Fresh
  /\ saved = << >>
  /\ rows = << >>
  /\ begun = 0
  /\ wire = EmptyWire
  /\ heap = <<ForeignNode>>

-----------------------------------------------------------------------------
Depth == Len(rows)
Top == rows[Depth]
SetTop(row) == rows' = [rows EXCEPT ![Depth] = row]

\* User code may run: no handoff is half way through.
AtWork(kind) == Depth > 0 /\ Top.kind = kind /\ Top.phase = "work"

Put(field, x) == tls' = [tls EXCEPT ![field] = x]

(***************************************************************************)
(* RowScope.                                                               *)
(***************************************************************************)

\* RowScope::begin
OpenScope ==
  /\ active' = active + 1
  /\ saved' = Append(saved, tls)
  /\ tls' = Fresh

\* Mutations: the depth is not counted down, or the registries of a nested
\* row's caller are not put back.
CloseScope_StaysActive ==
  /\ tls' = saved[Len(saved)]
  /\ saved' = SubSeq(saved, 1, Len(saved) - 1)
  /\ UNCHANGED active

CloseScope_KeepsRegistries ==
  /\ active' = active - 1
  /\ tls' = [saved[Len(saved)] EXCEPT !.read = IF Len(saved) > 1 THEN tls.read ELSE @]
  /\ saved' = SubSeq(saved, 1, Len(saved) - 1)

\* Drop for RowScope, on every way out of a row
CloseScope ==
  /\ active' = active - 1
  /\ tls' = saved[Len(saved)]
  /\ saved' = SubSeq(saved, 1, Len(saved) - 1)

\* A row begins from outside, or from user code inside another row.
BeginRow(row) ==
  /\ Depth > 0 => Top.phase = "work"
  /\ Depth < MaxDepth
  /\ begun < MaxRows
  /\ OpenScope
  /\ rows' = Append(rows, row)
  /\ begun' = begun + 1

\* The innermost row ends.  Outside carbonite nothing refers to the values of
\* earlier rows any more.
EndRow ==
  /\ CloseScope
  /\ rows' = SubSeq(rows, 1, Depth - 1)
  /\ begun' = IF Depth = 1 THEN 0 ELSE begun
  /\ heap' = IF Depth = 1 THEN <<ForeignNode>> ELSE heap

\* An error, or a panic, leaves the row: a value that does not match, a field
\* that does not decode, user code giving up.
AbandonRow ==
  /\ Depth > 0
  /\ Top.phase = "work"
  /\ EndRow
  /\ UNCHANGED wire

(***************************************************************************)
(* User code handing shared values to a serde format that is not           *)
(* carbonite's, or to a schema that does not share them: the wrapper sets  *)
(* the slot, nobody takes it.                                              *)
(***************************************************************************)
StashForeign(o) ==
  /\ Depth > 0
  /\ Top.phase = "work"
  /\ tls.stash = NoObject
  /\ Put("stash", o)
  /\ UNCHANGED <<active, saved, rows, begun, wire, heap>>

PublishForeign ==
  /\ Depth > 0
  /\ Top.phase = "work"
  /\ tls.published = NoPtr
  /\ Put("published", ForeignPtr)
  /\ UNCHANGED <<active, saved, rows, begun, wire, heap>>

-----------------------------------------------------------------------------
(***************************************************************************)
(* Writing a row.                                                          *)
(***************************************************************************)
BeginWrite(engine, data) ==
  /\ BeginRow([kind |-> "write", engine |-> engine, phase |-> "work",
               todo |-> data, wire |-> [EmptyWire EXCEPT !.row = data]])
  /\ UNCHANGED <<wire, heap>>

\* Serialize for Shared: the address is stashed and the token sent.
StashAddr ==
  /\ AtWork("write")
  /\ Top.engine = "serde"
  /\ Top.todo # << >>
  /\ Put("stash", Head(Top.todo)[2])
  /\ SetTop([Top EXCEPT !.phase = "token"])
  /\ UNCHANGED <<active, saved, begun, wire, heap>>

\* The key is written, then the payload if the object is new here.
WriteOccurrence(addr) ==
  LET p     == Head(Top.todo)[1]
      isNew == ~Known(tls.write, p, addr)
  IN  SetTop([Top EXCEPT
        !.phase = "work",
        !.wire.keys[p] = Append(@, KeyFor(tls.write, p, addr)),
        !.wire.payload[p] = IF isNew THEN Append(@, Head(Top.todo)[2]) ELSE @,
        !.todo = (IF isNew THEN Kids[Head(Top.todo)[2]] ELSE << >>) \o Tail(@)])

\* serialize_newtype_struct on the sentinel token: the address is taken back.
WriteToken ==
  /\ Depth > 0
  /\ Top.phase = "token"
  /\ WriteOccurrence(tls.stash)
  /\ tls' = [tls EXCEPT !.stash = NoObject,
                        !.write = AfterKey(@, Head(Top.todo)[1], tls.stash)]
  /\ UNCHANGED <<active, saved, begun, wire, heap>>

\* SerializeColumns for Shared and SharedArc
WriteColumns ==
  /\ AtWork("write")
  /\ Top.engine = "columns"
  /\ Top.todo # << >>
  /\ WriteOccurrence(Head(Top.todo)[2])
  /\ tls' = [tls EXCEPT !.write = AfterKey(@, Head(Top.todo)[1], Head(Top.todo)[2])]
  /\ UNCHANGED <<active, saved, begun, wire, heap>>

EndWrite ==
  /\ AtWork("write")
  /\ Top.todo = << >>
  /\ wire' = IF Depth = 1 THEN Top.wire ELSE wire
  /\ EndRow

-----------------------------------------------------------------------------
(***************************************************************************)
(* Reading a row.  `todo` holds the occurrences still to read and, under   *)
(* the payload of a new entry, an "end" marker; `vals` the values read.    *)
(***************************************************************************)
Occurrence(p, skipping) == [op |-> "occ", pos |-> p, skipping |-> skipping]

Occurrences(data, skipping) ==
  [i \in 1 .. Len(data) |-> Occurrence(data[i][1], skipping)]

BeginRead(engine, w) ==
  /\ BeginRow([kind |-> "read", engine |-> engine, phase |-> "work", id |-> begun + 1,
               todo |-> Occurrences(w.row, FALSE), vals |-> << >>, wire |-> w,
               keysRead |-> [p \in Position |-> 0],
               payloadsRead |-> [p \in Position |-> 0]])
  /\ UNCHANGED <<wire, heap>>

Reading == AtWork("read") /\ Top.todo # << >> /\ Head(Top.todo).op = "occ"

At == Head(Top.todo).pos

\* The cursors are not at their end.
HasKey == Top.keysRead[At] < Len(Top.wire.keys[At])
HasPayload == Top.payloadsRead[At] < Len(Top.wire.payload[At])
Key == Top.wire.keys[At][Top.keysRead[At] + 1]
Payload == Top.wire.payload[At][Top.payloadsRead[At] + 1]

\* What the reading type may ask of this occurrence: a skipped payload is
\* skipped all the way down; the derive's engine reads every field as shared.
MayReadAs(as) ==
  /\ as \in ReadAs
  /\ Head(Top.todo).skipping => as = "skip"
  /\ Top.engine = "columns" => as \in {"rc", "arc"}

Shares(as) == as \in {"rc", "arc"}

\* The payload is read or skipped after its key; then an end marker collects
\* the values of its kids.
Descend(as) ==
  SetTop([Top EXCEPT
    !.keysRead[At] = @ + 1,
    !.payloadsRead[At] = @ + 1,
    !.todo = Occurrences(Kids[Payload], as = "skip")
             \o << [op |-> "end", pos |-> At, obj |-> Payload, as |-> as, key |-> Key] >>
             \o Tail(@)])

\* Mutation: read_skip does not count the entry it skips.
ReadNew_SkipUncounted(as) ==
  /\ Reading
  /\ HasKey
  /\ IsNew(tls.read, At, Key)
  /\ HasPayload
  /\ MayReadAs(as)
  /\ tls' = IF as = "skip" THEN tls ELSE [tls EXCEPT !.read = Reserve(@, At)]
  /\ Descend(as)
  /\ UNCHANGED <<active, saved, begun, wire, heap>>

\* read_slot or read_skip says New.
ReadNew(as) ==
  /\ Reading
  /\ HasKey
  /\ IsNew(tls.read, At, Key)
  /\ HasPayload
  /\ MayReadAs(as)
  /\ tls' = [tls EXCEPT !.read = Reserve(@, At)]
  /\ Descend(as)
  /\ UNCHANGED <<active, saved, begun, wire, heap>>

\* The occurrence is done and its value is ptr (NoPtr when nothing was made).
Yield(ptr) ==
  SetTop([Top EXCEPT !.phase = "work", !.keysRead[At] = @ + 1,
                     !.vals = Append(@, ptr), !.todo = Tail(@)])

\* read_slot says Repeat and the columnar engine clones the pointer; or
\* read_skip passes over a repeat, which has no payload.
ReadRepeat(as) ==
  /\ Reading
  /\ HasKey
  /\ IsRepeat(tls.read, At, Key)
  /\ MayReadAs(as)
  /\ \/ as = "skip" /\ Yield(NoPtr)
     \/ /\ Top.engine = "columns"
        /\ Entry(tls.read, At, Key) # NoPtr
        /\ heap[Entry(tls.read, At, Key)].as = as
        /\ Yield(Entry(tls.read, At, Key))
  /\ UNCHANGED <<active, tls, saved, begun, wire, heap>>

\* deserialize_shared_wrapper on a Repeat: the pointer goes into the delivery
\* slot and the visitor is called.
Deliver(as) ==
  /\ Reading
  /\ Top.engine = "serde"
  /\ HasKey
  /\ IsRepeat(tls.read, At, Key)
  /\ MayReadAs(as)
  /\ Shares(as)
  /\ Entry(tls.read, At, Key) # NoPtr
  /\ Put("delivered", Entry(tls.read, At, Key))
  /\ SetTop([Top EXCEPT !.phase = as])
  /\ UNCHANGED <<active, saved, begun, wire, heap>>

\* The visitor takes the pointer, whose kind must be its own (try_rc, try_arc).
TakeDelivered ==
  /\ Depth > 0
  /\ Shares(Top.phase)
  /\ heap[tls.delivered].as = Top.phase
  /\ Put("delivered", NoPtr)
  /\ Yield(tls.delivered)
  /\ UNCHANGED <<active, saved, begun, wire, heap>>

\* Mutation: nobody empties the slot.
SwallowDelivered_NotCleared ==
  /\ Depth > 0
  /\ Shares(Top.phase)
  /\ Yield(NoPtr)
  /\ UNCHANGED <<active, tls, saved, begun, wire, heap>>

\* The visitor reports an error instead: the wrong kind of pointer, or a
\* visitor that is no wrapper and reads on, into RepeatGuard.  User code
\* swallows the error and goes on; clear_delivered has emptied the slot.
SwallowDelivered ==
  /\ Depth > 0
  /\ Shares(Top.phase)
  /\ Put("delivered", NoPtr)
  /\ Yield(NoPtr)
  /\ UNCHANGED <<active, saved, begun, wire, heap>>

\* repeat_unavailable, or a pointer of the wrong kind on the columnar path:
\* user code swallows the error (only the key has been read) and goes on.
SwallowRepeat(as) ==
  /\ Reading
  /\ HasKey
  /\ IsRepeat(tls.read, At, Key)
  /\ MayReadAs(as)
  /\ as # "skip"
  /\ \/ as = "plain"
     \/ Entry(tls.read, At, Key) = NoPtr
     \/ /\ Top.engine = "columns"
        /\ Entry(tls.read, At, Key) # NoPtr
        /\ heap[Entry(tls.read, At, Key)].as # as
  /\ Yield(NoPtr)
  /\ UNCHANGED <<active, tls, saved, begun, wire, heap>>

\* InvalidTag, or a column at its end: the row fails.
ReadDamage ==
  /\ Reading
  /\ \/ ~HasKey
     \/ HasKey /\ IsInvalid(tls.read, At, Key)
     \/ HasKey /\ IsNew(tls.read, At, Key) /\ ~HasPayload
  /\ EndRow
  /\ UNCHANGED wire

(***************************************************************************)
(* The payload of a new entry has been read.                               *)
(***************************************************************************)
EndOfPayload == AtWork("read") /\ Top.todo # << >> /\ Head(Top.todo).op = "end"

Marker == Head(Top.todo)
Arity == Len(Kids[Marker.obj])
KidVals == SubSeq(Top.vals, Len(Top.vals) - Arity + 1, Len(Top.vals))

FinishValue(ptr, phase) ==
  SetTop([Top EXCEPT !.phase = phase,
                     !.vals = Append(SubSeq(@, 1, Len(@) - Arity), ptr),
                     !.todo = IF phase = "work" THEN Tail(@) ELSE @])

\* T::deserialize returns and Rc::new or Arc::new makes the pointer.
Materialize ==
  heap' = Append(heap, [row |-> Top.id, pos |-> Marker.pos, obj |-> Marker.obj,
                        as |-> Marker.as, kids |-> KidVals])

NewPtr == Len(heap) + 1

\* A skipped payload makes no value; a plain one makes one that is not shared,
\* and its reservation stays unfulfilled.
FinishUnshared ==
  /\ EndOfPayload
  /\ ~Shares(Marker.as)
  /\ IF Marker.as = "skip"
     THEN FinishValue(NoPtr, "work") /\ UNCHANGED heap
     ELSE FinishValue(NewPtr, "work") /\ Materialize
  /\ UNCHANGED <<active, tls, saved, begun, wire>>

\* DeserializeColumns for Shared and SharedArc
FinishColumns ==
  /\ EndOfPayload
  /\ Shares(Marker.as)
  /\ Top.engine = "columns"
  /\ Materialize
  /\ FinishValue(NewPtr, "work")
  /\ tls' = [tls EXCEPT !.read = Fulfill(@, Marker.pos, Marker.key, NewPtr)]
  /\ UNCHANGED <<active, saved, begun, wire>>

\* Mutation: a pointer already published is not replaced.
Publish_First ==
  /\ EndOfPayload
  /\ Shares(Marker.as)
  /\ Top.engine = "serde"
  /\ Materialize
  /\ FinishValue(NewPtr, "register")
  /\ Put("published", IF tls.published = NoPtr THEN NewPtr ELSE tls.published)
  /\ UNCHANGED <<active, saved, begun, wire>>

\* The wrapper's visitor publishes the pointer it returns ...
Publish ==
  /\ EndOfPayload
  /\ Shares(Marker.as)
  /\ Top.engine = "serde"
  /\ Materialize
  /\ FinishValue(NewPtr, "register")
  /\ Put("published", NewPtr)
  /\ UNCHANGED <<active, saved, begun, wire>>

\* ... and deserialize_shared_wrapper takes it to fulfill the reservation.
Register ==
  /\ Depth > 0
  /\ Top.phase = "register"
  /\ tls' = [tls EXCEPT !.published = NoPtr,
                        !.read = Fulfill(@, Marker.pos, Marker.key, tls.published)]
  /\ SetTop([Top EXCEPT !.phase = "work", !.todo = Tail(@)])
  /\ UNCHANGED <<active, saved, begun, wire, heap>>

EndRead ==
  /\ AtWork("read")
  /\ Top.todo = << >>
  /\ EndRow
  /\ UNCHANGED wire

-----------------------------------------------------------------------------
Next ==
  \/ \E engine \in {"serde", "columns"} :
       \/ \E data \in RowData : BeginWrite(engine, data)
       \/ \E w \in {wire} \union Damaged : BeginRead(engine, w)
  \/ StashAddr \/ WriteToken \/ WriteColumns \/ EndWrite
  \/ \E as \in ReadAs : ReadNew(as) \/ ReadRepeat(as) \/ Deliver(as) \/ SwallowRepeat(as)
  \/ TakeDelivered \/ SwallowDelivered
  \/ FinishUnshared \/ FinishColumns \/ Publish \/ Register \/ EndRead
  \/ ReadDamage
  \/ AbandonRow
  \/ \E o \in Foreign : StashForeign(o)
  \/ PublishForeign

Spec == Init /\ [][Next]_vars

-----------------------------------------------------------------------------
(***************************************************************************)
(* Properties.                                                             *)
(***************************************************************************)

IsLocals(x) ==
  /\ DOMAIN x.write.keys \subseteq Position \X Object
  /\ \A po \in DOMAIN x.write.keys : x.write.keys[po] \in Nat
  /\ x.write.counts \in [Position -> Nat]
  /\ x.read \in [Position -> Seq(Nat)]
  /\ x.stash \in Object \union {NoObject}
  /\ x.published \in Nat
  /\ x.delivered \in Nat

\* The thread-locals and every saved copy of them hold what their types hold,
\* and there is one scope per row in progress.
TypeOK ==
  /\ IsLocals(tls)
  /\ \A i \in DOMAIN saved : IsLocals(saved[i])
  /\ active = Len(saved)
  /\ active = Len(rows)
  /\ begun \in Nat

\* The keys of a position are 0 .. n-1 with one object each, which is what lets
\* the reader tell a new object from a repeat by comparing the key with the
\* number of entries (write_key against read_slot).
KeysAreDense(w) ==
  /\ \A x \in DOMAIN w.keys : w.keys[x] < w.counts[x[1]]
  /\ \A x, y \in DOMAIN w.keys : x[1] = y[1] /\ w.keys[x] = w.keys[y] => x = y
  /\ \A p \in Position : \A k \in 0 .. w.counts[p] - 1 :
       \E o \in Object : <<p, o>> \in DOMAIN w.keys /\ w.keys[<<p, o>>] = k

\* ... in the row being written and in every row waiting for a nested call.
DictionariesDense ==
  /\ KeysAreDense(tls.write)
  /\ \A i \in DOMAIN saved : KeysAreDense(saved[i].write)

\* Nothing of a row outlives it: outside carbonite no dictionary entry and no
\* pointer is left in a thread-local, however the rows ended (RowScope).  A
\* delivered pointer waits only for the visitor about to take it, so a visitor
\* reading a new entry finds the slot empty (the wrapper's visitor would
\* otherwise return the stale pointer and leave the payload unread).
NothingIsStale ==
  /\ Depth = 0 => active = 0 /\ tls = Fresh
  /\ tls.delivered # NoPtr => Depth > 0 /\ Shares(Top.phase)
  /\ \A i \in DOMAIN saved : saved[i].delivered = NoPtr

Genuine(row) == row.kind = "read" /\ row.wire \notin Damaged

\* A reader of a row carbonite wrote never meets an invalid key or the end of a
\* column, and leaves none unread, whichever engine wrote it and whichever
\* occurrences it shares, copies or skips (read_skip against read_slot).
WrittenRowsReadThrough ==
  Depth > 0 /\ Genuine(Top) /\ Top.phase = "work" =>
    IF Top.todo = << >>
    THEN \A p \in Position :
           /\ Top.keysRead[p] = Len(Top.wire.keys[p])
           /\ Top.payloadsRead[p] = Len(Top.wire.payload[p])
    ELSE Head(Top.todo).op = "occ" =>
           /\ HasKey
           /\ ~IsInvalid(tls.read, At, Key)
           /\ IsNew(tls.read, At, Key) => HasPayload

\* Every value a reader holds for an occurrence was made for this row, of the
\* object written there.
SameOccurrences(ptrs, occurrences, id) ==
  /\ Len(ptrs) = Len(occurrences)
  /\ \A i \in DOMAIN ptrs :
       ptrs[i] # NoPtr =>
         /\ heap[ptrs[i]].row = id
         /\ <<heap[ptrs[i]].pos, heap[ptrs[i]].obj>> = occurrences[i]

\* Sharing is reconstructed: the values read are those written, all the way
\* down, and two shared occurrences of one position are one pointer exactly
\* when they were one object (Shared::ptr_eq holds after a round trip).
SharingPreserved ==
  \A i \in DOMAIN rows : Genuine(rows[i]) =>
    LET mine == {a \in DOMAIN heap : heap[a].row = rows[i].id}
    IN  /\ \A a \in mine : SameOccurrences(heap[a].kids, Kids[heap[a].obj], rows[i].id)
        /\ \A a, b \in mine :
             /\ heap[a].pos = heap[b].pos /\ heap[a].obj = heap[b].obj
             /\ Shares(heap[a].as) /\ Shares(heap[b].as)
             => a = b
        /\ rows[i].todo = << >> => SameOccurrences(rows[i].vals, rows[i].wire.row, rows[i].id)

\* A row never sees a value of another row, of another position or of another
\* format, damaged input included.
RegistriesHoldOwnValues ==
  Depth > 0 /\ Top.kind = "read" =>
    \A p \in Position : \A k \in DOMAIN tls.read[p] :
      tls.read[p][k] # NoPtr =>
        /\ heap[tls.read[p][k]].row = Top.id
        /\ heap[tls.read[p][k]].pos = p
        /\ Shares(heap[tls.read[p][k]].as)
=============================================================================
