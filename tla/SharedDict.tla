----------------------------- MODULE SharedDict -----------------------------
(***************************************************************************)
(* The per-row dictionaries behind carbonite::Shared (src/shared.rs).      *)
(* A position is a key column of the row being written or read; an object  *)
(* is the address of a shared value; a pointer is a value a reader has     *)
(* materialized.  The writer numbers the objects of a position in the      *)
(* order they first occur; the reader keeps one registry per position.     *)
(***************************************************************************)
EXTENDS Integers, Sequences

CONSTANTS
  Position,  \* the key columns
  Object     \* addresses of shared values

Pointer == Nat \ {0}
NoPtr == 0      \* None, in a registry entry or a handoff slot

-----------------------------------------------------------------------------
(***************************************************************************)
(* WriteState: keys maps (position, address) to the key assigned, counts   *)
(* maps a position to its next key (0 when it has no entry).               *)
(***************************************************************************)
EmptyWrite == [keys |-> [x \in {} |-> 0], counts |-> [p \in Position |-> 0]]

Known(w, p, o) == <<p, o>> \in DOMAIN w.keys

\* write_key: the key of an object, and the dictionary afterwards.
KeyFor(w, p, o) == IF Known(w, p, o) THEN w.keys[<<p, o>>] ELSE w.counts[p]

\* Mutation: the position's next key is not advanced.
AfterKey_SameNext(w, p, o) ==
  IF Known(w, p, o) THEN w
  ELSE [w EXCEPT !.keys = [x \in DOMAIN w.keys \union {<<p, o>>} |->
                             IF x = <<p, o>> THEN w.counts[p] ELSE w.keys[x]]]

AfterKey(w, p, o) ==
  IF Known(w, p, o) THEN w
  ELSE [ keys   |-> [x \in DOMAIN w.keys \union {<<p, o>>} |->
                       IF x = <<p, o>> THEN w.counts[p] ELSE w.keys[x]],
         counts |-> [w.counts EXCEPT ![p] = @ + 1] ]

-----------------------------------------------------------------------------
(***************************************************************************)
(* ReadState::registries: per position, the entries in first-occurrence    *)
(* order, NoPtr for one that is still being read or was materialized by a  *)
(* reader that shares nothing.                                             *)
(***************************************************************************)
EmptyRead == [p \in Position |-> << >>]

\* read_slot and read_skip: what a key says about the registry.
IsRepeat(r, p, k) == k < Len(r[p])
IsNew(r, p, k) == k = Len(r[p])
IsInvalid(r, p, k) == k > Len(r[p])

\* Mutation: the latest entry is cloned, whatever the key.
Entry_Latest(r, p, k) == r[p][Len(r[p])]

Entry(r, p, k) == r[p][k + 1]

\* A new entry is reserved before its payload is read ...
Reserve(r, p) == [r EXCEPT ![p] = Append(@, NoPtr)]

\* ... and fulfilled once the value exists.
Fulfill(r, p, k, ptr) == [r EXCEPT ![p][k + 1] = ptr]
=============================================================================
