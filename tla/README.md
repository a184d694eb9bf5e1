# carbonite: a verification project

TLA+ models of carbonite (the crate in `src/`, its derive macro in
`carbonite-derive/`), the TLC configurations that check them on small
instances, and proofs checked by TLAPS. Paths below are relative to the
repository root.

carbonite is a columnar serde format. A **schema** (traced from a type's
`Deserialize` impl, derived, or read from a file) gives a **layout**: a tree
whose leaves are columns. A **batch** serializes rows into the columns and
hands back a **blob**; a **reader** checks the blob's header, puts one cursor
on each column and decodes rows with the schema the blob was written with,
reconciling it with the type it reads into. Two engines, one driven by serde
and one generated by the derive, write and read the same bytes.

## Inventory

| Component | State it keeps | Operations | Talks to | Hard behaviours | What makes it correct |
| --- | --- | --- | --- | --- | --- |
| Row batches, `src/ser.rs` | column buffers, row count, rollback lengths, the once-per-batch schema check | `push`, `push_columns`, `finish`, `finish_into`, `reset` | the value's own `Serialize` impl (user code) once per row; the shared-value scope | a row that fails or panics half way; buffers reused over many blobs; both engines on one batch | a push is all or nothing; a blob holds exactly the rows pushed since the last clear |
| Row readers, `src/de.rs` | a cursor per column, rows remaining | `rows`, `rows_columns`, `next`, `from_slice` | the type's `Deserialize` impl; the shared-value scope | headers that lie; rows that fail half way; trailing bytes | what is accepted is exactly what a batch would have written; work bounded by the input; errors end the iteration |
| Shared values, `src/shared.rs` | thread-locals: scope depth, write dictionary, read registries, three handoff slots | scope begin/drop; key assignment; registry lookup, reservation, fulfilment; stash, publish, deliver | both engines; user code between any two occurrences | nested rows on one thread; slots left set by other formats; swallowed errors; skipped fields | writer keys and reader registries stay in step; sharing is reconstructed; nothing leaks between rows |
| Fallback registry, `src/fallback.rs` | a process-wide map of leaked traces behind a `RwLock` | `traced` | tracing, hence user code that may call `traced` again | threads racing to trace a type; re-entrancy; panics | every caller sees one layout per type; no deadlock; bounded leak |
| Codec and evolution, `src/ser.rs`, `src/de.rs`, `src/layout.rs` | none beyond the cursors | serialize, dispatch, skip | layout tree, cursors | skipping what the reader lacks; readers of another shape; lengths that lie | skip consumes what a read consumes; a reader of another shape gets the right fields or an error |
| Columnar codec, `src/columnar.rs`, derive | none | `serialize_columns`, `deserialize_columns` | the same columns | column numbering of two engines | the bytes of the serde engine |
| Schema encoding, `src/schema.rs`, `src/varint.rs` | a position in the bytes, the nodes being read | `to_bytes`, `from_bytes` | files, frames | counts and depths nobody has earned; two forms of one number | a schema that is written can be read back, in one form only, and is never taken for another or for part of one; work bounded by the input |
| Schema tracing, `src/trace.rs` | the tree known so far | synthetic passes, merge, choice of a variant | the type's `Deserialize` impl (user code) once per pass | convergence; aliases that look like fields; recursive types; types that answer differently each time | ends, whatever the type; gives the derive's schema or none |
| Compatibility check, `src/compat.rs` | none | `check`, `check_static`: compare, sample, probe | the codec, with a made-up blob | changes a sample cannot show; types no sample suits | what is approved is read; what is reported is a break |
| Self-describing frames, `src/self_describing.rs` | none | `frame`, `split` | schema encoding, readers | a damaged length that still parses | the schema ends where it was written to end |
| Derive, removed fields and variants, `carbonite-derive/src/removed.rs` | none | compile-time checks | — | retired names come back through aliases | a retired name or index is never reused |
| Derive, code generation; static schemas; glam | none | `schema_node` | tracing | — | the schema that tracing finds |
| Errors; benches, examples, tests | none | — | — | — | exercised through the above |

## Plan

Each module is one component; abstract promises first, then the code, then the
composition.

1. `Blob`, `AtomicBatch`, `Batch`, `BatchProofs`: what a batch promises, the
   code, the refinement, and its proof. *Done.*
2. `Rows`, `RowsProofs`, `Stream`, `StreamProofs`: the reader against damaged
   blobs; a batch and a reader together. *Done; every safety property of both is
   proved, on lemmas about blobs (`FlattenProofs`, `BlobProofs`).*
3. `SharedDict`, `Shared`, `SharedInv`, `SharedProofs`: the shared-value
   protocol on one thread. *Done; all six of its invariants are proved.*
4. `Fallback`, `FallbackProofs`: threads racing in the registry. *Done and
   proved.*
5. `Layout`, `Codec`, `Reader`: a type's layout, one row written, read and
   skipped by both engines; `RoundTrip` runs them on damaged files. *Done.*
6. `Changes`, `Evolution`: the changes README.md allows, what the derive
   refuses (`removed.rs`), and old files read as the changed type. *Done;
   changes that depend on the data are `Release`'s.*
7. `SchemaBytes`, `SchemaDecode`, `Shipment`, `SchemaProofs`: a schema as bytes,
   the decoder, and any schema shipped to it, alone or in a frame, over a channel
   that may damage it; the proofs that the decoder stays within its input, reads
   only what the writer writes, reads all of that, and what comes of it for what
   is shipped. *Done and proved.*
8. `Trace`, `Snapshot`: tracing pass by pass, and its result shipped. *Done.*
9. `Compat`, `Release`: the two checks a release pipeline runs, against files
   of the released type. *Done.*

Every safety property of the modules above that have no recursive operator is
proved. What is left to TLC is listed at the end of "Proofs", with the reason.

## Modules

### `Blob`

A blob is a record: row count, column count, one length per column, and the
column bytes concatenated. A byte is a *cell*; a varint of the header is a
number. `BlobOf` is `Batch::write_into`. `open` takes the columns off the
bytes one after another, which `Extent` does; `SliceOf` is what it gives a
cursor, and `ClaimedBytes` what the header's lengths add up to.

### `AtomicBatch` and `Batch`

`AtomicBatch` states the promise in the doc comments of `push`,
`push_columns` and `finish_into`. `Batch` is `src/ser.rs`: a push records
`rollback` and begins (`BeginPush`, `BeginPushColumns`), the value's
`Serialize` impl appends cells one at a time (`WriteCell`), and the push ends
in `CommitPush`, `FailPush` (after any prefix, truncating to `rollback`) or
`PanicPush` (unwinding past both arms of the `match`, so nothing is truncated
and the row is not counted). The engines fill the columns of a row in
different orders (one writes a sequence's length after its elements), so
`WriteCell` takes columns in any order and only keeps each column's own cells
in order. `RejectPushColumns` is the one-time schema check failing.
`RefinesAtomicBatch` is the refinement, with the row in progress cut off and
`torn` standing for "a panic since the last clear".

What the model shows about panics: a batch that survives a panic out of a
push (`catch_unwind`) keeps the partial row's cells, and the next blob has
column bytes its row count does not account for. The doc comments promise
rollback "on error" and say nothing of panics, so the abstract specification
voids its promise until the next clear rather than calling this a bug.

### `Rows` and `Stream`

`Rows` is `open` plus both iterators (`Rows` and `RowsColumns` differ only in
how a row is decoded). Decoding is abstracted: `Enc` gives the cells of every
value, `UniquelyDecodable` says that a schema-driven format never confuses two
values, and a row decodes to the value whose cells come next in every column,
or fails, leaving its cursors anywhere between where they were and the end
(`Somewhere`). A value may be `Refused` by the type's own `Deserialize` impl.
`Stream` runs `Batch` and one reader together. What it assumes of the encoding
(`StreamAssumption`) is that decoding follows the schema, and that a row of a
schema with columns writes at least one byte, the reason `de.rs:252-256` gives
for holding the row count against the bytes. Rows of a schema without columns
leave nothing to hold it against: the reader takes `MAX_ZERO_COLUMN_REPEAT` of
them, the batch has no limit, so a batch of more (over a million rows of `()`,
say) is written and refused by `open`. `ReadsBackWhatWasPushed` makes that
exception and no other. The schema of the run has columns; the theorem covers
both kinds.

The model shows one asymmetry: a blob that claims **zero** rows is accepted
with any column bytes, since the check that the last row consumes every column
is made inside the last row. `BytesReadAreRowsYielded` states the exception.

### `SharedDict` and `Shared`

`SharedDict` has the two dictionaries as operators. `Shared` runs rows on one
thread depth first. A row is a sequence of occurrences `<<position, object>>`;
an object's payload is a sequence of occurrences again (`Kids`). The phases of
a row are the points where the wrapper and the format hand over through a
thread-local: `token` (an address is stashed), `rc`/`arc` (a repeat is
delivered), `register` (a value is published); user code runs in phase `work`
only, where it may begin a nested row, abandon the row, or leave the stash or
publication slot set on the way to another format. `heap` is ghost state: the
values readers made, with the object they were made from. Values that user
code drops are kept in it; addresses are never reused, as the "handles must be
alive together" caveat on `Shared` demands.

### `Fallback`

`traced::<T>()` per thread, with the stack of calls that tracing nests. The
read lock covers the lookup alone and the write lock the insertion alone, both
modelled as one holder, `writer`; poisoning is ignored by the code
(`PoisonError::into_inner`) and does not exist here. `Rank` says that types
nest finitely: a type whose trace reached itself could not be traced at all.

What the model shows about the leak: `fallback.rs:23-26` says it is bounded "by
the number of distinct fallback field types in the program (not by calls)".
Threads that miss together each trace and leak an entry before one wins
`or_insert`, so what holds, and is proved, is one leak per type and thread
(`OneLeakPerThread`).

### `Layout`, `Codec` and `Reader`

A type is a tree of records, with the serde and carbonite attributes that
matter to a reader: aliases, defaults, retired names. `LayoutOf` numbers the
columns as `layout::build` does, depth first. A column is a sequence of cells,
a cell being one primitive, length, tag or presence byte; the width of
primitives and the bytes of a varint are left out, except that a reading
type's range is kept (`PrimValues`). A cursor is the cells not yet read.

`Codec` has the four ways through a layout that know nothing of evolution:
`Write` (`ser.rs`, which follows the schema's tree and refuses what does not
agree with it), `Skip` (`de.rs`), and `WriteColumns` and `ReadColumns` (what
`columnar.rs` and the derive generate, which follow the type and find columns
by counting). `Reader` is the rest of `de.rs`: `Ask` has one case per
`deserialize_*` method and answers with a plan (the values to read, as what,
into which field, and what to skip), which `Read` carries out. `Dispatch` is
`ValueDeserializer::dispatch`, and `VisitProduct`, `VisitNumbered`,
`ReadVariant` keep the names of the code.
What a derived `Deserialize` impl asks of the format is serde's, so `VisitSeq`,
`VisitMap` and `Target` are external: a product takes its fields in order and
ends with defaults, or takes each entry by name. A value of the model is what
comes out; an error is `Fail`, whatever its wording. A map read is `Collected`:
the last value of each key, in the order of the keys, as in a `BTreeMap`. A map
is written with its entries in any order, as a `HashMap` has them.

`RoundTrip` puts them in a life cycle: rows are pushed by either engine, the
file may be damaged, and each row is read by the reader that matches names, by
the `fast` one, by the columnar one, or skipped. `PathsAgree` is the promise
behind both fast paths: on any bytes, the three succeed together, with the
same value, and leave the cursors at the same place. `ReadIsCanonical` says that
what is read determines the bytes it was read from. Of maps that is false: a
damaged file that repeats a key, or disorders keys, reads as another file does.
The property says that this is all that is lost: the map is the list of its
pairs, collected, and the bytes are those of that list. `WrittenRowsReadBack`
has one limit, which the code has too: a list of more than
`MAX_ZERO_COLUMN_REPEAT` elements without columns is written by both engines and
refused by every reader.

### `Changes` and `Evolution`

`Changes` is the table of README.md ("What you can change") as a set of
changes to a type, each with what it makes of a value: `Carry` follows a value
through a change, a field the file never had being `Missing` until `Filled`
gives it its default. `CheckFields` is what the derive refuses. `Evolution`
lets the author change the type, write a file, change it again, and read the
file: `NothingMisread` says that each row is what the changes make of the row
written, `OldFilesRead` that it is read at all, and `CursorsInStep` that the
cursors stand where the writer stood before the next row.

The changes of a run are in families, a type undergoing one family. The table
does not hold outside these bounds, each named by a constant of `Changes` or
`Evolution`; the first two are findings, and relaxing any of the others shows
what it keeps out.

- `Lengths`: lists read as arrays have the array's length. (`long_list`)
- `RetireAliases`: a removed field's older names are retired with it.
  (`old_names`)
- `PlainKinds`: only primitives are wrapped, unwrapped and promoted.
  `deserialize_option` does not see through a newtype as `deserialize_seq`
  does, so `N(Option<T>)` is not read as `Option<T>`, and a tuple or struct
  that is wrapped is read as the fields of the wrapper; README.md:138 and
  `tests/evolution.rs:469` speak of wrapping without that limit.
- `Families`: fields, positions and variants; options and widening; options to
  lists; arrays; newtype wrappers. Across families steps need not compose: a
  `Vec` made an array and then named fields, or an `Option` made a list and
  then an array, is refused, although README.md:247-248 calls removing and
  adding "the one place where following the table still gets you into trouble".
- `LeastVariant`: a tuple variant keeps two fields. At one field it becomes a
  newtype variant, which wants exactly one field of the file
  (`newtype_variant_seed`), although README.md:222 lets any group shrink.
- `PlaceholderDefault`: the `()` that holds a retired position has a default.
  README.md:277-278 gives it none, and then a file written while the position
  was gone is refused.
- `KeepFirst`: the field tagged `"0"` stays; a struct that lost its last
  position tag refuses positional files, which the code says in as many words
  (`needs_positional_names`).

### `SchemaBytes` and `SchemaDecode`

A schema on the wire is the sequence of its nodes in pre-order, each with the
label its parent writes before it, its tag, its type's name and its count.
`SchemaBytes` is the writer (`ToBytes`, `Frame`); tags of variant shapes, which
the code numbers separately, are moved up by 32 so that a node says what it is.
`VarintOf` is the loop of `varint::write` as a recursive function: a digit,
marked, and then the rest.
`SchemaDecode` is `from_bytes` and `split`, with `decode`'s recursion as
`stack` and one action for each place where the code consumes bytes or gives
up. `phase` names what is read next; a varint is read a byte a step, with
`weight` for the shift. `limit` is the end of the slice: `ReadSchemaLen` moves
it, and `start`, when a frame's schema begins. `reserved` is ghost state: what
`Vec::with_capacity` was asked for. The width of varints (`Places`), the depth
limit and the reservation cap are constants, since the code's 10, 256 and 64
would hide every boundary from TLC. So is `Utf8`, which sequences of bytes are
text: the proofs hold whichever they are, the runs take ASCII.

`ReadIsWritten` says that at every point between nodes the bytes consumed are
the bytes the writer makes of the nodes read. It is stronger than "decode
inverts encode": it says that no second form of anything is accepted.

### `Trace`

A type is one of `Layout`'s, with four kinds more (byte strings, `Shared`,
recursion, `deserialize_any`) and a fifth for a hand-written impl that asks for
something else on each pass. `Pass` is one turn of the loop in `trace`: the
type's impl drives the `Tracer` (`TracePass`, one case per `deserialize_*`
method), steered at each enum by `ChooseVariant` and by what earlier passes
found there (`PriorOf`), and what it shows is merged (`Merge`). An unexplored
variant is a hole. What ends a pass is a node of its tree, a `Problem`, and
`FirstProblem` is the one met first. serde lists aliases among an enum's
variants and a struct's keys without marking them, which `Listed` and
`Refusing` model: such a type must fail to trace.

`TracedIsDerived` compares every intermediate tree with `SchemaOf`, what the
derive builds. `EveryPassExplores` says that the bound on passes, the "gave up"
of the code, is never what ends tracing: each pass finds something or is the
last. What TLC shows besides: an enum without variants cannot be traced, and
the error says `aliased`, as for an index without a variant; a recursive enum
with two branches doubles its tree with each pass before the depth limit
refuses it.

### `Shipment` and `Snapshot`

`Shipment` ships a schema, alone or in a frame ahead of some data, and reads it
back. On the way one byte may be changed (`Changed`), lost (`Less`) or put in
(`More`), anywhere, or the end may be cut off (`Cut`). Which sequences of nodes are
schemas is `Whole`: what the types `SchemaNode` and `VariantNode` allow, read off
the order in which `encode_into` visits children. `Due` walks the nodes and keeps
the children still to be written, each with its parent's tag and its depth; each
node is one that is due and has the label, name and count that its tag and its
parent call for (`Placed`), and in the end none is due. `Deep` is what `decode`
counts too deep.

`Snapshot` traces a type and ships what comes of it: `Written` flattens the tree,
and `TypeOK` says that the result is `Whole`, so that its steps are `Shipment`'s.

`ShippedIsRead` states the one way an intact schema is
refused: `MAX_DEPTH`, "guarding both" tracing and decoding, is counted
differently by each. To `decode` a leaf and a variant's shape are levels, to
the tracer only containers are, so a type at the tracer's limit is written and
not read. `SplitsWhereWritten` is about frames: damage is refused, or as many bytes are
taken for the schema as were written, as long as the header takes as many bytes
as it did. One of the two, schema or data, is then as it was, with one exception
(`Slipped`), which the run reaches: a frame has no checksum and `split` trusts
the length, so when a byte is lost from the schema the data's first byte makes
up for it, and when one is put in the schema's last byte is left to the data. If
what then stands in the schema's place is a schema, the frame is accepted with
data a byte short or a byte long. The condition on the header is needed too, and the runs are too small to show it: when the
schema is 2 bytes long and that 2 becomes 128, the length is a number of two
digits, the second of which is the schema's version, and 128 bytes of data that
happen to begin like a schema are read as one.

### `Compat` and `Release`

`Compat` is `src/compat.rs` over `Reader`'s codec: `Narrowed` is `walk`,
`VariantSpan`, `WriteRow` and `ProbeBlob` are the sampler, `Probe` reads the
made-up blob with the real reader, on the positional path where
`Deserializer::new` would take it, and `Verify` is the decision between four
outcomes, with a fifth, `panicked`. `Check` has a reference schema only for
types that can be traced; `CheckStatic` always has one.

`Release` lets an author make changes, those of `Changes` and careless ones
(a field added without a default, a variant dropped, positions swapped, a
primitive retyped), and runs both checks. The properties hold the answers
against files of the released type (`Instance`) whose rows are nothing like the
probe's. Their conditions are the check's limits:

- A released type with an enum without variants, legal where no value is
  needed (`Option<Never>`), panics the sampler, which divides by the number of
  variants in `write_row`; unless its span is 0, as when nothing stands beside
  that enum, and then no row is probed and the check approves.
- A type whose span is above `MAX_PROBE_ROWS` is not probed with every variant.
  (`Probeable`)
- `check` cannot compare a type whose aliases keep it from being traced, and
  approves narrowing there. (`StaticDecides`)
- A field both renamed and narrowed is not compared, as `tests/compat.rs`
  records. So are changes that move the trees out of line: a list made an
  array of one, since the probe's lists have length one, or a field narrowed
  while its struct changes kind. The families of `release` keep `retype` apart
  from those. (`Families`)

## Runs

| Run | Shows | Bounds and why they are enough |
| --- | --- | --- |
| `batch` | `TypeOK`, `PartialRow`, refinement of `AtomicBatch` | two columns, values of 1 to 3 cells, two rows, one blob, one panic per clear: a row after a row, after a failure, after a panic, and after a finish |
| `rows` | what an iterator accepts, over every blob of up to four data bytes with three columns | up to three rows claimed, lengths of 0 to 2, wrong totals and a wrong column count; one panic |
| `stream` | what is read back is what was pushed | two rows per blob, two blobs: a blob after a cleared one |
| `shared` | all of `Shared`'s invariants, one row at a time | three positions, one nested in another's payload, an object at two positions, repeats and damaged keys; every way to read an occurrence |
| `shared_nested` | nested rows disturb neither row: `SharingPreserved` and `WrittenRowsReadThrough` for a row and the one inside it | one row inside another at any point, undamaged, shared as `Rc` or skipped: nesting multiplies the states of `shared`, so damage and the other ways to read are left to that run |
| `fallback` | one entry per type, bounded leak, every call ends | two threads, one type reached from another, one untraceable |
| `round_trip` | both engines write and read the same cells, and skipping agrees with reading | eight types with every kind of node, each written under its own schema or another's, the map with up to two keys, so that damage can make them one or disorder them; two rows; one cell changed (to 0 to 4, so a tag, a presence byte and a length can each be wrong by one) or lost; a limit of 2 for elements without columns |
| `evolution` | up to three documented changes leave old files readable and rightly read | ten types, five families of changes (above), three field names so that a name can come back, two rows so that the second shows where the first left the cursors |
| `schema` | tracing ends and gives the derive's schema; the bytes are read back, in one form, within bounds; a frame splits where it was written | seventeen types: every wire tag's kind of child, four that reach the depth limit exactly or by one, in tracing or in decoding alone, aliases of fields and of variants, an empty enum, recursion with one and with two branches, and impls that answer differently on each pass; limits of depth 3, varints of 3 bytes, one list element reserved; one byte changed to one of nine, lost, or put in from among three (0, 1 and a leaf's tag), or the end cut off, so that each version, count, length, tag and digit is wrong by a little and by a lot |
| `release` | what a check approves is read, what it reports is a break | eleven types; any two changes of one of three families, documented or careless; files of eight rows that differ from the probe's in every option, length, variant and end of range; probes of up to 8 rows, which every type fits but the deepest enum once it has grown |
| `long_list`, `old_names` | violations: see Findings | one family each, on the types it takes |

Fairness. In `fallback`, weak fairness of each thread inside `traced`: tracing
terminates (`Rank`), locks are held for one map operation, and `std`'s `RwLock`
does not starve a lone waiter, so a thread in `traced` keeps running; no
fairness makes anybody call it. In `schema`, weak fairness of `TracePassed` and
of `Received`: the loop of `trace` and the recursion of `decode` are sequential
code that waits for nobody, so each runs on once it is entered. Nothing makes
anybody ship a schema.

`rows` turns deadlock checking off because a rejected blob leaves nothing to
iterate. `batch` counts rows and blobs, `shared` rows begun and nesting depth;
those bounds are `CONSTANT`s with `Max` in their names. `round_trip`, `evolution`
and `schema` end when a file is read or refused, `release` when the checks have
answered, so they turn deadlock checking off too. `TraceDepth` and `MaxDepth` are
one constant of the code, which `SnapshotAssumption` says. In `schema` the texts
are ASCII and damage leaves no byte from 194 to 244, which alone could begin a
longer character.

## Findings

- `long_list`. README.md:235 calls `Vec<T>` and `[T; N]` interchangeable. An
  array reads N elements of a `ColSeq` and nothing skips the others, so a
  longer `Vec` silently shifts the elements of every row after it. The bytes
  left over are noticed by the last row alone.
- `old_names`. README.md:128 retires a removed field by its name. If the field
  was renamed, files older than the rename carry it under the older name, which
  a new field may take.

## Proofs

`BatchProofs`. `BatchInvariant`: the inductive invariant is `TypeOK` with
`PartialRow`, which says that during a push each column is what it was when
the push began, followed by the cells written; it is what makes truncating to
`rollback` restore the batch. `BatchImplementsAtomicBatch` maps each action to
a step of `AtomicBatch` or a stutter: `CommitPush` needs `PartialRow` to know
that the committed columns grow by exactly the value's cells.

`FallbackProofs`. The inductive invariant `IInv` adds to `TypeOK` that answers
given are the registry's entries (`Answered`), that only the innermost call of
a thread is past its trace and that nested calls have lower rank
(`WellNested`), and that a thread that has leaked an entry for a type is about
to insert it or finds it in the registry (`Leaked`). `WellNested` is needed
for `Leaked`: a thread must not start to trace a type it is already tracing.
Three lemmas about stacks (`PopStack`, `SetStack`, `PushStack`) carry it, and
one lemma per action preserves `IInv`. The theorems hold for any set of
threads and any acyclic family of types, under `FallbackAssumption`.

`SchemaProofs`. `Bounded`: whatever bytes the schema decoder is given, for any
magic, varint size and limits, it stays inside them, reads no more nodes than
bytes, reserves no more than `Reserve` elements per node read, and recurses no
deeper than `MaxDepth`. `WorkWithinInput` is not inductive: the depth is
checked when a tag is read, and the node is pushed one, two or three steps
later, when its name and count are in. `IInv` therefore adds `Underway` (a node
whose tag is read has paid a byte not yet counted in `nodes`, and was checked
against the depth), `Awaited` (the phases that read a name or count have the
tag that calls for it), `Untouched` (before the first tag there are no nodes,
nothing is on the stack and nothing reserved) and `AtStart` (until a frame's
schema length is read the slice is the whole input). `TypeCorrect` is proved
from the same invariant. There is one lemma per action.

Its second theorem, `ReadsOneForm`, is `ReadIsWritten`, and rests on a second
invariant, `Readback`, proved on top of `IInv`. Between nodes it is
`ReadIsWritten` itself; in the middle of one it has to say what is consumed so
far. `Ahead` is what the writer makes of the header, of the nodes read and of
the parts of the node at hand that come before the one being read. Inside a
number, `Carried` says what is consumed in terms of what is to come: whatever
rest `r` the number turns out to have, the bytes consumed and then `VarintOf[r]`
are `Ahead` and then the varint of `value + r * weight`, where `r` may be zero
only before the first digit. One digit more preserves it, because `VarintOf`
takes numbers apart as `TakeDigit` puts them together (`VarintDigit`), and the
last byte, which is the rest, ends it (`CarriedEnd`): that is where `Shortest`
is needed, since a writer ends no number in a zero. `Fresh` says
that nothing of a node is known before it is read, `Unframed` that `start` is 0
until a frame's length is read.

The converse takes another argument. `At` says that some bytes stand at a place
of others; a number, a text, a node that stand at one place are one (`OneNumber`,
`OneText`, `OneNode`), the node because its tag and what is due before it say
which parts it has. Two schemas at one place are therefore one, node by node
(`OneSchema`), which is `PrefixFree`: a schema's bytes say where it ends.

`ReadsWhatStands` is about the decoder at work on any input. Its invariant,
`Followed`, says of every schema whose bytes stand where the schema is being read
that the decoder is following it: the nodes read are its first (`Along`), the
children its stack waits for are those due (`Awaits`, which turns the counts on
the stack into `Due`'s list), what is known of the node at hand is the next
node's (`Reached`), and the digits taken are those of the number that stands
there (`Reads`, the counterpart of `Carried`: the value is what is read plus what
stands ahead times the weight). The invariant quantifies over schemas the decoder
knows nothing of; each action has its lemma (`LabelFollows`, `CountFollows`,
...). `Following` may end only in acceptance, with that schema and those bytes
(`AcceptedIs`), or in a refusal; that the refusal is for depth alone needs the
slice to be exactly the schema's (`Slice`), and the weight to be a power of 128
(`Weighed`), or a number of the last digit's size might not fit (`OnlyDeep`).

`ReadsSchemas` is the other direction: whatever is accepted is `Whole` and not
`Deep`. The invariant `Grown` says it of the nodes so far (`Begun`), of the stack
(`Built`) and of the parts of the node at hand (`Partly`); `Below`, that the
digits read are less than the next one's weight, bounds its numbers by a u64's.
With `ReadsOneForm` this is all of it: the decoder accepts the bytes of schemas,
nothing else, and each as what it is.

For what is shipped (`Shipment`), `IntactIsRead` is `ShippedIsRead` and
`SplitStays` is `SplitsWhereWritten`, both for any schema, data and magic, and
any bytes that damage leaves. The invariant `SInv` has three parts. `Undamaged`:
what is shipped intact stands where it is being read, the magic, the version and
the length of a frame included, and nothing is refused but for depth. `Headed`:
the header read is the one written for the length it gave. `Whence`: the input is
the frame, or that frame harmed. The rest is about two sequences of bytes: what
was sent is a header, a schema and the data (`Written`), what was accepted a
header, a schema and what is left (`Framing`, by `AcceptedFrame`), and their
headers have one length. That they split alike (`Splits`) has a lemma for each
kind of damage (`ChangedSplits`, `CutSplits`, `LostSplits`, `PutInSplits`).
Damage behind the header leaves the length that is read in it (`HeaderStays`, from
`OneHeader`), and damage behind the schema leaves the schema (`SchemaStays`). The
hard case is a byte lost from the header, or put into it, the schema moving by
one place (`NoSlip`): a schema begins with its version, which would have to be
the header's last byte too and so the schema's length, and no schema is one byte
long. The theorem is about the
specification of `Shipment` alone, since `Snapshot` has the recursive operators
of tracing; the run checks that what `Snapshot` ships is what `Shipment` may.

`FlattenProofs` and `BlobProofs` are the lemmas about blobs that the next two
modules need. `FlattenSeq` and `Extent` are recursive functions; what they
compute at every length is proved from the least length at which it would fail
(`LeastNatural`), which needs no induction theorem. `OpenedAsWritten`: opening
what `write_into` laid out gives every cursor its column, for any number of
columns of any length. `OpenedIsWhole`: the converse, that the columns an
accepted blob is opened into, put back together, are its bytes.

`RowsProofs`. `Bounded` and `ErrorsEnd` are the two promises of the iterators
that hold for any header: what they can be made to produce is bounded by the
bytes, and an error is the last thing they yield. The inductive invariant `IInv`
has three parts. `Counted`: rows yielded and rows remaining are no more than the
header's count, which `open` held against the bytes; without the rows already
yielded in the sum, nothing would bound them. `Fused`: a failure leaves no row
remaining, in an open blob, so no action is left but `NextNone`. `Reread`: the
cells passed in each column are those of the rows yielded; the lemma `ReadOn` is
about one column and one row more. `ReadToTheEnd` (a blob read to its end is the
one a batch of the rows yielded writes) and `TypeCorrect` take a second invariant, `Whole`: the slices are those `open` cut
(`Opened`), and rows yielded and remaining add up to the header's count while
the last row has left no byte unread (`InStep`). The columns are then the rows'
cells; that the blob has no byte besides them is `OpenedIsWhole`.

`BatchProofs.TypeCorrect` is `TypeOK` of a batch, from the same invariant as the
refinement.

`StreamProofs`. `ReadsBack`: for any schema with columns, values and encoding
that decodes one way, every blob opens and is read as the rows pushed into it, in
order and without an error; so is every blob of a schema without columns that has
no more rows than the reader's cap on them, which is any number. A column of cells is tied to rows by *marks*: positions, one
per row, at which each row's own cells begin (`Marks`, `Holds`). The invariant
`SInv` adds to the batch's own: the committed cells hold the rows pushed
(`Batched`), each blob sent is the one laid out for columns that hold its rows
(`Filed`), and a reader's cursors stand at a mark of such a blob (`Reading`).
Where there are columns the row count must pass `open`'s check against the
bytes, which is what the second half of `StreamAssumption` is for (`RowsFit`). At a
mark the next row's cells come next in every column, so `UniquelyDecodable`
leaves no other value to read (`OnlyNextDecodes`) and no error
(`NoError`); the last mark is the end of every column, so nothing trails.

`SharedInv` and `SharedProofs`. `SharedInv` defines the two inductive invariants
of `Shared`, and `SharedProofs` proves them and what follows. The first, `IInv`,
gives four of the six properties
(`TypeCorrect`, `KeysDense`, `SlotsClean`, `OwnValues`), for any rows, damage,
nesting and user code. `Typed`. `Scoped`: the outermost scope puts back fresh
locals, and a row waits for a nested one only while its user code runs, so that
what `CloseScope` restores is what the row left. `Handoffs`: while a token is
sent the stash is its object, a pointer is delivered only to a visitor about to
take it, and while a value is registered the published pointer is its own, made
for this row and position; without the last, a pointer that user code published
earlier could be registered. `Owned`: the registry of the row in progress, and
each one set aside for a waiting row, holds values of that row and position
only; it has to speak of the waiting rows because their registries come back.
`Dense`: so it is with the writers' keys. Values only grow in number while a
row is open (`Grows`), which keeps `Owned` across the rows nested in it.

The second, `ReadInv`, gives the two that are about written rows.
`ReadsThrough`: the reader of one never meets a key out of range or a missing
payload, and ends with every cell read; a repeat can still be refused where its
first occurrence was skipped. `SharingReadBack`: the values
are of the objects written, and two shared values of one object at one position
are one, which is `Shared::ptr_eq` after a round trip. Neither follows from the
wire and the registry alone: that a key names what the reader has under it
depends on what the dictionary was when `write_key` gave it. So `ReadInv` says
that a finished wire has a *log* (`Logged`, `OnLog`): the moments of its writing,
each with the occurrences left, the dictionary and the cells so far, and each
followed by `After` it. The reader of a row is at one of these moments
(`Tracks`): it has read the cells written by then, and its registry is as long
as the dictionary then was (`InStep`). The next occurrence is then a new entry
for the reader exactly if it was new to the writer (`NextCells`). A reader is
also in the middle of payloads, and skips some. Its `todo` is a *plan* of steps
(`Plan`), from what the writer had left to nothing left: an occurrence takes the
next one, a marker collects the values of the object it ends. Going down into a
new entry puts the occurrences of its payload in front of the plan, as the
writer put them in front of what it had left (`PlanKids`, `PlanDown`). Entries
whose payloads are being read wait with an empty slot (`Waits`), which is why
fulfilling one hits the slot with its key and no other (`WaitsApart`); a slot
that is filled holds a value of the object with its key (`Filled`), and a shared
value of the row is in the slot of its object or about to be (`Mine`). Two
shared values of one object would have to be in one slot (`OneValue`). `Follows`
says the same of every row that waits for a nested one, with the locals its
scope set aside, and `Ids` that no value is taken for one of another row. The
theorems hold for any objects, payloads and rows.

Model-checked only: the liveness properties `EveryCallEnds` and `EverythingEnds`, which need
fairness, and tracing, the codec, evolution and the
compatibility check, whose operators are recursive over types and values and
out of the prover's reach: `TracedIsDerived`, `EveryPassExplores`, that a traced
schema is `Whole` (`TypeOK` of `Snapshot`), and the properties of `RoundTrip`,
`Evolution` and `Release`.

## Not modelled

Of the codec: shared nodes (the `Shared` module has them), a map read as a
struct and the reverse, sets (which drop what is repeated, as maps do), `#[serde(skip)]`, conversions of `#[carbonite(with)]`,
and the impls for library types that are products or enums of the kinds
modelled. Of tracing: hand-written visitors that stop
before the end of what they are offered, and types that refuse the values made
up for them. Of schemas as bytes: which bytes are UTF-8 (a parameter), and
`Schema`'s own serde impls, which wrap the same bytes. Of the compatibility
check: shared nodes, floats, `try_from` types that refuse the probe's values,
and the text of what is reported.

Left out for good: the derive's parsing and token generation, which have no
state; the tables of impls for library types (`static_schema.rs`, `glam.rs`);
error wording and one-shot entry points; the benches, examples and fuzz
targets.
