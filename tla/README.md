# A verification development for wizalloc

`wizalloc` is a small storage engine written in Rust and compiled to WebAssembly
(`src/wasm-engine`), with a Svelte page around it (`src/frontend`) that draws its
insides. The engine keeps tables of rows in slotted pages, caches the pages in a
buffer pool, and keeps them on a simulated disk (an array in memory). This
directory holds TLA+ models of the engine, the TLC configurations that check them
on small instances, and proofs, checked by TLAPS, of what matters most about the
disk, the replacer, the buffer pool, the slotted page, the storage engine with its
chains and row counts, the configuration and the page's copies of the engine's state,
for every size of them.

The code is the reference: paths below are relative to `src/wasm-engine/src`
unless they say otherwise. `PROJECT.json` maps each definition to the lines it models.

## 1. The system

| part | code | state | operations |
|---|---|---|---|
| disk manager | `storage/disk.rs` | page bytes, allocation bitmap, free list, counter | `allocate_page`, `deallocate_page`, `read_page`, `write_page` |
| LRU replacer | `storage/buffer_pool.rs` (first part) | queue of frames, set of evictable frames | `record_access`, `set_evictable`, `evict`, `remove` |
| buffer pool | `storage/buffer_pool.rs` | frames (page id, pin count, dirty flag, bytes), page table, free frames; owns a disk and a replacer | `fetch_page`, `new_page`, `unpin_page`, `flush_page`, `flush_all`, `delete_page` |
| slotted page | `storage/page.rs`, `storage/types.rs` | one buffer: header, slot array, tuples | `page_init`, `insert_tuple`, `delete_tuple`, `get_tuple`, `compact` |
| tuple codec | `storage/schema.rs` | none | encode with or without overflow, patch a pointer, decode, recognise a pointer |
| overflow chains | `storage/overflow.rs` | pages linked by `next_page` | `write_overflow`, `read_overflow`, `delete_overflow` |
| table heap | `storage/table.rs` | schema, first page, row count | `create`, `insert`, `delete`, `get`, `scan`, `page_ids` |
| engine | `lib.rs` | the pool and the tables by name | `create_table`, `drop_table`, `insert`, `delete`, `get`, `scan`, `flush`, snapshots; JSON in and out |
| JSON helpers | `lib.rs` (second half) | none | `parse_schema`, `parse_values`, `split_json_array`, escaping and unescaping, `values_to_json` |
| configuration | `storage/config.rs`, `parse_config` in `lib.rs` | sizes | defaults, clamping and rounding at construction |
| snapshots | `storage/snapshot.rs` | none | binary dumps; `snapshot_page` fetches and unpins a page |
| frontend store | `src/frontend/src/lib/stores/storage.svelte.ts` | copies of engine state, the selected table and page, the rows last asked for | one or more engine calls per user action, then `refreshSnapshots`; most catch what the engine throws |
| wrapper, parsers, components | `src/frontend/src/lib/wasm`, `.../components` | none of their own | forwarding, decoding, drawing |

**How they interact.** All calls go down and are synchronous: the UI calls the
engine, the engine a table heap with the pool as an argument, the heap and the
overflow code the pool, the pool its replacer and its disk. There are no callbacks
and no shared state but the frames: a caller of the pool gets a *frame id*, indexes
the pool's frame array with it directly, and gives the page back by *page id*.
Nothing ties the two together but the pin count, and nothing returns a pin when a
caller leaves early.

**What is hard here.** The engine is single-threaded and keeps nothing across a
restart, so there are no data races, no messages and no recovery. What a test
hardly reaches are long sequences of legal calls:

* *Bookkeeping spread over five structures.* A frame's pin count, the evictable
  set, the queue, the free frames and the page table are updated by separate calls
  in six methods.
* *Stale ids.* A frame id used after the frame was given to another page; a page id
  the UI selected before its page was freed; a row id on such a page.
* *Partial failure.* Almost every method of the heap gives up through `?` in the
  middle, after it has pinned, allocated or linked something. When the pool is
  filled with leaked pins, or the disk is full, each of those places is reached.
* *Resource limits.* A full pool and a full disk, alone and together.
* *Calls of calls.* A method of the heap makes many calls of the pool and keeps page
  ids and chain positions across them, while its own calls evict and free pages.
* *Text.* Rows and schemas cross between page and engine as JSON, which each side
  writes and reads with its own, different, helpers.
* *Exceptions half-way.* The store makes several engine calls in one function; one
  that throws leaves the copies before it new and those behind it old.
* *Bytes.* Slot array and tuples grow towards each other in one buffer; slots are
  reused, and `compact` moves tuples within the buffer.

The hazards are listed, each at its line, in `PROJECT.json`, with the property that
covers it or the reason why none does yet.

**What makes each part correct.**

* disk: no page has two owners; no page is lost; the counter agrees with the bitmap.
* replacer: it evicts the least recently used evictable frame and nothing else.
* pool: no frame is lost or owned twice, a pinned frame keeps its page, a request
  fails only when all frames are pinned, no modification is lost, and callers
  cannot tell that there is a cache at all.
* slotted page: slots and tuples never overlap, and a tuple comes back as it went in
  whatever happened around it.
* codec and JSON: a row comes back as it was typed.
* configuration: whatever is typed, the engine gets sizes it can work with.
* store: what the page shows is what the engine would answer.
* heap, chains, engine: the rows of a table are those inserted and not deleted,
  also after calls that failed half-way; chains end and do not meet; the row count
  is right.

## 2. The modules

```
 TableStore   <==  StorageEngine --- TuplePage  <==  SlottedPage
 (abstract)             ^           (page operators)   (bytes)
                        |  TableHeap ==> StorageEngine
                        |  (call of the pool by call of the pool)
                        | both are written over the promises of
                        v
 PageStore    <==  PoolClients --extends--> BufferPool
 (abstract)                                   |     |  INSTANCE
                                              v     v
                        LruPolicy <==  LruReplacer  DiskManager
                        (abstract)
 FreedRowIds --> BufferPool     (row ids for which the pool is no PageStore)

 RowPath --> SchemaText --> JsonText        FrontendStore --> EngineConfig
                      \--> TupleCodec

 A <== B: B is shown to implement A;  A --> B: A extends B
 proofs: SequenceLemmas, PoolPartsProofs (DiskManager, LruReplacer),
         PoolClientsProofs (with BufferPool), SlottedPageProofs, StorageEngineProofs,
         TableHeapSteps, TableHeapProofs, FrontendStoreProofs (with EngineConfig)
```

Every method runs to completion on the one WASM thread, so an action is a whole
method, except in `TableHeap`, `PoolClients` and `RowPath`, which take methods apart.
Where a method can end in several ways, each way is an action or a disjunct. A call that
returns early having changed nothing is a stuttering step and has no action.

**DiskManager.** `storage`, `allocated` (the set bits), `free_list` (a stack),
`num_allocated`. `Grants(p)` is the search of `allocate_page` (free list first, then
the lowest clear bit); `Reserve` and `Release` are the bookkeeping, kept apart from
the bytes because the pool may write another page in the same call. A page's bytes
are one value of `Contents`.

**LruReplacer / LruPolicy / LruHistory.** The queue is a sequence, least recent first.
`LruPolicy` states the policy without a queue: a recency relation on the tracked
frames, and an `Evict` that may take only a frame all other evictable frames were
accessed after. The refinement mapping reads the relation off the queue's positions.
Removing a frame and evicting it change the state alike, so the refinement alone would
let `evict` take any frame; `EvictsLeastRecent` ties the replacer's `Evict` to the
policy's. For the same reason an access that changes nothing would pass for a stuttering
step; `LruHistory` runs the replacer beside a record of its calls that does not depend
on the queue, and `QueueIsHistory` compares the two.

**BufferPool.** The pool with both of the above as instances. `Install` is the
common tail of `fetch_page` and `new_page`; `WrittenBack` the write of a dirty
victim; `NewPageNoFrame` the way out of `new_page` after the page has already been
allocated. There are two next-state relations, because what is true depends on the
caller: `Next` is for callers that fetch only pages in use, `NextAny` for callers that
fetch any id. The overflow code, `insert`, `scan` and `page_ids` fetch pages they own, as
long as nothing else has gone wrong; `get` and `delete` fetch the page of whatever row id
is typed, and the inspector that of whatever page was selected. So the heap is a caller of
the first kind **only while row ids name pages in use and no freed page is inspected**.
Everything below that rests on `PageStore` (`PoolClients`, `StorageEngine`, `TableHeap` and
their theorems) is stated under this condition. `FreedRowIds` shows
what happens without it.

**PoolClients / PageStore.** The users of the pool. A handle is what a method of
`table.rs` or `overflow.rs` keeps in local variables between fetch and unpin: a page
id, a frame id, and whether it has written. `Abandon` is the early return that
forgets the unpin. Two handles can be open at once, as in `TableHeap::insert`, and
their steps interleave freely, which allows more orders than the code has. `ClientNext`
fetches only pages in use.
`PageStore` is what the heap may rely on:
pages with contents and pins, without frames, copies, queue or disk; what is left
of the frames is that at most `PoolSize` pages are pinned at once, and that a
failing `new_page` uses a page up.

**FreedRowIds.** The engine over `BufferPool` itself, for fetches of pages that are not in
use. Tables are created, scanned and dropped, `delete` is called with a row id on any page
of the disk, and `snapshot_page` with any page, one call of the pool per step. Nothing is inserted, so a table is one
page without rows, no call keeps a pin, and a page is either `Fresh` (it links to no page)
or `Zero` (whose `next_page` is page 0). That is enough to lose a mapping and to scan for
ever.

**SlottedPage / TuplePage.** `SlottedPage` works on a buffer of cells, so a wrong
bound makes tuples and slots overwrite each other in the model as they would in the
program. A cell is a byte of a tuple or a u16 of a slot. `TuplePage` is the page as
the heap sees it: a sequence of tuples and tombstones, and a number of free bytes.
`ImplementsTuplePage` shows that each operation on the bytes is the operation on the
sequence.

**StorageEngine / TableStore.** Engine, heaps and overflow chains over a page store
as `PageStore` promises it and pages as `TuplePage` promises them. Each engine call
is one action per way it can end; the pins left over from earlier calls, and the
pages still unused, decide which. `InsertHere`, `InsertOnNewPage`,
`InsertFindsNoFrame` and `InsertFindsNoPage` are the ways of `insert`; `GetNothing`
is `get` of an empty slot, which leaks a pin; `Delete` frees the chains the tuple's
recognised pointers lead to, and `DropTable` the pages that could be listed.
`TableStore` is the promise to the user: tables and rows under unique ids. `Next` is
for callers that name rows by ids on pages of the table they name; `NextInUse` adds ids
on any other page in use: `delete` then takes a row from one table
and counts it off another one, whose `row_count` may wrap (`CountModulus`).

**TableHeap.** The same methods, step by step, for row ids on any page in use. A step is one call of the pool with the
straight-line code around it; `call` holds the method's place (`at`) and its local
variables: the row and the pages written so far (`ps`), the current page, the row id,
the pages listed, the pointers still to be resolved. It adds `scan` and the answers of
`get` and `scan`, the order in which free pages are given out, and the cut of a tuple's
length to a u16 in `insert_tuple` (`LengthModulus`), after which the copy panics and the
engine answers no more (`at = "trapped"`). `before` is the store the running call found;
reading the variables of `StorageEngine` off it while a call runs makes the whole call
one step there, at its end, and `ImplementsEngine` says that this step is the action of
`StorageEngine` for that call and those arguments.

**TupleCodec, JsonText, SchemaText, RowPath.** Pure functions on bytes and characters,
and the way of one row through them. A text is a sequence of characters and of words no
helper looks into. `JsonText` has `split_json_array`, escaping and unescaping, and the
values of a row; `SchemaText` the schema, with the matching of brackets and the search
for keys as the code does them, blind to strings; `TupleCodec` the null bitmap, fixed and
variable fields, the sentinel and the pointer, the patching and the decoding. `RowPath`
is a state machine with one action per conversion, from the text `JSON.stringify` makes
of what was typed to the text `JSON.parse` gets. The two functions of the browser are
modelled from how the wrapper uses them.

**EngineConfig.** `Parsed` is what `parse_config` reads (a field that is no u32 gets its
default), `Validated` is `EngineConfig::validate`, `Configured` one after the other.

**FrontendStore.** The state of `storage.svelte.ts`, one action per function of the
store and per way it can end. The engine beneath it is a table of schemas and slots; each
function of the store that makes several engine calls shows what has been assigned when
one of them throws: `FillTable` (`bootstrapTable` and `loadFromCSV`) keeps the rows
before the one that is refused, `Scan` the rows when the columns cannot be read, `Caught`
is what is left of a function whose `listTables` throws. `list_tables` and `schema_to_json` print
names without escaping them. Names and schemas in `Plain` have no quotation mark, no
backslash and no control character, and `JSON.parse` gives them back. What it makes of the
others is left open: for each set of tables `Listings` has the outcomes, other names or
`Throws`, and `Printed` has that of each schema.

What is abstracted from the data: the bytes of a page (a value, or a sequence of
tuples), outside `TupleCodec` the layout of a tuple (its columns and its size), and the
statistics counters. Page ids are unordered model values in `StorageEngine`, and an allocation
there may return any unused page; `DiskManager` says which one it is.

## 3. The runs

All of them finish within five minutes. Only `CallsEnd`, in `table_heap`, and
`ScanReturns`, in `freed_row_ids`, need fairness: see section 5.

| run | instance | what it shows |
|---|---|---|
| `disk_manager` | 4 pages, 2 contents | bitmap, free list and counter agree; an allocation fails only on a full disk and returns a page nobody owns |
| `lru_replacer` | 4 frames | the queue lists the frames in the order of their last accesses, and `evict` takes the frame `LruPolicy` allows |
| `buffer_pool_any` | 2 frames, 3 pages, `NextAny` | the frame bookkeeping, the evictable set, and the protection of pinned frames hold for any caller |
| `pool_clients` | 2 frames, 3 pages, 2 handles on pages in use | a cached page is allocated and in one frame, frame ids held stay valid, no modification can be lost, `flush_all` leaves no dirty frame, and the pool implements `PageStore` |
| `slotted_page` | 12 cells, tuples of 1, 2 and 3 cells | layout, contents, and what `compact` reclaims |
| `storage_engine` | 2 tables, 4 pages, 2 frames, four kinds of row, row ids on pages of the table named | chains, row counts, and the refinement to `TableStore` |
| `table_heap` | 2 tables, 3 pages, 2 frames, five kinds of row, row ids on any page in use | each call amounts to one action of `StorageEngine` and ends; `get` and `scan` answer with nothing that is not there, and completely while a frame is free; only a cut length panics |
| `row_path` | texts of up to 3 of 10 characters, rows of 1, 3 and 9 columns, column names of up to 2 of 11 characters and keys | a row and its schema come back as typed, or are among those a named conversion changes or refuses; patched tuples are the ones encoding would have made |
| `frontend` | 5 names, 4 schemas, 2 pages of 1 slot, 2 configurations | legal configurations; while all tables have plain names, right tabs, current panels and rows under their own columns |
| `freed_row_ids` | 2 tables, 3 pages, 3 frames, row ids and inspections of any page | *violated:* `scan` returns |
| `scan_truncated` | as `table_heap` | *violated:* `scan` returns all live rows |
| `blob_pointer` | as `storage_engine`, with a Blob column | *violated:* a row read back holds data, not pointers |

**The bounds and why they are enough.**

* `MaxPages` and `PoolSize`: three pages and two frames are the least at which a
  victim is chosen between two frames while a third page is asked for, a page is
  evicted and comes back, a page is deleted and its id given out again while
  another frame is in use, and all frames are pinned. The configuration allows no
  fewer than four frames and sixteen pages, but no line of the modelled code depends on
  that: with more frames it takes more calls to pin or fill them. The theorems remove this
  bound for the pool's own invariants.
* `MaxPins` bounds the pins of one frame (2 in the pool: two users of one page) and
  of one page in `StorageEngine` (1: what matters there is whether a page is pinned
  at all). It is a bound of the model; the code counts in a `u32`.
* `Handles`: two, the most any method of the heap holds.
* `PageSize = 12` cells with a one-cell header: three one-cell tuples fit with
  their slots and leave two cells over, so that every guard is met with equality, one
  short and with room, with and without a slot to reuse.
* In `StorageEngine` a data page has room for two short rows or one long one, an
  overflow page for two cells, and a disk has four pages: enough for a chain of
  two, a row with two chains, a second data page, a full disk at each point of an
  insertion, and two tables. One row has no spilled column and fits no page at all.
  Pages and table names are interchangeable there, and are declared symmetric; the
  checked properties include no liveness. `CountModulus = 32` is more than the rows that
  fit the disk, as 2^32 is in the code (see `CountFits` in section 6).
* `TableHeap` has three pages: a data page that can hold a pointer, and a chain of two
  (`Long`), or two chains of one (`Pair`); or two data pages, or one for each table. Its
  five rows are spilled to no page, one, two, and one for each column, and one is longer
  than the model's u16 by so little that the cut length fits a page. `CountModulus = 2`
  makes a row count wrap after two rows, `LengthModulus = 16` cuts the longest row only.
* `RowPath` has the characters some helper looks at (quote, backslash, comma, bracket),
  one with a known escape and one with an unknown one (newline, form feed), the letters
  of these escapes, a blank, and the word `null`. Three of them make every pair of
  escapes meet a third character. Nine columns are the least with a second byte in the
  null bitmap; `Threshold = 2` spills texts of three.
* `FrontendStore` has two plain names, and one each that is listed as a plain one, as two,
  and not at all; its schemas are two plain ones, one that is read as a plain one, and one
  that cannot be read. Two pages let one table be dropped and another take its page; the
  configurations are beyond every bound.
* `FreedRowIds` needs a third frame: one for the stale copy of a page, one for the page
  itself, and one to be fetched in between, so that the stale copy is evicted first.

`MCStorageEngine.cfg` turns the deadlock check off, because the engine really can
stop: when the disk is filled with leaked pages and every frame holds a leaked pin,
no call changes anything any more. So can `TableHeap`, for the same reason and when a
panic has stopped it, and `RowPath`, at the end of its one row. All other runs check for
deadlock.

Each property of a passing run has a mutant in `PROJECT.json`, a plausible bug in a
mapped definition (a dropped guard, an update left out, the wrong end of a queue)
that makes the property fail. The mutated definitions stand in the modules before
the definition they replace, with a comment that begins "Mutant of".

## 4. What the violated runs show

1. `freed_row_ids`. `fetch_page` does not consult the bitmap. `delete` and `get` pass it the
   page of any row id, and the UI goes on inspecting a page id after its table was dropped,
   or one never given out. That puts a page that is not in use into a frame; when its id is
   handed out, two frames hold the page, and evicting the stale one drops the mapping of
   the other. `flush_all` and `fetch_page` then no longer see the frame with the table's
   page. If it has not reached the disk yet, a scan reads zeros there, whose `next_page` is
   0, and follows page 0 for ever. A row id on such a page can also make `get` pin a page
   that is not allocated, or answer with a row of a dropped table, since deallocating
   clears no bytes. While only pages in use are fetched none of this can happen
   (`CachedAllocated`, `FramesMapped`, and the theorem `OneFramePerPage`).
2. `scan_truncated`. `TableHeap::get` of a deleted row, and the failing ends of
   `insert`, leave a pin that nobody will return. When the pins fill the pool, `scan`
   breaks off at the first page it cannot fetch and answers with the rows so far, which
   may be none, without an error.
3. `blob_pointer`. A Blob column longer than the threshold is spilled like a VarChar,
   but only VarChar pointers are recognised: reading returns the pointer's eight bytes,
   and deleting leaks the chain.

What the passing models say about other weaknesses of the code, without a run that is
violated: `NewPageNoFrame` and `InsertFindsNoFrame` keep a page that `new_page` took
from the disk before it found all frames pinned; `DropTable` frees the pages of
`page_ids` and no overflow page; `GetNothing` and the failing insertions keep their pin;
`Delete` of an id on another table's page takes that table's row and counts it off its
own (`NextInUse`). `RowAsTyped` names the one change a text can suffer: an escape the engine
does not know (form feed and its like) comes back as two characters. `SchemaAsTyped` and
`RefusedRightly` name what a bracket, a brace, a quote or a key in a column name does to a
table: an opening brace in one name and a closing one in a later name make one column of
the two. `TabsAreTables`, `SuccessIsCurrent` and `ColumnsOfSelection` say when the page is
right: while all tables have plain names. While one has another name, `createTable` reports
an error for a table it has made, and `dropTable`, which catches nothing, drops its table
and throws, with the status still at the success before and the panels from before. And
`Target` is the first page with room, where the head of `table.rs` (lines 3 and 4) says
that insertions go to the last page with enough free space.

Beside these, what the models say about rows holds while row ids name pages in use: no
failing call loses, adds or changes a row of any table.

## 5. Fairness and liveness

Every method is synchronous and returns; nothing is scheduled, retried or awaited, and
the code promises nothing will *eventually* be called. The one liveness question is
whether a call ends: `insert`, `scan`, `page_ids` and the overflow code follow `next_page`
in a `while` loop until `INVALID_PAGE`. `CallsEnd` states it under `WF_heapVars(Step)`,
where `Step` is the next step of the call that is running. The code justifies this
fairness and no more: on the one thread nothing can keep a running call from its next
instruction, and no fairness is assumed of `Start`, the user. A call that panics has
ended too. `freed_row_ids` assumes the same of its own `Step`, so that its scan does not
end although every step of it is taken. `ChainsSound` states the reason as safety: the chain from every reference is
finite and has no repetition; both hold while row ids name pages in use.

## 6. The proofs

| theorem | module | for every value of the constants |
|---|---|---|
| `DiskBookkeeping` | `PoolPartsProofs` | `TypeOK` and the inductive invariant `DiskInv` |
| `FreeListAlwaysSound` | | `FreeListSound` |
| `GrantsUnused` | | `GrantsOneUnusedPage` |
| `LruBookkeeping`, `QueueDistinct` | | `LruInv`, no frame is queued twice |
| `QueueImplementsLru` | | the replacer implements `LruPolicy` |
| `QueueIsRecency` | | `QueueIsHistory` |
| `EvictionIsLru` | | `EvictsLeastRecent` |
| `PoolBookkeeping` | `PoolClientsProofs` | `TypeOK`, `PageTableSound`, `FramesPartitioned`, `EvictableExact`, `EmptyFramesIdle`, `FailsOnlyWhenPinned`, for any caller |
| `PinnedFramesStay` | | `PinnedStays`, for any caller |
| `OneFramePerPage` | | `CachedAllocated` and `FramesMapped`, for callers that fetch only pages in use |
| `FlushAllComplete` | | `FlushAllCleans`, for such callers |
| `HandlesAlwaysValid` | | `HandleTypeOK`, `HandlesValid`, for any finite number of such callers |
| `NoModificationLost` | | `NoUnmarkedChange`, for such callers |
| `CachingInvisible` | | the pool and its callers implement `PageStore`, for such callers |
| `LayoutAlwaysSound` | `SlottedPageProofs` | `TypeOK`, `LayoutSound`, and that a tuple is kept as it was inserted |
| `CompactIsComplete` | | `CompactReclaimsAll` |
| `PageImplementsTuplePage` | | the page implements the sequence of tuples of `TuplePage` |
| `PagesOwned` | `StorageEngineProofs` | the inductive invariant `EngineInv`, for row ids on pages in use |
| `EngineTypes` | | `TypeOK`, for row ids on pages in use |
| `ChainsAlwaysSound` | | `ChainsSound`, for row ids on pages in use |
| `RowCountAlwaysExact` | | `RowCountExact`, for ids on pages of the table named, if `CountFits` |
| `EngineKeepsRows` | | the engine implements `TableStore`, for row ids on pages in use, if `SpillsText` |
| `TextPointersResolved` | | `PointersResolved`, likewise |
| `HeapTypes` | `TableHeapProofs` | `HeapTypeOK`, for row ids on pages in use, as the next four |
| `HeapPanics` | | `OnlyCutLengthsTrap` |
| `HeapAnswers` | | `AnswersSound` |
| `HeapAnswersAll` | | `AnswersComplete` |
| `HeapImplementsEngine` | | `ImplementsEngine`: the methods, step by step, implement `StorageEngine` |
| `AlwaysLegal`, `LegalStays` | `FrontendStoreProofs` | every configuration made is `Legal`, and making it again changes nothing |
| `EngineAlwaysLegal` | | `ConfigLegal` |
| `StoreAgrees` | | `TabsAreTables`, `SuccessIsCurrent`, `ColumnsOfSelection`: all three while all tables have plain names |

**Assumptions.** `DiskAssumption`: there is at least one page, and the zero page is a
page. `PoolAssumption`: at least one page, one frame and one pin, `Zero` and `Fresh`
are contents, and `None` is neither a page id nor a frame id. The code's
`EngineConfig::validate` guarantees more, as `AlwaysLegal` shows. The replacer needs no
assumption. `MaxFieldAssumption`: the largest number of a field is at least 8192; u32::MAX
is. `HandleAssumption`: the handles are finitely many, and `Idle` is none of the values
an open handle has. `NullAssumption`: no name, page or schema is `Null`. `ListingAssumption`: plain names and
schemas are read as they are, and a list of plain names only is read as those names.
`PageAssumption`: the page has room for its header, and a tuple is a sequence that is not
empty (it has one byte of null bitmap at least). `EngineAssumption`: finitely
many pages, sizes that are numbers, rows that are sequences of columns, and `NoPage`,
`Tombstone` and `Absent` distinct from what they mark the absence of. `HeapAssumption`: page
ids are numbers, the size of the pool and the modulus of a length are numbers.

Two theorems have a hypothesis of their own. `CountFits`: the pages have fewer bytes
than `row_count` has values; the disk is one array in a 32-bit memory, so it has.
`SpillsText`: no Blob is longer than the threshold. That one can be broken by a user, and
then the conclusion is false: it is the finding of the run `blob_pointer`, and the
theorems say that there is no other way to lose a row or to see a pointer.

**The invariants.** `DiskInv` joins the type, `FreeListSound`, `UsedPagesArePrefix`
and `CountExact`. The prefix is what makes `GrantsOneUnusedPage` hold: when the free
list is empty, every page ever used is in use, so the scan finds a page exactly when
one is unused. `FreeListSound` is needed for the counter, which would otherwise be
decremented for a page not counted.

`LruInv` is the type and `OrderDistinct`; without distinctness, removing one entry
would not remove the frame and the recency relation would have cycles. The
refinement rests on lemmas about `Before`, the order in which a sequence lists its
values: what removing an entry and appending one do to it.

`PoolInv` is `PoolShape`, about the frames, the page table and the lists, and
`DiskInv` for the pool's own disk. Its parts support one another: `EvictableExact`
and `FramesPartitioned` make the frame `get_free_frame` returns either empty or
loaded and unpinned, `PageTableSound` makes the mapping that `Install` drops the
victim's, and `EmptyFramesIdle` makes an empty frame fit for its next page. Neither
part mentions whether a page that is fetched is allocated, so they hold for any caller.
What does depend on it is in `OwnedInv` (`CachedAllocated`, `FramesMapped`), which is
inductive only together with `PoolInv`, and only for `Next`. The proofs have one
lemma per action. The disk's lemmas are used in the pool through
`INSTANCE PoolPartsProofs`.

`ClientInv` adds the callers to `PoolInv` and `OwnedInv`. These two are kept because a
step of a caller is a step of `Next`. `HandlesValid` and `NoUnmarkedChange` are not
inductive without `PinsCover`: a frame has at least as many pins as handles (more after
an early return, which forgets its unpin). So the victim of an eviction and the page
that `delete_page` drops have no handle, and an unmarked victim equals its disk page. The
refinement then needs one fact of its own, `Room`: pinned pages and pinned frames are
equally many (by the bijection that `PageTableSound` and `FramesMapped` make), hence
`get_free_frame` succeeds exactly when `PageStore` has room. The lemma about an action
states both that it keeps `HandleInv` and what it does to the pages as `PageStore` sees
them, so the lemma about the mapped step only rewrites that. Fetches of
pages that are not in use (`FreedRowIds`) are not covered: they put one page into two
frames, which `OwnedInv` excludes.

`PageInv` joins `TypeOK` and `LayoutSound` with `TuplesKept`: the cells behind a live slot
are those of the tuple inserted there. The difficult operation is `compact`, which writes
the live tuples one below the other from the end of the page. `Cursor`, the recursive
function that says where, is shown to be the page size less the bytes of the live tuples up
to that slot (`CursorBelow`); so the new places do not meet, the lowest is not below the
slots, and what no tuple has is free.

`EngineInv` says who owns a page. A key is a table, or a column of a stored tuple that is a
pointer; `Ownership` gives each page of a set `D` one key and one place such that the page
at a key's first place is the one the key names, and the next page in the chain, if there
is one, has the same key and the next place. Pages outside `D` are leaked: abandoned by
calls that failed, or by a dropped table. `D`, owners and places are not in the code; the
invariant says that they exist, so each action's lemma gives those after the step: fewer
keys (`OwnershipOfFewer`), disjoint ones more (`OwnershipOfBoth`), a page at the end of a
chain (`OwnershipLonger`). Nothing weaker is inductive: that chains do not meet now says
nothing about the next state unless each page is known to belong to one chain at one
place. `ChainsSound` follows, since a chain that follows the places has no repetition.
That drop_table and delete free whole chains or parts of them, whatever they could fetch,
costs nothing, because owners that are gone take their pages out of `D`.

`RowCountExact` then needs what each step does to the set of tuples (`StoredRows`,
`DeleteRows`, `AbandonedRows`, `RowsStay` for the others) and that `row_count` does not
wrap: the slots of a page take room, so the tuples are fewer than `CountModulus`. The
refinement to `TableStore` needs in addition what is read back of a row: `PiecesFrom` says
where its chunks lie in the order of writing, `WrittenPath` that the pages written are the
path from the pointer, `JoinedChunks` that they add up to the data; tuples that stay are
read as before because the pages of their chains stay (`RowStays`).

`HeapInv` says, place by place of the code, what the running call has done to the store it
found. Its parts are `HeapShape` (the free list has no page twice, the other pages have
contents), `EngineInv` of the store the user knows of, which is `before` while a call runs,
and `Running`: at one of the thirty places (`AtSpill`, `AtJoined`, ...), with the local
variables, pins and pages worth there what the code of the place relies on. So at `search`,
say, the pieces of the row are on the pages `ps`, linked, none of them a page of `before`
(`Spilling`); the current page is the k-th of the table and the k - 1 before it could be
fetched and have no room (`Passed`); the call pins nothing (`Pinning({})`). Nothing weaker is
inductive: what a call leaves behind is right only if what it did at every earlier place is
known when it ends. `TableHeapSteps` has the places and the steps between them,
`TableHeapProofs` those that end a call. `HeapTypes`, `HeapPanics` and the two theorems
about answers read off the place; a free frame in `AnswersComplete` is what makes every page
of `before` one that can be fetched. The refinement needs in addition that the step which
ends a call is the action of the engine for that call: the page at which the search stops is
`Target` (`TargetBefore`), the pages written are `OverflowPages` (`SpillWritten`), the pages
deleted are those the engine frees (`FreedBefore`, `DropPageStep`). The lemmas of
`StorageEngineProofs` are used for `before` through `INSTANCE StorageEngineProofs` with the
substitution of `Engine`. That `EngineInv` holds of `before` in turn needs the refinement,
so the two are proved in one induction.

`StoreInv` joins `TabsAreTables`, `SuccessIsCurrent` and `ColumnsOfSelection`, which speak
of the engine only while all its tables have plain names, with what makes them inductive.
The difficult step is back to such an engine, by `dropTable` of the last other table: it
reads the list again, and the list is then right. `TabsNamed` says that whatever the tabs
and the selection were made of meanwhile, they are names. `EngineOK` says that tables
have names, pages and schemas of the right kinds, `NothingSelected` that the panels of
what is not selected are empty. The lemmas are one per kind of step: with a refresh, with
an exception, reading, selecting, creating, dropping. The engine's configuration is
inductive by itself, from `AlwaysLegal` and `LegalStays`.

`SequenceLemmas` states what the operators of the community modules used here
(`RemoveAt`, `RemoveFirst`, `Front`, `ToSet`, `IsInjective`, `FlattenSeq`, `FoldFunction`)
do to sequences, most of them without repetitions. What a recursive function computes is
proved there and in the other modules in two steps, without induction over data: that a
function with the defining equation exists, since a least number up to which there is none
would have a predecessor; and of that function, by a least counterexample again.

**Model-checked only.** The four properties of `RowPath`. Out of the prover's reach, and therefore with TLC: liveness (`CallsEnd`), the
RECURSIVE operators of the parsers that `RowPath` is made of, and anything about `ENABLED`.

## 7. What is not modelled

* Row ids on pages that are not in use, outside `FreedRowIds`: that module has tables
  without rows, and of `get` and `delete` only the fetch and the unpin. What a row read
  from the left-over bytes of a freed page is decoded to is not modelled.
* Row ids whose page is beyond the disk: `fetch_page` indexes the disk's bytes out of
  range and panics, and the engine's object stays borrowed.
* A panic in `decode_tuple` of a tuple of another table with other columns: all tables
  of `StorageEngine` and `TableHeap` have the same columns.
* Blob columns and the maximal length of a column in `RowPath` (the length is stored and
  never used; the spilling of Blobs is in `StorageEngine`), white space between JSON
  tokens, which `JSON.stringify` does not write, and the texts of errors.
* The binary formats of the snapshots and the parsers of them: output, and input that
  only this output can be. The statistics counters that they show.
* In the frontend store: the copy of the buffer pool, the selected slot and cell, the
  texts of the status line, the loading of the WASM module, and the parsing of CSV files.
* The components (drawing and forms), and the generated bindings.

## 8. Plan

Done, in this order: `DiskManager`, `LruReplacer` with `LruPolicy`, `BufferPool`,
`PoolClients` with `PageStore`, `TuplePage`, `SlottedPage`, `StorageEngine` with
`TableStore`, and proofs of the first three; then `StorageEngine` with row ids of any table,
`TableHeap`, `TupleCodec`, `JsonText`, `SchemaText` and `RowPath`, `EngineConfig`,
`FrontendStore`, and proofs of the last two and of `PoolClients`.

Proofs since then: `SlottedPage` with its refinement to `TuplePage`, and `StorageEngine`
with its chains, its row counts and its refinement to `TableStore`; `TableHeap`, with what
it answers and its refinement to `StorageEngine`. Then `FreedRowIds`, names that are not
plain in `FrontendStore`, and braces in the names of `RowPath`.

Left, models: tables with different columns under foreign row ids, and the copy of the
buffer pool in the frontend store.
