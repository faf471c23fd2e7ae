--------------------------- MODULE StorageEngine ---------------------------
(***************************************************************************)
(* The storage engine of wasm-engine/src/lib.rs with its table heaps       *)
(* (storage/table.rs) and overflow chains (storage/overflow.rs), over the  *)
(* buffer pool as PageStore describes it.  A call of the engine makes many *)
(* calls of the pool, but nothing runs between them, so each call is one   *)
(* action for each way it can end.  The pins left over from earlier calls  *)
(* decide where it fails; no other pin outlives a call.                    *)
(*                                                                         *)
(* A column is its type and its data, a sequence; where its bytes lie in   *)
(* the tuple is left out. Next is for callers that name rows by ids on     *)
(* pages of the table they name; NextInUse for those that name any id on a *)
(* page in use. Users who type ids can also name a page that is not in     *)
(* use, and the inspector can fetch one: then the pool is no PageStore any *)
(* more, and what follows does not apply (see FreedRowIds). All tables     *)
(* have the same columns.                                                  *)
(***************************************************************************)
EXTENDS Integers, FiniteSets, SequencesExt

CONSTANTS
    Pages, PoolSize,    \* the page ids of the disk; the frames of the pool
    TableNames, Rows,   \* the names and the rows users pick
    PageRoom,           \* the bytes of a page behind its header
    SlotSize,           \* SLOT_SIZE
    PointerSize,        \* OverflowPointer::SIZE
    Threshold,          \* overflow_threshold: longer data is spilled
    Capacity,           \* overflow_payload_capacity: the data of one page
    NoPage,             \* INVALID_PAGE
    Absent,             \* stands for a table that does not exist
    Tombstone,          \* stands for a deleted tuple
    CountModulus,       \* row_count is a u32: 2^32, less in the model
    MaxPins             \* bound of the model on the pins of one page

VARIABLES
    live, page, pins,   \* the page store: allocated pages, contents, pins
    tables              \* each table's first page and row count, or Absent

vars == <<live, page, pins, tables>>

(* A column of a row, and one of a tuple whose data lies on other pages. *)
Column == [type : STRING, data : Seq(Nat)]
PointerColumn == [type : STRING, pointer : Pages]

ASSUME EngineAssumption ==
    /\ IsFiniteSet(Pages)
    /\ NoPage \notin Pages
    /\ PageRoom \in Nat /\ PointerSize \in Nat /\ Threshold \in Nat
    /\ SlotSize \in Nat \ {0} /\ Capacity \in Nat \ {0}
    /\ CountModulus \in Nat \ {0} /\ MaxPins \in Nat \ {0}
    /\ Rows \subseteq Seq(Column)
    /\ Tombstone \notin Seq(Column \cup PointerColumn)
    /\ Absent \notin [first : Pages, row_count : Nat]

INSTANCE TuplePage

Unused == Pages \ live
Pinned == {p \in Pages : pins[p] > 0}
Full == Cardinality(Pinned) >= PoolSize
CanFetch(p) == p \in Pinned \/ ~Full
Existing == {t \in TableNames : tables[t] # Absent}

NewDataPage == EmptyPage(PageRoom, NoPage)

Links == [p \in live |-> page[p].next]

(***************************************************************************)
(* The pages from p on, as the links go, a freed one included; longer than *)
(* Pages if they loop.  upto[n] has the chains of n links.                 *)
(***************************************************************************)
ChainFrom(next, p) ==
    LET upto[n \in 0 .. Cardinality(Pages)] ==
            [q \in DOMAIN next |->
                IF n = 0 \/ next[q] = NoPage THEN <<q>>
                ELSE IF next[q] \in DOMAIN next THEN <<q>> \o upto[n - 1][next[q]]
                ELSE <<q, next[q]>>]
    IN  upto[Cardinality(Pages)][p]

Chain(p) == ChainFrom(Links, p)

TableChain(t) == Chain(tables[t].first)

TablePages(t) == ToSet(TableChain(t))

-----------------------------------------------------------------------------

(* encode_tuple_with_overflow: the columns whose data goes to other pages. *)
Spilled(row) == {c \in DOMAIN row : Len(row[c].data) > Threshold}

ChunksOf(column) == (Len(column.data) + Capacity - 1) \div Capacity

Chunk(column, i) ==
    SubSeq(column.data, (i - 1) * Capacity + 1,
           IF i = ChunksOf(column) THEN Len(column.data) ELSE i * Capacity)

(* The overflow pages of a row in the order write_overflow fills them. *)
Pieces(row) ==
    FlattenSeq([c \in DOMAIN row |->
        [i \in 1 .. IF c \in Spilled(row) THEN ChunksOf(row[c]) ELSE 0 |->
            [column |-> c, chunk |-> Chunk(row[c], i)]]])

(* Mutants of OverflowPages: pages are not linked, or across columns too. *)
OverflowUnlinked(row, ps) ==
    [p \in ToSet(ps) |->
        LET i == CHOOSE i \in DOMAIN ps : ps[i] = p
        IN  [chunk |-> Pieces(row)[i].chunk, next |-> NoPage]]

OverflowRunsOn(row, ps) ==
    [p \in ToSet(ps) |->
        LET i == CHOOSE i \in DOMAIN ps : ps[i] = p
        IN  [chunk |-> Pieces(row)[i].chunk,
             next |-> IF i < Len(ps) THEN ps[i + 1] ELSE NoPage]]

(* write_overflow of the first pieces of a row to the pages ps. *)
OverflowPages(row, ps) ==
    LET pieces == Pieces(row)
        Linked(i) == i < Len(ps) /\ pieces[i + 1].column = pieces[i].column
    IN  [p \in ToSet(ps) |->
            LET i == CHOOSE i \in DOMAIN ps : ps[i] = p
            IN  [chunk |-> pieces[i].chunk,
                 next |-> IF Linked(i) THEN ps[i + 1] ELSE NoPage]]

(* The tuple with its overflow pointers patched in. *)
Encoded(row, ps) ==
    [c \in DOMAIN row |->
        IF c \in Spilled(row)
        THEN [type |-> row[c].type,
              pointer |-> ps[SelectInSeq(Pieces(row), LAMBDA x : x.column = c)]]
        ELSE row[c]]

(* Its length; the one stands for the null bitmap and the data lengths. *)
TupleSize(row) ==
    FoldFunction(LAMBDA n, size : n + size, 1,
        [c \in DOMAIN row |->
            IF c \in Spilled(row) THEN PointerSize ELSE Len(row[c].data)])

(* read_overflow *)
ReadOverflow(p) ==
    LET chain == Chain(p) IN
    FlattenSeq([i \in DOMAIN chain |-> page[chain[i]].chunk])

(***************************************************************************)
(* is_overflow_placeholder: decode_tuple returns a pointer as a Blob value *)
(* in either type of column, but it counts as a pointer only in a VarChar  *)
(* column.                                                                 *)
(***************************************************************************)
IsPlaceholder(column) == column.type = "VarChar" /\ "pointer" \in DOMAIN column

(* The row get and scan make of a tuple. *)
Resolved(tuple) ==
    [c \in DOMAIN tuple |->
        IF IsPlaceholder(tuple[c])
        THEN [type |-> "VarChar", data |-> ReadOverflow(tuple[c].pointer)]
        ELSE tuple[c]]

-----------------------------------------------------------------------------

Init ==
    /\ live = {}
    /\ page = [p \in {} |-> NewDataPage]
    /\ pins = [p \in Pages |-> 0]
    /\ tables = [t \in TableNames |-> Absent]

(* The new contents, and the old ones of the pages without a new one. *)
Over(new, old) ==
    [p \in DOMAIN new \cup DOMAIN old |-> IF p \in DOMAIN new THEN new[p] ELSE old[p]]

Only(p, content) == [q \in {p} |-> content]

WithPages(contents) == Over(contents, page)

(* new_page with every frame pinned: a page of zeros is used up for nothing. *)
WastePage ==
    \E p \in Unused :
        /\ live' = live \cup {p}
        /\ page' = WithPages(Only(p, EmptyPage(0, NoPage)))
        /\ UNCHANGED <<pins, tables>>

CreateTable(t) ==
    /\ ~Full
    /\ \E p \in Unused :
        /\ live' = live \cup {p}
        /\ page' = WithPages(Only(p, NewDataPage))
        /\ tables' = [tables EXCEPT ![t] = [first |-> p, row_count |-> 0]]
        /\ UNCHANGED pins

CreateTableFails ==
    /\ Full
    /\ WastePage

(***************************************************************************)
(* drop_table deletes the pages page_ids could list, which stops behind    *)
(* the first page it cannot fetch.  delete_page refuses the pinned ones.   *)
(***************************************************************************)
Listed(t) ==
    LET chain == TableChain(t) IN
    {chain[i] : i \in {j \in DOMAIN chain : \A k \in 1 .. j - 1 : CanFetch(chain[k])}}

(* Mutant of DropTable: pinned pages are deleted too. *)
DropTablePinned(t) ==
    LET kept == live \ Listed(t) IN
    /\ live' = kept
    /\ page' = [p \in kept |-> page[p]]
    /\ tables' = [tables EXCEPT ![t] = Absent]
    /\ UNCHANGED pins

DropTable(t) ==
    LET kept == live \ (Listed(t) \ Pinned) IN
    /\ live' = kept
    /\ page' = [p \in kept |-> page[p]]
    /\ tables' = [tables EXCEPT ![t] = Absent]
    /\ UNCHANGED pins

-----------------------------------------------------------------------------

(***************************************************************************)
(* insert looks for the first page with room for the tuple and a new slot, *)
(* fetching every page on the way.  (The head of table.rs speaks of the    *)
(* last page with enough free space.)                                      *)
(***************************************************************************)
Target(t, row) ==
    LET needed == TupleSize(row) + SlotSize
    IN  SelectInSeq(TableChain(t), LAMBDA p : page[p].room >= needed)

HasTarget(t, row) == Target(t, row) # 0

ReachesPage(t, row) ==
    LET chain == TableChain(t)
        target == Target(t, row)
        end == IF target # 0 THEN target ELSE Len(chain)
    IN  \A i \in 1 .. end : CanFetch(chain[i])

PagesNeeded(t, row) == Len(Pieces(row)) + IF HasTarget(t, row) THEN 0 ELSE 1

Allocations(n) == {ps \in [1 .. n -> Unused] : IsInjective(ps)}

(* Mutant of Counted: the count is not kept. *)
Uncounted(t) == UNCHANGED tables

Counted(t) == tables' = [tables EXCEPT ![t].row_count = (@ + 1) % CountModulus]

InsertHere(t, row) ==
    /\ HasTarget(t, row)
    /\ ReachesPage(t, row)
    /\ Pieces(row) # << >> => ~Full
    /\ \E ps \in Allocations(Len(Pieces(row))) :
        LET p == TableChain(t)[Target(t, row)] IN
        /\ live' = live \cup ToSet(ps)
        /\ page' = [WithPages(OverflowPages(row, ps)) EXCEPT
                        ![p] = Inserted(@, Encoded(row, ps), TupleSize(row))]
        /\ Counted(t)
        /\ UNCHANGED pins

(***************************************************************************)
(* No page has room: insert allocates one, links the last page to it and   *)
(* puts the tuple there.  The new page is pinned while the last page is    *)
(* fetched.  When that fails, or when the tuple does not even fit an empty *)
(* page, insert returns None and leaves the new page pinned.               *)
(***************************************************************************)
CanLink(t) ==
    \/ Last(TableChain(t)) \in Pinned
    \/ Cardinality(Pinned) + 1 < PoolSize

FitsEmptyPage(row) == CanInsert(NewDataPage, TupleSize(row))

InsertOnNewPage(t, row) ==
    LET last == Last(TableChain(t)) IN
    /\ ~HasTarget(t, row)
    /\ ~Full
    /\ \E ps \in Allocations(Len(Pieces(row))) : \E p \in Unused \ ToSet(ps) :
        LET written == WithPages(Over(OverflowPages(row, ps), Only(p, NewDataPage)))
            linked == [written EXCEPT ![last].next = p]
            stored == [linked EXCEPT
                           ![p] = Inserted(@, Encoded(row, ps), TupleSize(row))]
        IN
        /\ live' = live \cup ToSet(ps) \cup {p}
        /\ \/ /\ CanLink(t) /\ FitsEmptyPage(row)
              /\ page' = stored
              /\ Counted(t)
              /\ UNCHANGED pins
           \/ /\ ~(CanLink(t) /\ FitsEmptyPage(row))
              /\ page' = IF CanLink(t) THEN linked ELSE written
              /\ pins' = [pins EXCEPT ![p] = 1]
              /\ UNCHANGED tables

(* Every frame is pinned, and the insertion needs a new page. *)
InsertFindsNoFrame(t, row) ==
    /\ Full
    /\ Pieces(row) # << >> \/ (~HasTarget(t, row) /\ ReachesPage(t, row))
    /\ WastePage

(* The disk fills up: the overflow pages written by then stay allocated. *)
InsertFindsNoPage(t, row) ==
    LET unused == Cardinality(Unused)
        pieces == Len(Pieces(row))
    IN
    /\ ~Full
    /\ unused < PagesNeeded(t, row)
    /\ \E ps \in Allocations(IF unused < pieces THEN unused ELSE pieces) :
        /\ live' = live \cup ToSet(ps)
        /\ page' = WithPages(OverflowPages(row, ps))
    /\ UNCHANGED <<pins, tables>>

Insert(t, row) ==
    \/ InsertHere(t, row)
    \/ InsertOnNewPage(t, row)
    \/ InsertFindsNoFrame(t, row)
    \/ InsertFindsNoPage(t, row)

-----------------------------------------------------------------------------

(* delete_overflow for every pointer in the tuple, unless no page can be fetched. *)
FreedWith(tuple) ==
    UNION {{p \in ToSet(Chain(tuple[c].pointer)) : CanFetch(p)} \ Pinned :
               c \in {d \in DOMAIN tuple : IsPlaceholder(tuple[d])}}

Delete(t, p, s) ==
    LET kept == live \ FreedWith(page[p].slots[s]) IN
    /\ CanFetch(p)
    /\ live' = kept
    /\ page' = [[q \in kept |-> page[q]] EXCEPT ![p] = Deleted(@, s)]
    /\ tables' = [tables EXCEPT ![t].row_count = (@ - 1) % CountModulus]
    /\ UNCHANGED pins

(* get of a slot without a tuple returns before it unpins the page. *)
GetNothing(p) ==
    /\ CanFetch(p)
    /\ pins[p] < MaxPins
    /\ pins' = [pins EXCEPT ![p] = @ + 1]
    /\ UNCHANGED <<live, page, tables>>

Next ==
    \/ \E t \in TableNames \ Existing : CreateTable(t) \/ CreateTableFails
    \/ \E t \in Existing :
        \/ DropTable(t)
        \/ \E row \in Rows : Insert(t, row)
        \/ \E p \in TablePages(t) :
            \/ GetNothing(p)
            \/ \E s \in LiveSlots(page[p]) : Delete(t, p, s)

Spec == Init /\ [][Next]_vars

(***************************************************************************)
(* delete and get do not ask whose page the id is on: a row of another     *)
(* table, or one left on a page of a dropped table, is deleted and counted *)
(* off the table named. Overflow pages and pages of zeros have no slots.   *)
(* The ids here are those on pages in use; FreedRowIds has the others.     *)
(***************************************************************************)
IsDataPage(p) == "slots" \in DOMAIN page[p]

HasTuple(p, s) == IsDataPage(p) /\ s \in LiveSlots(page[p])

NextInUse ==
    \/ Next
    \/ \E t \in Existing : \E p \in live \ TablePages(t) :
        \/ GetNothing(p)
        \/ /\ IsDataPage(p)
           /\ \E s \in LiveSlots(page[p]) : Delete(t, p, s)

SpecInUse == Init /\ [][NextInUse]_vars

-----------------------------------------------------------------------------

(* Pages that are allocated have contents, and only those are pinned, as   *)
(* long as row ids name pages in use.                                      *)
TypeOK ==
    /\ live \in SUBSET Pages
    /\ DOMAIN page = live
    /\ pins \in [Pages -> 0 .. MaxPins]
    /\ Pinned \subseteq live
    /\ \A t \in Existing : tables[t].row_count \in Nat

(* The ids scan lists: every page of the table and every live slot. *)
Tuples(t) ==
    UNION {{<<p, s>> : s \in LiveSlots(page[p])} : p \in TablePages(t)}

TupleAt(id) == page[id[1]].slots[id[2]]

(* Every reference to a chain: from the table, and from each pointer. *)
References(t) ==
    {<<t, tables[t].first>>} \cup
    UNION {{<<id, c, TupleAt(id)[c].pointer>> :
                c \in {d \in DOMAIN TupleAt(id) : "pointer" \in DOMAIN TupleAt(id)[d]}} :
           id \in Tuples(t)}

AllReferences == UNION {References(t) : t \in Existing}

(***************************************************************************)
(* Each chain ends, runs through allocated pages only, and shares no page  *)
(* with another chain: no page has two owners, and walking a table or an   *)
(* overflow value terminates, whichever calls failed half-way, as long as  *)
(* row ids name pages in use.                                              *)
(***************************************************************************)
ChainsSound ==
    /\ \A r \in AllReferences :
        /\ IsInjective(Chain(Last(r)))
        /\ ToSet(Chain(Last(r))) \subseteq live
    /\ \A r, q \in AllReferences :
        r # q => ToSet(Chain(Last(r))) \cap ToSet(Chain(Last(q))) = {}

(***************************************************************************)
(* row_count is the number of live tuples, also after insertions that      *)
(* failed, as long as row ids name pages of the table they are used with   *)
(* (Spec).                                                                 *)
(***************************************************************************)
RowCountExact ==
    \A t \in Existing : tables[t].row_count = Cardinality(Tuples(t))

Store == INSTANCE TableStore WITH
    names <- Existing,
    rows <- UNION {{[table |-> t, id |-> id, row |-> Resolved(TupleAt(id))] :
                        id \in Tuples(t)} : t \in Existing}

(***************************************************************************)
(* The rows of a table are exactly those inserted into it and not deleted, *)
(* each under the id it was given and with the data it had; a call that    *)
(* fails on a full disk, a full pool or a row that is too large changes no *)
(* row of any table, as long as row ids name pages in use.                 *)
(***************************************************************************)
ImplementsTableStore == Store!Spec

(***************************************************************************)
(* "Resolve overflow pointers" (get): the row a user gets holds the data   *)
(* of each column and never the pointer to it.                             *)
(***************************************************************************)
PointersResolved ==
    \A t \in Existing : \A id \in Tuples(t) :
        \A c \in DOMAIN TupleAt(id) : "data" \in DOMAIN Resolved(TupleAt(id))[c]

=============================================================================
