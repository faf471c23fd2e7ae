----------------------------- MODULE TableHeap -----------------------------
(***************************************************************************)
(* The methods of the table heap (storage/table.rs), of the overflow       *)
(* chains (storage/overflow.rs) and of the engine's drop_table, call of    *)
(* the pool by call of the pool. A step makes one such call, with the      *)
(* straight-line code around it, or reads or writes the frame it holds and *)
(* gives it back. StorageEngine has each method as one action; its         *)
(* variables are the store here, and its NextInUse is what a whole call    *)
(* must amount to.                                                         *)
(*                                                                         *)
(* One call runs at a time, on the one thread; the user starts the calls.  *)
(* The pool is taken at its promise, PageStore, which it keeps only while  *)
(* no page is fetched that is not in use. So the row ids that get and      *)
(* delete are called with are those on pages in use; FreedRowIds has the   *)
(* other ones, and the inspector is left out.                              *)
(***************************************************************************)
EXTENDS StorageEngine

CONSTANT LengthModulus      \* the length of a tuple is a u16: 2^16, less in the model

VARIABLES
    unused,     \* the free pages, in the order allocate_page gives them out
    call,       \* the running call: where it is (at), and its local variables
    before      \* the store when the call started; Absent between calls

ASSUME HeapAssumption ==
    /\ Pages \subseteq Nat
    /\ PoolSize \in Nat /\ LengthModulus \in Nat \ {0}

heapVars == <<live, page, pins, tables, unused, call, before>>

Goto(at) == call' = [call EXCEPT !.at = at]

Idle == [at |-> "idle"]

Return == call' = Idle

(* Pages are given out, and slots and columns visited, in ascending order. *)
Ascending(S) ==
    CHOOSE s \in SetToSeqs(S) : \A i, j \in DOMAIN s : i < j => s[i] < s[j]

-----------------------------------------------------------------------------

(* new_page: the next page, pinned and initialized, to go on with, or None. *)
NextPage == Head(unused)

NewPage(found) ==
    IF unused = << >>
    THEN Return /\ UNCHANGED <<live, page, pins, unused>>
    ELSE LET p == NextPage IN
         /\ unused' = Tail(unused)
         /\ live' = live \cup {p}
         /\ page' = WithPages(Only(p, IF Full THEN EmptyPage(0, NoPage) ELSE NewDataPage))
         /\ pins' = [pins EXCEPT ![p] = IF Full THEN 0 ELSE 1]
         /\ call' = IF Full THEN Idle ELSE found

(* fetch_page, and where the method goes on with a frame and without one. *)
Fetch(p, found, notFound) ==
    /\ call' = IF CanFetch(p) THEN found ELSE notFound
    /\ pins' = IF CanFetch(p) THEN [pins EXCEPT ![p] = @ + 1] ELSE pins
    /\ UNCHANGED <<live, page, tables, unused>>

Unpin(p) == pins' = [pins EXCEPT ![p] = @ - 1]

(* Mutant of DeletePage: pinned pages are deleted too. *)
DeletePageAlways(p) ==
    /\ live' = live \ {p}
    /\ page' = [q \in live \ {p} |-> page[q]]
    /\ unused' = <<p>> \o unused

(* delete_page refuses a page in use; a freed one is the next given out. *)
DeletePage(p) ==
    IF p \in Pinned
    THEN UNCHANGED <<live, page, unused>>
    ELSE /\ live' = live \ {p}
         /\ page' = [q \in live \ {p} |-> page[q]]
         /\ unused' = <<p>> \o unused

-----------------------------------------------------------------------------

(* TableHeap::create *)
StartCreate(t) == call' = [op |-> "create", at |-> "new", table |-> t]

CreateNew ==
    /\ call.at = "new"
    /\ NewPage([op |-> "create", at |-> "made", table |-> call.table, cur |-> NextPage])
    /\ UNCHANGED tables

CreateUnpin ==
    /\ call.at = "made"
    /\ Unpin(call.cur)
    /\ tables' = [tables EXCEPT ![call.table] = [first |-> call.cur, row_count |-> 0]]
    /\ Return
    /\ UNCHANGED <<live, page, unused>>

(* drop_table: the table goes first, then page_ids, then the pages. *)
StartDrop(t) ==
    /\ call' = [op |-> "drop", at |-> "list", table |-> t, cur |-> tables[t].first,
                ids |-> << >>]
    /\ tables' = [tables EXCEPT ![t] = Absent]

ListFetch ==
    /\ call.at = "list"
    /\ LET listed == [call EXCEPT !.ids = Append(@, call.cur)] IN
       Fetch(call.cur, [listed EXCEPT !.at = "listed"], [listed EXCEPT !.at = "drop"])

ListNext ==
    LET next == page[call.cur].next IN
    /\ call.at = "listed"
    /\ Unpin(call.cur)
    /\ call' = [call EXCEPT !.at = IF next = NoPage THEN "drop" ELSE "list",
                            !.cur = next]
    /\ UNCHANGED <<live, page, tables, unused>>

DropPage ==
    /\ call.at = "drop"
    /\ DeletePage(Head(call.ids))
    /\ IF Len(call.ids) = 1 THEN Return ELSE call' = [call EXCEPT !.ids = Tail(@)]
    /\ UNCHANGED <<pins, tables>>

-----------------------------------------------------------------------------

(* write_overflow, once for each column that is spilled. *)

(* What insert does after the pieces it has written. *)
AfterPieces(n) ==
    [call EXCEPT !.at = IF n < Len(Pieces(call.row)) THEN "spill" ELSE "search",
                 !.cur = tables[call.table].first]

StartInsert(t, row) ==
    call' = [op |-> "insert", at |-> IF Pieces(row) = << >> THEN "search" ELSE "spill",
             table |-> t, row |-> row, ps |-> << >>, cur |-> tables[t].first,
             new |-> NoPage]

SpillNew ==
    /\ call.at = "spill"
    /\ NewPage([call EXCEPT !.at = "fill", !.cur = NextPage])
    /\ UNCHANGED tables

SpillFill ==
    LET pieces == Pieces(call.row)
        i == Len(call.ps) + 1
        linked == i > 1 /\ pieces[i - 1].column = pieces[i].column
    IN
    /\ call.at = "fill"
    /\ page' = [page EXCEPT ![call.cur] = [chunk |-> pieces[i].chunk, next |-> NoPage]]
    /\ Unpin(call.cur)
    /\ call' = [(IF linked THEN [call EXCEPT !.at = "chain"] ELSE AfterPieces(i))
                    EXCEPT !.ps = Append(call.ps, call.cur)]
    /\ UNCHANGED <<live, tables, unused>>

Previous == call.ps[Len(call.ps) - 1]

ChainFetch ==
    /\ call.at = "chain"
    /\ Fetch(Previous, [call EXCEPT !.at = "chained"], Idle)

Chained ==
    /\ call.at = "chained"
    /\ page' = [page EXCEPT ![Previous].next = Last(call.ps)]
    /\ Unpin(Previous)
    /\ call' = AfterPieces(Len(call.ps))
    /\ UNCHANGED <<live, tables, unused>>

-----------------------------------------------------------------------------

(***************************************************************************)
(* insert_tuple on the page p, and what insert does without a slot.  The   *)
(* length is cut to a u16 before the room is compared; the copy of a tuple *)
(* with another length panics.  A panic stops the engine for good: its     *)
(* object stays borrowed, and no later call gets in.                       *)
(***************************************************************************)
CutLength(row) == TupleSize(row) % LengthModulus

InsertTuple(p, noSlot) ==
    LET size == TupleSize(call.row)
        fits == CanInsert(page[p], CutLength(call.row))
        whole == size = CutLength(call.row)
    IN
    /\ IF fits /\ whole
       THEN /\ page' = [page EXCEPT ![p] = Inserted(@, Encoded(call.row, call.ps), size)]
            /\ Unpin(p)
            /\ Counted(call.table)
       ELSE UNCHANGED <<page, pins, tables>>
    /\ call' = IF ~fits THEN noSlot
               ELSE IF whole THEN Idle ELSE [call EXCEPT !.at = "trapped"]
    /\ UNCHANGED <<live, unused>>

(* Mutant of Needed: the slot is forgotten. *)
NeededWithoutSlot(row) == TupleSize(row)

Needed(row) == TupleSize(row) + SlotSize

SearchFetch ==
    /\ call.at = "search"
    /\ Fetch(call.cur, [call EXCEPT !.at = "look"], Idle)

(* The page has room, so insert expects insert_tuple to succeed. *)
SearchHit ==
    /\ call.at = "look"
    /\ page[call.cur].room >= Needed(call.row)
    /\ InsertTuple(call.cur, [call EXCEPT !.at = "trapped"])

(* Mutant of SearchMiss: the search stays on the page. *)
SearchMissStays ==
    /\ call.at = "look"
    /\ page[call.cur].room < Needed(call.row)
    /\ Unpin(call.cur)
    /\ Goto(IF page[call.cur].next = NoPage THEN "extend" ELSE "search")
    /\ UNCHANGED <<live, page, tables, unused>>

SearchMiss ==
    LET next == page[call.cur].next IN
    /\ call.at = "look"
    /\ page[call.cur].room < Needed(call.row)
    /\ Unpin(call.cur)
    /\ call' = IF next = NoPage THEN [call EXCEPT !.at = "extend"]
               ELSE [call EXCEPT !.at = "search", !.cur = next]
    /\ UNCHANGED <<live, page, tables, unused>>

(* No page has room: a new one, linked behind the last one. *)
ExtendNew ==
    /\ call.at = "extend"
    /\ NewPage([call EXCEPT !.at = "join", !.new = NextPage])
    /\ UNCHANGED tables

JoinFetch ==
    /\ call.at = "join"
    /\ Fetch(call.cur, [call EXCEPT !.at = "joined"], Idle)

(* Mutant of Joined: the link goes the wrong way. *)
JoinedBackwards ==
    /\ call.at = "joined"
    /\ page' = [page EXCEPT ![call.new].next = call.cur]
    /\ Unpin(call.cur)
    /\ Goto("store")
    /\ UNCHANGED <<live, tables, unused>>

Joined ==
    /\ call.at = "joined"
    /\ page' = [page EXCEPT ![call.cur].next = call.new]
    /\ Unpin(call.cur)
    /\ Goto("store")
    /\ UNCHANGED <<live, tables, unused>>

(* A tuple that does not fit leaves insert without the page being unpinned. *)
StoreInNew ==
    /\ call.at = "store"
    /\ InsertTuple(call.new, Idle)

-----------------------------------------------------------------------------

(***************************************************************************)
(* A caller may name any slot of any page in use, of the table named or    *)
(* not, and also one without a tuple.                                      *)
(***************************************************************************)
SlotChoices(p) == IF IsDataPage(p) THEN 1 .. Len(page[p].slots) + 1 ELSE {1}

(* The columns of a tuple that hold a pointer and are known to, in order. *)
Placeholders(tuple) ==
    Ascending({c \in DOMAIN tuple : IsPlaceholder(tuple[c])})

(* TableHeap::delete *)
StartDelete(t, p, s) ==
    call' = [op |-> "delete", at |-> "tuple", table |-> t, id |-> <<p, s>>, todo |-> << >>,
             cur |-> NoPage, next |-> NoPage]

(* The next pointer to free, or the tuple itself. *)
DeleteRest(pointers) ==
    [call EXCEPT !.todo = pointers,
                 !.at = IF pointers = << >> THEN "remove" ELSE "release"]

DeleteFetch ==
    LET tuple == TupleAt(call.id)
        columns == IF HasTuple(call.id[1], call.id[2])
                   THEN Placeholders(tuple) ELSE << >>
    IN
    /\ call.at = "tuple"
    /\ Fetch(call.id[1],
             DeleteRest([i \in DOMAIN columns |-> tuple[columns[i]].pointer]),
             Idle)

(* The row's page is given back while its chains are freed. *)
Release ==
    /\ call.at = "release"
    /\ Unpin(call.id[1])
    /\ call' = [call EXCEPT !.at = "free", !.cur = Head(call.todo)]
    /\ UNCHANGED <<live, page, tables, unused>>

FreeFetch ==
    /\ call.at = "free"
    /\ Fetch(call.cur, [call EXCEPT !.at = "freeing"], [call EXCEPT !.at = "refetch"])

FreeUnpin ==
    /\ call.at = "freeing"
    /\ Unpin(call.cur)
    /\ call' = [call EXCEPT !.at = "erase", !.next = page[call.cur].next]
    /\ UNCHANGED <<live, page, tables, unused>>

Erase ==
    /\ call.at = "erase"
    /\ DeletePage(call.cur)
    /\ call' = [call EXCEPT !.at = IF call.next = NoPage THEN "refetch" ELSE "free",
                            !.cur = call.next]
    /\ UNCHANGED <<pins, tables>>

Refetch ==
    /\ call.at = "refetch"
    /\ Fetch(call.id[1], DeleteRest(Tail(call.todo)), Idle)

RemoveTuple ==
    LET p == call.id[1]
        ok == HasTuple(p, call.id[2])
    IN
    /\ call.at = "remove"
    /\ page' = IF ok THEN [page EXCEPT ![p] = Deleted(@, call.id[2])] ELSE page
    /\ tables' = IF ok THEN [tables EXCEPT ![call.table].row_count =
                                               (@ - 1) % CountModulus]
                 ELSE tables
    /\ Unpin(p)
    /\ Return
    /\ UNCHANGED <<live, unused>>

-----------------------------------------------------------------------------

(***************************************************************************)
(* get and scan collect tuples, then read the chains of the placeholders   *)
(* one after another.  A placeholder is named by its row in the answer and *)
(* its column; the rest of call.todo is still to be read.                  *)
(***************************************************************************)
StartRead(op, t, p, s) ==
    call' = [op |-> op, at |-> IF op = "get" THEN "row" ELSE "scan", table |-> t,
             id |-> <<p, s>>, rows |-> << >>, todo |-> << >>, cur |-> p, data |-> << >>]

(* The read of the next placeholder with nothing read of it yet. *)
ReadRest(todo, rows) ==
    LET c == [call EXCEPT !.todo = todo, !.rows = rows, !.data = << >>] IN
    IF todo = << >> THEN [c EXCEPT !.at = "answer"]
    ELSE [c EXCEPT !.at = "read",
                   !.cur = rows[todo[1].row].tuple[todo[1].column].pointer]

Resolving(rows) ==
    ReadRest(FlattenSeq([i \in DOMAIN rows |->
                 [j \in DOMAIN Placeholders(rows[i].tuple) |->
                     [row |-> i, column |-> Placeholders(rows[i].tuple)[j]]]]),
             rows)

TupleWithId(p, s) == [id |-> <<p, s>>, tuple |-> page[p].slots[s]]

GetFetch ==
    /\ call.at = "row"
    /\ Fetch(call.id[1], [call EXCEPT !.at = "got"], Idle)

(* A slot without a tuple: get returns, and the page stays pinned. *)
GetTuple ==
    LET p == call.id[1] IN
    /\ call.at = "got"
    /\ IF HasTuple(p, call.id[2])
       THEN Unpin(p) /\ call' = Resolving(<<TupleWithId(p, call.id[2])>>)
       ELSE UNCHANGED pins /\ Return
    /\ UNCHANGED <<live, page, tables, unused>>

ScanFetch ==
    /\ call.at = "scan"
    /\ Fetch(call.cur, [call EXCEPT !.at = "rows"], Resolving(call.rows))

RowsOnPage(p) ==
    LET slots == Ascending(LiveSlots(page[p])) IN
    [i \in DOMAIN slots |-> TupleWithId(p, slots[i])]

(* Mutant of ScanPage: a page without rows ends the scan. *)
ScanPageToEmpty ==
    LET next == page[call.cur].next
        rows == call.rows \o RowsOnPage(call.cur)
    IN
    /\ call.at = "rows"
    /\ Unpin(call.cur)
    /\ call' = IF next = NoPage \/ rows = call.rows THEN Resolving(rows)
               ELSE [call EXCEPT !.at = "scan", !.rows = rows, !.cur = next]
    /\ UNCHANGED <<live, page, tables, unused>>

ScanPage ==
    LET next == page[call.cur].next
        rows == call.rows \o RowsOnPage(call.cur)
    IN
    /\ call.at = "rows"
    /\ Unpin(call.cur)
    /\ call' = IF next = NoPage THEN Resolving(rows)
               ELSE [call EXCEPT !.at = "scan", !.rows = rows, !.cur = next]
    /\ UNCHANGED <<live, page, tables, unused>>

(* read_overflow; a page it cannot fetch leaves the placeholder as it is. *)
ReadFetch ==
    /\ call.at = "read"
    /\ Fetch(call.cur, [call EXCEPT !.at = "chunk"],
             ReadRest(Tail(call.todo), call.rows))

(* Mutant of ReadChunk: a page's bytes replace those read before. *)
ReadChunkOver ==
    LET next == page[call.cur].next
        data == page[call.cur].chunk
        value == [type |-> "VarChar", data |-> data]
        place == call.todo[1]
    IN
    /\ call.at = "chunk"
    /\ Unpin(call.cur)
    /\ call' = IF next # NoPage
               THEN [call EXCEPT !.at = "read", !.cur = next, !.data = data]
               ELSE ReadRest(Tail(call.todo),
                             [call.rows EXCEPT ![place.row].tuple[place.column] = value])
    /\ UNCHANGED <<live, page, tables, unused>>

ReadChunk ==
    LET next == page[call.cur].next
        data == call.data \o page[call.cur].chunk
        value == [type |-> "VarChar", data |-> data]
        place == call.todo[1]
    IN
    /\ call.at = "chunk"
    /\ Unpin(call.cur)
    /\ call' = IF next # NoPage
               THEN [call EXCEPT !.at = "read", !.cur = next, !.data = data]
               ELSE ReadRest(Tail(call.todo),
                             [call.rows EXCEPT ![place.row].tuple[place.column] = value])
    /\ UNCHANGED <<live, page, tables, unused>>

Answer ==
    /\ call.at = "answer"
    /\ Return
    /\ UNCHANGED <<live, page, pins, tables, unused>>

-----------------------------------------------------------------------------

HeapInit ==
    /\ Init
    /\ unused = Ascending(Pages)
    /\ call = Idle
    /\ before = Absent

Start ==
    /\ call.at = "idle"
    /\ before' = [live |-> live, page |-> page, pins |-> pins, tables |-> tables]
    /\ UNCHANGED <<live, page, pins, unused>>
    /\ \/ \E t \in Existing : StartDrop(t)
       \/ /\ UNCHANGED tables
          /\ \/ \E t \in TableNames \ Existing : StartCreate(t)
             \/ \E t \in Existing :
                 \/ \E row \in Rows : StartInsert(t, row)
                 \/ StartRead("scan", t, tables[t].first, 0)
                 \/ \E p \in live : \E s \in SlotChoices(p) :
                     \/ StartDelete(t, p, s)
                     \/ /\ HasTuple(p, s) \/ pins[p] < MaxPins
                        /\ StartRead("get", t, p, s)

Step ==
    /\ \/ CreateNew \/ CreateUnpin
       \/ ListFetch \/ ListNext \/ DropPage
       \/ SpillNew \/ SpillFill \/ ChainFetch \/ Chained
       \/ SearchFetch \/ SearchHit \/ SearchMiss
       \/ ExtendNew \/ JoinFetch \/ Joined \/ StoreInNew
       \/ DeleteFetch \/ Release \/ FreeFetch \/ FreeUnpin \/ Erase
       \/ Refetch \/ RemoveTuple
       \/ GetFetch \/ GetTuple \/ ScanFetch \/ ScanPage
       \/ ReadFetch \/ ReadChunk \/ Answer
    /\ before' = IF call'.at = "idle" THEN Absent ELSE before

(* The thread goes on with the call it is in; nobody has to start another. *)
HeapSpec ==
    HeapInit /\ [][Start \/ Step]_heapVars /\ WF_heapVars(Step)

-----------------------------------------------------------------------------

(***************************************************************************)
(* While row ids name pages in use: a page is either allocated or in line  *)
(* to be, once; only allocated pages are pinned, and a running call holds  *)
(* at most two pins of its own.                                            *)
(***************************************************************************)
HeapTypeOK ==
    /\ live = Pages \ ToSet(unused)
    /\ IsInjective(unused)
    /\ DOMAIN page = live
    /\ Pinned \subseteq live
    /\ \A p \in Pages : pins[p] \in 0 .. MaxPins + 2
    /\ IF call.at = "idle" THEN before = Absent
       ELSE DOMAIN before = {"live", "page", "pins", "tables"}

(* The store the user knows of: the one the running call found. *)
Engine == INSTANCE StorageEngine WITH
    live <- IF call.at = "idle" THEN live ELSE before.live,
    page <- IF call.at = "idle" THEN page ELSE before.page,
    pins <- IF call.at = "idle" THEN pins ELSE before.pins,
    tables <- IF call.at = "idle" THEN tables ELSE before.tables

(* The actions of StorageEngine that the running call may amount to. *)
EngineCall ==
    \/ /\ call.op = "create"
       /\ Engine!CreateTable(call.table) \/ Engine!CreateTableFails
    \/ call.op = "drop" /\ Engine!DropTable(call.table)
    \/ call.op = "insert" /\ Engine!Insert(call.table, call.row)
    \/ /\ call.op = "delete"
       /\ Engine!HasTuple(call.id[1], call.id[2])
       /\ Engine!Delete(call.table, call.id[1], call.id[2])
    \/ call.op = "get" /\ Engine!GetNothing(call.id[1])

(***************************************************************************)
(* While row ids name pages in use: however a call ends, half-way or not,  *)
(* what it leaves behind is what the action of StorageEngine for that call *)
(* makes of the store the call found: the tuples, the links, the pages     *)
(* allocated, the counts and the pins. This says what the weak places of   *)
(* the code do, leaked pins and pages among them, not that they do no      *)
(* harm. EngineCall is part of Engine!NextInUse, so this is                *)
(* Engine!SpecInUse.                                                       *)
(***************************************************************************)
ImplementsEngine ==
    Engine!Init /\ [][call'.at = "idle" /\ EngineCall]_(Engine!vars)

(***************************************************************************)
(* While row ids name pages in use, every call ends: the search of insert, *)
(* the walks of scan and page_ids and the walks along overflow chains      *)
(* reach INVALID_PAGE or a page they cannot fetch, also while the chain    *)
(* they walk is taken apart. (Behind a delete of a row id on a freed page  *)
(* a scan need not end: ScanReturns in FreedRowIds.)                       *)
(***************************************************************************)
CallsEnd == (call.at # "idle") ~> (call.at \in {"idle", "trapped"})

(***************************************************************************)
(* What get and scan answer, however full the pool, while row ids name     *)
(* pages in use: rows of the page or the table asked for, each once, and   *)
(* in each column the data of the row or, where its chain could not be     *)
(* read, still the pointer.                                                *)
(***************************************************************************)
Asked == IF call.op = "scan" THEN Tuples(call.table) ELSE {call.id}

AnswersSound ==
    call.at = "answer" =>
        /\ \A i, j \in DOMAIN call.rows :
            i # j => call.rows[i].id # call.rows[j].id
        /\ \A i \in DOMAIN call.rows :
            /\ call.rows[i].id \in Asked
            /\ \A c \in DOMAIN call.rows[i].tuple :
                call.rows[i].tuple[c] \in {TupleAt(call.rows[i].id)[c],
                                           Resolved(TupleAt(call.rows[i].id))[c]}

(* All the rows asked for, every pointer in a VarChar column resolved. *)
Complete ==
    {<<call.rows[i].id, call.rows[i].tuple>> : i \in DOMAIN call.rows} =
    {<<id, Resolved(TupleAt(id))>> : id \in Asked}

(***************************************************************************)
(* As long as the pins leave a frame free, and row ids name pages in use,  *)
(* get and scan answer completely: the frame is enough for any table and   *)
(* any chain.                                                              *)
(***************************************************************************)
AnswersComplete == call.at = "answer" /\ ~Full => Complete

(***************************************************************************)
(* "Sequential scan - returns all live rows with their RowIds." (scan)     *)
(***************************************************************************)
ScanReturnsAll == call.at = "answer" /\ call.op = "scan" => Complete

(***************************************************************************)
(* "free_space check passed but insert failed" (insert) never happens, and *)
(* only a tuple whose length does not fit a u16 makes the engine panic.    *)
(***************************************************************************)
OnlyCutLengthsTrap ==
    call.at = "trapped" => TupleSize(call.row) >= LengthModulus

=============================================================================
