-------------------------- MODULE TableHeapProofs --------------------------
(***************************************************************************)
(* The table heap, for every set of pages, rows and sizes.  The steps that *)
(* end a call, or depend on what the engine would choose, with the         *)
(* invariant of the engine for the store that the call found; a step that  *)
(* ends a call is the action of the engine for it.  With the other steps   *)
(* (TableHeapSteps): HeapInv, which is inductive, the types, the panics,   *)
(* the answers and the refinement.                                         *)
(***************************************************************************)
EXTENDS TableHeapSteps

(* The lemmas about the engine, for the store the user knows of. *)
EP == INSTANCE StorageEngineProofs WITH
    live <- IF call.at = "idle" THEN live ELSE before.live,
    page <- IF call.at = "idle" THEN page ELSE before.page,
    pins <- IF call.at = "idle" THEN pins ELSE before.pins,
    tables <- IF call.at = "idle" THEN tables ELSE before.tables

(* The assumption of the instance. *)
LEMMA SameAssumption == EP!EngineAssumption
BY EngineAssumption
   DEF EP!EngineAssumption, Column, EP!Column, PointerColumn, EP!PointerColumn,
       IsFiniteSet, EP!IsFiniteSet

(* What does not depend on the store. *)
LEMMA SameCardinality == \A S : EP!Cardinality(S) = Cardinality(S)
BY DEF EP!Cardinality, Cardinality

(* The operators without a variable mean the same in the engine of the refinement. *)
LEMMA SameFlatten == \A S : EP!FlattenSeq(S) = FlattenSeq(S)
BY DEF EP!FlattenSeq, FlattenSeq

(* The set of the entries of a sequence. *)
LEMMA SameToSet == \A S : EP!ToSet(S) = ToSet(S)
BY DEF EP!ToSet, ToSet

(* The columns of a row that go to overflow pages. *)
LEMMA SameSpilled == \A row : EP!Spilled(row) = Spilled(row)
BY DEF EP!Spilled, Spilled

(* The pieces they are cut into. *)
LEMMA SamePieces == \A row : EP!Pieces(row) = Pieces(row)
BY SameFlatten, SameSpilled
   DEF EP!Pieces, Pieces, EP!Chunk, Chunk, EP!ChunksOf, ChunksOf

(* The size of the tuple. *)
LEMMA SameSize == \A row : EP!TupleSize(row) = TupleSize(row)
BY DEF EP!Spilled, Spilled, EP!TupleSize, TupleSize, EP!FoldFunction, FoldFunction,
       EP!FoldFunctionOnSet, FoldFunctionOnSet, EP!MapThenFoldSet, MapThenFoldSet

(* The contents of the overflow pages. *)
LEMMA SameOverflow == \A row, ps : EP!OverflowPages(row, ps) = OverflowPages(row, ps)
BY SamePieces DEF EP!OverflowPages, OverflowPages, EP!ToSet, ToSet

(* A page with one more tuple. *)
LEMMA SameInserted == \A pg, t, s : EP!Inserted(pg, t, s) = Inserted(pg, t, s)
BY DEF EP!Inserted, Inserted, EP!HasTombstone, HasTombstone, EP!Tombstones, Tombstones,
       EP!FirstTombstone, FirstTombstone, EP!SlotBytes, SlotBytes

(* Whether a page has room for it. *)
LEMMA SameCanInsert == \A pg, s : EP!CanInsert(pg, s) <=> CanInsert(pg, s)
BY DEF EP!CanInsert, CanInsert, EP!HasTombstone, HasTombstone, EP!Tombstones, Tombstones,
       EP!SlotBytes, SlotBytes

(* A page with one tuple less. *)
LEMMA SameDeleted == \A pg, s : EP!Deleted(pg, s) = Deleted(pg, s)
BY DEF EP!Deleted, Deleted

(* The slots in use. *)
LEMMA SameLiveSlots == \A pg : EP!LiveSlots(pg) = LiveSlots(pg)
BY DEF EP!LiveSlots, LiveSlots

(* An empty page. *)
LEMMA SameEmptyPage ==
    EP!NewDataPage = NewDataPage /\ \A a, b : EP!EmptyPage(a, b) = EmptyPage(a, b)
BY DEF EP!NewDataPage, NewDataPage, EP!EmptyPage, EmptyPage

(* The last entry of a sequence. *)
LEMMA SameLast == \A s : EP!Last(s) = Last(s)
BY DEF EP!Last, Last

(* Sequences without repetitions. *)
LEMMA SameInjective == \A f : EP!IsInjective(f) <=> IsInjective(f)
BY DEF EP!IsInjective, IsInjective

(* The tuple with its pointers. *)
LEMMA SameEncoded == \A row, ps : EP!Encoded(row, ps) = Encoded(row, ps)
<1> TAKE row, ps
<1> DEFINE I(c) == {i \in 1 .. Len(Pieces(row)) : Pieces(row)[i].column = c}
           J(c) == {i \in 1 .. Len(EP!Pieces(row)) : EP!Pieces(row)[i].column = c}
           at(c) == IF I(c) # {} THEN Min(I(c)) ELSE 0
           atJ(c) == IF J(c) # {} THEN EP!Min(J(c)) ELSE 0
           F == [c \in DOMAIN row |->
                   IF c \in Spilled(row)
                   THEN [type |-> row[c].type, pointer |-> ps[at(c)]] ELSE row[c]]
           G == [c \in DOMAIN row |->
                   IF c \in EP!Spilled(row)
                   THEN [type |-> row[c].type, pointer |-> ps[atJ(c)]] ELSE row[c]]
<1>1. Encoded(row, ps) = F
  BY DEF Encoded, SelectInSeq
<1>2. EP!Encoded(row, ps) = G
  BY DEF EP!Encoded, EP!SelectInSeq
<1>3. \A S : EP!Min(S) = Min(S)
  BY DEF EP!Min, Min
<1>4. \A c : J(c) = I(c)
  BY SamePieces
<1> HIDE DEF I, J
<1>5. \A c : atJ(c) = at(c)
  BY <1>3, <1>4
<1> HIDE DEF at, atJ
<1>6. F = G
  BY <1>5, SameSpilled
<1> QED
  BY <1>1, <1>2, <1>6

-----------------------------------------------------------------------------

(* The store that a call found is one the engine's invariant holds of. *)

(* The store that the call found, as the substitution has it. *)
LEMMA BeforeOfEngine ==
    ASSUME call.at # "idle"
    PROVE  /\ EP!Pinned = PinnedIn(before)
           /\ EP!Full <=> FullIn(before)
           /\ \A q : EP!CanFetch(q) <=> ReachedIn(before, q)
           /\ EP!Unused = Pages \ before.live
<1>1. EP!Pinned = PinnedIn(before)
  BY DEF EP!Pinned, PinnedIn
<1>2. EP!Full <=> FullIn(before)
  BY <1>1, SameCardinality DEF EP!Full, FullIn
<1> QED
  BY <1>1, <1>2 DEF EP!CanFetch, ReachedIn, EP!Unused

(* The two modules mean the same by a sound store. *)
LEMMA SameSound ==
    ASSUME NEW f, EP!StoreSound(f)
    PROVE  StoreSound(f)
<1>1. \A p, s, c : PointerIn(f, p, s, c) <=> EP!PointerIn(f, p, s, c)
  BY SameLiveSlots DEF PointerIn, EP!PointerIn, HasTupleIn, EP!HasTupleIn, HasSlots,
                       EP!HasSlots, TupleIn, EP!TupleIn
<1>2. \A d, h : PathIn(f, d, h) <=> EP!PathIn(f, d, h)
  BY DEF PathIn, EP!PathIn
<1>3. StoreApart(f)
  BY <1>1, <1>2, SameToSet DEF EP!StoreSound, EP!StoreApart, StoreApart, TupleIn, EP!TupleIn
<1>4. StorePaths(f)
  <2>1. \A t, c : TablePath(f, t, c) <=> EP!TablePath(f, t, c)
    BY <1>2 DEF TablePath, EP!TablePath, HasSlots, EP!HasSlots
  <2>2. \A d, h : PointerPath(f, d, h) <=> EP!PointerPath(f, d, h)
    BY <1>2 DEF PointerPath, EP!PointerPath, HasSlots, EP!HasSlots
  <2> QED
    BY <1>1, <2>1, <2>2 DEF EP!StoreSound, EP!StorePaths, StorePaths, TupleIn, EP!TupleIn
<1>5. StoreShape(f)
  <2>1. PinnedIn(f) = EP!PinnedIn(f)
    BY DEF PinnedIn, EP!PinnedIn
  <2>2. TableRecords = EP!TableRecords
    BY DEF TableRecords, EP!TableRecords
  <2>3. SoundPages = EP!SoundPages
    BY DEF SoundPages, EP!SoundPages, DataPages, EP!DataPages, ChunkPages, EP!ChunkPages,
           StoredTuples, EP!StoredTuples, Columns, EP!Columns, Column, EP!Column,
           PointerColumn, EP!PointerColumn
  <2> QED
    BY <2>1, <2>2, <2>3 DEF EP!StoreSound, EP!StoreShape, StoreShape
<1> QED
  BY <1>3, <1>4, <1>5 DEF StoreSound

(* The state a call began in is a store: the invariant of the engine says so. *)
LEMMA BeforeSound ==
    ASSUME EP!EngineInv, call.at # "idle", BeforeIsAStore
    PROVE  StoreSound(before)
<1>1. PICK f : f = [live |-> before.live, page |-> before.page, pins |-> before.pins,
                    tables |-> before.tables]
  OBVIOUS
<1>2. f = before
  BY <1>1 DEF BeforeIsAStore
<1>3. EP!StoreSound(f)
  BY <1>1, SameAssumption, EP!StoreIsSound
<1> QED
  BY <1>2, <1>3, SameSound

(* The pages that the engine finds in a table are the path the code follows. *)
LEMMA TableChainBefore ==
    ASSUME EP!EngineInv, call.at # "idle", NEW t \in TableNames, NEW c, TablePath(before, t, c)
    PROVE  t \in EP!Existing /\ EP!TableChain(t) = c
<1>1. t \in EP!Existing
  BY DEF EP!Existing, TablePath
<1>2. EP!IsPath(c, before.tables[t].first)
  BY DEF TablePath, PathIn, EP!IsPath
<1>3. PICK h : h = before.tables[t].first
  OBVIOUS
<1>4. EP!TableChainsArePaths
  BY SameAssumption, EP!TableChainIsPath
<1>5. \A d : EP!IsPath(d, h) => EP!TableChain(t) = d
  BY <1>1, <1>3, <1>4 DEF EP!TableChainsArePaths
<1>6. EP!IsPath(c, h)
  BY <1>2, <1>3
<1> QED
  BY <1>1, <1>5, <1>6

(* So are the overflow pages behind a pointer. *)
LEMMA PointerChainBefore ==
    ASSUME EP!EngineInv, call.at # "idle", NEW p \in before.live, NEW s, NEW c,
           PointerIn(before, p, s, c), NEW h, h = TupleIn(before, p, s)[c].pointer,
           NEW d, PathIn(before, d, h)
    PROVE  EP!Chain(h) = d
<1>1. EP!PointerAt(p, s, c) /\ h = before.page[p].slots[s][c].pointer
  BY SameLiveSlots
  DEF PointerIn, HasTupleIn, HasSlots, TupleIn, EP!PointerAt, EP!HasTuple, EP!IsDataPage
<1>2. EP!IsPath(d, h)
  BY DEF PathIn, EP!IsPath
<1> QED
  BY <1>1, <1>2, SameAssumption, EP!PointerChainIsPath DEF EP!PointerChainsArePaths

(* The layers of changes to pages are those of the engine. *)
LEMMA SameOver ==
    (\A a, b : EP!Over(a, b) = Over(a, b)) /\ \A a, b : EP!Only(a, b) = Only(a, b)
BY DEF EP!Over, Over, EP!Only, Only

(* A call that ends as it began. *)
LEMMA NothingChanged ==
    ASSUME call.at # "idle", call'.at = "idle", StoreShape(before), Untouched, Pinning({}),
           tables = before.tables, UNCHANGED <<live, page, pins, tables>>
    PROVE  UNCHANGED EP!vars
<1>1. pins = before.pins
  <2>1. before.pins = [q \in Pages |-> before.pins[q]]
    BY DEF StoreShape
  <2> QED
    BY <2>1 DEF Pinning
<1> QED
  BY <1>1 DEF EP!vars, Untouched

(* Every frame is pinned: a page is used up, and that is all. *)
LEMMA WastedPage ==
    ASSUME HeapShape, StoreShape(before), call.at # "idle", Untouched, Pinning({}),
           tables = before.tables, UNCHANGED tables, Full,
           unused # << >>, NEW found, NewPage(found)
    PROVE  HeapShape' /\ call' = Idle /\ EP!Full /\ EP!WastePage
<1>1. Pinned \subseteq live /\ {} \in SUBSET Pages
  BY SameFetches DEF StoreShape, Untouched
<1>2. PICK p : p = NextPage
  OBVIOUS
<1>3. /\ HeapShape' /\ p \in Pages \ live /\ live' = live \cup {p}
      /\ pins' = pins /\ call' = Idle
  BY <1>1, <1>2, NewPageSound
<1>4. page' = WithPages(Only(p, EmptyPage(0, NoPage)))
  BY <1>2 DEF NewPage
<1>5. pins = before.pins
  <2>1. before.pins = [q \in Pages |-> before.pins[q]]
    BY DEF StoreShape
  <2> QED
    BY <2>1 DEF Pinning
<1>6. page' = EP!Over(EP!Only(p, EP!EmptyPage(0, NoPage)), before.page)
  BY <1>4, SameOver, SameEmptyPage DEF WithPages, Untouched
<1>7. EP!Full
  BY SameFetches, BeforeOfEngine
<1>8. EP!WastePage
  <2>1. call'.at = "idle"
    BY <1>3 DEF Idle
  <2>2. p \in EP!Unused
    BY <1>3, BeforeOfEngine DEF Untouched
  <2> QED
    BY <1>3, <1>5, <1>6, <2>1, <2>2 DEF EP!WastePage, EP!WithPages, Untouched
<1> QED
  BY <1>3, <1>7, <1>8

-----------------------------------------------------------------------------

(* The steps that end create_table and drop_table. *)

(* create gets a page, or none, or one without a frame. *)
LEMMA CreateNewStep ==
    ASSUME HeapShape, StoreSound(before), AtNew, CreateNew,
           call'.at # "idle" => before' = before
    PROVE  /\ HeapShape'
           /\ \/ AtMade'
              \/ call' = Idle /\ (EP!CreateTableFails \/ UNCHANGED EP!vars)
<1>1. PICK t \in TableNames :
        /\ call = [op |-> "create", at |-> "new", table |-> t]
        /\ before.tables[t] = Absent /\ tables = before.tables
        /\ Untouched /\ Pinning({})
  BY DEF AtNew
<1>2. PICK found : found = [op |-> "create", at |-> "made", table |-> t, cur |-> NextPage]
  OBVIOUS
<1>3. NewPage(found) /\ UNCHANGED tables /\ call.at # "idle"
  BY <1>1, <1>2 DEF CreateNew
<1>4. StoreShape(before)
  BY DEF StoreSound
<1>5. CASE unused = << >>
  <2>1. call' = Idle /\ UNCHANGED <<live, page, pins, unused>>
    BY <1>3, <1>5 DEF NewPage, Return
  <2>2. UNCHANGED EP!vars
    BY <1>1, <1>3, <1>4, <2>1, NothingChanged DEF Idle
  <2>3. HeapShape'
    BY <2>1, SameShape
  <2> QED
    BY <2>1, <2>2, <2>3
<1>6. CASE unused # << >> /\ Full
  BY <1>1, <1>3, <1>4, <1>6, WastedPage DEF EP!CreateTableFails
<1>7. CASE unused # << >> /\ ~Full
  <2>1. Pinned \subseteq live /\ {} \in SUBSET Pages /\ ~FullIn(before)
    BY <1>1, <1>4, <1>7, SameFetches DEF StoreShape, Untouched
  <2>2. PICK p : p = NextPage
    OBVIOUS
  <2>3. /\ HeapShape' /\ p \in Pages \ live /\ live' = live \cup {p}
        /\ \A q \in live : page'[q] = page[q]
        /\ page'[p] = NewDataPage /\ pins' = [pins EXCEPT ![p] = @ + 1] /\ call' = found
    BY <1>1, <1>3, <1>4, <1>7, <2>1, <2>2, NewPageSound
  <2>4. before' = before
    BY <1>2, <2>3
  <2>5. Pinning({p})'
    <3>1. p \in Pages \ {} /\ {p} = {} \cup {p}
      BY <2>3
    <3> QED
      BY <1>1, <1>4, <2>1, <2>3, <2>4, <3>1, PinOne
  <2>6. Kept(before.live)'
    BY <1>1, <2>3, <2>4 DEF Kept, Untouched
  <2>7. /\ call' = [op |-> "create", at |-> "made", table |-> t, cur |-> p]
        /\ p \in Pages \ before.live /\ live' = before.live \cup {p}
        /\ tables' = before.tables
    BY <1>1, <1>2, <1>3, <2>2, <2>3 DEF Untouched
  <2>8. AtMade'
    BY <1>1, <2>1, <2>3, <2>4, <2>5, <2>6, <2>7 DEF AtMade
  <2> QED
    BY <2>3, <2>8
<1> QED
  BY <1>5, <1>6, <1>7

(* The table gets the page. *)
LEMMA CreateUnpinStep ==
    ASSUME HeapShape, StoreSound(before), AtMade, CreateUnpin
    PROVE  HeapShape' /\ call' = Idle /\ \E t \in TableNames :
                call.op = "create" /\ call.table = t /\ t \notin EP!Existing /\ EP!CreateTable(t)
<1>1. PICK t \in TableNames, p \in Pages \ before.live :
        /\ call = [op |-> "create", at |-> "made", table |-> t, cur |-> p]
        /\ before.tables[t] = Absent /\ tables = before.tables /\ ~FullIn(before)
        /\ live = before.live \cup {p} /\ Kept(before.live) /\ page[p] = NewDataPage
        /\ Pinning({p})
  BY DEF AtMade
<1>2. /\ call.at # "idle" /\ call.op = "create" /\ call.table = t /\ call.cur = p
      /\ t \notin EP!Existing
  BY <1>1 DEF EP!Existing
<1>3. /\ Unpin(p) /\ tables' = [tables EXCEPT ![t] = [first |-> p, row_count |-> 0]]
      /\ call' = Idle /\ UNCHANGED <<live, page, unused>>
  BY <1>2 DEF CreateUnpin, Return
<1>4. pins' = before.pins
  BY <1>1, <1>3, LastUnpin DEF StoreSound
<1>5. page' = EP!Over(EP!Only(p, EP!NewDataPage), before.page)
  <2>1. page' = page /\ page = [q \in live |-> page[q]]
    BY <1>3 DEF HeapShape
  <2>2. PICK new : new = Only(p, NewDataPage)
    OBVIOUS
  <2>3. DOMAIN new = {p} /\ new[p] = NewDataPage
    BY <2>2 DEF Only
  <2>4. DOMAIN before.page = before.live
    BY DEF StoreSound, StoreShape
  <2>5. DOMAIN new \cup DOMAIN before.page = live
    BY <1>1, <2>3, <2>4
  <2>6. \A q \in live : page[q] = IF q \in DOMAIN new THEN new[q] ELSE before.page[q]
    BY <1>1, <2>3 DEF Kept
  <2>7. page = Over(new, before.page)
    BY <2>1, <2>5, <2>6 DEF Over
  <2> QED
    BY <2>1, <2>2, <2>7, SameOver, SameEmptyPage
<1>6. p \in EP!Unused /\ ~EP!Full
  BY <1>1, <1>2, BeforeOfEngine
<1>7. EP!CreateTable(t)
  <2>1. call'.at = "idle"
    BY <1>3 DEF Idle
  <2> QED
    BY <1>1, <1>2, <1>3, <1>4, <1>5, <1>6, <2>1 DEF EP!CreateTable, EP!WithPages
<1> QED
  BY <1>2, <1>3, <1>7, SameShape

(* A listed page is deleted, unless it is pinned; after the last one the   *)
(* table is gone as DropTable says.                                        *)
LEMMA DropPageStep ==
    ASSUME HeapShape, EP!EngineInv, StoreSound(before), AtDrop, DropPage,
           call'.at # "idle" => before' = before
    PROVE  /\ HeapShape'
           /\ \/ AtDrop'
              \/ /\ call' = Idle
                 /\ \E t \in EP!Existing :
                        call.op = "drop" /\ call.table = t /\ EP!DropTable(t)
<1>1. PICK t, c, ids, m, cur :
        /\ Dropping(t, c, ids, m)
        /\ call = [op |-> "drop", at |-> "drop", table |-> t, cur |-> cur, ids |-> ids]
  BY DEF AtDrop
<1>2. /\ StoreShape(before) /\ TablePath(before, t, c) /\ t \in TableNames
      /\ tables = [before.tables EXCEPT ![t] = Absent]
      /\ ids \in Seq(Pages) /\ Len(ids) \in Nat \ {0}
      /\ m \in Nat /\ m + Len(ids) <= Len(c)
      /\ \A i \in 1 .. Len(ids) : ids[i] = c[m + i]
      /\ \A i \in 1 .. m + Len(ids) - 1 : ReachedIn(before, c[i])
      /\ m + Len(ids) = Len(c) \/ ~ReachedIn(before, c[m + Len(ids)])
      /\ live = before.live \ {q \in Pages : \E i \in 1 .. m : q = c[i] /\ q \notin PinnedIn(before)}
      /\ Kept(live) /\ Pinning({})
  BY <1>1 DEF StoreSound, Dropping
<1>3. PICK h : PathIn(before, c, h)
  BY <1>2 DEF TablePath
<1>4. /\ Len(c) \in Nat \ {0} /\ DOMAIN c = 1 .. Len(c)
      /\ \A i \in 1 .. Len(c) : c[i] \in before.live /\ c[i] \in Pages
      /\ \A i, j \in 1 .. Len(c) : c[i] = c[j] => i = j
  BY <1>2, <1>3, PathPages
<1>5. PICK n \in Nat \ {0}, L \in Nat \ {0}, N \in Nat \ {0} :
        n = m + 1 /\ L = Len(ids) /\ N = Len(c)
  <2>1. m + 1 \in Nat \ {0}
    BY <1>2
  <2>2. Len(ids) \in Nat \ {0} /\ Len(c) \in Nat \ {0}
    BY Zenon, <1>2, <1>4
  <2> QED
    BY <2>1, <2>2
<1>21. m \in Nat /\ m + L <= N
  BY <1>2, <1>5
<1>6. n \in 1 .. Len(c) /\ Head(ids) = c[n] /\ c[n] \in Pages
  <2>1. Head(ids) = ids[1] /\ 1 \in 1 .. L /\ n \in 1 .. N /\ m + 1 = n
    BY <1>2, <1>5, <1>21
  <2> QED
    BY Zenon, <1>2, <1>4, <1>5, <2>1
<1>7. c[n] \in live
  <2>1. ASSUME NEW i \in 1 .. m PROVE c[i] # c[n]
    <3>1. i \in 1 .. N /\ i # n /\ n \in 1 .. N
      BY <1>5, <1>21, <2>1
    <3> QED
      BY <1>4, <1>5, <3>1
  <2>2. c[n] \in before.live
    BY <1>4, <1>6
  <2> QED
    BY <1>2, <2>1, <2>2
<1>8. /\ call.at = "drop" /\ DeletePage(c[n]) /\ UNCHANGED <<pins, tables>>
      /\ IF Len(ids) = 1 THEN call' = Idle
         ELSE call' = [op |-> "drop", at |-> "drop", table |-> t, cur |-> cur,
                       ids |-> Tail(ids)]
  BY <1>1, <1>6 DEF DropPage, Return
<1>9. /\ HeapShape' /\ live' = live \ {q \in {c[n]} : q \notin PinnedIn(before)}
      /\ \A q \in live' : page'[q] = page[q]
  BY <1>2, <1>7, <1>8, SameFetches, DeletePageSound
<1>10. live' = before.live \ {q \in Pages : \E i \in 1 .. n : q = c[i] /\ q \notin PinnedIn(before)}
  <2>1. \A i \in 1 .. n : i \in 1 .. m \/ i = n
    BY <1>2, <1>5
  <2>2. \A i \in 1 .. m : i \in 1 .. n
    BY <1>2, <1>5
  <2>3. n \in 1 .. n
    OBVIOUS
  <2> QED
    BY <1>2, <1>6, <1>9, <2>1, <2>2, <2>3
<1>11. \A q \in live' : q \in before.live /\ page'[q] = before.page[q]
  BY <1>2, <1>9 DEF Kept
<1>12. CASE Len(ids) # 1
  <2>1. call' = [op |-> "drop", at |-> "drop", table |-> t, cur |-> cur, ids |-> Tail(ids)]
    BY <1>8, <1>12
  <2>2. PICK rest : rest = Tail(ids)
    OBVIOUS
  <2>3. /\ rest \in Seq(Pages) /\ Len(rest) = Len(ids) - 1
        /\ \A i \in 1 .. Len(rest) : rest[i] = ids[i + 1]
    BY <1>2, <1>12, <2>2, HeadTailProperties
  <2>10. PICK K \in Nat \ {0} : K = Len(rest) /\ K = L - 1 /\ n + K = m + L
    <3>1. L - 1 \in Nat \ {0} /\ n + (L - 1) = m + L
      BY <1>5, <1>12, <1>21
    <3>2. L - 1 = Len(rest)
      BY <1>5, <2>3
    <3> QED
      BY <3>1, <3>2
  <2>4. Len(rest) \in Nat \ {0} /\ n + Len(rest) = m + Len(ids)
    BY <1>5, <2>10
  <2>5. \A i \in 1 .. Len(rest) : rest[i] = c[n + i]
    <3>1. ASSUME NEW i \in 1 .. K PROVE rest[i] = c[n + i]
      <4>1. i + 1 \in 1 .. L /\ m + (i + 1) = n + i
        BY <1>5, <1>21, <2>10
      <4>2. rest[i] = ids[i + 1] /\ ids[i + 1] = c[m + (i + 1)]
        BY <1>2, <1>5, <2>3, <2>10, <4>1
      <4> QED
        BY <4>1, <4>2
    <3> QED
      BY <2>10, <3>1
  <2>11. /\ \A i \in 1 .. n + Len(rest) - 1 : ReachedIn(before', c[i])
         /\ n + Len(rest) = Len(c) \/ ~ReachedIn(before', c[n + Len(rest)])
         /\ n + Len(rest) <= Len(c) /\ n \in Nat
         /\ before' = before
    <3>1. n + Len(rest) - 1 = m + Len(ids) - 1 /\ before' = before
      BY <1>5, <1>21, <2>1, <2>10
    <3> QED
      BY <1>2, <2>4, <3>1
  <2>6. Kept(live)'
    BY <1>8, <1>11, <1>12 DEF Kept
  <2>7. Pinning({})'
    BY <1>2, <1>8, <1>12, SamePins
  <2>8. Dropping(t, c, rest, n)'
    BY <1>2, <1>8, <1>10, <2>3, <2>4, <2>5, <2>6, <2>7, <2>11 DEF Dropping
  <2>9. AtDrop'
    BY <2>1, <2>2, <2>8 DEF AtDrop
  <2> QED
    BY <1>9, <2>9
<1>13. CASE Len(ids) = 1
  <2>1. call' = Idle /\ call'.at = "idle" /\ call.op = "drop" /\ call.table = t /\ call.at # "idle"
    BY <1>1, <1>8, <1>13 DEF Idle
  <2>2. t \in EP!Existing /\ EP!TableChain(t) = c
    BY <1>2, <2>1, TableChainBefore
  <2>3. /\ \A i \in 1 .. n - 1 : ReachedIn(before, c[i])
        /\ n = Len(c) \/ ~ReachedIn(before, c[n])
    <3>1. m + Len(ids) = n /\ m + Len(ids) - 1 = n - 1
      BY <1>5, <1>13, <1>21
    <3> QED
      BY <1>2, <3>1
  <2>4. ASSUME NEW q PROVE q \in EP!Listed(t) <=> \E i \in 1 .. n : q = c[i]
    <3>1. EP!Listed(t) = {c[i] : i \in {j \in DOMAIN c : \A k \in 1 .. j - 1 : EP!CanFetch(c[k])}}
      BY <2>2 DEF EP!Listed
    <3>2. ASSUME NEW j \in 1 .. Len(c)
          PROVE  (\A k \in 1 .. j - 1 : EP!CanFetch(c[k])) <=> j <= n
      <4>1. \A k \in 1 .. Len(c) : EP!CanFetch(c[k]) <=> ReachedIn(before, c[k])
        BY <2>1, BeforeOfEngine
      <4>2. CASE j <= n
        <5>1. \A k \in 1 .. j - 1 : k \in 1 .. n - 1 /\ k \in 1 .. N
          BY <1>5, <1>21, <4>2
        <5> QED
          BY <1>5, <2>3, <4>1, <4>2, <5>1
      <4>3. CASE j > n
        <5>1. n \in 1 .. j - 1 /\ ~ReachedIn(before, c[n])
          BY <1>4, <1>5, <1>6, <2>3, <4>3
        <5> QED
          BY <1>6, <4>1, <4>3, <5>1
      <4> QED
        BY <4>2, <4>3
    <3>3. 1 .. n = {j \in 1 .. Len(c) : j <= n}
      BY <1>4, <1>6
    <3> QED
      BY <1>4, <3>1, <3>2, <3>3
  <2>5. live' = before.live \ (EP!Listed(t) \ EP!Pinned)
    <3>1. EP!Pinned = PinnedIn(before)
      BY <2>1, BeforeOfEngine
    <3>2. before.live \subseteq Pages
      BY <1>2 DEF StoreShape
    <3> QED
      BY <1>10, <2>4, <3>1, <3>2
  <2>6. page' = [q \in live' |-> before.page[q]]
    <3>1. page' = [q \in live' |-> page'[q]]
      BY <1>9 DEF HeapShape
    <3> QED
      BY <1>11, <3>1
  <2>7. pins' = before.pins
    <3>1. before.pins = [q \in Pages |-> before.pins[q]]
      BY <1>2 DEF StoreShape
    <3> QED
      BY <1>2, <1>8, <3>1 DEF Pinning
  <2>8. EP!DropTable(t)
    BY <1>2, <1>8, <2>1, <2>5, <2>6, <2>7 DEF EP!DropTable
  <2> QED
    BY <1>9, <2>1, <2>2, <2>8
<1> QED
  BY <1>12, <1>13

-----------------------------------------------------------------------------

(* The steps of insert that give up, or store the tuple. *)

(* They are what OverflowPages says, and the rest is as it was. *)
LEMMA SpillWritten ==
    ASSUME HeapShape, StoreShape(before), call.at # "idle", NEW t, NEW c, NEW row, NEW ps,
           NEW extra, NEW changed, Spilling(t, c, row, ps, extra, FALSE, changed)
    PROVE  /\ ps \in EP!Allocations(Len(ps))
           /\ live = before.live \cup EP!ToSet(ps) \cup extra
           /\ Written(row, ps)
<1>1. /\ row \in Rows /\ Len(ps) \in Nat /\ Len(Pieces(row)) \in Nat
      /\ ps \in [1 .. Len(ps) -> Pages] /\ ToSet(ps) = {ps[i] : i \in 1 .. Len(ps)}
      /\ ToSet(ps) \subseteq Pages /\ DOMAIN ps = 1 .. Len(ps)
  BY SpillFacts
<1>2. /\ IsInjective(ps) /\ ToSet(ps) \cap before.live = {} /\ Len(ps) <= Len(Pieces(row))
      /\ live = before.live \cup ToSet(ps) \cup extra
      /\ \A i \in 1 .. Len(ps) : page[ps[i]] = PieceOn(row, ps, i, FALSE)
  BY DEF Spilling
<1>3. ps \in EP!Allocations(Len(ps))
  <2>1. EP!Unused = Pages \ before.live
    BY BeforeOfEngine
  <2>2. ps \in [1 .. Len(ps) -> Pages \ before.live]
    BY <1>1, <1>2
  <2> QED
    BY <1>2, <2>1, <2>2, SameInjective DEF EP!Allocations
<1>4. PICK first : PiecesFrom(row, first)
  BY <1>1, PiecesSound
<1>5. PICK n : n = Len(ps)
  OBVIOUS
<1>6. n \in 0 .. Len(Pieces(row)) /\ ps \in [1 .. n -> Pages]
  BY <1>1, <1>2, <1>5
<1>7. ASSUME NEW i \in 1 .. n
      PROVE  page[ps[i]] = OverflowPages(row, ps)[ps[i]]
  <2>1. OverflowPages(row, ps)[ps[i]] =
          [chunk |-> Pieces(row)[i].chunk,
           next |-> IF i < n /\ Pieces(row)[i + 1].column = Pieces(row)[i].column
                    THEN ps[i + 1] ELSE NoPage]
    BY <1>1, <1>2, <1>4, <1>6, <1>7, WrittenPage
  <2> QED
    BY <1>2, <1>5, <1>7, <2>1 DEF PieceOn
<1>8. Written(row, ps)
  BY <1>1, <1>5, <1>7 DEF Written
<1> QED
  BY <1>2, <1>3, <1>8, SameToSet

(* Nothing else is written. *)
LEMMA SpillIsAll ==
    ASSUME HeapShape, StoreShape(before), call.at # "idle", NEW t, NEW c, NEW row, NEW ps,
           Spilling(t, c, row, ps, {}, FALSE, {})
    PROVE  page = EP!WithPages(EP!OverflowPages(row, ps))
<1>1. /\ live = before.live \cup ToSet(ps)
      /\ DOMAIN OverflowPages(row, ps) = ToSet(ps)
      /\ \A q \in ToSet(ps) : page[q] = OverflowPages(row, ps)[q]
  <2>1. PICK no : no = {}
    OBVIOUS
  <2>2. Spilling(t, c, row, ps, no, FALSE, no)
    BY <2>1
  <2>3. live = before.live \cup EP!ToSet(ps) \cup no
    BY <2>2, SpillWritten
  <2>5. DOMAIN OverflowPages(row, ps) = ToSet(ps)
    BY DEF OverflowPages
  <2>6. Written(row, ps)
    BY <2>2, SpillWritten
  <2>4. EP!ToSet(ps) = ToSet(ps)
    BY SameToSet
  <2> QED
    BY <2>1, <2>3, <2>4, <2>5, <2>6 DEF Written
<1>2. /\ page = [q \in live |-> page[q]] /\ DOMAIN before.page = before.live
      /\ \A q \in before.live : page[q] = before.page[q]
  BY DEF HeapShape, StoreShape, Spilling, Kept
<1>3. PICK new : new = OverflowPages(row, ps)
  OBVIOUS
<1>4. page = [q \in DOMAIN new \cup DOMAIN before.page |->
                IF q \in DOMAIN new THEN new[q] ELSE before.page[q]]
  BY <1>1, <1>2, <1>3
<1> QED
  BY <1>3, <1>4, SameOverflow DEF EP!WithPages, EP!Over

(* No page is left: insert gives up behind the pages it has written. *)
LEMMA DiskFullStep ==
    ASSUME HeapShape, StoreShape(before), call.at # "idle", NEW t, NEW c, NEW row, NEW ps,
           Spilling(t, c, row, ps, {}, FALSE, {}), Pinning({}), unused = << >>,
           Len(ps) < EP!PagesNeeded(t, row),
           call' = Idle, UNCHANGED <<live, page, pins, tables, unused>>
    PROVE  HeapShape' /\ (EP!InsertFindsNoPage(t, row) \/ UNCHANGED EP!vars)
<1>1. HeapShape'
  BY SameShape
<1>2. call'.at = "idle"
  BY DEF Idle
<1>3. CASE FullIn(before)
  <2>1. Untouched /\ tables = before.tables
    BY <1>3, NothingSpilled
  <2> QED
    BY <1>1, <1>2, <2>1, NothingChanged
<1>4. CASE ~FullIn(before)
  <2>1. /\ ps \in EP!Allocations(Len(ps)) /\ live = before.live \cup ToSet(ps)
        /\ live = before.live \cup EP!ToSet(ps)
    <3>1. PICK no : no = {}
      OBVIOUS
    <3>2. Spilling(t, c, row, ps, no, FALSE, no)
      BY <3>1
    <3>3. ps \in EP!Allocations(Len(ps)) /\ live = before.live \cup EP!ToSet(ps) \cup no
      BY <3>2, SpillWritten
    <3>4. EP!ToSet(ps) = ToSet(ps)
      BY SameToSet
    <3> QED
      BY <3>1, <3>3, <3>4
  <2>2. /\ Len(ps) \in Nat /\ Len(Pieces(row)) \in Nat /\ ToSet(ps) \subseteq Pages
        /\ ToSet(ps) = {ps[i] : i \in 1 .. Len(ps)} /\ ps \in [1 .. Len(ps) -> Pages]
        /\ DOMAIN ps = 1 .. Len(ps)
    BY SpillFacts
  <2>3. Len(ps) <= Len(Pieces(row)) /\ tables = before.tables /\ IsInjective(ps)
        /\ ToSet(ps) \cap before.live = {}
    BY DEF Spilling
  <2>4. Pages \ before.live = ToSet(ps)
    <3>1. live = Pages
      BY DEF HeapShape, ToSet
    <3> QED
      BY <2>1, <2>3, <3>1
  <2>5. Cardinality(ToSet(ps)) = Len(ps)
    <3>1. \A s \in ToSet(ps) : \E i \in 1 .. Len(ps) : ps[i] = s
      BY <2>2
    <3>3. ps \in [1 .. Len(ps) -> ToSet(ps)]
      BY <2>2
    <3>2. ps \in Injection(1 .. Len(ps), ToSet(ps))
      BY <2>3, <3>3 DEF Injection
    <3>6. ps \in Surjection(1 .. Len(ps), ToSet(ps))
      BY <3>1, <3>3 DEF Surjection
    <3>4. ps \in Bijection(1 .. Len(ps), ToSet(ps))
      BY <3>2, <3>6 DEF Bijection
    <3>5. ExistsBijection(1 .. Len(ps), ToSet(ps))
      BY <3>4 DEF ExistsBijection
    <3> QED
      BY <2>2, <3>5, FS_CountingElements
  <2>6. EP!Cardinality(EP!Unused) = Len(ps)
    BY <2>4, <2>5, BeforeOfEngine, SameCardinality
  <2>7. page' = EP!WithPages(EP!OverflowPages(row, ps))
    BY SpillIsAll
  <2>8. pins' = before.pins /\ tables' = before.tables
    <3>1. before.pins = [q \in Pages |-> before.pins[q]]
      BY DEF StoreShape
    <3> QED
      BY <2>3, <3>1 DEF Pinning
  <2>9. ~EP!Full
    BY <1>4, BeforeOfEngine
  <2>10. PICK n : n = IF EP!Cardinality(EP!Unused) < Len(EP!Pieces(row))
                      THEN EP!Cardinality(EP!Unused) ELSE Len(EP!Pieces(row))
    OBVIOUS
  <2>11. n = Len(ps)
    BY <2>2, <2>3, <2>6, <2>10, SamePieces
  <2>12. ps \in EP!Allocations(n) /\ EP!Cardinality(EP!Unused) < EP!PagesNeeded(t, row)
    BY <2>1, <2>6, <2>11
  <2>13. EP!InsertFindsNoPage(t, row)
    <3>1. live' = before.live \cup EP!ToSet(ps)
      BY <2>1
    <3> QED
      BY <1>2, <2>7, <2>8, <2>9, <2>10, <2>12, <3>1 DEF EP!InsertFindsNoPage
  <2> QED
    BY <1>1, <2>13
<1> QED
  BY <1>3, <1>4

(* An insertion that is over. *)
InsertEnds ==
    /\ call' = Idle /\ call.op = "insert"
    /\ \E t \in EP!Existing : \E row \in Rows :
        call.table = t /\ call.row = row /\ (EP!Insert(t, row) \/ UNCHANGED EP!vars)

(* The next piece gets a page. *)
LEMMA SpillNewStep ==
    ASSUME HeapShape, EP!EngineInv, StoreSound(before), AtSpill, SpillNew,
           call'.at # "idle" => before' = before
    PROVE  HeapShape' /\ (AtFill' \/ InsertEnds)
<1>1. PICK t, c, row, ps, cur :
        /\ Spilling(t, c, row, ps, {}, FALSE, {})
        /\ Len(ps) < Len(Pieces(row)) /\ Pinning({})
        /\ InsertCall("spill", t, row, ps, cur, NoPage)
  BY DEF AtSpill
<1>2. /\ call.at = "spill" /\ call.op = "insert" /\ call.table = t /\ call.row = row
      /\ call.at # "idle"
  BY <1>1 DEF InsertCall
<1>3. /\ t \in TableNames /\ TablePath(before, t, c) /\ row \in Rows /\ tables = before.tables
      /\ StoreShape(before)
  BY <1>1 DEF Spilling, StoreSound
<1>4. t \in EP!Existing
  BY <1>2, <1>3, TableChainBefore
<1>5. PICK found : found = [call EXCEPT !.at = "fill", !.cur = NextPage]
  OBVIOUS
<1>6. NewPage(found) /\ UNCHANGED tables
  BY <1>5 DEF SpillNew
<1>7. Len(ps) \in Nat /\ Len(Pieces(row)) \in Nat
  BY <1>1, <1>3, SpillFacts
<1>8. CASE unused = << >>
  <2>1. call' = Idle /\ UNCHANGED <<live, page, pins, tables, unused>>
    BY <1>6, <1>8 DEF NewPage, Return
  <2>2. Len(ps) < EP!PagesNeeded(t, row)
    <3>1. PICK more \in Nat : more = IF EP!HasTarget(t, row) THEN 0 ELSE 1
      OBVIOUS
    <3>2. EP!PagesNeeded(t, row) = Len(Pieces(row)) + more
      BY <3>1, SamePieces DEF EP!PagesNeeded
    <3> QED
      BY <1>1, <1>7, <3>2
  <2>3. HeapShape' /\ (EP!InsertFindsNoPage(t, row) \/ UNCHANGED EP!vars)
    BY <1>1, <1>2, <1>3, <1>8, <2>1, <2>2, DiskFullStep
  <2> QED
    BY <1>2, <1>3, <1>4, <2>1, <2>3 DEF InsertEnds, EP!Insert
<1>9. CASE unused # << >> /\ Full
  <2>1. FullIn(before)
    BY <1>1, <1>3, <1>9, SameFetches
  <2>2. Untouched
    BY <1>1, <1>3, <2>1, NothingSpilled
  <2>3. HeapShape' /\ call' = Idle /\ EP!Full /\ EP!WastePage
    BY <1>1, <1>2, <1>3, <1>6, <1>9, <2>2, WastedPage
  <2>4. EP!Pieces(row) # << >>
    <3>1. Pieces(row) # << >>
      <4>1. SUFFICES ASSUME Pieces(row) = << >> PROVE FALSE
        OBVIOUS
      <4>2. Len(Pieces(row)) = 0
        BY <4>1, EmptySeq
      <4> QED
        BY <1>1, <1>7, <4>2
    <3> QED
      BY <3>1, SamePieces
  <2>5. EP!InsertFindsNoFrame(t, row)
    BY <2>3, <2>4 DEF EP!InsertFindsNoFrame
  <2> QED
    BY <1>2, <1>3, <1>4, <2>3, <2>5 DEF InsertEnds, EP!Insert
<1>10. CASE unused # << >> /\ ~Full
  <2>1. Pinned \subseteq live /\ {} \in SUBSET Pages /\ ~FullIn(before)
    BY <1>1, <1>3, <1>10, SpillPins, SameFetches
  <2>2. PICK p : p = NextPage
    OBVIOUS
  <2>3. /\ HeapShape' /\ p \in Pages \ live /\ live' = live \cup {p}
        /\ \A q \in live : page'[q] = page[q]
        /\ pins' = [pins EXCEPT ![p] = @ + 1] /\ call' = found
    BY <1>1, <1>3, <1>6, <1>10, <2>1, <2>2, NewPageSound
  <2>4. InsertCall("fill", t, row, ps, p, NoPage)'
    BY <1>1, <1>5, <2>2, <2>3 DEF InsertCall
  <2>5. before' = before
    BY <2>4 DEF InsertCall
  <2>6. Pinning({p})'
    <3>1. p \in Pages \ {} /\ {p} = {} \cup {p}
      BY <2>3
    <3> QED
      BY <1>1, <1>3, <2>1, <2>3, <2>5, <3>1, PinOne
  <2>7. Spilling(t, c, row, ps, {p}, FALSE, {})'
    <3>1. /\ ps \in Seq(Pages) /\ IsInjective(ps) /\ ToSet(ps) \cap before.live = {}
          /\ Len(ps) <= Len(Pieces(row)) /\ live = before.live \cup ToSet(ps)
          /\ \A q \in before.live : q \in live /\ page[q] = before.page[q]
          /\ \A i \in 1 .. Len(ps) : page[ps[i]] = PieceOn(row, ps, i, FALSE)
      BY <1>1 DEF Spilling, Kept
    <3>2. \A i \in 1 .. Len(ps) : page'[ps[i]] = PieceOn(row, ps, i, FALSE)
      BY <1>1, <1>3, <2>3, <3>1, SpillFacts
    <3>3. \A q \in before.live : q \in live' /\ page'[q] = before.page[q]
      BY <2>3, <3>1
    <3>4. {p} \subseteq Pages \ (before.live \cup ToSet(ps))
      BY <2>3, <3>1
    <3>5. live' = before.live \cup ToSet(ps) \cup {p}
      BY <2>3, <3>1
    <3> QED
      BY <1>3, <1>6, <2>1, <2>5, <3>1, <3>2, <3>3, <3>4, <3>5 DEF Spilling, Kept, PieceOn
  <2>8. AtFill'
    BY <1>1, <2>4, <2>6, <2>7 DEF AtFill
  <2> QED
    BY <2>3, <2>8
<1> QED
  BY <1>8, <1>9, <1>10

(* The page the engine selects for a row is where the search of the code ends. *)
LEMMA TargetBefore ==
    ASSUME EP!EngineInv, StoreShape(before), call.at # "idle", NEW t \in TableNames, NEW c,
           TablePath(before, t, c), NEW row \in Rows
    PROVE  /\ \A k \in 1 .. Len(c) :
                Roomless(c, row, k - 1) /\ before.page[c[k]].room >= Needed(row) =>
                    EP!Target(t, row) = k /\ EP!HasTarget(t, row)
           /\ Roomless(c, row, Len(c)) => EP!Target(t, row) = 0 /\ ~EP!HasTarget(t, row)
<1>1. EP!TableChain(t) = c
  BY TableChainBefore
<1>2. PICK h : PathIn(before, c, h)
  BY DEF TablePath
<1>3. Len(c) \in Nat \ {0} /\ DOMAIN c = 1 .. Len(c)
  BY <1>2, PathPages
<1>4. /\ Needed(row) \in Nat
      /\ \A i \in 1 .. Len(c) : before.page[c[i]].room \in Nat
  BY RoomsAreNumbers
<1>5. EP!TupleSize(row) + SlotSize = Needed(row)
  BY SameSize DEF Needed
<1> DEFINE I == {i \in 1 .. Len(c) : before.page[c[i]].room >= Needed(row)}
<1>6. EP!Target(t, row) = IF I # {} THEN EP!Min(I) ELSE 0
  BY <1>1, <1>5 DEF EP!Target, EP!SelectInSeq
<1>7. I \in SUBSET Nat
  BY <1>3
<1>8. \A i : i \in I <=> i \in 1 .. Len(c) /\ before.page[c[i]].room >= Needed(row)
  OBVIOUS
<1> HIDE DEF I
<1>9. ASSUME NEW k \in 1 .. Len(c), Roomless(c, row, k - 1),
             before.page[c[k]].room >= Needed(row)
      PROVE  EP!Target(t, row) = k /\ EP!HasTarget(t, row)
  <2>1. k \in I
    BY <1>8, <1>9
  <2>2. ASSUME NEW i \in I PROVE k <= i
    <3>1. i \in 1 .. Len(c) /\ before.page[c[i]].room >= Needed(row)
      BY <1>8, <2>2
    <3>2. CASE i < k
      <4>1. i \in 1 .. k - 1
        BY <1>3, <3>1, <3>2
      <4>2. before.page[c[i]].room < Needed(row)
        BY <1>9, <4>1 DEF Roomless
      <4> QED
        BY <1>4, <3>1, <4>2
    <3> QED
      BY <1>3, <3>1, <3>2
  <2>3. EP!Min(I) = k
    BY <1>7, <2>1, <2>2, EP!MinIsLeast, SameAssumption
  <2>4. k # 0
    BY <1>3
  <2> QED
    BY <1>6, <2>1, <2>3, <2>4 DEF EP!HasTarget
<1>10. ASSUME Roomless(c, row, Len(c)) PROVE EP!Target(t, row) = 0 /\ ~EP!HasTarget(t, row)
  <2>1. I = {}
    <3>1. ASSUME NEW i \in I PROVE FALSE
      <4>1. /\ i \in 1 .. Len(c) /\ before.page[c[i]].room >= Needed(row)
            /\ before.page[c[i]].room < Needed(row)
        BY <1>8, <1>10, <3>1 DEF Roomless
      <4> QED
        BY <1>4, <4>1
    <3> QED
      BY <3>1
  <2> QED
    BY <1>6, <2>1 DEF EP!HasTarget
<1> QED
  BY <1>9, <1>10

(* The search fetches the next page, or ends where it cannot. *)
LEMMA SearchFetchStep ==
    ASSUME HeapShape, EP!EngineInv, StoreSound(before), AtSearch, SearchFetch,
           call'.at # "idle" => before' = before
    PROVE  HeapShape' /\ (AtLook' \/ InsertEnds)
<1>1. PICK t, c, row, ps, k :
        /\ Spilling(t, c, row, ps, {}, FALSE, {}) /\ Len(ps) = Len(Pieces(row))
        /\ k \in 1 .. Len(c) /\ Passed(c, row, k - 1) /\ Pinning({})
        /\ InsertCall("search", t, row, ps, c[k], NoPage)
  BY DEF AtSearch
<1>2. /\ call.op = "insert" /\ call.table = t /\ call.row = row /\ call.cur = c[k]
      /\ call.at # "idle"
  BY <1>1 DEF InsertCall
<1>3. /\ t \in TableNames /\ TablePath(before, t, c) /\ row \in Rows /\ StoreShape(before)
      /\ tables = before.tables
  BY <1>1 DEF Spilling, StoreSound
<1>4. PICK h : PathIn(before, c, h)
  BY <1>3 DEF TablePath
<1>5. c[k] \in Pages
  BY <1>1, <1>3, <1>4, PathPages
<1>6. /\ call' = IF CanFetch(c[k]) THEN [call EXCEPT !.at = "look"] ELSE Idle
      /\ pins' = IF CanFetch(c[k]) THEN [pins EXCEPT ![c[k]] = @ + 1] ELSE pins
      /\ UNCHANGED <<live, page, tables, unused>>
  BY <1>2 DEF SearchFetch, Fetch
<1>7. CanFetch(c[k]) <=> ReachedIn(before, c[k])
  BY <1>1, <1>3, SameFetches
<1>8. HeapShape'
  BY <1>6, SameShape
<1>9. CASE ReachedIn(before, c[k])
  <2>1. call' = [call EXCEPT !.at = "look"] /\ pins' = [pins EXCEPT ![c[k]] = @ + 1]
    BY <1>6, <1>7, <1>9
  <2>2. InsertCall("look", t, row, ps, c[k], NoPage)'
    BY <1>1, <2>1 DEF InsertCall
  <2>3. before' = before
    BY <2>2 DEF InsertCall
  <2>4. Pinning({c[k]})'
    <3>1. {} \in SUBSET Pages /\ c[k] \in Pages \ {} /\ {c[k]} = {} \cup {c[k]}
      BY <1>5
    <3> QED
      BY <1>1, <1>3, <2>1, <2>3, <3>1, PinOne
  <2>5. Spilling(t, c, row, ps, {}, FALSE, {})'
    BY <1>1, <1>6, <2>3, SpillingStays
  <2>6. Passed(c, row, k - 1)' /\ ReachedIn(before', c[k])
    BY <1>1, <1>9, <2>3 DEF Passed
  <2>7. AtLook'
    BY <1>1, <2>2, <2>4, <2>5, <2>6 DEF AtLook
  <2> QED
    BY <1>8, <2>7
<1>10. CASE ~ReachedIn(before, c[k])
  <2>1. call' = Idle /\ pins' = pins
    BY <1>6, <1>7, <1>10
  <2>2. FullIn(before)
    BY <1>10 DEF ReachedIn
  <2>3. Untouched
    BY <1>1, <1>3, <2>2, NothingSpilled
  <2>4. UNCHANGED EP!vars
    BY <1>1, <1>2, <1>3, <1>6, <2>1, <2>3, NothingChanged DEF Idle
  <2>5. t \in EP!Existing
    BY <1>2, <1>3, TableChainBefore
  <2>6. InsertEnds
    BY <1>2, <1>3, <2>1, <2>4, <2>5 DEF InsertEnds
  <2> QED
    BY <1>8, <2>6
<1> QED
  BY <1>9, <1>10

(* A table whose pages are all passed has no target. *)
LEMMA AllPassed ==
    ASSUME EP!EngineInv, StoreShape(before), call.at # "idle", NEW t \in TableNames, NEW c,
           TablePath(before, t, c), NEW row \in Rows, Passed(c, row, Len(c))
    PROVE  ~EP!HasTarget(t, row) /\ EP!ReachesPage(t, row)
<1>1. Roomless(c, row, Len(c)) /\ \A i \in 1 .. Len(c) : ReachedIn(before, c[i])
  BY DEF Passed, Roomless
<1>2. EP!Target(t, row) = 0 /\ ~EP!HasTarget(t, row) /\ EP!TableChain(t) = c
  BY <1>1, TargetBefore, TableChainBefore
<1>3. \A i \in 1 .. Len(c) : EP!CanFetch(c[i])
  BY <1>1, BeforeOfEngine
<1> QED
  BY <1>2, <1>3 DEF EP!ReachesPage

(* A new page for the table. *)
LEMMA ExtendNewStep ==
    ASSUME HeapShape, EP!EngineInv, StoreSound(before), AtExtend, ExtendNew,
           call'.at # "idle" => before' = before
    PROVE  HeapShape' /\ (AtJoin' \/ InsertEnds)
<1>1. PICK t, c, row, ps, last :
        /\ Spilling(t, c, row, ps, {}, FALSE, {}) /\ Len(ps) = Len(Pieces(row))
        /\ Passed(c, row, Len(c)) /\ Pinning({}) /\ last = c[Len(c)]
        /\ InsertCall("extend", t, row, ps, last, NoPage)
  BY DEF AtExtend
<1>2. /\ call.op = "insert" /\ call.table = t /\ call.row = row /\ call.at # "idle"
  BY <1>1 DEF InsertCall
<1>3. /\ t \in TableNames /\ TablePath(before, t, c) /\ row \in Rows /\ tables = before.tables
      /\ StoreShape(before)
  BY <1>1 DEF Spilling, StoreSound
<1>4. t \in EP!Existing /\ ~EP!HasTarget(t, row) /\ EP!ReachesPage(t, row)
  BY <1>1, <1>2, <1>3, TableChainBefore, AllPassed
<1>5. PICK found : found = [call EXCEPT !.at = "join", !.new = NextPage]
  OBVIOUS
<1>6. NewPage(found) /\ UNCHANGED tables
  BY <1>5 DEF ExtendNew
<1>7. Len(ps) \in Nat /\ Len(Pieces(row)) \in Nat
  BY <1>1, <1>3, SpillFacts
<1>8. CASE unused = << >>
  <2>1. call' = Idle /\ UNCHANGED <<live, page, pins, tables, unused>>
    BY <1>6, <1>8 DEF NewPage, Return
  <2>2. Len(ps) < EP!PagesNeeded(t, row)
    <3>1. EP!PagesNeeded(t, row) = Len(Pieces(row)) + 1
      BY <1>4, SamePieces DEF EP!PagesNeeded
    <3> QED
      BY <1>1, <1>7, <3>1
  <2>3. HeapShape' /\ (EP!InsertFindsNoPage(t, row) \/ UNCHANGED EP!vars)
    BY <1>1, <1>2, <1>3, <1>8, <2>1, <2>2, DiskFullStep
  <2> QED
    BY <1>2, <1>3, <1>4, <2>1, <2>3 DEF InsertEnds, EP!Insert
<1>9. CASE unused # << >> /\ Full
  <2>1. FullIn(before)
    BY <1>1, <1>3, <1>9, SameFetches
  <2>2. Untouched
    BY <1>1, <1>3, <2>1, NothingSpilled
  <2>3. HeapShape' /\ call' = Idle /\ EP!Full /\ EP!WastePage
    BY <1>1, <1>2, <1>3, <1>6, <1>9, <2>2, WastedPage
  <2>4. EP!InsertFindsNoFrame(t, row)
    BY <1>4, <2>3 DEF EP!InsertFindsNoFrame
  <2> QED
    BY <1>2, <1>3, <1>4, <2>3, <2>4 DEF InsertEnds, EP!Insert
<1>10. CASE unused # << >> /\ ~Full
  <2>1. Pinned \subseteq live /\ {} \in SUBSET Pages /\ ~FullIn(before)
    BY <1>1, <1>3, <1>10, SpillPins, SameFetches
  <2>2. PICK p : p = NextPage
    OBVIOUS
  <2>3. /\ HeapShape' /\ p \in Pages \ live /\ live' = live \cup {p}
        /\ \A q \in live : page'[q] = page[q]
        /\ page'[p] = NewDataPage
        /\ pins' = [pins EXCEPT ![p] = @ + 1] /\ call' = found
    BY <1>1, <1>3, <1>6, <1>10, <2>1, <2>2, NewPageSound
  <2>4. InsertCall("join", t, row, ps, last, p)'
    BY <1>1, <1>5, <2>2, <2>3 DEF InsertCall
  <2>5. before' = before
    BY <2>4 DEF InsertCall
  <2>6. Pinning({p})'
    <3>1. p \in Pages \ {} /\ {p} = {} \cup {p}
      BY <2>3
    <3> QED
      BY <1>1, <1>3, <2>1, <2>3, <2>5, <3>1, PinOne
  <2>7. Spilling(t, c, row, ps, {p}, FALSE, {})'
    <3>1. /\ ps \in Seq(Pages) /\ IsInjective(ps) /\ ToSet(ps) \cap before.live = {}
          /\ Len(ps) <= Len(Pieces(row)) /\ live = before.live \cup ToSet(ps)
          /\ \A q \in before.live : q \in live /\ page[q] = before.page[q]
          /\ \A i \in 1 .. Len(ps) : page[ps[i]] = PieceOn(row, ps, i, FALSE)
      BY <1>1 DEF Spilling, Kept
    <3>2. \A i \in 1 .. Len(ps) : page'[ps[i]] = PieceOn(row, ps, i, FALSE)
      BY <1>1, <1>3, <2>3, <3>1, SpillFacts
    <3>3. \A q \in before.live : q \in live' /\ page'[q] = before.page[q]
      BY <2>3, <3>1
    <3>4. {p} \subseteq Pages \ (before.live \cup ToSet(ps))
      BY <2>3, <3>1
    <3>5. live' = before.live \cup ToSet(ps) \cup {p}
      BY <2>3, <3>1
    <3> QED
      BY <1>3, <1>6, <2>1, <2>5, <3>1, <3>2, <3>3, <3>4, <3>5 DEF Spilling, Kept, PieceOn
  <2>8. Extending(t, c, row, ps, last, p, {})'
    BY <1>1, <2>3, <2>5, <2>7 DEF Extending, Passed, NewDataPage, EmptyPage
  <2>9. AtJoin'
    BY <2>4, <2>6, <2>8 DEF AtJoin
  <2> QED
    BY <2>3, <2>9
<1> QED
  BY <1>8, <1>9, <1>10

(* The tuple goes to the first page with room for it. *)
LEMMA SearchHitStep ==
    ASSUME HeapShape, EP!EngineInv, StoreSound(before), AtLook, SearchHit
    PROVE  HeapShape' /\ (AtTrapped' \/ InsertEnds)
<1>1. PICK t, c, row, ps, k :
        /\ Spilling(t, c, row, ps, {}, FALSE, {}) /\ Len(ps) = Len(Pieces(row))
        /\ k \in 1 .. Len(c) /\ Passed(c, row, k - 1) /\ ReachedIn(before, c[k])
        /\ Pinning({c[k]})
        /\ InsertCall("look", t, row, ps, c[k], NoPage)
  BY DEF AtLook
<1>2. /\ t \in TableNames /\ TablePath(before, t, c) /\ row \in Rows /\ StoreShape(before)
      /\ call.row = row /\ call.cur = c[k] /\ call.ps = ps /\ call.table = t
      /\ call.op = "insert" /\ call.at # "idle" /\ tables = before.tables
  BY <1>1 DEF Spilling, StoreSound, InsertCall
<1>3. PICK h : PathIn(before, c, h)
  BY <1>2 DEF TablePath
<1>4. Len(c) \in Nat \ {0} /\ c[k] \in before.live /\ c[k] \in Pages
  BY <1>1, <1>2, <1>3, PathPages
<1>5. page[c[k]] = before.page[c[k]] /\ c[k] \in live
  BY <1>1, <1>4 DEF Spilling, Kept
<1>6. PICK p, size, tuple : p = c[k] /\ size = TupleSize(row) /\ tuple = Encoded(row, ps)
  OBVIOUS
<1>7. /\ page[p].room >= Needed(row) /\ page[p].room \in Nat
      /\ InsertTuple(p, [call EXCEPT !.at = "trapped"])
  <2>1. before.page[c[k]].room \in Nat
    BY <1>1, <1>2, RoomsAreNumbers
  <2> QED
    BY <1>2, <1>5, <1>6, <2>1 DEF SearchHit
<1>8. CanInsert(page[p], CutLength(row))
  BY <1>2, <1>7, RoomIsEnough
<1>9. Pinned \subseteq live /\ {c[k]} \in SUBSET Pages
  <2>1. Pinned = PinnedIn(before) \cup {c[k]}
    <3>1. {c[k]} \in SUBSET Pages
      BY <1>4
    <3> QED
      BY <1>1, <1>2, <3>1, PinnedPages
  <2> QED
    BY <1>1, <1>2, <1>4, <1>5, <2>1 DEF StoreShape, Spilling
<1>10. CASE size # CutLength(row)
  <2>1. /\ UNCHANGED <<page, pins, tables, live, unused>>
        /\ call' = [call EXCEPT !.at = "trapped"]
    BY <1>2, <1>6, <1>8, <1>7, <1>10 DEF InsertTuple
  <2>2. AtTrapped'
    BY <1>1, <1>2, <1>6, <1>9, <1>10, <2>1, TrapStep
  <2> QED
    BY <2>1, <2>2, SameShape
<1>11. CASE size = CutLength(row)
  <2>1. /\ page' = [page EXCEPT ![p] = Inserted(@, tuple, size)]
        /\ Unpin(p) /\ Counted(t) /\ call' = Idle /\ UNCHANGED <<live, unused>>
    BY <1>2, <1>6, <1>8, <1>7, <1>11 DEF InsertTuple
  <2>2. HeapShape'
    <3>1. page' = [page EXCEPT ![p] = Inserted(page[p], tuple, size)]
      BY <2>1
    <3> QED
      BY <1>5, <1>6, <2>1, <3>1, PageWritten
  <2>3. pins' = before.pins
    BY <1>1, <1>2, <1>4, <1>6, <2>1, LastUnpin
  <2>4. /\ EP!TableChain(t) = c /\ EP!Target(t, row) = k /\ EP!HasTarget(t, row)
        /\ t \in EP!Existing
    <3>1. Roomless(c, row, k - 1) /\ before.page[c[k]].room >= Needed(row)
      BY <1>1, <1>5, <1>6, <1>7 DEF Passed, Roomless
    <3> QED
      BY <1>1, <1>2, <3>1, TargetBefore, TableChainBefore
  <2>5. EP!ReachesPage(t, row)
    <3>1. k # 0 /\ \A i \in 1 .. k : i \in 1 .. k - 1 \/ i = k
      BY <1>1, <1>4
    <3>2. \A i \in 1 .. k : EP!CanFetch(c[i])
      BY <1>1, <1>2, <3>1, BeforeOfEngine DEF Passed
    <3> QED
      BY <2>4, <3>1, <3>2 DEF EP!ReachesPage
  <2>6. EP!Pieces(row) # << >> => ~EP!Full
    <3>1. ASSUME Pieces(row) # << >> PROVE ~FullIn(before)
      <4>1. ps # << >>
        <5>1. SUFFICES ASSUME ps = << >> PROVE FALSE
          OBVIOUS
        <5>2. Len(Pieces(row)) = 0
          BY <1>1, <5>1, EmptySeq
        <5>3. PICK first : PiecesFrom(row, first)
          BY <1>2, PiecesSound
        <5>4. Pieces(row) \in Seq([column : Spilled(row), chunk : Seq(Nat)])
          BY <5>3 DEF PiecesFrom
        <5> QED
          BY <3>1, <5>2, <5>4, EmptySeq
      <4> QED
        BY <1>1, <4>1 DEF Spilling
    <3> QED
      BY <1>2, <3>1, SamePieces, BeforeOfEngine
  <2>7. /\ ps \in EP!Allocations(Len(EP!Pieces(row)))
        /\ live' = before.live \cup EP!ToSet(ps)
    <3>1. PICK no : no = {}
      OBVIOUS
    <3>2. Spilling(t, c, row, ps, no, FALSE, no)
      BY <1>1, <3>1
    <3>3. ps \in EP!Allocations(Len(ps)) /\ live = before.live \cup EP!ToSet(ps) \cup no
      BY <1>2, <3>2, SpillWritten
    <3> QED
      BY <1>1, <2>1, <3>1, <3>3, SamePieces
  <2>8. page' = [EP!WithPages(EP!OverflowPages(row, ps)) EXCEPT
                    ![c[k]] = EP!Inserted(@, EP!Encoded(row, ps), EP!TupleSize(row))]
    <3>1. page = EP!WithPages(EP!OverflowPages(row, ps))
      BY <1>1, <1>2, SpillIsAll
    <3> QED
      BY <1>6, <2>1, <3>1, SameInserted, SameEncoded, SameSize
  <2>9. call'.at = "idle"
    BY <2>1 DEF Idle
  <2>10. EP!Counted(t)
    BY <1>2, <2>1, <2>9 DEF EP!Counted, Counted
  <2>11. EP!InsertHere(t, row)
    BY <1>2, <2>1, <2>3, <2>4, <2>5, <2>6, <2>7, <2>8, <2>9, <2>10 DEF EP!InsertHere
  <2>12. InsertEnds
    BY <1>2, <2>1, <2>4, <2>11 DEF InsertEnds, EP!Insert
  <2> QED
    BY <2>2, <2>12
<1> QED
  BY <1>10, <1>11

(* The pages once insert has a new page for the table. *)
WrittenBefore(row, ps, p) ==
    EP!WithPages(EP!Over(EP!OverflowPages(row, ps), EP!Only(p, EP!NewDataPage)))

(* What insert has to find for its end to be InsertOnNewPage. *)
OnNewPage(t, row, ps, last, new, w) ==
    /\ t \in EP!Existing /\ row \in Rows /\ ~EP!HasTarget(t, row) /\ ~EP!Full
    /\ ps \in EP!Allocations(Len(EP!Pieces(row)))
    /\ new \in EP!Unused \ EP!ToSet(ps)
    /\ live = before.live \cup EP!ToSet(ps) \cup {new}
    /\ last = EP!Last(EP!TableChain(t)) /\ last \in before.live /\ last # new
    /\ EP!CanLink(t) <=> Linkable(last)
    /\ EP!FitsEmptyPage(row) <=> CanInsert(NewDataPage, TupleSize(row))
    /\ w = WrittenBefore(row, ps, new)
    /\ w = [q \in live |-> w[q]] /\ w[last] = before.page[last] /\ w[new] = NewDataPage
    /\ new \in live /\ last \in live

(* When the new page is linked, the pages are those of the insert of the engine. *)
LEMMA ExtendingIsOnNewPage ==
    ASSUME HeapShape, EP!EngineInv, StoreSound(before), call.at # "idle",
           NEW t, NEW c, NEW row, NEW ps, NEW last, NEW new, NEW changed \in SUBSET {last},
           Extending(t, c, row, ps, last, new, changed)
    PROVE  \E w : /\ OnNewPage(t, row, ps, last, new, w)
                  /\ \A q \in live \ changed : page[q] = w[q]
<1>1. /\ Spilling(t, c, row, ps, {new}, FALSE, changed) /\ Len(ps) = Len(Pieces(row))
      /\ Passed(c, row, Len(c)) /\ last = c[Len(c)] /\ page[new] = NewDataPage
  BY DEF Extending
<1>2. /\ t \in TableNames /\ TablePath(before, t, c) /\ row \in Rows /\ tables = before.tables
      /\ StoreShape(before) /\ ToSet(ps) \cap before.live = {} /\ ~FullIn(before)
      /\ new \in Pages \ (before.live \cup ToSet(ps))
      /\ live = before.live \cup ToSet(ps) \cup {new}
      /\ \A q \in before.live \ changed : page[q] = before.page[q]
  BY <1>1 DEF Spilling, StoreSound, Kept
<1>3. PICK h : PathIn(before, c, h)
  BY <1>2 DEF TablePath
<1>4. /\ Len(c) \in Nat \ {0} /\ last \in before.live
  <2>1. Len(c) \in Nat \ {0}
    BY <1>2, <1>3, PathPages
  <2>2. Len(c) \in 1 .. Len(c)
    BY <2>1
  <2> QED
    BY <1>1, <1>2, <1>3, <2>1, <2>2, PathPages
<1>5. t \in EP!Existing /\ EP!TableChain(t) = c /\ ~EP!HasTarget(t, row)
  BY <1>1, <1>2, TableChainBefore, AllPassed
<1>6. /\ ps \in EP!Allocations(Len(ps)) /\ Written(row, ps) /\ EP!ToSet(ps) = ToSet(ps)
  BY <1>1, <1>2, SpillWritten, SameToSet
<1>7. last = EP!Last(EP!TableChain(t))
  BY <1>1, <1>5 DEF EP!Last
<1>8. EP!CanLink(t) <=> Linkable(last)
  BY <1>7, BeforeOfEngine, SameCardinality DEF EP!CanLink, Linkable
<1>9. EP!FitsEmptyPage(row) <=> CanInsert(NewDataPage, TupleSize(row))
  BY SameCanInsert, SameSize, SameEmptyPage DEF EP!FitsEmptyPage
<1>10. PICK w : w = WrittenBefore(row, ps, new)
  OBVIOUS
<1>11. PICK over : over = OverflowPages(row, ps)
  OBVIOUS
<1>12. DOMAIN over = ToSet(ps) /\ \A q \in ToSet(ps) : page[q] = over[q]
  <2>1. DOMAIN over = ToSet(ps)
    BY <1>11 DEF OverflowPages
  <2> QED
    BY <1>6, <1>11, <2>1 DEF Written
<1>13. w = Over(Over(over, Only(new, NewDataPage)), before.page)
  BY <1>10, <1>11, SameOver, SameOverflow, SameEmptyPage DEF WrittenBefore, EP!WithPages
<1>14. PICK one : one = Only(new, NewDataPage)
  OBVIOUS
<1>15. DOMAIN one = {new} /\ one[new] = NewDataPage
  BY <1>14 DEF Only
<1>16. PICK both : both = Over(over, one)
  OBVIOUS
<1>17. /\ DOMAIN both = ToSet(ps) \cup {new}
       /\ \A q \in ToSet(ps) : both[q] = over[q]
       /\ both[new] = NewDataPage
  BY <1>2, <1>12, <1>15, <1>16 DEF Over
<1>18. DOMAIN before.page = before.live
  BY <1>2 DEF StoreShape
<1>19. /\ w = [q \in live |-> IF q \in ToSet(ps) \cup {new} THEN both[q] ELSE before.page[q]]
  <2>1. w = Over(both, before.page)
    BY <1>13, <1>14, <1>16
  <2>2. (DOMAIN both) \cup (DOMAIN before.page) = live
    BY <1>2, <1>17, <1>18
  <2> QED
    BY <1>17, <2>1, <2>2 DEF Over
<1>20. /\ w = [q \in live |-> w[q]] /\ w[new] = NewDataPage
       /\ \A q \in before.live : w[q] = before.page[q]
       /\ \A q \in ToSet(ps) : w[q] = over[q]
  BY <1>2, <1>17, <1>19
<1>21. \A q \in live \ changed : page[q] = w[q]
  BY <1>1, <1>2, <1>12, <1>20
<1>22. new \in EP!Unused \ EP!ToSet(ps) /\ ~EP!Full
  BY <1>2, <1>6, BeforeOfEngine
<1>23. ps \in EP!Allocations(Len(EP!Pieces(row)))
  BY <1>1, <1>6, SamePieces
<1>24. OnNewPage(t, row, ps, last, new, w)
  BY <1>2, <1>4, <1>5, <1>6, <1>7, <1>8, <1>9, <1>10, <1>20, <1>22, <1>23 DEF OnNewPage
<1> QED
  BY <1>21, <1>24

(* The last page cannot be fetched: the new page stays behind, and pinned. *)
LEMMA JoinFetchStep ==
    ASSUME HeapShape, EP!EngineInv, StoreSound(before), AtJoin, JoinFetch,
           call'.at # "idle" => before' = before
    PROVE  HeapShape' /\ (AtJoined' \/ InsertEnds)
<1>1. PICK t, c, row, ps, last, new :
        /\ Extending(t, c, row, ps, last, new, {}) /\ Pinning({new})
        /\ InsertCall("join", t, row, ps, last, new)
  BY DEF AtJoin
<1>2. /\ call.row = row /\ call.cur = last /\ call.ps = ps /\ call.table = t
      /\ call.op = "insert" /\ call.at # "idle" /\ StoreShape(before)
  BY <1>1 DEF StoreSound, InsertCall
<1>3. Spilling(t, c, row, ps, {new}, FALSE, {})
  BY <1>1 DEF Extending
<1>4. PICK no \in SUBSET {last} : no = {}
  OBVIOUS
<1>5. Extending(t, c, row, ps, last, new, no)
  BY <1>1, <1>4
<1>6. PICK w : OnNewPage(t, row, ps, last, new, w) /\ \A q \in live \ no : page[q] = w[q]
  BY <1>2, <1>5, ExtendingIsOnNewPage
<1>7. page = w
  <2>1. page = [q \in live |-> page[q]]
    BY DEF HeapShape
  <2> QED
    BY <1>4, <1>6, <2>1 DEF OnNewPage
<1>8. last # new /\ last \in before.live /\ new \notin before.live /\ last \in Pages /\ new \in Pages
  BY <1>2, <1>3, <1>6 DEF OnNewPage, StoreShape, Spilling
<1>9. Pinned = PinnedIn(before) \cup {new} /\ new \notin PinnedIn(before)
  <2>1. {new} \in SUBSET Pages
    BY <1>8
  <2> QED
    BY <1>1, <1>2, <1>8, <2>1, PinnedPages DEF StoreShape
<1>10. CanFetch(last) <=> Linkable(last)
  <2>1. IsFiniteSet(PinnedIn(before))
    BY EngineAssumption, FS_Subset DEF PinnedIn
  <2>2. Cardinality(Pinned) = Cardinality(PinnedIn(before)) + 1
    BY <1>9, <2>1, FS_AddElement
  <2>3. PICK n \in Nat, m \in Nat : n = Cardinality(PinnedIn(before)) /\ m = PoolSize
    BY <2>1, FS_CardinalityType, HeapAssumption
  <2>4. ~Full <=> n + 1 < m
    BY <2>2, <2>3 DEF Full
  <2> QED
    BY <1>8, <1>9, <2>3, <2>4 DEF CanFetch, Linkable
<1>11. /\ call' = IF Linkable(last) THEN [call EXCEPT !.at = "joined"] ELSE Idle
       /\ pins' = IF Linkable(last) THEN [pins EXCEPT ![last] = @ + 1] ELSE pins
       /\ UNCHANGED <<live, page, tables, unused>>
  BY <1>2, <1>10 DEF JoinFetch, Fetch
<1>12. HeapShape'
  BY <1>11, SameShape
<1>13. CASE Linkable(last)
  <2>1. call' = [call EXCEPT !.at = "joined"] /\ pins' = [pins EXCEPT ![last] = @ + 1]
    BY <1>11, <1>13
  <2>2. InsertCall("joined", t, row, ps, last, new)'
    BY <1>1, <2>1 DEF InsertCall
  <2>3. before' = before
    BY <2>2 DEF InsertCall
  <2>4. Pinning({new, last})'
    <3>1. {new} \in SUBSET Pages /\ last \in Pages \ {new} /\ {new, last} = {new} \cup {last}
      BY <1>8
    <3> QED
      BY <1>1, <1>2, <2>1, <2>3, <3>1, PinOne
  <2>5. Spilling(t, c, row, ps, {new}, FALSE, {})'
    BY <1>3, <1>11, <2>3, SpillingStays
  <2>6. Extending(t, c, row, ps, last, new, {})' /\ Linkable(last)'
    BY <1>1, <1>11, <1>13, <2>3, <2>5
       DEF Extending, Passed, NewDataPage, EmptyPage, Linkable
  <2>7. AtJoined'
    BY <2>2, <2>4, <2>6 DEF AtJoined
  <2> QED
    BY <1>12, <2>7
<1>14. CASE ~Linkable(last)
  <2>1. call' = Idle /\ pins' = pins /\ call'.at = "idle" /\ ~EP!CanLink(t)
    BY <1>6, <1>11, <1>14 DEF Idle, OnNewPage
  <2>2. pins' = [before.pins EXCEPT ![new] = 1]
    BY <1>1, <1>2, <1>8, <1>9, <2>1, AbandonedPin
  <2>3. page' = WrittenBefore(row, ps, new)
    BY <1>6, <1>7, <1>11 DEF OnNewPage
  <2>4. tables' = before.tables
    BY <1>3, <1>11 DEF Spilling
  <2>5. EP!InsertOnNewPage(t, row)
    BY <1>2, <1>6, <1>11, <2>1, <2>2, <2>3, <2>4
       DEF EP!InsertOnNewPage, WrittenBefore, OnNewPage
  <2>6. InsertEnds
    BY <1>2, <1>6, <2>1, <2>5 DEF InsertEnds, EP!Insert, OnNewPage
  <2> QED
    BY <1>12, <2>6
<1> QED
  BY <1>13, <1>14

(* The tuple goes to the new page, if it fits an empty one. *)
LEMMA StoreInNewStep ==
    ASSUME HeapShape, EP!EngineInv, StoreSound(before), AtStore, StoreInNew
    PROVE  HeapShape' /\ (AtTrapped' \/ InsertEnds)
<1>1. PICK t, c, row, ps, last, new :
        /\ Extending(t, c, row, ps, last, new, {last}) /\ Linkable(last)
        /\ page[last] = [before.page[last] EXCEPT !.next = new]
        /\ Pinning({new})
        /\ InsertCall("store", t, row, ps, last, new)
  BY DEF AtStore
<1>2. /\ Spilling(t, c, row, ps, {new}, FALSE, {last}) /\ page[new] = NewDataPage
      /\ StoreShape(before) /\ call.row = row /\ call.ps = ps /\ call.table = t
      /\ call.op = "insert" /\ call.at # "idle" /\ call.new = new
  BY <1>1 DEF Extending, StoreSound, InsertCall
<1>3. /\ row \in Rows /\ tables = before.tables /\ new \in Pages \ before.live
      /\ before.live \subseteq live /\ new \in live
  BY <1>2 DEF Spilling
<1>4. PICK w : OnNewPage(t, row, ps, last, new, w) /\ \A q \in live \ {last} : page[q] = w[q]
  <2>1. {last} \in SUBSET {last}
    OBVIOUS
  <2> QED
    BY <1>1, <1>2, <2>1, ExtendingIsOnNewPage
<1>5. EP!CanLink(t) /\ last # new /\ last \in live
  BY <1>1, <1>4 DEF OnNewPage
<1>6. PICK linked : linked = [w EXCEPT ![last].next = new]
  OBVIOUS
<1>7. page = linked
  <2>1. /\ w = [q \in live |-> w[q]] /\ w[last] = before.page[last]
        /\ page = [q \in live |-> page[q]]
    BY <1>4 DEF OnNewPage, HeapShape
  <2>2. linked = [q \in live |-> IF q = last THEN [w[last] EXCEPT !.next = new] ELSE w[q]]
    BY <1>5, <1>6, <2>1
  <2>3. \A q \in live : page[q] = IF q = last THEN [w[last] EXCEPT !.next = new] ELSE w[q]
    BY <1>1, <1>4, <2>1
  <2> QED
    BY <2>1, <2>2, <2>3
<1>8. PICK size, tuple : size = TupleSize(row) /\ tuple = Encoded(row, ps)
  OBVIOUS
<1>9. InsertTuple(new, Idle)
  BY <1>2 DEF StoreInNew
<1>10. Pinned \subseteq live /\ {new} \in SUBSET Pages
  <2>1. Pinned = PinnedIn(before) \cup {new}
    <3>1. {new} \in SUBSET Pages
      BY <1>3
    <3> QED
      BY <1>1, <1>2, <3>1, PinnedPages
  <2> QED
    BY <1>2, <1>3, <2>1 DEF StoreShape
<1>11. CASE ~CanInsert(NewDataPage, CutLength(row))
  <2>1. call' = Idle /\ UNCHANGED <<live, page, pins, tables, unused>>
    BY <1>2, <1>9, <1>11 DEF InsertTuple
  <2>2. ~EP!FitsEmptyPage(row)
    <3>1. PICK s \in Nat, n \in Nat : s = TupleSize(row) /\ n = CutLength(row) /\ n <= s
      BY <1>3, CutLengths
    <3>2. PICK room \in Nat, used \in Nat : room = NewDataPage.room /\ used = SlotBytes(NewDataPage)
      <4>1. NewDataPage.room \in Nat
        BY EngineAssumption DEF NewDataPage, EmptyPage
      <4>2. SlotBytes(NewDataPage) \in Nat
        BY EngineAssumption DEF SlotBytes
      <4> QED
        BY <4>1, <4>2
    <3>3. ~(room >= n + used)
      BY <1>11, <3>1, <3>2 DEF CanInsert
    <3>4. ~(room >= s + used)
      BY <3>1, <3>2, <3>3
    <3> QED
      BY <1>4, <3>1, <3>2, <3>4 DEF OnNewPage, CanInsert
  <2>3. pins' = [before.pins EXCEPT ![new] = 1]
    BY <1>1, <1>2, <1>3, <2>1, AbandonedPin
  <2>4. call'.at = "idle" /\ tables' = before.tables /\ page' = linked
    BY <1>3, <1>7, <2>1 DEF Idle
  <2>7. PICK b : b = WrittenBefore(row, ps, new)
    OBVIOUS
  <2>8. page' = IF EP!CanLink(t) THEN [b EXCEPT ![EP!Last(EP!TableChain(t))].next = new] ELSE b
    BY <1>4, <1>5, <1>6, <2>4, <2>7 DEF OnNewPage
  <2>9. /\ ~(EP!CanLink(t) /\ EP!FitsEmptyPage(row)) /\ ~EP!HasTarget(t, row) /\ ~EP!Full
        /\ ps \in EP!Allocations(Len(EP!Pieces(row)))
        /\ new \in EP!Unused \ EP!ToSet(ps)
        /\ live' = before.live \cup EP!ToSet(ps) \cup {new}
    BY <1>4, <2>1, <2>2 DEF OnNewPage
  <2>5. EP!InsertOnNewPage(t, row)
    BY <1>2, <2>3, <2>4, <2>7, <2>8, <2>9 DEF EP!InsertOnNewPage, WrittenBefore
  <2>6. InsertEnds
    BY <1>2, <1>4, <2>1, <2>5 DEF InsertEnds, EP!Insert, OnNewPage
  <2> QED
    BY <2>1, <2>6, SameShape
<1>12. CASE CanInsert(NewDataPage, CutLength(row)) /\ size # CutLength(row)
  <2>1. /\ UNCHANGED <<page, pins, tables, live, unused>>
        /\ call' = [call EXCEPT !.at = "trapped"]
    BY <1>2, <1>8, <1>9, <1>12 DEF InsertTuple
  <2>2. AtTrapped'
    BY <1>1, <1>2, <1>3, <1>8, <1>10, <1>12, <2>1, TrapStep
  <2> QED
    BY <2>1, <2>2, SameShape
<1>13. CASE CanInsert(NewDataPage, CutLength(row)) /\ size = CutLength(row)
  <2>1. /\ page' = [page EXCEPT ![new] = Inserted(@, tuple, size)]
        /\ Unpin(new) /\ Counted(t) /\ call' = Idle /\ UNCHANGED <<live, unused>>
    BY <1>2, <1>8, <1>9, <1>13 DEF InsertTuple
  <2>2. HeapShape'
    <3>1. page' = [page EXCEPT ![new] = Inserted(page[new], tuple, size)]
      BY <2>1
    <3> QED
      BY <1>3, <2>1, <3>1, PageWritten
  <2>3. pins' = before.pins
    BY <1>1, <1>2, <1>3, <2>1, LastUnpin
  <2>4. EP!FitsEmptyPage(row)
    BY <1>4, <1>8, <1>13 DEF OnNewPage
  <2>5. call'.at = "idle"
    BY <2>1 DEF Idle
  <2>6. EP!Counted(t)
    BY <1>2, <1>3, <2>1, <2>5 DEF EP!Counted, Counted
  <2>7. page' = [linked EXCEPT ![new] = EP!Inserted(@, EP!Encoded(row, ps), EP!TupleSize(row))]
    BY <1>7, <1>8, <2>1, SameInserted, SameEncoded, SameSize
  <2>8. EP!InsertOnNewPage(t, row)
    BY <1>2, <1>4, <1>5, <1>6, <2>1, <2>3, <2>4, <2>5, <2>6, <2>7
       DEF EP!InsertOnNewPage, WrittenBefore, OnNewPage
  <2>9. InsertEnds
    BY <1>2, <1>4, <2>1, <2>8 DEF InsertEnds, EP!Insert, OnNewPage
  <2> QED
    BY <2>2, <2>9
<1> QED
  BY <1>11, <1>12, <1>13

-----------------------------------------------------------------------------

(* The steps of delete that find nothing, or remove the tuple. *)

(* A deletion that is over. *)
DeleteEnds ==
    /\ call' = Idle
    /\ \/ UNCHANGED EP!vars
       \/ /\ call.op = "delete"
          /\ \E t \in EP!Existing : \E p \in before.live : \E s :
                /\ call.table = t /\ call.id = <<p, s>>
                /\ EP!HasTuple(p, s) /\ EP!Delete(t, p, s)

(* delete fetches the page and collects the pointers to free. *)
LEMMA DeleteFetchStep ==
    ASSUME HeapShape, StoreSound(before), AtTuple, DeleteFetch,
           call'.at # "idle" => before' = before
    PROVE  HeapShape' /\ (AtRemove' \/ AtRelease' \/ DeleteEnds)
<1>1. PICK t, p, s :
        /\ t \in TableNames /\ before.tables[t] # Absent /\ tables = before.tables
        /\ p \in before.live /\ Untouched /\ Pinning({})
        /\ DeleteCall("tuple", t, p, s, << >>, NoPage, NoPage)
  BY DEF AtTuple
<1>2. StoreShape(before) /\ p \in Pages /\ page = before.page /\ live = before.live
  BY <1>1 DEF StoreSound, StoreShape, Untouched
<1>3. call.id[1] = p /\ call.id[2] = s /\ call.id = <<p, s>> /\ call.at # "idle"
  BY <1>1 DEF DeleteCall
<1>4. PICK tuple : tuple = TupleIn(before, p, s)
  OBVIOUS
<1>5. TupleAt(call.id) = tuple /\ (HasTuple(p, s) <=> HasTupleIn(before, p, s))
  BY <1>2, <1>3, <1>4 DEF TupleAt, TupleIn, HasTuple, HasTupleIn, IsDataPage, HasSlots
<1>6. PICK columns : columns = IF HasTuple(p, s) THEN Placeholders(tuple) ELSE << >>
  OBVIOUS
<1>7. PICK Q : Q = [i \in DOMAIN columns |-> tuple[columns[i]].pointer]
  OBVIOUS
<1>8. /\ call' = IF CanFetch(p) THEN DeleteRest(Q) ELSE Idle
      /\ pins' = IF CanFetch(p) THEN [pins EXCEPT ![p] = @ + 1] ELSE pins
      /\ UNCHANGED <<live, page, tables, unused>>
  BY <1>3, <1>5, <1>6, <1>7 DEF DeleteFetch, Fetch
<1>9. CanFetch(p) <=> ReachedIn(before, p)
  BY <1>1, <1>2, SameFetches
<1>10. HeapShape'
  BY <1>8, SameShape
<1>11. CASE ~ReachedIn(before, p)
  <2>1. call' = Idle /\ pins' = pins
    BY <1>8, <1>9, <1>11
  <2>2. UNCHANGED EP!vars
    BY <1>1, <1>2, <1>3, <1>8, <2>1, NothingChanged DEF Idle
  <2> QED
    BY <1>10, <2>1, <2>2 DEF DeleteEnds
<1>12. CASE ReachedIn(before, p)
  <2>1. call' = DeleteRest(Q) /\ pins' = [pins EXCEPT ![p] = @ + 1]
    BY <1>8, <1>9, <1>12
  <2>2. PICK at : at = IF Q = << >> THEN "remove" ELSE "release"
    OBVIOUS
  <2>3. DeleteCall(at, t, p, s, Q, NoPage, NoPage)'
    BY <1>1, <2>1, <2>2 DEF DeleteCall, DeleteRest
  <2>4. before' = before
    BY <2>2, <2>3 DEF DeleteCall
  <2>5. Pinning({p})'
    <3>1. {} \in SUBSET Pages /\ p \in Pages \ {} /\ {p} = {} \cup {p}
      BY <1>2
    <3> QED
      BY <1>1, <1>2, <2>1, <2>4, <3>1, PinOne
  <2>6. PICK holders : holders = {c \in DOMAIN tuple : IsPlaceholder(tuple[c])}
    OBVIOUS
  <2>7. HasTupleIn(before, p, s) =>
          /\ DOMAIN tuple \in SUBSET Nat /\ IsFiniteSet(DOMAIN tuple)
          /\ \A c \in holders : PointerIn(before, p, s, c) /\ tuple[c].pointer \in Pages
    BY <1>1, <1>2, <1>4, <2>6, TupleShape
  <2>8. /\ columns \in Seq(Nat) /\ Len(columns) \in Nat /\ DOMAIN columns = 1 .. Len(columns)
        /\ IsInjective(columns)
        /\ HasTupleIn(before, p, s) => {columns[i] : i \in 1 .. Len(columns)} = holders
        /\ columns # << >> => HasTupleIn(before, p, s)
    <3>1. CASE HasTupleIn(before, p, s)
      <4>1. columns = Ascending(holders) /\ holders \in SUBSET Nat /\ IsFiniteSet(holders)
        BY <1>5, <1>6, <2>6, <2>7, <3>1, FS_Subset DEF Placeholders
      <4>2. /\ columns \in Seq(holders) /\ IsInjective(columns) /\ ToSet(columns) = holders
            /\ DOMAIN columns = 1 .. Len(columns)
        BY <4>1, AscendingSound
      <4>3. Len(columns) \in Nat
        BY <4>2, LenProperties
      <4>4. \A i \in 1 .. Len(columns) : columns[i] \in Nat
        BY <4>1, <4>2, <4>3, ElementOfSeq
      <4>5. columns = [i \in 1 .. Len(columns) |-> columns[i]]
        BY <4>2
      <4>6. columns \in Seq(Nat)
        BY <4>3, <4>4, <4>5, IsASeq
      <4> QED
        BY <3>1, <4>2, <4>3, <4>6 DEF ToSet
    <3>2. CASE ~HasTupleIn(before, p, s)
      <4>1. columns = << >>
        BY <1>5, <1>6, <3>2
      <4> QED
        BY <3>2, <4>1, EmptySeq DEF IsInjective
    <3> QED
      BY <3>1, <3>2
  <2>9. PICK n \in Nat : n = Len(columns)
    BY Zenon, <2>8
  <2>10. /\ Q \in Seq(Pages) /\ Len(Q) = n
         /\ \A i \in 1 .. n : Q[i] = tuple[columns[i]].pointer /\ columns[i] \in holders
         /\ n # 0 => HasTupleIn(before, p, s)
    <3>1. n # 0 => columns # << >>
      BY <2>8, <2>9, EmptySeq
    <3>2. \A i \in 1 .. n : columns[i] \in holders
      BY <2>8, <2>9, <3>1
    <3>3. Q = [i \in 1 .. n |-> tuple[columns[i]].pointer]
      BY <1>7, <2>8, <2>9
    <3>4. \A i \in 1 .. n : Q[i] \in Pages
      BY <2>7, <2>8, <2>9, <3>1, <3>2, <3>3
    <3>5. Q \in Seq(Pages) /\ Len(Q) = n
      BY <3>3, <3>4, IsASeq
    <3> QED
      BY <2>8, <3>1, <3>2, <3>3, <3>5
  <2>11. PICK D : D = [i \in 1 .. n |-> CHOOSE d : PointerPath(before, d, Q[i])]
    OBVIOUS
  <2>12. \A i \in 1 .. n : PointerPath(before, D[i], Q[i])
    <3>1. ASSUME NEW i \in 1 .. n PROVE PointerPath(before, D[i], Q[i])
      <4>1. PointerIn(before, p, s, columns[i]) /\ Q[i] = TupleIn(before, p, s)[columns[i]].pointer
        BY <1>4, <2>7, <2>10, <3>1
      <4>2. \E d : PointerPath(before, d, Q[i])
        BY <1>1, <4>1 DEF StoreSound, StorePaths
      <4> QED
        BY <2>11, <3>1, <4>2
    <3> QED
      BY <3>1
  <2>13. \A i, j \in 1 .. n : i # j => ToSet(D[i]) \cap ToSet(D[j]) = {}
    <3>1. ASSUME NEW i \in 1 .. n, NEW j \in 1 .. n, i # j PROVE ToSet(D[i]) \cap ToSet(D[j]) = {}
      <4>1. columns[i] # columns[j]
        BY <2>8, <2>9, <3>1 DEF IsInjective
      <4>2. ASSUME NEW l \in 1 .. n
            PROVE  /\ PointerIn(before, p, s, columns[l])
                   /\ PathIn(before, D[l], TupleIn(before, p, s)[columns[l]].pointer)
        BY <1>4, <2>7, <2>10, <2>12, <4>2 DEF PointerPath
      <4> QED
        BY <1>1, <3>1, <4>1, <4>2 DEF StoreSound, StoreApart
    <3> QED
      BY <3>1
  <2>14. HasTupleIn(before, p, s) =>
            {Q[i] : i \in 1 .. Len(Q)} =
            {TupleIn(before, p, s)[c].pointer :
                c \in {d \in DOMAIN TupleIn(before, p, s) : IsPlaceholder(TupleIn(before, p, s)[d])}}
    <3>1. ASSUME HasTupleIn(before, p, s)
          PROVE  {Q[i] : i \in 1 .. n} = {tuple[c].pointer : c \in holders}
      <4>1. {columns[i] : i \in 1 .. n} = holders
        BY <2>8, <2>9, <3>1
      <4> QED
        BY <2>10, <4>1
    <3> QED
      BY <1>4, <2>6, <2>10, <3>1
  <2>15. Deleting(t, p, s, Q, D)'
    <3>1. Q # << >> => HasTupleIn(before, p, s)
      BY <2>10, EmptySeq
    <3> QED
      BY <1>1, <1>8, <1>12, <2>4, <2>10, <2>12, <2>13, <2>14, <3>1 DEF Deleting
  <2>16. Freed(Behind(D, 0, 1))'
    <3>1. Behind(D, 0, 1) = {}
      BY DEF Behind
    <3>2. live' = before.live /\ page' = before.page
      BY <1>2, <1>8
    <3> QED
      BY <2>4, <3>1, <3>2 DEF Freed, Kept, Behind
  <2>17. Rest(Q, 0, Q) /\ (Q = << >> => 0 = Len(Q))
    <3>1. \A i \in 1 .. Len(Q) : Q[i] = Q[0 + i]
      BY <2>9, <2>10
    <3> QED
      BY <2>9, <2>10, <3>1, EmptySeq DEF Rest
  <2>18. AtRemove' \/ AtRelease'
    BY <2>2, <2>3, <2>5, <2>15, <2>16, <2>17, DeleteGoesOn
  <2> QED
    BY <1>10, <2>18
<1> QED
  BY <1>11, <1>12

(* The pointers of a tuple are those of the engine. *)
LEMMA SamePlaceholder == \A x : EP!IsPlaceholder(x) <=> IsPlaceholder(x)
BY DEF EP!IsPlaceholder, IsPlaceholder

(* What all the chains of the row amount to. *)
LEMMA FreedBefore ==
    ASSUME EP!EngineInv, StoreSound(before), call.at # "idle",
           NEW t, NEW p, NEW s, NEW Q, NEW D, Deleting(t, p, s, Q, D),
           HasTupleIn(before, p, s), NEW tuple, tuple = TupleIn(before, p, s),
           NEW freed, freed = EP!FreedWith(tuple)
    PROVE  \A q : q \in freed <=>
                /\ q \in Behind(D, Len(Q), 1)
                /\ q \notin PinnedIn(before) /\ ~FullIn(before)
<1>1. p \in before.live /\ StoreShape(before)
  BY DEF Deleting, StoreSound
<1>2. PICK holders : holders = {c \in DOMAIN tuple : IsPlaceholder(tuple[c])}
  OBVIOUS
<1>3. \A c \in holders : PointerIn(before, p, s, c) /\ tuple[c].pointer \in Pages
  BY <1>1, <1>2, TupleShape
<1>4. PICK n : n = Len(Q)
  OBVIOUS
<1>5. {Q[i] : i \in 1 .. n} = {tuple[c].pointer : c \in holders}
  BY <1>2, <1>4 DEF Deleting
<1>6. /\ \A i \in 1 .. n : \E c \in holders : Q[i] = tuple[c].pointer
      /\ \A c \in holders : \E i \in 1 .. n : Q[i] = tuple[c].pointer
  BY <1>5
<1>7. ASSUME NEW i \in 1 .. n PROVE EP!Chain(Q[i]) = D[i]
  <2>1. PICK c \in holders : Q[i] = tuple[c].pointer
    BY <1>6, <1>7
  <2>2. PICK h : h = Q[i]
    OBVIOUS
  <2>3. PICK d : d = D[i]
    OBVIOUS
  <2>4. PointerIn(before, p, s, c) /\ h = TupleIn(before, p, s)[c].pointer
    BY <1>3, <2>1, <2>2
  <2>5. PathIn(before, d, h)
    BY <1>4, <1>7, <2>2, <2>3 DEF Deleting, PointerPath
  <2>6. EP!Chain(h) = d
    BY <1>1, <2>4, <2>5, PointerChainBefore
  <2> QED
    BY <2>2, <2>3, <2>6
<1>8. \A q : q \in freed <=>
        \E c \in holders : /\ q \in ToSet(EP!Chain(tuple[c].pointer))
                           /\ ReachedIn(before, q) /\ q \notin PinnedIn(before)
  <2>1. freed = UNION {{q \in ToSet(EP!Chain(tuple[c].pointer)) : ReachedIn(before, q)}
                          \ PinnedIn(before) : c \in holders}
    BY <1>2, BeforeOfEngine, SameToSet, SamePlaceholder DEF EP!FreedWith
  <2> QED
    BY <2>1
<1>9. \A q : q \in freed <=>
        \E i \in 1 .. n : /\ q \in ToSet(D[i])
                          /\ ReachedIn(before, q) /\ q \notin PinnedIn(before)
  BY <1>6, <1>7, <1>8
<1>10. ASSUME NEW i \in 1 .. n PROVE ToSet(D[i]) \subseteq Pages
  <2>1. PICK d : d = D[i]
    OBVIOUS
  <2>2. i \in 1 .. Len(Q)
    BY <1>4, <1>10
  <2>3. DOMAIN d = 1 .. Len(d)
    BY <2>1, <2>2, DeletedPath
  <2>4. \A j \in 1 .. Len(d) : d[j] \in Pages
    BY <2>1, <2>2, DeletedPath
  <2> QED
    BY <2>1, <2>3, <2>4 DEF ToSet
<1>11. \A q : q \in Behind(D, n, 1) <=> \E i \in 1 .. n : q \in ToSet(D[i])
  BY <1>10 DEF Behind
<1>12. \A q : q \notin PinnedIn(before) => (ReachedIn(before, q) <=> ~FullIn(before))
  BY DEF ReachedIn
<1> QED
  BY <1>4, <1>9, <1>11, <1>12

(* The row itself is on the page, or there was none. *)
LEMMA RemoveStep ==
    ASSUME HeapShape, EP!EngineInv, StoreSound(before), AtRemove, RemoveTuple
    PROVE  HeapShape' /\ DeleteEnds
<1>1. PICK t, p, s, Q, D, cur, next :
        /\ Deleting(t, p, s, Q, D) /\ Freed(Behind(D, Len(Q), 1)) /\ Pinning({p})
        /\ DeleteCall("remove", t, p, s, << >>, cur, next)
  BY DEF AtRemove
<1>2. /\ Q \in Seq(Pages) /\ StoreShape(before) /\ p \in Pages /\ ReachedIn(before, p)
      /\ p \in before.live /\ tables = before.tables /\ t \in TableNames
      /\ before.tables[t] # Absent
  BY <1>1 DEF Deleting, StoreSound, StoreShape
<1>3. PICK n : n = Len(Q)
  OBVIOUS
<1>4. p \in live
  <2>1. ASSUME NEW i \in 1 .. n PROVE p \notin ToSet(D[i])
    <3>1. PICK d : d = D[i]
      OBVIOUS
    <3>2. p \notin ToSet(d)
      BY <1>1, <1>3, <2>1, <3>1, DeletedPath
    <3> QED
      BY <3>1, <3>2
  <2>2. p \notin Behind(D, n, 1)
    BY <2>1 DEF Behind
  <2> QED
    BY <1>1, <1>2, <1>3, <2>2 DEF Freed
<1>5. page[p] = before.page[p]
  BY <1>1, <1>4 DEF Freed, Kept
<1>6. call.id[1] = p /\ call.id[2] = s /\ call.id = <<p, s>> /\ call.at # "idle"
      /\ call.table = t /\ call.op = "delete"
  BY <1>1 DEF DeleteCall
<1>7. HasTuple(p, s) <=> HasTupleIn(before, p, s)
  BY <1>5 DEF HasTuple, HasTupleIn, IsDataPage, HasSlots
<1>8. /\ page' = IF HasTuple(p, s) THEN [page EXCEPT ![p] = Deleted(@, s)] ELSE page
      /\ tables' = IF HasTuple(p, s)
                   THEN [tables EXCEPT ![t].row_count = (@ - 1) % CountModulus] ELSE tables
      /\ Unpin(p) /\ call' = Idle /\ UNCHANGED <<live, unused>>
  BY <1>6 DEF RemoveTuple, Return
<1>9. pins' = before.pins
  BY <1>1, <1>2, <1>8, LastUnpin
<1>10. call'.at = "idle"
  BY <1>8 DEF Idle
<1>11. page = [q \in live |-> before.page[q]]
  BY <1>1 DEF HeapShape, Freed, Kept
<1>12. CASE ~HasTuple(p, s)
  <2>1. Q = << >>
    BY <1>1, <1>7, <1>12 DEF Deleting
  <2>2. Behind(D, n, 1) = {}
    <3>1. n = 0
      BY <1>3, <2>1, EmptySeq
    <3> QED
      BY <3>1 DEF Behind
  <2>3. live = before.live
    BY <1>1, <1>3, <2>2 DEF Freed
  <2>4. page = before.page
    BY <1>2, <1>11, <2>3 DEF StoreShape
  <2>5. UNCHANGED EP!vars
    BY <1>2, <1>6, <1>8, <1>9, <1>10, <1>12, <2>3, <2>4 DEF EP!vars
  <2>6. HeapShape'
    BY <1>8, <1>12, SameShape
  <2> QED
    BY <1>8, <2>5, <2>6 DEF DeleteEnds
<1>13. CASE HasTuple(p, s)
  <2>1. HasTupleIn(before, p, s)
    BY <1>7, <1>13
  <2>2. t \in EP!Existing
    BY <1>2, <1>6 DEF EP!Existing
  <2>3. EP!HasTuple(p, s)
    BY <1>6, <2>1, SameLiveSlots DEF EP!HasTuple, EP!IsDataPage, HasTupleIn, HasSlots
  <2>4. PICK freed : freed = EP!FreedWith(TupleIn(before, p, s))
    OBVIOUS
  <2>5. live = before.live \ freed
    <3>1. PICK tuple : tuple = TupleIn(before, p, s)
      OBVIOUS
    <3>2. \A q : q \in freed <=>
                /\ q \in Behind(D, n, 1)
                /\ q \notin PinnedIn(before) /\ ~FullIn(before)
      <4>1. freed = EP!FreedWith(tuple)
        BY <2>4, <3>1
      <4> QED
        BY <1>1, <1>3, <1>6, <2>1, <3>1, <4>1, FreedBefore
    <3> QED
      BY <1>1, <1>3, <3>2 DEF Freed
  <2>6. PICK kept : kept = before.live \ freed
    OBVIOUS
  <2>7. page' = [[q \in kept |-> before.page[q]] EXCEPT ![p] = EP!Deleted(@, s)]
    BY <1>8, <1>11, <1>13, <2>5, <2>6, SameDeleted
  <2>8. tables' = [before.tables EXCEPT ![t].row_count = (@ - 1) % CountModulus]
    BY <1>2, <1>8, <1>13
  <2>9. EP!CanFetch(p)
    BY <1>2, <1>6, BeforeOfEngine
  <2>10. kept = before.live \ EP!FreedWith(before.page[p].slots[s])
    BY <2>4, <2>6 DEF TupleIn
  <2>11. live' = kept
    BY <1>8, <2>5, <2>6
  <2>12. EP!Delete(t, p, s)
    BY <1>6, <1>9, <1>10, <2>7, <2>8, <2>9, <2>10, <2>11 DEF EP!Delete
  <2>13. HeapShape'
    <3>1. page' = [page EXCEPT ![p] = Deleted(page[p], s)]
      BY <1>8, <1>13
    <3> QED
      BY <1>4, <1>8, <3>1, PageWritten
  <2> QED
    BY <1>2, <1>6, <1>8, <2>2, <2>3, <2>12, <2>13 DEF DeleteEnds
<1> QED
  BY <1>12, <1>13

-----------------------------------------------------------------------------

(* get and scan answer. *)

(* A read that is over. *)
ReadEnds ==
    /\ call' = Idle
    /\ \/ UNCHANGED EP!vars
       \/ /\ call.op = "get"
          /\ \E t \in EP!Existing : \E p \in before.live :
                call.id[1] = p /\ EP!GetNothing(p)

(* get fetches the row's page. *)
LEMMA GetFetchStep ==
    ASSUME HeapShape, StoreSound(before), AtRow, GetFetch,
           call'.at # "idle" => before' = before
    PROVE  HeapShape' /\ (AtGot' \/ ReadEnds)
<1>1. PICK t, p, s :
        /\ Reader(t) /\ p \in before.live /\ Pinning({})
        /\ HasTupleIn(before, p, s) \/ before.pins[p] < MaxPins
        /\ ReadCall("row", "get", t, p, s, << >>, << >>, p, << >>)
  BY DEF AtRow
<1>2. StoreShape(before) /\ p \in Pages /\ tables = before.tables /\ Untouched
  BY <1>1 DEF StoreSound, StoreShape, Reader
<1>3. call.id[1] = p /\ call.at # "idle"
  BY <1>1 DEF ReadCall
<1>4. /\ call' = IF CanFetch(p) THEN [call EXCEPT !.at = "got"] ELSE Idle
      /\ pins' = IF CanFetch(p) THEN [pins EXCEPT ![p] = @ + 1] ELSE pins
      /\ UNCHANGED <<live, page, tables, unused>>
  BY <1>3 DEF GetFetch, Fetch
<1>5. CanFetch(p) <=> ReachedIn(before, p)
  BY <1>1, <1>2, SameFetches
<1>6. HeapShape'
  BY <1>4, SameShape
<1>7. CASE ~ReachedIn(before, p)
  <2>1. call' = Idle /\ pins' = pins
    BY <1>4, <1>5, <1>7
  <2>2. UNCHANGED EP!vars
    BY <1>1, <1>2, <1>3, <1>4, <2>1, NothingChanged DEF Idle
  <2> QED
    BY <1>6, <2>1, <2>2 DEF ReadEnds
<1>8. CASE ReachedIn(before, p)
  <2>1. call' = [call EXCEPT !.at = "got"] /\ pins' = [pins EXCEPT ![p] = @ + 1]
    BY <1>4, <1>5, <1>8
  <2>2. ReadCall("got", "get", t, p, s, << >>, << >>, p, << >>)'
    BY <1>1, <2>1 DEF ReadCall
  <2>3. before' = before
    BY <2>2 DEF ReadCall
  <2>4. Pinning({p})'
    <3>1. {} \in SUBSET Pages /\ p \in Pages \ {} /\ {p} = {} \cup {p}
      BY <1>2
    <3> QED
      BY <1>1, <1>2, <2>1, <2>3, <3>1, PinOne
  <2>5. Reader(t)'
    BY <1>1, <1>4, <2>3, StillReading
  <2>6. HasTupleIn(before, p, s)' \/ (before.pins[p] < MaxPins)'
    BY <1>1, <1>4, <2>3, StillReading
  <2>7. (p \in before.live)' /\ ReachedIn(before, p)'
    BY <1>1, <1>8, <2>3
  <2> QED
    BY <1>6, <2>2, <2>4, <2>5, <2>6, <2>7 DEF AtGot
<1> QED
  BY <1>7, <1>8

(* get takes the tuple, or returns with the page still pinned. *)
LEMMA GetTupleStep ==
    ASSUME HeapShape, StoreSound(before), AtGot, GetTuple,
           call'.at # "idle" => before' = before
    PROVE  HeapShape' /\ (AtRead' \/ AtAnswer' \/ ReadEnds)
<1>1. PICK t, p, s :
        /\ Reader(t) /\ p \in before.live /\ ReachedIn(before, p) /\ Pinning({p})
        /\ HasTupleIn(before, p, s) \/ before.pins[p] < MaxPins
        /\ ReadCall("got", "get", t, p, s, << >>, << >>, p, << >>)
  BY DEF AtGot
<1>2. StoreShape(before) /\ p \in Pages /\ tables = before.tables /\ Untouched
      /\ page = before.page /\ live = before.live /\ t \in TableNames /\ before.tables[t] # Absent
  BY <1>1 DEF StoreSound, StoreShape, Reader, Untouched
<1>3. call.id = <<p, s>> /\ call.id[1] = p /\ call.id[2] = s /\ call.at # "idle" /\ call.op = "get"
  BY <1>1 DEF ReadCall
<1>4. HasTuple(p, s) <=> HasTupleIn(before, p, s)
  BY <1>2 DEF HasTuple, HasTupleIn, IsDataPage, HasSlots
<1>5. UNCHANGED <<live, page, tables, unused>> /\ HeapShape'
  BY SameShape DEF GetTuple
<1>6. CASE HasTuple(p, s)
  <2>1. PICK r, R : r = TupleWithId(p, s) /\ R = <<r>>
    OBVIOUS
  <2>2. Unpin(p) /\ call' = Resolving(R)
    BY <1>3, <1>6, <2>1 DEF GetTuple
  <2>3. r = [id |-> <<p, s>>, tuple |-> TupleIn(before, p, s)]
    BY <1>2, <2>1 DEF TupleWithId, TupleIn
  <2>4. r \in RowsBefore
    <3>1. s \in Nat /\ TupleIn(before, p, s) \in StoredTuples
      <4>1. PICK pg : pg = before.page[p]
        OBVIOUS
      <4>2. pg \in SoundPages /\ "slots" \in DOMAIN pg /\ s \in LiveSlots(pg)
        BY <1>1, <1>2, <1>4, <1>6, <4>1 DEF StoreShape, HasTupleIn, HasSlots
      <4>3. pg \in DataPages
        BY <4>2 DEF SoundPages, ChunkPages
      <4>4. pg.slots \in Seq(StoredTuples \cup {Tombstone}) /\ s \in DOMAIN pg.slots
            /\ pg.slots[s] # Tombstone /\ TupleIn(before, p, s) = pg.slots[s]
        BY <4>1, <4>2, <4>3 DEF DataPages, LiveSlots, TupleIn
      <4> QED
        BY <4>4, ElementOfSeq, LenProperties
    <3> QED
      BY <1>1, <1>4, <1>6, <2>3, <3>1 DEF RowsBefore
  <2>5. Collected(R)
    BY <2>1, <2>4 DEF Collected, IsInjective
  <2>6. Answering("get", t, p, s, R)
    BY <2>1, <2>3 DEF Answering
  <2>7. before' = before => Pinning({})'
    <3>1. {p} \in SUBSET Pages /\ p \in {p} /\ {} = {p} \ {p}
      BY <1>2
    <3> QED
      BY <1>1, <1>2, <2>2, <3>1, UnpinOne
  <2>8. AtRead' \/ AtAnswer'
    BY <1>1, <1>5, <2>2, <2>5, <2>6, <2>7, ResolvingGoesOn
  <2> QED
    BY <1>5, <2>8
<1>7. CASE ~HasTuple(p, s)
  <2>1. call' = Idle /\ pins' = pins
    BY <1>3, <1>7 DEF GetTuple, Return
  <2>2. pins = [before.pins EXCEPT ![p] = @ + 1]
    <3>1. before.pins = [q \in Pages |-> before.pins[q]]
      BY <1>2 DEF StoreShape
    <3> QED
      BY <1>1, <1>2, <3>1 DEF Pinning
  <2>3. EP!CanFetch(p) /\ before.pins[p] < MaxPins
    BY <1>1, <1>3, <1>4, <1>7, BeforeOfEngine
  <2>4. EP!GetNothing(p)
    BY <1>2, <1>3, <1>5, <2>1, <2>2, <2>3 DEF EP!GetNothing, Idle
  <2>5. t \in EP!Existing
    BY <1>2, <1>3 DEF EP!Existing
  <2> QED
    BY <1>1, <1>3, <1>5, <2>1, <2>4, <2>5 DEF ReadEnds
<1> QED
  BY <1>6, <1>7

(* The answer is given. *)
LEMMA AnswerStep ==
    ASSUME HeapShape, StoreSound(before), AtAnswer, Answer
    PROVE  HeapShape' /\ ReadEnds
<1>1. PICK op, t, p, s, R, rows, cur, data :
        /\ Reading(op, t, p, s, R, rows, << >>) /\ Pinning({})
        /\ ReadCall("answer", op, t, p, s, rows, << >>, cur, data)
  BY DEF AtAnswer
<1>2. StoreShape(before) /\ tables = before.tables /\ Untouched /\ call.at # "idle"
  BY <1>1 DEF StoreSound, Reading, Reader, ReadCall
<1>3. call' = Idle /\ UNCHANGED <<live, page, pins, tables, unused>>
  BY DEF Answer, Return
<1>4. UNCHANGED EP!vars
  BY <1>1, <1>2, <1>3, NothingChanged DEF Idle
<1>5. HeapShape'
  BY <1>3, SameShape
<1> QED
  BY <1>3, <1>4, <1>5 DEF ReadEnds

(* While nothing is written, the chains are those of the store found. *)
LEMMA SameChains ==
    ASSUME Untouched, call.at # "idle", NEW h
    PROVE  Chain(h) = EP!Chain(h)
<1>1. EP!Links = Links
  BY DEF EP!Links, Links, Untouched
<1>2. \A f, q : EP!ChainFrom(f, q) = ChainFrom(f, q)
  BY SameCardinality DEF EP!ChainFrom, ChainFrom
<1> QED
  BY <1>1, <1>2 DEF EP!Chain, Chain

(* The resolved column is what StorageEngine makes of it. *)
LEMMA ColumnResolved ==
    ASSUME EP!EngineInv, StoreSound(before), Untouched, call.at # "idle",
           NEW r \in RowsBefore, NEW c \in DOMAIN r.tuple
    PROVE  Resolved(r.tuple)[c] = ResolvedColumn(r.tuple[c])
<1>1. PICK q, s, tuple : q = r.id[1] /\ s = r.id[2] /\ tuple = r.tuple
  OBVIOUS
<1>2. q \in before.live /\ HasTupleIn(before, q, s) /\ tuple = TupleIn(before, q, s)
  BY <1>1 DEF RowsBefore
<1>3. CASE ~IsPlaceholder(tuple[c])
  BY <1>1, <1>3 DEF Resolved, ResolvedColumn
<1>4. CASE IsPlaceholder(tuple[c])
  <2>1. PICK h : h = tuple[c].pointer
    OBVIOUS
  <2>2. PointerIn(before, q, s, c) /\ h = TupleIn(before, q, s)[c].pointer
    BY <1>1, <1>2, <1>4, <2>1 DEF PointerIn, IsPlaceholder
  <2>3. PICK d : d = ChainOf(h)
    OBVIOUS
  <2>4. PointerPath(before, d, h)
    <3>1. \E e : PointerPath(before, e, h)
      BY <1>2, <2>2 DEF StoreSound, StorePaths
    <3> QED
      BY <2>3, <3>1 DEF ChainOf
  <2>5. PathIn(before, d, h) /\ StoreShape(before)
    BY <2>4 DEF PointerPath, StoreSound
  <2>6. Chain(h) = d
    BY <1>2, <2>2, <2>5, PointerChainBefore, SameChains
  <2>7. DOMAIN d = 1 .. Len(d)
    BY <2>5, PathPages
  <2>8. page = before.page
    BY DEF Untouched
  <2>9. ReadOverflow(h) = Text(d)
    BY <2>6, <2>7, <2>8 DEF ReadOverflow, Text
  <2> QED
    BY <1>1, <1>4, <2>1, <2>3, <2>9 DEF Resolved, ResolvedColumn
<1> QED
  BY <1>3, <1>4

(* The ids that a scan is asked for. *)
LEMMA ScanAsked ==
    ASSUME EP!EngineInv, call.at # "idle", NEW t, Reader(t), NEW c, TablePath(before, t, c), NEW id
    PROVE  id \in Tuples(t) <=>
                \E j \in 1 .. Len(c) : \E s : id = <<c[j], s>> /\ HasTupleIn(before, c[j], s)
<1>1. t \in TableNames /\ tables = before.tables /\ page = before.page /\ Untouched
  BY DEF Reader, Untouched
<1>2. PICK h : h = before.tables[t].first
  OBVIOUS
<1>3. TableChain(t) = c
  <2>1. EP!TableChain(t) = c
    BY <1>1, TableChainBefore
  <2>2. EP!TableChain(t) = EP!Chain(h)
    BY <1>2 DEF EP!TableChain
  <2>3. TableChain(t) = Chain(h)
    BY <1>1, <1>2 DEF TableChain
  <2> QED
    BY <1>1, <2>1, <2>2, <2>3, SameChains
<1>4. \A j \in 1 .. Len(c) : HasSlots(before, c[j])
  BY DEF TablePath
<1>5. DOMAIN c = 1 .. Len(c)
  BY DEF TablePath, PathIn
<1>6. TablePages(t) = {c[j] : j \in 1 .. Len(c)}
  BY <1>3, <1>5 DEF TablePages, ToSet
<1>7. id \in Tuples(t) <=>
        \E q \in TablePages(t) : \E s \in LiveSlots(before.page[q]) : id = <<q, s>>
  BY <1>1 DEF Tuples
<1>8. id \in Tuples(t) <=>
        \E j \in 1 .. Len(c) : \E s \in LiveSlots(before.page[c[j]]) : id = <<c[j], s>>
  BY <1>6, <1>7
<1>9. \A j \in 1 .. Len(c) : \A s :
        HasTupleIn(before, c[j], s) <=> s \in LiveSlots(before.page[c[j]])
  BY <1>4 DEF HasTupleIn
<1> QED
  BY <1>8, <1>9

(* What is answered, row by row. *)
LEMMA AnsweredRow ==
    ASSUME EP!EngineInv, StoreSound(before), call.at # "idle",
           NEW op, NEW t, NEW p, NEW s, NEW R, NEW rows, Reading(op, t, p, s, R, rows, << >>),
           NEW i \in 1 .. Len(R)
    PROVE  /\ rows[i].id = R[i].id /\ TupleAt(R[i].id) = R[i].tuple
           /\ DOMAIN rows[i].tuple = DOMAIN R[i].tuple
           /\ \A c \in DOMAIN R[i].tuple :
                rows[i].tuple[c] \in {R[i].tuple[c], Resolved(R[i].tuple)[c]}
           /\ ~FullIn(before) => rows[i].tuple = Resolved(R[i].tuple)
<1>1. Untouched /\ Collected(R) /\ ResolvedUpTo(R, rows, << >>) /\ page = before.page
  BY DEF Reading, Reader, Untouched
<1>2. R \in Seq(RowsBefore)
  BY <1>1 DEF Collected
<1>3. PICK r : r = R[i]
  OBVIOUS
<1>4. r \in RowsBefore
  BY <1>2, <1>3, ElementOfSeq
<1>5. TupleAt(r.id) = r.tuple
  BY <1>1, <1>4 DEF RowsBefore, TupleAt, TupleIn
<1>6. rows[i] = [id |-> R[i].id, tuple |-> rows[i].tuple]
  BY <1>1 DEF ResolvedUpTo
<1>7. rows[i].tuple = [c \in DOMAIN r.tuple |-> rows[i].tuple[c]]
  BY <1>1, <1>3 DEF ResolvedUpTo
<1>8. ASSUME NEW c \in DOMAIN r.tuple
      PROVE  \/ rows[i].tuple[c] = Resolved(r.tuple)[c]
             \/ FullIn(before) /\ rows[i].tuple[c] = r.tuple[c]
  <2>1. Resolved1(R, rows, << >>, i, c)
    BY <1>1, <1>3, <1>8 DEF ResolvedUpTo
  <2>2. Place(i, c) \notin ToSet(<< >>)
    BY DEF ToSet
  <2>3. Resolved(r.tuple)[c] = ResolvedColumn(r.tuple[c])
    BY <1>1, <1>4, <1>8, ColumnResolved
  <2> QED
    BY <1>3, <2>1, <2>2, <2>3 DEF Resolved1
<1>9. ASSUME ~FullIn(before) PROVE rows[i].tuple = Resolved(r.tuple)
  <2>1. Resolved(r.tuple) = [c \in DOMAIN r.tuple |-> Resolved(r.tuple)[c]]
    BY DEF Resolved
  <2>2. \A c \in DOMAIN r.tuple : rows[i].tuple[c] = Resolved(r.tuple)[c]
    BY <1>8, <1>9
  <2> QED
    BY <1>7, <2>1, <2>2
<1>10. rows[i].id = R[i].id
  BY <1>6
<1>11. DOMAIN rows[i].tuple = DOMAIN r.tuple
  BY <1>7
<1>12. \A c \in DOMAIN r.tuple : rows[i].tuple[c] \in {r.tuple[c], Resolved(r.tuple)[c]}
  BY <1>8
<1> QED
  BY <1>3, <1>5, <1>9, <1>10, <1>11, <1>12

(* The rows that scan or get answers are those the engine has, and all of them. *)
LEMMA AnswerIsSound ==
    ASSUME EP!EngineInv, StoreSound(before), AtAnswer
    PROVE  AnswersSound /\ AnswersComplete
<1>1. PICK op, t, p, s, R, rows, cur, data :
        /\ Reading(op, t, p, s, R, rows, << >>) /\ Pinning({})
        /\ ReadCall("answer", op, t, p, s, rows, << >>, cur, data)
  BY DEF AtAnswer
<1>2. /\ StoreShape(before) /\ Reader(t) /\ Collected(R) /\ Answering(op, t, p, s, R)
      /\ ResolvedUpTo(R, rows, << >>)
  BY <1>1 DEF StoreSound, Reading
<1>3. /\ call.at # "idle" /\ call.rows = rows /\ call.op = op /\ call.table = t
      /\ call.id = <<p, s>>
  BY <1>1 DEF ReadCall
<1>4. PICK n : n = Len(R)
  OBVIOUS
<1>5. DOMAIN rows = 1 .. n
  BY <1>2, <1>4 DEF ResolvedUpTo
<1>6. R \in Seq(RowsBefore) /\ IsInjective(R) /\ DOMAIN R = 1 .. n /\ n \in Nat
  BY <1>2, <1>4, LenProperties DEF Collected
<1>7. ASSUME NEW i \in 1 .. n
      PROVE  /\ rows[i].id = R[i].id /\ TupleAt(R[i].id) = R[i].tuple
             /\ DOMAIN rows[i].tuple = DOMAIN R[i].tuple
             /\ \A c \in DOMAIN R[i].tuple :
                    rows[i].tuple[c] \in {R[i].tuple[c], Resolved(R[i].tuple)[c]}
             /\ ~FullIn(before) => rows[i].tuple = Resolved(R[i].tuple)
             /\ R[i] \in RowsBefore
  <2>1. R[i] \in RowsBefore
    BY <1>4, <1>6, <1>7, ElementOfSeq
  <2> QED
    BY <1>1, <1>3, <1>4, <1>7, <2>1, AnsweredRow
<1>8. ASSUME NEW i \in 1 .. n, NEW j \in 1 .. n, rows[i].id = rows[j].id PROVE i = j
  <2>1. R[i].id = R[j].id
    BY <1>7, <1>8
  <2>2. R[i] = R[j]
    <3>1. PICK a, b : a = R[i] /\ b = R[j]
      OBVIOUS
    <3>2. a \in RowsBefore /\ b \in RowsBefore /\ a.id = b.id
      BY <1>7, <2>1, <3>1
    <3>3. a.tuple = b.tuple
      BY <3>2 DEF RowsBefore
    <3>4. a = b
      BY <3>2, <3>3 DEF RowsBefore
    <3> QED
      BY <3>1, <3>4
  <2> QED
    BY <1>6, <2>2 DEF IsInjective
<1>9. ASSUME NEW i \in 1 .. n PROVE R[i].id \in Asked
  <2>1. CASE op = "get"
    <3>1. i = 1 /\ R[1].id = <<p, s>>
      BY <1>2, <1>4, <1>6, <2>1 DEF Answering
    <3> QED
      BY <1>3, <2>1, <3>1 DEF Asked
  <2>2. CASE op = "scan"
    <3>1. PICK c : TablePath(before, t, c) /\ ScannedOnly(c, Len(c), R)
      BY <1>2, <2>2 DEF Answering
    <3>2. PICK j \in 1 .. Len(c) : R[i].id[1] = c[j]
      BY <1>4, <3>1 DEF ScannedOnly
    <3>3. PICK x : x = R[i].id[2]
      OBVIOUS
    <3>4. R[i].id = <<c[j], x>> /\ HasTupleIn(before, c[j], x)
      BY <1>7, <3>2, <3>3 DEF RowsBefore
    <3>5. R[i].id \in Tuples(t)
      BY <1>2, <1>3, <3>1, <3>4, ScanAsked
    <3> QED
      BY <1>3, <2>2, <3>5 DEF Asked
  <2> QED
    BY <1>2, <2>1, <2>2 DEF Answering
<1>10. AnswersSound
  <2>1. \A i, j \in DOMAIN call.rows : i # j => call.rows[i].id # call.rows[j].id
    BY <1>3, <1>5, <1>8
  <2>2. ASSUME NEW i \in DOMAIN call.rows
        PROVE  /\ call.rows[i].id \in Asked
               /\ \A c \in DOMAIN call.rows[i].tuple :
                    call.rows[i].tuple[c] \in {TupleAt(call.rows[i].id)[c],
                                               Resolved(TupleAt(call.rows[i].id))[c]}
    <3>1. i \in 1 .. n
      BY <1>3, <1>5
    <3>2. call.rows[i].id = R[i].id /\ TupleAt(call.rows[i].id) = R[i].tuple
      BY <1>3, <1>7, <3>1
    <3> QED
      BY <1>3, <1>7, <1>9, <3>1, <3>2
  <2> QED
    BY <2>1, <2>2 DEF AnswersSound
<1>11. ASSUME ~Full PROVE Complete
  <2>1. ~FullIn(before)
    BY <1>1, <1>2, <1>11, SameFetches
  <2>2. ASSUME NEW id \in Asked PROVE \E i \in 1 .. n : R[i].id = id
    <3>1. CASE op = "get"
      <4>1. id = <<p, s>> /\ R[1].id = <<p, s>> /\ 1 \in 1 .. n
        BY <1>2, <1>3, <1>4, <2>2, <3>1 DEF Asked, Answering
      <4> QED
        BY <4>1
    <3>2. CASE op = "scan"
      <4>1. PICK c : TablePath(before, t, c) /\ ScannedAll(c, Len(c), R)
        BY <1>2, <2>1, <3>2 DEF Answering
      <4>2. id \in Tuples(t)
        BY <1>3, <2>2, <3>2 DEF Asked
      <4>3. PICK j \in 1 .. Len(c) : \E x : id = <<c[j], x>> /\ HasTupleIn(before, c[j], x)
        BY <1>2, <1>3, <4>1, <4>2, ScanAsked
      <4> QED
        BY <1>4, <4>1, <4>3 DEF ScannedAll, HasId
    <3> QED
      BY <1>2, <3>1, <3>2 DEF Answering
  <2>3. \A i \in 1 .. n : /\ call.rows[i].id = R[i].id /\ R[i].id \in Asked
                          /\ call.rows[i].tuple = Resolved(TupleAt(R[i].id))
    BY <1>3, <1>7, <1>9, <2>1
  <2>4. DOMAIN call.rows = 1 .. n
    BY <1>3, <1>5
  <2>5. ASSUME NEW x
        PROVE  x \in {<<call.rows[i].id, call.rows[i].tuple>> : i \in DOMAIN call.rows} <=>
               x \in {<<id, Resolved(TupleAt(id))>> : id \in Asked}
    <3>1. ASSUME NEW i \in DOMAIN call.rows, x = <<call.rows[i].id, call.rows[i].tuple>>
          PROVE  \E id \in Asked : x = <<id, Resolved(TupleAt(id))>>
      BY <2>3, <2>4, <3>1
    <3>2. ASSUME NEW id \in Asked, x = <<id, Resolved(TupleAt(id))>>
          PROVE  \E i \in DOMAIN call.rows : x = <<call.rows[i].id, call.rows[i].tuple>>
      BY <2>2, <2>3, <2>4, <3>2
    <3> QED
      BY <3>1, <3>2
  <2> QED
    BY <2>5 DEF Complete
<1> QED
  BY <1>10, <1>11 DEF AnswersComplete

-----------------------------------------------------------------------------

(* The engine of the proofs and the engine of the model are the same. *)

(* The actions of the two instances of the engine are the same: create_table. *)
LEMMA EngineCreates ==
    ASSUME NEW t
    PROVE  EP!CreateTable(t) <=> Engine!CreateTable(t)
BY Zenon
   DEF EP!CreateTable, Engine!CreateTable, EP!Unused, Engine!Unused, EP!Only, Engine!Only,
       EP!Full, Engine!Full, EP!Pinned, Engine!Pinned, EP!Cardinality, Engine!Cardinality,
       EP!WithPages, Engine!WithPages, EP!Over, Engine!Over, EP!NewDataPage, Engine!NewDataPage,
       EP!EmptyPage, Engine!EmptyPage

(* The create_table that finds no page. *)
LEMMA EngineCreatesNothing == EP!CreateTableFails <=> Engine!CreateTableFails
BY Zenon
   DEF EP!CreateTableFails, Engine!CreateTableFails, EP!Full, Engine!Full, EP!Pinned,
       Engine!Pinned, EP!Cardinality, Engine!Cardinality, EP!WastePage, Engine!WastePage,
       EP!Unused, Engine!Unused, EP!Only, Engine!Only, EP!EmptyPage, Engine!EmptyPage,
       EP!WithPages, Engine!WithPages, EP!Over, Engine!Over

(* drop_table. *)
LEMMA EngineDrops ==
    ASSUME NEW t
    PROVE  EP!DropTable(t) <=> Engine!DropTable(t)
BY Zenon
   DEF EP!DropTable, Engine!DropTable, EP!Listed, Engine!Listed, EP!CanFetch, Engine!CanFetch,
       EP!Full, Engine!Full, EP!Pinned, Engine!Pinned, EP!Cardinality, Engine!Cardinality,
       EP!TableChain, Engine!TableChain, EP!Chain, Engine!Chain, EP!ChainFrom, Engine!ChainFrom,
       EP!Links, Engine!Links

(* insert, on a page of the table. *)
LEMMA EngineInsertsHere ==
    ASSUME NEW t, NEW row
    PROVE  EP!InsertHere(t, row) <=> Engine!InsertHere(t, row)
BY Zenon
   DEF EP!InsertHere, Engine!InsertHere, EP!ReachesPage, Engine!ReachesPage, EP!Counted,
       Engine!Counted, EP!ToSet, Engine!ToSet, EP!HasTarget, Engine!HasTarget, EP!Target,
       Engine!Target, EP!SelectInSeq, Engine!SelectInSeq, EP!Min, Engine!Min, EP!TableChain,
       Engine!TableChain, EP!Chain, Engine!Chain, EP!ChainFrom, Engine!ChainFrom, EP!Links,
       Engine!Links, EP!Cardinality, Engine!Cardinality, EP!TupleSize, Engine!TupleSize,
       EP!Spilled, Engine!Spilled, EP!FoldFunction, Engine!FoldFunction, EP!FoldFunctionOnSet,
       Engine!FoldFunctionOnSet, EP!MapThenFoldSet, Engine!MapThenFoldSet, EP!CanFetch,
       Engine!CanFetch, EP!Full, Engine!Full, EP!Pinned, Engine!Pinned, EP!Pieces,
       Engine!Pieces, EP!Chunk, Engine!Chunk, EP!ChunksOf, Engine!ChunksOf, EP!FlattenSeq,
       Engine!FlattenSeq, EP!Allocations, Engine!Allocations, EP!Unused, Engine!Unused,
       EP!IsInjective, Engine!IsInjective, EP!WithPages, Engine!WithPages, EP!Over, Engine!Over,
       EP!OverflowPages, Engine!OverflowPages, EP!Inserted, Engine!Inserted, EP!HasTombstone,
       Engine!HasTombstone, EP!Tombstones, Engine!Tombstones, EP!FirstTombstone,
       Engine!FirstTombstone, EP!SlotBytes, Engine!SlotBytes, EP!Encoded, Engine!Encoded

(* The insert that finds no frame for the last page. *)
LEMMA EngineFindsNoFrame ==
    ASSUME NEW t, NEW row
    PROVE  EP!InsertFindsNoFrame(t, row) <=> Engine!InsertFindsNoFrame(t, row)
BY Zenon
   DEF EP!InsertFindsNoFrame, Engine!InsertFindsNoFrame, EP!ReachesPage, Engine!ReachesPage,
       EP!CanFetch, Engine!CanFetch, EP!Full, Engine!Full, EP!Pinned, Engine!Pinned,
       EP!Cardinality, Engine!Cardinality, EP!Pieces, Engine!Pieces, EP!Chunk, Engine!Chunk,
       EP!ChunksOf, Engine!ChunksOf, EP!FlattenSeq, Engine!FlattenSeq, EP!Spilled,
       Engine!Spilled, EP!HasTarget, Engine!HasTarget, EP!Target, Engine!Target, EP!SelectInSeq,
       Engine!SelectInSeq, EP!Min, Engine!Min, EP!TableChain, Engine!TableChain, EP!Chain,
       Engine!Chain, EP!ChainFrom, Engine!ChainFrom, EP!Links, Engine!Links, EP!TupleSize,
       Engine!TupleSize, EP!FoldFunction, Engine!FoldFunction, EP!FoldFunctionOnSet,
       Engine!FoldFunctionOnSet, EP!MapThenFoldSet, Engine!MapThenFoldSet, EP!WastePage,
       Engine!WastePage, EP!Unused, Engine!Unused, EP!Only, Engine!Only, EP!EmptyPage,
       Engine!EmptyPage, EP!WithPages, Engine!WithPages, EP!Over, Engine!Over

(* The insert that finds no page. *)
LEMMA EngineFindsNoPage ==
    ASSUME NEW t, NEW row
    PROVE  EP!InsertFindsNoPage(t, row) <=> Engine!InsertFindsNoPage(t, row)
BY Zenon
   DEF EP!InsertFindsNoPage, Engine!InsertFindsNoPage, EP!PagesNeeded, Engine!PagesNeeded,
       EP!ToSet, Engine!ToSet, EP!Full, Engine!Full, EP!Pinned, Engine!Pinned, EP!Cardinality,
       Engine!Cardinality, EP!Allocations, Engine!Allocations, EP!Unused, Engine!Unused,
       EP!IsInjective, Engine!IsInjective, EP!Pieces, Engine!Pieces, EP!Chunk, Engine!Chunk,
       EP!ChunksOf, Engine!ChunksOf, EP!FlattenSeq, Engine!FlattenSeq, EP!Spilled,
       Engine!Spilled, EP!HasTarget, Engine!HasTarget, EP!Target, Engine!Target, EP!SelectInSeq,
       Engine!SelectInSeq, EP!Min, Engine!Min, EP!TableChain, Engine!TableChain, EP!Chain,
       Engine!Chain, EP!ChainFrom, Engine!ChainFrom, EP!Links, Engine!Links, EP!TupleSize,
       Engine!TupleSize, EP!FoldFunction, Engine!FoldFunction, EP!FoldFunctionOnSet,
       Engine!FoldFunctionOnSet, EP!MapThenFoldSet, Engine!MapThenFoldSet, EP!WithPages,
       Engine!WithPages, EP!Over, Engine!Over, EP!OverflowPages, Engine!OverflowPages

(* delete. *)
LEMMA EngineDeletes ==
    ASSUME NEW t, NEW p, NEW s
    PROVE  EP!Delete(t, p, s) <=> Engine!Delete(t, p, s)
BY Zenon
   DEF EP!Delete, Engine!Delete, EP!FreedWith, Engine!FreedWith, EP!ToSet, Engine!ToSet,
       EP!IsPlaceholder, Engine!IsPlaceholder, EP!Deleted, Engine!Deleted, EP!CanFetch,
       Engine!CanFetch, EP!Full, Engine!Full, EP!Pinned, Engine!Pinned, EP!Cardinality,
       Engine!Cardinality, EP!Chain, Engine!Chain, EP!ChainFrom, Engine!ChainFrom, EP!Links,
       Engine!Links

(* get on a page that cannot be fetched. *)
LEMMA EngineGetsNothing ==
    ASSUME NEW p
    PROVE  EP!GetNothing(p) <=> Engine!GetNothing(p)
BY Zenon
   DEF EP!GetNothing, Engine!GetNothing, EP!CanFetch, Engine!CanFetch, EP!Full, Engine!Full,
       EP!Pinned, Engine!Pinned, EP!Cardinality, Engine!Cardinality

(* The initial states of the two instances are the same. *)
LEMMA EngineInits == EP!Init <=> Engine!Init
BY Zenon
   DEF EP!Init, Engine!Init, EP!NewDataPage, Engine!NewDataPage, EP!EmptyPage, Engine!EmptyPage

(* The page of a row and the pages of a table. *)
LEMMA EngineTarget ==
    ASSUME NEW t, NEW row
    PROVE  EP!Target(t, row) = Engine!Target(t, row) /\ EP!TableChain(t) = Engine!TableChain(t)
BY Zenon
   DEF EP!Target, Engine!Target, EP!SelectInSeq, Engine!SelectInSeq, EP!Min, Engine!Min,
       EP!TableChain, Engine!TableChain, EP!Chain, Engine!Chain, EP!ChainFrom, Engine!ChainFrom,
       EP!Links, Engine!Links, EP!Cardinality, Engine!Cardinality, EP!TupleSize,
       Engine!TupleSize, EP!Spilled, Engine!Spilled, EP!FoldFunction, Engine!FoldFunction,
       EP!FoldFunctionOnSet, Engine!FoldFunctionOnSet, EP!MapThenFoldSet, Engine!MapThenFoldSet

(* The size of a row and its pieces. *)
LEMMA EngineSizes ==
    ASSUME NEW row
    PROVE  EP!TupleSize(row) = Engine!TupleSize(row) /\ EP!Pieces(row) = Engine!Pieces(row)
BY Zenon
   DEF EP!TupleSize, Engine!TupleSize, EP!Spilled, Engine!Spilled, EP!FoldFunction,
       Engine!FoldFunction, EP!FoldFunctionOnSet, Engine!FoldFunctionOnSet, EP!MapThenFoldSet,
       Engine!MapThenFoldSet, EP!Pieces, Engine!Pieces, EP!Chunk, Engine!Chunk, EP!ChunksOf,
       Engine!ChunksOf, EP!FlattenSeq, Engine!FlattenSeq

(* The tuple and the overflow pages of a row. *)
LEMMA EngineEncoded ==
    ASSUME NEW row, NEW ps
    PROVE  /\ EP!Encoded(row, ps) = Engine!Encoded(row, ps)
           /\ EP!OverflowPages(row, ps) = Engine!OverflowPages(row, ps)
BY Zenon
   DEF EP!Encoded, Engine!Encoded, EP!SelectInSeq, Engine!SelectInSeq, EP!Min, Engine!Min,
       EP!Spilled, Engine!Spilled, EP!Pieces, Engine!Pieces, EP!Chunk, Engine!Chunk,
       EP!ChunksOf, Engine!ChunksOf, EP!FlattenSeq, Engine!FlattenSeq, EP!OverflowPages,
       Engine!OverflowPages, EP!ToSet, Engine!ToSet

(* A page with one more tuple, and when it has room for it. *)
LEMMA EngineInserted ==
    ASSUME NEW pg, NEW tuple, NEW n
    PROVE  /\ EP!Inserted(pg, tuple, n) = Engine!Inserted(pg, tuple, n)
           /\ EP!CanInsert(pg, n) <=> Engine!CanInsert(pg, n)
BY Zenon
   DEF EP!Inserted, Engine!Inserted, EP!HasTombstone, Engine!HasTombstone, EP!Tombstones,
       Engine!Tombstones, EP!FirstTombstone, Engine!FirstTombstone, EP!SlotBytes,
       Engine!SlotBytes, EP!CanInsert, Engine!CanInsert

(* insert, on a new page. *)
LEMMA EngineOnNewPage ==
    ASSUME NEW t, NEW row
    PROVE  EP!InsertOnNewPage(t, row) <=> Engine!InsertOnNewPage(t, row)
<1>1. EP!NewDataPage = Engine!NewDataPage
  BY DEF EP!NewDataPage, Engine!NewDataPage, EP!EmptyPage, Engine!EmptyPage
<1>2. /\ EP!Pinned = Engine!Pinned /\ (EP!Full <=> Engine!Full)
      /\ EP!Unused = Engine!Unused /\ \A s : EP!ToSet(s) = Engine!ToSet(s)
  BY Zenon DEF EP!Full, Engine!Full, EP!Pinned, Engine!Pinned, EP!Cardinality,
               Engine!Cardinality, EP!Unused, Engine!Unused, EP!ToSet, Engine!ToSet
<1>3. \A n : EP!Allocations(n) = Engine!Allocations(n)
  BY Zenon DEF EP!Allocations, Engine!Allocations, EP!Unused, Engine!Unused, EP!IsInjective,
               Engine!IsInjective
<1>4. /\ EP!HasTarget(t, row) <=> Engine!HasTarget(t, row)
      /\ EP!FitsEmptyPage(row) <=> Engine!FitsEmptyPage(row)
      /\ EP!Last(EP!TableChain(t)) = Engine!Last(Engine!TableChain(t))
  BY Zenon, EngineTarget, <1>1, EngineInserted, EngineSizes
     DEF EP!HasTarget, Engine!HasTarget, EP!FitsEmptyPage, Engine!FitsEmptyPage, EP!Last,
         Engine!Last
<1>5. EP!CanLink(t) <=> Engine!CanLink(t)
  BY Zenon, <1>2, <1>4 DEF EP!CanLink, Engine!CanLink, EP!Cardinality, Engine!Cardinality
<1>6. EP!Counted(t) <=> Engine!Counted(t)
  BY Zenon DEF EP!Counted, Engine!Counted
<1>7. \A ps : EP!OverflowPages(row, ps) = Engine!OverflowPages(row, ps)
  BY EngineEncoded
<1>8. \A a, b : EP!Over(a, b) = Engine!Over(a, b) /\ EP!Only(a, b) = Engine!Only(a, b)
  BY DEF EP!Over, Engine!Over, EP!Only, Engine!Only
<1>9. \A a : EP!WithPages(a) = Engine!WithPages(a)
  BY <1>8 DEF EP!WithPages, Engine!WithPages
<1>10. \A ps : EP!Encoded(row, ps) = Engine!Encoded(row, ps)
  BY EngineEncoded
<1>11. \A pg, tuple, n : EP!Inserted(pg, tuple, n) = Engine!Inserted(pg, tuple, n)
  BY EngineInserted
<1>12. EP!Pieces(row) = Engine!Pieces(row) /\ EP!TupleSize(row) = Engine!TupleSize(row)
  BY EngineSizes
<1> DEFINE last == EP!Last(EP!TableChain(t))
           W(ps, p) == EP!WithPages(
                EP!Over(EP!OverflowPages(row, ps), EP!Only(p, EP!NewDataPage)))
           L(ps, p) == [W(ps, p) EXCEPT ![last].next = p]
           S(ps, p) == [L(ps, p) EXCEPT
                ![p] = EP!Inserted(@, EP!Encoded(row, ps), EP!TupleSize(row))]
           B(ps, p) == StoredOrLost(EP!ToSet(ps), p, EP!CanLink(t), EP!FitsEmptyPage(row),
                EP!Counted(t), W(ps, p), L(ps, p), S(ps, p))
<1> DEFINE lastE == Engine!Last(Engine!TableChain(t))
           WE(ps, p) == Engine!WithPages(
                Engine!Over(Engine!OverflowPages(row, ps), Engine!Only(p, Engine!NewDataPage)))
           LE(ps, p) == [WE(ps, p) EXCEPT ![lastE].next = p]
           SE(ps, p) == [LE(ps, p) EXCEPT
                ![p] = Engine!Inserted(@, Engine!Encoded(row, ps), Engine!TupleSize(row))]
           BE(ps, p) ==
             StoredOrLost(Engine!ToSet(ps), p, Engine!CanLink(t), Engine!FitsEmptyPage(row),
                Engine!Counted(t), WE(ps, p), LE(ps, p), SE(ps, p))
<1>13. EP!InsertOnNewPage(t, row) <=>
        /\ ~EP!HasTarget(t, row) /\ ~EP!Full
        /\ \E ps \in EP!Allocations(Len(EP!Pieces(row))) :
           \E p \in EP!Unused \ EP!ToSet(ps) : B(ps, p)
  BY Zenon DEF EP!InsertOnNewPage, StoredOrLost, storeLive, storePage, storePins, storeTables
<1>14. Engine!InsertOnNewPage(t, row) <=>
        /\ ~Engine!HasTarget(t, row) /\ ~Engine!Full
        /\ \E ps \in Engine!Allocations(Len(Engine!Pieces(row))) :
           \E p \in Engine!Unused \ Engine!ToSet(ps) : BE(ps, p)
  BY Zenon DEF Engine!InsertOnNewPage, StoredOrLost, storeLive, storePage, storePins, storeTables
<1>15. \A ps, p : WE(ps, p) = W(ps, p)
  BY <1>1, <1>7, <1>8, <1>9
<1>16. \A ps, p : LE(ps, p) = L(ps, p)
  <2> HIDE DEF W, WE, last, lastE
  <2>1. last = lastE
    BY <1>4 DEF last, lastE
  <2> QED
    BY <1>15, <2>1
<1>17. \A ps, p : SE(ps, p) = S(ps, p)
  <2> HIDE DEF L, LE
  <2> QED
    BY <1>10, <1>11, <1>12, <1>16
<1> HIDE DEF W, WE, L, LE, S, SE, last, lastE
<1>18. ASSUME NEW ps, NEW p PROVE BE(ps, p) <=> B(ps, p)
  <2>1. /\ WE(ps, p) = W(ps, p) /\ LE(ps, p) = L(ps, p) /\ SE(ps, p) = S(ps, p)
        /\ EP!ToSet(ps) = Engine!ToSet(ps)
    BY <1>15, <1>16, <1>17, <1>2
  <2> QED
    BY <2>1, <1>4, <1>5, <1>6 DEF StoredOrLost
<1> HIDE DEF B, BE
<1> QED
  BY <1>2, <1>3, <1>4, <1>12, <1>13, <1>14, <1>18

(* insert, as a whole. *)
LEMMA EngineInserts ==
    ASSUME NEW t, NEW row
    PROVE  EP!Insert(t, row) <=> Engine!Insert(t, row)
BY EngineInsertsHere, EngineOnNewPage, EngineFindsNoFrame, EngineFindsNoPage
   DEF EP!Insert, Engine!Insert

(* The rows of a page. *)
LEMMA EngineHasTuple ==
    ASSUME NEW p, NEW s
    PROVE  EP!HasTuple(p, s) <=> Engine!HasTuple(p, s)
BY DEF EP!HasTuple, Engine!HasTuple, EP!IsDataPage, Engine!IsDataPage,
       EP!LiveSlots, Engine!LiveSlots

(* A step of the store in this module is the same step of Engine. *)
LEMMA CallsOfEngine ==
    /\ EP!Init <=> Engine!Init
    /\ EP!vars = Engine!vars
    /\ \A t : EP!CreateTable(t) <=> Engine!CreateTable(t)
    /\ EP!CreateTableFails <=> Engine!CreateTableFails
    /\ \A t : EP!DropTable(t) <=> Engine!DropTable(t)
    /\ \A t, row : EP!Insert(t, row) <=> Engine!Insert(t, row)
    /\ \A t, p, s : EP!Delete(t, p, s) <=> Engine!Delete(t, p, s)
    /\ \A p, s : EP!HasTuple(p, s) <=> Engine!HasTuple(p, s)
    /\ \A p : EP!GetNothing(p) <=> Engine!GetNothing(p)
<1>1. EP!vars = Engine!vars
  BY DEF EP!vars, Engine!vars
<1> QED
  BY <1>1, EngineInits, EngineCreates, EngineCreatesNothing, EngineDrops, EngineInserts,
     EngineDeletes, EngineHasTuple, EngineGetsNothing

(* Between calls the state is a store, and a call that starts finds it. *)
LEMMA FoundSound ==
    ASSUME EP!EngineInv, call = Idle
    PROVE  StoreSound(Found)
<1>1. call.at = "idle"
  BY DEF Idle
<1>2. PICK f : f = Found
  OBVIOUS
<1>3. EP!StoreSound(f)
  BY <1>1, <1>2, SameAssumption, EP!StoreIsSound DEF Found
<1> QED
  BY <1>2, <1>3, SameSound

(* The call that starts has done nothing yet. *)
LEMMA NothingDone ==
    ASSUME EP!EngineInv, call = Idle, NEW f, f = Found, before' = f,
           UNCHANGED <<live, page, pins>>
    PROVE  /\ StoreSound(f) /\ BeforeIsAStore' /\ Untouched' /\ Pinning({})'
           /\ f.live = live /\ f.page = page /\ f.pins = pins /\ f.tables = tables
<1>1. f.live = live /\ f.page = page /\ f.pins = pins /\ f.tables = tables
  BY DEF Found
<1>2. StoreSound(f)
  BY FoundSound
<1>3. pins = [q \in Pages |-> pins[q]]
  BY <1>1, <1>2 DEF StoreSound, StoreShape
<1>4. BeforeIsAStore'
  BY DEF BeforeIsAStore, Found
<1>5. Untouched'
  BY <1>1 DEF Untouched
<1>6. Pinning({})'
  BY <1>1, <1>3 DEF Pinning
<1> QED
  BY <1>1, <1>2, <1>4, <1>5, <1>6

-----------------------------------------------------------------------------

(***************************************************************************)
(* The inductive invariant: the pages and the free list, the store the     *)
(* call found, and how far the call has come with it.                      *)
(***************************************************************************)
HeapInv ==
    /\ HeapShape /\ EP!EngineInv
    /\ \/ AtIdle /\ before = Absent
       \/ BeforeIsAStore /\ Running

(* A call that is over, with what it amounts to. *)
CallOver == call' = Idle /\ (UNCHANGED EP!vars \/ (EP!NextInUse /\ EngineCall))

(* A running call and the store it found. *)
Ongoing == HeapShape /\ EP!EngineInv /\ BeforeIsAStore /\ Step

(* What the steps of every call use. *)
LEMMA OngoingFacts ==
    ASSUME Ongoing, call.at # "idle"
    PROVE  /\ HeapShape /\ EP!EngineInv /\ StoreSound(before)
           /\ call'.at # "idle" => before' = before
           /\ EP!Existing = {t \in TableNames : before.tables[t] # Absent}
<1>1. StoreSound(before)
  BY BeforeSound DEF Ongoing
<1>2. call'.at # "idle" => before' = before
  BY DEF Ongoing, Step
<1>3. EP!Existing = {t \in TableNames : before.tables[t] # Absent}
  BY DEF EP!Existing
<1> QED
  BY <1>1, <1>2, <1>3 DEF Ongoing

(* A step of create_table goes to its next place, or ends the call as the engine does. *)
LEMMA CreatingStep ==
    ASSUME Ongoing, Creating
    PROVE  HeapShape' /\ (GoesOn(Creating') \/ CallOver)
<1>1. call.at \in {"new", "made"}
  BY PlaceOfCall DEF PlacesOfCall, Creating
<1>2. /\ HeapShape /\ EP!EngineInv /\ StoreSound(before)
      /\ call'.at # "idle" => before' = before
      /\ EP!Existing = {t \in TableNames : before.tables[t] # Absent}
  BY <1>1, OngoingFacts
<1>3. CASE AtNew
  <2>1. call.at = "new"
    BY <1>3, PlaceOfCall DEF PlacesOfCall
  <2>2. CreateNew
    BY <2>1, PlaceOfStep DEF Ongoing, Step
  <2>3. HeapShape' /\ (AtMade' \/ (call' = Idle /\ (EP!CreateTableFails \/ UNCHANGED EP!vars)))
    BY <1>2, <1>3, <2>2, CreateNewStep
  <2>4. AtMade' => call'.at # "idle"
    BY PlaceOfCallAfter DEF PlacesOfCall
  <2>5. call.op = "create" /\ \E t \in TableNames : before.tables[t] = Absent
    BY <1>3 DEF AtNew
  <2>6. EP!CreateTableFails => EP!NextInUse /\ EngineCall
    BY <1>2, <2>5, CallsOfEngine DEF EP!NextInUse, EP!Next, EngineCall
  <2> QED
    BY <2>3, <2>4, <2>6 DEF GoesOn, CallOver, Creating
<1>4. CASE AtMade
  <2>1. call.at = "made"
    BY <1>4, PlaceOfCall DEF PlacesOfCall
  <2>2. CreateUnpin
    BY <2>1, PlaceOfStep DEF Ongoing, Step
  <2>3. PICK t \in TableNames :
            /\ HeapShape' /\ call' = Idle /\ call.op = "create" /\ call.table = t
            /\ t \notin EP!Existing /\ EP!CreateTable(t)
    BY <1>2, <1>4, <2>2, CreateUnpinStep
  <2>4. EngineCall
    BY <2>3, CallsOfEngine DEF EngineCall
  <2>5. EP!NextInUse
    BY <2>3 DEF EP!NextInUse, EP!Next
  <2> QED
    BY <2>3, <2>4, <2>5 DEF CallOver
<1> QED
  BY <1>3, <1>4 DEF Creating

(* A step of drop_table does. *)
LEMMA DroppingStep ==
    ASSUME Ongoing, DroppingTable
    PROVE  HeapShape' /\ (GoesOn(DroppingTable') \/ CallOver)
<1>1. call.at \in {"list", "listed", "drop"}
  BY PlaceOfCall DEF PlacesOfCall, DroppingTable
<1>2. /\ HeapShape /\ EP!EngineInv /\ StoreSound(before)
      /\ call'.at # "idle" => before' = before
      /\ EP!Existing = {t \in TableNames : before.tables[t] # Absent}
  BY <1>1, OngoingFacts
<1>3. AtList' \/ AtListed' \/ AtDrop' => GoesOn(DroppingTable')
  BY PlaceOfCallAfter DEF PlacesOfCall, GoesOn, DroppingTable
<1>4. CASE AtList
  <2>1. call.at = "list"
    BY <1>4, PlaceOfCall DEF PlacesOfCall
  <2>2. ListFetch
    BY <2>1, PlaceOfStep DEF Ongoing, Step
  <2>3. call'.at # "idle"
    BY <1>4, <2>2 DEF AtList, ListFetch, Fetch
  <2> QED
    BY <1>2, <1>3, <1>4, <2>2, <2>3, ListFetchStep
<1>5. CASE AtListed
  <2>1. call.at = "listed"
    BY <1>5, PlaceOfCall DEF PlacesOfCall
  <2>2. ListNext
    BY <2>1, PlaceOfStep DEF Ongoing, Step
  <2>3. call'.at # "idle"
    BY <1>5, <2>2 DEF AtListed, ListNext
  <2> QED
    BY <1>2, <1>3, <1>5, <2>2, <2>3, ListNextStep
<1>6. CASE AtDrop
  <2>1. call.at = "drop"
    BY <1>6, PlaceOfCall DEF PlacesOfCall
  <2>2. DropPage
    BY <2>1, PlaceOfStep DEF Ongoing, Step
  <2>3. /\ HeapShape'
        /\ \/ AtDrop'
           \/ /\ call' = Idle
              /\ \E t \in EP!Existing : call.op = "drop" /\ call.table = t /\ EP!DropTable(t)
    BY <1>2, <1>6, <2>2, DropPageStep
  <2>4. ASSUME NEW t \in EP!Existing, call.op = "drop", call.table = t, EP!DropTable(t)
        PROVE  EP!NextInUse /\ EngineCall
    BY <2>4, CallsOfEngine DEF EP!NextInUse, EP!Next, EngineCall
  <2> QED
    BY <1>3, <2>3, <2>4 DEF CallOver
<1> QED
  BY <1>4, <1>5, <1>6 DEF DroppingTable

(* A step of insert does, or is the panic on a tuple longer than a u16 says. *)
LEMMA InsertingStep ==
    ASSUME Ongoing, Inserting
    PROVE  HeapShape' /\ (GoesOn(Inserting') \/ CallOver)
<1>1. call.at # "idle"
  BY PlaceOfCall DEF PlacesOfCall, Inserting
<1>2. /\ HeapShape /\ EP!EngineInv /\ StoreSound(before)
      /\ call'.at # "idle" => before' = before
      /\ EP!Existing = {t \in TableNames : before.tables[t] # Absent}
  BY <1>1, OngoingFacts
<1>3. (AtSpill' \/ AtFill' \/ AtChain' \/ AtChained' \/ AtSearch' \/ AtLook' \/
       AtExtend' \/ AtJoin' \/ AtJoined' \/ AtStore' \/ AtTrapped')
      => GoesOn(Inserting')
  BY PlaceOfCallAfter DEF PlacesOfCall, GoesOn, Inserting
<1>4. InsertEnds => CallOver
  <2>1. ASSUME NEW t \in EP!Existing, NEW row \in Rows, call.op = "insert",
               call.table = t, call.row = row, EP!Insert(t, row)
        PROVE  EP!NextInUse /\ EngineCall
    BY <2>1, CallsOfEngine DEF EP!NextInUse, EP!Next, EngineCall
  <2> QED
    BY <2>1 DEF InsertEnds, CallOver
<1>5. CASE AtSpill
  <2>1. call.at = "spill"
    BY <1>5, PlaceOfCall DEF PlacesOfCall
  <2>2. SpillNew
    BY <2>1, PlaceOfStep DEF Ongoing, Step
  <2> QED
    BY <1>2, <1>3, <1>4, <1>5, <2>2, SpillNewStep
<1>6. CASE AtFill
  <2>1. call.at = "fill"
    BY <1>6, PlaceOfCall DEF PlacesOfCall
  <2>2. SpillFill
    BY <2>1, PlaceOfStep DEF Ongoing, Step
  <2>3. call'.at # "idle"
    BY <1>6, <2>2 DEF AtFill, SpillFill, InsertCall, AfterPieces
  <2> QED
    BY <1>2, <1>3, <1>4, <1>6, <2>2, <2>3, SpillFillStep
<1>7. CASE AtChain
  <2>1. call.at = "chain"
    BY <1>7, PlaceOfCall DEF PlacesOfCall
  <2>2. ChainFetch
    BY <2>1, PlaceOfStep DEF Ongoing, Step
  <2> QED
    BY <1>2, <1>3, <1>4, <1>7, <2>2, ChainFetchStep
<1>8. CASE AtChained
  <2>1. call.at = "chained"
    BY <1>8, PlaceOfCall DEF PlacesOfCall
  <2>2. Chained
    BY <2>1, PlaceOfStep DEF Ongoing, Step
  <2>3. call'.at # "idle"
    BY <1>8, <2>2 DEF AtChained, Chained, InsertCall, AfterPieces
  <2> QED
    BY <1>2, <1>3, <1>4, <1>8, <2>2, <2>3, ChainedStep
<1>9. CASE AtSearch
  <2>1. call.at = "search"
    BY <1>9, PlaceOfCall DEF PlacesOfCall
  <2>2. SearchFetch
    BY <2>1, PlaceOfStep DEF Ongoing, Step
  <2> QED
    BY <1>2, <1>3, <1>4, <1>9, <2>2, SearchFetchStep
<1>10. CASE AtLook
  <2>1. call.at = "look"
    BY <1>10, PlaceOfCall DEF PlacesOfCall
  <2>2. SearchHit \/ SearchMiss
    BY <2>1, PlaceOfStep DEF Ongoing, Step
  <2>3. SearchMiss => call'.at # "idle"
    BY <1>10 DEF AtLook, InsertCall, SearchMiss
  <2>4. SearchMiss => HeapShape' /\ (AtSearch' \/ AtExtend')
    BY <1>2, <1>10, <2>3, SearchMissStep
  <2>5. SearchHit => HeapShape' /\ (AtTrapped' \/ InsertEnds)
    BY <1>2, <1>10, SearchHitStep
  <2> QED
    BY <1>3, <1>4, <2>2, <2>4, <2>5
<1>11. CASE AtExtend
  <2>1. call.at = "extend"
    BY <1>11, PlaceOfCall DEF PlacesOfCall
  <2>2. ExtendNew
    BY <2>1, PlaceOfStep DEF Ongoing, Step
  <2> QED
    BY <1>2, <1>3, <1>4, <1>11, <2>2, ExtendNewStep
<1>12. CASE AtJoin
  <2>1. call.at = "join"
    BY <1>12, PlaceOfCall DEF PlacesOfCall
  <2>2. JoinFetch
    BY <2>1, PlaceOfStep DEF Ongoing, Step
  <2> QED
    BY <1>2, <1>3, <1>4, <1>12, <2>2, JoinFetchStep
<1>13. CASE AtJoined
  <2>1. call.at = "joined"
    BY <1>13, PlaceOfCall DEF PlacesOfCall
  <2>2. Joined
    BY <2>1, PlaceOfStep DEF Ongoing, Step
  <2>3. call'.at # "idle"
    BY <1>13, <2>2 DEF AtJoined, Joined, InsertCall, Goto
  <2> QED
    BY <1>2, <1>3, <1>4, <1>13, <2>2, <2>3, JoinedStep
<1>14. CASE AtStore
  <2>1. call.at = "store"
    BY <1>14, PlaceOfCall DEF PlacesOfCall
  <2>2. StoreInNew
    BY <2>1, PlaceOfStep DEF Ongoing, Step
  <2> QED
    BY <1>2, <1>3, <1>4, <1>14, <2>2, StoreInNewStep
<1>15. CASE AtTrapped
  BY <1>15, PlaceOfCall, PlaceOfStep DEF PlacesOfCall, Ongoing, Step
<1> QED
  BY Zenon, <1>5, <1>6, <1>7, <1>8, <1>9, <1>10, <1>11, <1>12, <1>13, <1>14, <1>15 DEF Inserting

(* A step of delete does. *)
LEMMA DeletingStep ==
    ASSUME Ongoing, DeletingTuple
    PROVE  HeapShape' /\ (GoesOn(DeletingTuple') \/ CallOver)
<1>1. call.at # "idle"
  BY PlaceOfCall DEF PlacesOfCall, DeletingTuple
<1>2. /\ HeapShape /\ EP!EngineInv /\ StoreSound(before)
      /\ call'.at # "idle" => before' = before
      /\ EP!Existing = {t \in TableNames : before.tables[t] # Absent}
  BY <1>1, OngoingFacts
<1>3. (AtTuple' \/ AtRemove' \/ AtRelease' \/ AtFree' \/ AtFreeing' \/ AtErase' \/
       AtRefetch')
      => GoesOn(DeletingTuple')
  BY PlaceOfCallAfter DEF PlacesOfCall, GoesOn, DeletingTuple
<1>4. DeleteEnds => CallOver
  <2>1. ASSUME NEW t \in EP!Existing, NEW p \in before.live, NEW s, call.op = "delete",
               call.table = t, call.id = <<p, s>>, EP!HasTuple(p, s), EP!Delete(t, p, s)
        PROVE  EP!NextInUse /\ EngineCall
    <3>1. EP!IsDataPage(p) /\ s \in EP!LiveSlots(before.page[p])
      BY <1>1, <2>1 DEF EP!HasTuple
    <3>2. EP!NextInUse
      <4>1. CASE p \in EP!TablePages(t)
        BY <1>1, <2>1, <3>1, <4>1 DEF EP!NextInUse, EP!Next
      <4>2. CASE p \notin EP!TablePages(t)
        BY <1>1, <2>1, <3>1, <4>2 DEF EP!NextInUse
      <4> QED
        BY <4>1, <4>2
    <3>3. call.id[1] = p /\ call.id[2] = s
      BY <2>1
    <3>4. Engine!HasTuple(p, s) /\ Engine!Delete(t, p, s)
      BY <2>1, CallsOfEngine
    <3>5. EngineCall
      BY <2>1, <3>3, <3>4 DEF EngineCall
    <3> QED
      BY <3>2, <3>5
  <2> QED
    BY <2>1 DEF DeleteEnds, CallOver
<1>5. CASE AtTuple
  <2>1. call.at = "tuple"
    BY <1>5, PlaceOfCall DEF PlacesOfCall
  <2>2. DeleteFetch
    BY <2>1, PlaceOfStep DEF Ongoing, Step
  <2> QED
    BY <1>2, <1>3, <1>4, <1>5, <2>2, DeleteFetchStep
<1>6. CASE AtRemove
  <2>1. call.at = "remove"
    BY <1>6, PlaceOfCall DEF PlacesOfCall
  <2>2. RemoveTuple
    BY <2>1, PlaceOfStep DEF Ongoing, Step
  <2> QED
    BY <1>2, <1>3, <1>4, <1>6, <2>2, RemoveStep
<1>7. CASE AtRelease
  <2>1. call.at = "release"
    BY <1>7, PlaceOfCall DEF PlacesOfCall
  <2>2. Release
    BY <2>1, PlaceOfStep DEF Ongoing, Step
  <2>3. call'.at # "idle"
    BY <1>7, <2>2 DEF AtRelease, Release, DeleteCall
  <2> QED
    BY <1>2, <1>3, <1>4, <1>7, <2>2, <2>3, ReleaseStep
<1>8. CASE AtFree
  <2>1. call.at = "free"
    BY <1>8, PlaceOfCall DEF PlacesOfCall
  <2>2. FreeFetch
    BY <2>1, PlaceOfStep DEF Ongoing, Step
  <2>3. call'.at # "idle"
    BY <1>8, <2>2 DEF AtFree, FreeFetch, DeleteCall, Fetch
  <2> QED
    BY <1>2, <1>3, <1>4, <1>8, <2>2, <2>3, FreeFetchStep
<1>9. CASE AtFreeing
  <2>1. call.at = "freeing"
    BY <1>9, PlaceOfCall DEF PlacesOfCall
  <2>2. FreeUnpin
    BY <2>1, PlaceOfStep DEF Ongoing, Step
  <2>3. call'.at # "idle"
    BY <1>9, <2>2 DEF AtFreeing, FreeUnpin, DeleteCall
  <2> QED
    BY <1>2, <1>3, <1>4, <1>9, <2>2, <2>3, FreeUnpinStep
<1>10. CASE AtErase
  <2>1. call.at = "erase"
    BY <1>10, PlaceOfCall DEF PlacesOfCall
  <2>2. Erase
    BY <2>1, PlaceOfStep DEF Ongoing, Step
  <2>3. call'.at # "idle"
    BY <1>10, <2>2 DEF AtErase, Erase, DeleteCall
  <2> QED
    BY <1>2, <1>3, <1>4, <1>10, <2>2, <2>3, EraseStep
<1>11. CASE AtRefetch
  <2>1. call.at = "refetch"
    BY <1>11, PlaceOfCall DEF PlacesOfCall
  <2>2. Refetch
    BY <2>1, PlaceOfStep DEF Ongoing, Step
  <2> QED
    BY <1>2, <1>3, <1>4, <1>11, <2>2, RefetchStep
<1> QED
  BY Zenon, <1>5, <1>6, <1>7, <1>8, <1>9, <1>10, <1>11 DEF DeletingTuple

(* A step of get or scan does, and changes nothing the engine sees. *)
LEMMA ReadingStep ==
    ASSUME Ongoing, ReadingRows
    PROVE  HeapShape' /\ (GoesOn(ReadingRows') \/ CallOver)
<1>1. call.at # "idle"
  BY PlaceOfCall DEF PlacesOfCall, ReadingRows
<1>2. /\ HeapShape /\ EP!EngineInv /\ StoreSound(before)
      /\ call'.at # "idle" => before' = before
      /\ EP!Existing = {t \in TableNames : before.tables[t] # Absent}
  BY <1>1, OngoingFacts
<1>3. (AtRow' \/ AtGot' \/ AtScan' \/ AtRows' \/ AtRead' \/ AtChunk' \/ AtAnswer')
      => GoesOn(ReadingRows')
  BY PlaceOfCallAfter DEF PlacesOfCall, GoesOn, ReadingRows
<1>4. ReadEnds => CallOver
  <2>1. ASSUME NEW t \in EP!Existing, NEW p \in before.live, call.op = "get",
               call.id[1] = p, EP!GetNothing(p)
        PROVE  EP!NextInUse /\ EngineCall
    <3>1. EP!NextInUse
      <4>1. CASE p \in EP!TablePages(t)
        BY <2>1, <4>1 DEF EP!NextInUse, EP!Next
      <4>2. CASE p \notin EP!TablePages(t)
        BY <1>1, <2>1, <4>2 DEF EP!NextInUse
      <4> QED
        BY <4>1, <4>2
    <3>2. EngineCall
      BY <2>1, CallsOfEngine DEF EngineCall
    <3> QED
      BY <3>1, <3>2
  <2> QED
    BY <2>1 DEF ReadEnds, CallOver
<1>5. CASE AtRow
  <2>1. call.at = "row"
    BY <1>5, PlaceOfCall DEF PlacesOfCall
  <2>2. GetFetch
    BY <2>1, PlaceOfStep DEF Ongoing, Step
  <2> QED
    BY <1>2, <1>3, <1>4, <1>5, <2>2, GetFetchStep
<1>6. CASE AtGot
  <2>1. call.at = "got"
    BY <1>6, PlaceOfCall DEF PlacesOfCall
  <2>2. GetTuple
    BY <2>1, PlaceOfStep DEF Ongoing, Step
  <2> QED
    BY <1>2, <1>3, <1>4, <1>6, <2>2, GetTupleStep
<1>7. CASE AtScan
  <2>1. call.at = "scan"
    BY <1>7, PlaceOfCall DEF PlacesOfCall
  <2>2. ScanFetch
    BY <2>1, PlaceOfStep DEF Ongoing, Step
  <2> QED
    BY <1>2, <1>3, <1>4, <1>7, <2>2, ScanFetchStep
<1>8. CASE AtRows
  <2>1. call.at = "rows"
    BY <1>8, PlaceOfCall DEF PlacesOfCall
  <2>2. ScanPage
    BY <2>1, PlaceOfStep DEF Ongoing, Step
  <2> QED
    BY <1>2, <1>3, <1>4, <1>8, <2>2, ScanPageStep
<1>9. CASE AtRead
  <2>1. call.at = "read"
    BY <1>9, PlaceOfCall DEF PlacesOfCall
  <2>2. ReadFetch
    BY <2>1, PlaceOfStep DEF Ongoing, Step
  <2> QED
    BY <1>2, <1>3, <1>4, <1>9, <2>2, ReadFetchStep
<1>10. CASE AtChunk
  <2>1. call.at = "chunk"
    BY <1>10, PlaceOfCall DEF PlacesOfCall
  <2>2. ReadChunk
    BY <2>1, PlaceOfStep DEF Ongoing, Step
  <2> QED
    BY <1>2, <1>3, <1>4, <1>10, <2>2, ReadChunkStep
<1>11. CASE AtAnswer
  <2>1. call.at = "answer"
    BY <1>11, PlaceOfCall DEF PlacesOfCall
  <2>2. Answer
    BY <2>1, PlaceOfStep DEF Ongoing, Step
  <2> QED
    BY <1>2, <1>3, <1>4, <1>11, <2>2, AnswerStep
<1> QED
  BY <1>5, <1>6, <1>7, <1>8, <1>9, <1>10, <1>11 DEF ReadingRows

(* The start of a call changes nothing the engine sees. *)
LEMMA StartStep ==
    ASSUME HeapShape, EP!EngineInv, AtIdle, Start
    PROVE  /\ HeapShape' /\ UNCHANGED EP!vars /\ call'.at # "idle"
           /\ BeforeIsAStore' /\ Running'
<1> DEFINE f == Found
<1>1. before' = f /\ UNCHANGED <<live, page, pins, unused>>
  BY DEF Start, Found
<1>2. call = Idle
  BY DEF AtIdle
<1>3. /\ StoreSound(f) /\ BeforeIsAStore' /\ Untouched' /\ Pinning({})'
      /\ f.live = live /\ f.page = page /\ f.pins = pins /\ f.tables = tables
  BY <1>1, <1>2, NothingDone
<1>4. HeapShape'
  BY <1>1, SameShape
<1> HIDE DEF f
<1>5. Running'
  <2>1. ASSUME NEW t \in Existing, StartDrop(t) PROVE Running'
    BY <1>1, <1>3, <2>1, StartDropStep DEF Running, DroppingTable
  <2>2. ASSUME UNCHANGED tables, NEW t \in TableNames \ Existing, StartCreate(t) PROVE Running'
    <3>1. before'.tables[t] = Absent /\ tables' = before'.tables
      BY <1>1, <1>3, <2>2 DEF Existing
    <3>2. AtNew'
      BY <1>3, <2>2, <3>1 DEF AtNew, StartCreate
    <3> QED
      BY <3>2 DEF Running, Creating
  <2>3. ASSUME UNCHANGED tables, NEW t \in Existing, NEW row \in Rows, StartInsert(t, row)
        PROVE  Running'
    BY <1>1, <1>3, <2>3, StartInsertStep DEF Running, Inserting
  <2>4. ASSUME UNCHANGED tables, NEW t \in Existing, StartRead("scan", t, tables[t].first, 0)
        PROVE  Running'
    BY <1>1, <1>3, <2>4, StartScanStep DEF Running, ReadingRows
  <2>5. ASSUME UNCHANGED tables, NEW t \in Existing, NEW p \in live, NEW s, StartDelete(t, p, s)
        PROVE  Running'
    BY <1>1, <1>3, <2>5, StartDeleteStep DEF Running, DeletingTuple
  <2>6. ASSUME UNCHANGED tables, NEW t \in Existing, NEW p \in live, NEW s,
               HasTuple(p, s) \/ pins[p] < MaxPins, StartRead("get", t, p, s)
        PROVE  Running'
    BY <1>1, <1>3, <2>6, StartGetStep DEF Running, ReadingRows
  <2> QED
    BY <2>1, <2>2, <2>3, <2>4, <2>5, <2>6 DEF Start
<1>6. call'.at # "idle"
  BY <1>5, PlaceOfCallAfter
  DEF PlacesOfCall, Running, Creating, DroppingTable, Inserting, DeletingTuple, ReadingRows
<1>7. UNCHANGED EP!vars
  <2>1. call.at = "idle"
    BY <1>2 DEF Idle
  <2>2. before'.live = live /\ before'.page = page /\ before'.pins = pins
    BY <1>1, <1>3
  <2>3. before'.tables = tables
    BY <1>1, <1>3
  <2> QED
    BY <1>6, <2>1, <2>2, <2>3 DEF EP!vars
<1> QED
  BY <1>3, <1>4, <1>5, <1>6, <1>7

(* While a call runs, the store the user knows of does not change. *)
LEMMA FoundStays ==
    ASSUME call.at # "idle", call'.at # "idle", before' = before
    PROVE  UNCHANGED EP!vars
BY DEF EP!vars

(* The invariant holds in the empty store. *)
LEMMA HeapInitSound == HeapInit => HeapInv
<1> SUFFICES ASSUME HeapInit PROVE HeapInv
  OBVIOUS
<1>1. /\ Init /\ unused = Ascending(Pages) /\ call = Idle /\ before = Absent
      /\ Pages \in SUBSET Nat /\ IsFiniteSet(Pages)
  BY HeapAssumption, EngineAssumption DEF HeapInit
<1>2. unused \in Seq(Pages) /\ IsInjective(unused) /\ ToSet(unused) = Pages
  <2>1. unused \in Seq(Pages)
    BY <1>1, AscendingSound
  <2>2. IsInjective(unused)
    BY <1>1, AscendingSound
  <2>3. ToSet(unused) = Pages
    BY <1>1, AscendingSound
  <2> QED
    BY <2>1, <2>2, <2>3
<1>3. HeapShape
  <2>1. live = {}
    BY <1>1 DEF Init
  <2>2. page = [q \in {} |-> page[q]]
    BY <1>1 DEF Init
  <2> QED
    BY <1>2, <2>1, <2>2 DEF HeapShape
<1>4. EP!Init
  <2>1. call.at = "idle"
    BY <1>1 DEF Idle
  <2> QED
    BY <1>1, <2>1, SameEmptyPage DEF Init, EP!Init
<1>5. EP!EngineInv
  BY <1>4, SameAssumption, EP!InitSound
<1> QED
  BY <1>1, <1>3, <1>5 DEF HeapInv, AtIdle

(* A step of a running call. *)
LEMMA RunningStep ==
    ASSUME HeapShape, EP!EngineInv, BeforeIsAStore, Running, Step
    PROVE  /\ HeapShape'
           /\ \/ call'.at # "idle" /\ Running' /\ before' = before /\ UNCHANGED EP!vars
              \/ CallOver
<1>1. Ongoing
  BY DEF Ongoing
<1>2. call.at # "idle"
  BY PlaceOfCall
  DEF PlacesOfCall, Running, Creating, DroppingTable, Inserting, DeletingTuple, ReadingRows
<1>3. HeapShape' /\ ((call'.at # "idle" /\ Running') \/ CallOver)
  <2>1. CASE Creating
    BY <1>1, <2>1, CreatingStep DEF GoesOn, Running
  <2>2. CASE DroppingTable
    BY <1>1, <2>2, DroppingStep DEF GoesOn, Running
  <2>3. CASE Inserting
    BY <1>1, <2>3, InsertingStep DEF GoesOn, Running
  <2>4. CASE DeletingTuple
    BY <1>1, <2>4, DeletingStep DEF GoesOn, Running
  <2>5. CASE ReadingRows
    BY <1>1, <2>5, ReadingStep DEF GoesOn, Running
  <2> QED
    BY <2>1, <2>2, <2>3, <2>4, <2>5 DEF Running
<1>4. CASE call'.at # "idle" /\ Running'
  <2>1. before' = before
    BY <1>4 DEF Step
  <2>2. UNCHANGED EP!vars
    BY <1>2, <1>4, <2>1, FoundStays
  <2> QED
    BY <1>3, <1>4, <2>1, <2>2
<1> QED
  BY <1>3, <1>4

(* A step of the heap, or none. *)
LEMMA HeapStep ==
    ASSUME HeapInv, [Start \/ Step]_heapVars
    PROVE  /\ HeapShape'
           /\ \/ UNCHANGED EP!vars
              \/ EP!NextInUse /\ EngineCall /\ call' = Idle
           /\ \/ AtIdle' /\ before' = Absent
              \/ BeforeIsAStore' /\ Running'
<1>1. CASE UNCHANGED heapVars
  <2>1. UNCHANGED <<live, page, pins, tables, unused, call, before>>
    BY <1>1 DEF heapVars
  <2>2. HeapShape' /\ UNCHANGED EP!vars
    <3>1. HeapShape'
      BY <2>1, SameShape DEF HeapInv
    <3>2. UNCHANGED EP!vars
      BY <2>1 DEF EP!vars
    <3> QED
      BY <3>1, <3>2
  <2>3. CASE AtIdle /\ before = Absent
    BY <2>1, <2>2, <2>3 DEF AtIdle, Idle
  <2>4. CASE BeforeIsAStore /\ Running
    <3>1. BeforeIsAStore'
      BY <2>1, <2>4 DEF BeforeIsAStore
    <3>2. UNCHANGED <<live, page, pins, tables, call, before>>
      BY <2>1
    <3>3. Running'
      BY <2>4, <3>2, StillCreating, StillDropping, StillInserting, StillDeletingTuple,
         StillReadingRows DEF Running
    <3> QED
      BY <2>2, <3>1, <3>3
  <2> QED
    BY <2>2, <2>3, <2>4 DEF HeapInv
<1>2. CASE AtIdle /\ before = Absent /\ (Start \/ Step)
  <2>1. call.at = "idle"
    BY <1>2 DEF AtIdle, Idle
  <2>2. ~Step
    BY <2>1, PlaceOfStep DEF Step
  <2> QED
    BY <1>2, <2>2, StartStep DEF HeapInv
<1>3. CASE BeforeIsAStore /\ Running /\ (Start \/ Step)
  <2>1. call.at # "idle"
    BY <1>3, PlaceOfCall
    DEF PlacesOfCall, Running, Creating, DroppingTable, Inserting, DeletingTuple, ReadingRows
  <2>2. Step
    BY <1>3, <2>1 DEF Start
  <2>3. /\ HeapShape'
        /\ \/ call'.at # "idle" /\ Running' /\ before' = before /\ UNCHANGED EP!vars
           \/ CallOver
    BY <1>3, <2>2, RunningStep DEF HeapInv
  <2>4. CASE Running' /\ before' = before /\ UNCHANGED EP!vars
    BY <1>3, <2>3, <2>4 DEF BeforeIsAStore
  <2>5. CASE CallOver
    <3>1. call' = Idle /\ AtIdle' /\ before' = Absent
      BY <2>2, <2>5 DEF CallOver, AtIdle, Idle, Step
    <3> QED
      BY <2>3, <2>5, <3>1 DEF CallOver
  <2> QED
    BY <2>3, <2>4, <2>5
<1> QED
  BY <1>1, <1>2, <1>3 DEF HeapInv

(* Every step keeps the invariant. *)
LEMMA HeapNextSound == HeapInv /\ [Start \/ Step]_heapVars => HeapInv'
<1> SUFFICES ASSUME HeapInv, [Start \/ Step]_heapVars PROVE HeapInv'
  OBVIOUS
<1>1. /\ HeapShape'
      /\ \/ UNCHANGED EP!vars
         \/ EP!NextInUse /\ EngineCall /\ call' = Idle
      /\ \/ AtIdle' /\ before' = Absent
         \/ BeforeIsAStore' /\ Running'
  BY HeapStep
<1>2. EP!EngineInv'
  BY <1>1, SameAssumption, EP!NextSound DEF HeapInv
<1> QED
  BY <1>1, <1>2 DEF HeapInv

(* The invariant holds in every state. *)
LEMMA HeapInvariant == HeapSpec => []HeapInv
<1>1. HeapInit => HeapInv
  BY HeapInitSound
<1>2. HeapInv /\ [Start \/ Step]_heapVars => HeapInv'
  BY HeapNextSound
<1> QED
  BY <1>1, <1>2, PTL DEF HeapSpec

(* What the invariant says of a call that runs. *)
LEMMA RunningFacts ==
    ASSUME HeapInv, call.at # "idle"
    PROVE  BeforeIsAStore /\ Running /\ StoreSound(before)
<1>1. ~AtIdle
  BY DEF AtIdle, Idle
<1> QED
  BY <1>1, BeforeSound DEF HeapInv

(* It says which pages are pinned. *)
LEMMA PinsAreSound == HeapInv => PinsSound
<1> SUFFICES ASSUME HeapInv PROVE PinsSound
  OBVIOUS
<1>1. MaxPins \in Nat
  BY EngineAssumption
<1>2. CASE call.at = "idle"
  <2>1. EP!Shape
    BY DEF HeapInv, EP!EngineInv
  <2>2. pins \in [Pages -> 0 .. MaxPins] /\ Pinned \subseteq live
    BY <1>2, <2>1 DEF EP!Shape, EP!Pinned, Pinned
  <2>3. \A p \in Pages : pins[p] \in 0 .. MaxPins
    BY <2>2
  <2>4. \A p \in Pages : pins[p] \in 0 .. MaxPins + 2
    BY <1>1, <2>3
  <2> QED
    BY <2>2, <2>4 DEF PinsSound
<1>3. CASE call.at # "idle"
  <2>1. HeapShape /\ StoreSound(before) /\ Running
    BY <1>3, RunningFacts DEF HeapInv
  <2> QED
    BY <2>1, CreatingPins, DroppingPins, InsertingPins, DeletingPins, ReadingPins DEF Running
<1> QED
  BY <1>2, <1>3

(***************************************************************************)
(* For row ids on pages in use: a page is allocated or in line to be,      *)
(* once, and only allocated ones are pinned.                               *)
(***************************************************************************)
THEOREM HeapTypes == HeapSpec => []HeapTypeOK
<1>1. HeapInv => HeapTypeOK
  <2> SUFFICES ASSUME HeapInv PROVE HeapTypeOK
    OBVIOUS
  <2>1. live = Pages \ ToSet(unused) /\ IsInjective(unused) /\ DOMAIN page = live
    BY DEF HeapInv, HeapShape
  <2>2. Pinned \subseteq live /\ \A p \in Pages : pins[p] \in 0 .. MaxPins + 2
    BY PinsAreSound DEF PinsSound
  <2>3. IF call.at = "idle" THEN before = Absent
        ELSE DOMAIN before = {"live", "page", "pins", "tables"}
    <3>1. CASE call.at = "idle"
      <4>1. ~Running
        BY <3>1, PlaceOfCall
        DEF PlacesOfCall, Running, Creating, DroppingTable, Inserting, DeletingTuple,
            ReadingRows
      <4> QED
        BY <3>1, <4>1 DEF HeapInv
    <3>2. CASE call.at # "idle"
      <4>1. PICK f : f = [live |-> before.live, page |-> before.page,
                          pins |-> before.pins, tables |-> before.tables]
        OBVIOUS
      <4>2. DOMAIN f = {"live", "page", "pins", "tables"}
        BY <4>1
      <4>3. f = before
        BY <3>2, <4>1, RunningFacts DEF BeforeIsAStore
      <4> QED
        BY <3>2, <4>2, <4>3
    <3> QED
      BY <3>1, <3>2
  <2> QED
    BY <2>1, <2>2, <2>3 DEF HeapTypeOK
<1> QED
  BY <1>1, HeapInvariant, PTL

(* insert has room for the tuple once free_space said so, and the one panic of the heap is
   that of a tuple whose length does not fit a u16. *)
THEOREM HeapPanics == HeapSpec => []OnlyCutLengthsTrap
<1>1. HeapInv => OnlyCutLengthsTrap
  <2> SUFFICES ASSUME HeapInv, call.at = "trapped"
               PROVE  TupleSize(call.row) >= LengthModulus
    BY DEF OnlyCutLengthsTrap
  <2>1. AtTrapped
    BY RunningFacts, PlaceOfCall
    DEF PlacesOfCall, Running, Creating, DroppingTable, Inserting, DeletingTuple, ReadingRows
  <2> QED
    BY <2>1 DEF AtTrapped
<1> QED
  BY <1>1, HeapInvariant, PTL

(* It says what a finished scan or get has collected. *)
LEMMA AnswersAreSound == HeapInv => AnswersSound /\ AnswersComplete
<1> SUFFICES ASSUME HeapInv PROVE AnswersSound /\ AnswersComplete
  OBVIOUS
<1>1. CASE call.at = "answer"
  <2>1. BeforeIsAStore /\ Running /\ StoreSound(before)
    BY <1>1, RunningFacts
  <2>2. AtAnswer
    BY <1>1, <2>1, PlaceOfCall
    DEF PlacesOfCall, Running, Creating, DroppingTable, Inserting, DeletingTuple, ReadingRows
  <2> QED
    BY <2>1, <2>2, AnswerIsSound DEF HeapInv
<1>2. CASE call.at # "answer"
  BY <1>2 DEF AnswersSound, AnswersComplete
<1> QED
  BY <1>1, <1>2

(* While row ids name pages in use, get and scan answer, however full the pool, rows they were asked
   for, each once, and in each column the data of the row or, where its chain could not be read,
   still the pointer. *)
THEOREM HeapAnswers == HeapSpec => []AnswersSound
<1>1. HeapInv => AnswersSound
  BY AnswersAreSound
<1> QED
  BY <1>1, HeapInvariant, PTL

(* While row ids name pages in use, and the pins leave a frame free, they answer all the rows they
   were asked for, every pointer of a VarChar column resolved. *)
THEOREM HeapAnswersAll == HeapSpec => []AnswersComplete
<1>1. HeapInv => AnswersComplete
  BY AnswersAreSound
<1> QED
  BY <1>1, HeapInvariant, PTL

(* For row ids on pages in use: the heap, whose calls fetch and write one page after another,
   implements the engine, whose calls are single actions: every step is a step of the engine or
   changes nothing it sees. *)
THEOREM HeapImplementsEngine == HeapSpec => ImplementsEngine
<1>1. HeapInit => Engine!Init
  <2>1. HeapInit => EP!Init
    <3> SUFFICES ASSUME HeapInit PROVE EP!Init
      OBVIOUS
    <3>1. call.at = "idle"
      BY DEF HeapInit, Idle
    <3> QED
      BY <3>1, SameEmptyPage DEF HeapInit, Init, EP!Init
  <2> QED
    BY <2>1, CallsOfEngine
<1>2. HeapInv /\ [Start \/ Step]_heapVars => [call'.at = "idle" /\ EngineCall]_(Engine!vars)
  <2> SUFFICES ASSUME HeapInv, [Start \/ Step]_heapVars
               PROVE  UNCHANGED Engine!vars \/ (call'.at = "idle" /\ EngineCall)
    OBVIOUS
  <2>1. UNCHANGED EP!vars \/ (EngineCall /\ call' = Idle)
    BY HeapStep
  <2>2. UNCHANGED EP!vars => UNCHANGED Engine!vars
    BY DEF EP!vars, Engine!vars
  <2> QED
    BY <2>1, <2>2 DEF Idle
<1> QED
  BY <1>1, <1>2, HeapInvariant, PTL DEF HeapSpec, ImplementsEngine

=============================================================================
