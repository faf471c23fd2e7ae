------------------------ MODULE FrontendStoreProofs ------------------------
(***************************************************************************)
(* That every configuration becomes a legal one, whatever is typed, and a  *)
(* legal one is left as it is; and that the store's copies agree with the  *)
(* engine, for all names, schemas, pages and configurations.               *)
(***************************************************************************)
EXTENDS FrontendStore, TLAPS

(* A page size is rounded up to the next multiple of eight bytes, and no   *)
(* further than the largest page.                                          *)
LEMMA Rounded ==
    ASSUME NEW n \in Int, 64 <= n, n <= 8192
    PROVE  /\ RoundUp8(n) \in 64 .. 8192
           /\ RoundUp8(n) % 8 = 0
           /\ n % 8 = 0 => RoundUp8(n) = n
<1> DEFINE q == (n + 7) \div 8
           r == (n + 7) % 8
<1>1. q \in Int /\ r \in Int /\ 0 <= r /\ r <= 7 /\ n + 7 = 8 * q + r
    OBVIOUS
<1>2. (8 * q) % 8 = 0
    BY <1>1
<1>3. ASSUME n % 8 = 0 PROVE r = 7
    <2>1. PICK k \in Int : n = 8 * k
        <3>1. n = 8 * (n \div 8) + (n % 8) /\ n \div 8 \in Int
            OBVIOUS
        <3> QED
            BY <1>3, <3>1
    <2> HIDE DEF q, r
    <2>2. 8 * (q - k) = 7 - r
        BY <1>1, <2>1
    <2>3. q - k = 0
        BY <1>1, <2>1, <2>2
    <2> QED
        BY <1>1, <2>1, <2>2, <2>3
<1> HIDE DEF q, r
<1>4. 64 <= 8 * q /\ 8 * q <= 8192
    BY <1>1
<1>5. RoundUp8(n) = 8 * q
    BY DEF RoundUp8, q
<1> QED
    BY <1>1, <1>2, <1>3, <1>4, <1>5

(* What parse_config reads are numbers. *)
LEMMA ParsedNumbers ==
    ASSUME NEW config
    PROVE  /\ Parsed(config).page_size \in Int
           /\ Parsed(config).pool_size \in Int
           /\ Parsed(config).disk_capacity \in Int
           /\ Parsed(config).overflow_threshold \in Int
    BY MaxFieldAssumption DEF Parsed, Default

(***************************************************************************)
(* For every text a user may type in the four fields, the engine gets a    *)
(* legal configuration.                                                    *)
(***************************************************************************)
THEOREM AlwaysLegal == \A config : Legal(Configured(config))
<1> SUFFICES ASSUME NEW config PROVE Legal(Configured(config))
    OBVIOUS
<1> DEFINE c == Parsed(config)
           v == Validated(c)
           clamped == Clamp(c.page_size, 64, 8192)
           page == RoundUp8(clamped)
           pool == Clamp(c.pool_size, 4, 32)
           disk == Clamp(c.disk_capacity, 16, 256)
           threshold == Clamp(c.overflow_threshold, 32, page - PageHeaderSize - SlotSize)
<1>1. /\ v.page_size = page
      /\ v.pool_size = pool
      /\ v.disk_capacity = IF disk < pool THEN pool ELSE disk
      /\ v.overflow_threshold = threshold
    BY DEF Validated
<1>2. /\ c.page_size \in Int /\ c.pool_size \in Int
      /\ c.disk_capacity \in Int /\ c.overflow_threshold \in Int
    BY ParsedNumbers
<1> HIDE DEF c, v
<1>3. clamped \in Int /\ 64 <= clamped /\ clamped <= 8192
    BY <1>2 DEF Clamp
<1> HIDE DEF clamped
<1>4. page \in 64 .. 8192 /\ page % 8 = 0
    BY SMTT(30), <1>3, Rounded
<1>5. pool \in 4 .. 32 /\ disk \in 16 .. 256
    BY <1>2 DEF Clamp
<1> HIDE DEF page, pool, disk
<1>6. /\ threshold \in Int /\ 32 <= threshold
      /\ threshold <= page - PageHeaderSize - SlotSize
    BY <1>2, <1>4 DEF Clamp, PageHeaderSize, SlotSize
<1> HIDE DEF threshold
<1>7. Legal(v)
    <2>1. /\ v.page_size = page /\ v.pool_size = pool
          /\ v.overflow_threshold = threshold
        BY <1>1
    <2>2. PICK capacity \in 16 .. 256 : v.disk_capacity = capacity /\ pool <= capacity
        BY <1>1, <1>5
    <2>3. threshold >= 32 /\ PageHeaderSize + SlotSize + threshold <= page
        BY <1>4, <1>6 DEF PageHeaderSize, SlotSize
    <2> QED
        BY <1>4, <1>5, <2>1, <2>2, <2>3 DEF Legal
<1> QED
    BY <1>7 DEF v, c, Configured

(***************************************************************************)
(* For every legal configuration of four numbers, typing it in again gives *)
(* the same engine.                                                        *)
(***************************************************************************)
THEOREM LegalStays ==
    \A config \in [DOMAIN Default -> Int] :
        Legal(config) => Configured(config) = config
<1> SUFFICES ASSUME NEW config \in [DOMAIN Default -> Int], Legal(config)
             PROVE  Configured(config) = config
    OBVIOUS
<1> DEFINE page == config.page_size
           pool == config.pool_size
           disk == config.disk_capacity
           threshold == config.overflow_threshold
<1>1. DOMAIN Default = {"page_size", "pool_size", "disk_capacity", "overflow_threshold"}
    BY DEF Default
<1>2. page \in Int /\ pool \in Int /\ disk \in Int /\ threshold \in Int
    BY <1>1
<1>3. /\ 64 <= page /\ page <= 8192 /\ page % 8 = 0
      /\ 4 <= pool /\ pool <= 32
      /\ 16 <= disk /\ disk <= 256 /\ pool <= disk
      /\ 32 <= threshold /\ threshold <= page - PageHeaderSize - SlotSize
    <2>1. /\ page \in 64 .. 8192 /\ page % 8 = 0
          /\ pool \in 4 .. 32 /\ disk \in 16 .. 256 /\ pool <= disk
          /\ threshold >= 32 /\ PageHeaderSize + SlotSize + threshold <= page
        <3>1. PICK p \in Int, q \in Int, d \in Int, h \in Int :
                  p = page /\ q = pool /\ d = disk /\ h = threshold
            BY <1>2
        <3> HIDE DEF page, pool, disk, threshold
        <3>2. /\ config.page_size = p /\ config.pool_size = q
              /\ config.disk_capacity = d /\ config.overflow_threshold = h
            BY <3>1 DEF page, pool, disk, threshold
        <3> QED
            BY <3>1, <3>2 DEF Legal
    <2> HIDE DEF page, pool, disk, threshold
    <2> QED
        BY <1>2, <2>1 DEF PageHeaderSize, SlotSize
<1>4. config = [page_size |-> page, pool_size |-> pool,
                disk_capacity |-> disk, overflow_threshold |-> threshold]
    BY <1>1
<1>5. Parsed(config) = config
    <2>1. \A field \in DOMAIN Default : config[field] \in 0 .. MaxField
        <3>1. /\ page \in 0 .. MaxField /\ pool \in 0 .. MaxField
              /\ disk \in 0 .. MaxField /\ threshold \in 0 .. MaxField
            <4> HIDE DEF page, pool, disk, threshold
            <4> QED
                BY <1>2, <1>3, MaxFieldAssumption DEF PageHeaderSize, SlotSize
        <3> QED
            BY <1>1, <3>1
    <2>2. config = [field \in DOMAIN Default |-> config[field]]
        OBVIOUS
    <2> QED
        BY <2>1, <2>2 DEF Parsed
<1> HIDE DEF page, pool, disk, threshold
<1>6. Clamp(page, 64, 8192) = page /\ RoundUp8(page) = page
    <2>1. Clamp(page, 64, 8192) = page
        BY <1>2, <1>3 DEF Clamp
    <2> QED
        BY SMTT(30), <1>2, <1>3, <2>1, Rounded
<1>7. Clamp(pool, 4, 32) = pool /\ Clamp(disk, 16, 256) = disk /\ ~(disk < pool)
    BY <1>2, <1>3 DEF Clamp
<1>8. Clamp(threshold, 32, page - PageHeaderSize - SlotSize) = threshold
    BY <1>2, <1>3 DEF Clamp, PageHeaderSize, SlotSize
<1>9. Validated(config) = [page_size |-> page, pool_size |-> pool,
                           disk_capacity |-> disk, overflow_threshold |-> threshold]
    BY <1>6, <1>7, <1>8 DEF Validated, page, pool, disk, threshold
<1> QED
    BY <1>4, <1>5, <1>9 DEF Configured

(* What the engine says of its configuration is four numbers. *)
LEMMA ConfiguredNumbers ==
    ASSUME NEW config
    PROVE  Configured(config) \in [DOMAIN Default -> Int]
<1> DEFINE v == Configured(config)
<1>1. v = [page_size |-> v.page_size, pool_size |-> v.pool_size,
           disk_capacity |-> v.disk_capacity, overflow_threshold |-> v.overflow_threshold]
    BY DEF Configured, Validated
<1>2. v.overflow_threshold \in Int
    <2> DEFINE c == Parsed(config)
               room == RoundUp8(Clamp(c.page_size, 64, 8192)) - PageHeaderSize - SlotSize
    <2>1. v.overflow_threshold = Clamp(c.overflow_threshold, 32, room)
        BY DEF Configured, Validated
    <2>2. room \in Int
        BY ParsedNumbers DEF Clamp, RoundUp8, PageHeaderSize, SlotSize
    <2> QED
        BY <2>1, <2>2, ParsedNumbers DEF Clamp
<1>3. v.page_size \in Int /\ v.pool_size \in Int /\ v.disk_capacity \in Int
    <2> DEFINE c == Parsed(config)
               pool == Clamp(c.pool_size, 4, 32)
               disk == Clamp(c.disk_capacity, 16, 256)
    <2>1. /\ v.page_size = RoundUp8(Clamp(c.page_size, 64, 8192))
          /\ v.pool_size = pool
          /\ v.disk_capacity = IF disk < pool THEN pool ELSE disk
        BY DEF Configured, Validated
    <2>2. /\ RoundUp8(Clamp(c.page_size, 64, 8192)) \in Int
          /\ pool \in Int /\ disk \in Int
        BY ParsedNumbers DEF Clamp, RoundUp8
    <2> HIDE DEF v, pool, disk
    <2> QED
        BY <2>1, <2>2
<1> QED
    BY <1>1, <1>2, <1>3 DEF v, Default

-----------------------------------------------------------------------------

(***************************************************************************)
(* The inductive invariant.  The properties speak of the engine only while *)
(* all its tables have plain names.  When the last other one goes, it goes *)
(* by dropTable with a list that is read, and this sets everything right.  *)
(***************************************************************************)
EngineOK ==
    engine # Null =>
        /\ TablesOf(engine) \subseteq Names
        /\ \A n \in TablesOf(engine) :
            engine.table[n].page \in Pages /\ engine.table[n].schema \in Schemas

TabsNamed ==
    /\ tables \subseteq Names
    /\ selectedTable \in Names \cup {Null}

NothingSelected ==
    /\ selectedPageId \in Pages \cup {Null}
    /\ selectedTable = Null => tableInfo = Null
    /\ selectedPageId = Null => pageSnap = Null

StoreInv ==
    /\ EngineOK
    /\ TabsNamed
    /\ NothingSelected
    /\ TabsAreTables
    /\ SuccessIsCurrent
    /\ ColumnsOfSelection

-----------------------------------------------------------------------------

(* Plain names are listed as they are, and any list has names. *)
LEMMA WhatIsListed ==
    ASSUME NEW e, TablesOf(e) \subseteq Names, NEW listed \in Listed(e)
    PROVE  /\ listed # Throws => listed \subseteq Names
           /\ Listable(e) => listed # Throws /\ listed = TablesOf(e)
<1> DEFINE S == TablesOf(e)
<1>1. S \in SUBSET Names /\ listed \in Listings[S]
    BY DEF Listed
<1> HIDE DEF S
<1>2. Listings[S] \subseteq {Throws} \cup SUBSET Names
    BY <1>1, ListingAssumption
<1>3. S \subseteq Plain => Listings[S] = {S} /\ S # Throws
    BY <1>1, ListingAssumption
<1> QED
    BY <1>1, <1>2, <1>3 DEF S, Listable

(* The columns shown for a schema with plain names are its own. *)
LEMMA PlainColumns ==
    ASSUME NEW name, Schema(name) \in Schemas
    PROVE  Schema(name) \in Plain => ColumnsOf(name) = Schema(name)
    BY ListingAssumption DEF ColumnsOf

(* What the engine's operations do to its tables. *)
LEMMA TableAdded ==
    ASSUME NEW e, NEW name, NEW schema, NEW page
    PROVE  LET f == WithTable(e, name, schema, page) IN
           /\ TablesOf(f) = TablesOf(e) \cup {name}
           /\ f.table[name].schema = schema /\ f.table[name].page = page
           /\ \A n \in TablesOf(e) : n # name => f.table[n] = e.table[n]
    BY DEF WithTable, TablesOf

(* What is left of the tables when one is dropped. *)
LEMMA TableRemoved ==
    ASSUME NEW e, NEW name
    PROVE  LET f == WithoutTable(e, name) IN
           /\ TablesOf(f) = TablesOf(e) \ {name}
           /\ \A n \in TablesOf(f) : f.table[n] = e.table[n]
    BY DEF WithoutTable, TablesOf

(* Changes of rows leave the tables alone. *)
LEMMA RowsOnly ==
    ASSUME NEW e, NEW name, NEW x
    PROVE  /\ WithRow(e, name).table = e.table
           /\ WithRows(e, name, x).table = e.table
           /\ WithoutRow(e, name, x).table = e.table
    BY DEF WithRow, WithRows, WithoutRow, WithSlots

-----------------------------------------------------------------------------

(* The invariant holds when the page is loaded. *)
LEMMA StoreInit == Init => StoreInv
    BY DEF Init, StoreInv, EngineOK, TabsNamed, NothingSelected, TabsAreTables,
           SuccessIsCurrent, ColumnsOfSelection, RowsShown

(* An engine that is new, or gone. *)
LEMMA EngineStep ==
    ASSUME StoreInv, (\E config \in Configs : InitEngine(config)) \/ ResetEngine
    PROVE  StoreInv'
<1>1. CASE \E config \in Configs : InitEngine(config)
    <2>1. /\ engine' = NewEngine /\ ClearPanels
          /\ diskSnap' = DiskShown(engine')
        BY <1>1 DEF InitEngine
    <2>2. TablesOf(engine') = {}
        BY <2>1 DEF NewEngine, TablesOf
    <2> QED
        BY <2>1, <2>2 DEF ClearPanels, ClearResults, StoreInv, EngineOK, TabsNamed,
            NothingSelected, TabsAreTables, SuccessIsCurrent, ColumnsOfSelection, RowsShown, TableShown
<1>2. CASE ResetEngine
    BY <1>2 DEF ResetEngine, ClearPanels, ClearResults, StoreInv, EngineOK, TabsNamed,
        NothingSelected, TabsAreTables, SuccessIsCurrent, ColumnsOfSelection, RowsShown
<1> QED
    BY <1>1, <1>2

(* A refresh makes the panels current, whatever they were. *)
LEMMA Refreshed ==
    ASSUME StoreInv, Refresh, EngineOK', TabsNamed',
           selectedPageId' \in Pages \cup {Null},
           selectedTable' = Null => selectedTable = Null,
           selectedPageId' = Null => selectedPageId = Null
    PROVE  NothingSelected' /\ SuccessIsCurrent'
    BY NullAssumption DEF StoreInv, Refresh, NothingSelected, SuccessIsCurrent, EngineOK,
        TabsNamed, TableShown

(***************************************************************************)
(* A step that leaves the tables of the engine, the tabs and the selection *)
(* as they are: what is shown of the rows may change.                      *)
(***************************************************************************)
SameTables ==
    /\ engine # Null
    /\ engine'.table = engine.table
    /\ tables' = tables /\ selectedTable' = selectedTable

(* Calls that leave the tables alone keep what is said of the engine and the tabs. *)
LEMMA Kept ==
    ASSUME StoreInv, SameTables
    PROVE  /\ EngineOK' /\ TabsNamed' /\ TabsAreTables'
           /\ TablesOf(engine') = TablesOf(engine) /\ Listable(engine') = Listable(engine)
           /\ Schema(selectedTable)' = Schema(selectedTable)
           /\ ColumnsOf(selectedTable)' = ColumnsOf(selectedTable)
           /\ Readable(selectedTable)' = Readable(selectedTable)
    BY DEF StoreInv, SameTables, EngineOK, TabsNamed, TabsAreTables, TablesOf, Listable, Schema,
        Readable, ColumnsOf

(* The results were shown before, and nothing they depend on has changed. *)
LEMMA SameColumns ==
    ASSUME StoreInv, SameTables, UNCHANGED <<scanResults, scanColumns>>,
           getRowResult' \in {getRowResult, Null}
    PROVE  ColumnsOfSelection'
    BY Kept DEF StoreInv, SameTables, ColumnsOfSelection, RowsShown

(* Steps with a refresh, on the tables as they are. *)
LEMMA RefreshStep ==
    ASSUME StoreInv, Insert \/ (\E slot \in 1 .. SlotsPerPage : DeleteRow(slot)) \/ Flush
    PROVE  StoreInv'
<1>1. SameTables /\ Refresh /\ UNCHANGED <<selectedPageId, results>>
    BY RowsOnly DEF Insert, DeleteRow, Flush, Working, Unselected, SameTables
<1>2. NothingSelected' /\ SuccessIsCurrent'
    BY <1>1, Kept, Refreshed DEF SameTables, StoreInv, NothingSelected
<1>3. ColumnsOfSelection'
    BY <1>1, SameColumns DEF results
<1> QED
    BY <1>1, <1>2, <1>3, Kept DEF StoreInv

(* getRow keeps the invariant. *)
LEMMA GetRowStep ==
    ASSUME StoreInv, NEW slot \in 1 .. SlotsPerPage, GetRow(slot)
    PROVE  StoreInv'
<1>1. /\ SameTables /\ Refresh
      /\ selectedTable \in TablesOf(engine)
      /\ selectedPageId' = engine.table[selectedTable].page
      /\ IF scanColumns = Null
         THEN Readable(selectedTable) /\ scanColumns' = ColumnsOf(selectedTable)
         ELSE scanColumns' = scanColumns
    BY DEF GetRow, Working, Unselected, SameTables
<1>2. engine.table[selectedTable].page \in Pages
    BY <1>1 DEF StoreInv, EngineOK, SameTables
<1>3. NothingSelected' /\ SuccessIsCurrent'
    BY <1>1, <1>2, Kept, Refreshed, NullAssumption DEF SameTables, StoreInv, NothingSelected
<1>4. ColumnsOfSelection'
    <2>1. Listable(engine) =>
            Readable(selectedTable) /\ scanColumns' = ColumnsOf(selectedTable)
        BY <1>1 DEF StoreInv, SameTables, ColumnsOfSelection, RowsShown
    <2>2. Schema(selectedTable) \in Schemas
        BY <1>1 DEF StoreInv, EngineOK, SameTables, Schema
    <2> QED
        BY <1>1, <2>1, <2>2, Kept, PlainColumns DEF SameTables, ColumnsOfSelection
<1> QED
    BY <1>1, <1>3, <1>4, Kept DEF StoreInv

(* The rows are replaced before the columns are read. *)
LEMMA ScanStep ==
    ASSUME StoreInv, Scan
    PROVE  StoreInv'
<1>1. /\ SameTables /\ UNCHANGED <<engine, selectedPageId, getRowResult>>
      /\ selectedTable \in TablesOf(engine)
    BY DEF Scan, Working, Unselected, SameTables
<1>2. CASE Readable(selectedTable)
    <2>1. Refresh /\ scanColumns' = ColumnsOf(selectedTable)
        BY <1>2 DEF Scan
    <2>2. NothingSelected' /\ SuccessIsCurrent'
        BY <1>1, <2>1, Kept, Refreshed DEF SameTables, StoreInv, NothingSelected
    <2>3. ColumnsOfSelection'
        <3>1. Schema(selectedTable) \in Schemas
            BY <1>1 DEF StoreInv, EngineOK, SameTables, Schema
        <3> QED
            BY <1>1, <1>2, <2>1, <3>1, Kept, PlainColumns DEF SameTables, ColumnsOfSelection
    <2> QED
        BY <1>1, <2>2, <2>3, Kept DEF StoreInv
<1>3. CASE ~Readable(selectedTable)
    <2>1. UNCHANGED <<scanColumns, panels>> /\ statusType' = "error"
        BY <1>3 DEF Scan
    <2>2. NothingSelected' /\ SuccessIsCurrent'
        BY <1>1, <2>1 DEF SameTables, StoreInv, NothingSelected, SuccessIsCurrent, panels
    <2>3. ColumnsOfSelection'
        BY <1>1, <1>3, <2>1, Kept DEF SameTables, StoreInv, ColumnsOfSelection, RowsShown
    <2> QED
        BY <1>1, <2>2, <2>3, Kept DEF StoreInv
<1> QED
    BY <1>2, <1>3

(* Steps that leave the panels alone, for an error or the user's own sake. *)
LEMMA QuietStep ==
    ASSUME StoreInv, InsertFails \/ GetRowFails \/ ClearGetResult
                        \/ \E name \in Names : CreateTableFails(name)
    PROVE  StoreInv'
<1>1. /\ UNCHANGED <<engine, tables, selectedTable, selectedPageId, panels,
                      scanResults, scanColumns>>
      /\ getRowResult' \in {getRowResult, Null}
      /\ statusType' \in {statusType, "error"}
    BY DEF InsertFails, GetRowFails, ClearGetResult, CreateTableFails, Caught, Unselected,
           results
<1> QED
    BY <1>1 DEF panels, StoreInv, EngineOK, TabsNamed, NothingSelected, TabsAreTables,
        SuccessIsCurrent, ColumnsOfSelection, RowsShown, Readable, ColumnsOf, TablesOf, Listable, Schema, TableShown,
        DiskShown, PageShown, PagesOf

(* So does selectPage, *)
LEMMA SelectPageStep ==
    ASSUME StoreInv, NEW p \in Pages \cup {Null}, SelectPage(p)
    PROVE  StoreInv'
<1>1. /\ UNCHANGED <<engine, tables, selectedTable, diskSnap, tableInfo, scanResults,
                      scanColumns, getRowResult, statusType>>
      /\ selectedPageId' = p
      /\ pageSnap' = IF p = Null THEN Null ELSE PageShown(engine, p)
    BY DEF SelectPage, Unselected, results
<1> QED
    BY <1>1 DEF StoreInv, EngineOK, TabsNamed, NothingSelected, TabsAreTables,
        SuccessIsCurrent, ColumnsOfSelection, RowsShown, Readable, ColumnsOf, TablesOf, Listable, Schema, TableShown,
        DiskShown, PageShown, PagesOf, Rows, SlotsOf

(* selectTable, *)
LEMMA SelectTableStep ==
    ASSUME StoreInv, NEW name \in tables, SelectTable(name)
    PROVE  StoreInv'
<1>1. name \in Names /\ name # Null
    BY NullAssumption DEF StoreInv, TabsNamed
<1>2. /\ UNCHANGED <<engine, tables, selectedPageId, diskSnap, pageSnap, statusType>>
      /\ selectedTable' = name /\ tableInfo' = TableShown(engine, name)
      /\ scanResults' = {} /\ scanColumns' = Null /\ getRowResult' = Null
    BY DEF SelectTable, ClearResults
<1> QED
    BY <1>1, <1>2 DEF StoreInv, EngineOK, TabsNamed, NothingSelected, TabsAreTables,
        SuccessIsCurrent, ColumnsOfSelection, RowsShown, Readable, ColumnsOf, TablesOf, Listable, Schema, TableShown,
        DiskShown, PageShown, PagesOf, Rows, SlotsOf

-----------------------------------------------------------------------------

(***************************************************************************)
(* The tables change.  When some table has no plain name afterwards,       *)
(* nothing is said of the store but that its parts are of the right kinds. *)
(***************************************************************************)
LEMMA UnlistedStep ==
    ASSUME EngineOK', TabsNamed', NothingSelected', ~Listable(engine')
    PROVE  StoreInv'
    BY DEF StoreInv, TabsAreTables, SuccessIsCurrent, ColumnsOfSelection

(* the creation of a table, by hand or from a file, *)
LEMMA CreateStep ==
    ASSUME StoreInv, NEW name \in Names, NEW schema \in Schemas,
           \/ CreateTable(name, schema)
           \/ \E n \in 0 .. SlotsPerPage + 1, refused \in BOOLEAN :
                FillTable(name, schema, n, refused)
    PROVE  StoreInv'
<1> DEFINE
    Shown(listed) ==
        /\ tables' = listed
        /\ selectedTable' = IF selectedTable = Null THEN name ELSE selectedTable
        /\ UNCHANGED <<selectedPageId, results>>
        /\ Refresh \/ (UNCHANGED panels /\ statusType' = "error")
    Created(listed) ==
        /\ engine # Null
        /\ name \notin TablesOf(engine)
        /\ \E p \in Pages : engine'.table = WithTable(engine, name, schema, p).table
        /\ IF listed = Throws
           THEN UNCHANGED <<tables, selectedTable, selectedPageId, panels>>
           ELSE Shown(listed)
<1>1. \E listed \in Listed(engine') : Created(listed)
    <2>1. CASE CreateTable(name, schema)
        <3>1. PICK listed \in Listed(engine') :
                IF listed = Throws THEN Caught ELSE Shown(listed)
            BY <2>1 DEF CreateTable
        <3>2. /\ engine # Null /\ name \notin TablesOf(engine)
              /\ \E p \in Pages : engine' = WithTable(engine, name, schema, p)
            BY <2>1 DEF CreateTable, CanCreate
        <3>3. Created(listed)
            BY <3>1, <3>2 DEF Caught
        <3> QED
            BY <3>3
    <2>2. ASSUME NEW n \in 0 .. SlotsPerPage + 1, NEW refused \in BOOLEAN,
                 FillTable(name, schema, n, refused)
          PROVE  \E listed \in Listed(engine') : Created(listed)
        <3> DEFINE good == IF refused THEN n - 1 ELSE n
                   kept == IF good > SlotsPerPage THEN SlotsPerPage ELSE good
        <3>1. PICK p \in Pages :
                LET created == WithTable(engine, name, schema, p) IN
                \E listed \in Listed(created) :
                    IF listed = Throws THEN engine' = created /\ Caught
                    ELSE engine' = WithRows(created, name, kept) /\ Shown(listed)
            BY <2>2 DEF FillTable
        <3> HIDE DEF kept
        <3>2. engine # Null /\ name \notin TablesOf(engine)
            BY <2>2 DEF FillTable, CanCreate
        <3> DEFINE created == WithTable(engine, name, schema, p)
        <3> HIDE DEF created, Shown
        <3>3. PICK listed \in Listed(created) :
                IF listed = Throws THEN engine' = created /\ Caught
                ELSE engine' = WithRows(created, name, kept) /\ Shown(listed)
            BY <3>1 DEF created
        <3>4. engine'.table = created.table
            BY <3>3, RowsOnly
        <3>5. Listed(engine') = Listed(created)
            BY <3>4 DEF Listed, TablesOf
        <3>6. Created(listed)
            BY <3>2, <3>3, <3>4 DEF created, Caught
        <3> QED
            BY <3>3, <3>5, <3>6
    <2> QED
        BY <2>1, <2>2
<1>2. PICK listed \in Listed(engine') : Created(listed)
    BY <1>1
<1>3. PICK p \in Pages : engine'.table = WithTable(engine, name, schema, p).table
    BY <1>2
<1>4. /\ TablesOf(engine') = TablesOf(engine) \cup {name}
      /\ engine'.table[name].schema = schema /\ engine'.table[name].page = p
      /\ \A n \in TablesOf(engine) : engine'.table[n] = engine.table[n]
    BY <1>2, <1>3, TableAdded DEF TablesOf
<1>5. EngineOK'
    BY <1>2, <1>4 DEF StoreInv, EngineOK
<1>6. TablesOf(engine') \subseteq Names /\ name # Null
    BY <1>2, <1>4, NullAssumption DEF StoreInv, EngineOK
<1>7. /\ listed # Throws => listed \subseteq Names
      /\ Listable(engine') => listed # Throws /\ listed = TablesOf(engine')
    BY <1>6, WhatIsListed
<1>8. CASE listed = Throws
    <2>1. UNCHANGED <<tables, selectedTable, selectedPageId, panels>>
        BY <1>2, <1>8
    <2>2. TabsNamed' /\ NothingSelected'
        BY <2>1 DEF panels, StoreInv, TabsNamed, NothingSelected
    <2> QED
        BY <1>5, <1>7, <1>8, <2>2, UnlistedStep
<1>9. CASE listed # Throws
    <2>1. /\ tables' = listed
          /\ selectedTable' = IF selectedTable = Null THEN name ELSE selectedTable
          /\ UNCHANGED <<selectedPageId, results>>
          /\ Refresh \/ (UNCHANGED panels /\ statusType' = "error")
        BY <1>2, <1>9
    <2>2. TabsNamed'
        BY <1>7, <1>9, <2>1 DEF StoreInv, TabsNamed
    <2>3. /\ NothingSelected'
          /\ Listable(engine) => SuccessIsCurrent'
        <3>1. CASE Refresh
            BY <1>5, <1>6, <2>1, <2>2, <3>1, Refreshed DEF StoreInv, NothingSelected
        <3>2. CASE UNCHANGED panels /\ statusType' = "error"
            BY <1>6, <2>1, <3>2 DEF StoreInv, NothingSelected, SuccessIsCurrent, panels
        <3> QED
            BY <2>1, <3>1, <3>2
    <2>4. CASE ~Listable(engine')
        BY <1>5, <2>2, <2>3, <2>4, UnlistedStep
    <2>5. CASE Listable(engine')
        <3>1. Listable(engine) /\ TablesOf(engine) \subseteq Names
            BY <1>2, <1>4, <2>5 DEF Listable, StoreInv, EngineOK
        <3>2. TabsAreTables'
            BY <1>2, <1>4, <1>7, <2>1, <2>5, <3>1 DEF StoreInv, TabsAreTables
        <3>3. ColumnsOfSelection'
            <4>1. RowsShown => selectedTable # Null /\ selectedTable \in TablesOf(engine)
                BY <1>2, <3>1, NullAssumption DEF StoreInv, ColumnsOfSelection
            <4> QED
                BY <1>2, <1>4, <2>1, <3>1, <4>1 DEF StoreInv, ColumnsOfSelection, RowsShown,
                    results, Schema, ColumnsOf, Readable
        <3> QED
            BY <1>5, <2>2, <2>3, <3>1, <3>2, <3>3 DEF StoreInv
    <2> QED
        BY <2>4, <2>5
<1> QED
    BY <1>8, <1>9

(* and dropTable. *)
LEMMA DropStep ==
    ASSUME StoreInv, DropTable
    PROVE  StoreInv'
<1>1. /\ engine # Null /\ selectedTable # Null
      /\ engine' = WithoutTable(engine, selectedTable)
    BY DEF DropTable
<1>2. /\ TablesOf(engine') = TablesOf(engine) \ {selectedTable}
      /\ \A n \in TablesOf(engine') : engine'.table[n] = engine.table[n]
    BY <1>1, TableRemoved
<1>3. EngineOK'
    BY <1>1, <1>2 DEF StoreInv, EngineOK
<1>4. TablesOf(engine') \subseteq Names
    BY <1>1, <1>2 DEF StoreInv, EngineOK
<1>5. PICK listed \in Listed(engine') :
        IF listed = Throws
        THEN UNCHANGED <<tables, selectedTable, selectedPageId, panels>>
        ELSE /\ tables' = listed
             /\ selectedTable' \in (IF tables' = {} THEN {Null} ELSE tables')
             /\ UNCHANGED selectedPageId
             /\ scanResults' = {} /\ scanColumns' = Null /\ getRowResult' = Null
             /\ diskSnap' = DiskShown(engine')
             /\ pageSnap' = IF selectedPageId = Null THEN pageSnap
                            ELSE PageShown(engine', selectedPageId)
             /\ tableInfo' = IF selectedTable' = Null THEN Null
                             ELSE TableShown(engine', selectedTable')
    BY DEF DropTable, ClearResults
<1>6. /\ listed # Throws => listed \subseteq Names
      /\ Listable(engine') => listed # Throws /\ listed = TablesOf(engine')
    BY <1>4, WhatIsListed
<1>7. TabsNamed' /\ NothingSelected'
    BY <1>5, <1>6 DEF StoreInv, TabsNamed, NothingSelected, panels
<1>8. CASE ~Listable(engine')
    BY <1>3, <1>7, <1>8, UnlistedStep
<1>9. CASE Listable(engine')
    <2>1. TabsAreTables' /\ ColumnsOfSelection'
        BY <1>5, <1>6, <1>9 DEF TabsAreTables, ColumnsOfSelection, RowsShown
    <2>2. SuccessIsCurrent'
        <3>1. Null \notin TablesOf(engine')
            BY <1>4, NullAssumption
        <3> QED
            BY <1>5, <1>6, <1>9, <3>1 DEF StoreInv, NothingSelected, SuccessIsCurrent, TableShown
    <2> QED
        BY <1>3, <1>7, <2>1, <2>2 DEF StoreInv
<1> QED
    BY <1>8, <1>9

(* Every step keeps it. *)
LEMMA StoreNext == StoreInv /\ [Next]_vars => StoreInv'
<1> SUFFICES ASSUME StoreInv, [Next]_vars PROVE StoreInv'
    OBVIOUS
<1>1. CASE UNCHANGED vars
    BY <1>1 DEF vars, panels, results, StoreInv, EngineOK, TabsNamed, NothingSelected,
        TabsAreTables, SuccessIsCurrent, ColumnsOfSelection, RowsShown, Readable, ColumnsOf, TablesOf, Listable, Schema,
        TableShown, DiskShown, PageShown, PagesOf, Rows, SlotsOf
<1>2. CASE Next
    BY <1>2, EngineStep, CreateStep, DropStep, SelectTableStep, RefreshStep, QuietStep,
        GetRowStep, ScanStep, SelectPageStep DEF Next
<1> QED
    BY <1>1, <1>2

(***************************************************************************)
(* For all names, schemas and pages, and whatever is made of names that    *)
(* are not plain: while all tables have plain names, the tabs are the      *)
(* engine's tables, the panels are current after a success, and rows are   *)
(* shown under the columns of their own table, as JSON.parse has them.     *)
(* Nothing of this is said while a table of another name is there.         *)
(***************************************************************************)
THEOREM StoreAgrees == Spec => [](TabsAreTables /\ SuccessIsCurrent /\ ColumnsOfSelection)
<1>1. StoreInv => TabsAreTables /\ SuccessIsCurrent /\ ColumnsOfSelection
    BY DEF StoreInv
<1> QED
    BY <1>1, StoreInit, StoreNext, PTL DEF Spec

(***************************************************************************)
(* For every text typed into the form: the engine has a legal              *)
(* configuration, and the one the page shows of it is its own.             *)
(***************************************************************************)
THEOREM EngineAlwaysLegal == Spec => []ConfigLegal
<1>1. Init => ConfigLegal
    BY DEF Init, ConfigLegal
<1>2. ConfigLegal /\ [Next]_vars => ConfigLegal'
    <2> SUFFICES ASSUME ConfigLegal, [Next]_vars PROVE ConfigLegal'
        OBVIOUS
    <2>1. CASE \E config \in Configs : InitEngine(config)
        <3>1. PICK config \in Configs : InitEngine(config)
            BY <2>1
        <3>2. engineConfig' = Configured(config)
            BY <3>1 DEF InitEngine
        <3>3. Legal(engineConfig')
            BY <3>2, AlwaysLegal
        <3>4. engineConfig' \in [DOMAIN Default -> Int]
            BY <3>2, ConfiguredNumbers
        <3> QED
            BY <3>3, <3>4, LegalStays DEF ConfigLegal
    <2>2. CASE ResetEngine
        BY <2>2 DEF ResetEngine, ConfigLegal
    <2>3. ASSUME ~ResetEngine, ~(\E config \in Configs : InitEngine(config))
          PROVE  engineConfig' = engineConfig /\ (engine = Null => engine' = Null)
        BY <2>3 DEF Next, vars, CreateTable, FillTable, CreateTableFails, Caught, DropTable,
            SelectTable, Insert, InsertFails, DeleteRow, GetRow, GetRowFails, Scan,
            ClearGetResult, SelectPage, Flush, Unselected, Working
    <2> QED
        BY <2>1, <2>2, <2>3 DEF ConfigLegal
<1> QED
    BY <1>1, <1>2, PTL DEF Spec

=============================================================================
