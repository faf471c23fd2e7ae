--------------------------- MODULE FrontendStore ---------------------------
(***************************************************************************)
(* The state the page shows (frontend/src/lib/stores/storage.svelte.ts):   *)
(* copies of what the engine answered, refreshed by the store's functions, *)
(* some of which stop in the middle when the engine throws.                *)
(*                                                                         *)
(* Of the engine a table has a schema and one page with SlotsPerPage       *)
(* slots; rows are named on the page of their own table, and a frame is    *)
(* always free.  The store's texts, the selected slot and cell, and the    *)
(* copy of the buffer pool are left out.                                   *)
(***************************************************************************)
EXTENDS EngineConfig, SequencesExt

CONSTANTS
    Names,          \* of tables, and what is listed for one that is printed wrongly
    Schemas,        \* and what is shown for one that is printed wrongly
    Plain,          \* the names and the schemas that JSON prints as they are: without
                    \* quotation marks, backslashes and control characters
    Listings,       \* what JSON.parse may make of list_tables, by the tables there are
    Printed,        \* what it makes of schema_to_json, by the schema
    Throws,         \* it throws
    Pages,
    SlotsPerPage,
    Configs,        \* what a user types into the form of the engine
    Null

ASSUME NullAssumption == Null \notin Names \cup Pages \cup Schemas

(***************************************************************************)
(* list_tables and schema_to_json put names between quotation marks as     *)
(* they are.  A plain name is read back as it is; any other one may be     *)
(* read as another name (\u0061 as a), as several (a","b), or make the     *)
(* whole text no JSON (C:\x).  Which of these may depend on the names      *)
(* around it and on their order, which is that of a hash map.              *)
(***************************************************************************)
ASSUME ListingAssumption ==
    /\ Throws \notin Schemas /\ \A S \in SUBSET Names : S # Throws
    /\ Listings \in [SUBSET Names -> SUBSET ({Throws} \cup SUBSET Names)]
    /\ \A S \in SUBSET Names : S \subseteq Plain => Listings[S] = {S}
    /\ Printed \in [Schemas -> {Throws} \cup Schemas]
    /\ \A schema \in Schemas \cap Plain : Printed[schema] = schema

VARIABLES
    engine,
    engineConfig,
    tables, selectedTable,
    selectedPageId,
    diskSnap, pageSnap, tableInfo,              \* refreshed together
    scanResults, scanColumns, getRowResult,
    statusType

panels == <<diskSnap, pageSnap, tableInfo>>
results == <<scanResults, scanColumns, getRowResult>>
vars == <<engine, engineConfig, tables, selectedTable, selectedPageId,
          panels, results, statusType>>

-----------------------------------------------------------------------------

(* The engine: its tables, and the slots of its pages, TRUE for live ones. *)
NewEngine == [table |-> [n \in {} |-> Null], slots |-> [p \in Pages |-> << >>]]

TablesOf(e) == DOMAIN e.table

PagesOf(e) == {e.table[n].page : n \in TablesOf(e)}

SlotsOf(e, name) == e.slots[e.table[name].page]

Live(slots) == {s \in DOMAIN slots : slots[s]}

Rows(e, name) == Live(SlotsOf(e, name))

CanCreate(e, name) == name \notin TablesOf(e) /\ PagesOf(e) # Pages

WithTable(e, name, schema, page) ==
    [table |-> [n \in TablesOf(e) \cup {name} |->
                    IF n = name THEN [schema |-> schema, page |-> page] ELSE e.table[n]],
     slots |-> [e.slots EXCEPT ![page] = << >>]]

WithoutTable(e, name) ==
    [table |-> [n \in TablesOf(e) \ {name} |-> e.table[n]], slots |-> e.slots]

WithSlots(e, name, slots) ==
    [table |-> e.table, slots |-> [e.slots EXCEPT ![e.table[name].page] = slots]]

CanInsert(e, name) ==
    LET slots == SlotsOf(e, name) IN Live(slots) # DOMAIN slots \/ Len(slots) < SlotsPerPage

WithRow(e, name) ==
    LET slots == SlotsOf(e, name)
        free == DOMAIN slots \ Live(slots)
    IN  WithSlots(e, name, IF free = {} THEN Append(slots, TRUE)
                           ELSE [slots EXCEPT ![Min(free)] = TRUE])

(* n rows, in a table that was just created. *)
WithRows(e, name, n) == WithSlots(e, name, [s \in 1 .. n |-> TRUE])

WithoutRow(e, name, slot) ==
    WithSlots(e, name, [SlotsOf(e, name) EXCEPT ![slot] = FALSE])

(* listTables: what may come of the names that list_tables prints. *)
Listed(e) == Listings[TablesOf(e)]

Listable(e) == TablesOf(e) \subseteq Plain

(* snapshotDisk, snapshotPage and snapshotTable *)
DiskShown(e) == PagesOf(e)

PageShown(e, p) == e.slots[p]

TableShown(e, name) ==
    IF name \in TablesOf(e)
    THEN [schema |-> e.table[name].schema, rowCount |-> Cardinality(Rows(e, name)),
          pageIds |-> <<e.table[name].page>>]
    ELSE Null

-----------------------------------------------------------------------------

Init ==
    /\ engine = Null /\ engineConfig = Null
    /\ tables = {} /\ selectedTable = Null /\ selectedPageId = Null
    /\ diskSnap = Null /\ pageSnap = Null /\ tableInfo = Null
    /\ scanResults = {} /\ scanColumns = Null /\ getRowResult = Null
    /\ statusType = "info"

(* refreshSnapshots, with the engine and the selection as they are then. *)
Refresh ==
    /\ diskSnap' = DiskShown(engine')
    /\ pageSnap' = IF selectedPageId' = Null THEN pageSnap
                   ELSE PageShown(engine', selectedPageId')
    /\ tableInfo' = IF selectedTable' = Null THEN tableInfo
                    ELSE TableShown(engine', selectedTable')

ClearResults == scanResults' = {} /\ scanColumns' = Null /\ getRowResult' = Null

ClearPanels ==
    /\ tables' = {} /\ selectedTable' = Null /\ selectedPageId' = Null
    /\ pageSnap' = Null /\ tableInfo' = Null
    /\ ClearResults

InitEngine(config) ==
    /\ engine' = NewEngine
    /\ engineConfig' = Configured(config)
    /\ ClearPanels
    /\ diskSnap' = DiskShown(engine')
    /\ statusType' = "success"

ResetEngine ==
    /\ engine # Null
    /\ engine' = Null /\ engineConfig' = Null
    /\ ClearPanels
    /\ diskSnap' = Null
    /\ statusType' = "info"

(* A call the engine refuses, or a listTables that throws: nothing else is done. *)
Caught ==
    /\ statusType' = "error"
    /\ UNCHANGED <<engineConfig, tables, selectedTable, selectedPageId, panels, results>>

CreateTable(name, schema) ==
    /\ engine # Null
    /\ CanCreate(engine, name)
    /\ \E p \in Pages \ PagesOf(engine) : engine' = WithTable(engine, name, schema, p)
    /\ \E listed \in Listed(engine') :
        IF listed = Throws THEN Caught
        ELSE /\ tables' = listed
             /\ selectedTable' = IF selectedTable = Null THEN name ELSE selectedTable
             /\ UNCHANGED <<engineConfig, selectedPageId, results>>
             /\ Refresh
             /\ statusType' = "success"

(* The same of createTable, bootstrapTable and loadFromCSV. *)
CreateTableFails(name) ==
    /\ engine # Null
    /\ ~CanCreate(engine, name)
    /\ UNCHANGED engine
    /\ Caught

(* bootstrapTable and loadFromCSV: the last of n rows may be one that the  *)
(* engine refuses, and so is any that finds no room.                       *)
FillTable(name, schema, n, refused) ==
    /\ engine # Null
    /\ CanCreate(engine, name)
    /\ \E p \in Pages \ PagesOf(engine) :
        LET created == WithTable(engine, name, schema, p)
            good == IF refused THEN n - 1 ELSE n
            kept == IF good > SlotsPerPage THEN SlotsPerPage ELSE good
        IN  \E listed \in Listed(created) :
            IF listed = Throws THEN engine' = created /\ Caught
            ELSE /\ engine' = WithRows(created, name, kept)
                 /\ tables' = listed
                 /\ selectedTable' = IF selectedTable = Null THEN name ELSE selectedTable
                 /\ UNCHANGED <<engineConfig, selectedPageId, results>>
                 /\ IF kept = n THEN Refresh /\ statusType' = "success"
                    ELSE UNCHANGED panels /\ statusType' = "error"

(* Mutant of DropTable: the selection stays. *)
DropTableSelected ==
    /\ selectedTable # Null
    /\ engine # Null
    /\ engine' = WithoutTable(engine, selectedTable)
    /\ \E listed \in Listed(engine') :
        IF listed = Throws
        THEN UNCHANGED <<engineConfig, tables, selectedTable, selectedPageId,
                         panels, results, statusType>>
        ELSE /\ tables' = listed
             /\ UNCHANGED <<selectedTable, engineConfig, selectedPageId>>
             /\ ClearResults
             /\ Refresh
             /\ statusType' = "success"

(* dropTable, of the selected table, which need not be one of the engine's *)
(* if it was listed wrongly; what listTables throws nobody catches.        *)
DropTable ==
    /\ selectedTable # Null
    /\ engine # Null
    /\ engine' = WithoutTable(engine, selectedTable)
    /\ \E listed \in Listed(engine') :
        IF listed = Throws
        THEN UNCHANGED <<engineConfig, tables, selectedTable, selectedPageId,
                         panels, results, statusType>>
        ELSE /\ tables' = listed
             /\ selectedTable' \in (IF tables' = {} THEN {Null} ELSE tables')
             /\ UNCHANGED <<engineConfig, selectedPageId>>
             /\ ClearResults
             /\ diskSnap' = DiskShown(engine')
             /\ pageSnap' = IF selectedPageId = Null THEN pageSnap
                            ELSE PageShown(engine', selectedPageId)
             /\ tableInfo' = IF selectedTable' = Null THEN Null
                             ELSE TableShown(engine', selectedTable')
             /\ statusType' = "success"

(* Mutant of SelectTable: the rows of the other table stay. *)
SelectTableOnly(name) ==
    /\ selectedTable' = name
    /\ tableInfo' = TableShown(engine, name)
    /\ UNCHANGED <<engine, engineConfig, tables, selectedPageId, diskSnap, pageSnap,
                   results, statusType>>

SelectTable(name) ==
    /\ selectedTable' = name
    /\ ClearResults
    /\ tableInfo' = TableShown(engine, name)
    /\ UNCHANGED <<engine, engineConfig, tables, selectedPageId, diskSnap, pageSnap, statusType>>

-----------------------------------------------------------------------------

(* The selected table, as long as the engine has it. *)
Working == engine # Null /\ selectedTable # Null /\ selectedTable \in TablesOf(engine)

Unselected == UNCHANGED <<engineConfig, tables, selectedTable>>

(* Mutant of Insert: the panels are left as they are. *)
InsertUnseen ==
    /\ Working
    /\ CanInsert(engine, selectedTable)
    /\ engine' = WithRow(engine, selectedTable)
    /\ Unselected
    /\ UNCHANGED <<selectedPageId, results, panels>>
    /\ statusType' = "success"

Insert ==
    /\ Working
    /\ CanInsert(engine, selectedTable)
    /\ engine' = WithRow(engine, selectedTable)
    /\ Unselected /\ UNCHANGED <<selectedPageId, results>>
    /\ Refresh
    /\ statusType' = "success"

(* A row that is refused; deleteRow and scan of a table that is gone. *)
InsertFails == engine # Null /\ selectedTable # Null /\ UNCHANGED engine /\ Caught

DeleteRow(slot) ==
    /\ Working
    /\ LET found == slot \in Rows(engine, selectedTable) IN
        /\ engine' = IF found THEN WithoutRow(engine, selectedTable, slot) ELSE engine
        /\ statusType' = IF found THEN "success" ELSE "error"
    /\ Unselected /\ UNCHANGED <<selectedPageId, results>>
    /\ Refresh

Schema(name) == engine.table[name].schema

(* tableSchema: what comes of the columns that schema_to_json prints. *)
ColumnsOf(name) == Printed[Schema(name)]

Readable(name) == ColumnsOf(name) # Throws

GetRow(slot) ==
    /\ Working
    /\ slot \in Rows(engine, selectedTable)
    /\ scanColumns # Null \/ Readable(selectedTable)
    /\ UNCHANGED <<engine, scanResults>> /\ Unselected
    /\ getRowResult' = slot
    /\ scanColumns' = IF scanColumns = Null THEN ColumnsOf(selectedTable) ELSE scanColumns
    /\ selectedPageId' = engine.table[selectedTable].page
    /\ Refresh
    /\ statusType' = "success"

(* Of a row that is not there, or under columns that cannot be read. *)
GetRowFails ==
    /\ engine # Null /\ selectedTable # Null
    /\ getRowResult' = Null
    /\ statusType' = "error"
    /\ UNCHANGED <<engine, selectedPageId, panels, scanResults, scanColumns>> /\ Unselected

Scan ==
    /\ Working
    /\ scanResults' = Rows(engine, selectedTable)
    /\ UNCHANGED <<engine, selectedPageId, getRowResult>> /\ Unselected
    /\ IF Readable(selectedTable)
       THEN scanColumns' = ColumnsOf(selectedTable) /\ Refresh /\ statusType' = "success"
       ELSE UNCHANGED <<scanColumns, panels>> /\ statusType' = "error"

ClearGetResult ==
    /\ getRowResult # Null
    /\ getRowResult' = Null
    /\ UNCHANGED <<engine, selectedPageId, panels, scanResults, scanColumns, statusType>>
    /\ Unselected

(* selectPage, selectRowFromScan and selectCell *)
SelectPage(p) ==
    /\ diskSnap # Null
    /\ selectedPageId' = p
    /\ pageSnap' = IF p = Null THEN Null ELSE PageShown(engine, p)
    /\ UNCHANGED <<engine, diskSnap, tableInfo, results, statusType>> /\ Unselected

(* flushPage and flushAll *)
Flush ==
    /\ engine # Null
    /\ UNCHANGED <<engine, selectedPageId, results>> /\ Unselected
    /\ Refresh
    /\ statusType' = "success"

Next ==
    \/ \E config \in Configs : InitEngine(config)
    \/ ResetEngine
    \/ \E name \in Names, schema \in Schemas :
        \/ CreateTable(name, schema)
        \/ \E n \in 0 .. SlotsPerPage + 1, refused \in BOOLEAN :
            (refused => n > 0) /\ FillTable(name, schema, n, refused)
    \/ \E name \in Names : CreateTableFails(name)
    \/ DropTable
    \/ \E name \in tables : SelectTable(name)
    \/ Insert \/ InsertFails
    \/ \E slot \in 1 .. SlotsPerPage : DeleteRow(slot) \/ GetRow(slot)
    \/ GetRowFails \/ Scan \/ ClearGetResult
    \/ \E p \in Pages \cup {Null} : SelectPage(p)
    \/ Flush

Spec == Init /\ [][Next]_vars

-----------------------------------------------------------------------------

(***************************************************************************)
(* Every engine the page ever has a form for is a legal one, and typing in *)
(* what the page shows of it makes the same one again.                     *)
(***************************************************************************)
ConfigLegal ==
    engine # Null => Legal(engineConfig) /\ Configured(engineConfig) = engineConfig

(***************************************************************************)
(* While all tables have plain names, the tabs are the engine's tables,    *)
(* and one of them is selected if there is any: also after a load that     *)
(* stopped in the middle, and again when the last table with another name  *)
(* was dropped, whatever tabs that one had in the meantime.                *)
(***************************************************************************)
TabsAreTables ==
    (engine # Null /\ Listable(engine)) =>
        /\ tables = TablesOf(engine)
        /\ IF tables = {} THEN selectedTable = Null ELSE selectedTable \in tables

(***************************************************************************)
(* While all tables have plain names, and as long as the last word to the  *)
(* user was of a success, the panels show what the engine would answer     *)
(* now: nothing that changed it, not even half-way, was left without a     *)
(* refresh or an error.  With a table of another name it does not hold:    *)
(* dropTable then may throw behind an earlier success, with the table gone *)
(* and the panels as they were.                                            *)
(***************************************************************************)
SuccessIsCurrent ==
    (engine # Null /\ Listable(engine) /\ statusType = "success") =>
        /\ diskSnap = DiskShown(engine)
        /\ pageSnap = IF selectedPageId = Null THEN Null ELSE PageShown(engine, selectedPageId)
        /\ tableInfo = TableShown(engine, selectedTable)

(***************************************************************************)
(* While all tables have plain names, rows are shown under the columns of  *)
(* the table they are from, which is the selected one, also if a table of  *)
(* that name was dropped and created again with other columns: under the   *)
(* columns as JSON.parse has them, which are the table's own if these have *)
(* plain names, or under none, if scan could not read them.                *)
(***************************************************************************)
RowsShown == scanResults # {} \/ getRowResult # Null \/ scanColumns # Null

ColumnsOfSelection ==
    (engine # Null /\ Listable(engine) /\ RowsShown) =>
        /\ selectedTable \in TablesOf(engine)
        /\ \/ /\ Readable(selectedTable)
              /\ scanColumns = ColumnsOf(selectedTable)
              /\ Schema(selectedTable) \in Plain => scanColumns = Schema(selectedTable)
           \/ /\ ~Readable(selectedTable)
              /\ scanColumns = Null /\ getRowResult = Null

=============================================================================
