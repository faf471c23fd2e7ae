---------------------------- MODULE FreedRowIds ----------------------------
(***************************************************************************)
(* The engine over the buffer pool itself, for users who name pages that   *)
(* are not in use: by a row id, which delete and get (storage/table.rs)    *)
(* take as it is, or by the page they selected, which refreshSnapshots     *)
(* inspects (storage/snapshot.rs).  fetch_page does not ask the bitmap, so *)
(* a free page may be cached, and come into a second frame when it is      *)
(* given out again.  The pool is then no PageStore any more (see           *)
(* FramesMapped), which is why PoolClients, StorageEngine and TableHeap    *)
(* leave such fetches out and this module is written over BufferPool.      *)
(*                                                                         *)
(* Tables are created, scanned and dropped, rows deleted by any id, and    *)
(* any page inspected.  Nothing is inserted: each table is one page        *)
(* without rows, no call keeps a pin, and so a frame is always found.      *)
(***************************************************************************)
EXTENDS BufferPool

CONSTANT Tables

VARIABLES
    first,      \* first_page_id of each table, or None
    call        \* the running call: where it is (at), and its local variables

engineVars == <<vars, first, call>>

Idle == [op |-> "none", at |-> "idle", page |-> None, ids |-> << >>]

Call(op, at, p) == [op |-> op, at |-> at, page |-> p, ids |-> << >>]

Existing == {t \in Tables : first[t] # None}

EngineInit ==
    /\ Init
    /\ first = [t \in Tables |-> None]
    /\ call = Idle

(* next_page of a page: page_init writes INVALID_PAGE, and zeros say page 0. *)
NextOf(contents) == IF contents = Fresh THEN None ELSE 0

-----------------------------------------------------------------------------

(* create_table pins the new page until it unpins it as dirty. *)
Create(t) ==
    /\ t \notin Existing
    /\ \E p \in Pages :
        /\ NewPage(p)
        /\ first' = [first EXCEPT ![t] = p]
        /\ call' = Call("create", "unpin", p)

(* drop_table takes the table out of the map, then lists its pages. *)
Drop(t) ==
    /\ first' = [first EXCEPT ![t] = None]
    /\ call' = Call("drop", "fetch", first[t])

Scan(t) ==
    /\ call' = Call("scan", "fetch", first[t])
    /\ UNCHANGED first

(* delete with an id on page p, whichever table it names. *)
Delete(p) ==
    /\ Existing # {}
    /\ call' = Call("delete", "fetch", p)
    /\ UNCHANGED first

(* snapshot_page with the page the UI selected, perhaps long ago. *)
Inspect(p) ==
    /\ call' = Call("inspect", "fetch", p)
    /\ UNCHANGED first

(* The user starts a call; creating makes its first call of the pool at once. *)
Start ==
    /\ call = Idle
    /\ \/ \E t \in Tables : Create(t)
       \/ /\ \/ \E t \in Existing : Drop(t) \/ Scan(t)
             \/ \E p \in Pages : Delete(p) \/ Inspect(p)
          /\ UNCHANGED vars

-----------------------------------------------------------------------------

(* The call fetches its page; page_ids has pushed it before. *)
FetchNext ==
    /\ call.at = "fetch"
    /\ Fetch(call.page)
    /\ call' = [call EXCEPT
            !.at = "unpin",
            !.ids = IF call.op = "drop" /\ call.page \notin ToSet(@)
                    THEN Append(@, call.page) ELSE @]
    /\ UNCHANGED first

(***************************************************************************)
(* The page is given back.  scan and page_ids go on with the page it links *)
(* to; no page has a row, so scan collects and delete changes nothing, and *)
(* delete_tuple's answer is false, hence only create reports a change.     *)
(***************************************************************************)
GiveBack ==
    LET next == IF call.op \in {"scan", "drop"}
                THEN NextOf(frames[page_table[call.page]].data) ELSE None
    IN
    /\ call.at = "unpin"
    /\ UnpinPage(call.page, call.op = "create")
    /\ call' =
        IF next # None THEN [call EXCEPT !.at = "fetch", !.page = next]
        ELSE IF call.op = "drop" THEN [call EXCEPT !.at = "delete"]
        ELSE Idle
    /\ UNCHANGED first

(* drop_table deletes the pages listed; a page listed again is deleted once. *)
DeleteListed ==
    /\ call.at = "delete"
    /\ DeleteCached(Head(call.ids)) \/ DeleteUncached(Head(call.ids))
    /\ call' = IF Len(call.ids) > 1 THEN [call EXCEPT !.ids = Tail(@)] ELSE Idle
    /\ UNCHANGED first

Step == FetchNext \/ GiveBack \/ DeleteListed

(* The thread goes on with the call it is in; nobody has to start another. *)
EngineSpec ==
    EngineInit /\ [][Start \/ Step]_engineVars /\ WF_engineVars(Step)

-----------------------------------------------------------------------------

(***************************************************************************)
(* "Sequential scan - returns all live rows with their RowIds." (scan): it *)
(* returns.                                                                *)
(***************************************************************************)
ScanReturns == (call.op = "scan") ~> (call.op # "scan")

=============================================================================
