---------------------------- MODULE PoolClients ----------------------------
(***************************************************************************)
(* The buffer pool with the code that calls it: the methods of table.rs    *)
(* and overflow.rs fetch or create a page, remember its id and its frame   *)
(* id, read and write the frame's bytes, and unpin the page by its id, as  *)
(* dirty if they wrote it.  A handle is that pair of ids in a local        *)
(* variable.  Two handles are ever open at once: insert holds the page it  *)
(* appends while it links it from the last page.                           *)
(*                                                                         *)
(* Abandon is an early return through "?" between fetch and unpin.  Every  *)
(* such return in table.rs comes before the first write to the page.       *)
(*                                                                         *)
(* ClientNext has callers that fetch only pages in use.  Two things the UI *)
(* can do are not such callers: get and delete given a row id on a freed   *)
(* page, and the inspector (see FreedRowIds).                              *)
(***************************************************************************)
EXTENDS BufferPool

CONSTANTS Handles, Idle

VARIABLE handle         \* Idle, or the page and frame ids a caller holds

clientVars == <<vars, handle>>

HandleType == [page : Pages, frame : Frames, wrote : BOOLEAN]

ASSUME HandleAssumption == IsFiniteSet(Handles) /\ Idle \notin HandleType

Open(h) == handle[h] # Idle

ClientInit ==
    /\ Init
    /\ handle = [h \in Handles |-> Idle]

(* Mutant of Take: the frame id is looked up before the page is fetched. *)
TakeEarly(h, p) ==
    /\ ~Open(h)
    /\ handle' = [handle EXCEPT ![h] =
            [page |-> p, frame |-> page_table[p], wrote |-> FALSE]]

Take(h, p) ==
    /\ ~Open(h)
    /\ handle' = [handle EXCEPT ![h] =
            [page |-> p, frame |-> page_table'[p], wrote |-> FALSE]]

OpenPage(h, p) == Fetch(p) /\ Take(h, p)

OpenNewPage(h, p) == NewPage(p) /\ Take(h, p)

Edit(h, contents) ==
    /\ Open(h)
    /\ WriteFrame(handle[h].frame, contents)
    /\ handle' = [handle EXCEPT ![h].wrote = TRUE]

(* Mutant of Close: a written page is unpinned as clean. *)
CloseClean(h) ==
    /\ Open(h)
    /\ UnpinPage(handle[h].page, FALSE)
    /\ handle' = [handle EXCEPT ![h] = Idle]

Close(h) ==
    /\ Open(h)
    /\ UnpinPage(handle[h].page, handle[h].wrote)
    /\ handle' = [handle EXCEPT ![h] = Idle]

Abandon(h) ==
    /\ Open(h)
    /\ ~handle[h].wrote
    /\ handle' = [handle EXCEPT ![h] = Idle]
    /\ UNCHANGED vars

(* The calls that need no handle: drop_table, delete_overflow, the flushes. *)
WithoutHandle ==
    /\ \/ \E p \in Pages :
            \/ NewPageNoFrame(p)
            \/ FlushPage(p)
            \/ DeleteCached(p)
            \/ DeleteUncached(p)
       \/ FlushAll
    /\ UNCHANGED handle

ClientRest ==
    \/ \E h \in Handles :
        \/ \E p \in Pages : OpenNewPage(h, p)
        \/ \E c \in Contents : Edit(h, c)
        \/ Close(h)
        \/ Abandon(h)
    \/ WithoutHandle

(* Whatever is fetched is in use. *)
ClientNext ==
    \/ ClientRest
    \/ \E h \in Handles, p \in allocated : OpenPage(h, p)

ClientSpec == ClientInit /\ [][ClientNext]_clientVars

-----------------------------------------------------------------------------

(* The pool's types; a handle is idle or holds ids in range. *)
HandleTypeOK ==
    /\ TypeOK
    /\ handle \in [Handles -> HandleType \cup {Idle}]

(***************************************************************************)
(* While callers fetch only pages in use: the frame id a caller remembers  *)
(* is still the frame of its page, and its unpin by page id will find that *)
(* frame, whatever other pages were loaded, evicted or deleted since.      *)
(***************************************************************************)
HandlesValid ==
    \A h \in Handles :
        Open(h) => /\ page_table[handle[h].page] = handle[h].frame
                   /\ frames[handle[h].frame].page_id = handle[h].page

Holders(f) == {h \in Handles : Open(h) /\ handle[h].frame = f}

(***************************************************************************)
(* While callers fetch only pages in use: a frame whose bytes differ from  *)
(* the disk page is marked dirty, or the caller that wrote it still holds  *)
(* it and will mark it: no modification can be dropped by an eviction.     *)
(***************************************************************************)
NoUnmarkedChange ==
    \A p \in Pages :
        Cached(p) =>
            LET f == page_table[p] IN
            \/ frames[f].data = storage[p]
            \/ frames[f].is_dirty
            \/ \E h \in Holders(f) : handle[h].wrote

(* The page as its next user will see it: the cached copy, if there is one. *)
Visible(p) == IF Cached(p) THEN frames[page_table[p]].data ELSE storage[p]

Store == INSTANCE PageStore WITH
    live <- allocated,
    content <- [p \in allocated |-> Visible(p)],
    pins <- [p \in Pages |-> IF Cached(p) THEN frames[page_table[p]].pin_count ELSE 0]

(***************************************************************************)
(* Caching is invisible to callers that fetch only pages in use: through   *)
(* any sequence of hits, misses, evictions and flushes each page shows its *)
(* last writer's contents, and a frame is refused only when the pins fill  *)
(* the pool.                                                               *)
(***************************************************************************)
ImplementsPageStore == Store!Spec

=============================================================================
