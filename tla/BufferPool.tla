----------------------------- MODULE BufferPool -----------------------------
(***************************************************************************)
(* BufferPoolManager of wasm-engine/src/storage/buffer_pool.rs, together   *)
(* with the disk manager and the LRU replacer it owns.  Every method runs  *)
(* to completion on the one WASM thread, so each is one action.            *)
(*                                                                         *)
(* The hit and miss counters are left out: nothing reads them but the      *)
(* statistics panel.  A call that returns early without changing state (an *)
(* absent page, a pinned page, a full disk, no frame for a fetch) is a     *)
(* stuttering step and has no action.                                      *)
(***************************************************************************)
EXTENDS Integers, FiniteSets, SequencesExt

CONSTANTS
    MaxPages,       \* disk_capacity
    PoolSize,       \* pool_size
    Contents,       \* what the bytes of a page can be
    Zero,           \* the page filled with zero bytes
    Fresh,          \* the page page_init writes: a header and no tuples
    None,           \* Rust's None, for a page id and for a frame id
    MaxPins         \* bound of the model on the pins of one frame

Pages == 0 .. MaxPages - 1
Frames == 0 .. PoolSize - 1

ASSUME PoolAssumption ==
    /\ MaxPages \in Nat \ {0}
    /\ PoolSize \in Nat \ {0}
    /\ MaxPins \in Nat \ {0}
    /\ {Zero, Fresh} \subseteq Contents
    /\ None \notin Pages \cup Frames

VARIABLES
    frames,         \* the fixed array of frames
    page_table,     \* the frame each page is mapped to, or None
    free_list,      \* the empty frames, a stack whose top is the last entry
    order,          \* the replacer's queue, least recently used first
    evictable,      \* the replacer's set of evictable frames
    storage, allocated, disk_free_list, num_allocated      \* the disk

diskVars == <<storage, allocated, disk_free_list, num_allocated>>
vars == <<frames, page_table, free_list, order, evictable, diskVars>>

Disk == INSTANCE DiskManager WITH free_list <- disk_free_list
Lru == INSTANCE LruReplacer

FrameType ==
    [page_id : Pages \cup {None}, pin_count : 0 .. MaxPins,
     is_dirty : BOOLEAN, data : Contents]

EmptyFrame(contents) ==
    [page_id |-> None, pin_count |-> 0, is_dirty |-> FALSE, data |-> contents]

Cached(p) == page_table[p] # None

-----------------------------------------------------------------------------

Init ==
    /\ Disk!Init
    /\ Lru!LruInit
    /\ frames = [f \in Frames |-> EmptyFrame(Zero)]
    /\ page_table = [p \in Pages |-> None]
    /\ free_list = [i \in 1 .. PoolSize |-> PoolSize - i]

(***************************************************************************)
(* get_free_frame: an empty frame if there is one, otherwise the           *)
(* replacer's victim.  It fails when there is neither.                     *)
(***************************************************************************)
HasFreeFrame == free_list # << >> \/ Lru!HasVictim

FreeFrame == IF free_list # << >> THEN Last(free_list) ELSE Lru!Victim

(* The disk after get_free_frame has flushed the page f held, if dirty. *)
WrittenBack(f, disk) ==
    IF frames[f].page_id # None /\ frames[f].is_dirty
    THEN [disk EXCEPT ![frames[f].page_id] = frames[f].data]
    ELSE disk

(* Mutant of Install: the old page keeps its mapping. *)
InstallKeepingOld(f, loaded) ==
    /\ frames' = [frames EXCEPT ![f] = loaded]
    /\ page_table' = [page_table EXCEPT ![loaded.page_id] = f]
    /\ free_list' = IF free_list # << >> THEN Front(free_list) ELSE free_list
    /\ order' = Lru!Touched(order, f)
    /\ evictable' = IF loaded.pin_count = 0 THEN evictable \cup {f} ELSE evictable \ {f}

(***************************************************************************)
(* The shared tail of fetch_page and new_page: frame f drops the mapping   *)
(* of the page it held and becomes the frame loaded.  The mapping dropped  *)
(* is the one of the old page id, whichever frame it leads to.             *)
(***************************************************************************)
Install(f, loaded) ==
    /\ frames' = [frames EXCEPT ![f] = loaded]
    /\ page_table' = [q \in Pages |->
            CASE q = loaded.page_id -> f
              [] q # loaded.page_id /\ q = frames[f].page_id -> None
              [] OTHER -> page_table[q]]
    /\ free_list' = IF free_list # << >> THEN Front(free_list) ELSE free_list
    /\ order' = Lru!Touched(order, f)
    /\ evictable' = IF loaded.pin_count = 0 THEN evictable \cup {f} ELSE evictable \ {f}

PinnedFrame(p, dirty, contents) ==
    [page_id |-> p, pin_count |-> 1, is_dirty |-> dirty, data |-> contents]

-----------------------------------------------------------------------------

(* Mutant of FetchHit: the frame stays evictable. *)
FetchHitEvictable(p) ==
    /\ Cached(p)
    /\ frames[page_table[p]].pin_count < MaxPins
    /\ frames' = [frames EXCEPT ![page_table[p]].pin_count = @ + 1]
    /\ order' = Lru!Touched(order, page_table[p])
    /\ UNCHANGED <<page_table, free_list, evictable, diskVars>>

FetchHit(p) ==
    /\ Cached(p)
    /\ frames[page_table[p]].pin_count < MaxPins
    /\ frames' = [frames EXCEPT ![page_table[p]].pin_count = @ + 1]
    /\ order' = Lru!Touched(order, page_table[p])
    /\ evictable' = evictable \ {page_table[p]}
    /\ UNCHANGED <<page_table, free_list, diskVars>>

(* Mutants of FetchMiss: a cached page is loaded again; the victim is not written. *)
FetchAgain(p) ==
    /\ HasFreeFrame
    /\ storage' = WrittenBack(FreeFrame, storage)
    /\ Install(FreeFrame, PinnedFrame(p, FALSE, storage'[p]))
    /\ UNCHANGED <<allocated, disk_free_list, num_allocated>>

FetchMissNoWriteBack(p) ==
    /\ ~Cached(p)
    /\ HasFreeFrame
    /\ Install(FreeFrame, PinnedFrame(p, FALSE, storage[p]))
    /\ UNCHANGED diskVars

(* The victim is written before the page is read: they may be one page. *)
FetchMiss(p) ==
    /\ ~Cached(p)
    /\ HasFreeFrame
    /\ storage' = WrittenBack(FreeFrame, storage)
    /\ Install(FreeFrame, PinnedFrame(p, FALSE, storage'[p]))
    /\ UNCHANGED <<allocated, disk_free_list, num_allocated>>

(* allocate_page zeroes p on disk before a victim is written back. *)
NewPage(p) ==
    /\ Disk!Reserve(p)
    /\ HasFreeFrame
    /\ storage' = WrittenBack(FreeFrame, [storage EXCEPT ![p] = Zero])
    /\ Install(FreeFrame, PinnedFrame(p, TRUE, Fresh))

(***************************************************************************)
(* new_page when every frame is pinned: it returns None, but the disk page *)
(* it has already allocated stays allocated.                               *)
(***************************************************************************)
NewPageNoFrame(p) ==
    /\ Disk!AllocatePage(p)
    /\ ~HasFreeFrame
    /\ UNCHANGED <<frames, page_table, free_list, order, evictable>>

(* Mutant of UnpinPage: no set_evictable. *)
UnpinNotEvictable(p, is_dirty) ==
    LET f == page_table[p] IN
    /\ Cached(p)
    /\ frames[f].pin_count > 0
    /\ frames' = [frames EXCEPT ![f].pin_count = @ - 1,
                                ![f].is_dirty = @ \/ is_dirty]
    /\ UNCHANGED <<page_table, free_list, order, evictable, diskVars>>

UnpinPage(p, is_dirty) ==
    LET f == page_table[p] IN
    /\ Cached(p)
    /\ frames[f].pin_count > 0
    /\ frames' = [frames EXCEPT ![f].pin_count = @ - 1,
                                ![f].is_dirty = @ \/ is_dirty]
    /\ evictable' = IF frames[f].pin_count = 1 THEN evictable \cup {f} ELSE evictable
    /\ UNCHANGED <<page_table, free_list, order, diskVars>>

(* flush_page writes the page whether or not it is dirty. *)
FlushPage(p) ==
    LET f == page_table[p] IN
    /\ Cached(p)
    /\ Disk!WritePage(p, frames[f].data)
    /\ frames' = [frames EXCEPT ![f].is_dirty = FALSE]
    /\ UNCHANGED <<page_table, free_list, order, evictable>>

(* Mutant of FlushAll: the dirty flags are left set. *)
FlushAllLeavesDirty ==
    /\ storage' = [p \in Pages |->
            IF Cached(p) /\ frames[page_table[p]].is_dirty
            THEN frames[page_table[p]].data ELSE storage[p]]
    /\ UNCHANGED <<frames, page_table, free_list, order, evictable,
                   allocated, disk_free_list, num_allocated>>

(* flush_all walks the page table, so it reaches mapped frames only. *)
FlushAll ==
    /\ storage' = [p \in Pages |->
            IF Cached(p) /\ frames[page_table[p]].is_dirty
            THEN frames[page_table[p]].data ELSE storage[p]]
    /\ frames' = [f \in Frames |->
            IF \E p \in Pages : page_table[p] = f
            THEN [frames[f] EXCEPT !.is_dirty = FALSE] ELSE frames[f]]
    /\ UNCHANGED <<page_table, free_list, order, evictable,
                   allocated, disk_free_list, num_allocated>>

(* Mutants of DeleteCached: one of its steps or its guard is missing. *)
DeleteKeepsMapping(p) ==
    LET f == page_table[p] IN
    /\ Cached(p)
    /\ frames[f].pin_count = 0
    /\ frames' = [frames EXCEPT ![f] = EmptyFrame(frames[f].data)]
    /\ free_list' = Append(free_list, f)
    /\ Lru!RemoveFrame(f)
    /\ Disk!DeallocatePage(p)
    /\ UNCHANGED page_table

DeleteKeepsQueue(p) ==
    LET f == page_table[p] IN
    /\ Cached(p)
    /\ frames[f].pin_count = 0
    /\ frames' = [frames EXCEPT ![f] = EmptyFrame(frames[f].data)]
    /\ page_table' = [page_table EXCEPT ![p] = None]
    /\ free_list' = Append(free_list, f)
    /\ Disk!DeallocatePage(p)
    /\ UNCHANGED <<order, evictable>>

DeletePinned(p) ==
    LET f == page_table[p] IN
    /\ Cached(p)
    /\ frames' = [frames EXCEPT ![f] = EmptyFrame(frames[f].data)]
    /\ page_table' = [page_table EXCEPT ![p] = None]
    /\ free_list' = Append(free_list, f)
    /\ Lru!RemoveFrame(f)
    /\ Disk!DeallocatePage(p)

(* delete_page of a page in an unpinned frame empties its frame, bytes aside. *)
DeleteCached(p) ==
    LET f == page_table[p] IN
    /\ Cached(p)
    /\ frames[f].pin_count = 0
    /\ frames' = [frames EXCEPT ![f] = EmptyFrame(frames[f].data)]
    /\ page_table' = [page_table EXCEPT ![p] = None]
    /\ free_list' = Append(free_list, f)
    /\ Lru!RemoveFrame(f)
    /\ Disk!DeallocatePage(p)

DeleteUncached(p) ==
    /\ ~Cached(p)
    /\ Disk!DeallocatePage(p)
    /\ UNCHANGED <<frames, page_table, free_list, order, evictable>>

(***************************************************************************)
(* frame_data_mut: whoever pinned a frame writes through the frame id.     *)
(***************************************************************************)
WriteFrame(f, contents) ==
    /\ frames[f].pin_count > 0
    /\ frames' = [frames EXCEPT ![f].data = contents]
    /\ UNCHANGED <<page_table, free_list, order, evictable, diskVars>>

-----------------------------------------------------------------------------

(* What can happen to a page that is not fetched. *)
Maintain(p) ==
    \/ NewPage(p)
    \/ NewPageNoFrame(p)
    \/ \E d \in BOOLEAN : UnpinPage(p, d)
    \/ FlushPage(p)
    \/ DeleteCached(p)
    \/ DeleteUncached(p)

Fetch(p) == FetchHit(p) \/ FetchMiss(p)

Rest ==
    \/ \E p \in Pages : Maintain(p)
    \/ \E f \in Frames, c \in Contents : WriteFrame(f, c)
    \/ FlushAll

(***************************************************************************)
(* Callers that fetch only pages in use. table.rs and overflow.rs are such *)
(* callers as long as get and delete (table.rs:167, table.rs:119) are      *)
(* given row ids on pages in use: they fetch the page of any id.           *)
(***************************************************************************)
Next == Rest \/ \E p \in allocated : Fetch(p)

Spec == Init /\ [][Next]_vars

(***************************************************************************)
(* Any caller: fetch_page does not look at the allocation bitmap.          *)
(* snapshot_page passes it whatever page id the UI has selected, get and   *)
(* delete the page of whatever row id was typed.                           *)
(***************************************************************************)
NextAny == Rest \/ \E p \in Pages : Fetch(p)

SpecAny == Init /\ [][NextAny]_vars

-----------------------------------------------------------------------------

(* The pool's variables keep the types of the Rust fields. *)
TypeOK ==
    /\ frames \in [Frames -> FrameType]
    /\ page_table \in [Pages -> Frames \cup {None}]
    /\ free_list \in Seq(Frames)
    /\ Lru!LruTypeOK
    /\ Disk!TypeOK

(* A page is mapped only to the frame that says it holds it. *)
PageTableSound ==
    \A p \in Pages : Cached(p) => frames[page_table[p]].page_id = p

(***************************************************************************)
(* No frame is lost or owned twice: each is either empty and on the free   *)
(* list once, or holds a page and is in the replacer's queue once.  A      *)
(* frame in neither place would shrink the pool for good; one in both      *)
(* would be handed to two pages.                                           *)
(***************************************************************************)
EmptyFrames == {f \in Frames : frames[f].page_id = None}

FramesPartitioned ==
    /\ IsInjective(free_list)
    /\ ToSet(free_list) = EmptyFrames
    /\ IsInjective(order)
    /\ ToSet(order) = Frames \ EmptyFrames

(***************************************************************************)
(* The replacer's set is exactly the loaded frames without pins, although  *)
(* the pool keeps it up to date by separate calls in six methods.          *)
(***************************************************************************)
EvictableExact ==
    evictable = {f \in Frames \ EmptyFrames : frames[f].pin_count = 0}

(* An empty frame is clean and unpinned: its old page cannot be written back. *)
EmptyFramesIdle ==
    \A f \in EmptyFrames : ~frames[f].is_dirty /\ frames[f].pin_count = 0

(* A request for a frame fails only when every frame is pinned. *)
FailsOnlyWhenPinned ==
    ~HasFreeFrame => \A f \in Frames : frames[f].pin_count > 0

(***************************************************************************)
(* A frame somebody pinned keeps its page until the pins are gone: the     *)
(* frame id a caller holds goes on meaning the page it fetched.            *)
(***************************************************************************)
PinnedStays ==
    [][\A f \in Frames :
        frames[f].pin_count > 0 => frames'[f].page_id = frames[f].page_id]_vars

(***************************************************************************)
(* When callers fetch only allocated pages, a cached page is allocated and *)
(* every loaded frame can be reached through the page table, so no two     *)
(* frames hold copies of one page.                                         *)
(***************************************************************************)
CachedAllocated == \A p \in Pages : Cached(p) => p \in allocated

FramesMapped ==
    \A f \in Frames \ EmptyFrames : page_table[frames[f].page_id] = f

(***************************************************************************)
(* flush_all leaves nothing behind: after it, no frame differs from the    *)
(* disk page it holds through a modification its user has reported         *)
(* ("Flush all dirty pages to disk.").                                     *)
(***************************************************************************)
FlushAllCleans == [][FlushAll => \A f \in Frames : ~frames'[f].is_dirty]_vars

=============================================================================
