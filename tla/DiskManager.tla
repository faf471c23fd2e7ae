---------------------------- MODULE DiskManager ----------------------------
(***************************************************************************)
(* wasm-engine/src/storage/disk.rs: the page allocator and the page array  *)
(* that play the part of a disk.  A page's bytes are one member of         *)
(* Contents; Zero is the all-zero page that fill(0) leaves.  Every method  *)
(* of the Rust type is synchronous, so each is one action.                 *)
(*                                                                         *)
(* The I/O counters read_count and write_count only feed the statistics    *)
(* panel and are left out; read_page changes nothing else.                 *)
(***************************************************************************)
EXTENDS Integers, FiniteSets, SequencesExt

CONSTANTS
    MaxPages,       \* max_pages: the capacity of the disk
    Contents,       \* what the bytes of a page can be
    Zero            \* the page filled with zero bytes

ASSUME DiskAssumption ==
    /\ MaxPages \in Nat \ {0}
    /\ Zero \in Contents

VARIABLES
    storage,        \* the bytes of every page
    allocated,      \* the pages whose bit is set in the allocation bitmap
    free_list,      \* deallocated pages, a stack whose top is the last entry
    num_allocated   \* the counter shown next to the bitmap

vars == <<storage, allocated, free_list, num_allocated>>

Pages == 0 .. MaxPages - 1

-----------------------------------------------------------------------------

Init ==
    /\ storage = [p \in Pages |-> Zero]
    /\ allocated = {}
    /\ free_list = << >>
    /\ num_allocated = 0

(* Mutant of Grants: the scan starts behind page 0. *)
GrantsBehindZero(p) ==
    IF free_list # << >>
    THEN p = Last(free_list)
    ELSE /\ p \in Pages \ (allocated \cup {0})
         /\ \A q \in Pages \ {0} : q < p => q \in allocated

(***************************************************************************)
(* Grants(p): p is the page allocate_page returns now.  The free list is   *)
(* tried first; only when it is empty does the linear scan run, and it     *)
(* stops at the lowest page whose bit is clear.                            *)
(***************************************************************************)
Grants(p) ==
    IF free_list # << >>
    THEN p = Last(free_list)
    ELSE /\ p \in Pages \ allocated
         /\ \A q \in Pages : q < p => q \in allocated

(***************************************************************************)
(* The bookkeeping of allocate_page.  The caller adds what happens to the  *)
(* page's bytes, because a caller such as the buffer pool may write other  *)
(* pages in the same call.                                                 *)
(***************************************************************************)
Reserve(p) ==
    /\ Grants(p)
    /\ allocated' = allocated \cup {p}
    /\ num_allocated' = num_allocated + 1
    /\ free_list' = IF free_list # << >> THEN Front(free_list) ELSE free_list

AllocatePage(p) ==
    /\ Reserve(p)
    /\ storage' = [storage EXCEPT ![p] = Zero]

(* Mutant of Release: the bit is not looked at. *)
ReleaseAnyway(p) ==
    /\ allocated' = allocated \ {p}
    /\ num_allocated' = num_allocated - 1
    /\ free_list' = Append(free_list, p)

(***************************************************************************)
(* deallocate_page: a page whose bit is already clear is ignored.  The     *)
(* bytes stay as they were until the page is allocated again.              *)
(***************************************************************************)
Release(p) ==
    IF p \in allocated
    THEN /\ allocated' = allocated \ {p}
         /\ num_allocated' = num_allocated - 1
         /\ free_list' = Append(free_list, p)
    ELSE UNCHANGED <<allocated, num_allocated, free_list>>

DeallocatePage(p) ==
    /\ Release(p)
    /\ UNCHANGED storage

(* write_page does not look at the bitmap: any page in range can be written. *)
WritePage(p, c) ==
    /\ storage' = [storage EXCEPT ![p] = c]
    /\ UNCHANGED <<allocated, free_list, num_allocated>>

Next ==
    \E p \in Pages :
        \/ AllocatePage(p)
        \/ DeallocatePage(p)
        \/ \E c \in Contents : WritePage(p, c)

Spec == Init /\ [][Next]_vars

-----------------------------------------------------------------------------

(* Every variable of the disk keeps the type its Rust field has. *)
TypeOK ==
    /\ storage \in [Pages -> Contents]
    /\ allocated \in SUBSET Pages
    /\ free_list \in Seq(Pages)
    /\ num_allocated \in 0 .. MaxPages

(***************************************************************************)
(* The free list and the bitmap agree after any sequence of allocations,   *)
(* deallocations and repeated deallocations: no page is listed twice, and  *)
(* no listed page is in use.  A page listed twice would be handed to two   *)
(* owners.                                                                 *)
(***************************************************************************)
FreeListSound ==
    /\ IsInjective(free_list)
    /\ ToSet(free_list) \cap allocated = {}

(***************************************************************************)
(* Because the free list is drained before the scan runs, the pages ever   *)
(* used are a prefix of the disk: below a clear bit that is not on the     *)
(* free list every page has been used, and above it none has.              *)
(***************************************************************************)
UsedPagesArePrefix ==
    \A p, q \in Pages :
        p < q /\ q \in allocated \cup ToSet(free_list)
            => p \in allocated \cup ToSet(free_list)

(* The counter the UI shows as "pages in use" is the number of set bits. *)
CountExact == num_allocated = Cardinality(allocated)

(***************************************************************************)
(* allocate_page fails only on a full disk, has one possible answer        *)
(* otherwise, and that answer is a page nobody owns.                       *)
(***************************************************************************)
GrantsOneUnusedPage ==
    allocated # Pages =>
        \E p \in Pages \ allocated : \A q \in Pages : Grants(q) <=> q = p

=============================================================================
