----------------------------- MODULE TuplePage -----------------------------
(***************************************************************************)
(* What a data page is to the table heap: slots that hold a tuple or a     *)
(* tombstone, a link to the next page, and the room that is left between   *)
(* the slot array and the tuples.  Slots are numbered from 1 here, from 0  *)
(* in wasm-engine/src/storage/page.rs.                                     *)
(*                                                                         *)
(* Deleting a tuple gives its slot back but not its bytes: only compact    *)
(* does, and nothing outside the tests of page.rs calls compact.           *)
(***************************************************************************)
LOCAL INSTANCE Integers
LOCAL INSTANCE Sequences

CONSTANTS
    SlotSize,       \* SLOT_SIZE
    Tombstone       \* what is left of a deleted tuple

EmptyPage(room, none) == [slots |-> << >>, room |-> room, next |-> none]

Tombstones(pg) == {s \in DOMAIN pg.slots : pg.slots[s] = Tombstone}

HasTombstone(pg) == Tombstones(pg) # {}

FirstTombstone(pg) == CHOOSE s \in Tombstones(pg) : \A k \in Tombstones(pg) : s <= k

(* insert_tuple takes the first tombstone's slot, or appends a slot. *)
SlotBytes(pg) == IF HasTombstone(pg) THEN 0 ELSE SlotSize

CanInsert(pg, size) == pg.room >= size + SlotBytes(pg)

Inserted(pg, tuple, size) ==
    [pg EXCEPT !.slots = IF HasTombstone(pg)
                         THEN [@ EXCEPT ![FirstTombstone(pg)] = tuple]
                         ELSE Append(@, tuple),
               !.room = @ - size - SlotBytes(pg)]

(* get_tuple returns a tuple for exactly these slots. *)
LiveSlots(pg) == {s \in DOMAIN pg.slots : pg.slots[s] # Tombstone}

Deleted(pg, s) == [pg EXCEPT !.slots[s] = Tombstone]

=============================================================================
