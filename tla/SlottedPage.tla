---------------------------- MODULE SlottedPage ----------------------------
(***************************************************************************)
(* The slotted page of wasm-engine/src/storage/page.rs on its buffer.  The *)
(* slot array grows from the header upwards and the tuples grow from the   *)
(* end downwards, in one array of cells, so that a wrong bound makes them  *)
(* overwrite each other as it would in the program.                        *)
(*                                                                         *)
(* A cell is a byte of a tuple or a u16 of a slot: a slot is two cells,    *)
(* its tuple's offset and length.  The header fields that have fixed       *)
(* places are variables; the page's id, type and next link do not interact *)
(* with the tuples and are left out.                                       *)
(***************************************************************************)
EXTENDS Integers, FiniteSets, SequencesExt

CONSTANTS
    PageSize,       \* the length of the buffer, in cells
    HeaderSize,     \* PAGE_HEADER_SIZE, in cells
    Tuples,         \* the encoded tuples callers insert: sequences of cells
    Tombstone       \* stands for the absence of a tuple

SlotSize == 2       \* SLOT_SIZE, in cells

(***************************************************************************)
(* A tuple is not empty (a row has a null bitmap as soon as its schema has *)
(* a column) and its length fits the u16 that holds it.                    *)
(***************************************************************************)
ASSUME PageAssumption ==
    /\ HeaderSize \in Nat
    /\ PageSize \in Nat
    /\ HeaderSize <= PageSize
    /\ \A t \in Tuples : t \in Seq(Nat) /\ t # << >>
    /\ Tombstone \notin Tuples

VARIABLES buf, slot_count, free_start, free_end

vars == <<buf, slot_count, free_start, free_end>>

Cells == 0 .. PageSize - 1

-----------------------------------------------------------------------------

slot_offset(n) == HeaderSize + n * SlotSize

(* read_slot: the offset and the length of the tuple of slot n. *)
SlotOffset(n) == buf[slot_offset(n)]
SlotLength(n) == buf[slot_offset(n) + 1]

(* write_slot, on a buffer b *)
WithSlot(b, n, offset, length) ==
    [b EXCEPT ![slot_offset(n)] = offset, ![slot_offset(n) + 1] = length]

(* copy_from_slice into b at offset *)
WithTuple(b, offset, tuple) ==
    [c \in Cells |-> IF c \in offset .. offset + Len(tuple) - 1
                     THEN tuple[c - offset + 1] ELSE b[c]]

Slots == 0 .. slot_count - 1

LiveSlots == {n \in Slots : SlotLength(n) # 0}

(* get_tuple of a live slot *)
Tuple(n) == [i \in 1 .. SlotLength(n) |-> buf[SlotOffset(n) + i - 1]]

free_space == IF free_end > free_start THEN free_end - free_start ELSE 0

-----------------------------------------------------------------------------

(* page_init *)
Init ==
    /\ buf = [c \in Cells |-> 0]
    /\ slot_count = 0
    /\ free_start = HeaderSize
    /\ free_end = PageSize

Deleted == Slots \ LiveSlots

FirstDeleted == CHOOSE n \in Deleted : \A m \in Deleted : n <= m

(* insert_tuple when a deleted slot can be used again *)
InsertReusing(tuple) ==
    LET offset == free_end - Len(tuple) IN
    /\ Deleted # {}
    /\ free_space >= Len(tuple)
    /\ buf' = WithSlot(WithTuple(buf, offset, tuple), FirstDeleted, offset, Len(tuple))
    /\ free_end' = offset
    /\ UNCHANGED <<slot_count, free_start>>

(* Mutant of InsertAppending: the new slot's own bytes are not counted. *)
InsertAppendingTight(tuple) ==
    LET offset == free_end - Len(tuple) IN
    /\ Deleted = {}
    /\ free_space >= Len(tuple)
    /\ buf' = WithSlot(WithTuple(buf, offset, tuple), slot_count, offset, Len(tuple))
    /\ free_end' = offset
    /\ slot_count' = slot_count + 1
    /\ free_start' = slot_offset(slot_count + 1)

(* insert_tuple when the slot array must grow *)
InsertAppending(tuple) ==
    LET offset == free_end - Len(tuple) IN
    /\ Deleted = {}
    /\ free_space >= Len(tuple) + SlotSize
    /\ buf' = WithSlot(WithTuple(buf, offset, tuple), slot_count, offset, Len(tuple))
    /\ free_end' = offset
    /\ slot_count' = slot_count + 1
    /\ free_start' = slot_offset(slot_count + 1)

(* delete_tuple of a live slot; of any other slot it returns false. *)
DeleteTuple(n) ==
    /\ n \in LiveSlots
    /\ buf' = WithSlot(buf, n, 0, 0)
    /\ UNCHANGED <<slot_count, free_start, free_end>>

(***************************************************************************)
(* compact copies the live tuples out first and then lays them out from    *)
(* the end of the page in slot order.  Cursor[n] is where slot n's tuple   *)
(* goes; a deleted slot takes no room.                                     *)
(***************************************************************************)
Cursor ==
    LET at[n \in 0 .. slot_count] ==
            IF n = 0 THEN PageSize
            ELSE IF n - 1 \in LiveSlots THEN at[n - 1] - SlotLength(n - 1)
            ELSE at[n - 1]
    IN  [n \in Slots |-> at[n + 1]]

(* Mutants of LowestCursor: free_end is not moved; it is 0 when there is no slot. *)
UnmovedCursor == free_end

LowestOfNone == IF slot_count = 0 THEN 0 ELSE Cursor[slot_count - 1]

LowestCursor == IF slot_count = 0 THEN PageSize ELSE Cursor[slot_count - 1]

(* Mutant of Compacted: the slots keep their old offsets. *)
CompactedOldOffsets ==
    LET cursor == Cursor
        Holder(c) == {n \in LiveSlots : c \in cursor[n] .. cursor[n] + SlotLength(n) - 1}
    IN  [c \in Cells |->
            IF c < free_start THEN buf[c]
            ELSE IF Holder(c) = {} THEN 0
            ELSE LET n == CHOOSE n \in Holder(c) : TRUE IN Tuple(n)[c - cursor[n] + 1]]

(* What compact leaves in the cells above the header. *)
Compacted ==
    LET cursor == Cursor
        Holder(c) == {n \in LiveSlots : c \in cursor[n] .. cursor[n] + SlotLength(n) - 1}
        SlotOf(c) == (c - HeaderSize) \div SlotSize
    IN  [c \in Cells |->
            CASE c \in HeaderSize .. free_start - 1 ->
                    IF SlotOf(c) \in LiveSlots /\ c = slot_offset(SlotOf(c))
                    THEN cursor[SlotOf(c)] ELSE buf[c]
              [] c >= free_start /\ Holder(c) # {} ->
                    LET n == CHOOSE n \in Holder(c) : TRUE
                    IN  Tuple(n)[c - cursor[n] + 1]
              [] OTHER -> IF c >= free_start THEN 0 ELSE buf[c]]

Compact ==
    /\ buf' = Compacted
    /\ free_end' = LowestCursor
    /\ UNCHANGED <<slot_count, free_start>>

Next ==
    \/ \E t \in Tuples : InsertReusing(t) \/ InsertAppending(t)
    \/ \E n \in Slots : DeleteTuple(n)
    \/ Compact

Spec == Init /\ [][Next]_vars

-----------------------------------------------------------------------------

(* The header fields are offsets into the buffer. *)
TypeOK ==
    /\ buf \in [Cells -> Nat]
    /\ slot_count \in Nat
    /\ free_start \in HeaderSize .. PageSize
    /\ free_end \in HeaderSize .. PageSize

Extent(n) == SlotOffset(n) .. SlotOffset(n) + SlotLength(n) - 1

(***************************************************************************)
(* The layout drawn at the head of page.rs: the slot array ends before the *)
(* free gap, the tuples lie behind it, and no two tuples share a byte,     *)
(* however often slots are deleted, used again and compacted.              *)
(***************************************************************************)
LayoutSound ==
    /\ free_start = slot_offset(slot_count)
    /\ free_start <= free_end
    /\ \A n \in LiveSlots : Extent(n) \subseteq free_end .. PageSize - 1
    /\ \A n, m \in LiveSlots : n # m => Extent(n) \cap Extent(m) = {}

(* The page as the table heap sees it. *)
AsTuplePage ==
    [slots |-> [s \in 1 .. slot_count |->
                    IF s - 1 \in LiveSlots THEN Tuple(s - 1) ELSE Tombstone],
     room |-> free_space]

Page == INSTANCE TuplePage

(***************************************************************************)
(* The bytes of a tuple come back as they went in, in the slot that insert *)
(* returned, and no other slot changes: each operation does to the page    *)
(* what it says, whatever the offsets are.  compact keeps every slot.      *)
(***************************************************************************)
ImplementsTuplePage ==
    [][\/ \E t \in Tuples :
            /\ Page!CanInsert(AsTuplePage, Len(t))
            /\ AsTuplePage' = Page!Inserted(AsTuplePage, t, Len(t))
       \/ \E s \in Page!LiveSlots(AsTuplePage) :
            AsTuplePage' = Page!Deleted(AsTuplePage, s)
       \/ Compact /\ AsTuplePage'.slots = AsTuplePage.slots]_vars

(***************************************************************************)
(* "adjusted so that the free gap is as large as possible" (compact): what *)
(* the live tuples and the slot array do not take is in the gap.           *)
(***************************************************************************)
LiveBytes == UNION {Extent(n) : n \in LiveSlots}

CompactReclaimsAll ==
    [][Compact => free_space' = PageSize - free_start - Cardinality(LiveBytes)]_vars

=============================================================================
