------------------------- MODULE SlottedPageProofs -------------------------
(***************************************************************************)
(* For every page size, header and set of tuples: the slots and the tuples *)
(* never overlap, every tuple comes back as it went in, and compact leaves *)
(* no gap between the tuples.                                              *)
(***************************************************************************)
EXTENDS SlottedPage, SequenceLemmas

(***************************************************************************)
(* The inductive invariant.  The layout keeps itself; the tuples are there *)
(* because a slot that holds a caller's tuple cannot pass for a deleted    *)
(* one, whose length is zero, nor a tombstone for a tuple.                 *)
(***************************************************************************)
TuplesKept == \A n \in LiveSlots : Tuple(n) \in Tuples

PageInv == TypeOK /\ LayoutSound /\ TuplesKept

(* A slot's two cells lie between the header and the free gap. *)
LEMMA SlotCells ==
    ASSUME PageInv, NEW n \in Slots
    PROVE  /\ slot_offset(n) \in Cells /\ slot_offset(n) + 1 \in Cells
           /\ HeaderSize <= slot_offset(n) /\ slot_offset(n) + 1 < free_start
           /\ SlotOffset(n) \in Nat /\ SlotLength(n) \in Nat
<1>1. /\ HeaderSize \in Nat /\ PageSize \in Nat /\ slot_count \in Nat
      /\ free_start = HeaderSize + slot_count * 2 /\ free_start <= PageSize
      /\ n \in Nat /\ n < slot_count
  BY PageAssumption DEF PageInv, TypeOK, LayoutSound, Slots, slot_offset, SlotSize
<1>2. slot_offset(n) = HeaderSize + n * 2
  BY DEF slot_offset, SlotSize
<1>3. slot_offset(n) \in Cells /\ slot_offset(n) + 1 \in Cells
  BY <1>1, <1>2 DEF Cells
<1>4. SlotOffset(n) \in Nat /\ SlotLength(n) \in Nat
  BY <1>3 DEF PageInv, TypeOK, SlotOffset, SlotLength
<1> QED
  BY <1>1, <1>2, <1>3, <1>4

(* Two slots have no cell in common. *)
LEMMA SlotsApart ==
    ASSUME NEW n \in Nat, NEW m \in Nat
    PROVE  /\ slot_offset(n) \in Int
           /\ slot_offset(m) # slot_offset(n) + 1
           /\ n # m => slot_offset(m) # slot_offset(n)
BY PageAssumption DEF slot_offset, SlotSize

(* A live slot's tuple lies behind the gap, cell by cell. *)
LEMMA TupleCells ==
    ASSUME PageInv, NEW n \in LiveSlots
    PROVE  /\ n \in Slots
           /\ SlotOffset(n) \in Nat /\ SlotLength(n) \in Nat \ {0}
           /\ free_end <= SlotOffset(n) /\ SlotOffset(n) + SlotLength(n) <= PageSize
           /\ \A i \in 1 .. SlotLength(n) :
                /\ SlotOffset(n) + i - 1 \in Extent(n)
                /\ SlotOffset(n) + i - 1 \in Cells
                /\ free_end <= SlotOffset(n) + i - 1
<1>1. n \in Slots /\ SlotLength(n) # 0
  BY DEF LiveSlots
<1>2. SlotOffset(n) \in Nat /\ SlotLength(n) \in Nat \ {0}
  BY <1>1, SlotCells
<1>3. Extent(n) \subseteq free_end .. PageSize - 1
  BY DEF PageInv, LayoutSound
<1>4. free_end \in Nat /\ PageSize \in Nat
  BY PageAssumption DEF PageInv, TypeOK
<1>5. SlotOffset(n) \in Extent(n) /\ SlotOffset(n) + SlotLength(n) - 1 \in Extent(n)
  BY <1>2 DEF Extent
<1>6. free_end <= SlotOffset(n) /\ SlotOffset(n) + SlotLength(n) <= PageSize
  BY <1>2, <1>3, <1>4, <1>5
<1> QED
  BY <1>1, <1>2, <1>4, <1>6 DEF Extent, Cells

(* Nothing changes for a slot whose cells and whose tuple's cells do not change. *)
LEMMA SlotUnchanged ==
    ASSUME PageInv, NEW n \in LiveSlots,
           SlotOffset(n)' = SlotOffset(n), SlotLength(n)' = SlotLength(n),
           \A c \in Extent(n) : buf'[c] = buf[c]
    PROVE  Tuple(n)' = Tuple(n) /\ Extent(n)' = Extent(n)
<1>1. \A i \in 1 .. SlotLength(n) :
        buf'[SlotOffset(n) + i - 1] = buf[SlotOffset(n) + i - 1]
  BY TupleCells
<1> QED
  BY <1>1 DEF Tuple, Extent

(***************************************************************************)
(* Both insertions write the tuple in front of the gap's end and a slot    *)
(* that is not live; all that differs is whether the slot is a new one.    *)
(***************************************************************************)
Written(n, tuple) ==
    LET offset == free_end - Len(tuple) IN
    /\ n \in 0 .. slot_count
    /\ n \notin LiveSlots
    /\ slot_count' = IF n = slot_count THEN slot_count + 1 ELSE slot_count
    /\ free_start' = slot_offset(slot_count')
    /\ free_start' <= offset
    /\ free_end' = offset
    /\ buf' = WithSlot(WithTuple(buf, offset, tuple), n, offset, Len(tuple))

(* A tuple that is written keeps the layout, and leaves the other tuples as they were. *)
LEMMA WrittenKeeps ==
    ASSUME PageInv, NEW t \in Tuples, NEW n, Written(n, t)
    PROVE  /\ PageInv'
           /\ Slots' = Slots \cup {n}
           /\ LiveSlots' = LiveSlots \cup {n}
           /\ Tuple(n)' = t
           /\ \A m \in LiveSlots : Tuple(m)' = Tuple(m)
<1> DEFINE offset == free_end - Len(t)
           tuple == WithTuple(buf, offset, t)
<1>1. /\ HeaderSize \in Nat /\ PageSize \in Nat /\ slot_count \in Nat
      /\ free_start \in Nat /\ free_end \in Nat /\ free_end <= PageSize
      /\ free_start = slot_offset(slot_count)
      /\ buf \in [Cells -> Nat]
      /\ n \in Nat /\ n <= slot_count
  BY PageAssumption DEF PageInv, TypeOK, LayoutSound, Written
<1>2. /\ Len(t) \in Nat \ {0} /\ DOMAIN t = 1 .. Len(t) /\ t \in Seq(Nat)
      /\ \A i \in 1 .. Len(t) : t[i] \in Nat
  BY PageAssumption, LenProperties, EmptySeq, ElementOfSeq
<1>3. /\ slot_count' \in Nat /\ n < slot_count' /\ slot_count <= slot_count'
      /\ Slots' = Slots \cup {n}
  BY <1>1 DEF Written, Slots
<1>4. /\ HeaderSize <= slot_offset(n) /\ slot_offset(n) \in Nat
      /\ slot_offset(n) + 1 < free_start' /\ free_start' \in Nat
      /\ HeaderSize <= free_start'
  BY <1>1, <1>3 DEF Written, slot_offset, SlotSize
<1>5. /\ offset \in Nat /\ free_start' <= offset /\ free_end' = offset
      /\ offset + Len(t) = free_end
  BY <1>1, <1>2, <1>4 DEF Written
<1>6. slot_offset(n) \in Cells /\ slot_offset(n) + 1 \in Cells
  <2>1. free_start' \in Nat /\ free_start' <= PageSize
    BY <1>1, <1>2, <1>4, <1>5
  <2> HIDE DEF offset, tuple
  <2> QED
    BY <1>1, <1>4, <2>1 DEF Cells
<1>7. tuple \in [Cells -> Nat]
  <2>1. ASSUME NEW c \in Cells
        PROVE  (IF c \in offset .. offset + Len(t) - 1
                THEN t[c - offset + 1] ELSE buf[c]) \in Nat
    <3>1. CASE c \in offset .. offset + Len(t) - 1
      <4>1. c - offset + 1 \in 1 .. Len(t)
        BY <1>2, <1>5, <3>1
      <4> QED
        BY <1>2, <3>1, <4>1
    <3>2. CASE c \notin offset .. offset + Len(t) - 1
      BY <1>1, <3>2
    <3> QED
      BY <3>1, <3>2
  <2> QED
    BY <2>1 DEF WithTuple
<1>8. \A c \in Cells : tuple[c] = IF c \in offset .. offset + Len(t) - 1
                                  THEN t[c - offset + 1] ELSE buf[c]
  BY DEF WithTuple
<1>9. buf' = [tuple EXCEPT ![slot_offset(n)] = offset, ![slot_offset(n) + 1] = Len(t)]
  BY DEF Written, WithSlot
<1> HIDE DEF offset, tuple
<1>10. /\ buf' \in [Cells -> Nat]
       /\ buf'[slot_offset(n)] = offset
       /\ buf'[slot_offset(n) + 1] = Len(t)
       /\ \A c \in Cells \ {slot_offset(n), slot_offset(n) + 1} : buf'[c] = tuple[c]
  <2>1. slot_offset(n) # slot_offset(n) + 1 /\ Len(t) \in Nat /\ offset \in Nat
    BY <1>2, <1>4, <1>5
  <2> QED
    BY <1>6, <1>7, <1>9, <2>1
<1>11. \A c \in Cells : (/\ c # slot_offset(n) /\ c # slot_offset(n) + 1
                         /\ (c < offset \/ free_end <= c))
                        => buf'[c] = buf[c]
  <2> TAKE c \in Cells
  <2> HAVE /\ c # slot_offset(n) /\ c # slot_offset(n) + 1
           /\ (c < offset \/ free_end <= c)
  <2>1. c \notin offset .. offset + Len(t) - 1
    BY <1>1, <1>2, <1>5 DEF Cells
  <2> QED
    BY <1>8, <1>10, <2>1
<1>12. ASSUME NEW m \in Slots, m # n
       PROVE  SlotOffset(m)' = SlotOffset(m) /\ SlotLength(m)' = SlotLength(m)
  <2>1. /\ slot_offset(m) \in Cells /\ slot_offset(m) + 1 \in Cells
        /\ slot_offset(m) + 1 < free_start
    BY SlotCells
  <2>2. free_start <= free_start'
    BY <1>1, <1>3 DEF Written, slot_offset, SlotSize
  <2>3. m \in Nat
    BY DEF Slots
  <2>4. /\ slot_offset(m) # slot_offset(n) /\ slot_offset(m) # slot_offset(n) + 1
        /\ slot_offset(m) + 1 # slot_offset(n) /\ slot_offset(m) + 1 # slot_offset(n) + 1
    BY <1>1, <1>12, <2>3, SlotsApart
  <2>5. /\ slot_offset(m) < offset /\ slot_offset(m) + 1 < offset
    BY SMTT(30), <1>1, <1>4, <1>5, <2>1, <2>2 DEF Cells
  <2>6. /\ buf'[slot_offset(m)] = buf[slot_offset(m)]
        /\ buf'[slot_offset(m) + 1] = buf[slot_offset(m) + 1]
    BY <1>11, <2>1, <2>4, <2>5
  <2> QED
    BY <2>6 DEF SlotOffset, SlotLength
<1>13. SlotOffset(n)' = offset /\ SlotLength(n)' = Len(t)
  BY <1>10 DEF SlotOffset, SlotLength
<1>14. LiveSlots' = LiveSlots \cup {n}
  <2>1. \A m \in Slots' : SlotLength(m)' # 0 <=> m \in LiveSlots \cup {n}
    <3> TAKE m \in Slots'
    <3>1. CASE m = n
      BY <1>2, <1>13, <3>1
    <3>2. CASE m # n
      <4>1. m \in Slots
        BY <1>3, <3>2
      <4> QED
        BY <1>12, <3>2, <4>1 DEF LiveSlots
    <3> QED
      BY <3>1, <3>2
  <2>2. LiveSlots' = {m \in Slots' : SlotLength(m)' # 0}
    BY DEF LiveSlots
  <2>3. LiveSlots \cup {n} \subseteq Slots'
    BY <1>3 DEF LiveSlots
  <2> QED
    BY <2>1, <2>2, <2>3
<1>15. Tuple(n)' = t
  <2>1. ASSUME NEW i \in 1 .. Len(t) PROVE buf'[offset + i - 1] = t[i]
    <3> DEFINE c == offset + i - 1
    <3>1. /\ c \in Int /\ offset <= c /\ c <= offset + Len(t) - 1 /\ c - offset + 1 = i
      BY <1>2, <1>5
    <3> HIDE DEF c
    <3>2. c \in offset .. offset + Len(t) - 1
      BY <1>2, <1>5, <3>1
    <3>3. c \in Cells
      BY <1>1, <1>2, <1>5, <3>1 DEF Cells
    <3>4. c # slot_offset(n) /\ c # slot_offset(n) + 1
      BY <1>4, <1>5, <3>1
    <3>5. tuple[c] = t[i]
      BY <1>8, <3>1, <3>2, <3>3
    <3> QED
      BY <1>10, <3>3, <3>4, <3>5 DEF c
  <2>2. Tuple(n)' = [i \in 1 .. Len(t) |-> buf'[offset + i - 1]]
    BY <1>13 DEF Tuple
  <2>3. t = [i \in 1 .. Len(t) |-> t[i]]
    BY <1>2
  <2> QED
    BY <2>1, <2>2, <2>3
<1>16. ASSUME NEW m \in LiveSlots PROVE Tuple(m)' = Tuple(m) /\ Extent(m)' = Extent(m)
  <2>1. m \in Slots /\ m # n
    BY DEF LiveSlots, Written
  <2>2. Extent(m) \subseteq free_end .. PageSize - 1
    BY DEF PageInv, LayoutSound
  <2>3. \A c \in Extent(m) : buf'[c] = buf[c]
    <3> TAKE c \in Extent(m)
    <3>1. c \in Cells /\ free_end <= c
      BY <1>1, <2>2 DEF Cells
    <3>2. c \in Int /\ free_start' <= c
      BY <1>1, <1>2, <1>4, <1>5, <3>1 DEF Cells
    <3>3. c # slot_offset(n) /\ c # slot_offset(n) + 1
      BY <1>4, <3>2
    <3> QED
      BY <1>11, <3>1, <3>3
  <2> QED
    BY <1>12, <2>1, <2>3, SlotUnchanged
<1>17. Extent(n)' = offset .. free_end - 1
  BY <1>1, <1>2, <1>5, <1>13 DEF Extent
<1>18. LayoutSound'
  <2>1. free_start' = slot_offset(slot_count)' /\ free_start' <= free_end'
    BY <1>5 DEF Written, slot_offset
  <2>2. \A m \in LiveSlots' : Extent(m)' \subseteq free_end' .. PageSize - 1
    <3> TAKE m \in LiveSlots'
    <3>1. CASE m = n
      BY <1>1, <1>2, <1>5, <1>17, <3>1
    <3>2. CASE m \in LiveSlots
      <4>1. Extent(m) \subseteq free_end .. PageSize - 1
        BY <3>2 DEF PageInv, LayoutSound
      <4>2. Extent(m)' = Extent(m)
        BY <1>16, <3>2
      <4> QED
        BY <1>1, <1>2, <1>5, <4>1, <4>2
    <3> QED
      BY <1>14, <3>1, <3>2
  <2>3. \A m, k \in LiveSlots' : m # k => Extent(m)' \cap Extent(k)' = {}
    <3>1. ASSUME NEW m \in LiveSlots PROVE Extent(m)' \cap Extent(n)' = {}
      <4>1. Extent(m) \subseteq free_end .. PageSize - 1
        BY DEF PageInv, LayoutSound
      <4>2. Extent(m)' = Extent(m)
        BY <1>16
      <4> QED
        BY <1>1, <1>17, <4>1, <4>2
    <3>2. ASSUME NEW m \in LiveSlots, NEW k \in LiveSlots, m # k
          PROVE  Extent(m)' \cap Extent(k)' = {}
      BY <1>16, <3>2 DEF PageInv, LayoutSound
    <3> QED
      BY <1>14, <3>1, <3>2
  <2> QED
    BY <2>1, <2>2, <2>3 DEF LayoutSound
<1>19. TypeOK'
  <2>1. free_start' \in HeaderSize .. PageSize /\ free_end' \in HeaderSize .. PageSize
    BY <1>1, <1>2, <1>4, <1>5
  <2> QED
    BY <1>3, <1>10, <2>1 DEF TypeOK, Cells
<1>20. TuplesKept'
  BY <1>14, <1>15, <1>16 DEF TuplesKept, PageInv
<1> QED
  BY <1>3, <1>14, <1>15, <1>16, <1>18, <1>19, <1>20 DEF PageInv

(* FirstDeleted is the least of the deleted slots. *)
LEMMA FirstDeletedLeast ==
    ASSUME PageInv, Deleted # {}
    PROVE  /\ FirstDeleted \in Deleted
           /\ \A m \in Deleted : FirstDeleted <= m
<1>1. Deleted \in SUBSET Nat
  BY DEF Deleted, Slots
<1>2. \E n \in Deleted : \A m \in Deleted : n <= m
  BY <1>1, LeastElement
<1> QED
  BY <1>2 DEF FirstDeleted

(* insert_tuple's check of the room is what keeps the slot array and the   *)
(* tuple apart, with a used slot as with a new one.                        *)
LEMMA ReusingWrites ==
    ASSUME PageInv, NEW t \in Tuples, InsertReusing(t)
    PROVE  Written(FirstDeleted, t) /\ FirstDeleted \in Slots
<1>1. FirstDeleted \in Deleted
  BY FirstDeletedLeast DEF InsertReusing
<1>2. /\ Len(t) \in Nat \ {0}
      /\ free_start \in Nat /\ free_end \in Nat /\ slot_count \in Nat
      /\ free_start = slot_offset(slot_count)
  BY PageAssumption, LenProperties, EmptySeq DEF PageInv, TypeOK, LayoutSound
<1>3. /\ FirstDeleted \in Slots /\ FirstDeleted \notin LiveSlots
      /\ FirstDeleted \in 0 .. slot_count /\ FirstDeleted # slot_count
  BY <1>1, <1>2 DEF Deleted, Slots
<1>4. free_start <= free_end - Len(t)
  BY <1>2 DEF InsertReusing, free_space
<1> QED
  BY <1>2, <1>3, <1>4 DEF InsertReusing, Written, slot_offset

(* insert_tuple behind the last slot writes a tuple. *)
LEMMA AppendingWrites ==
    ASSUME PageInv, NEW t \in Tuples, InsertAppending(t)
    PROVE  Written(slot_count, t)
<1>1. /\ Len(t) \in Nat \ {0} /\ HeaderSize \in Nat
      /\ free_start \in Nat /\ free_end \in Nat /\ slot_count \in Nat
      /\ free_start = slot_offset(slot_count)
  BY PageAssumption, LenProperties, EmptySeq DEF PageInv, TypeOK, LayoutSound
<1>2. slot_count \in 0 .. slot_count /\ slot_count \notin LiveSlots
  BY <1>1 DEF LiveSlots, Slots
<1>3. free_start' <= free_end - Len(t)
  BY <1>1 DEF InsertAppending, free_space, slot_offset, SlotSize
<1> QED
  BY <1>1, <1>2, <1>3 DEF InsertAppending, Written, slot_offset

(* delete_tuple clears one slot and touches no other slot and no tuple. *)
LEMMA DeleteKeeps ==
    ASSUME PageInv, NEW n \in Slots, DeleteTuple(n)
    PROVE  /\ PageInv'
           /\ Slots' = Slots
           /\ LiveSlots' = LiveSlots \ {n}
           /\ \A m \in LiveSlots \ {n} : Tuple(m)' = Tuple(m)
<1>1. /\ slot_offset(n) \in Cells /\ slot_offset(n) + 1 \in Cells
      /\ HeaderSize <= slot_offset(n) /\ slot_offset(n) + 1 < free_start
  BY SlotCells
<1>2. /\ buf \in [Cells -> Nat] /\ free_start \in Nat /\ free_end \in Nat
      /\ free_start <= free_end /\ slot_offset(n) \in Int
  BY <1>1, PageAssumption DEF PageInv, TypeOK, LayoutSound, Cells
<1>3. /\ buf' \in [Cells -> Nat]
      /\ buf'[slot_offset(n) + 1] = 0
      /\ \A c \in Cells \ {slot_offset(n), slot_offset(n) + 1} : buf'[c] = buf[c]
  BY <1>1, <1>2 DEF DeleteTuple, WithSlot
<1>4. ASSUME NEW m \in Slots, m # n
      PROVE  SlotOffset(m)' = SlotOffset(m) /\ SlotLength(m)' = SlotLength(m)
  <2>1. slot_offset(m) \in Cells /\ slot_offset(m) + 1 \in Cells
    BY SlotCells
  <2>2. n \in Nat /\ m \in Nat
    BY DEF Slots
  <2>3. /\ slot_offset(m) # slot_offset(n) /\ slot_offset(m) # slot_offset(n) + 1
        /\ slot_offset(m) + 1 # slot_offset(n) /\ slot_offset(m) + 1 # slot_offset(n) + 1
    BY <1>4, <2>2, SlotsApart
  <2> QED
    BY <1>3, <2>1, <2>3 DEF SlotOffset, SlotLength
<1>5. SlotLength(n)' = 0
  BY <1>3 DEF SlotLength
<1>6. Slots' = Slots
  BY DEF DeleteTuple, Slots
<1>7. LiveSlots' = LiveSlots \ {n}
  <2>1. \A m \in Slots : SlotLength(m)' # 0 <=> m \in LiveSlots \ {n}
    BY <1>4, <1>5 DEF LiveSlots
  <2>2. LiveSlots' = {m \in Slots : SlotLength(m)' # 0}
    BY <1>6 DEF LiveSlots
  <2> QED
    BY <2>1, <2>2 DEF LiveSlots
<1>8. ASSUME NEW m \in LiveSlots \ {n} PROVE Tuple(m)' = Tuple(m) /\ Extent(m)' = Extent(m)
  <2>1. m \in Slots /\ m # n
    BY DEF LiveSlots
  <2>2. Extent(m) \subseteq free_end .. PageSize - 1
    BY DEF PageInv, LayoutSound
  <2>3. \A c \in Extent(m) : buf'[c] = buf[c]
    <3> TAKE c \in Extent(m)
    <3>1. c \in Int /\ free_end <= c /\ c \in Cells
      BY <1>2, <2>2 DEF Cells
    <3>2. c # slot_offset(n) /\ c # slot_offset(n) + 1
      BY <1>1, <1>2, <3>1
    <3> QED
      BY <1>3, <3>1, <3>2
  <2> QED
    BY <1>4, <2>1, <2>3, SlotUnchanged
<1>9. LayoutSound'
  BY <1>7, <1>8 DEF PageInv, LayoutSound, DeleteTuple, slot_offset
<1>10. TypeOK' /\ TuplesKept'
  BY <1>3, <1>7, <1>8 DEF PageInv, TypeOK, TuplesKept, DeleteTuple, Cells
<1> QED
  BY <1>6, <1>7, <1>8, <1>9, <1>10 DEF PageInv

-----------------------------------------------------------------------------

(***************************************************************************)
(* compact's cursor without recursion: the tuples of the slots below n,    *)
(* laid out from the end of the page, end here.                            *)
(***************************************************************************)
BytesBelow(n) == UNION {Extent(m) : m \in {k \in LiveSlots : k < n}}

CursorBelow(n) == PageSize - Cardinality(BytesBelow(n))

(* Each live slot moves the cursor of compact by the length of its tuple. *)
LEMMA CursorBelowSteps ==
    ASSUME PageInv
    PROVE  /\ CursorBelow(0) = PageSize
           /\ \A n \in 0 .. slot_count :
                /\ IsFiniteSet(BytesBelow(n))
                /\ CursorBelow(n) \in Nat
                /\ free_end <= CursorBelow(n) /\ CursorBelow(n) <= PageSize
           /\ \A n \in Slots :
                CursorBelow(n + 1) = IF n \in LiveSlots
                                     THEN CursorBelow(n) - SlotLength(n)
                                     ELSE CursorBelow(n)
           /\ \A m, n \in 0 .. slot_count : m <= n => CursorBelow(n) <= CursorBelow(m)
<1>1. PageSize \in Nat /\ free_end \in Nat /\ free_end <= PageSize /\ slot_count \in Nat
  BY PageAssumption DEF PageInv, TypeOK
<1>2. /\ IsFiniteSet(free_end .. PageSize - 1)
      /\ Cardinality(free_end .. PageSize - 1) = PageSize - free_end
  BY <1>1, IntervalSize
<1>3. ASSUME NEW n \in 0 .. slot_count
      PROVE  /\ IsFiniteSet(BytesBelow(n))
             /\ Cardinality(BytesBelow(n)) \in Nat
             /\ Cardinality(BytesBelow(n)) <= PageSize - free_end
  <2>1. BytesBelow(n) \in SUBSET (free_end .. PageSize - 1)
    BY DEF BytesBelow, PageInv, LayoutSound
  <2> QED
    BY ZenonT(60), <1>2, <2>1, FS_Subset, FS_CardinalityType
<1>4. CursorBelow(0) = PageSize
  <2>1. BytesBelow(0) = {}
    BY DEF BytesBelow, LiveSlots, Slots
  <2> QED
    BY <1>1, <2>1, FS_EmptySet DEF CursorBelow
<1>5. ASSUME NEW n \in Slots
      PROVE  CursorBelow(n + 1) = IF n \in LiveSlots
                                  THEN CursorBelow(n) - SlotLength(n)
                                  ELSE CursorBelow(n)
  <2>0. n \in 0 .. slot_count /\ n \in Nat /\ LiveSlots \subseteq Nat
    BY <1>1 DEF Slots, LiveSlots
  <2>1. CASE n \in LiveSlots
    <3>1. BytesBelow(n + 1) = BytesBelow(n) \cup Extent(n)
      <4>1. {k \in LiveSlots : k < n + 1} = {k \in LiveSlots : k < n} \cup {n}
        <5>1. \A k \in LiveSlots : k < n + 1 <=> k < n \/ k = n
          BY <2>0
        <5> QED
          BY <2>1, <5>1
      <4> QED
        BY <4>1 DEF BytesBelow
    <3>2. BytesBelow(n) \cap Extent(n) = {}
      BY <2>0, <2>1 DEF BytesBelow, PageInv, LayoutSound
    <3>3. IsFiniteSet(Extent(n)) /\ Cardinality(Extent(n)) = SlotLength(n)
      <4>1. SlotOffset(n) \in Nat /\ SlotLength(n) \in Nat \ {0}
        BY <2>1, TupleCells
      <4>2. PICK a, b \in Int : /\ a = SlotOffset(n) /\ b = SlotOffset(n) + SlotLength(n)
                                /\ a <= b
        BY <4>1
      <4>3. IsFiniteSet(a .. b - 1) /\ Cardinality(a .. b - 1) = b - a
        BY <4>2, IntervalSize
      <4> QED
        BY SMTT(30), <4>1, <4>2, <4>3 DEF Extent
    <3>4. Cardinality(BytesBelow(n + 1))
            = Cardinality(BytesBelow(n)) + SlotLength(n) - Cardinality({})
      BY <1>3, <2>0, <3>1, <3>2, <3>3, FS_Union
    <3>5. SlotLength(n) \in Nat
      BY SlotCells
    <3> QED
      BY <1>1, <1>3, <2>0, <2>1, <3>4, <3>5, FS_EmptySet DEF CursorBelow
  <2>2. CASE n \notin LiveSlots
    <3>1. {k \in LiveSlots : k < n + 1} = {k \in LiveSlots : k < n}
      <4>1. \A k \in LiveSlots : k < n + 1 <=> k < n
        BY <2>0, <2>2
      <4> QED
        BY <4>1
    <3> QED
      BY <2>2, <3>1 DEF CursorBelow, BytesBelow
  <2> QED
    BY <2>1, <2>2
<1>6. ASSUME NEW m \in 0 .. slot_count, NEW n \in 0 .. slot_count, m <= n
      PROVE  CursorBelow(n) <= CursorBelow(m)
  <2>1. BytesBelow(m) \in SUBSET BytesBelow(n)
    BY <1>6 DEF BytesBelow, LiveSlots, Slots
  <2>2. Cardinality(BytesBelow(m)) <= Cardinality(BytesBelow(n))
    BY <1>3, <2>1, FS_Subset
  <2> QED
    BY <1>1, <1>3, <2>2 DEF CursorBelow
<1>7. ASSUME NEW n \in 0 .. slot_count
      PROVE  /\ IsFiniteSet(BytesBelow(n))
             /\ CursorBelow(n) \in Nat
             /\ free_end <= CursorBelow(n) /\ CursorBelow(n) <= PageSize
  BY <1>1, <1>3 DEF CursorBelow
<1> QED
  BY <1>4, <1>5, <1>6, <1>7

(***************************************************************************)
(* The cursor compact computes slot by slot is that one.  The recursive    *)
(* function exists because CursorBelow satisfies its equation; it is no    *)
(* other function because there is no least slot at which it differs.      *)
(***************************************************************************)
LEMMA CursorIsBelow ==
    ASSUME PageInv
    PROVE  /\ Cursor = [n \in Slots |-> CursorBelow(n + 1)]
           /\ LowestCursor = CursorBelow(slot_count)
<1> DEFINE Equation(f) ==
              f = [n \in 0 .. slot_count |->
                     IF n = 0 THEN PageSize
                     ELSE IF n - 1 \in LiveSlots THEN f[n - 1] - SlotLength(n - 1)
                     ELSE f[n - 1]]
           at == CHOOSE f : Equation(f)
           below == [n \in 0 .. slot_count |-> CursorBelow(n)]
<1>0. slot_count \in Nat
  BY DEF PageInv, TypeOK
<1>1. Cursor = [n \in Slots |-> at[n + 1]]
  BY DEF Cursor
<1>2. Equation(below)
  <2>1. ASSUME NEW n \in 0 .. slot_count
        PROVE  below[n] = IF n = 0 THEN PageSize
                          ELSE IF n - 1 \in LiveSlots THEN below[n - 1] - SlotLength(n - 1)
                          ELSE below[n - 1]
    <3>1. CASE n = 0
      BY <1>0, <3>1, CursorBelowSteps
    <3>2. CASE n # 0
      <4>1. n - 1 \in Slots /\ n - 1 \in 0 .. slot_count /\ n = n - 1 + 1
        BY <1>0, <3>2 DEF Slots
      <4>2. CursorBelow(n - 1 + 1) = IF n - 1 \in LiveSlots
                                     THEN CursorBelow(n - 1) - SlotLength(n - 1)
                                     ELSE CursorBelow(n - 1)
        BY <4>1, CursorBelowSteps
      <4> QED
        BY <3>2, <4>1, <4>2
    <3> QED
      BY <3>1, <3>2
  <2> QED
    BY <2>1
<1>3. Equation(at)
  BY <1>2
<1> HIDE DEF at
<1>4. \A n \in 0 .. slot_count : at[n] = CursorBelow(n)
  <2> DEFINE Differs == {n \in 0 .. slot_count : at[n] # CursorBelow(n)}
  <2>1. ASSUME Differs # {} PROVE FALSE
    <3>1. PICK n \in Differs : \A k \in Differs : n <= k
      <4>1. Differs \in SUBSET Nat
        OBVIOUS
      <4> HIDE DEF Differs
      <4> QED
        BY <2>1, <4>1, LeastElement
    <3>2. n # 0
      BY <1>0, <1>3, CursorBelowSteps
    <3>3. n - 1 \in Slots /\ n - 1 \in 0 .. slot_count /\ n = n - 1 + 1
      BY <1>0, <3>2 DEF Slots
    <3>4. n - 1 \notin Differs
      BY <3>1, <3>3
    <3>5. at[n - 1] = CursorBelow(n - 1)
      BY <3>3, <3>4
    <3>6. CursorBelow(n - 1 + 1) = IF n - 1 \in LiveSlots
                                   THEN CursorBelow(n - 1) - SlotLength(n - 1)
                                   ELSE CursorBelow(n - 1)
      BY <3>3, CursorBelowSteps
    <3>7. at[n] = IF n - 1 \in LiveSlots THEN at[n - 1] - SlotLength(n - 1)
                  ELSE at[n - 1]
      BY <1>3, <3>2
    <3>8. at[n] = CursorBelow(n)
      BY <3>3, <3>5, <3>6, <3>7
    <3> QED
      BY <3>8
  <2> QED
    BY <2>1
<1>5. Cursor = [n \in Slots |-> CursorBelow(n + 1)]
  <2>1. \A n \in Slots : n + 1 \in 0 .. slot_count
    BY <1>0 DEF Slots
  <2> QED
    BY <1>1, <1>4, <2>1
<1>6. LowestCursor = CursorBelow(slot_count)
  <2>1. CASE slot_count = 0
    BY <2>1, CursorBelowSteps DEF LowestCursor
  <2>2. CASE slot_count # 0
    <3>1. slot_count - 1 \in Slots /\ slot_count - 1 + 1 = slot_count
      BY <1>0, <2>2 DEF Slots
    <3> QED
      BY <1>5, <2>2, <3>1 DEF LowestCursor
  <2> QED
    BY <2>1, <2>2
<1> QED
  BY <1>5, <1>6

(* Where compact puts the tuple of slot n. *)
Placed(n) == CursorBelow(n + 1) .. CursorBelow(n + 1) + SlotLength(n) - 1

(* The places compact gives to tuples do not meet, and lie behind the slots. *)
LEMMA PlacedApart ==
    ASSUME PageInv, NEW n \in LiveSlots
    PROVE  /\ CursorBelow(n + 1) \in Nat
           /\ CursorBelow(slot_count) <= CursorBelow(n + 1)
           /\ free_end <= CursorBelow(n + 1)
           /\ CursorBelow(n + 1) + SlotLength(n) <= PageSize
           /\ \A m \in LiveSlots : n # m => Placed(n) \cap Placed(m) = {}
<1> DEFINE low(m) == CursorBelow(m + 1)
           high(m) == CursorBelow(m)
<1>0. PageSize \in Nat /\ free_end \in Nat /\ slot_count \in Nat
  BY PageAssumption DEF PageInv, TypeOK
<1>1. ASSUME NEW m \in LiveSlots
      PROVE  /\ low(m) \in Nat /\ high(m) \in Nat /\ SlotLength(m) \in Nat
             /\ low(m) + SlotLength(m) = high(m)
             /\ free_end <= low(m) /\ high(m) <= PageSize
             /\ CursorBelow(slot_count) <= low(m)
             /\ m \in Nat /\ m + 1 \in 0 .. slot_count /\ m \in 0 .. slot_count
  <2>1. m \in Slots /\ SlotLength(m) \in Nat
    BY SlotCells DEF LiveSlots
  <2>2. /\ m \in Nat /\ m + 1 \in 0 .. slot_count /\ m \in 0 .. slot_count
        /\ slot_count \in 0 .. slot_count /\ m + 1 <= slot_count
    BY <1>0, <2>1 DEF Slots
  <2>3. CursorBelow(m + 1) = CursorBelow(m) - SlotLength(m)
    BY <2>1, CursorBelowSteps
  <2>4. CursorBelow(m) \in Nat /\ CursorBelow(m) <= PageSize
    BY <2>2, CursorBelowSteps
  <2>5. CursorBelow(m + 1) \in Nat /\ free_end <= CursorBelow(m + 1)
    BY <2>2, CursorBelowSteps
  <2>6. CursorBelow(slot_count) <= CursorBelow(m + 1)
    BY <2>2, CursorBelowSteps
  <2> QED
    BY <2>1, <2>2, <2>3, <2>4, <2>5, <2>6
<1>2. ASSUME NEW m \in LiveSlots, NEW k \in LiveSlots, m < k
      PROVE  Placed(m) \cap Placed(k) = {}
  <2>1. m + 1 <= k /\ m + 1 \in 0 .. slot_count /\ k \in 0 .. slot_count
    BY <1>1, <1>2
  <2>2. high(k) <= low(m)
    BY <2>1, CursorBelowSteps
  <2>3. PICK a, b, c \in Nat : /\ a = low(m) /\ b = low(k) /\ c = high(k)
    BY <1>1
  <2>4. Placed(m) = a .. a + SlotLength(m) - 1 /\ Placed(k) = b .. b + SlotLength(k) - 1
    BY <2>3 DEF Placed
  <2>5. c <= a /\ b + SlotLength(k) = c /\ SlotLength(m) \in Nat /\ SlotLength(k) \in Nat
    BY <1>1, <2>2, <2>3
  <2> QED
    BY <2>4, <2>5
<1>3. ASSUME NEW m \in LiveSlots, n # m PROVE Placed(n) \cap Placed(m) = {}
  <2>1. n < m \/ m < n
    BY <1>1, <1>3
  <2> QED
    BY <1>2, <2>1
<1> QED
  BY <1>0, <1>1, <1>3

(* The buffer compact leaves, cell by cell. *)
LEMMA CompactedCells ==
    ASSUME PageInv
    PROVE  /\ Compacted \in [Cells -> Nat]
           /\ \A n \in Slots : Compacted[slot_offset(n) + 1] = SlotLength(n)
           /\ \A n \in LiveSlots :
                /\ Compacted[slot_offset(n)] = CursorBelow(n + 1)
                /\ \A i \in 1 .. SlotLength(n) :
                     Compacted[CursorBelow(n + 1) + i - 1] = Tuple(n)[i]
<1> DEFINE Holder(c) == {n \in LiveSlots :
                           c \in Cursor[n] .. Cursor[n] + SlotLength(n) - 1}
           SlotOf(c) == (c - HeaderSize) \div SlotSize
           Chosen(c) == CHOOSE n \in Holder(c) : TRUE
<1>0. /\ HeaderSize \in Nat /\ PageSize \in Nat /\ slot_count \in Nat
      /\ free_start \in Nat /\ free_end \in Nat /\ free_start <= free_end
      /\ free_start = slot_offset(slot_count) /\ HeaderSize <= free_start
      /\ buf \in [Cells -> Nat]
  BY PageAssumption DEF PageInv, TypeOK, LayoutSound
<1>1. /\ DOMAIN Compacted = Cells
      /\ \A c \in Cells : c < HeaderSize => Compacted[c] = buf[c]
      /\ \A c \in Cells : c \in HeaderSize .. free_start - 1 =>
            Compacted[c] = IF SlotOf(c) \in LiveSlots /\ c = slot_offset(SlotOf(c))
                           THEN Cursor[SlotOf(c)] ELSE buf[c]
      /\ \A c \in Cells : c >= free_start /\ Holder(c) # {} =>
            Compacted[c] = Tuple(Chosen(c))[c - Cursor[Chosen(c)] + 1]
      /\ \A c \in Cells : c >= free_start /\ Holder(c) = {} => Compacted[c] = 0
  BY <1>0 DEF Compacted, Cells
<1>2. \A n \in LiveSlots : /\ n \in Slots
                           /\ Cursor[n] = CursorBelow(n + 1)
                           /\ Cursor[n] \in Nat
                           /\ free_end <= Cursor[n]
                           /\ Cursor[n] + SlotLength(n) <= PageSize
                           /\ SlotLength(n) \in Nat \ {0}
  BY CursorIsBelow, PlacedApart, SlotCells DEF LiveSlots
<1>3. ASSUME NEW n \in Slots
      PROVE  /\ n \in Nat
             /\ SlotOf(slot_offset(n)) = n /\ SlotOf(slot_offset(n) + 1) = n
             /\ slot_offset(n) \in HeaderSize .. free_start - 1
             /\ slot_offset(n) + 1 \in HeaderSize .. free_start - 1
             /\ slot_offset(n) \in Cells /\ slot_offset(n) + 1 \in Cells
  <2>1. n \in Nat
    BY DEF Slots
  <2>2. SlotOf(slot_offset(n)) = n /\ SlotOf(slot_offset(n) + 1) = n
    <3>1. slot_offset(n) - HeaderSize = 2 * n /\ slot_offset(n) + 1 - HeaderSize = 2 * n + 1
      BY <1>0, <2>1 DEF slot_offset, SlotSize
    <3>2. (2 * n) \div 2 = n /\ (2 * n + 1) \div 2 = n
      BY <2>1
    <3>3. SlotOf(slot_offset(n)) = (2 * n) \div 2
      BY <3>1 DEF SlotSize
    <3>4. PICK c \in Int : c = slot_offset(n) + 1 /\ c - HeaderSize = 2 * n + 1
      BY <1>0, <2>1, <3>1, SlotsApart
    <3>5. SlotOf(c) = (2 * n + 1) \div 2
      BY <3>4 DEF SlotSize
    <3> QED
      BY <3>2, <3>3, <3>4, <3>5
  <2> QED
    BY SMTT(30), <1>0, <2>1, <2>2, SlotCells DEF Cells
<1> HIDE DEF SlotOf
<1>4. ASSUME NEW n \in Slots PROVE Compacted[slot_offset(n) + 1] = SlotLength(n)
  <2>1. slot_offset(n) + 1 # slot_offset(n)
    BY <1>3
  <2> QED
    BY <1>1, <1>3, <2>1 DEF SlotLength
<1>5. ASSUME NEW n \in LiveSlots PROVE Compacted[slot_offset(n)] = CursorBelow(n + 1)
  BY <1>1, <1>2, <1>3
<1>6. ASSUME NEW n \in LiveSlots, NEW i \in 1 .. SlotLength(n)
      PROVE  Compacted[CursorBelow(n + 1) + i - 1] = Tuple(n)[i]
  <2>1. PICK c \in Int : c = Cursor[n] + i - 1
    BY <1>2
  <2>2. c \in Cells /\ c >= free_start
    BY SMTT(30), <1>0, <1>2, <2>1 DEF Cells
  <2>3. c \in Cursor[n] .. Cursor[n] + SlotLength(n) - 1 /\ c - Cursor[n] + 1 = i
    BY <1>2, <2>1
  <2>4. ASSUME NEW m \in Holder(c) PROVE m = n
    <3>1. c \in Placed(m) /\ c \in Placed(n)
      BY <1>2, <2>3 DEF Placed
    <3> QED
      BY <3>1, PlacedApart
  <2>5. n \in Holder(c)
    BY <2>3
  <2>6. Chosen(c) = n
    <3> HIDE DEF Holder
    <3> QED
      BY <2>4, <2>5
  <2>7. Compacted[c] = Tuple(n)[i]
    <3>1. Compacted[c] = Tuple(Chosen(c))[c - Cursor[Chosen(c)] + 1]
      BY <1>1, <2>2, <2>5
    <3> HIDE DEF Chosen
    <3> QED
      BY <2>3, <2>6, <3>1
  <2> QED
    BY <1>2, <2>1, <2>7
<1>7. ASSUME NEW c \in Cells PROVE Compacted[c] \in Nat
  <2>0. c \in Nat
    BY DEF Cells
  <2>1. CASE c < HeaderSize
    BY <1>0, <1>1, <2>1
  <2>2. CASE c \in HeaderSize .. free_start - 1
    <3>1. Compacted[c] = IF SlotOf(c) \in LiveSlots /\ c = slot_offset(SlotOf(c))
                         THEN Cursor[SlotOf(c)] ELSE buf[c]
      BY <1>1, <2>2
    <3> QED
      BY <1>0, <1>2, <3>1
  <2>3. CASE c >= free_start /\ Holder(c) # {}
    <3>1. PICK n \in LiveSlots : c \in Cursor[n] .. Cursor[n] + SlotLength(n) - 1
      BY <2>3
    <3>2. PICK i \in 1 .. SlotLength(n) : c = CursorBelow(n + 1) + i - 1
      <4>1. c - Cursor[n] + 1 \in 1 .. SlotLength(n)
        BY <1>2, <2>0, <3>1
      <4>2. c = CursorBelow(n + 1) + (c - Cursor[n] + 1) - 1
        BY <1>2, <2>0
      <4> QED
        BY <4>1, <4>2
    <3>3. Compacted[c] = Tuple(n)[i]
      BY <1>6, <3>2
    <3>4. SlotOffset(n) + i - 1 \in Cells
      BY TupleCells
    <3>5. Tuple(n)[i] = buf[SlotOffset(n) + i - 1]
      BY DEF Tuple
    <3> QED
      BY <1>0, <3>3, <3>4, <3>5
  <2>4. CASE c >= free_start /\ Holder(c) = {}
    BY <1>1, <2>4
  <2> QED
    BY <1>0, <2>0, <2>1, <2>2, <2>3, <2>4
<1>8. Compacted \in [Cells -> Nat]
  <2>1. Compacted = [c \in Cells |-> Compacted[c]]
    BY DEF Compacted
  <2> QED
    BY <1>7, <2>1
<1> QED
  BY <1>4, <1>5, <1>6, <1>8

(***************************************************************************)
(* compact moves every tuple to its place and keeps all of them.  The gap  *)
(* does not shrink: it ends where the last tuple placed begins.            *)
(***************************************************************************)
LEMMA CompactKeeps ==
    ASSUME PageInv, Compact
    PROVE  /\ PageInv'
           /\ Slots' = Slots
           /\ LiveSlots' = LiveSlots
           /\ \A n \in LiveSlots : Tuple(n)' = Tuple(n)
           /\ free_start' = free_start
           /\ free_end' = PageSize - Cardinality(LiveBytes)
<1>0. /\ HeaderSize \in Nat /\ PageSize \in Nat /\ slot_count \in Nat
      /\ free_start \in Nat /\ free_end \in Nat /\ free_start <= free_end
      /\ HeaderSize <= free_start /\ slot_count \in 0 .. slot_count
  BY PageAssumption DEF PageInv, TypeOK, LayoutSound
<1>1. /\ buf' \in [Cells -> Nat]
      /\ \A n \in Slots : SlotLength(n)' = SlotLength(n)
      /\ \A n \in LiveSlots :
           /\ SlotOffset(n)' = CursorBelow(n + 1)
           /\ \A i \in 1 .. SlotLength(n) : buf'[CursorBelow(n + 1) + i - 1] = Tuple(n)[i]
  BY CompactedCells DEF Compact, SlotOffset, SlotLength
<1>2. Slots' = Slots
  BY DEF Compact, Slots
<1>3. LiveSlots' = LiveSlots /\ LiveSlots \subseteq Slots
  BY <1>1, <1>2 DEF LiveSlots
<1>4. ASSUME NEW n \in LiveSlots PROVE Tuple(n)' = Tuple(n) /\ Extent(n)' = Placed(n)
  <2>1. SlotLength(n)' = SlotLength(n) /\ SlotOffset(n)' = CursorBelow(n + 1)
    BY <1>1, <1>3
  <2>2. Tuple(n)' = [i \in 1 .. SlotLength(n) |-> buf'[CursorBelow(n + 1) + i - 1]]
    BY <2>1 DEF Tuple
  <2>3. Tuple(n) = [i \in 1 .. SlotLength(n) |-> Tuple(n)[i]]
    BY DEF Tuple
  <2> QED
    BY <1>1, <2>1, <2>2, <2>3 DEF Extent, Placed
<1>5. /\ free_end' = CursorBelow(slot_count) /\ free_start' = free_start
      /\ free_end' \in Nat /\ free_end <= free_end' /\ free_end' <= PageSize
  BY <1>0, CursorIsBelow, CursorBelowSteps DEF Compact
<1>6. TypeOK'
  BY <1>0, <1>1, <1>5 DEF Compact, TypeOK, Cells
<1>7. LayoutSound'
  <2>1. free_start' = slot_offset(slot_count)'
    BY DEF PageInv, LayoutSound, Compact, slot_offset
  <2>2. free_start' <= free_end'
    BY <1>0, <1>5
  <2>3. ASSUME NEW n \in LiveSlots PROVE Extent(n)' \subseteq free_end' .. PageSize - 1
    <3>1. /\ CursorBelow(n + 1) \in Nat /\ CursorBelow(slot_count) <= CursorBelow(n + 1)
          /\ CursorBelow(n + 1) + SlotLength(n) <= PageSize
      BY PlacedApart
    <3>2. SlotLength(n) \in Nat
      BY <1>3, SlotCells
    <3>3. Placed(n) \subseteq free_end' .. PageSize - 1
      BY <1>0, <1>5, <3>1, <3>2 DEF Placed
    <3> QED
      BY <1>4, <3>3
  <2>4. ASSUME NEW n \in LiveSlots, NEW m \in LiveSlots, n # m
        PROVE  Extent(n)' \cap Extent(m)' = {}
    BY <1>4, <2>4, PlacedApart
  <2> QED
    BY <1>3, <2>1, <2>2, <2>3, <2>4 DEF LayoutSound
<1>8. TuplesKept'
  BY <1>3, <1>4 DEF PageInv, TuplesKept
<1>9. BytesBelow(slot_count) = LiveBytes
  <2>1. {k \in LiveSlots : k < slot_count} = LiveSlots
    <3>1. \A k \in LiveSlots : k < slot_count
      BY <1>0, <1>3 DEF Slots
    <3> QED
      BY <3>1
  <2> QED
    BY <2>1 DEF BytesBelow, LiveBytes
<1> QED
  BY <1>2, <1>3, <1>4, <1>5, <1>6, <1>7, <1>8, <1>9 DEF PageInv, CursorBelow

-----------------------------------------------------------------------------

(* The gap is what lies between the slot array and the tuples. *)
LEMMA FreeSpace ==
    PageInv => free_space \in Nat /\ free_space = free_end - free_start
<1> SUFFICES ASSUME PageInv
             PROVE  free_space \in Nat /\ free_space = free_end - free_start
  OBVIOUS
<1>1. free_start \in Nat /\ free_end \in Nat /\ free_start <= free_end
  BY PageAssumption DEF PageInv, TypeOK, LayoutSound
<1>2. CASE free_end > free_start
  BY <1>1, <1>2 DEF free_space
<1>3. CASE free_end = free_start
  <2>1. \A a \in Nat : ~ (a > a) /\ a - a = 0
    OBVIOUS
  <2>2. ~ (free_end > free_start) /\ free_end - free_start = 0
    BY <1>1, <1>3, <2>1
  <2> QED
    BY <2>2 DEF free_space
<1> QED
  BY <1>1, <1>2, <1>3

(* page_init leaves an empty page. *)
LEMMA PageStart == Init => PageInv
<1> SUFFICES ASSUME Init PROVE PageInv
  OBVIOUS
<1>1. LiveSlots = {}
  BY DEF Init, LiveSlots, Slots
<1>2. TypeOK
  BY PageAssumption DEF Init, TypeOK, Cells
<1>3. LayoutSound
  BY <1>1, PageAssumption DEF Init, LayoutSound, slot_offset, SlotSize
<1> QED
  BY <1>1, <1>2, <1>3 DEF PageInv, TuplesKept

(* Every step keeps the invariant. *)
LEMMA PageStep == PageInv /\ [Next]_vars => PageInv'
<1> SUFFICES ASSUME PageInv, [Next]_vars PROVE PageInv'
  OBVIOUS
<1>1. ASSUME NEW t \in Tuples, InsertReusing(t) PROVE PageInv'
  BY <1>1, ReusingWrites, WrittenKeeps
<1>2. ASSUME NEW t \in Tuples, InsertAppending(t) PROVE PageInv'
  BY <1>2, AppendingWrites, WrittenKeeps
<1>3. ASSUME NEW n \in Slots, DeleteTuple(n) PROVE PageInv'
  BY <1>3, DeleteKeeps
<1>4. CASE Compact
  BY <1>4, CompactKeeps
<1>5. CASE UNCHANGED vars
  <2>1. /\ \A n \in Slots : SlotOffset(n)' = SlotOffset(n) /\ SlotLength(n)' = SlotLength(n)
        /\ Slots' = Slots
    BY <1>5 DEF vars, SlotOffset, SlotLength, Slots
  <2>2. LiveSlots' = LiveSlots
    BY <2>1 DEF LiveSlots
  <2>3. \A n \in LiveSlots : Tuple(n)' = Tuple(n) /\ Extent(n)' = Extent(n)
    BY <1>5, <2>1 DEF vars, Tuple, Extent, LiveSlots
  <2> QED
    BY <1>5, <2>2, <2>3
       DEF vars, PageInv, TypeOK, LayoutSound, TuplesKept, Cells, slot_offset
<1> QED
  BY <1>1, <1>2, <1>3, <1>4, <1>5 DEF Next

(***************************************************************************)
(* For every page size and header and whatever tuples are inserted,        *)
(* deleted and moved: the header fields stay offsets into the buffer, the  *)
(* slot array ends before the gap, the tuples lie behind it, and no two of *)
(* them share a byte.                                                      *)
(***************************************************************************)
THEOREM LayoutAlwaysSound == Spec => [](TypeOK /\ LayoutSound)
<1>1. PageInv => TypeOK /\ LayoutSound
  BY DEF PageInv
<1> QED
  BY <1>1, PageStart, PageStep, PTL DEF Spec

(***************************************************************************)
(* After compact, the gap is all that slots and live tuples do not take,   *)
(* for every page.                                                         *)
(***************************************************************************)
THEOREM CompactIsComplete == Spec => CompactReclaimsAll
<1>1. ASSUME PageInv, Compact
      PROVE  free_space' = PageSize - free_start - Cardinality(LiveBytes)
  <2>1. PageInv' /\ free_start' = free_start /\ free_end' = PageSize - Cardinality(LiveBytes)
    BY <1>1, CompactKeeps
  <2>2. (free_space \in Nat /\ free_space = free_end - free_start)'
    BY <2>1, FreeSpace, PTL
  <2>3. free_start \in Nat /\ PageSize \in Nat
    BY <1>1, PageAssumption DEF PageInv, TypeOK
  <2>4. IsFiniteSet(LiveBytes)
    <3>1. LiveBytes \in SUBSET (free_end .. PageSize - 1)
      BY <1>1 DEF LiveBytes, PageInv, LayoutSound
    <3>2. free_end \in Int /\ PageSize \in Int /\ free_end <= PageSize
      BY <1>1, PageAssumption DEF PageInv, TypeOK
    <3> QED
      BY <3>1, <3>2, IntervalSize, FS_Subset
  <2>5. Cardinality(LiveBytes) \in Nat
    BY <2>4, FS_CardinalityType
  <2> QED
    BY <2>1, <2>2, <2>3, <2>5
<1>2. PageInv /\ [Next]_vars =>
        [Compact => free_space' = PageSize - free_start - Cardinality(LiveBytes)]_vars
  BY <1>1
<1> QED
  BY <1>2, PageStart, PageStep, PTL DEF Spec, CompactReclaimsAll

-----------------------------------------------------------------------------

(* A live slot holds a tuple and a deleted one a tombstone, and no tuple   *)
(* is one; so the page as the heap sees it has the same slots free.        *)
LEMMA SeenSlots ==
    ASSUME PageInv
    PROVE  /\ AsTuplePage.slots \in Seq(Tuples \cup {Tombstone})
           /\ Len(AsTuplePage.slots) = slot_count
           /\ \A n \in Slots : /\ n + 1 \in 1 .. slot_count
                               /\ AsTuplePage.slots[n + 1] = IF n \in LiveSlots THEN Tuple(n)
                                                             ELSE Tombstone
           /\ \A s \in 1 .. slot_count : /\ s - 1 \in Slots
                                         /\ AsTuplePage.slots[s] = Tombstone
                                              <=> s - 1 \in Deleted
<1>0. slot_count \in Nat
  BY DEF PageInv, TypeOK
<1>1. AsTuplePage.slots = [s \in 1 .. slot_count |->
                             IF s - 1 \in LiveSlots THEN Tuple(s - 1) ELSE Tombstone]
  BY DEF AsTuplePage
<1>2. \A n \in LiveSlots : Tuple(n) \in Tuples /\ Tuple(n) # Tombstone
  BY PageAssumption DEF PageInv, TuplesKept
<1>3. AsTuplePage.slots \in [1 .. slot_count -> Tuples \cup {Tombstone}]
  BY <1>1, <1>2
<1>4. /\ AsTuplePage.slots \in Seq(Tuples \cup {Tombstone})
      /\ Len(AsTuplePage.slots) = slot_count
  BY <1>0, <1>3, IsASeq, LenProperties
<1>5. ASSUME NEW s \in 1 .. slot_count
      PROVE  s - 1 \in Slots /\ (AsTuplePage.slots[s] = Tombstone <=> s - 1 \in Deleted)
  <2>1. s - 1 \in Slots
    BY <1>0 DEF Slots
  <2> QED
    BY <1>1, <1>2, <2>1 DEF Deleted
<1>6. ASSUME NEW n \in Slots
      PROVE  /\ n + 1 \in 1 .. slot_count
             /\ AsTuplePage.slots[n + 1] = IF n \in LiveSlots THEN Tuple(n) ELSE Tombstone
  <2>1. PICK s \in 1 .. slot_count : s = n + 1 /\ s - 1 = n
    BY <1>0 DEF Slots
  <2> QED
    BY <1>1, <2>1
<1> QED
  BY <1>4, <1>5, <1>6

(* The first deleted slot of the bytes is the first tombstone of the sequence. *)
LEMMA SeenTombstone ==
    ASSUME PageInv
    PROVE  /\ Page!HasTombstone(AsTuplePage) <=> Deleted # {}
           /\ Deleted # {} => /\ Page!FirstTombstone(AsTuplePage) = FirstDeleted + 1
                              /\ FirstDeleted + 1 \in 1 .. slot_count
<1>0. slot_count \in Nat /\ Deleted \subseteq Slots /\ Slots \subseteq Nat
  BY DEF PageInv, TypeOK, Deleted, Slots
<1>1. Page!Tombstones(AsTuplePage) = {n + 1 : n \in Deleted}
  <2>1. DOMAIN AsTuplePage.slots = 1 .. slot_count
    BY SeenSlots, LenProperties
  <2>2. ASSUME NEW s \in 1 .. slot_count
        PROVE  AsTuplePage.slots[s] = Tombstone <=> s \in {n + 1 : n \in Deleted}
    <3>1. s \in {n + 1 : n \in Deleted} <=> s - 1 \in Deleted
      <4>1. \A n \in Deleted : s = n + 1 => s - 1 = n
        BY <1>0
      <4>2. s = (s - 1) + 1
        BY <1>0
      <4> QED
        BY <4>1, <4>2
    <3> QED
      BY <3>1, SeenSlots
  <2>3. \A n \in Deleted : n + 1 \in 1 .. slot_count
    BY <1>0, SeenSlots
  <2> QED
    BY <2>1, <2>2, <2>3 DEF Page!Tombstones
<1>2. ASSUME Deleted # {} PROVE Page!FirstTombstone(AsTuplePage) = FirstDeleted + 1
  <2> DEFINE T == Page!Tombstones(AsTuplePage)
  <2>1. FirstDeleted \in Deleted /\ \A m \in Deleted : FirstDeleted <= m
    BY <1>2, FirstDeletedLeast
  <2>2. FirstDeleted + 1 \in T /\ \A k \in T : FirstDeleted + 1 <= k
    BY <1>0, <1>1, <2>1
  <2>3. T \subseteq Int
    BY <1>0, <1>1
  <2>4. Page!FirstTombstone(AsTuplePage) = CHOOSE s \in T : \A k \in T : s <= k
    BY DEF Page!FirstTombstone
  <2> HIDE DEF T
  <2>5. \A s \in T : (\A k \in T : s <= k) => s = FirstDeleted + 1
    <3>1. PICK f \in T : f = FirstDeleted + 1 /\ \A k \in T : f <= k
      BY <2>2
    <3> QED
      BY <2>3, <3>1
  <2> QED
    BY <2>2, <2>4, <2>5
<1>3. Deleted # {} => FirstDeleted + 1 \in 1 .. slot_count
  BY <1>0, FirstDeletedLeast, SeenSlots
<1> QED
  BY <1>1, <1>2, <1>3 DEF Page!HasTombstone

(***************************************************************************)
(* The slots and the room after each operation, as the heap sees them.     *)
(***************************************************************************)
LEMMA SeenAfterWrite ==
    ASSUME PageInv, NEW t \in Tuples, NEW n \in Slots \cup {slot_count}, Written(n, t)
    PROVE  AsTuplePage'.slots = [s \in 1 .. slot_count' |->
                                   IF s = n + 1 THEN t ELSE AsTuplePage.slots[s]]
<1>0. slot_count \in Nat /\ n \in Nat
  BY DEF PageInv, TypeOK, Slots
<1>1. /\ LiveSlots' = LiveSlots \cup {n} /\ Tuple(n)' = t
      /\ \A m \in LiveSlots : Tuple(m)' = Tuple(m)
  BY WrittenKeeps
<1>2. slot_count' = IF n = slot_count THEN slot_count + 1 ELSE slot_count
  BY DEF Written
<1>3. AsTuplePage'.slots = [s \in 1 .. slot_count' |->
                              IF s - 1 \in LiveSlots' THEN Tuple(s - 1)' ELSE Tombstone]
  BY DEF AsTuplePage
<1>4. ASSUME NEW s \in 1 .. slot_count'
      PROVE  (IF s - 1 \in LiveSlots' THEN Tuple(s - 1)' ELSE Tombstone)
               = IF s = n + 1 THEN t ELSE AsTuplePage.slots[s]
  <2>1. CASE s = n + 1
    <3>1. s - 1 = n
      BY <1>0, <2>1
    <3> QED
      BY <1>1, <2>1, <3>1
  <2>2. CASE s # n + 1
    <3>1. s \in 1 .. slot_count /\ s - 1 \in Slots /\ s - 1 # n
      BY <1>0, <1>2, <2>2 DEF Slots
    <3>2. AsTuplePage.slots[s] = IF s - 1 \in LiveSlots THEN Tuple(s - 1) ELSE Tombstone
      BY <3>1 DEF AsTuplePage
    <3> QED
      BY <1>1, <2>2, <3>1, <3>2
  <2> QED
    BY <2>1, <2>2
<1> QED
  BY <1>3, <1>4

(* The page is a record of its slots and its room, and so is any change of it. *)
LEMMA SeenRecord ==
    /\ AsTuplePage = [slots |-> AsTuplePage.slots, room |-> free_space]
    /\ AsTuplePage' = [slots |-> AsTuplePage'.slots, room |-> free_space']
BY DEF AsTuplePage

(* insert_tuple into a deleted slot is Inserted. *)
LEMMA SeenReusing ==
    ASSUME PageInv, NEW t \in Tuples, InsertReusing(t)
    PROVE  /\ Page!CanInsert(AsTuplePage, Len(t))
           /\ AsTuplePage' = Page!Inserted(AsTuplePage, t, Len(t))
<1> DEFINE A == AsTuplePage.slots
           first == FirstDeleted + 1
<1>0. /\ Len(t) \in Nat /\ slot_count \in Nat /\ free_end \in Int /\ free_start \in Int
      /\ free_space \in Nat /\ free_space = free_end - free_start
      /\ A \in Seq(Tuples \cup {Tombstone}) /\ Len(A) = slot_count
  BY PageAssumption, LenProperties, FreeSpace, SeenSlots DEF PageInv, TypeOK
<1>1. /\ Page!HasTombstone(AsTuplePage)
      /\ Page!FirstTombstone(AsTuplePage) = first /\ first \in 1 .. slot_count
  BY SeenTombstone DEF InsertReusing
<1>2. Written(FirstDeleted, t) /\ FirstDeleted \in Slots /\ PageInv'
  BY ReusingWrites, WrittenKeeps
<1>3. free_space' = free_space - Len(t)
  <2>1. (free_space = free_end - free_start)'
    BY <1>2, FreeSpace, PTL
  <2> QED
    BY <1>0, <2>1 DEF InsertReusing
<1>4. AsTuplePage'.slots = [A EXCEPT ![first] = t]
  <2>1. AsTuplePage'.slots = [s \in 1 .. slot_count' |-> IF s = first THEN t ELSE A[s]]
    BY <1>2, SeenAfterWrite
  <2>2. slot_count' = slot_count /\ DOMAIN A = 1 .. slot_count
    BY <1>0, LenProperties DEF InsertReusing
  <2> QED
    BY <1>0, <1>1, <2>1, <2>2
<1>5. AsTuplePage' = [slots |-> [A EXCEPT ![first] = t], room |-> free_space - Len(t)]
  BY <1>3, <1>4, SeenRecord
<1>6. Page!SlotBytes(AsTuplePage) = 0
  BY <1>1 DEF Page!SlotBytes
<1>7. Page!CanInsert(AsTuplePage, Len(t))
  BY <1>0, <1>6, SeenRecord DEF Page!CanInsert, InsertReusing
<1>8. Page!Inserted(AsTuplePage, t, Len(t))
        = [AsTuplePage EXCEPT !.slots = [A EXCEPT ![first] = t],
                              !.room = free_space - Len(t)]
  <2>1. Page!Inserted(AsTuplePage, t, Len(t))
          = [AsTuplePage EXCEPT
               !.slots = [A EXCEPT ![first] = t],
               !.room = AsTuplePage.room - Len(t) - Page!SlotBytes(AsTuplePage)]
    BY <1>1 DEF Page!Inserted
  <2>2. AsTuplePage.room - Len(t) - Page!SlotBytes(AsTuplePage) = free_space - Len(t)
    BY <1>0, <1>6 DEF AsTuplePage
  <2> QED
    BY <2>1, <2>2
<1> HIDE DEF A, first
<1> QED
  BY <1>5, <1>7, <1>8, SeenRecord

(* So is insert_tuple behind the last slot. *)
LEMMA SeenAppending ==
    ASSUME PageInv, NEW t \in Tuples, InsertAppending(t)
    PROVE  /\ Page!CanInsert(AsTuplePage, Len(t))
           /\ AsTuplePage' = Page!Inserted(AsTuplePage, t, Len(t))
<1> DEFINE A == AsTuplePage.slots
<1>0. /\ Len(t) \in Nat /\ slot_count \in Nat /\ free_end \in Int /\ HeaderSize \in Nat
      /\ free_start = slot_offset(slot_count)
      /\ free_space \in Nat /\ free_space = free_end - free_start
      /\ A \in Seq(Tuples \cup {Tombstone}) /\ Len(A) = slot_count
  BY PageAssumption, LenProperties, FreeSpace, SeenSlots DEF PageInv, TypeOK, LayoutSound
<1>1. ~ Page!HasTombstone(AsTuplePage)
  BY SeenTombstone DEF InsertAppending
<1>2. Written(slot_count, t) /\ PageInv'
  BY AppendingWrites, WrittenKeeps
<1>3. free_space' = free_space - Len(t) - SlotSize
  <2>1. (free_space = free_end - free_start)'
    BY <1>2, FreeSpace, PTL
  <2> QED
    BY <1>0, <2>1 DEF InsertAppending, slot_offset, SlotSize
<1>4. AsTuplePage'.slots = Append(A, t)
  <2>1. AsTuplePage'.slots = [s \in 1 .. slot_count' |->
                                IF s = slot_count + 1 THEN t ELSE A[s]]
    BY <1>2, SeenAfterWrite
  <2>2. slot_count' = slot_count + 1
    BY DEF InsertAppending
  <2>3. /\ Append(A, t) \in Seq(Tuples \cup {Tombstone})
        /\ Len(Append(A, t)) = slot_count + 1
        /\ \A s \in 1 .. slot_count : Append(A, t)[s] = A[s]
        /\ Append(A, t)[slot_count + 1] = t
    BY <1>0, AppendProperties
  <2>4. DOMAIN Append(A, t) = 1 .. slot_count + 1
    BY <2>3, LenProperties
  <2>5. Append(A, t) = [s \in 1 .. slot_count + 1 |-> Append(A, t)[s]]
    BY <2>3, <2>4
  <2>6. \A s \in 1 .. slot_count + 1 :
          Append(A, t)[s] = IF s = slot_count + 1 THEN t ELSE A[s]
    BY <1>0, <2>3
  <2> QED
    BY <2>1, <2>2, <2>5, <2>6
<1>5. AsTuplePage' = [slots |-> Append(A, t), room |-> free_space - Len(t) - SlotSize]
  BY <1>3, <1>4, SeenRecord
<1>6. Page!SlotBytes(AsTuplePage) = SlotSize
  BY <1>1 DEF Page!SlotBytes
<1>7. Page!CanInsert(AsTuplePage, Len(t))
  BY <1>0, <1>6, SeenRecord DEF Page!CanInsert, InsertAppending, SlotSize
<1>8. Page!Inserted(AsTuplePage, t, Len(t))
        = [AsTuplePage EXCEPT !.slots = Append(A, t),
                              !.room = free_space - Len(t) - SlotSize]
  <2>1. Page!Inserted(AsTuplePage, t, Len(t))
          = [AsTuplePage EXCEPT
               !.slots = Append(A, t),
               !.room = AsTuplePage.room - Len(t) - Page!SlotBytes(AsTuplePage)]
    BY <1>1 DEF Page!Inserted
  <2>2. AsTuplePage.room = free_space
    BY DEF AsTuplePage
  <2> QED
    BY <1>6, <2>1, <2>2
<1> HIDE DEF A
<1> QED
  BY <1>5, <1>7, <1>8, SeenRecord

(* delete_tuple is Deleted. *)
LEMMA SeenDeleting ==
    ASSUME PageInv, NEW n \in Slots, DeleteTuple(n)
    PROVE  /\ n + 1 \in Page!LiveSlots(AsTuplePage)
           /\ AsTuplePage' = Page!Deleted(AsTuplePage, n + 1)
<1> DEFINE A == AsTuplePage.slots
<1>0. /\ slot_count \in Nat /\ n \in Nat /\ n + 1 \in 1 .. slot_count
      /\ A \in Seq(Tuples \cup {Tombstone}) /\ Len(A) = slot_count
      /\ DOMAIN A = 1 .. slot_count
  BY SeenSlots, LenProperties DEF PageInv, TypeOK, Slots
<1>1. n + 1 \in Page!LiveSlots(AsTuplePage)
  <2>1. A[n + 1] = Tuple(n) /\ Tuple(n) # Tombstone
    BY SeenSlots, PageAssumption DEF DeleteTuple, PageInv, TuplesKept
  <2> QED
    BY <1>0, <2>1 DEF Page!LiveSlots
<1>2. /\ LiveSlots' = LiveSlots \ {n}
      /\ \A m \in LiveSlots \ {n} : Tuple(m)' = Tuple(m)
  BY DeleteKeeps
<1>3. AsTuplePage'.slots = [A EXCEPT ![n + 1] = Tombstone]
  <2>1. AsTuplePage'.slots = [s \in 1 .. slot_count |->
                                IF s - 1 \in LiveSlots' THEN Tuple(s - 1)' ELSE Tombstone]
    BY DEF AsTuplePage, DeleteTuple
  <2>2. ASSUME NEW s \in 1 .. slot_count
        PROVE  (IF s - 1 \in LiveSlots' THEN Tuple(s - 1)' ELSE Tombstone)
                 = IF s = n + 1 THEN Tombstone ELSE A[s]
    <3>1. s - 1 = n <=> s = n + 1
      BY <1>0
    <3>2. A[s] = IF s - 1 \in LiveSlots THEN Tuple(s - 1) ELSE Tombstone
      BY DEF AsTuplePage
    <3> QED
      BY <1>2, <3>1, <3>2
  <2> QED
    BY <1>0, <2>1, <2>2
<1>4. free_space' = free_space
  BY DEF free_space, DeleteTuple
<1>5. AsTuplePage' = [slots |-> [A EXCEPT ![n + 1] = Tombstone], room |-> free_space]
  BY <1>3, <1>4, SeenRecord
<1>6. Page!Deleted(AsTuplePage, n + 1) = [AsTuplePage EXCEPT !.slots = [A EXCEPT ![n + 1] = Tombstone]]
  BY DEF Page!Deleted
<1> HIDE DEF A
<1> QED
  BY <1>1, <1>5, <1>6, SeenRecord

(* compact is not seen. *)
LEMMA SeenCompacting ==
    ASSUME PageInv, Compact PROVE AsTuplePage'.slots = AsTuplePage.slots
<1>1. LiveSlots' = LiveSlots /\ \A n \in LiveSlots : Tuple(n)' = Tuple(n)
  BY CompactKeeps
<1> QED
  BY <1>1 DEF AsTuplePage, Compact

(***************************************************************************)
(* For every page size and header and all tuples, the page on its bytes is *)
(* the page of the table heap: an insertion goes where there is room by    *)
(* its rule, into the first deleted slot or a new one, nothing else        *)
(* changes, and compact changes nothing but the room.                      *)
(***************************************************************************)
THEOREM PageImplementsTuplePage == Spec => ImplementsTuplePage
<1> DEFINE Seen ==
      \/ \E t \in Tuples : /\ Page!CanInsert(AsTuplePage, Len(t))
                           /\ AsTuplePage' = Page!Inserted(AsTuplePage, t, Len(t))
      \/ \E s \in Page!LiveSlots(AsTuplePage) : AsTuplePage' = Page!Deleted(AsTuplePage, s)
      \/ Compact /\ AsTuplePage'.slots = AsTuplePage.slots
<1>1. ASSUME PageInv, [Next]_vars PROVE [Seen]_vars
  <2>1. ASSUME NEW t \in Tuples, InsertReusing(t) PROVE Seen
    BY <1>1, <2>1, SeenReusing
  <2>2. ASSUME NEW t \in Tuples, InsertAppending(t) PROVE Seen
    BY <1>1, <2>2, SeenAppending
  <2>3. ASSUME NEW n \in Slots, DeleteTuple(n) PROVE Seen
    BY <1>1, <2>3, SeenDeleting
  <2>4. ASSUME Compact PROVE Seen
    BY <1>1, <2>4, SeenCompacting
  <2> HIDE DEF Seen
  <2> QED
    BY <1>1, <2>1, <2>2, <2>3, <2>4 DEF Next
<1>2. PageInv /\ [Next]_vars => [Seen]_vars
  BY <1>1
<1> QED
  BY <1>2, PageStart, PageStep, PTL DEF Spec, ImplementsTuplePage

=============================================================================
