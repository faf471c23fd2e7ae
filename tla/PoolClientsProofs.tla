------------------------- MODULE PoolClientsProofs -------------------------
(***************************************************************************)
(* The pool, and the pool with its callers, for every size of the pool and *)
(* the disk. First the pool alone: its bookkeeping is right under any      *)
(* sequence of calls, fetches of pages nobody has allocated included       *)
(* (SpecAny). Then any number of handles, in any order of their steps, on  *)
(* pages in use: handles stay valid, no modification is lost, and the pool *)
(* implements PageStore. The latter three need that condition; row ids of  *)
(* freed pages, and the inspector, do not meet it (see ClientNext).        *)
(***************************************************************************)
EXTENDS PoolClients, SequenceLemmas, FunctionTheorems

-----------------------------------------------------------------------------

(* The pool alone. *)

(* What is proved of the disk holds of the pool's disk; its queue is its own history. *)
Parts == INSTANCE PoolPartsProofs WITH
    free_list <- disk_free_list, tracked <- ToSet(order), older <- Lru!Recency

(***************************************************************************)
(* The inductive invariant.  The part about the frames and the lists and   *)
(* the part about the disk do not depend on each other.                    *)
(***************************************************************************)
PoolShape ==
    /\ frames \in [Frames -> FrameType]
    /\ page_table \in [Pages -> Frames \cup {None}]
    /\ free_list \in Seq(Frames)
    /\ order \in Seq(Frames)
    /\ evictable \in SUBSET Frames
    /\ PageTableSound
    /\ FramesPartitioned
    /\ EvictableExact
    /\ EmptyFramesIdle

PoolInv == PoolShape /\ Parts!DiskInv

(* The values of the constants, as the instances of the disk need them. *)
LEMMA Constants ==
    /\ MaxPages \in Nat \ {0} /\ PoolSize \in Nat \ {0} /\ MaxPins \in Nat \ {0}
    /\ Zero \in Contents /\ Fresh \in Contents
    /\ None \notin Pages /\ None \notin Frames
    /\ Disk!Pages = Pages /\ Parts!Pages = Pages
BY PoolAssumption DEF Pages, Disk!Pages, Parts!Pages

(***************************************************************************)
(* The operators of the instances are the pool's own: an instance renames  *)
(* what its module extends, so the lemmas must be told.                    *)
(***************************************************************************)
LEMMA LruOperators ==
    /\ \A s, f : Lru!Touched(s, f) = Append(RemoveFirst(s, f), f)
    /\ \A f : Lru!RemoveFrame(f) <=>
            order' = RemoveFirst(order, f) /\ evictable' = evictable \ {f}
    /\ Lru!HasVictim <=> ToSet(order) \cap evictable # {}
    /\ Lru!Victim = order[Lru!VictimPosition]
    /\ (\E i \in 1 .. Len(order) : order[i] \in evictable) =>
            Lru!VictimPosition = Min({i \in 1 .. Len(order) : order[i] \in evictable})
BY DEF Lru!Touched, Lru!RemoveFrame, Lru!HasVictim, Lru!Victim, Lru!VictimPosition,
       Lru!ToSet, ToSet, Lru!RemoveFirst, RemoveFirst, Lru!RemoveAt, RemoveAt,
       Lru!SelectInSeq, SelectInSeq, Lru!Min, Min

(* The disk of the pool and the disk of the proofs are the same. *)
LEMMA DiskOperators ==
    /\ \A p : Disk!Reserve(p) <=> Parts!Reserve(p)
    /\ \A p : Disk!Release(p) <=> Parts!Release(p)
    /\ Disk!Init <=> Parts!Init
    /\ Disk!TypeOK <=> Parts!TypeOK
BY DEF Disk!Reserve, Parts!Reserve, Disk!Grants, Parts!Grants,
       Disk!Release, Parts!Release, Disk!Init, Parts!Init,
       Disk!TypeOK, Parts!TypeOK, Disk!Pages, Parts!Pages,
       Disk!Last, Parts!Last, Disk!Front, Parts!Front

(* The initial free list holds each frame once. *)
LEMMA FullFreeList ==
    LET s == [i \in 1 .. PoolSize |-> PoolSize - i]
    IN  s \in Seq(Frames) /\ IsInjective(s) /\ ToSet(s) = Frames
<1> DEFINE s == [i \in 1 .. PoolSize |-> PoolSize - i]
<1>0. PoolSize \in Nat
  BY PoolAssumption
<1>1. s \in [1 .. PoolSize -> Frames]
  BY <1>0 DEF Frames
<1>2. s \in Seq(Frames)
  BY <1>0, <1>1, SeqDef
<1>3. IsInjective(s)
  BY <1>0 DEF IsInjective
<1>4. ASSUME NEW f \in Frames PROVE f \in ToSet(s)
  <2>1. PoolSize - f \in 1 .. PoolSize /\ s[PoolSize - f] = f
    BY <1>0 DEF Frames
  <2> QED
    BY <2>1 DEF ToSet
<1>5. ToSet(s) \subseteq Frames
  BY <1>1 DEF ToSet
<1> QED
  BY <1>2, <1>3, <1>4, <1>5

(***************************************************************************)
(* get_free_frame returns a frame nobody has pinned, and takes it off the  *)
(* free list if it was there.                                              *)
(***************************************************************************)
LEMMA FreeFrameProperties ==
    ASSUME PoolShape, HasFreeFrame
    PROVE  /\ FreeFrame \in Frames
           /\ frames[FreeFrame].pin_count = 0
           /\ LET rest == IF free_list # << >> THEN Front(free_list) ELSE free_list
              IN  /\ rest \in Seq(Frames)
                  /\ IsInjective(rest)
                  /\ ToSet(rest) = EmptyFrames \ {FreeFrame}
<1> USE DEF PoolShape
<1>1. CASE free_list # << >>
  <2>1. FreeFrame = Last(free_list)
    BY <1>1 DEF FreeFrame
  <2>2. /\ FreeFrame \in ToSet(free_list)
        /\ Front(free_list) \in Seq(Frames)
        /\ IsInjective(Front(free_list))
        /\ ToSet(Front(free_list)) = ToSet(free_list) \ {FreeFrame}
    BY <1>1, <2>1, FrontProperties DEF FramesPartitioned
  <2>3. FreeFrame \in EmptyFrames
    BY <2>2 DEF FramesPartitioned
  <2> QED
    BY <1>1, <2>2, <2>3 DEF FramesPartitioned, EmptyFramesIdle, EmptyFrames
<1>2. CASE free_list = << >>
  <2>1. Lru!HasVictim /\ FreeFrame = Lru!Victim
    BY <1>2 DEF HasFreeFrame, FreeFrame
  <2>2. ToSet(order) \cap evictable # {}
    BY <2>1, LruOperators
  <2>3. \E i \in 1 .. Len(order) : order[i] \in evictable
    BY <2>2, LenProperties DEF ToSet
  <2>4. FreeFrame \in evictable /\ FreeFrame \in Frames
    BY <2>1, <2>2, <2>3, LruOperators, FirstPosition, ElementOfSeq
  <2>5. ToSet(free_list) = {}
    BY <1>2 DEF ToSet
  <2> QED
    BY <1>2, <2>4, <2>5 DEF FramesPartitioned, EvictableExact
<1> QED
  BY <1>1, <1>2

(* A frame that is asked for and refused: every frame is pinned. *)
LEMMA RefusedWhenPinned == PoolShape => FailsOnlyWhenPinned
<1> SUFFICES ASSUME PoolShape, ~HasFreeFrame, NEW f \in Frames
             PROVE  frames[f].pin_count > 0
  BY DEF FailsOnlyWhenPinned
<1>1. free_list = << >> /\ ToSet(order) \cap evictable = {}
  BY LruOperators DEF HasFreeFrame
<1>2. ToSet(free_list) = {}
  BY <1>1 DEF ToSet
<1>3. f \in Frames \ EmptyFrames /\ f \notin evictable
  BY <1>1, <1>2 DEF PoolShape, FramesPartitioned
<1>4. frames[f].pin_count \in Nat /\ frames[f].pin_count # 0
  BY <1>3, Constants DEF PoolShape, EvictableExact, FrameType
<1> QED
  BY <1>4

(* The disk after a write-back still holds page contents. *)
LEMMA WrittenBackType ==
    ASSUME PoolShape, NEW f \in Frames, NEW disk \in [Pages -> Contents]
    PROVE  WrittenBack(f, disk) \in [Pages -> Contents]
BY DEF WrittenBack, PoolShape, FrameType

(* Loading a page into the frame that get_free_frame returned. *)
LEMMA InstallKeeps ==
    ASSUME PoolShape, HasFreeFrame, NEW loaded \in FrameType, loaded.page_id # None,
           Install(FreeFrame, loaded)
    PROVE  PoolShape'
<1> DEFINE f == FreeFrame
           rest == IF free_list # << >> THEN Front(free_list) ELSE free_list
           p == loaded.page_id
<1>1. /\ f \in Frames
      /\ rest \in Seq(Frames) /\ IsInjective(rest) /\ ToSet(rest) = EmptyFrames \ {f}
  BY FreeFrameProperties
<1>2. /\ frames' = [frames EXCEPT ![f] = loaded]
      /\ page_table' = [q \in Pages |->
            CASE q = p -> f
              [] q # p /\ q = frames[f].page_id -> None
              [] OTHER -> page_table[q]]
      /\ free_list' = rest
      /\ order' = Append(RemoveFirst(order, f), f)
      /\ evictable' = IF loaded.pin_count = 0 THEN evictable \cup {f} ELSE evictable \ {f}
  BY LruOperators DEF Install
<1>3. p \in Pages
  BY DEF FrameType
<1> HIDE DEF f, rest, p
<1> USE DEF PoolShape
<1>4. frames' \in [Frames -> FrameType] /\ frames'[f] = loaded
  BY <1>1, <1>2
<1>5. \A g \in Frames \ {f} : frames'[g] = frames[g]
  BY <1>2
<1>6. EmptyFrames' = EmptyFrames \ {f}
  BY <1>3, <1>4, <1>5 DEF EmptyFrames, p
<1>7. page_table' \in [Pages -> Frames \cup {None}]
  BY <1>1, <1>2
<1>8. PageTableSound'
  <2> SUFFICES ASSUME NEW q \in Pages, page_table'[q] # None
               PROVE  frames'[page_table'[q]].page_id = q
    BY DEF PageTableSound, Cached
  <2>1. CASE q = p
    BY <1>2, <1>4, <2>1 DEF p
  <2>2. CASE q # p
    <3>1. page_table'[q] = page_table[q] /\ q # frames[f].page_id
      BY <1>2, <2>2
    <3>2. page_table[q] \in Frames /\ frames[page_table[q]].page_id = q
      BY <3>1 DEF PageTableSound, Cached
    <3> QED
      BY <1>5, <3>1, <3>2
  <2> QED
    BY <2>1, <2>2
<1>9. /\ order' \in Seq(Frames)
      /\ IsInjective(order')
      /\ ToSet(order') = ToSet(order) \cup {f}
  <2>1. /\ RemoveFirst(order, f) \in Seq(Frames)
        /\ IsInjective(RemoveFirst(order, f))
        /\ ToSet(RemoveFirst(order, f)) = ToSet(order) \ {f}
    BY RemoveFirstProperties DEF FramesPartitioned
  <2> QED
    BY <1>1, <1>2, <2>1, AppendFresh
<1>10. FramesPartitioned'
  BY <1>1, <1>2, <1>6, <1>9 DEF FramesPartitioned
<1>11. evictable' \in SUBSET Frames
  BY <1>1, <1>2
<1>12. EvictableExact'
  BY <1>1, <1>2, <1>4, <1>5, <1>6, <1>11 DEF EvictableExact
<1>13. EmptyFramesIdle'
  <2> SUFFICES ASSUME NEW g \in EmptyFrames'
               PROVE  ~frames'[g].is_dirty /\ frames'[g].pin_count = 0
    BY DEF EmptyFramesIdle
  <2>1. g \in EmptyFrames /\ frames'[g] = frames[g]
    BY <1>5, <1>6 DEF EmptyFrames
  <2> QED
    BY <2>1, Zenon DEF EmptyFramesIdle
<1> QED
  BY <1>1, <1>2, <1>4, <1>7, <1>8, <1>9, <1>10, <1>11, <1>12, <1>13

(***************************************************************************)
(* An action that keeps the lists and the page table, and in which the     *)
(* frames keep their pages, their pins and, if empty, their idleness.      *)
(***************************************************************************)
LEMMA SameOccupancy ==
    ASSUME PoolShape, frames' \in [Frames -> FrameType],
           \A f \in Frames : /\ frames'[f].page_id = frames[f].page_id
                             /\ frames'[f].pin_count = frames[f].pin_count
                             /\ frames'[f].is_dirty => frames[f].is_dirty,
           UNCHANGED <<page_table, free_list, order, evictable>>
    PROVE  PoolShape'
<1>1. EmptyFrames' = EmptyFrames
  BY DEF EmptyFrames
<1>2. \A p \in Pages : page_table[p] # None => page_table[p] \in Frames
  BY DEF PoolShape
<1>3. PageTableSound'
  BY <1>2 DEF PoolShape, PageTableSound, Cached
<1>4. FramesPartitioned'
  BY <1>1 DEF PoolShape, FramesPartitioned
<1>5. EvictableExact'
  BY <1>1 DEF PoolShape, EvictableExact
<1>6. EmptyFramesIdle'
  BY <1>1 DEF PoolShape, EmptyFramesIdle, EmptyFrames
<1> QED
  BY <1>3, <1>4, <1>5, <1>6 DEF PoolShape

(* A cached page is in a loaded frame, and the pool knows which. *)
LEMMA CachedFrame ==
    ASSUME PoolShape, NEW p \in Pages, Cached(p)
    PROVE  /\ page_table[p] \in Frames \ EmptyFrames
           /\ frames[page_table[p]].page_id = p
           /\ frames[page_table[p]] \in FrameType
           /\ page_table[p] \in ToSet(order)
BY Constants DEF PoolShape, PageTableSound, Cached, FramesPartitioned, EmptyFrames

(* Changing the pins of a frame changes nothing else of it. *)
LEMMA PinChange ==
    ASSUME NEW r \in FrameType, NEW n \in 0 .. MaxPins
    PROVE  /\ [r EXCEPT !.pin_count = n] \in FrameType
           /\ [r EXCEPT !.pin_count = n].pin_count = n
           /\ [r EXCEPT !.pin_count = n].page_id = r.page_id
BY DEF FrameType

(* A cache hit pins the frame and moves it to the back of the queue. *)
LEMMA FetchHitKeeps ==
    ASSUME PoolShape, NEW p \in Pages, FetchHit(p)
    PROVE  PoolShape'
<1> DEFINE f == page_table[p]
<1>1. f \in Frames \ EmptyFrames /\ frames[f] \in FrameType /\ f \in ToSet(order)
  BY CachedFrame DEF FetchHit
<1>2. /\ frames[f].pin_count < MaxPins
      /\ frames' = [frames EXCEPT ![f].pin_count = @ + 1]
      /\ order' = Append(RemoveFirst(order, f), f)
      /\ evictable' = evictable \ {f}
      /\ page_table' = page_table /\ free_list' = free_list
  BY LruOperators DEF FetchHit
<1> HIDE DEF f
<1> USE DEF PoolShape
<1>3. frames[f].pin_count + 1 \in 1 .. MaxPins
  BY <1>1, <1>2, Constants DEF FrameType
<1>4. /\ frames' \in [Frames -> FrameType]
      /\ frames'[f].pin_count = frames[f].pin_count + 1
      /\ \A g \in Frames \ {f} : frames'[g] = frames[g]
      /\ \A g \in Frames : frames'[g].page_id = frames[g].page_id
  <2> DEFINE r == [frames[f] EXCEPT !.pin_count = frames[f].pin_count + 1]
  <2>1. /\ r \in FrameType
        /\ r.pin_count = frames[f].pin_count + 1
        /\ r.page_id = frames[f].page_id
    <3>1. frames[f].pin_count + 1 \in 0 .. MaxPins
      BY <1>3, Constants
    <3> QED
      BY <1>1, <3>1, PinChange
  <2>2. frames' = [frames EXCEPT ![f] = r]
    BY <1>1, <1>2
  <2> HIDE DEF r
  <2>3. frames' \in [Frames -> FrameType] /\ frames'[f] = r
    BY <1>1, <2>1, <2>2
  <2>4. \A g \in Frames \ {f} : frames'[g] = frames[g]
    BY <2>2
  <2> QED
    BY <2>1, <2>3, <2>4
<1>5. EmptyFrames' = EmptyFrames
  BY <1>4 DEF EmptyFrames
<1>6. PageTableSound'
  BY <1>2, <1>4 DEF PageTableSound, Cached
<1>7. /\ order' \in Seq(Frames)
      /\ IsInjective(order')
      /\ ToSet(order') = ToSet(order)
  <2>1. /\ RemoveFirst(order, f) \in Seq(Frames)
        /\ IsInjective(RemoveFirst(order, f))
        /\ ToSet(RemoveFirst(order, f)) = ToSet(order) \ {f}
    BY RemoveFirstProperties DEF FramesPartitioned
  <2>2. /\ order' \in Seq(Frames)
        /\ IsInjective(order')
        /\ ToSet(order') = (ToSet(order) \ {f}) \cup {f}
    BY <1>1, <1>2, <2>1, AppendFresh
  <2> QED
    BY <1>1, <2>2
<1>8. FramesPartitioned'
  BY <1>2, <1>5, <1>7 DEF FramesPartitioned
<1>9. EvictableExact'
  BY <1>1, <1>2, <1>3, <1>4, <1>5 DEF EvictableExact
<1>10. EmptyFramesIdle'
  <2> SUFFICES ASSUME NEW g \in EmptyFrames'
               PROVE  ~frames'[g].is_dirty /\ frames'[g].pin_count = 0
    BY DEF EmptyFramesIdle
  <2>1. g \in EmptyFrames /\ frames'[g] = frames[g]
    BY <1>1, <1>4, <1>5 DEF EmptyFrames
  <2> QED
    BY <2>1, Zenon DEF EmptyFramesIdle
<1> QED
  BY <1>2, <1>4, <1>6, <1>7, <1>8, <1>9, <1>10

(* Unpinning the last pin makes the frame evictable, and only that. *)
LEMMA UnpinKeeps ==
    ASSUME PoolShape, NEW p \in Pages, NEW d \in BOOLEAN, UnpinPage(p, d)
    PROVE  PoolShape'
<1> DEFINE f == page_table[p]
<1>1. f \in Frames \ EmptyFrames /\ frames[f] \in FrameType
  BY CachedFrame DEF UnpinPage
<1>2. /\ frames[f].pin_count > 0
      /\ frames' = [frames EXCEPT ![f].pin_count = @ - 1, ![f].is_dirty = @ \/ d]
      /\ evictable' = IF frames[f].pin_count = 1 THEN evictable \cup {f} ELSE evictable
      /\ page_table' = page_table /\ free_list' = free_list /\ order' = order
  BY DEF UnpinPage
<1> HIDE DEF f
<1> USE DEF PoolShape
<1>3. /\ frames[f].pin_count \in 1 .. MaxPins
      /\ frames[f].pin_count - 1 \in 0 .. MaxPins
      /\ frames[f].is_dirty \in BOOLEAN
  BY <1>1, <1>2, Constants DEF FrameType
<1>4. (frames[f].is_dirty \/ d) \in BOOLEAN
  BY <1>3
<1>5. /\ frames' \in [Frames -> FrameType]
      /\ frames'[f].pin_count = frames[f].pin_count - 1
      /\ \A g \in Frames \ {f} : frames'[g] = frames[g]
      /\ \A g \in Frames : frames'[g].page_id = frames[g].page_id
  BY <1>1, <1>2, <1>3, <1>4 DEF FrameType
<1>6. EmptyFrames' = EmptyFrames
  BY <1>5 DEF EmptyFrames
<1>7. PageTableSound'
  BY <1>2, <1>5 DEF PageTableSound, Cached
<1>8. FramesPartitioned'
  BY <1>2, <1>6 DEF FramesPartitioned
<1>9. EvictableExact'
  BY <1>1, <1>2, <1>3, <1>5, <1>6 DEF EvictableExact
<1>10. EmptyFramesIdle'
  <2> SUFFICES ASSUME NEW g \in EmptyFrames'
               PROVE  ~frames'[g].is_dirty /\ frames'[g].pin_count = 0
    BY DEF EmptyFramesIdle
  <2>1. g \in EmptyFrames /\ frames'[g] = frames[g]
    BY <1>1, <1>5, <1>6 DEF EmptyFrames
  <2> QED
    BY <2>1, Zenon DEF EmptyFramesIdle
<1> QED
  BY <1>1, <1>2, <1>5, <1>7, <1>8, <1>9, <1>10

(* Deleting a cached page moves its frame from the queue to the free list. *)
LEMMA DeleteCachedKeeps ==
    ASSUME PoolShape, NEW p \in Pages, DeleteCached(p)
    PROVE  PoolShape'
<1> DEFINE f == page_table[p]
<1>1. /\ f \in Frames \ EmptyFrames /\ frames[f] \in FrameType
      /\ frames[f].page_id = p
  BY CachedFrame DEF DeleteCached
<1>2. /\ frames' = [frames EXCEPT ![f] = EmptyFrame(frames[f].data)]
      /\ page_table' = [page_table EXCEPT ![p] = None]
      /\ free_list' = Append(free_list, f)
      /\ order' = RemoveFirst(order, f)
      /\ evictable' = evictable \ {f}
  BY LruOperators DEF DeleteCached
<1> HIDE DEF f
<1> USE DEF PoolShape
<1>3. /\ frames' \in [Frames -> FrameType]
      /\ frames'[f].page_id = None /\ frames'[f].pin_count = 0 /\ ~frames'[f].is_dirty
      /\ \A g \in Frames \ {f} : frames'[g] = frames[g]
  <2> DEFINE r == EmptyFrame(frames[f].data)
  <2>1. /\ r \in FrameType
        /\ r.page_id = None /\ r.pin_count = 0 /\ r.is_dirty = FALSE
    BY <1>1, Constants DEF FrameType, EmptyFrame
  <2> HIDE DEF r
  <2>2. frames' = [frames EXCEPT ![f] = r]
    BY <1>2 DEF r
  <2>3. frames' \in [Frames -> FrameType] /\ frames'[f] = r
    BY <1>1, <2>1, <2>2
  <2>4. \A g \in Frames \ {f} : frames'[g] = frames[g]
    BY <2>2
  <2> QED
    BY <2>1, <2>3, <2>4
<1>4. EmptyFrames' = EmptyFrames \cup {f}
  BY <1>1, <1>3 DEF EmptyFrames
<1>5. PageTableSound'
  <2> SUFFICES ASSUME NEW q \in Pages, page_table'[q] # None
               PROVE  frames'[page_table'[q]].page_id = q
    BY DEF PageTableSound, Cached
  <2>1. q # p /\ page_table'[q] = page_table[q]
    BY <1>2
  <2>2. page_table[q] \in Frames /\ frames[page_table[q]].page_id = q
    BY <2>1 DEF PageTableSound, Cached
  <2> QED
    BY <1>1, <1>3, <2>1, <2>2
<1>6. f \notin ToSet(free_list) /\ IsInjective(free_list) /\ IsInjective(order)
  BY <1>1 DEF FramesPartitioned
<1>7. /\ free_list' \in Seq(Frames)
      /\ IsInjective(free_list')
      /\ ToSet(free_list') = ToSet(free_list) \cup {f}
  BY <1>1, <1>2, <1>6, AppendFresh
<1>8. /\ order' \in Seq(Frames)
      /\ IsInjective(order')
      /\ ToSet(order') = ToSet(order) \ {f}
  BY <1>2, <1>6, RemoveFirstProperties
<1>9. FramesPartitioned'
  BY <1>4, <1>7, <1>8 DEF FramesPartitioned
<1>10. EvictableExact'
  BY <1>1, <1>2, <1>3, <1>4 DEF EvictableExact
<1>11. EmptyFramesIdle'
  <2> SUFFICES ASSUME NEW g \in EmptyFrames'
               PROVE  ~frames'[g].is_dirty /\ frames'[g].pin_count = 0
    BY DEF EmptyFramesIdle
  <2>1. CASE g = f
    BY <1>3, <2>1, Zenon
  <2>2. CASE g # f
    <3>1. g \in EmptyFrames /\ frames'[g] = frames[g]
      BY <1>3, <1>4, <2>2 DEF EmptyFrames
    <3> QED
      BY <3>1, Zenon DEF EmptyFramesIdle
  <2> QED
    BY <2>1, <2>2
<1> QED
  BY <1>1, <1>2, <1>3, <1>5, <1>7, <1>8, <1>9, <1>10, <1>11

(* No action touches the disk's bookkeeping except through the disk manager. *)
LEMMA DiskKeeps ==
    ASSUME Parts!DiskInv, storage' \in [Pages -> Contents],
           \/ \E p \in Pages : Disk!Reserve(p) \/ Disk!Release(p)
           \/ UNCHANGED <<allocated, disk_free_list, num_allocated>>
    PROVE  Parts!DiskInv'
<1>0. storage' \in [Parts!Pages -> Contents]
  BY Constants
<1>1. ASSUME NEW p \in Pages, Disk!Reserve(p) PROVE Parts!DiskInv'
  BY <1>0, <1>1, DiskOperators, Constants, Parts!ReserveKeeps
     DEF Parts!DiskAssumption
<1>2. ASSUME NEW p \in Pages, Disk!Release(p) PROVE Parts!DiskInv'
  BY <1>0, <1>2, DiskOperators, Constants, Parts!ReleaseKeeps
     DEF Parts!DiskAssumption
<1>3. ASSUME UNCHANGED <<allocated, disk_free_list, num_allocated>>
      PROVE  Parts!DiskInv'
  BY <1>0, <1>3 DEF Parts!DiskInv, Parts!TypeOK, Parts!FreeListSound,
     Parts!UsedPagesArePrefix, Parts!CountExact
<1> QED
  BY <1>1, <1>2, <1>3

(* Whatever is called on the pool, its invariant survives. *)
LEMMA PoolStep ==
    ASSUME PoolInv, [NextAny]_vars
    PROVE  PoolInv'
<1> USE DEF PoolInv
<1>0. storage \in [Pages -> Contents]
  BY Constants DEF Parts!DiskInv, Parts!TypeOK
<1>1. ASSUME NEW p \in Pages, FetchHit(p) PROVE PoolInv'
  <2>1. PoolShape'
    BY <1>1, FetchHitKeeps
  <2> QED
    BY <1>0, <1>1, <2>1, DiskKeeps DEF FetchHit, diskVars
<1>2. ASSUME NEW p \in Pages, FetchMiss(p) PROVE PoolInv'
  <2>1. FreeFrame \in Frames
    BY <1>2, FreeFrameProperties DEF FetchMiss
  <2>2. storage' \in [Pages -> Contents]
    BY <1>0, <1>2, <2>1, WrittenBackType DEF FetchMiss
  <2>3. PinnedFrame(p, FALSE, storage'[p]) \in FrameType
    BY <2>2, Constants DEF PinnedFrame, FrameType
  <2>4. PinnedFrame(p, FALSE, storage'[p]).page_id # None
    BY Constants DEF PinnedFrame
  <2>5. PoolShape'
    BY <1>2, <2>3, <2>4, InstallKeeps DEF FetchMiss
  <2> QED
    BY <1>2, <2>2, <2>5, DiskKeeps DEF FetchMiss
<1>3. ASSUME NEW p \in Pages, NewPage(p) PROVE PoolInv'
  <2>1. FreeFrame \in Frames
    BY <1>3, FreeFrameProperties DEF NewPage
  <2>2. [storage EXCEPT ![p] = Zero] \in [Pages -> Contents]
    BY <1>0, Constants
  <2>3. storage' \in [Pages -> Contents]
    BY <1>3, <2>1, <2>2, WrittenBackType DEF NewPage
  <2>4. PinnedFrame(p, TRUE, Fresh) \in FrameType
    BY Constants DEF PinnedFrame, FrameType
  <2>5. PinnedFrame(p, TRUE, Fresh).page_id # None
    BY Constants DEF PinnedFrame
  <2>6. PoolShape'
    BY <1>3, <2>4, <2>5, InstallKeeps DEF NewPage
  <2> QED
    BY <1>3, <2>3, <2>6, DiskKeeps DEF NewPage
<1>4. ASSUME NEW p \in Pages, NewPageNoFrame(p) PROVE PoolInv'
  <2>1. storage' \in [Pages -> Contents] /\ Disk!Reserve(p)
    BY <1>0, <1>4, Constants DEF NewPageNoFrame, Disk!AllocatePage
  <2>2. UNCHANGED <<frames, page_table, free_list, order, evictable>>
    BY <1>4 DEF NewPageNoFrame
  <2>3. PoolShape'
    BY <2>2, SameOccupancy DEF PoolShape
  <2> QED
    BY <2>1, <2>3, DiskKeeps
<1>5. ASSUME NEW p \in Pages, NEW d \in BOOLEAN, UnpinPage(p, d) PROVE PoolInv'
  <2>1. PoolShape'
    BY <1>5, UnpinKeeps
  <2> QED
    BY <1>0, <1>5, <2>1, DiskKeeps DEF UnpinPage, diskVars
<1>6. ASSUME NEW p \in Pages, FlushPage(p) PROVE PoolInv'
  <2>1. page_table[p] \in Frames /\ frames[page_table[p]] \in FrameType
    BY <1>6, CachedFrame DEF FlushPage
  <2>2. /\ storage' \in [Pages -> Contents]
        /\ UNCHANGED <<allocated, disk_free_list, num_allocated>>
    BY <1>0, <1>6, <2>1 DEF FlushPage, Disk!WritePage, FrameType
  <2>3. frames' = [frames EXCEPT ![page_table[p]].is_dirty = FALSE]
    BY <1>6 DEF FlushPage
  <2>4. frames' \in [Frames -> FrameType]
    BY <2>1, <2>3 DEF PoolShape, FrameType
  <2>5. \A f \in Frames : /\ frames'[f].page_id = frames[f].page_id
                          /\ frames'[f].pin_count = frames[f].pin_count
                          /\ frames'[f].is_dirty => frames[f].is_dirty
    BY <2>1, <2>3 DEF PoolShape, FrameType
  <2>6. PoolShape'
    BY <1>6, <2>4, <2>5, SameOccupancy DEF FlushPage
  <2> QED
    BY <2>2, <2>6, DiskKeeps
<1>7. ASSUME NEW p \in Pages, DeleteCached(p) PROVE PoolInv'
  <2>1. PoolShape'
    BY <1>7, DeleteCachedKeeps
  <2>2. storage' = storage /\ Disk!Release(p)
    BY <1>7 DEF DeleteCached, Disk!DeallocatePage
  <2> QED
    BY <1>0, <2>1, <2>2, DiskKeeps
<1>8. ASSUME NEW p \in Pages, DeleteUncached(p) PROVE PoolInv'
  <2>1. UNCHANGED <<frames, page_table, free_list, order, evictable>>
    BY <1>8 DEF DeleteUncached
  <2>2. storage' = storage /\ Disk!Release(p)
    BY <1>8 DEF DeleteUncached, Disk!DeallocatePage
  <2>3. PoolShape'
    BY <2>1, SameOccupancy DEF PoolShape
  <2> QED
    BY <1>0, <2>2, <2>3, DiskKeeps
<1>9. ASSUME NEW f \in Frames, NEW c \in Contents, WriteFrame(f, c) PROVE PoolInv'
  <2>1. frames' = [frames EXCEPT ![f].data = c]
    BY <1>9 DEF WriteFrame
  <2>2. frames' \in [Frames -> FrameType]
    BY <2>1 DEF PoolShape, FrameType
  <2>3. \A g \in Frames : /\ frames'[g].page_id = frames[g].page_id
                          /\ frames'[g].pin_count = frames[g].pin_count
                          /\ frames'[g].is_dirty => frames[g].is_dirty
    BY <2>1 DEF PoolShape, FrameType
  <2>4. PoolShape'
    BY <1>9, <2>2, <2>3, SameOccupancy DEF WriteFrame
  <2> QED
    BY <1>0, <1>9, <2>4, DiskKeeps DEF WriteFrame, diskVars
<1>10. ASSUME FlushAll PROVE PoolInv'
  <2>1. \A p \in Pages : Cached(p) => frames[page_table[p]] \in FrameType
    BY CachedFrame
  <2>2. /\ storage' \in [Pages -> Contents]
        /\ UNCHANGED <<allocated, disk_free_list, num_allocated>>
    BY <1>0, <1>10, <2>1 DEF FlushAll, FrameType
  <2>3. frames' = [f \in Frames |->
            IF \E p \in Pages : page_table[p] = f
            THEN [frames[f] EXCEPT !.is_dirty = FALSE] ELSE frames[f]]
    BY <1>10 DEF FlushAll
  <2>4. frames' \in [Frames -> FrameType]
    BY ZenonT(60), <2>3 DEF PoolShape, FrameType
  <2>5. \A f \in Frames : /\ frames'[f].page_id = frames[f].page_id
                          /\ frames'[f].pin_count = frames[f].pin_count
                          /\ frames'[f].is_dirty => frames[f].is_dirty
    BY <2>3 DEF PoolShape, FrameType
  <2>6. PoolShape'
    BY <1>10, <2>4, <2>5, SameOccupancy DEF FlushAll
  <2> QED
    BY <2>2, <2>6, DiskKeeps
<1>11. ASSUME UNCHANGED vars PROVE PoolInv'
  <2>1. PoolShape'
    BY <1>11, SameOccupancy DEF vars, PoolShape
  <2> QED
    BY <1>0, <1>11, <2>1, DiskKeeps DEF vars, diskVars
<1> QED
  BY <1>1, <1>2, <1>3, <1>4, <1>5, <1>6, <1>7, <1>8, <1>9, <1>10, <1>11
     DEF NextAny, Rest, Maintain, Fetch

(* A new pool: every frame empty, every page free. *)
LEMMA PoolStart == Init => PoolInv
<1> SUFFICES ASSUME Init PROVE PoolInv
  OBVIOUS
<1>1. /\ frames = [f \in Frames |-> EmptyFrame(Zero)]
      /\ page_table = [p \in Pages |-> None]
      /\ free_list \in Seq(Frames) /\ IsInjective(free_list) /\ ToSet(free_list) = Frames
  BY FullFreeList DEF Init
<1>2. order = << >> /\ evictable = {}
  BY DEF Init, Lru!LruInit
<1>3. order \in Seq(Frames) /\ IsInjective(order) /\ ToSet(order) = {}
  BY <1>2 DEF IsInjective, ToSet
<1>4. /\ EmptyFrame(Zero) \in FrameType
      /\ EmptyFrame(Zero).page_id = None
      /\ EmptyFrame(Zero).pin_count = 0
      /\ EmptyFrame(Zero).is_dirty = FALSE
  BY Constants DEF EmptyFrame, FrameType
<1>5. EmptyFrames = Frames
  BY <1>1, <1>4 DEF EmptyFrames
<1>6. EmptyFramesIdle
  BY <1>1, <1>4, <1>5 DEF EmptyFramesIdle
<1>7. PoolShape
  BY <1>1, <1>2, <1>3, <1>4, <1>5, <1>6
     DEF PoolShape, PageTableSound, Cached, FramesPartitioned, EvictableExact
<1>8. Parts!DiskInv
  <2>1. Parts!Init
    BY DEF Init, Disk!Init, Parts!Init, Disk!Pages, Parts!Pages, Pages
  <2> QED
    BY <2>1, Parts!DiskStart, Constants DEF Parts!DiskAssumption
<1> QED
  BY <1>7, <1>8 DEF PoolInv

(* The invariant's parts, under the names the model gives them. *)
LEMMA PoolInvParts ==
    PoolInv => /\ TypeOK
               /\ PageTableSound
               /\ FramesPartitioned
               /\ EvictableExact
               /\ EmptyFramesIdle
               /\ FailsOnlyWhenPinned
BY RefusedWhenPinned, DiskOperators
   DEF PoolInv, PoolShape, TypeOK, Lru!LruTypeOK, Parts!DiskInv

(***************************************************************************)
(* For every pool and disk size and any sequence of calls by any caller:   *)
(* each frame is either empty and on the free list once, or loaded and in  *)
(* the queue once; a mapping leads to the frame that holds the page; the   *)
(* evictable frames are the loaded ones without pins; and a frame is       *)
(* refused only when all are pinned.                                       *)
(***************************************************************************)
THEOREM PoolBookkeeping ==
    SpecAny => [](/\ TypeOK
                  /\ PageTableSound
                  /\ FramesPartitioned
                  /\ EvictableExact
                  /\ EmptyFramesIdle
                  /\ FailsOnlyWhenPinned)
BY PoolStart, PoolStep, PoolInvParts, PTL DEF SpecAny

(* Only get_free_frame and delete_page change the page of a frame, and     *)
(* neither takes a pinned one.                                             *)
LEMMA PinnedStep ==
    ASSUME PoolInv, NextAny, NEW f \in Frames, frames[f].pin_count > 0
    PROVE  frames'[f].page_id = frames[f].page_id
<1>0. PoolShape
  BY DEF PoolInv
<1>1. ASSUME NEW loaded, HasFreeFrame, Install(FreeFrame, loaded)
      PROVE  frames'[f].page_id = frames[f].page_id
  <2>1. frames[FreeFrame].pin_count = 0
    BY <1>0, <1>1, FreeFrameProperties
  <2> QED
    BY <1>1, <2>1, <1>0 DEF Install, PoolShape
<1>2. ASSUME NEW p \in Pages, Fetch(p) PROVE frames'[f].page_id = frames[f].page_id
  <2>1. CASE FetchHit(p)
    BY <1>0, <2>1 DEF FetchHit, PoolShape, FrameType
  <2>2. CASE FetchMiss(p)
    BY <1>1, <2>2 DEF FetchMiss
  <2> QED
    BY <1>2, <2>1, <2>2 DEF Fetch
<1>3. ASSUME NEW p \in Pages, Maintain(p) PROVE frames'[f].page_id = frames[f].page_id
  <2>1. CASE NewPage(p)
    BY <1>1, <2>1 DEF NewPage
  <2>2. CASE NewPageNoFrame(p) \/ DeleteUncached(p)
    BY <2>2 DEF NewPageNoFrame, DeleteUncached
  <2>3. CASE \E d \in BOOLEAN : UnpinPage(p, d)
    BY <1>0, <2>3 DEF UnpinPage, PoolShape, FrameType
  <2>4. CASE FlushPage(p)
    BY <1>0, <2>4 DEF FlushPage, PoolShape, FrameType
  <2>5. CASE DeleteCached(p)
    BY <1>0, <2>5 DEF DeleteCached, PoolShape
  <2> QED
    BY <1>3, <2>1, <2>2, <2>3, <2>4, <2>5 DEF Maintain
<1>4. ASSUME NEW g \in Frames, NEW c \in Contents, WriteFrame(g, c)
      PROVE  frames'[f].page_id = frames[f].page_id
  BY <1>0, <1>4 DEF WriteFrame, PoolShape, FrameType
<1>5. CASE FlushAll
  BY <1>0, <1>5 DEF FlushAll, PoolShape, FrameType
<1> QED
  BY <1>2, <1>3, <1>4, <1>5 DEF NextAny, Rest

(***************************************************************************)
(* A pinned frame keeps its page, whatever else is called meanwhile.       *)
(***************************************************************************)
THEOREM PinnedFramesStay == SpecAny => PinnedStays
<1>1. PoolInv /\ [NextAny]_vars =>
        [\A f \in Frames :
            frames[f].pin_count > 0 => frames'[f].page_id = frames[f].page_id]_vars
  BY PinnedStep
<1> QED
  BY <1>1, PoolStart, PoolStep, PTL DEF SpecAny, PinnedStays

-----------------------------------------------------------------------------

(***************************************************************************)
(* What holds in addition when only allocated pages are fetched.           *)
(***************************************************************************)
OwnedInv == CachedAllocated /\ FramesMapped

(* Loading a page that was not cached keeps one frame per page. *)
LEMMA InstallOwned ==
    ASSUME PoolShape, OwnedInv, HasFreeFrame, NEW p \in Pages, ~Cached(p),
           NEW loaded, loaded.page_id = p, Install(FreeFrame, loaded),
           p \in allocated', allocated \subseteq allocated'
    PROVE  OwnedInv'
<1> DEFINE f == FreeFrame
<1>1. f \in Frames
  BY FreeFrameProperties
<1>2. /\ frames' = [frames EXCEPT ![f] = loaded]
      /\ page_table' = [q \in Pages |->
            CASE q = p -> f
              [] q # p /\ q = frames[f].page_id -> None
              [] OTHER -> page_table[q]]
  BY DEF Install
<1> HIDE DEF f
<1>3. CachedAllocated'
  BY <1>2 DEF OwnedInv, CachedAllocated, Cached
<1>4. FramesMapped'
  <2> SUFFICES ASSUME NEW g \in Frames, frames'[g].page_id # None
               PROVE  page_table'[frames'[g].page_id] = g
    BY DEF FramesMapped, EmptyFrames
  <2>1. CASE g = f
    BY <1>1, <1>2, <2>1 DEF PoolShape
  <2>2. CASE g # f
    <3> DEFINE q == frames[g].page_id
    <3>1. frames'[g].page_id = q /\ q # None
      BY <1>2, <2>2 DEF PoolShape
    <3>2. q \in Pages /\ page_table[q] = g
      BY <3>1 DEF OwnedInv, FramesMapped, EmptyFrames, PoolShape, FrameType
    <3>3. q # p
      BY <3>2, Constants DEF Cached
    <3>4. q # frames[f].page_id
      <4>1. frames[f].page_id # None => page_table[frames[f].page_id] = f
        BY <1>1 DEF OwnedInv, FramesMapped, EmptyFrames
      <4> QED
        BY <2>2, <3>1, <3>2, <4>1
    <3> HIDE DEF q
    <3> QED
      BY <1>2, <3>1, <3>2, <3>3, <3>4
  <2> QED
    BY <2>1, <2>2
<1> QED
  BY <1>3, <1>4 DEF OwnedInv

(* Nothing is loaded, unloaded or deallocated. *)
LEMMA SameOwners ==
    ASSUME OwnedInv, \A f \in Frames : frames'[f].page_id = frames[f].page_id,
           page_table' = page_table, allocated \subseteq allocated'
    PROVE  OwnedInv'
BY DEF OwnedInv, CachedAllocated, Cached, FramesMapped, EmptyFrames

(* A step of the callers of table.rs and overflow.rs keeps OwnedInv. *)
LEMMA OwnedStep ==
    ASSUME PoolInv, OwnedInv, [Next]_vars
    PROVE  OwnedInv'
<1>0. PoolShape /\ frames \in [Frames -> FrameType]
  BY DEF PoolInv, PoolShape
<1>1. ASSUME NEW p \in allocated, FetchHit(p) PROVE OwnedInv'
  BY <1>0, <1>1, SameOwners DEF FetchHit, diskVars, FrameType
<1>2. ASSUME NEW p \in allocated, FetchMiss(p) PROVE OwnedInv'
  <2>1. PinnedFrame(p, FALSE, storage'[p]).page_id = p /\ p \in Pages
    BY Constants DEF PinnedFrame, PoolInv, Parts!DiskInv, Parts!TypeOK
  <2> QED
    BY <1>0, <1>2, <2>1, InstallOwned DEF FetchMiss
<1>3. ASSUME NEW p \in Pages, NewPage(p) PROVE OwnedInv'
  <2>1. Parts!Grants(p) /\ allocated' = allocated \cup {p}
    BY <1>3, DiskOperators DEF NewPage, Parts!Reserve
  <2>2. p \notin allocated
    BY <2>1, Constants, Parts!GrantedIsUnused
       DEF PoolInv, Parts!DiskInv, Parts!DiskAssumption
  <2>3. ~Cached(p)
    BY <2>2 DEF OwnedInv, CachedAllocated
  <2>4. PinnedFrame(p, TRUE, Fresh).page_id = p
    BY DEF PinnedFrame
  <2> QED
    BY <1>0, <1>3, <2>1, <2>3, <2>4, InstallOwned DEF NewPage
<1>4. ASSUME NEW p \in Pages, NewPageNoFrame(p) PROVE OwnedInv'
  <2>1. allocated \subseteq allocated'
    BY <1>4 DEF NewPageNoFrame, Disk!AllocatePage, Disk!Reserve
  <2> QED
    BY <1>4, <2>1, SameOwners DEF NewPageNoFrame
<1>5. ASSUME NEW p \in Pages, NEW d \in BOOLEAN, UnpinPage(p, d) PROVE OwnedInv'
  BY <1>0, <1>5, SameOwners DEF UnpinPage, diskVars, FrameType
<1>6. ASSUME NEW p \in Pages, FlushPage(p) PROVE OwnedInv'
  BY <1>0, <1>6, SameOwners DEF FlushPage, Disk!WritePage, FrameType
<1>7. ASSUME NEW p \in Pages, DeleteCached(p) PROVE OwnedInv'
  <2> DEFINE f == page_table[p]
  <2>1. f \in Frames /\ frames[f].page_id = p
    BY <1>0, <1>7, CachedFrame DEF DeleteCached
  <2>2. /\ frames' = [frames EXCEPT ![f] = EmptyFrame(frames[f].data)]
        /\ page_table' = [page_table EXCEPT ![p] = None]
        /\ allocated \ {p} \subseteq allocated'
    BY <1>7 DEF DeleteCached, Disk!DeallocatePage, Disk!Release
  <2> HIDE DEF f
  <2>3. page_table \in [Pages -> Frames \cup {None}]
    BY <1>0 DEF PoolShape
  <2>4. CachedAllocated'
    BY <2>2, <2>3 DEF OwnedInv, CachedAllocated, Cached
  <2>5. FramesMapped'
    <3> SUFFICES ASSUME NEW g \in Frames, frames'[g].page_id # None
                 PROVE  page_table'[frames'[g].page_id] = g
      BY DEF FramesMapped, EmptyFrames
    <3>1. g # f
      BY <1>0, <2>1, <2>2 DEF EmptyFrame
    <3>2. frames'[g] = frames[g]
      BY <1>0, <2>2, <3>1
    <3>3. page_table[frames[g].page_id] = g
      BY <3>2 DEF OwnedInv, FramesMapped, EmptyFrames
    <3>4. page_table[p] = f
      BY DEF f
    <3> QED
      BY <2>2, <2>3, <3>1, <3>2, <3>3, <3>4, <1>0 DEF FrameType
  <2> QED
    BY <2>4, <2>5 DEF OwnedInv
<1>8. ASSUME NEW p \in Pages, DeleteUncached(p) PROVE OwnedInv'
  <2>1. /\ UNCHANGED <<frames, page_table>> /\ ~Cached(p)
        /\ allocated \ {p} \subseteq allocated'
    BY <1>8 DEF DeleteUncached, Disk!DeallocatePage, Disk!Release
  <2> QED
    BY <2>1 DEF OwnedInv, CachedAllocated, Cached, FramesMapped, EmptyFrames
<1>9. ASSUME NEW f \in Frames, NEW c \in Contents, WriteFrame(f, c) PROVE OwnedInv'
  BY <1>0, <1>9, SameOwners DEF WriteFrame, diskVars, FrameType
<1>10. ASSUME FlushAll PROVE OwnedInv'
  BY <1>0, <1>10, SameOwners DEF FlushAll, FrameType
<1>11. ASSUME UNCHANGED vars PROVE OwnedInv'
  BY <1>11, SameOwners DEF vars, diskVars
<1> QED
  BY <1>1, <1>2, <1>3, <1>4, <1>5, <1>6, <1>7, <1>8, <1>9, <1>10, <1>11
     DEF Next, Rest, Maintain, Fetch

(* Callers that fetch only allocated pages are callers. *)
LEMMA NextIsNextAny == PoolInv /\ [Next]_vars => [NextAny]_vars
<1>1. PoolInv => allocated \subseteq Pages
  BY Constants DEF PoolInv, Parts!DiskInv, Parts!TypeOK
<1> QED
  BY <1>1 DEF Next, NextAny

(***************************************************************************)
(* For every pool and disk size, when callers fetch only pages in use: a   *)
(* cached page is allocated, and no two frames hold copies of one page.    *)
(***************************************************************************)
THEOREM OneFramePerPage == Spec => [](CachedAllocated /\ FramesMapped)
<1>1. Init => PoolInv /\ OwnedInv
  <2>1. Init => OwnedInv
    BY DEF Init, OwnedInv, CachedAllocated, Cached, FramesMapped, EmptyFrames, EmptyFrame
  <2> QED
    BY <2>1, PoolStart
<1>2. PoolInv /\ OwnedInv /\ [Next]_vars => (PoolInv /\ OwnedInv)'
  BY PoolStep, OwnedStep, NextIsNextAny
<1>3. OwnedInv => CachedAllocated /\ FramesMapped
  BY DEF OwnedInv
<1> QED
  BY <1>1, <1>2, <1>3, PTL DEF Spec

(***************************************************************************)
(* While pages in use only are fetched, flush_all leaves no dirty frame.   *)
(***************************************************************************)
THEOREM FlushAllComplete == Spec => FlushAllCleans
<1>1. PoolInv /\ OwnedInv /\ FlushAll => \A f \in Frames : ~frames'[f].is_dirty
  <2> SUFFICES ASSUME PoolInv, OwnedInv, FlushAll, NEW f \in Frames
               PROVE  ~frames'[f].is_dirty
    OBVIOUS
  <2>1. /\ frames \in [Frames -> FrameType]
        /\ frames'[f] = IF \E p \in Pages : page_table[p] = f
                        THEN [frames[f] EXCEPT !.is_dirty = FALSE] ELSE frames[f]
    BY DEF FlushAll, PoolInv, PoolShape
  <2>2. CASE f \in EmptyFrames
    <3>1. ~frames[f].is_dirty
      BY <2>2, Zenon DEF PoolInv, PoolShape, EmptyFramesIdle
    <3> QED
      BY <2>1, <3>1 DEF FrameType
  <2>3. CASE f \notin EmptyFrames
    <3>1. /\ frames[f].page_id \in Pages
          /\ page_table[frames[f].page_id] = f
      BY <2>1, <2>3 DEF OwnedInv, FramesMapped, EmptyFrames, FrameType
    <3> QED
      BY <2>1, <3>1 DEF FrameType
  <2> QED
    BY <2>2, <2>3
<1>2. PoolInv /\ OwnedInv /\ [Next]_vars => (PoolInv /\ OwnedInv)'
  BY PoolStep, OwnedStep, NextIsNextAny
<1>3. Init => PoolInv /\ OwnedInv
  <2>1. Init => OwnedInv
    BY DEF Init, OwnedInv, CachedAllocated, Cached, FramesMapped, EmptyFrames, EmptyFrame
  <2> QED
    BY <2>1, PoolStart
<1> QED
  BY <1>1, <1>2, <1>3, PTL DEF Spec, FlushAllCleans

-----------------------------------------------------------------------------

(* The pool with its callers. *)

(***************************************************************************)
(* The inductive invariant.  The pool's own parts hold as in the pool      *)
(* without callers, since each step of a caller is one of the pool.  What  *)
(* ties the callers to it is PinsCover: there is a pin for every handle,   *)
(* and after an early return one for none.                                 *)
(***************************************************************************)
PinsCover == \A f \in Frames : Cardinality(Holders(f)) <= frames[f].pin_count

HandleInv ==
    /\ handle \in [Handles -> HandleType \cup {Idle}]
    /\ HandlesValid
    /\ PinsCover
    /\ NoUnmarkedChange

ClientInv == PoolInv /\ OwnedInv /\ HandleInv

-----------------------------------------------------------------------------

(* Sets of handles are finite. *)
LEMMA HandleSets ==
    ASSUME NEW S \in SUBSET Handles
    PROVE  /\ IsFiniteSet(S) /\ Cardinality(S) \in Nat
           /\ Cardinality(S) = 0 <=> S = {}
BY HandleAssumption, FS_Subset, FS_CardinalityType, FS_EmptySet

(* One element more is at most one more. *)
LEMMA OneMore ==
    ASSUME NEW S, NEW x, IsFiniteSet(S), Cardinality(S) \in Nat
    PROVE  Cardinality(S \cup {x}) <= Cardinality(S) + 1
<1>1. CASE x \in S
  <2>1. S \cup {x} = S
    BY <1>1
  <2> QED
    BY <2>1
<1>2. CASE x \notin S
  <2>1. Cardinality(S \cup {x}) = Cardinality(S) + 1
    BY <1>2, FS_AddElement
  <2> QED
    BY <2>1
<1> QED
  BY <1>1, <1>2

(* The types the pool's invariant gives to what the callers' steps touch. *)
LEMMA PoolTypes ==
    ASSUME PoolInv
    PROVE  /\ frames \in [Frames -> FrameType]
           /\ page_table \in [Pages -> Frames \cup {None}]
           /\ storage \in [Pages -> Contents] /\ allocated \subseteq Pages
           /\ \A f \in Frames : frames[f].pin_count \in Nat
BY Constants DEF PoolInv, PoolShape, FrameType, Parts!DiskInv, Parts!TypeOK

(* A handle that is open holds a pin on the frame of its page. *)
LEMMA OpenHandle ==
    ASSUME ClientInv, NEW h \in Handles, Open(h)
    PROVE  /\ handle[h] \in HandleType
           /\ handle[h].page \in Pages /\ handle[h].frame \in Frames
           /\ handle[h].wrote \in BOOLEAN
           /\ page_table[handle[h].page] = handle[h].frame
           /\ frames[handle[h].frame].page_id = handle[h].page
           /\ frames[handle[h].frame].pin_count > 0
           /\ Cached(handle[h].page)
<1>1. handle[h] \in HandleType
  BY DEF ClientInv, HandleInv, Open
<1>2. /\ handle[h].page \in Pages /\ handle[h].frame \in Frames
      /\ handle[h].wrote \in BOOLEAN
  BY <1>1 DEF HandleType
<1>3. /\ page_table[handle[h].page] = handle[h].frame
      /\ frames[handle[h].frame].page_id = handle[h].page
  BY DEF ClientInv, HandleInv, HandlesValid
<1>4. frames[handle[h].frame].pin_count > 0
  <2> DEFINE f == handle[h].frame
  <2>1. Holders(f) \in SUBSET Handles /\ h \in Holders(f)
    BY DEF Holders
  <2>2. Cardinality(Holders(f)) \in Nat /\ Cardinality(Holders(f)) # 0
    BY <2>1, HandleSets
  <2>3. Cardinality(Holders(f)) <= frames[f].pin_count
    BY <1>2 DEF ClientInv, HandleInv, PinsCover
  <2>4. frames[f].pin_count \in Nat
    BY <1>2, PoolTypes DEF ClientInv
  <2> QED
    BY <2>2, <2>3, <2>4
<1> QED
  BY <1>1, <1>2, <1>3, <1>4, Constants DEF Cached

(* What the callers do, the pool does for them. *)
LEMMA ClientStepIsPoolStep ==
    ASSUME ClientInv, [ClientNext]_clientVars
    PROVE  [Next]_vars
<1>1. ASSUME NEW h \in Handles, NEW p \in allocated, OpenPage(h, p) PROVE Next
  BY <1>1 DEF OpenPage, Next
<1>2. ASSUME NEW h \in Handles, NEW p \in Pages, OpenNewPage(h, p) PROVE Next
  BY <1>2 DEF OpenNewPage, Next, Rest, Maintain
<1>3. ASSUME NEW h \in Handles, NEW c \in Contents, Edit(h, c) PROVE Next
  BY <1>3, OpenHandle DEF Edit, Next, Rest
<1>4. ASSUME NEW h \in Handles, Close(h) PROVE Next
  BY <1>4, OpenHandle DEF Close, Next, Rest, Maintain
<1>5. ASSUME NEW h \in Handles, Abandon(h) PROVE UNCHANGED vars
  BY <1>5 DEF Abandon
<1>6. CASE WithoutHandle
  BY <1>6 DEF WithoutHandle, Next, Rest, Maintain
<1>7. CASE UNCHANGED clientVars
  BY <1>7 DEF clientVars
<1> QED
  BY <1>1, <1>2, <1>3, <1>4, <1>5, <1>6, <1>7 DEF ClientNext, ClientRest

(* A step of a caller is a step of the pool, and keeps the invariant of the pool. *)
LEMMA PoolKept ==
    ASSUME ClientInv, [ClientNext]_clientVars
    PROVE  PoolInv' /\ OwnedInv' /\ [NextAny]_vars
BY ClientStepIsPoolStep, PoolStep, OwnedStep, NextIsNextAny DEF ClientInv

-----------------------------------------------------------------------------

(* What a handle means survives each step, as its page is pinned. *)
LEMMA StillValid ==
    ASSUME ClientInv, [ClientNext]_clientVars, NEW h \in Handles, Open(h)
    PROVE  /\ page_table'[handle[h].page] = handle[h].frame
           /\ frames'[handle[h].frame].page_id = handle[h].page
<1> DEFINE f == handle[h].frame
           p == handle[h].page
<1>1. f \in Frames /\ p \in Pages /\ frames[f].page_id = p /\ frames[f].pin_count > 0
  BY OpenHandle
<1> HIDE DEF f, p
<1>2. frames'[f].page_id = p
  <2>1. CASE NextAny
    BY <1>1, <2>1, PinnedStep DEF ClientInv
  <2>2. CASE UNCHANGED vars
    BY <1>1, <2>2 DEF vars
  <2> QED
    BY <2>1, <2>2, PoolKept
<1>3. page_table'[frames'[f].page_id] = f
  BY <1>1, <1>2, PoolKept, Constants DEF OwnedInv, FramesMapped, EmptyFrames
<1> QED
  BY <1>2, <1>3 DEF f, p

(* A handle that is opened is valid, and the one more for its frame. *)
LEMMA TakeKeeps ==
    ASSUME ClientInv, [ClientNext]_clientVars, NEW h \in Handles, NEW p \in Pages,
           Take(h, p), page_table'[p] # None
    PROVE  /\ handle' \in [Handles -> HandleType \cup {Idle}]
           /\ HandlesValid'
           /\ \A f \in Frames : Cardinality(Holders(f)') <=
                IF f = page_table'[p] THEN Cardinality(Holders(f)) + 1
                ELSE Cardinality(Holders(f))
           /\ \A g \in Handles : Open(g) => handle'[g] = handle[g]
<1> DEFINE new == [page |-> p, frame |-> page_table'[p], wrote |-> FALSE]
<1>1. handle' = [handle EXCEPT ![h] = new] /\ ~Open(h)
  BY DEF Take
<1>2. /\ page_table'[p] \in Frames
      /\ frames'[page_table'[p]].page_id = p
  BY PoolKept DEF PoolInv, PoolShape, PageTableSound, Cached
<1>3. new \in HandleType /\ new # Idle
  <2>1. new \in HandleType
    BY <1>2 DEF HandleType
  <2> QED
    BY <2>1, HandleAssumption
<1>4. handle \in [Handles -> HandleType \cup {Idle}]
  BY DEF ClientInv, HandleInv
<1>5. handle'[h] = new /\ \A g \in Handles : g # h => handle'[g] = handle[g]
  BY <1>1, <1>4
<1>6. new.page = p /\ new.frame = page_table'[p]
  OBVIOUS
<1> HIDE DEF new
<1>7. handle' \in [Handles -> HandleType \cup {Idle}]
  BY <1>1, <1>3, <1>4
<1>8. HandlesValid'
  <2> SUFFICES ASSUME NEW g \in Handles, handle'[g] # Idle
               PROVE  /\ page_table'[handle'[g].page] = handle'[g].frame
                      /\ frames'[handle'[g].frame].page_id = handle'[g].page
    BY DEF HandlesValid, Open
  <2>1. CASE g = h
    BY <1>2, <1>5, <1>6, <2>1
  <2>2. CASE g # h
    BY <1>5, <2>2, StillValid DEF Open
  <2> QED
    BY <2>1, <2>2
<1>9. ASSUME NEW f \in Frames
      PROVE  Cardinality(Holders(f)') <=
                IF f = page_table'[p] THEN Cardinality(Holders(f)) + 1
                ELSE Cardinality(Holders(f))
  <2>1. Holders(f)' = IF f = page_table'[p] THEN Holders(f) \cup {h} ELSE Holders(f)
    BY <1>1, <1>3, <1>5, <1>6 DEF Holders, Open
  <2>2. Holders(f) \in SUBSET Handles
    BY DEF Holders
  <2>3. IsFiniteSet(Holders(f)) /\ Cardinality(Holders(f)) \in Nat
    BY <2>2, HandleSets
  <2>4. Cardinality(Holders(f) \cup {h}) <= Cardinality(Holders(f)) + 1
    BY <2>3, OneMore
  <2> QED
    BY <2>1, <2>3, <2>4
<1> QED
  BY <1>1, <1>5, <1>7, <1>8, <1>9

(* Handles may close, or be written through; no frame gets a holder. *)
LEMMA FewerHolders ==
    ASSUME ClientInv, [ClientNext]_clientVars,
           handle' \in [Handles -> HandleType \cup {Idle}],
           \A g \in Handles : handle'[g] # Idle =>
                /\ Open(g)
                /\ handle'[g].page = handle[g].page
                /\ handle'[g].frame = handle[g].frame
    PROVE  /\ HandlesValid'
           /\ \A f \in Frames : Holders(f)' \subseteq Holders(f)
           /\ \A f \in Frames : Cardinality(Holders(f)') <= Cardinality(Holders(f))
<1>1. HandlesValid'
  BY StillValid DEF HandlesValid, Open
<1>2. \A f \in Frames : Holders(f)' \subseteq Holders(f)
  BY DEF Holders, Open
<1>3. ASSUME NEW f \in Frames PROVE Cardinality(Holders(f)') <= Cardinality(Holders(f))
  <2>1. Holders(f) \in SUBSET Handles
    BY DEF Holders
  <2>2. IsFiniteSet(Holders(f))
    BY <2>1, HandleSets
  <2> QED
    BY <1>2, <2>2, FS_Subset
<1> QED
  BY <1>1, <1>2, <1>3

(* A frame without pins has no holder. *)
LEMMA Unheld ==
    ASSUME ClientInv, NEW f \in Frames, frames[f].pin_count = 0
    PROVE  Holders(f) = {} /\ Cardinality(Holders(f)) = 0
<1>1. Holders(f) \in SUBSET Handles
  BY DEF Holders
<1>2. Cardinality(Holders(f)) <= 0
  BY DEF ClientInv, HandleInv, PinsCover
<1> QED
  BY <1>1, <1>2, HandleSets

-----------------------------------------------------------------------------

(* The part of NoUnmarkedChange about one page. *)
Marked(p) ==
    LET f == page_table[p] IN
    \/ frames[f].data = storage[p]
    \/ frames[f].is_dirty
    \/ \E h \in Holders(f) : handle[h].wrote

(* A page and its frame are left as they were. *)
LEMMA SameMark ==
    ASSUME ClientInv, NEW p \in Pages, NEW f, f = page_table[p], Cached(p),
           page_table'[p] = page_table[p], storage'[p] = storage[p],
           frames'[f].data = frames[f].data,
           frames[f].is_dirty => frames'[f].is_dirty,
           \A g \in Holders(f) : handle[g].wrote =>
                (g \in Holders(f)' /\ handle'[g].wrote) \/ frames'[f].is_dirty
    PROVE  Marked(p)'
<1>1. Marked(p)
  BY DEF ClientInv, HandleInv, NoUnmarkedChange, Marked
<1> QED
  BY <1>1 DEF Marked

(***************************************************************************)
(* A page is loaded into the frame of another.  The victim's bytes are on  *)
(* disk afterwards: it has no holder, so a change of it is marked, and a   *)
(* marked page is written back.                                            *)
(***************************************************************************)
LEMMA InstallShows ==
    ASSUME ClientInv, HasFreeFrame, NEW p \in Pages, ~Cached(p),
           NEW disk \in [Pages -> Contents],
           \A q \in Pages \ {p} : disk[q] = storage[q],
           storage' = WrittenBack(FreeFrame, disk),
           NEW loaded \in FrameType, loaded.page_id = p,
           Install(FreeFrame, loaded),
           loaded.is_dirty \/ loaded.data = storage'[p],
           \A g \in Handles : Open(g) => handle'[g] = handle[g]
    PROVE  /\ NoUnmarkedChange'
           /\ Cached(p)' /\ Visible(p)' = loaded.data /\ storage'[p] = disk[p]
           /\ \A q \in Pages \ {p} : Visible(q)' = Visible(q)
<1> DEFINE f == FreeFrame
           old == frames[f].page_id
<1>1. /\ f \in Frames /\ frames[f].pin_count = 0
      /\ frames \in [Frames -> FrameType] /\ old \in Pages \cup {None}
  BY FreeFrameProperties DEF ClientInv, PoolInv, PoolShape, FrameType
<1>2. /\ frames' = [frames EXCEPT ![f] = loaded]
      /\ page_table' = [q \in Pages |->
            CASE q = p -> f
              [] q # p /\ q = old -> None
              [] OTHER -> page_table[q]]
  BY DEF Install
<1>3. /\ frames'[f] = loaded
      /\ \A g \in Frames : g # f => frames'[g] = frames[g]
  BY <1>1, <1>2
<1>4. storage' = IF old # None /\ frames[f].is_dirty
                 THEN [disk EXCEPT ![old] = frames[f].data] ELSE disk
  BY DEF WrittenBack
<1>5. Holders(f) = {}
  BY <1>1, Unheld
<1>6. old # None => page_table[old] = f /\ old # p /\ Cached(old)
  BY <1>1, Constants DEF ClientInv, OwnedInv, FramesMapped, EmptyFrames, Cached
<1>7. page_table'[p] = f /\ f # None
  BY <1>1, <1>2, Constants
<1> HIDE DEF f, old
<1>8. \A q \in Pages : q # old => storage'[q] = disk[q]
  BY <1>4
<1>9. storage'[p] = disk[p]
  BY <1>6, <1>8, Constants
<1>10. Cached(p)' /\ Visible(p)' = loaded.data /\ Marked(p)'
  BY <1>3, <1>7 DEF Cached, Visible, Marked
<1>11. ASSUME NEW q \in Pages \ {p}
       PROVE  /\ Visible(q)' = Visible(q)
              /\ Cached(q)' => Marked(q)'
  <2>1. CASE q = old
    <3>1. page_table'[q] = None
      BY <1>2, <2>1
    <3>2. page_table[q] = f /\ Cached(q) /\ q # None
      BY <1>6, <2>1, Constants
    <3>3. frames[f].data = storage[q] \/ frames[f].is_dirty
      BY <1>5, <3>2 DEF ClientInv, HandleInv, NoUnmarkedChange
    <3>4. storage'[q] = frames[f].data
      <4>1. CASE frames[f].is_dirty
        BY <1>4, <2>1, <3>2, <4>1
      <4>2. CASE ~frames[f].is_dirty
        BY <1>4, <3>3, <4>2
      <4> QED
        BY <4>1, <4>2
    <3> QED
      BY <3>1, <3>2, <3>4 DEF Visible, Cached
  <2>2. CASE q # old
    <3>1. page_table'[q] = page_table[q] /\ storage'[q] = storage[q]
      BY <1>2, <1>8, <2>2
    <3>2. CASE Cached(q)
      <4> DEFINE g == page_table[q]
      <4>1. g \in Frames /\ frames[g].page_id = q /\ g # f
        BY <2>2, <3>2, CachedFrame DEF ClientInv, PoolInv, old
      <4>2. frames'[g] = frames[g]
        BY <1>3, <4>1
      <4>3. Marked(q)'
        <5>1. \A x \in Holders(g) : handle[x].wrote =>
                   x \in Holders(g)' /\ handle'[x].wrote
          BY <3>1 DEF Holders, Open
        <5> QED
          BY <3>1, <3>2, <4>2, <5>1, SameMark
      <4> QED
        BY <3>1, <4>2, <4>3 DEF Visible, Cached
    <3>3. CASE ~Cached(q)
      BY <3>1, <3>3 DEF Visible, Cached
    <3> QED
      BY <3>2, <3>3
  <2> QED
    BY <2>1, <2>2
<1>12. NoUnmarkedChange'
  BY <1>10, <1>11 DEF NoUnmarkedChange, Marked
<1> QED
  BY <1>9, <1>10, <1>11, <1>12

(* The pins of a page: those of its frame. *)
Pins(p) == IF Cached(p) THEN frames[page_table[p]].pin_count ELSE 0

(* No page changes its frame and no frame its bytes or pins. *)
LEMMA SameView ==
    ASSUME PoolInv, UNCHANGED page_table
    PROVE  /\ (\A p \in Pages : Cached(p)' <=> Cached(p))
           /\ (\A f \in Frames : frames'[f].pin_count = frames[f].pin_count) =>
                \A p \in Pages : Pins(p)' = Pins(p)
           /\ UNCHANGED storage /\ (\A f \in Frames : frames'[f].data = frames[f].data) =>
                \A p \in Pages : Visible(p)' = Visible(p)
BY PoolTypes, Constants DEF Cached, Pins, Visible

(* The calls that need no handle change the pins of no held frame. *)
LEMMA HandlesUntouched ==
    ASSUME ClientInv, [ClientNext]_clientVars, UNCHANGED handle,
           \A f \in Frames : \/ frames'[f].pin_count = frames[f].pin_count
                             \/ frames[f].pin_count = 0
    PROVE  /\ handle' \in [Handles -> HandleType \cup {Idle}]
           /\ HandlesValid' /\ PinsCover'
           /\ \A f \in Frames : Holders(f)' = Holders(f)
<1>1. handle' \in [Handles -> HandleType \cup {Idle}]
  BY DEF ClientInv, HandleInv
<1>2. HandlesValid' /\ \A f \in Frames : Cardinality(Holders(f)') <= Cardinality(Holders(f))
  BY <1>1, FewerHolders DEF Open
<1>3. \A f \in Frames : Holders(f)' = Holders(f)
  BY DEF Holders, Open
<1>4. ASSUME NEW f \in Frames PROVE Cardinality(Holders(f)') <= frames'[f].pin_count
  <2>1. CASE frames'[f].pin_count = frames[f].pin_count
    BY <1>3, <2>1 DEF ClientInv, HandleInv, PinsCover
  <2>2. CASE frames[f].pin_count = 0
    <3>1. Cardinality(Holders(f)) = 0
      BY <2>2, Unheld
    <3>2. frames'[f].pin_count \in Nat
      BY PoolKept, Constants DEF PoolInv, PoolShape, FrameType
    <3> QED
      BY <1>3, <3>1, <3>2
  <2> QED
    BY <1>4, <2>1, <2>2
<1> QED
  BY <1>1, <1>2, <1>3, <1>4 DEF PinsCover

-----------------------------------------------------------------------------

(* fetch_page or new_page loads p and the caller takes the handle. *)
LEMMA LoadKeeps ==
    ASSUME ClientInv, [ClientNext]_clientVars, HasFreeFrame,
           NEW h \in Handles, NEW p \in Pages, ~Cached(p), Take(h, p),
           NEW disk \in [Pages -> Contents],
           \A q \in Pages \ {p} : disk[q] = storage[q],
           storage' = WrittenBack(FreeFrame, disk),
           NEW loaded \in FrameType, loaded.page_id = p, loaded.pin_count = 1,
           Install(FreeFrame, loaded),
           loaded.is_dirty \/ loaded.data = storage'[p]
    PROVE  /\ HandleInv'
           /\ Visible(p)' = loaded.data /\ storage'[p] = disk[p]
           /\ \A q \in Pages \ {p} : Visible(q)' = Visible(q)
           /\ Pins(p)' = 1
           /\ \A q \in Pages \ {p} : Pins(q)' = Pins(q)
<1> DEFINE f == FreeFrame
           old == frames[f].page_id
<1>1. /\ f \in Frames /\ frames[f].pin_count = 0
      /\ frames \in [Frames -> FrameType] /\ old \in Pages \cup {None}
  BY FreeFrameProperties DEF ClientInv, PoolInv, PoolShape, FrameType
<1>2. /\ frames' = [frames EXCEPT ![f] = loaded]
      /\ page_table' = [q \in Pages |->
            CASE q = p -> f
              [] q # p /\ q = old -> None
              [] OTHER -> page_table[q]]
  BY DEF Install
<1>3. /\ frames'[f] = loaded
      /\ \A g \in Frames : g # f => frames'[g] = frames[g]
  BY <1>1, <1>2
<1>4. old # None => page_table[old] = f
  BY <1>1 DEF ClientInv, OwnedInv, FramesMapped, EmptyFrames
<1> HIDE DEF f, old
<1>5. page_table'[p] = f /\ page_table'[p] # None
  BY <1>1, <1>2, Constants
<1>6. /\ handle' \in [Handles -> HandleType \cup {Idle}]
      /\ HandlesValid'
      /\ \A g \in Frames : Cardinality(Holders(g)') <=
            IF g = f THEN Cardinality(Holders(g)) + 1 ELSE Cardinality(Holders(g))
      /\ \A g \in Handles : Open(g) => handle'[g] = handle[g]
  BY <1>5, TakeKeeps
<1>7. PinsCover'
  <2> SUFFICES ASSUME NEW g \in Frames
               PROVE  Cardinality(Holders(g)') <= frames'[g].pin_count
    BY DEF PinsCover
  <2>1. CASE g = f
    <3>1. Cardinality(Holders(f)) = 0
      BY <1>1, Unheld
    <3> QED
      BY <1>3, <1>6, <2>1, <3>1
  <2>2. CASE g # f
    <3>1. Holders(g) \in SUBSET Handles /\ Holders(g)' \in SUBSET Handles
      BY DEF Holders
    <3>2. Cardinality(Holders(g)) \in Nat /\ Cardinality(Holders(g)') \in Nat
      BY <3>1, HandleSets
    <3>3. frames'[g] = frames[g] /\ frames[g].pin_count \in Nat
      BY <1>3, <2>2, PoolTypes DEF ClientInv
    <3>4. Cardinality(Holders(g)) <= frames[g].pin_count
      BY DEF ClientInv, HandleInv, PinsCover
    <3>5. Cardinality(Holders(g)') <= Cardinality(Holders(g))
      BY <1>6, <2>2
    <3> QED
      BY <3>2, <3>3, <3>4, <3>5
  <2> QED
    BY <2>1, <2>2
<1>8. /\ NoUnmarkedChange' /\ Visible(p)' = loaded.data /\ storage'[p] = disk[p]
      /\ \A q \in Pages \ {p} : Visible(q)' = Visible(q)
  BY <1>6, InstallShows
<1>9. Pins(p)' = 1
  BY <1>3, <1>5 DEF Pins, Cached
<1>10. ASSUME NEW q \in Pages \ {p} PROVE Pins(q)' = Pins(q)
  <2>1. CASE q = old
    BY <1>1, <1>2, <1>4, <2>1, Constants DEF Pins, Cached
  <2>2. CASE q # old
    <3>1. page_table'[q] = page_table[q]
      BY <1>2, <2>2
    <3>2. Cached(q) => page_table[q] \in Frames /\ page_table[q] # f
      BY <2>2, CachedFrame DEF ClientInv, PoolInv, old
    <3> QED
      BY <1>3, <3>1, <3>2 DEF Pins, Cached
  <2> QED
    BY <2>1, <2>2
<1> QED
  BY <1>6, <1>7, <1>8, <1>9, <1>10 DEF HandleInv

-----------------------------------------------------------------------------

(***************************************************************************)
(* One lemma for each step of the callers: it keeps HandleInv, and this is *)
(* what it does to the pages as PageStore sees them.                       *)
(***************************************************************************)
LEMMA OpenKeeps ==
    ASSUME ClientInv, [ClientNext]_clientVars,
           NEW h \in Handles, NEW p \in Pages, OpenPage(h, p)
    PROVE  /\ HandleInv'
           /\ \A q \in Pages : Visible(q)' = Visible(q)
           /\ Pins(p)' = Pins(p) + 1
           /\ \A q \in Pages \ {p} : Pins(q)' = Pins(q)
           /\ UNCHANGED allocated
<1>0. Take(h, p) /\ UNCHANGED allocated
  BY DEF OpenPage, Fetch, FetchHit, FetchMiss, diskVars
<1>1. CASE FetchHit(p)
  <2> DEFINE f == page_table[p]
  <2>1. f \in Frames /\ frames[f].page_id = p /\ frames[f].pin_count \in Nat /\ f # None
    BY <1>1, CachedFrame, PoolTypes, Constants DEF FetchHit, ClientInv, PoolInv
  <2>2. /\ frames' = [frames EXCEPT ![f].pin_count = @ + 1]
        /\ page_table' = page_table /\ storage' = storage
    BY <1>1 DEF FetchHit, diskVars
  <2>3. Cached(p)
    BY <1>1 DEF FetchHit
  <2> HIDE DEF f
  <2>4. /\ frames'[f].pin_count = frames[f].pin_count + 1
        /\ \A g \in Frames : g # f => frames'[g] = frames[g]
        /\ \A g \in Frames : /\ frames'[g].data = frames[g].data
                             /\ frames'[g].is_dirty = frames[g].is_dirty
    BY <2>1, <2>2, PoolTypes DEF ClientInv, FrameType
  <2>5. /\ handle' \in [Handles -> HandleType \cup {Idle}] /\ HandlesValid'
        /\ \A g \in Frames : Cardinality(Holders(g)') <=
              IF g = f THEN Cardinality(Holders(g)) + 1 ELSE Cardinality(Holders(g))
        /\ \A g \in Handles : Open(g) => handle'[g] = handle[g]
    BY <1>0, <2>1, <2>2, TakeKeeps DEF f
  <2>6. ASSUME NEW g \in Frames PROVE Cardinality(Holders(g)') <= frames'[g].pin_count
    <3>1. Holders(g) \in SUBSET Handles /\ Holders(g)' \in SUBSET Handles
      BY DEF Holders
    <3>2. Cardinality(Holders(g)) \in Nat /\ Cardinality(Holders(g)') \in Nat
      BY <3>1, HandleSets
    <3>3. Cardinality(Holders(g)) <= frames[g].pin_count /\ frames[g].pin_count \in Nat
      BY PoolTypes DEF ClientInv, HandleInv, PinsCover
    <3>4. frames'[g].pin_count = IF g = f THEN frames[g].pin_count + 1
                                          ELSE frames[g].pin_count
      BY <2>4
    <3>5. Cardinality(Holders(g)') <=
              IF g = f THEN Cardinality(Holders(g)) + 1 ELSE Cardinality(Holders(g))
      BY <2>5
    <3> QED
      BY <3>2, <3>3, <3>4, <3>5
  <2>7. ASSUME NEW q \in Pages, Cached(q)' PROVE Marked(q)'
    <3>1. Cached(q) /\ page_table[q] \in Frames
      BY <2>2, <2>7, CachedFrame DEF Cached, ClientInv, PoolInv
    <3>2. \A x \in Holders(page_table[q]) : handle[x].wrote =>
              x \in Holders(page_table[q])' /\ handle'[x].wrote
      BY <2>2, <2>5 DEF Holders, Open
    <3> QED
      BY <2>2, <2>4, <3>1, <3>2, SameMark
  <2>8. HandleInv'
    BY <2>5, <2>6, <2>7 DEF HandleInv, PinsCover, NoUnmarkedChange, Marked
  <2>9. \A q \in Pages : Visible(q)' = Visible(q)
    BY <2>2, <2>4, SameView DEF ClientInv
  <2>10. Pins(p)' = Pins(p) + 1
    BY <2>1, <2>2, <2>3, <2>4 DEF Pins, Cached, f
  <2>11. ASSUME NEW q \in Pages \ {p} PROVE Pins(q)' = Pins(q)
    <3>1. Cached(q) => page_table[q] \in Frames /\ page_table[q] # f
      BY <2>1, CachedFrame DEF ClientInv, PoolInv
    <3> QED
      BY <2>2, <2>4, <3>1 DEF Pins, Cached
  <2> QED
    BY <1>0, <2>8, <2>9, <2>10, <2>11
<1>2. CASE FetchMiss(p)
  <2> DEFINE loaded == PinnedFrame(p, FALSE, storage'[p])
  <2>1. /\ ~Cached(p) /\ HasFreeFrame /\ storage' = WrittenBack(FreeFrame, storage)
        /\ Install(FreeFrame, loaded)
    BY <1>2 DEF FetchMiss
  <2>2. storage \in [Pages -> Contents] /\ storage' \in [Pages -> Contents]
    BY PoolKept, PoolTypes, Constants DEF ClientInv, PoolInv, Parts!DiskInv, Parts!TypeOK
  <2>3. /\ loaded \in FrameType /\ loaded.page_id = p /\ loaded.pin_count = 1
        /\ loaded.data = storage'[p]
    BY <2>2, Constants DEF PinnedFrame, FrameType
  <2>4. Pins(p) = 0 /\ Visible(p) = storage[p]
    BY <2>1 DEF Pins, Visible
  <2> HIDE DEF loaded
  <2>5. /\ HandleInv'
        /\ Visible(p)' = loaded.data /\ storage'[p] = storage[p]
        /\ \A q \in Pages \ {p} : Visible(q)' = Visible(q)
        /\ Pins(p)' = 1
        /\ \A q \in Pages \ {p} : Pins(q)' = Pins(q)
    BY <1>0, <2>1, <2>2, <2>3, LoadKeeps
  <2> QED
    BY <1>0, <2>3, <2>4, <2>5
<1> QED
  BY <1>1, <1>2 DEF OpenPage, Fetch

(* The page a request for a new one gets was free, so it was not cached. *)
LEMMA GrantedFree ==
    ASSUME ClientInv, NEW p \in Pages, Disk!Reserve(p)
    PROVE  p \notin allocated /\ ~Cached(p) /\ allocated' = allocated \cup {p}
<1>1. Parts!Grants(p) /\ allocated' = allocated \cup {p}
  BY DiskOperators DEF Parts!Reserve
<1>2. p \notin allocated
  BY <1>1, Constants, Parts!GrantedIsUnused
     DEF ClientInv, PoolInv, Parts!DiskInv, Parts!DiskAssumption
<1> QED
  BY <1>1, <1>2 DEF ClientInv, OwnedInv, CachedAllocated

(* new_page, called by h: a fresh page with one pin, which no one had. *)
LEMMA OpenNewKeeps ==
    ASSUME ClientInv, [ClientNext]_clientVars,
           NEW h \in Handles, NEW p \in Pages, OpenNewPage(h, p)
    PROVE  /\ HandleInv'
           /\ Visible(p)' = Fresh
           /\ \A q \in Pages \ {p} : Visible(q)' = Visible(q)
           /\ Pins(p) = 0 /\ Pins(p)' = 1
           /\ \A q \in Pages \ {p} : Pins(q)' = Pins(q)
           /\ p \notin allocated /\ allocated' = allocated \cup {p}
<1> DEFINE loaded == PinnedFrame(p, TRUE, Fresh)
           disk == [storage EXCEPT ![p] = Zero]
<1>1. /\ Take(h, p) /\ Disk!Reserve(p) /\ HasFreeFrame
      /\ storage' = WrittenBack(FreeFrame, disk)
      /\ Install(FreeFrame, loaded)
  BY DEF OpenNewPage, NewPage
<1>2. p \notin allocated /\ ~Cached(p) /\ allocated' = allocated \cup {p}
  BY <1>1, GrantedFree
<1>3. disk \in [Pages -> Contents] /\ \A q \in Pages \ {p} : disk[q] = storage[q]
  BY PoolTypes, Constants DEF ClientInv
<1>4. /\ loaded \in FrameType /\ loaded.page_id = p /\ loaded.pin_count = 1
      /\ loaded.data = Fresh /\ loaded.is_dirty
  BY Constants DEF PinnedFrame, FrameType
<1>5. Pins(p) = 0
  BY <1>2 DEF Pins
<1> HIDE DEF loaded, disk
<1> QED
  BY <1>1, <1>2, <1>3, <1>4, <1>5, LoadKeeps

(* A caller writes to the frame it holds, and is seen to have written the page. *)
LEMMA EditKeeps ==
    ASSUME ClientInv, [ClientNext]_clientVars,
           NEW h \in Handles, NEW c \in Contents, Edit(h, c),
           NEW p \in Pages, p = handle[h].page
    PROVE  /\ HandleInv'
           /\ Visible(p)' = c
           /\ \A q \in Pages \ {p} : Visible(q)' = Visible(q)
           /\ Pins(p) > 0
           /\ \A q \in Pages : Pins(q)' = Pins(q)
           /\ UNCHANGED allocated
<1>0. PICK f : f = handle[h].frame
  OBVIOUS
<1>1. /\ p \in Pages /\ f \in Frames /\ page_table[p] = f /\ Cached(p)
      /\ handle[h] \in HandleType /\ frames[f].page_id = p /\ frames[f].pin_count > 0
  BY <1>0, OpenHandle DEF Edit
<1>2. /\ frames' = [frames EXCEPT ![f].data = c]
      /\ handle' = [handle EXCEPT ![h].wrote = TRUE]
      /\ page_table' = page_table /\ storage' = storage /\ allocated' = allocated
  BY <1>0 DEF Edit, WriteFrame, diskVars
<1>3. frames \in [Frames -> FrameType] /\ handle \in [Handles -> HandleType \cup {Idle}]
  BY PoolTypes DEF ClientInv, HandleInv
<1>4. /\ frames'[f].data = c
      /\ \A g \in Frames : g # f => frames'[g] = frames[g]
      /\ \A g \in Frames : frames'[g].pin_count = frames[g].pin_count
  BY <1>1, <1>2, <1>3 DEF FrameType
<1>5. /\ handle'[h] \in HandleType /\ handle'[h].wrote /\ handle'[h].page = p
      /\ handle'[h].frame = f
      /\ \A g \in Handles : g # h => handle'[g] = handle[g]
  BY <1>0, <1>1, <1>2, <1>3 DEF HandleType
<1>6. handle' \in [Handles -> HandleType \cup {Idle}]
  BY <1>2, <1>3, <1>5
<1>7. /\ HandlesValid'
      /\ \A g \in Frames : Cardinality(Holders(g)') <= Cardinality(Holders(g))
  BY <1>0, <1>5, <1>6, FewerHolders DEF Edit, Open
<1>8. PinsCover'
  <2> SUFFICES ASSUME NEW g \in Frames
               PROVE  Cardinality(Holders(g)') <= frames'[g].pin_count
    BY DEF PinsCover
  <2>1. Holders(g) \in SUBSET Handles /\ Holders(g)' \in SUBSET Handles
    BY DEF Holders
  <2>2. Cardinality(Holders(g)) \in Nat /\ Cardinality(Holders(g)') \in Nat
    BY <2>1, HandleSets
  <2>3. Cardinality(Holders(g)) <= frames[g].pin_count /\ frames[g].pin_count \in Nat
    BY PoolTypes DEF ClientInv, HandleInv, PinsCover
  <2>4. /\ frames'[g].pin_count = frames[g].pin_count
        /\ Cardinality(Holders(g)') <= Cardinality(Holders(g))
    BY <1>4, <1>7
  <2> QED
    BY <2>2, <2>3, <2>4
<1>9. \A q \in Pages \ {p} : Cached(q) => page_table[q] \in Frames /\ page_table[q] # f
  BY <1>1, CachedFrame DEF ClientInv, PoolInv
<1>10. ASSUME NEW q \in Pages, Cached(q)' PROVE Marked(q)'
  <2>1. CASE q = p
    <3>1. h \in Holders(f)' /\ handle'[h].wrote
      BY <1>5, HandleAssumption DEF Holders, Open
    <3> QED
      BY <1>1, <1>2, <2>1, <3>1 DEF Marked
  <2>2. CASE q # p
    <3>1. Cached(q) /\ page_table[q] \in Frames /\ page_table[q] # f
      BY <1>2, <1>9, <1>10, <2>2 DEF Cached
    <3>2. \A x \in Holders(page_table[q]) : x # h
      BY <1>0, <3>1 DEF Holders
    <3>3. \A x \in Holders(page_table[q]) : handle[x].wrote =>
              x \in Holders(page_table[q])' /\ handle'[x].wrote
      BY <1>2, <1>5, <3>2 DEF Holders, Open
    <3> QED
      BY <1>2, <1>4, <3>1, <3>3, SameMark
  <2> QED
    BY <2>1, <2>2
<1>11. HandleInv'
  BY <1>6, <1>7, <1>8, <1>10 DEF HandleInv, NoUnmarkedChange, Marked
<1>12. Visible(p)' = c /\ Pins(p) > 0
  BY <1>1, <1>2, <1>4 DEF Visible, Cached, Pins
<1>13. \A q \in Pages \ {p} : Visible(q)' = Visible(q)
  BY <1>2, <1>4, <1>9 DEF Visible, Cached
<1>14. \A q \in Pages : Pins(q)' = Pins(q)
  BY <1>2, <1>4, SameView DEF ClientInv
<1> QED
  BY <1>2, <1>11, <1>12, <1>13, <1>14

(* A handle is dropped, with or without a pin; others keep theirs. *)
LEMMA DropHandle ==
    ASSUME ClientInv, [ClientNext]_clientVars, NEW h \in Handles, Open(h),
           handle' = [handle EXCEPT ![h] = Idle], NEW f, f = handle[h].frame
    PROVE  /\ handle' \in [Handles -> HandleType \cup {Idle}] /\ HandlesValid'
           /\ \A g \in Handles : g # h => handle'[g] = handle[g]
           /\ \A g \in Frames : Cardinality(Holders(g)') <=
                IF g = f THEN Cardinality(Holders(g)) - 1 ELSE Cardinality(Holders(g))
<1>1. handle \in [Handles -> HandleType \cup {Idle}]
  BY DEF ClientInv, HandleInv
<1>2. /\ handle'[h] = Idle /\ \A g \in Handles : g # h => handle'[g] = handle[g]
      /\ handle' \in [Handles -> HandleType \cup {Idle}]
  BY <1>1
<1>3. /\ HandlesValid'
      /\ \A g \in Frames : Cardinality(Holders(g)') <= Cardinality(Holders(g))
  BY <1>2, FewerHolders DEF Open
<1>4. f \in Frames
  BY OpenHandle
<1>5. Cardinality(Holders(f)') <= Cardinality(Holders(f)) - 1
  <2>1. Holders(f)' = Holders(f) \ {h} /\ h \in Holders(f)
    BY <1>2 DEF Holders, Open
  <2>2. Holders(f) \in SUBSET Handles
    BY DEF Holders
  <2>3. IsFiniteSet(Holders(f)) /\ Cardinality(Holders(f)) \in Nat
    BY <2>2, HandleSets
  <2>4. Cardinality(Holders(f) \ {h}) = Cardinality(Holders(f)) - 1
    BY <2>1, <2>3, FS_RemoveElement
  <2> QED
    BY <2>1, <2>3, <2>4
<1> QED
  BY <1>2, <1>3, <1>5

(* unpin_page takes back one pin, and marks the frame if the caller wrote. *)
LEMMA CloseKeeps ==
    ASSUME ClientInv, [ClientNext]_clientVars, NEW h \in Handles, Close(h),
           NEW p \in Pages, p = handle[h].page
    PROVE  /\ HandleInv'
           /\ \A q \in Pages : Visible(q)' = Visible(q)
           /\ Pins(p) > 0 /\ Pins(p)' = Pins(p) - 1
           /\ \A q \in Pages \ {p} : Pins(q)' = Pins(q)
           /\ UNCHANGED allocated
<1>0. PICK f : f = handle[h].frame
  OBVIOUS
<1>1. /\ f \in Frames /\ page_table[p] = f /\ Cached(p) /\ frames[f].page_id = p
      /\ frames[f].pin_count > 0 /\ frames[f].pin_count \in Nat
      /\ handle[h].wrote \in BOOLEAN
  BY <1>0, OpenHandle, PoolTypes DEF Close, ClientInv
<1>2. /\ frames' = [frames EXCEPT ![f].pin_count = @ - 1,
                                  ![f].is_dirty = @ \/ handle[h].wrote]
      /\ handle' = [handle EXCEPT ![h] = Idle] /\ Open(h)
      /\ page_table' = page_table /\ storage' = storage /\ allocated' = allocated
  BY <1>1 DEF Close, UnpinPage, diskVars
<1>3. frames \in [Frames -> FrameType]
  BY PoolTypes DEF ClientInv
<1>4. /\ frames'[f].pin_count = frames[f].pin_count - 1
      /\ \A g \in Frames : g # f => frames'[g] = frames[g]
      /\ \A g \in Frames : frames'[g].data = frames[g].data
      /\ \A g \in Frames : frames[g].is_dirty => frames'[g].is_dirty
  BY <1>1, <1>2, <1>3 DEF FrameType
<1>5. handle[h].wrote => frames'[f].is_dirty
  BY <1>1, <1>2, <1>3 DEF FrameType
<1>6. /\ handle' \in [Handles -> HandleType \cup {Idle}] /\ HandlesValid'
      /\ \A g \in Handles : g # h => handle'[g] = handle[g]
      /\ \A g \in Frames : Cardinality(Holders(g)') <=
            IF g = f THEN Cardinality(Holders(g)) - 1 ELSE Cardinality(Holders(g))
  BY <1>0, <1>2, DropHandle
<1>7. PinsCover'
  <2> SUFFICES ASSUME NEW g \in Frames
               PROVE  Cardinality(Holders(g)') <= frames'[g].pin_count
    BY DEF PinsCover
  <2>1. Holders(g) \in SUBSET Handles /\ Holders(g)' \in SUBSET Handles
    BY DEF Holders
  <2>2. Cardinality(Holders(g)) \in Nat /\ Cardinality(Holders(g)') \in Nat
    BY <2>1, HandleSets
  <2>3. Cardinality(Holders(g)) <= frames[g].pin_count /\ frames[g].pin_count \in Nat
    BY PoolTypes DEF ClientInv, HandleInv, PinsCover
  <2>4. frames'[g].pin_count = IF g = f THEN frames[g].pin_count - 1
                                        ELSE frames[g].pin_count
    BY <1>4
  <2>5. Cardinality(Holders(g)') <=
            IF g = f THEN Cardinality(Holders(g)) - 1 ELSE Cardinality(Holders(g))
    BY <1>6
  <2> QED
    BY <2>2, <2>3, <2>4, <2>5
<1>8. ASSUME NEW q \in Pages, Cached(q)' PROVE Marked(q)'
  <2>1. PICK g : g = page_table[q]
    OBVIOUS
  <2>2. Cached(q) /\ g \in Frames
    BY <1>2, <1>8, <2>1, CachedFrame DEF Cached, ClientInv, PoolInv
  <2>3. ASSUME NEW x \in Holders(g), handle[x].wrote
        PROVE  (x \in Holders(g)' /\ handle'[x].wrote) \/ frames'[g].is_dirty
    <3>1. CASE x = h
      BY <1>0, <1>5, <2>3, <3>1 DEF Holders
    <3>2. CASE x # h
      BY <1>6, <2>3, <3>2 DEF Holders, Open
    <3> QED
      BY <3>1, <3>2
  <2> QED
    BY <1>2, <1>4, <2>1, <2>2, <2>3, SameMark
<1>9. HandleInv'
  BY <1>6, <1>7, <1>8 DEF HandleInv, NoUnmarkedChange, Marked
<1>10. \A q \in Pages : Visible(q)' = Visible(q)
  BY <1>2, <1>4, SameView DEF ClientInv
<1>11. Pins(p) > 0 /\ Pins(p)' = Pins(p) - 1
  BY <1>1, <1>2, <1>4 DEF Pins, Cached
<1>12. ASSUME NEW q \in Pages \ {p} PROVE Pins(q)' = Pins(q)
  <2>1. Cached(q) => page_table[q] \in Frames /\ page_table[q] # f
    BY <1>1, CachedFrame DEF ClientInv, PoolInv
  <2>2. Cached(q) => frames'[page_table[q]] = frames[page_table[q]]
    BY <1>4, <2>1
  <2>3. page_table' = page_table
    BY <1>2
  <2> QED
    BY <2>2, <2>3 DEF Pins, Cached
<1> QED
  BY <1>2, <1>9, <1>10, <1>11, <1>12

(* An early return forgets the handle and leaves the pin. *)
LEMMA AbandonKeeps ==
    ASSUME ClientInv, [ClientNext]_clientVars, NEW h \in Handles, Abandon(h)
    PROVE  HandleInv'
<1>0. PICK f : f = handle[h].frame
  OBVIOUS
<1>1. /\ handle' = [handle EXCEPT ![h] = Idle] /\ Open(h) /\ ~handle[h].wrote
      /\ frames' = frames /\ page_table' = page_table /\ storage' = storage
  BY DEF Abandon, vars, diskVars
<1>2. /\ handle' \in [Handles -> HandleType \cup {Idle}] /\ HandlesValid'
      /\ \A g \in Handles : g # h => handle'[g] = handle[g]
      /\ \A g \in Frames : Cardinality(Holders(g)') <=
            IF g = f THEN Cardinality(Holders(g)) - 1 ELSE Cardinality(Holders(g))
  BY <1>0, <1>1, DropHandle
<1>3. PinsCover'
  <2> SUFFICES ASSUME NEW g \in Frames
               PROVE  Cardinality(Holders(g)') <= frames[g].pin_count
    BY <1>1 DEF PinsCover
  <2>1. Holders(g) \in SUBSET Handles /\ Holders(g)' \in SUBSET Handles
    BY DEF Holders
  <2>2. Cardinality(Holders(g)) \in Nat /\ Cardinality(Holders(g)') \in Nat
    BY <2>1, HandleSets
  <2>3. Cardinality(Holders(g)) <= frames[g].pin_count /\ frames[g].pin_count \in Nat
    BY PoolTypes DEF ClientInv, HandleInv, PinsCover
  <2>4. Cardinality(Holders(g)') <=
            IF g = f THEN Cardinality(Holders(g)) - 1 ELSE Cardinality(Holders(g))
    BY <1>2
  <2> QED
    BY <2>2, <2>3, <2>4
<1>4. ASSUME NEW q \in Pages, Cached(q)' PROVE Marked(q)'
  <2>1. PICK g : g = page_table[q]
    OBVIOUS
  <2>2. Cached(q)
    BY <1>1, <1>4 DEF Cached
  <2>3. \A x \in Holders(g) : handle[x].wrote => x \in Holders(g)' /\ handle'[x].wrote
    BY <1>1, <1>2 DEF Holders, Open
  <2> QED
    BY <1>1, <2>1, <2>2, <2>3, SameMark
<1> QED
  BY <1>2, <1>3, <1>4 DEF HandleInv, NoUnmarkedChange, Marked

(* new_page without a frame: the page is allocated and lost. *)
LEMMA NoFrameKeeps ==
    ASSUME ClientInv, [ClientNext]_clientVars, UNCHANGED handle,
           NEW p \in Pages, NewPageNoFrame(p)
    PROVE  /\ HandleInv'
           /\ Visible(p)' = Zero
           /\ \A q \in Pages \ {p} : Visible(q)' = Visible(q)
           /\ \A q \in Pages : Pins(q)' = Pins(q)
           /\ p \notin allocated /\ allocated' = allocated \cup {p}
<1>1. /\ Disk!Reserve(p) /\ storage' = [storage EXCEPT ![p] = Zero]
      /\ frames' = frames /\ page_table' = page_table
  BY DEF NewPageNoFrame, Disk!AllocatePage
<1>2. p \notin allocated /\ ~Cached(p) /\ allocated' = allocated \cup {p}
  BY <1>1, GrantedFree
<1>3. storage'[p] = Zero /\ \A q \in Pages : q # p => storage'[q] = storage[q]
  BY <1>1, PoolTypes DEF ClientInv
<1>4. /\ handle' \in [Handles -> HandleType \cup {Idle}] /\ HandlesValid' /\ PinsCover'
      /\ \A f \in Frames : Holders(f)' = Holders(f)
  BY <1>1, HandlesUntouched
<1>5. ASSUME NEW q \in Pages, Cached(q)' PROVE Marked(q)'
  <2>1. PICK g : g = page_table[q]
    OBVIOUS
  <2>2. Cached(q) /\ q # p /\ g \in Frames
    BY <1>1, <1>2, <1>5, <2>1, CachedFrame DEF Cached, ClientInv, PoolInv
  <2>3. \A x \in Holders(g) : handle[x].wrote => x \in Holders(g)' /\ handle'[x].wrote
    BY <1>4, <2>2
  <2> QED
    BY <1>1, <1>3, <2>1, <2>2, <2>3, SameMark
<1>6. HandleInv'
  BY <1>4, <1>5 DEF HandleInv, NoUnmarkedChange, Marked
<1> QED
  BY <1>1, <1>2, <1>3, <1>6 DEF Visible, Cached, Pins

(* flush_page is not seen. *)
LEMMA FlushKeeps ==
    ASSUME ClientInv, [ClientNext]_clientVars, UNCHANGED handle,
           NEW p \in Pages, FlushPage(p)
    PROVE  /\ HandleInv'
           /\ \A q \in Pages : Visible(q)' = Visible(q) /\ Pins(q)' = Pins(q)
           /\ UNCHANGED allocated
<1>0. PICK f : f = page_table[p]
  OBVIOUS
<1>1. /\ Cached(p) /\ storage' = [storage EXCEPT ![p] = frames[f].data]
      /\ frames' = [frames EXCEPT ![f].is_dirty = FALSE]
      /\ page_table' = page_table /\ UNCHANGED allocated
  BY <1>0 DEF FlushPage, Disk!WritePage
<1>2. f \in Frames /\ frames[f].page_id = p /\ frames \in [Frames -> FrameType]
  BY <1>0, <1>1, CachedFrame, PoolTypes DEF ClientInv, PoolInv
<1>3. /\ \A g \in Frames : /\ frames'[g].pin_count = frames[g].pin_count
                           /\ frames'[g].data = frames[g].data
      /\ \A g \in Frames : g # f => frames'[g] = frames[g]
  BY <1>1, <1>2 DEF FrameType
<1>4. storage'[p] = frames[f].data /\ \A q \in Pages : q # p => storage'[q] = storage[q]
  BY <1>1, PoolTypes DEF ClientInv
<1>5. /\ handle' \in [Handles -> HandleType \cup {Idle}] /\ HandlesValid' /\ PinsCover'
      /\ \A g \in Frames : Holders(g)' = Holders(g)
  BY <1>3, HandlesUntouched
<1>6. ASSUME NEW q \in Pages, Cached(q)' PROVE Marked(q)'
  <2>1. CASE q = p
    BY <1>0, <1>1, <1>2, <1>3, <1>4, <2>1 DEF Marked
  <2>2. CASE q # p
    <3>1. PICK g : g = page_table[q]
      OBVIOUS
    <3>2. Cached(q)
      BY <1>1, <1>6 DEF Cached
    <3>3. g \in Frames /\ g # f
      BY <1>2, <2>2, <3>1, <3>2, CachedFrame DEF ClientInv, PoolInv
    <3>4. \A x \in Holders(g) : handle[x].wrote => x \in Holders(g)' /\ handle'[x].wrote
      BY <1>5, <3>3
    <3> QED
      BY <1>1, <1>3, <1>4, <2>2, <3>1, <3>2, <3>3, <3>4, SameMark
  <2> QED
    BY <2>1, <2>2
<1>7. HandleInv'
  BY <1>5, <1>6 DEF HandleInv, NoUnmarkedChange, Marked
<1>8. \A q \in Pages : Pins(q)' = Pins(q)
  BY <1>1, <1>3, SameView DEF ClientInv
<1>9. ASSUME NEW q \in Pages PROVE Visible(q)' = Visible(q)
  <2>1. Cached(q) => page_table[q] \in Frames
    BY CachedFrame DEF ClientInv, PoolInv
  <2>2. page_table' = page_table
    BY <1>1
  <2> QED
    BY <1>1, <1>3, <1>4, <2>1, <2>2 DEF Visible, Cached
<1> QED
  BY <1>1, <1>7, <1>8, <1>9

(* flush_all is not seen. *)
LEMMA FlushAllKeeps ==
    ASSUME ClientInv, [ClientNext]_clientVars, UNCHANGED handle, FlushAll
    PROVE  /\ HandleInv'
           /\ \A q \in Pages : Visible(q)' = Visible(q) /\ Pins(q)' = Pins(q)
           /\ UNCHANGED allocated
<1>1. /\ storage' = [q \in Pages |->
            IF Cached(q) /\ frames[page_table[q]].is_dirty
            THEN frames[page_table[q]].data ELSE storage[q]]
      /\ frames' = [f \in Frames |->
            IF \E q \in Pages : page_table[q] = f
            THEN [frames[f] EXCEPT !.is_dirty = FALSE] ELSE frames[f]]
      /\ page_table' = page_table /\ UNCHANGED allocated
  BY DEF FlushAll
<1>2. \A f \in Frames : /\ frames'[f].pin_count = frames[f].pin_count
                        /\ frames'[f].data = frames[f].data
  BY <1>1, PoolTypes DEF ClientInv, FrameType
<1>3. /\ handle' \in [Handles -> HandleType \cup {Idle}] /\ HandlesValid' /\ PinsCover'
      /\ \A f \in Frames : Holders(f)' = Holders(f)
  BY <1>2, HandlesUntouched
<1>4. ASSUME NEW q \in Pages
      PROVE  /\ Visible(q)' = Visible(q)
             /\ Cached(q)' => Marked(q)'
  <2>1. PICK g : g = page_table[q]
    OBVIOUS
  <2>2. CASE ~Cached(q)
    BY <1>1, <2>2 DEF Visible, Cached
  <2>3. CASE Cached(q)
    <3>1. g \in Frames /\ frames'[g].data = frames[g].data /\ page_table'[q] = g
      BY <1>1, <1>2, <2>1, <2>3, CachedFrame DEF ClientInv, PoolInv
    <3>2. Visible(q)' = Visible(q)
      BY <2>1, <2>3, <3>1 DEF Visible, Cached
    <3>3. CASE frames[g].is_dirty
      <4>1. storage'[q] = frames[g].data
        BY <1>1, <2>1, <2>3, <3>3
      <4> QED
        BY <3>1, <3>2, <4>1 DEF Marked
    <3>4. CASE ~frames[g].is_dirty
      <4>1. storage'[q] = storage[q]
        BY <1>1, <2>1, <2>3, <3>4
      <4>2. \A x \in Holders(g) : handle[x].wrote => x \in Holders(g)' /\ handle'[x].wrote
        BY <1>3, <3>1
      <4> QED
        BY <2>1, <2>3, <3>1, <3>2, <3>4, <4>1, <4>2, SameMark
    <3> QED
      BY <3>3, <3>4
  <2> QED
    BY <2>2, <2>3
<1>5. HandleInv'
  BY <1>3, <1>4 DEF HandleInv, NoUnmarkedChange, Marked
<1>6. \A q \in Pages : Pins(q)' = Pins(q)
  BY <1>1, <1>2, SameView DEF ClientInv
<1> QED
  BY <1>1, <1>4, <1>5, <1>6

(* delete_page of a cached page that has no pin. *)
LEMMA DeleteKeeps ==
    ASSUME ClientInv, [ClientNext]_clientVars, UNCHANGED handle,
           NEW p \in Pages, DeleteCached(p)
    PROVE  /\ HandleInv'
           /\ \A q \in Pages \ {p} : Visible(q)' = Visible(q)
           /\ \A q \in Pages : Pins(q)' = Pins(q)
           /\ Pins(p) = 0 /\ p \in allocated /\ allocated' = allocated \ {p}
<1>0. PICK f : f = page_table[p]
  OBVIOUS
<1>1. /\ Cached(p) /\ frames[f].pin_count = 0 /\ Disk!Release(p)
      /\ frames' = [frames EXCEPT ![f] = EmptyFrame(frames[f].data)]
      /\ page_table' = [page_table EXCEPT ![p] = None]
      /\ storage' = storage
  BY <1>0 DEF DeleteCached, Disk!DeallocatePage
<1>2. /\ f \in Frames /\ frames[f].page_id = p
      /\ frames \in [Frames -> FrameType] /\ page_table \in [Pages -> Frames \cup {None}]
  BY <1>0, <1>1, CachedFrame, PoolTypes DEF ClientInv, PoolInv
<1>3. p \in allocated /\ allocated' = allocated \ {p}
  <2>1. p \in allocated
    BY <1>1 DEF ClientInv, OwnedInv, CachedAllocated
  <2> QED
    BY <1>1, <2>1 DEF Disk!Release
<1>4. /\ \A g \in Frames : g # f => frames'[g] = frames[g]
      /\ page_table'[p] = None /\ \A q \in Pages : q # p => page_table'[q] = page_table[q]
  BY <1>1, <1>2
<1>5. /\ handle' \in [Handles -> HandleType \cup {Idle}] /\ HandlesValid' /\ PinsCover'
      /\ \A g \in Frames : Holders(g)' = Holders(g)
  BY <1>1, <1>4, HandlesUntouched
<1>6. ASSUME NEW q \in Pages, q # p, Cached(q)
      PROVE  page_table[q] \in Frames /\ frames'[page_table[q]] = frames[page_table[q]]
  BY <1>2, <1>4, <1>6, CachedFrame DEF ClientInv, PoolInv
<1>7. ASSUME NEW q \in Pages, Cached(q)' PROVE Marked(q)'
  <2>1. PICK g : g = page_table[q]
    OBVIOUS
  <2>2. q # p /\ Cached(q)
    BY <1>4, <1>7 DEF Cached
  <2>3. g \in Frames /\ frames'[g] = frames[g]
    BY <1>6, <2>1, <2>2
  <2>4. \A x \in Holders(g) : handle[x].wrote => x \in Holders(g)' /\ handle'[x].wrote
    BY <1>5, <2>3
  <2> QED
    BY <1>1, <1>4, <2>1, <2>2, <2>3, <2>4, SameMark
<1>8. HandleInv'
  BY <1>5, <1>7 DEF HandleInv, NoUnmarkedChange, Marked
<1>9. Pins(p) = 0 /\ Pins(p)' = 0
  BY <1>0, <1>1, <1>4 DEF Pins, Cached
<1>10. \A q \in Pages \ {p} : Visible(q)' = Visible(q) /\ Pins(q)' = Pins(q)
  BY <1>1, <1>4, <1>6 DEF Visible, Cached, Pins
<1> QED
  BY <1>3, <1>8, <1>9, <1>10

(* delete_page of a page that is not cached. *)
LEMMA ReleaseUncachedKeeps ==
    ASSUME ClientInv, [ClientNext]_clientVars, UNCHANGED handle,
           NEW p \in Pages, DeleteUncached(p)
    PROVE  /\ HandleInv'
           /\ \A q \in Pages : Visible(q)' = Visible(q) /\ Pins(q)' = Pins(q)
           /\ Pins(p) = 0 /\ allocated' = allocated \ {p}
<1>1. /\ ~Cached(p) /\ Disk!Release(p)
      /\ frames' = frames /\ page_table' = page_table /\ storage' = storage
  BY DEF DeleteUncached, Disk!DeallocatePage
<1>2. allocated' = allocated \ {p}
  BY <1>1 DEF Disk!Release
<1>3. /\ handle' \in [Handles -> HandleType \cup {Idle}] /\ HandlesValid' /\ PinsCover'
      /\ \A f \in Frames : Holders(f)' = Holders(f)
  BY <1>1, HandlesUntouched
<1>4. ASSUME NEW q \in Pages, Cached(q)' PROVE Marked(q)'
  <2>1. PICK g : g = page_table[q]
    OBVIOUS
  <2>2. Cached(q) /\ g \in Frames
    BY <1>1, <1>4, <2>1, CachedFrame DEF Cached, ClientInv, PoolInv
  <2>3. \A x \in Holders(g) : handle[x].wrote => x \in Holders(g)' /\ handle'[x].wrote
    BY <1>3, <2>2
  <2> QED
    BY <1>1, <2>1, <2>2, <2>3, SameMark
<1>5. HandleInv'
  BY <1>3, <1>4 DEF HandleInv, NoUnmarkedChange, Marked
<1> QED
  BY <1>1, <1>2, <1>5 DEF Visible, Cached, Pins

-----------------------------------------------------------------------------

(* A step that changes nothing. *)
LEMMA NothingKeeps ==
    ASSUME ClientInv, UNCHANGED clientVars
    PROVE  HandleInv'
BY DEF ClientInv, HandleInv, HandlesValid, PinsCover, NoUnmarkedChange, Holders, Open,
       Cached, clientVars, vars, diskVars

(* Every step keeps the invariant. *)
LEMMA ClientStep ==
    ASSUME ClientInv, [ClientNext]_clientVars
    PROVE  ClientInv'
<1>1. ASSUME NEW h \in Handles, NEW p \in allocated, OpenPage(h, p) PROVE HandleInv'
  BY <1>1, OpenKeeps, PoolTypes DEF ClientInv
<1>2. ASSUME NEW h \in Handles, NEW p \in Pages, OpenNewPage(h, p) PROVE HandleInv'
  BY <1>2, OpenNewKeeps
<1>3. ASSUME NEW h \in Handles, NEW c \in Contents, Edit(h, c) PROVE HandleInv'
  BY <1>3, EditKeeps, OpenHandle DEF Edit
<1>4. ASSUME NEW h \in Handles, Close(h) PROVE HandleInv'
  BY <1>4, CloseKeeps, OpenHandle DEF Close
<1>5. ASSUME NEW h \in Handles, Abandon(h) PROVE HandleInv'
  BY <1>5, AbandonKeeps
<1>6. ASSUME WithoutHandle PROVE HandleInv'
  BY <1>6, NoFrameKeeps, FlushKeeps, DeleteKeeps, ReleaseUncachedKeeps, FlushAllKeeps
     DEF WithoutHandle
<1>7. ASSUME UNCHANGED clientVars PROVE HandleInv'
  BY <1>7, NothingKeeps
<1>8. HandleInv'
  BY <1>1, <1>2, <1>3, <1>4, <1>5, <1>6, <1>7 DEF ClientNext, ClientRest
<1> QED
  BY <1>8, PoolKept DEF ClientInv

(* It holds at the start. *)
LEMMA ClientStart == ClientInit => ClientInv
<1> SUFFICES ASSUME ClientInit PROVE ClientInv
  OBVIOUS
<1>1. handle = [h \in Handles |-> Idle] /\ Init
  BY DEF ClientInit
<1>2. /\ page_table = [p \in Pages |-> None]
      /\ frames = [f \in Frames |-> EmptyFrame(Zero)]
  BY <1>1 DEF Init
<1>3. PoolInv
  BY <1>1, PoolStart
<1>4. OwnedInv
  BY <1>2 DEF OwnedInv, CachedAllocated, Cached, FramesMapped, EmptyFrames, EmptyFrame
<1>5. \A f \in Frames : Holders(f) = {} /\ frames[f].pin_count = 0
  BY <1>1, <1>2 DEF Holders, Open, EmptyFrame
<1>6. PinsCover
  BY <1>5, FS_EmptySet DEF PinsCover
<1>7. /\ handle \in [Handles -> HandleType \cup {Idle}]
      /\ HandlesValid /\ NoUnmarkedChange
  BY <1>1, <1>2 DEF HandlesValid, NoUnmarkedChange, Open, Cached
<1> QED
  BY <1>3, <1>4, <1>6, <1>7 DEF ClientInv, HandleInv

(* The callers and the pool keep their invariant. *)
LEMMA ClientBookkeeping == ClientSpec => []ClientInv
<1>1. ClientInv /\ [ClientNext]_clientVars => ClientInv'
  BY ClientStep
<1> QED
  BY <1>1, ClientStart, PTL DEF ClientSpec

(***************************************************************************)
(* For every pool size, disk size and number of callers that fetch only    *)
(* pages in use: the frame id a caller remembers is the frame of its page  *)
(* until it unpins it, whatever the other callers load, evict, flush or    *)
(* delete in between. (A fetch of a freed page, by get or delete of a row  *)
(* id on it or by the inspector, is no step of these callers, and behind   *)
(* one this can fail.)                                                     *)
(***************************************************************************)
THEOREM HandlesAlwaysValid == ClientSpec => [](HandleTypeOK /\ HandlesValid)
<1>1. ClientInv => HandleTypeOK /\ HandlesValid
  BY PoolInvParts DEF ClientInv, HandleInv, HandleTypeOK
<1> QED
  BY <1>1, ClientBookkeeping, PTL

(***************************************************************************)
(* For the same pools, and callers that fetch only pages in use: bytes     *)
(* that differ from the disk page are marked dirty, or their writer still  *)
(* holds the page and will mark it, so no eviction drops a modification.   *)
(***************************************************************************)
THEOREM NoModificationLost == ClientSpec => []NoUnmarkedChange
<1>1. ClientInv => NoUnmarkedChange
  BY DEF ClientInv, HandleInv
<1> QED
  BY <1>1, ClientBookkeeping, PTL

-----------------------------------------------------------------------------

(***************************************************************************)
(* The pool implements PageStore.  The abstract store has room exactly     *)
(* when the pool has an unpinned frame: the pinned pages and the pinned    *)
(* frames are as many, as each pinned frame holds a page mapped to it.     *)
(***************************************************************************)
LEMMA StoreOperators ==
    /\ Store!Pages = Pages
    /\ Store!Pinned = {p \in Pages : Pins(p) > 0}
    /\ \A S : Store!Cardinality(S) = Cardinality(S)
<1>1. /\ Store!Pages = Pages
      /\ Store!Pinned = {p \in Pages : Pins(p) > 0}
  BY DEF Store!Pages, Pages, Store!Pinned, Pins
<1>2. \A S : Store!Cardinality(S) = Cardinality(S)
  BY DEF Store!Cardinality, Cardinality
<1> QED
  BY <1>1, <1>2

(* The page store has room exactly when a frame has no pin. *)
LEMMA Room ==
    ASSUME ClientInv
    PROVE  Store!HasRoom <=> \E f \in Frames : frames[f].pin_count = 0
<1> DEFINE P == {p \in Pages : Pins(p) > 0}
           F == {f \in Frames : frames[f].pin_count > 0}
           g == [p \in P |-> page_table[p]]
<1>1. ASSUME NEW p \in P
      PROVE  page_table[p] \in F /\ frames[page_table[p]].page_id = p
  <2>1. Cached(p)
    BY DEF Pins
  <2> QED
    BY <2>1, CachedFrame DEF Pins, ClientInv, PoolInv
<1>2. ASSUME NEW f \in F PROVE frames[f].page_id \in P /\ page_table[frames[f].page_id] = f
  <2>1. f \notin EmptyFrames
    BY DEF ClientInv, PoolInv, PoolShape, EmptyFramesIdle
  <2>2. frames[f].page_id \in Pages
    BY <2>1, PoolTypes DEF ClientInv, FrameType, EmptyFrames
  <2>3. page_table[frames[f].page_id] = f
    BY <2>1 DEF ClientInv, OwnedInv, FramesMapped
  <2> QED
    BY <2>2, <2>3, Constants DEF Pins, Cached
<1>3. ExistsBijection(P, F)
  <2>1. g \in [P -> F]
    BY <1>1
  <2>2. ASSUME NEW a \in P, NEW b \in P, g[a] = g[b] PROVE a = b
    BY <1>1, <2>2
  <2>3. ASSUME NEW f \in F PROVE \E p \in P : g[p] = f
    BY <1>2
  <2> HIDE DEF g, P, F
  <2>4. g \in Bijection(P, F)
    BY <2>1, <2>2, <2>3, Fun_IsBij
  <2> QED
    BY <2>4, Fun_ExistsBij
<1>4. IsFiniteSet(Pages) /\ IsFiniteSet(Frames) /\ Cardinality(Frames) = PoolSize
  BY Constants, FS_Interval DEF Pages, Frames
<1>5. IsFiniteSet(P) /\ Cardinality(F) = Cardinality(P)
  <2>1. IsFiniteSet(P)
    BY <1>4, FS_Subset
  <2> HIDE DEF P, F
  <2> QED
    BY <2>1, <1>3, FS_Bijection
<1>6. /\ Cardinality(F) <= Cardinality(Frames)
      /\ Cardinality(Frames) = Cardinality(F) => Frames = F
      /\ Cardinality(F) \in Nat
  <2>1. F \in SUBSET Frames
    OBVIOUS
  <2> HIDE DEF F
  <2> QED
    BY <1>4, <2>1, FS_Subset, FS_CardinalityType
<1>7. Store!HasRoom <=> Cardinality(F) < PoolSize
  BY <1>5, StoreOperators DEF Store!HasRoom
<1>8. Frames = F <=> ~ \E f \in Frames : frames[f].pin_count = 0
  BY PoolTypes DEF ClientInv
<1> HIDE DEF F, P
<1> QED
  BY <1>4, <1>6, <1>7, <1>8, Constants

(* get_free_frame finds a frame exactly when the abstract store has room. *)
LEMMA RoomMeansFrame ==
    ASSUME ClientInv
    PROVE  HasFreeFrame <=> Store!HasRoom
<1>1. HasFreeFrame => Store!HasRoom
  BY Room, FreeFrameProperties DEF ClientInv, PoolInv
<1>2. ~HasFreeFrame => \A f \in Frames : frames[f].pin_count > 0
  BY RefusedWhenPinned DEF ClientInv, PoolInv, FailsOnlyWhenPinned
<1>3. ~HasFreeFrame => ~Store!HasRoom
  BY <1>2, Room, PoolTypes DEF ClientInv
<1> QED
  BY <1>1, <1>3

(* The mapped state does not change when its parts do not. *)
LEMMA StoreStutters ==
    ASSUME UNCHANGED allocated,
           \A q \in Pages : Visible(q)' = Visible(q) /\ Pins(q)' = Pins(q),
           allocated \subseteq Pages
    PROVE  UNCHANGED Store!vars
BY DEF Store!vars, Pins

(* fetch_page is Fetch of the page store. *)
LEMMA StoreFetches ==
    ASSUME ClientInv, [ClientNext]_clientVars,
           NEW h \in Handles, NEW p \in allocated, OpenPage(h, p)
    PROVE  Store!Fetch(p)
<1>1. p \in Pages /\ allocated \subseteq Pages
  BY PoolTypes DEF ClientInv
<1>2. /\ \A q \in Pages : Visible(q)' = Visible(q)
      /\ Pins(p)' = Pins(p) + 1
      /\ \A q \in Pages \ {p} : Pins(q)' = Pins(q)
      /\ UNCHANGED allocated
  BY <1>1, OpenKeeps
<1>3. p \in Store!Pinned \/ Store!HasRoom
  <2>1. CASE FetchHit(p)
    <3>1. page_table[p] \in Frames /\ Cached(p)
      BY <1>1, <2>1, CachedFrame DEF FetchHit, ClientInv, PoolInv
    <3>2. Pins(p) = frames[page_table[p]].pin_count /\ Pins(p) \in Nat
      BY <3>1, PoolTypes DEF Pins, ClientInv
    <3> QED
      BY <1>1, <3>1, <3>2, Room, StoreOperators
  <2>2. CASE FetchMiss(p)
    BY <2>2, RoomMeansFrame DEF FetchMiss
  <2> QED
    BY <2>1, <2>2 DEF OpenPage, Fetch
<1>4. [q \in allocated |-> Visible(q)]' = [q \in allocated |-> Visible(q)]
  BY <1>1, <1>2
<1>5. [q \in Pages |-> Pins(q)]' = [[q \in Pages |-> Pins(q)] EXCEPT ![p] = @ + 1]
  BY <1>1, <1>2
<1> QED
  BY <1>2, <1>3, <1>4, <1>5 DEF Store!Fetch, Pins

(* new_page is NewPage. *)
LEMMA StoreCreates ==
    ASSUME ClientInv, [ClientNext]_clientVars,
           NEW h \in Handles, NEW p \in Pages, OpenNewPage(h, p)
    PROVE  Store!NewPage(p)
<1>0. allocated \subseteq Pages
  BY PoolTypes DEF ClientInv
<1>1. /\ Visible(p)' = Fresh
      /\ \A q \in Pages \ {p} : Visible(q)' = Visible(q)
      /\ Pins(p)' = 1
      /\ \A q \in Pages \ {p} : Pins(q)' = Pins(q)
      /\ p \notin allocated /\ allocated' = allocated \cup {p}
  BY OpenNewKeeps
<1>2. Store!HasRoom
  BY RoomMeansFrame DEF OpenNewPage, NewPage
<1>3. [q \in allocated |-> Visible(q)]' =
        [q \in allocated \cup {p} |->
            IF q = p THEN Fresh ELSE [r \in allocated |-> Visible(r)][q]]
  BY <1>0, <1>1
<1>4. [q \in Pages |-> Pins(q)]' = [[q \in Pages |-> Pins(q)] EXCEPT ![p] = 1]
  BY <1>1
<1> QED
  BY <1>1, <1>2, <1>3, <1>4 DEF Store!NewPage, Store!Create, Pins

(* new_page without a frame is WastePage. *)
LEMMA StoreWastes ==
    ASSUME ClientInv, [ClientNext]_clientVars, UNCHANGED handle,
           NEW p \in Pages, NewPageNoFrame(p)
    PROVE  Store!WastePage(p)
<1>0. allocated \subseteq Pages
  BY PoolTypes DEF ClientInv
<1>1. /\ Visible(p)' = Zero
      /\ \A q \in Pages \ {p} : Visible(q)' = Visible(q)
      /\ \A q \in Pages : Pins(q)' = Pins(q)
      /\ p \notin allocated /\ allocated' = allocated \cup {p}
  BY NoFrameKeeps
<1>2. ~Store!HasRoom
  BY RoomMeansFrame DEF NewPageNoFrame
<1>3. [q \in allocated |-> Visible(q)]' =
        [q \in allocated \cup {p} |->
            IF q = p THEN Zero ELSE [r \in allocated |-> Visible(r)][q]]
  BY <1>0, <1>1
<1>4. [q \in Pages |-> Pins(q)]' = [q \in Pages |-> Pins(q)]
  BY <1>1
<1> QED
  BY <1>1, <1>2, <1>3, <1>4 DEF Store!WastePage, Store!Create, Pins

(* A change of the bytes in a frame is Write. *)
LEMMA StoreWrites ==
    ASSUME ClientInv, [ClientNext]_clientVars,
           NEW h \in Handles, NEW c \in Contents, Edit(h, c)
    PROVE  \E p \in Pages : Store!Write(p, c)
<1>1. PICK p \in Pages : p = handle[h].page
  BY OpenHandle DEF Edit
<1>2. p \in allocated /\ allocated \subseteq Pages
  BY <1>1, OpenHandle, PoolTypes DEF Edit, ClientInv, OwnedInv, CachedAllocated
<1>3. /\ Visible(p)' = c
      /\ \A q \in Pages \ {p} : Visible(q)' = Visible(q)
      /\ Pins(p) > 0
      /\ \A q \in Pages : Pins(q)' = Pins(q)
      /\ UNCHANGED allocated
  BY <1>1, EditKeeps
<1>4. [q \in allocated |-> Visible(q)]' = [[q \in allocated |-> Visible(q)] EXCEPT ![p] = c]
  BY <1>2, <1>3
<1>5. [q \in Pages |-> Pins(q)]' = [q \in Pages |-> Pins(q)]
  BY <1>3
<1>6. p \in Store!Pinned
  BY <1>3, StoreOperators
<1>7. Store!Write(p, c)
  BY <1>3, <1>4, <1>5, <1>6 DEF Store!Write, Pins
<1> QED
  BY <1>7

(* unpin_page is Unpin. *)
LEMMA StoreUnpins ==
    ASSUME ClientInv, [ClientNext]_clientVars, NEW h \in Handles, Close(h)
    PROVE  \E p \in Pages : Store!Unpin(p)
<1>1. PICK p \in Pages : p = handle[h].page
  BY OpenHandle DEF Close
<1>2. allocated \subseteq Pages
  BY PoolTypes DEF ClientInv
<1>3. /\ \A q \in Pages : Visible(q)' = Visible(q)
      /\ Pins(p) > 0 /\ Pins(p)' = Pins(p) - 1
      /\ \A q \in Pages \ {p} : Pins(q)' = Pins(q)
      /\ UNCHANGED allocated
  BY <1>1, CloseKeeps
<1>4. [q \in allocated |-> Visible(q)]' = [q \in allocated |-> Visible(q)]
  BY <1>2, <1>3
<1>5. [q \in Pages |-> Pins(q)]' = [[q \in Pages |-> Pins(q)] EXCEPT ![p] = @ - 1]
  BY <1>3
<1>6. p \in Store!Pinned
  BY <1>3, StoreOperators
<1>7. Store!Unpin(p)
  BY <1>3, <1>4, <1>5, <1>6 DEF Store!Unpin, Pins
<1> QED
  BY <1>7

(* A page is freed: a live one without pins, or one that was free already. *)
LEMMA StoreDeletes ==
    ASSUME ClientInv, [ClientNext]_clientVars, UNCHANGED handle,
           NEW p \in Pages, DeleteCached(p) \/ DeleteUncached(p)
    PROVE  Store!Delete(p) \/ UNCHANGED Store!vars
<1>0. allocated \subseteq Pages
  BY PoolTypes DEF ClientInv
<1>1. /\ \A q \in Pages \ {p} : Visible(q)' = Visible(q)
      /\ \A q \in Pages : Pins(q)' = Pins(q)
      /\ Pins(p) = 0 /\ allocated' = allocated \ {p}
      /\ p \in allocated \/ Visible(p)' = Visible(p)
  BY DeleteKeeps, ReleaseUncachedKeeps
<1>2. CASE p \in allocated
  <2>1. p \notin Store!Pinned
    BY <1>1, StoreOperators
  <2>2. [q \in allocated |-> Visible(q)]' =
            [q \in allocated \ {p} |-> [r \in allocated |-> Visible(r)][q]]
    BY <1>0, <1>1
  <2>3. [q \in Pages |-> Pins(q)]' = [q \in Pages |-> Pins(q)]
    BY <1>1
  <2> QED
    BY <1>1, <1>2, <2>1, <2>2, <2>3 DEF Store!Delete, Pins
<1>3. CASE p \notin allocated
  BY <1>0, <1>1, <1>3, StoreStutters
<1> QED
  BY <1>2, <1>3

(* Every step of the pool and its callers is one of the page store, or none. *)
LEMMA StoreStep ==
    ASSUME ClientInv, [ClientNext]_clientVars
    PROVE  [Store!Next]_(Store!vars)
<1>0. allocated \subseteq Pages
  BY PoolTypes DEF ClientInv
<1>1. ASSUME NEW h \in Handles, NEW p \in allocated, OpenPage(h, p) PROVE Store!Next
  BY <1>0, <1>1, StoreFetches, StoreOperators DEF Store!Next
<1>2. ASSUME NEW h \in Handles, NEW p \in Pages, OpenNewPage(h, p) PROVE Store!Next
  BY <1>2, StoreCreates, StoreOperators DEF Store!Next
<1>3. ASSUME NEW h \in Handles, NEW c \in Contents, Edit(h, c) PROVE Store!Next
  BY <1>3, StoreWrites, StoreOperators DEF Store!Next
<1>4. ASSUME NEW h \in Handles, Close(h) PROVE Store!Next
  BY <1>4, StoreUnpins, StoreOperators DEF Store!Next
<1>5. ASSUME NEW h \in Handles, Abandon(h) PROVE UNCHANGED Store!vars
  BY <1>5 DEF Abandon, vars, diskVars, Store!vars, Visible, Cached
<1>6. ASSUME WithoutHandle PROVE Store!Next \/ UNCHANGED Store!vars
  <2>1. ASSUME NEW p \in Pages, NewPageNoFrame(p) PROVE Store!Next
    BY <1>6, <2>1, StoreWastes, StoreOperators DEF WithoutHandle, Store!Next
  <2>2. ASSUME NEW p \in Pages, FlushPage(p) PROVE UNCHANGED Store!vars
    BY <1>0, <1>6, <2>2, FlushKeeps, StoreStutters DEF WithoutHandle
  <2>3. ASSUME NEW p \in Pages, DeleteCached(p) \/ DeleteUncached(p)
        PROVE  Store!Next \/ UNCHANGED Store!vars
    BY <1>6, <2>3, StoreDeletes, StoreOperators DEF WithoutHandle, Store!Next
  <2>4. ASSUME FlushAll PROVE UNCHANGED Store!vars
    BY <1>0, <1>6, <2>4, FlushAllKeeps, StoreStutters DEF WithoutHandle
  <2> QED
    BY <1>6, <2>1, <2>2, <2>3, <2>4 DEF WithoutHandle
<1>7. ASSUME UNCHANGED clientVars PROVE UNCHANGED Store!vars
  BY <1>7 DEF clientVars, vars, diskVars, Store!vars, Visible, Cached
<1> QED
  BY <1>1, <1>2, <1>3, <1>4, <1>5, <1>6, <1>7 DEF ClientNext, ClientRest

(* The empty pool is the empty page store. *)
LEMMA StoreStart == ClientInit => Store!Init
<1> SUFFICES ASSUME ClientInit PROVE Store!Init
  OBVIOUS
<1>1. allocated = {} /\ page_table = [p \in Pages |-> None]
  BY DEF ClientInit, Init, Disk!Init
<1>2. [p \in Pages |-> IF Cached(p) THEN frames[page_table[p]].pin_count ELSE 0]
        = [p \in Pages |-> 0]
  BY <1>1 DEF Cached
<1> QED
  BY <1>1, <1>2, StoreOperators DEF Store!Init

(***************************************************************************)
(* For every pool size, disk size and number of callers that fetch only    *)
(* pages in use, caching is invisible: hits, misses, evictions and flushes *)
(* are steps of a store of pages whose contents change only when a holder  *)
(* writes them, and which refuses a page only when the pins fill the pool. *)
(***************************************************************************)
THEOREM CachingInvisible == ClientSpec => ImplementsPageStore
<1>1. ClientInv /\ [ClientNext]_clientVars => [Store!Next]_(Store!vars)
  BY StoreStep
<1> QED
  BY <1>1, StoreStart, ClientBookkeeping, PTL
     DEF ClientSpec, ImplementsPageStore, Store!Spec

=============================================================================
