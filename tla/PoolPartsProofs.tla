-------------------------- MODULE PoolPartsProofs --------------------------
(***************************************************************************)
(* The two parts that the buffer pool owns.                                *)
(*                                                                         *)
(* The disk's bookkeeping is right for every capacity, whatever pages are  *)
(* allocated, deallocated (twice, or without being allocated) and written. *)
(*                                                                         *)
(* For every set of frames and any sequence of calls, the replacer's queue *)
(* has no repetitions, lists the frames in the order of their last         *)
(* accesses, and evicts what the least-recently-used policy says.          *)
(***************************************************************************)
EXTENDS DiskManager, LruHistory, SequenceLemmas

-----------------------------------------------------------------------------

(* The disk. *)

(* The inductive invariant: the type, the free list, the prefix, the counter. *)
DiskInv == TypeOK /\ FreeListSound /\ UsedPagesArePrefix /\ CountExact

(* The number of set bits fits in the range of the counter. *)
LEMMA CountInRange ==
    ASSUME NEW A \in SUBSET Pages
    PROVE  /\ IsFiniteSet(A)
           /\ Cardinality(A) \in 0 .. MaxPages
<1>1. MaxPages \in Nat
  BY DiskAssumption
<1>2. IsFiniteSet(Pages) /\ Cardinality(Pages) = MaxPages
  BY <1>1, FS_Interval DEF Pages
<1>3. IsFiniteSet(A) /\ Cardinality(A) <= MaxPages
  BY <1>2, FS_Subset
<1>4. Cardinality(A) \in Nat
  BY <1>3, FS_CardinalityType
<1> QED
  BY <1>1, <1>3, <1>4

(* What Grants picks is a page in range that is not in use. *)
LEMMA GrantedIsUnused ==
    ASSUME TypeOK, FreeListSound, NEW p, Grants(p)
    PROVE  p \in Pages \ allocated
<1>1. CASE free_list # << >>
  BY <1>1, FrontProperties DEF TypeOK, FreeListSound, Grants
<1>2. CASE free_list = << >>
  BY <1>2 DEF Grants
<1> QED
  BY <1>1, <1>2

(* allocate_page keeps the bookkeeping right. *)
LEMMA ReserveKeeps ==
    ASSUME DiskInv, NEW p, Reserve(p), storage' \in [Pages -> Contents]
    PROVE  DiskInv'
<1> USE DEF DiskInv
<1>0. p \in Pages \ allocated
  BY GrantedIsUnused DEF Reserve
<1>1. CASE free_list # << >>
  <2>1. /\ p = Last(free_list)
        /\ free_list' = Front(free_list)
        /\ allocated' = allocated \cup {p}
        /\ num_allocated' = num_allocated + 1
    BY <1>1 DEF Reserve, Grants
  <2>2. /\ p \in ToSet(free_list)
        /\ free_list' \in Seq(Pages)
        /\ IsInjective(free_list')
        /\ ToSet(free_list') = ToSet(free_list) \ {p}
    BY <1>1, <2>1, FrontProperties DEF TypeOK, FreeListSound
  <2>3. allocated' \cup ToSet(free_list') = allocated \cup ToSet(free_list)
    BY <2>1, <2>2
  <2>4. FreeListSound'
    BY <2>1, <2>2 DEF FreeListSound
  <2>5. UsedPagesArePrefix'
    BY <2>3 DEF UsedPagesArePrefix
  <2>6. allocated' \in SUBSET Pages
    BY <1>0, <2>1 DEF TypeOK
  <2>7. CountExact' /\ num_allocated' \in 0 .. MaxPages
    <3>1. IsFiniteSet(allocated) /\ Cardinality(allocated) = num_allocated
      BY CountInRange DEF TypeOK, CountExact
    <3>2. Cardinality(allocated') = num_allocated'
      BY <1>0, <2>1, <3>1, FS_AddElement
    <3>3. Cardinality(allocated') \in 0 .. MaxPages
      BY <2>6, CountInRange
    <3> QED
      BY <3>2, <3>3 DEF CountExact
  <2> QED
    BY <2>2, <2>4, <2>5, <2>6, <2>7 DEF TypeOK
<1>2. CASE free_list = << >>
  <2>1. /\ \A q \in Pages : q < p => q \in allocated
        /\ free_list' = free_list
        /\ allocated' = allocated \cup {p}
        /\ num_allocated' = num_allocated + 1
    BY <1>2 DEF Reserve, Grants
  <2>2. ToSet(free_list) = {}
    BY <1>2 DEF ToSet
  <2>3. FreeListSound'
    BY <2>1, <2>2 DEF FreeListSound
  <2>4. UsedPagesArePrefix'
    BY <1>0, <2>1, <2>2 DEF UsedPagesArePrefix
  <2>5. allocated' \in SUBSET Pages
    BY <1>0, <2>1 DEF TypeOK
  <2>6. CountExact' /\ num_allocated' \in 0 .. MaxPages
    <3>1. IsFiniteSet(allocated) /\ Cardinality(allocated) = num_allocated
      BY CountInRange DEF TypeOK, CountExact
    <3>2. Cardinality(allocated') = num_allocated'
      BY <1>0, <2>1, <3>1, FS_AddElement
    <3>3. Cardinality(allocated') \in 0 .. MaxPages
      BY <2>5, CountInRange
    <3> QED
      BY <3>2, <3>3 DEF CountExact
  <2> QED
    BY <2>1, <2>3, <2>4, <2>5, <2>6 DEF TypeOK
<1> QED
  BY <1>1, <1>2

(* deallocate_page keeps the bookkeeping right, for any page in range. *)
LEMMA ReleaseKeeps ==
    ASSUME DiskInv, NEW p \in Pages, Release(p), storage' \in [Pages -> Contents]
    PROVE  DiskInv'
<1> USE DEF DiskInv
<1>1. CASE p \in allocated
  <2>1. /\ allocated' = allocated \ {p}
        /\ num_allocated' = num_allocated - 1
        /\ free_list' = Append(free_list, p)
    BY <1>1 DEF Release
  <2>2. /\ free_list' \in Seq(Pages)
        /\ IsInjective(free_list')
        /\ ToSet(free_list') = ToSet(free_list) \cup {p}
    BY <1>1, <2>1, AppendFresh DEF TypeOK, FreeListSound
  <2>3. FreeListSound'
    BY <2>1, <2>2 DEF FreeListSound
  <2>4. allocated' \cup ToSet(free_list') = allocated \cup ToSet(free_list)
    BY <1>1, <2>1, <2>2
  <2>5. UsedPagesArePrefix'
    BY <2>4 DEF UsedPagesArePrefix
  <2>6. allocated' \in SUBSET Pages
    BY <2>1 DEF TypeOK
  <2>7. CountExact' /\ num_allocated' \in 0 .. MaxPages
    <3>1. IsFiniteSet(allocated) /\ Cardinality(allocated) = num_allocated
      BY CountInRange DEF TypeOK, CountExact
    <3>2. Cardinality(allocated') = num_allocated'
      BY <1>1, <2>1, <3>1, FS_RemoveElement
    <3>3. Cardinality(allocated') \in 0 .. MaxPages
      BY <2>6, CountInRange
    <3> QED
      BY <3>2, <3>3 DEF CountExact
  <2> QED
    BY <2>2, <2>3, <2>5, <2>6, <2>7 DEF TypeOK
<1>2. CASE p \notin allocated
  BY <1>2 DEF Release, TypeOK, FreeListSound, UsedPagesArePrefix, CountExact
<1> QED
  BY <1>1, <1>2

(* A new disk: no page is used. *)
LEMMA DiskStart == Init => DiskInv
<1> SUFFICES ASSUME Init PROVE DiskInv
  OBVIOUS
<1>1. ToSet(<< >>) = {} /\ IsInjective(<< >>)
  BY DEF ToSet, IsInjective
<1>2. Cardinality({}) = 0
  BY FS_EmptySet
<1> QED
  BY <1>1, <1>2, DiskAssumption
     DEF Init, DiskInv, TypeOK, FreeListSound, UsedPagesArePrefix, CountExact

(***************************************************************************)
(* For every disk size, the bitmap, the free list and the counter agree in *)
(* every reachable state: no page is listed twice, none is both listed and *)
(* in use, and the pages ever used form a prefix of the disk.              *)
(***************************************************************************)
THEOREM DiskBookkeeping == Spec => [](TypeOK /\ DiskInv)
<1>1. Init => DiskInv
  BY DiskStart
<1>2. DiskInv /\ [Next]_vars => DiskInv'
  <2> SUFFICES ASSUME DiskInv, [Next]_vars PROVE DiskInv'
    OBVIOUS
  <2>1. ASSUME NEW p \in Pages, AllocatePage(p) PROVE DiskInv'
    <3>1. Reserve(p) /\ storage' \in [Pages -> Contents]
      BY <2>1, DiskAssumption DEF AllocatePage, DiskInv, TypeOK
    <3> QED
      BY <3>1, ReserveKeeps
  <2>2. ASSUME NEW p \in Pages, DeallocatePage(p) PROVE DiskInv'
    <3>1. Release(p) /\ storage' \in [Pages -> Contents]
      BY <2>2 DEF DeallocatePage, DiskInv, TypeOK
    <3> QED
      BY <3>1, ReleaseKeeps
  <2>3. ASSUME NEW p \in Pages, NEW c \in Contents, WritePage(p, c) PROVE DiskInv'
    BY <2>3 DEF WritePage, DiskInv, TypeOK, FreeListSound, UsedPagesArePrefix, CountExact
  <2>4. CASE UNCHANGED vars
    BY <2>4 DEF vars, DiskInv, TypeOK, FreeListSound, UsedPagesArePrefix, CountExact
  <2> QED
    BY <2>1, <2>2, <2>3, <2>4 DEF Next
<1>3. DiskInv => TypeOK
  BY DEF DiskInv
<1> QED
  BY <1>1, <1>2, <1>3, PTL DEF Spec

(* No page is listed as free twice or while it is in use. *)
THEOREM FreeListAlwaysSound == Spec => []FreeListSound
<1>1. DiskInv => FreeListSound
  BY DEF DiskInv
<1> QED
  BY <1>1, DiskBookkeeping, PTL

(***************************************************************************)
(* allocate_page never fails on a disk with room, its answer is determined *)
(* by the state, and no owner has that page.                               *)
(***************************************************************************)
THEOREM GrantsUnused == Spec => []GrantsOneUnusedPage
<1>1. DiskInv => GrantsOneUnusedPage
  <2> SUFFICES ASSUME DiskInv, allocated # Pages
               PROVE  \E p \in Pages \ allocated : \A q \in Pages : Grants(q) <=> q = p
    BY DEF GrantsOneUnusedPage
  <2>0. TypeOK /\ FreeListSound
    BY DEF DiskInv
  <2>1. CASE free_list # << >>
    <3>1. Last(free_list) \in Pages \ allocated
      BY <2>0, <2>1, FrontProperties DEF TypeOK, FreeListSound
    <3> QED
      BY <2>1, <3>1 DEF Grants
  <2>2. CASE free_list = << >>
    <3>1. Pages \ allocated \in SUBSET Nat /\ Pages \ allocated # {}
      <4>1. Pages \subseteq Nat
        BY DiskAssumption DEF Pages
      <4> QED
        BY <2>0, <4>1 DEF TypeOK
    <3>2. PICK p \in Pages \ allocated : \A k \in Pages \ allocated : p <= k
      BY <3>1, LeastElement
    <3>3. \A q \in Pages : Grants(q) <=> q = p
      BY <2>2, <3>1, <3>2 DEF Grants, Pages
    <3> QED
      BY <3>2, <3>3
  <2> QED
    BY <2>1, <2>2
<1> QED
  BY <1>1, DiskBookkeeping, PTL

-----------------------------------------------------------------------------

(* The replacer. *)

LruInv == LruTypeOK /\ OrderDistinct

(* Before(s): the pairs of entries of s in the order they stand in. *)
Before(s) ==
    {e \in ToSet(s) \X ToSet(s) :
        \E i, j \in DOMAIN s : i < j /\ e = <<s[i], s[j]>>}

Without(R, f) == {e \in R : e[1] # f /\ e[2] # f}

(* In a sequence without repetitions, the order decides by the positions. *)
LEMMA BeforeByPosition ==
    ASSUME NEW s, IsInjective(s), NEW i \in DOMAIN s, NEW j \in DOMAIN s
    PROVE  <<s[i], s[j]>> \in Before(s) <=> i < j
BY DEF Before, ToSet, IsInjective

(* Removing one entry leaves the order of the others as it was. *)
LEMMA BeforeRemoveAt ==
    ASSUME NEW S, NEW s \in Seq(S), NEW i \in 1 .. Len(s), IsInjective(s)
    PROVE  Before(RemoveAt(s, i)) = Without(Before(s), s[i])
<1> DEFINE t == RemoveAt(s, i)
           From(j) == IF j < i THEN j ELSE j + 1
           Into(k) == IF k < i THEN k ELSE k - 1
<1>1. /\ Len(s) \in Nat
      /\ DOMAIN s = 1 .. Len(s)
      /\ t \in Seq(S)
      /\ DOMAIN t = 1 .. Len(s) - 1
      /\ \A j \in DOMAIN t : t[j] = s[From(j)]
  BY ZenonT(60), LenProperties, RemoveAtProperties
<1>2. IsInjective(t) /\ ToSet(t) = ToSet(s) \ {s[i]}
  BY RemoveAtInjective
<1>3. ASSUME NEW j \in DOMAIN t PROVE From(j) \in DOMAIN s \ {i}
  BY <1>1
<1>4. ASSUME NEW k \in DOMAIN s \ {i}
      PROVE  Into(k) \in DOMAIN t /\ t[Into(k)] = s[k]
  BY <1>1
<1> HIDE DEF t
<1>5. ASSUME NEW e \in Before(t) PROVE e \in Without(Before(s), s[i])
  <2>1. PICK a \in DOMAIN t, b \in DOMAIN t : a < b /\ e = <<t[a], t[b]>>
    BY DEF Before
  <2>2. From(a) < From(b)
    BY <1>1, <2>1
  <2>3. e = <<s[From(a)], s[From(b)]>>
    BY <1>1, <2>1
  <2>4. e \in Before(s)
    BY <1>3, <2>2, <2>3, BeforeByPosition
  <2>5. s[From(a)] # s[i] /\ s[From(b)] # s[i]
    BY <1>1, <1>3 DEF IsInjective
  <2> QED
    BY <2>3, <2>4, <2>5 DEF Without
<1>6. ASSUME NEW e \in Without(Before(s), s[i]) PROVE e \in Before(t)
  <2>1. PICK a \in DOMAIN s, b \in DOMAIN s : a < b /\ e = <<s[a], s[b]>>
    BY DEF Before, Without
  <2>2. a # i /\ b # i
    BY <2>1 DEF Without
  <2>3. Into(a) < Into(b)
    BY <1>1, <2>1, <2>2
  <2>4. e = <<t[Into(a)], t[Into(b)]>>
    BY <1>4, <2>1, <2>2
  <2> QED
    BY <1>2, <1>4, <2>2, <2>3, <2>4, BeforeByPosition
<1> QED
  BY <1>5, <1>6 DEF t

(* Removing a value, present or not, does the same. *)
LEMMA BeforeRemoveFirst ==
    ASSUME NEW S, NEW s \in Seq(S), NEW f, IsInjective(s)
    PROVE  Before(RemoveFirst(s, f)) = Without(Before(s), f)
<1>1. CASE f \in ToSet(s)
  BY <1>1, RemoveFirstIsRemoveAt, BeforeRemoveAt
<1>2. CASE f \notin ToSet(s)
  <2>1. \A e \in Before(s) : e[1] # f /\ e[2] # f
    BY <1>2 DEF Before
  <2> QED
    BY <1>2, <2>1, RemoveFirstAbsent DEF Without, Before
<1> QED
  BY <1>1, <1>2

(* A value appended comes after all the others. *)
LEMMA BeforeAppend ==
    ASSUME NEW S, NEW s \in Seq(S), NEW f \in S, IsInjective(s), f \notin ToSet(s)
    PROVE  Before(Append(s, f)) = Before(s) \cup {<<g, f>> : g \in ToSet(s)}
<1> DEFINE t == Append(s, f)
<1>1. /\ Len(s) \in Nat
      /\ DOMAIN s = 1 .. Len(s)
      /\ t \in Seq(S)
      /\ DOMAIN t = 1 .. Len(s) + 1
      /\ \A j \in 1 .. Len(s) : t[j] = s[j]
      /\ t[Len(s) + 1] = f
  BY LenProperties, AppendProperties
<1>2. IsInjective(t) /\ ToSet(t) = ToSet(s) \cup {f}
  BY AppendFresh
<1> HIDE DEF t
<1>3. ASSUME NEW e \in Before(t) PROVE e \in Before(s) \cup {<<g, f>> : g \in ToSet(s)}
  <2>1. PICK a \in DOMAIN t, b \in DOMAIN t : a < b /\ e = <<t[a], t[b]>>
    BY DEF Before
  <2>2. CASE b = Len(s) + 1
    <3>1. a \in DOMAIN s /\ e = <<s[a], f>>
      BY <1>1, <2>1, <2>2
    <3> QED
      BY <3>1 DEF ToSet
  <2>3. CASE b # Len(s) + 1
    <3>1. a \in DOMAIN s /\ b \in DOMAIN s /\ e = <<s[a], s[b]>>
      BY <1>1, <2>1, <2>3
    <3> QED
      BY <2>1, <3>1, BeforeByPosition
  <2> QED
    BY <2>2, <2>3
<1>4. ASSUME NEW e \in Before(s) PROVE e \in Before(t)
  <2>1. PICK a \in DOMAIN s, b \in DOMAIN s : a < b /\ e = <<s[a], s[b]>>
    BY DEF Before
  <2>2. a \in DOMAIN t /\ b \in DOMAIN t /\ e = <<t[a], t[b]>>
    BY <1>1, <2>1
  <2> QED
    BY <1>2, <2>1, <2>2, BeforeByPosition
<1>5. ASSUME NEW g \in ToSet(s) PROVE <<g, f>> \in Before(t)
  <2>1. PICK a \in DOMAIN s : g = s[a]
    BY DEF ToSet
  <2>2. /\ a \in DOMAIN t /\ Len(s) + 1 \in DOMAIN t /\ a < Len(s) + 1
        /\ <<g, f>> = <<t[a], t[Len(s) + 1]>>
    BY <1>1, <2>1
  <2> QED
    BY <1>2, <2>2, BeforeByPosition
<1> QED
  BY <1>3, <1>4, <1>5 DEF t

-----------------------------------------------------------------------------

(* What evict takes: the first evictable frame of the queue. *)
LEMMA VictimIsFirst ==
    ASSUME LruInv, HasVictim
    PROVE  /\ VictimPosition \in 1 .. Len(order)
           /\ Victim \in evictable /\ Victim \in Frames
           /\ \A k \in 1 .. Len(order) : order[k] \in evictable => VictimPosition <= k
<1> DEFINE i == Min({j \in 1 .. Len(order) : order[j] \in evictable})
<1>1. order \in Seq(Frames)
  BY DEF LruInv, LruTypeOK
<1>2. VictimPosition = i
  <2>1. \E j \in 1 .. Len(order) : order[j] \in evictable
    BY <1>1, LenProperties DEF HasVictim, ToSet
  <2> QED
    BY <2>1 DEF VictimPosition, SelectInSeq
<1>3. i = Min({j \in 1 .. Len(order) : order[j] \in evictable})
  OBVIOUS
<1> HIDE DEF i
<1>4. /\ i \in 1 .. Len(order)
      /\ order[i] \in evictable
      /\ \A k \in 1 .. Len(order) : order[k] \in evictable => i <= k
  BY <1>1, <1>3, FirstPosition DEF HasVictim
<1> QED
  BY <1>1, <1>2, <1>4, ElementOfSeq DEF Victim

(* record_access moves one frame to the back and keeps the queue distinct. *)
LEMMA TouchedProperties ==
    ASSUME NEW S, NEW s \in Seq(S), NEW f \in S, IsInjective(s)
    PROVE  /\ Touched(s, f) \in Seq(S)
           /\ IsInjective(Touched(s, f))
           /\ ToSet(Touched(s, f)) = ToSet(s) \cup {f}
           /\ Before(Touched(s, f)) =
                Without(Before(s), f) \cup {<<g, f>> : g \in ToSet(s) \ {f}}
<1>1. /\ RemoveFirst(s, f) \in Seq(S)
      /\ IsInjective(RemoveFirst(s, f))
      /\ ToSet(RemoveFirst(s, f)) = ToSet(s) \ {f}
  BY RemoveFirstProperties
<1>2. /\ Touched(s, f) \in Seq(S)
      /\ IsInjective(Touched(s, f))
      /\ ToSet(Touched(s, f)) = (ToSet(s) \ {f}) \cup {f}
  BY <1>1, AppendFresh DEF Touched
<1>3. Before(Touched(s, f)) =
        Before(RemoveFirst(s, f)) \cup {<<g, f>> : g \in ToSet(RemoveFirst(s, f))}
  BY <1>1, BeforeAppend DEF Touched
<1> QED
  BY <1>1, <1>2, <1>3, BeforeRemoveFirst

(* Every call keeps the queue free of repetitions. *)
LEMMA LruStep ==
    ASSUME LruInv, [LruNext]_lruVars
    PROVE  LruInv'
<1>0. order \in Seq(Frames) /\ IsInjective(order) /\ evictable \in SUBSET Frames
  BY DEF LruInv, LruTypeOK, OrderDistinct
<1>1. ASSUME NEW f \in Frames, RecordAccess(f) PROVE LruInv'
  BY <1>0, <1>1, TouchedProperties DEF RecordAccess, LruInv, LruTypeOK, OrderDistinct
<1>2. ASSUME NEW f \in Frames, NEW b \in BOOLEAN, SetEvictable(f, b) PROVE LruInv'
  BY <1>0, <1>2 DEF SetEvictable, LruInv, LruTypeOK, OrderDistinct
<1>3. ASSUME NEW f \in Frames, RemoveFrame(f) PROVE LruInv'
  BY <1>0, <1>3, RemoveFirstProperties DEF RemoveFrame, LruInv, LruTypeOK, OrderDistinct
<1>4. CASE Evict
  BY <1>0, <1>4, VictimIsFirst, RemoveAtProperties, RemoveAtInjective
     DEF Evict, LruInv, LruTypeOK, OrderDistinct
<1>5. CASE UNCHANGED lruVars
  BY <1>5 DEF lruVars, LruInv, LruTypeOK, OrderDistinct
<1> QED
  BY <1>1, <1>2, <1>3, <1>4, <1>5 DEF LruNext

(***************************************************************************)
(* The invariant is inductive: the queue holds frames only, each at most   *)
(* once, in every reachable state.                                         *)
(***************************************************************************)
THEOREM LruBookkeeping == LruSpec => []LruInv
<1>1. LruInit => LruInv
  BY DEF LruInit, LruInv, LruTypeOK, OrderDistinct, IsInjective
<1>2. LruInv /\ [LruNext]_lruVars => LruInv'
  BY LruStep
<1> QED
  BY <1>1, <1>2, PTL DEF LruSpec

(* No sequence of calls puts a frame into the queue a second time. *)
THEOREM QueueDistinct == LruSpec => []OrderDistinct
<1>1. LruInv => OrderDistinct
  BY DEF LruInv
<1> QED
  BY <1>1, LruBookkeeping, PTL

(* What the replacer does to the queue, in terms of the order it stands for. *)
LEMMA QueueSteps ==
    ASSUME LruInv
    PROVE  /\ \A f \in Frames : RecordAccess(f) =>
                /\ ToSet(order') = ToSet(order) \cup {f}
                /\ Before(order') = Without(Before(order), f)
                                        \cup {<<g, f>> : g \in ToSet(order) \ {f}}
           /\ \A f \in Frames : RemoveFrame(f) =>
                /\ ToSet(order') = ToSet(order) \ {f}
                /\ Before(order') = Without(Before(order), f)
           /\ Evict =>
                /\ ToSet(order') = ToSet(order) \ {Victim}
                /\ Before(order') = Without(Before(order), Victim)
<1>1. order \in Seq(Frames) /\ IsInjective(order)
  BY DEF LruInv, LruTypeOK, OrderDistinct
<1>2. ASSUME NEW f \in Frames, RecordAccess(f)
      PROVE  /\ ToSet(order') = ToSet(order) \cup {f}
             /\ Before(order') = Without(Before(order), f)
                                     \cup {<<g, f>> : g \in ToSet(order) \ {f}}
  BY <1>1, <1>2, TouchedProperties DEF RecordAccess
<1>3. ASSUME NEW f \in Frames, RemoveFrame(f)
      PROVE  /\ ToSet(order') = ToSet(order) \ {f}
             /\ Before(order') = Without(Before(order), f)
  BY <1>1, <1>3, RemoveFirstProperties, BeforeRemoveFirst DEF RemoveFrame
<1>4. ASSUME Evict
      PROVE  /\ ToSet(order') = ToSet(order) \ {Victim}
             /\ Before(order') = Without(Before(order), Victim)
  <2>1. VictimPosition \in 1 .. Len(order) /\ Victim = order[VictimPosition]
    BY <1>4, VictimIsFirst DEF Evict, Victim
  <2> QED
    BY <1>1, <1>4, <2>1, RemoveAtInjective, BeforeRemoveAt DEF Evict
<1> QED
  BY <1>2, <1>3, <1>4

(* In a queue without repetitions, evict takes the policy's choice. *)
LEMMA EvictIsPolicy ==
    ASSUME LruInv, Evict
    PROVE  \E f \in Frames : Policy!Evict(f)
<1>1. Recency = Before(order) /\ Recency' = Before(order')
  BY DEF Recency, Before
<1>2. order \in Seq(Frames) /\ IsInjective(order) /\ evictable \in SUBSET Frames
  BY DEF LruInv, LruTypeOK, OrderDistinct
<1> DEFINE i == VictimPosition
<1>3. /\ i \in 1 .. Len(order)
      /\ Victim = order[i] /\ Victim \in evictable /\ Victim \in Frames
      /\ \A k \in 1 .. Len(order) : order[k] \in evictable => i <= k
  BY VictimIsFirst DEF Evict, Victim
<1>4. /\ ToSet(order') = ToSet(order) \ {Victim}
      /\ Before(order') = Without(Before(order), Victim)
      /\ evictable' = evictable \ {Victim}
  BY QueueSteps DEF Evict
<1>5. Policy!Remove(Victim)
  BY <1>1, <1>4 DEF Policy!Remove, Policy!Forget, Without
<1>6. DOMAIN order = 1 .. Len(order) /\ Len(order) \in Nat
  BY <1>2, LenProperties
<1>7. Victim \in ToSet(order)
  BY <1>3, <1>6 DEF ToSet
<1>8. ASSUME NEW g \in (ToSet(order) \cap evictable) \ {Victim}
      PROVE  <<Victim, g>> \in Recency
  <2>1. PICK k \in DOMAIN order : order[k] = g
    BY DEF ToSet
  <2>2. i < k
    BY <1>3, <1>6, <2>1
  <2> QED
    BY <1>1, <1>2, <1>3, <1>6, <2>1, <2>2, BeforeByPosition
<1> QED
  BY <1>3, <1>5, <1>7, <1>8 DEF Policy!Evict

(***************************************************************************)
(* The replacer implements the least-recently-used policy: what each call  *)
(* does to the queue is what the policy's call does to the recency order.  *)
(***************************************************************************)
THEOREM QueueImplementsLru == LruSpec => ImplementsPolicy
<1>0. Recency = Before(order) /\ Recency' = Before(order')
  BY DEF Recency, Before
<1>1. LruInit => Policy!Init
  BY DEF LruInit, Policy!Init, Recency, ToSet
<1>2. LruInv /\ [LruNext]_lruVars => [Policy!Next]_(Policy!vars)
  <2> SUFFICES ASSUME LruInv, [LruNext]_lruVars PROVE [Policy!Next]_(Policy!vars)
    OBVIOUS
  <2>1. ASSUME NEW f \in Frames, RecordAccess(f) PROVE Policy!RecordAccess(f)
    <3>1. /\ ToSet(order') = ToSet(order) \cup {f}
          /\ Before(order') =
                Without(Before(order), f) \cup {<<g, f>> : g \in ToSet(order) \ {f}}
      BY <2>1, QueueSteps
    <3> QED
      BY <1>0, <2>1, <3>1 DEF RecordAccess, Policy!RecordAccess, Policy!Forget, Without
  <2>2. ASSUME NEW f \in Frames, NEW b \in BOOLEAN, SetEvictable(f, b)
        PROVE  Policy!SetEvictable(f, b)
    BY <1>0, <2>2 DEF SetEvictable, Policy!SetEvictable
  <2>3. ASSUME NEW f \in Frames, RemoveFrame(f) PROVE Policy!Remove(f)
    <3>1. /\ ToSet(order') = ToSet(order) \ {f}
          /\ Before(order') = Without(Before(order), f)
      BY <2>3, QueueSteps
    <3> QED
      BY <1>0, <2>3, <3>1 DEF RemoveFrame, Policy!Remove, Policy!Forget, Without
  <2>4. ASSUME Evict PROVE \E f \in Frames : Policy!Evict(f)
    BY <2>4, EvictIsPolicy
  <2>5. CASE UNCHANGED lruVars
    BY <1>0, <2>5 DEF lruVars, Policy!vars
  <2> QED
    BY <2>1, <2>2, <2>3, <2>4, <2>5 DEF LruNext, Policy!Next
<1> QED
  BY <1>1, <1>2, LruBookkeeping, PTL DEF LruSpec, ImplementsPolicy, Policy!Spec

(***************************************************************************)
(* For every set of frames evict takes a least recently used frame, and    *)
(* never one that is merely evictable.                                     *)
(***************************************************************************)
THEOREM EvictionIsLru == LruSpec => EvictsLeastRecent
<1>1. LruInv /\ [LruNext]_lruVars => [Evict => \E f \in Frames : Policy!Evict(f)]_lruVars
  BY EvictIsPolicy
<1> QED
  BY <1>1, LruBookkeeping, PTL DEF LruSpec, EvictsLeastRecent

(***************************************************************************)
(* For every set of frames and any calls, the queue lists the frames in    *)
(* the order of their last accesses.                                       *)
(***************************************************************************)
THEOREM QueueIsRecency == HistorySpec => []QueueIsHistory
<1>1. HistoryInit => LruInv /\ QueueIsHistory
  BY DEF HistoryInit, LruInit, LruInv, LruTypeOK, OrderDistinct, IsInjective,
         QueueIsHistory, Recency, ToSet
<1>2. LruInv /\ QueueIsHistory /\ [HistoryNext]_historyVars => (LruInv /\ QueueIsHistory)'
  <2> SUFFICES ASSUME LruInv, QueueIsHistory, [HistoryNext]_historyVars
               PROVE  LruInv' /\ QueueIsHistory'
    OBVIOUS
  <2>1. LruInv'
    <3>1. [LruNext]_lruVars
      BY DEF HistoryNext, historyVars, LruNext
    <3> QED
      BY <3>1, LruStep
  <2>2. Recency = Before(order) /\ Recency' = Before(order')
    BY DEF Recency, Before
  <2>3. ASSUME NEW f \in Frames, RecordAccess(f), History!RecordAccess(f)
        PROVE  QueueIsHistory'
    BY <2>2, <2>3, QueueSteps DEF QueueIsHistory, History!RecordAccess, History!Forget, Without
  <2>4. ASSUME NEW f \in Frames, NEW b \in BOOLEAN,
               SetEvictable(f, b), History!SetEvictable(f, b)
        PROVE  QueueIsHistory'
    BY <2>2, <2>4 DEF SetEvictable, QueueIsHistory, History!SetEvictable
  <2>5. ASSUME NEW f \in Frames, RemoveFrame(f), History!Remove(f)
        PROVE  QueueIsHistory'
    BY <2>2, <2>5, QueueSteps DEF QueueIsHistory, History!Remove, History!Forget, Without
  <2>6. CASE Evict /\ History!Remove(Victim)
    BY <2>1, <2>2, <2>6, QueueSteps
       DEF QueueIsHistory, History!Remove, History!Forget, Without
  <2>7. CASE UNCHANGED historyVars
    BY <2>1, <2>2, <2>7 DEF historyVars, lruVars, QueueIsHistory
  <2> QED
    BY <2>1, <2>3, <2>4, <2>5, <2>6, <2>7 DEF HistoryNext
<1> QED
  BY <1>1, <1>2, PTL DEF HistorySpec

=============================================================================
