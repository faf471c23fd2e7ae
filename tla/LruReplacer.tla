---------------------------- MODULE LruReplacer ----------------------------
(***************************************************************************)
(* The LRU replacer of wasm-engine/src/storage/buffer_pool.rs.  Any method *)
(* may be called with any frame at any time, as in the Rust type.          *)
(*                                                                         *)
(* order.retain(|f| f != frame_id) is RemoveFirst: it drops every          *)
(* occurrence, and OrderDistinct says there is never a second one.         *)
(***************************************************************************)
EXTENDS Integers, SequencesExt

CONSTANT Frames

VARIABLES
    order,          \* the tracked frames, least recently used first
    evictable       \* the frames whose pin count is zero

lruVars == <<order, evictable>>

LruInit ==
    /\ order = << >>
    /\ evictable = {}

(* Mutants of Touched: a queued frame is not moved; it is moved to the front. *)
TouchedKeeping(s, f) == IF f \in ToSet(s) THEN s ELSE Append(s, f)

TouchedFront(s, f) == Cons(f, RemoveFirst(s, f))

Touched(s, f) == Append(RemoveFirst(s, f), f)

RecordAccess(f) ==
    /\ order' = Touched(order, f)
    /\ UNCHANGED evictable

SetEvictable(f, b) ==
    /\ evictable' = IF b THEN evictable \cup {f} ELSE evictable \ {f}
    /\ UNCHANGED order

(***************************************************************************)
(* evict walks from the front to the first evictable frame.  It returns    *)
(* None, and changes nothing, when there is none.                          *)
(***************************************************************************)
HasVictim == ToSet(order) \cap evictable # {}

(* Mutant of VictimPosition: the walk starts at the wrong end. *)
MostRecentPosition == SelectLastInSeq(order, LAMBDA f : f \in evictable)

VictimPosition == SelectInSeq(order, LAMBDA f : f \in evictable)

Victim == order[VictimPosition]

Evict ==
    /\ HasVictim
    /\ order' = RemoveAt(order, VictimPosition)
    /\ evictable' = evictable \ {Victim}

RemoveFrame(f) ==
    /\ order' = RemoveFirst(order, f)
    /\ evictable' = evictable \ {f}

LruNext ==
    \/ \E f \in Frames :
        \/ RecordAccess(f)
        \/ \E b \in BOOLEAN : SetEvictable(f, b)
        \/ RemoveFrame(f)
    \/ Evict

LruSpec == LruInit /\ [][LruNext]_lruVars

-----------------------------------------------------------------------------

(* The replacer tracks frames and nothing else. *)
LruTypeOK ==
    /\ order \in Seq(Frames)
    /\ evictable \in SUBSET Frames

(***************************************************************************)
(* No call sequence puts a frame into the queue twice.  A second entry     *)
(* would survive the eviction of the first and make the pool evict a frame *)
(* that has meanwhile been given to another page.                          *)
(***************************************************************************)
OrderDistinct == IsInjective(order)

(* The recency relation a queue stands for. *)
Recency ==
    {e \in ToSet(order) \X ToSet(order) :
        \E i, j \in DOMAIN order : i < j /\ e = <<order[i], order[j]>>}

Policy == INSTANCE LruPolicy WITH tracked <- ToSet(order), older <- Recency

(***************************************************************************)
(* The queue is a recency order: each call changes the order of the frames *)
(* as the policy says, an access making its frame the most recent one.     *)
(***************************************************************************)
ImplementsPolicy == Policy!Spec

(***************************************************************************)
(* evict takes the evictable frame that every other evictable frame was    *)
(* accessed after.  ImplementsPolicy does not say it: a victim that is too *)
(* young would still pass there for a frame the pool has removed.          *)
(***************************************************************************)
EvictsLeastRecent == [][Evict => \E f \in Frames : Policy!Evict(f)]_lruVars

=============================================================================
