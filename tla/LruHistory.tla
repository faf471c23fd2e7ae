----------------------------- MODULE LruHistory -----------------------------
(***************************************************************************)
(* The replacer of LruReplacer with a history of its calls: the policy's   *)
(* own record of which frame was accessed before which.  The refinement in *)
(* LruReplacer reads that order off the queue, so an access that leaves    *)
(* the queue alone would pass there as a stuttering step, and the queue    *)
(* would evict first in, first out.  Here it would disagree with tracked   *)
(* and older, which depend on the calls and not on the queue.              *)
(***************************************************************************)
EXTENDS LruReplacer

VARIABLES tracked, older

History == INSTANCE LruPolicy

historyVars == <<lruVars, tracked, older>>

HistoryInit ==
    /\ LruInit
    /\ tracked = {}
    /\ older = {}

HistoryNext ==
    \/ \E f \in Frames :
        \/ RecordAccess(f) /\ History!RecordAccess(f)
        \/ \E b \in BOOLEAN : SetEvictable(f, b) /\ History!SetEvictable(f, b)
        \/ RemoveFrame(f) /\ History!Remove(f)
    \/ Evict /\ History!Remove(Victim)

HistorySpec == HistoryInit /\ [][HistoryNext]_historyVars

-----------------------------------------------------------------------------

(***************************************************************************)
(* The queue holds the frames accessed since they were evicted or removed, *)
(* in the order of their last accesses: record_access moves a frame that   *)
(* is in the queue already, and eviction and removal disturb no other.     *)
(***************************************************************************)
QueueIsHistory == ToSet(order) = tracked /\ Recency = older

=============================================================================
