----------------------------- MODULE LruPolicy -----------------------------
(***************************************************************************)
(* What "evict the least recently used frame" means, without a queue.      *)
(* older holds the pairs <<f, g>> of tracked frames such that f was last   *)
(* accessed before g.  Evict may take a frame only if it is evictable and  *)
(* every other evictable frame was accessed after it.                      *)
(***************************************************************************)
CONSTANT Frames

VARIABLES
    tracked,        \* frames accessed since they were last evicted or removed
    older,          \* the recency order on them
    evictable       \* frames marked evictable

vars == <<tracked, older, evictable>>

Init ==
    /\ tracked = {}
    /\ older = {}
    /\ evictable = {}

Forget(f) == {e \in older : e[1] # f /\ e[2] # f}

RecordAccess(f) ==
    /\ tracked' = tracked \cup {f}
    /\ older' = Forget(f) \cup {<<g, f>> : g \in tracked \ {f}}
    /\ UNCHANGED evictable

SetEvictable(f, b) ==
    /\ evictable' = IF b THEN evictable \cup {f} ELSE evictable \ {f}
    /\ UNCHANGED <<tracked, older>>

Remove(f) ==
    /\ tracked' = tracked \ {f}
    /\ older' = Forget(f)
    /\ evictable' = evictable \ {f}

Evict(f) ==
    /\ f \in tracked \cap evictable
    /\ \A g \in (tracked \cap evictable) \ {f} : <<f, g>> \in older
    /\ Remove(f)

Next ==
    \E f \in Frames :
        \/ RecordAccess(f)
        \/ \E b \in BOOLEAN : SetEvictable(f, b)
        \/ Remove(f)
        \/ Evict(f)

Spec == Init /\ [][Next]_vars

=============================================================================
