----------------------------- MODULE PageStore -----------------------------
(***************************************************************************)
(* What the buffer pool promises to the table heap: a store of pages whose *)
(* contents change only when a holder of the page writes them.  There are  *)
(* no frames, no copies, no queue and no disk here; what is left of them   *)
(* is that at most PoolSize pages can be pinned at once.  It promises that *)
(* as long as no page is fetched that is not in use.                       *)
(***************************************************************************)
EXTENDS Integers, FiniteSets

CONSTANTS MaxPages, PoolSize, Contents, Zero, Fresh

Pages == 0 .. MaxPages - 1

VARIABLES
    live,           \* the allocated pages
    content,        \* the contents of each live page, as its next user sees it
    pins            \* how often each page is pinned

vars == <<live, content, pins>>

Pinned == {p \in Pages : pins[p] > 0}

(* There is a frame for one more page exactly when the pins leave one over. *)
HasRoom == Cardinality(Pinned) < PoolSize

Init ==
    /\ live = {}
    /\ content = [p \in {} |-> Zero]
    /\ pins = [p \in Pages |-> 0]

Create(p, c) ==
    /\ p \notin live
    /\ live' = live \cup {p}
    /\ content' = [q \in live \cup {p} |-> IF q = p THEN c ELSE content[q]]

NewPage(p) ==
    /\ HasRoom
    /\ Create(p, Fresh)
    /\ pins' = [pins EXCEPT ![p] = 1]

(* A request for a new page that fails still uses up a page of the disk. *)
WastePage(p) ==
    /\ ~HasRoom
    /\ Create(p, Zero)
    /\ UNCHANGED pins

Fetch(p) ==
    /\ p \in live
    /\ p \in Pinned \/ HasRoom
    /\ pins' = [pins EXCEPT ![p] = @ + 1]
    /\ UNCHANGED <<live, content>>

Write(p, c) ==
    /\ p \in Pinned
    /\ content' = [content EXCEPT ![p] = c]
    /\ UNCHANGED <<live, pins>>

Unpin(p) ==
    /\ p \in Pinned
    /\ pins' = [pins EXCEPT ![p] = @ - 1]
    /\ UNCHANGED <<live, content>>

Delete(p) ==
    /\ p \in live \ Pinned
    /\ live' = live \ {p}
    /\ content' = [q \in live \ {p} |-> content[q]]
    /\ UNCHANGED pins

Next ==
    \E p \in Pages :
        \/ NewPage(p)
        \/ WastePage(p)
        \/ Fetch(p)
        \/ \E c \in Contents : Write(p, c)
        \/ Unpin(p)
        \/ Delete(p)

Spec == Init /\ [][Next]_vars

=============================================================================
