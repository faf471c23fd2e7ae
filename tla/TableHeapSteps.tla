--------------------------- MODULE TableHeapSteps ---------------------------
(***************************************************************************)
(* The steps of the table heap, for every set of pages, rows and sizes.    *)
(* Place by place of the code, the operators At... say what the running    *)
(* call has done to the store it found, and the lemmas that a step goes    *)
(* from one place to the next.  The steps that end a call are in           *)
(* TableHeapProofs.                                                        *)
(***************************************************************************)
EXTENDS TableHeap, StorageEngineProofs

(* The pages: a free list, and contents for the others. *)
HeapShape ==
    /\ unused \in Seq(Pages) /\ IsInjective(unused)
    /\ live = Pages \ ToSet(unused)
    /\ page = [q \in live |-> page[q]]

(* The pins that a call holds itself: one on each page of S. *)
Pinning(S) ==
    pins = [q \in Pages |-> IF q \in S THEN before.pins[q] + 1 ELSE before.pins[q]]

Kept(S) == \A q \in S : q \in live /\ page[q] = before.page[q]

(* Nothing is written yet. *)
Untouched == live = before.live /\ page = before.page

BeforeIsAStore ==
    before = [live |-> before.live, page |-> before.page, pins |-> before.pins,
              tables |-> before.tables]

-----------------------------------------------------------------------------

AtIdle == call = Idle

AtNew ==
    \E t \in TableNames :
        /\ call = [op |-> "create", at |-> "new", table |-> t]
        /\ before.tables[t] = Absent /\ tables = before.tables
        /\ Untouched /\ Pinning({})

AtMade ==
    \E t \in TableNames : \E p \in Pages \ before.live :
        /\ call = [op |-> "create", at |-> "made", table |-> t, cur |-> p]
        /\ before.tables[t] = Absent /\ tables = before.tables /\ ~FullIn(before)
        /\ live = before.live \cup {p} /\ Kept(before.live) /\ page[p] = NewDataPage
        /\ Pinning({p})

(* The first pages of a table are listed, each of them fetched on the way. *)
Listing(t, c, ids) ==
    /\ t \in TableNames /\ TablePath(before, t, c)
    /\ tables = [before.tables EXCEPT ![t] = Absent]
    /\ Untouched
    /\ ids \in Seq(Pages) /\ Len(ids) <= Len(c)
    /\ \A i \in 1 .. Len(ids) : ids[i] = c[i] /\ ReachedIn(before, c[i])

AtList ==
    \E t, c, ids, k :
        /\ Listing(t, c, ids) /\ k = Len(ids) + 1 /\ k \in 1 .. Len(c) /\ Pinning({})
        /\ call = [op |-> "drop", at |-> "list", table |-> t, cur |-> c[k], ids |-> ids]

AtListed ==
    \E t, c, ids, k :
        /\ Listing(t, c, ids) /\ k = Len(ids) /\ k \in 1 .. Len(c) /\ Pinning({c[k]})
        /\ call = [op |-> "drop", at |-> "listed", table |-> t, cur |-> c[k], ids |-> ids]

(* m pages of the listed ones are dealt with. *)
Dropping(t, c, ids, m) ==
    /\ t \in TableNames /\ TablePath(before, t, c)
    /\ tables = [before.tables EXCEPT ![t] = Absent]
    /\ ids \in Seq(Pages) /\ Len(ids) \in Nat \ {0}
    /\ m \in Nat /\ m + Len(ids) <= Len(c)
    /\ \A i \in 1 .. Len(ids) : ids[i] = c[m + i]
    /\ \A i \in 1 .. m + Len(ids) - 1 : ReachedIn(before, c[i])
    /\ m + Len(ids) = Len(c) \/ ~ReachedIn(before, c[m + Len(ids)])
    /\ live = before.live \ {q \in Pages : \E i \in 1 .. m : q = c[i] /\ q \notin PinnedIn(before)}
    /\ Kept(live)
    /\ Pinning({})

AtDrop ==
    \E t, c, ids, m, cur :
        /\ Dropping(t, c, ids, m)
        /\ call = [op |-> "drop", at |-> "drop", table |-> t, cur |-> cur, ids |-> ids]

-----------------------------------------------------------------------------

(***************************************************************************)
(* insert has written n pieces of the row to the pages ps, the last two    *)
(* not linked yet if they are loose; extra are the other pages it was      *)
(* given, and changed those of the table it has written.                   *)
(***************************************************************************)
PieceOn(row, ps, i, loose) ==
    [chunk |-> Pieces(row)[i].chunk,
     next |-> IF /\ i < Len(ps) /\ Pieces(row)[i + 1].column = Pieces(row)[i].column
                 /\ ~(loose /\ i = Len(ps) - 1)
              THEN ps[i + 1] ELSE NoPage]

Spilling(t, c, row, ps, extra, loose, changed) ==
    /\ t \in TableNames /\ TablePath(before, t, c) /\ row \in Rows
    /\ tables = before.tables
    /\ ps \in Seq(Pages) /\ IsInjective(ps) /\ ToSet(ps) \cap before.live = {}
    /\ Len(ps) <= Len(Pieces(row))
    /\ extra \subseteq Pages \ (before.live \cup ToSet(ps))
    /\ ps # << >> \/ extra # {} => ~FullIn(before)
    /\ live = before.live \cup ToSet(ps) \cup extra
    /\ Kept(before.live \ changed)
    /\ \A i \in 1 .. Len(ps) : page[ps[i]] = PieceOn(row, ps, i, loose)

InsertCall(at, t, row, ps, cur, new) ==
    call = [op |-> "insert", at |-> at, table |-> t, row |-> row, ps |-> ps,
            cur |-> cur, new |-> new]

AtSpill ==
    \E t, c, row, ps, cur :
        /\ Spilling(t, c, row, ps, {}, FALSE, {})
        /\ Len(ps) < Len(Pieces(row)) /\ Pinning({})
        /\ InsertCall("spill", t, row, ps, cur, NoPage)

AtFill ==
    \E t, c, row, ps, cur :
        /\ Spilling(t, c, row, ps, {cur}, FALSE, {})
        /\ Len(ps) < Len(Pieces(row)) /\ Pinning({cur})
        /\ InsertCall("fill", t, row, ps, cur, NoPage)

Loose(row, ps) ==
    Len(ps) > 1 /\ Pieces(row)[Len(ps) - 1].column = Pieces(row)[Len(ps)].column

AtChain ==
    \E t, c, row, ps, cur :
        /\ Spilling(t, c, row, ps, {}, TRUE, {}) /\ Loose(row, ps) /\ Pinning({})
        /\ InsertCall("chain", t, row, ps, cur, NoPage)

AtChained ==
    \E t, c, row, ps, cur :
        /\ Spilling(t, c, row, ps, {}, TRUE, {}) /\ Loose(row, ps)
        /\ Pinning({ps[Len(ps) - 1]})
        /\ InsertCall("chained", t, row, ps, cur, NoPage)

(* The pages before the k-th are fetched and have no room for the row. *)
Passed(c, row, k) ==
    \A i \in 1 .. k :
        ReachedIn(before, c[i]) /\ before.page[c[i]].room < Needed(row)

AtSearch ==
    \E t, c, row, ps, k :
        /\ Spilling(t, c, row, ps, {}, FALSE, {}) /\ Len(ps) = Len(Pieces(row))
        /\ k \in 1 .. Len(c) /\ Passed(c, row, k - 1) /\ Pinning({})
        /\ InsertCall("search", t, row, ps, c[k], NoPage)

AtLook ==
    \E t, c, row, ps, k :
        /\ Spilling(t, c, row, ps, {}, FALSE, {}) /\ Len(ps) = Len(Pieces(row))
        /\ k \in 1 .. Len(c) /\ Passed(c, row, k - 1) /\ ReachedIn(before, c[k])
        /\ Pinning({c[k]})
        /\ InsertCall("look", t, row, ps, c[k], NoPage)

AtExtend ==
    \E t, c, row, ps, last :
        /\ Spilling(t, c, row, ps, {}, FALSE, {}) /\ Len(ps) = Len(Pieces(row))
        /\ Passed(c, row, Len(c)) /\ Pinning({}) /\ last = c[Len(c)]
        /\ InsertCall("extend", t, row, ps, last, NoPage)

(* The new page is there, and the last page of the table perhaps linked. *)
Extending(t, c, row, ps, last, new, changed) ==
    /\ Spilling(t, c, row, ps, {new}, FALSE, changed) /\ Len(ps) = Len(Pieces(row))
    /\ Passed(c, row, Len(c)) /\ last = c[Len(c)] /\ page[new] = NewDataPage

Linkable(last) ==
    \/ last \in PinnedIn(before)
    \/ Cardinality(PinnedIn(before)) + 1 < PoolSize

AtJoin ==
    \E t, c, row, ps, last, new :
        /\ Extending(t, c, row, ps, last, new, {}) /\ Pinning({new})
        /\ InsertCall("join", t, row, ps, last, new)

AtJoined ==
    \E t, c, row, ps, last, new :
        /\ Extending(t, c, row, ps, last, new, {}) /\ Linkable(last)
        /\ Pinning({new, last})
        /\ InsertCall("joined", t, row, ps, last, new)

AtStore ==
    \E t, c, row, ps, last, new :
        /\ Extending(t, c, row, ps, last, new, {last}) /\ Linkable(last)
        /\ page[last] = [before.page[last] EXCEPT !.next = new]
        /\ Pinning({new})
        /\ InsertCall("store", t, row, ps, last, new)

(* A panic: the tuple is longer than a u16 says. *)
AtTrapped ==
    /\ call.at = "trapped" /\ TupleSize(call.row) >= LengthModulus
    /\ Pinned \subseteq live /\ \A p \in Pages : pins[p] \in 0 .. MaxPins + 2

-----------------------------------------------------------------------------

(***************************************************************************)
(* delete frees the paths D of the pointers Q one after another; the first *)
(* k of them are freed, and of the next one the pages before the j-th.     *)
(***************************************************************************)
Behind(D, k, j) ==
    {q \in Pages : \/ \E i \in 1 .. k : q \in ToSet(D[i])
                   \/ \E i \in 1 .. j - 1 : q = D[k + 1][i]}

Deleting(t, p, s, Q, D) ==
    /\ t \in TableNames /\ before.tables[t] # Absent /\ tables = before.tables
    /\ p \in before.live /\ ReachedIn(before, p)
    /\ Q \in Seq(Pages)
    /\ \A i \in 1 .. Len(Q) : PointerPath(before, D[i], Q[i])
    /\ \A i, j \in 1 .. Len(Q) : i # j => ToSet(D[i]) \cap ToSet(D[j]) = {}
    /\ Q # << >> => HasTupleIn(before, p, s)
    /\ HasTupleIn(before, p, s) =>
        {Q[i] : i \in 1 .. Len(Q)} =
        {TupleIn(before, p, s)[c].pointer :
            c \in {d \in DOMAIN TupleIn(before, p, s) : IsPlaceholder(TupleIn(before, p, s)[d])}}

Freed(S) ==
    /\ live = before.live \ {q \in S : q \notin PinnedIn(before) /\ ~FullIn(before)}
    /\ Kept(live)

Rest(Q, k, todo) ==
    /\ todo \in Seq(Pages) /\ k \in Nat /\ k + Len(todo) = Len(Q)
    /\ \A i \in 1 .. Len(todo) : todo[i] = Q[k + i]

DeleteCall(at, t, p, s, todo, cur, next) ==
    call = [op |-> "delete", at |-> at, table |-> t, id |-> <<p, s>>, todo |-> todo,
            cur |-> cur, next |-> next]

AtTuple ==
    \E t, p, s :
        /\ t \in TableNames /\ before.tables[t] # Absent /\ tables = before.tables
        /\ p \in before.live /\ Untouched /\ Pinning({})
        /\ DeleteCall("tuple", t, p, s, << >>, NoPage, NoPage)

AtRemove ==
    \E t, p, s, Q, D, cur, next :
        /\ Deleting(t, p, s, Q, D) /\ Freed(Behind(D, Len(Q), 1)) /\ Pinning({p})
        /\ DeleteCall("remove", t, p, s, << >>, cur, next)

AtRelease ==
    \E t, p, s, Q, D, k, todo, cur, next :
        /\ Deleting(t, p, s, Q, D) /\ Freed(Behind(D, k, 1)) /\ Pinning({p})
        /\ Rest(Q, k, todo) /\ todo # << >>
        /\ DeleteCall("release", t, p, s, todo, cur, next)

AtFree ==
    \E t, p, s, Q, D, k, j, todo, next :
        /\ Deleting(t, p, s, Q, D) /\ Freed(Behind(D, k, j)) /\ Pinning({})
        /\ Rest(Q, k, todo) /\ todo # << >> /\ j \in 1 .. Len(D[k + 1])
        /\ DeleteCall("free", t, p, s, todo, D[k + 1][j], next)

AtFreeing ==
    \E t, p, s, Q, D, k, j, todo, next :
        /\ Deleting(t, p, s, Q, D) /\ Freed(Behind(D, k, j)) /\ Pinning({D[k + 1][j]})
        /\ Rest(Q, k, todo) /\ todo # << >> /\ j \in 1 .. Len(D[k + 1])
        /\ ReachedIn(before, D[k + 1][j])
        /\ DeleteCall("freeing", t, p, s, todo, D[k + 1][j], next)

AtErase ==
    \E t, p, s, Q, D, k, j, todo :
        /\ Deleting(t, p, s, Q, D) /\ Freed(Behind(D, k, j)) /\ Pinning({})
        /\ Rest(Q, k, todo) /\ todo # << >> /\ j \in 1 .. Len(D[k + 1])
        /\ ReachedIn(before, D[k + 1][j])
        /\ DeleteCall("erase", t, p, s, todo, D[k + 1][j],
                      before.page[D[k + 1][j]].next)

AtRefetch ==
    \E t, p, s, Q, D, k, todo, cur, next :
        /\ Deleting(t, p, s, Q, D) /\ Freed(Behind(D, k + 1, 1)) /\ Pinning({})
        /\ Rest(Q, k, todo) /\ todo # << >>
        /\ DeleteCall("refetch", t, p, s, todo, cur, next)

(* A set of numbers can be put in ascending order. *)
LEMMA AscendingSound ==
    ASSUME NEW S \in SUBSET Nat, IsFiniteSet(S), NEW s, s = Ascending(S)
    PROVE  /\ s \in Seq(S) /\ IsInjective(s) /\ ToSet(s) = S
           /\ Len(s) = Cardinality(S) /\ DOMAIN s = 1 .. Len(s)
<1> DEFINE Orders(T, u) ==
               u \in SetToSeqs(T) /\ \A i, j \in DOMAIN u : i < j => u[i] < u[j]
           Sizes == {n \in Nat : \E T \in SUBSET S : /\ IsFiniteSet(T) /\ Cardinality(T) = n
                                                     /\ ~ \E u : Orders(T, u)}
<1>1. Sizes = {}
  <2>1. SUFFICES ASSUME Sizes # {} PROVE FALSE
    OBVIOUS
  <2>2. PICK n \in Sizes : \A m \in Sizes : n <= m
    BY <2>1, LeastElement
  <2>3. PICK T \in SUBSET S : /\ IsFiniteSet(T) /\ Cardinality(T) = n
                              /\ ~ \E u : Orders(T, u)
    OBVIOUS
  <2>4. T # {}
    <3>1. SUFFICES ASSUME T = {} PROVE Orders(T, << >>)
      BY <2>3
    <3>2. Cardinality(T) = 0
      BY <3>1, FS_EmptySet
    <3>3. DOMAIN << >> = {} /\ << >> = [i \in 1 .. 0 |-> i]
      OBVIOUS
    <3>4. << >> \in SetToSeqs(T)
      BY <3>2, <3>3 DEF SetToSeqs
    <3> QED
      BY <3>3, <3>4
  <2>5. PICK b \in T : \A k \in T : b <= k
    BY <2>4, LeastElement
  <2>6. PICK U : U = T \ {b}
    OBVIOUS
  <2>7. IsFiniteSet(U) /\ Cardinality(U) = n - 1 /\ n \in Nat \ {0} /\ U \in SUBSET S
    BY <2>3, <2>5, <2>6, FS_RemoveElement, FS_CardinalityType, FS_EmptySet
  <2>8. n - 1 \notin Sizes /\ n - 1 \in Nat
    BY <2>2, <2>7
  <2>9. PICK u : Orders(U, u)
    BY <2>7, <2>8
  <2>10. /\ u \in [1 .. n - 1 -> U] /\ \A i, j \in 1 .. n - 1 : i # j => u[i] # u[j]
         /\ \A i, j \in 1 .. n - 1 : i < j => u[i] < u[j]
    BY <2>7, <2>9 DEF SetToSeqs
  <2>11. PICK v : v = [i \in 1 .. n |-> IF i = 1 THEN b ELSE u[i - 1]]
    OBVIOUS
  <2>12. ASSUME NEW i \in 1 .. n PROVE v[i] \in T /\ (i # 1 => i - 1 \in 1 .. n - 1 /\ v[i] \in U)
    BY <2>5, <2>6, <2>7, <2>10, <2>11
  <2>13. v \in [1 .. n -> T]
    BY <2>11, <2>12
  <2>14. ASSUME NEW i \in 1 .. n, NEW j \in 1 .. n, i < j PROVE v[i] < v[j]
    <3>1. j - 1 \in 1 .. n - 1 /\ v[j] = u[j - 1] /\ u[j - 1] \in U
      BY <2>7, <2>10, <2>11, <2>14
    <3>2. CASE i = 1
      <4>1. v[i] = b /\ b <= u[j - 1] /\ u[j - 1] # b
        BY <2>5, <2>6, <2>11, <3>1, <3>2
      <4>2. b \in Nat /\ u[j - 1] \in Nat
        BY <2>6, <3>1
      <4> QED
        BY <3>1, <4>1, <4>2
    <3>3. CASE i # 1
      <4>1. i - 1 \in 1 .. n - 1 /\ v[i] = u[i - 1] /\ i - 1 < j - 1
        BY <2>7, <2>11, <2>14, <3>3
      <4>2. u[i - 1] < u[j - 1]
        BY <2>10, <3>1, <4>1
      <4> QED
        BY <3>1, <4>1, <4>2
    <3> QED
      BY <3>2, <3>3
  <2>15. ASSUME NEW i \in 1 .. n, NEW j \in 1 .. n, i # j PROVE v[i] # v[j]
    <3>1. v[i] \in Nat /\ v[j] \in Nat
      BY <2>13
    <3>2. i < j \/ j < i
      BY <2>7, <2>15
    <3> QED
      BY <2>14, <3>1, <3>2
  <2>16. v \in SetToSeqs(T) /\ DOMAIN v = 1 .. n
    BY <2>3, <2>13, <2>15 DEF SetToSeqs
  <2> QED
    BY <2>3, <2>14, <2>16
<1>2. \E u : Orders(S, u)
  BY <1>1, FS_CardinalityType
<1>3. s = CHOOSE u \in SetToSeqs(S) : \A i, j \in DOMAIN u : i < j => u[i] < u[j]
  BY DEF Ascending
<1>4. s \in SetToSeqs(S)
  BY <1>2, <1>3
<1>5. PICK n \in Nat : n = Cardinality(S)
  BY FS_CardinalityType
<1>6. s \in [1 .. n -> S] /\ \A i, j \in 1 .. n : i # j => s[i] # s[j]
  BY <1>4, <1>5 DEF SetToSeqs
<1>7. s \in Seq(S) /\ Len(s) = n /\ DOMAIN s = 1 .. n
  BY <1>6
<1>8. IsInjective(s)
  BY <1>6 DEF IsInjective
<1>9. ToSet(s) = S
  <2>1. s \in Injection(1 .. n, S)
    BY <1>6, <1>7, <1>8 DEF Injection
  <2>2. s \in Surjection(1 .. n, S)
    <3>1. IsFiniteSet(1 .. n) /\ Cardinality(1 .. n) = n
      BY FS_Interval
    <3> QED
      BY <1>5, <2>1, <3>1, FS_Injection
  <2> QED
    BY <1>7, <2>2 DEF Surjection, ToSet
<1> QED
  BY <1>5, <1>7, <1>8, <1>9

-----------------------------------------------------------------------------

(* The pages and their pins. *)

(* What is pinned while a call holds pins. *)
LEMMA PinnedPages ==
    ASSUME StoreShape(before), NEW S \in SUBSET Pages, Pinning(S)
    PROVE  /\ Pinned = PinnedIn(before) \cup S
           /\ pins \in [Pages -> 0 .. MaxPins + 1]
           /\ \A q \in Pages : pins[q] = IF q \in S THEN before.pins[q] + 1 ELSE before.pins[q]
<1>1. /\ before.pins \in [Pages -> 0 .. MaxPins]
      /\ PinnedIn(before) = {q \in Pages : before.pins[q] > 0}
  BY DEF StoreShape, PinnedIn
<1>2. MaxPins \in Nat
  BY EngineAssumption
<1>3. /\ \A q \in Pages : before.pins[q] \in 0 .. MaxPins
      /\ \A q \in Pages : pins[q] = IF q \in S THEN before.pins[q] + 1 ELSE before.pins[q]
  BY <1>1 DEF Pinning
<1>4. pins \in [Pages -> 0 .. MaxPins + 1]
  <2>1. \A q \in Pages : pins[q] \in 0 .. MaxPins + 1
    BY <1>2, <1>3
  <2>2. pins = [q \in Pages |-> pins[q]]
    BY DEF Pinning
  <2> QED
    BY <2>1, <2>2
<1>5. \A q \in Pages : pins[q] > 0 <=> before.pins[q] > 0 \/ q \in S
  BY <1>2, <1>3
<1>6. Pinned = PinnedIn(before) \cup S
  BY <1>1, <1>5 DEF Pinned
<1> QED
  BY <1>3, <1>4, <1>6

(* With no pins of its own, a call finds the pool as full as it was. *)
LEMMA SameFetches ==
    ASSUME StoreShape(before), Pinning({})
    PROVE  /\ Pinned = PinnedIn(before) /\ (Full <=> FullIn(before))
           /\ \A p : CanFetch(p) <=> ReachedIn(before, p)
<1>1. Pinned = PinnedIn(before)
  <2>1. {} \in SUBSET Pages
    OBVIOUS
  <2> QED
    BY <2>1, PinnedPages
<1> QED
  BY <1>1 DEF Full, FullIn, CanFetch, ReachedIn

(* A pin more, and a pin less. *)
LEMMA PinOne ==
    ASSUME StoreShape(before), NEW S \in SUBSET Pages, Pinning(S), NEW p \in Pages \ S,
           before' = before, pins' = [pins EXCEPT ![p] = @ + 1], NEW T, T = S \cup {p}
    PROVE  Pinning(T)'
<1>1. pins = [q \in Pages |-> IF q \in S THEN before.pins[q] + 1 ELSE before.pins[q]]
  BY DEF Pinning
<1>2. pins' = [q \in Pages |-> IF q \in T THEN before.pins[q] + 1 ELSE before.pins[q]]
  BY <1>1
<1> QED
  BY <1>2 DEF Pinning

(* Unpinning one of the pages a call holds leaves the pins on the others. *)
LEMMA UnpinOne ==
    ASSUME StoreShape(before), NEW S \in SUBSET Pages, Pinning(S), NEW p \in S,
           before' = before, Unpin(p), NEW T, T = S \ {p}
    PROVE  Pinning(T)'
<1>1. before.pins \in [Pages -> 0 .. MaxPins] /\ MaxPins \in Nat
  BY EngineAssumption DEF StoreShape
<1>2. /\ pins = [q \in Pages |-> pins[q]]
      /\ \A q \in Pages : pins[q] = IF q \in S THEN before.pins[q] + 1 ELSE before.pins[q]
  BY DEF Pinning
<1>3. pins' = [q \in Pages |-> IF q = p THEN pins[q] - 1 ELSE pins[q]]
  BY <1>2 DEF Unpin
<1>4. \A q \in Pages : pins'[q] = IF q \in T THEN before.pins[q] + 1 ELSE before.pins[q]
  BY <1>1, <1>2, <1>3
<1>5. pins' = [q \in Pages |-> IF q \in T THEN before.pins[q] + 1 ELSE before.pins[q]]
  BY <1>3, <1>4
<1> QED
  BY <1>5 DEF Pinning

(* The last pin that a call gives back. *)
LEMMA LastUnpin ==
    ASSUME StoreShape(before), NEW p \in Pages, Pinning({p}), Unpin(p)
    PROVE  pins' = before.pins
<1>1. before.pins \in [Pages -> 0 .. MaxPins] /\ MaxPins \in Nat
  BY EngineAssumption DEF StoreShape
<1>2. /\ pins = [q \in Pages |-> pins[q]]
      /\ \A q \in Pages : pins[q] = IF q \in {p} THEN before.pins[q] + 1 ELSE before.pins[q]
  BY DEF Pinning
<1>3. pins' = [q \in Pages |-> IF q = p THEN pins[q] - 1 ELSE pins[q]]
  BY <1>2 DEF Unpin
<1>4. \A q \in Pages : pins'[q] = before.pins[q]
  BY <1>1, <1>2, <1>3
<1> QED
  BY <1>1, <1>3, <1>4

(* What leaves the pins alone leaves those a call holds. *)
LEMMA SamePins ==
    ASSUME NEW S, Pinning(S), before' = before, pins' = pins
    PROVE  Pinning(S)'
BY DEF Pinning

(* The pages after fetches and unpins. *)
LEMMA SameShape ==
    ASSUME HeapShape, UNCHANGED <<live, page, unused>>
    PROVE  HeapShape'
BY DEF HeapShape

(* A page is written. *)
LEMMA PageWritten ==
    ASSUME HeapShape, NEW p \in live, NEW content, page' = [page EXCEPT ![p] = content],
           UNCHANGED <<live, unused>>
    PROVE  /\ HeapShape' /\ page'[p] = content
           /\ \A q \in live \ {p} : page'[q] = page[q]
<1>1. page = [q \in live |-> page[q]]
  BY DEF HeapShape
<1>2. page' = [q \in live |-> IF q = p THEN content ELSE page[q]]
  BY <1>1
<1>3. page' = [q \in live |-> page'[q]]
  BY <1>2
<1> QED
  BY <1>2, <1>3 DEF HeapShape

(* The next page: pinned and initialized, or of zeros if no frame is free. *)
LEMMA NewPageSound ==
    ASSUME HeapShape, StoreShape(before), NEW S \in SUBSET Pages, Pinning(S),
           Pinned \subseteq live, unused # << >>, NEW found, NewPage(found),
           NEW p, p = NextPage
    PROVE  /\ HeapShape' /\ p \in Pages \ live /\ live' = live \cup {p}
           /\ \A q \in live : page'[q] = page[q]
           /\ page'[p] = IF Full THEN EmptyPage(0, NoPage) ELSE NewDataPage
           /\ pins' = IF Full THEN pins ELSE [pins EXCEPT ![p] = @ + 1]
           /\ call' = IF Full THEN Idle ELSE found
<1>1. /\ unused \in Seq(Pages) /\ IsInjective(unused) /\ live = Pages \ ToSet(unused)
      /\ page = [q \in live |-> page[q]]
  BY DEF HeapShape
<1>2. /\ Len(unused) \in Nat \ {0} /\ DOMAIN unused = 1 .. Len(unused)
      /\ p = unused[1] /\ p \in Pages /\ p \in ToSet(unused)
  <2>1. Len(unused) \in Nat \ {0} /\ DOMAIN unused = 1 .. Len(unused)
    BY <1>1, LenProperties, EmptySeq
  <2>2. p = unused[1]
    BY DEF NextPage
  <2>3. p \in Pages /\ p \in ToSet(unused)
    BY <1>1, <2>1, <2>2, ElementOfSeq DEF ToSet
  <2> QED
    BY <2>1, <2>2, <2>3
<1>3. PICK rest : rest = Tail(unused)
  OBVIOUS
<1>4. /\ rest \in Seq(Pages) /\ Len(rest) = Len(unused) - 1
      /\ \A i \in 1 .. Len(rest) : rest[i] = unused[i + 1]
      /\ DOMAIN rest = 1 .. Len(rest)
  BY <1>1, <1>2, <1>3, HeadTailProperties, LenProperties
<1>5. IsInjective(rest) /\ ToSet(rest) = ToSet(unused) \ {p}
  <2>1. ASSUME NEW i \in 1 .. Len(rest), NEW j \in 1 .. Len(rest), rest[i] = rest[j] PROVE i = j
    <3>1. i + 1 \in 1 .. Len(unused) /\ j + 1 \in 1 .. Len(unused)
      BY <1>2, <1>4
    <3>2. i + 1 = j + 1
      BY <1>1, <1>2, <1>4, <2>1, <3>1 DEF IsInjective
    <3> QED
      BY <3>2
  <2>2. ASSUME NEW i \in 1 .. Len(rest) PROVE rest[i] \in ToSet(unused) /\ rest[i] # p
    <3>1. i + 1 \in 1 .. Len(unused) /\ 1 \in 1 .. Len(unused) /\ i + 1 # 1
      BY <1>2, <1>4
    <3> QED
      BY <1>1, <1>2, <1>4, <3>1 DEF IsInjective, ToSet
  <2>3. ASSUME NEW i \in 1 .. Len(unused), unused[i] # p PROVE unused[i] \in ToSet(rest)
    <3>1. i - 1 \in 1 .. Len(rest) /\ rest[i - 1] = unused[i]
      BY <1>2, <1>4, <2>3
    <3> QED
      BY <1>4, <3>1 DEF ToSet
  <2>4. ToSet(rest) \subseteq ToSet(unused) \ {p}
    BY <1>4, <2>2 DEF ToSet
  <2>5. ToSet(unused) \ {p} \subseteq ToSet(rest)
    BY <1>2, <2>3 DEF ToSet
  <2> QED
    BY <1>4, <2>1, <2>4, <2>5 DEF IsInjective
<1>6. PICK content : content = IF Full THEN EmptyPage(0, NoPage) ELSE NewDataPage
  OBVIOUS
<1>7. /\ unused' = rest /\ live' = live \cup {p}
      /\ page' = WithPages(Only(p, content))
      /\ pins' = [pins EXCEPT ![p] = IF Full THEN 0 ELSE 1]
      /\ call' = IF Full THEN Idle ELSE found
  BY <1>3, <1>6 DEF NewPage
<1>8. page' = [q \in {p} \cup live |-> IF q \in {p} THEN content ELSE page[q]]
  <2>1. DOMAIN page = live
    BY <1>1
  <2>2. DOMAIN Only(p, content) = {p} /\ Only(p, content)[p] = content
    BY DEF Only
  <2>3. PICK new : new = Only(p, content)
    OBVIOUS
  <2>4. page' = [q \in DOMAIN new \cup DOMAIN page |-> IF q \in DOMAIN new THEN new[q] ELSE page[q]]
    BY <1>7, <2>3 DEF WithPages, Over
  <2>5. \A q \in {p} \cup live : (IF q \in DOMAIN new THEN new[q] ELSE page[q])
                               = (IF q \in {p} THEN content ELSE page[q])
    BY <2>2, <2>3
  <2> QED
    BY <2>1, <2>2, <2>3, <2>4, <2>5
<1>9. /\ p \notin live /\ page'[p] = content /\ \A q \in live : page'[q] = page[q]
      /\ page' = [q \in live' |-> page'[q]]
  BY <1>1, <1>2, <1>7, <1>8
<1>10. live' = Pages \ ToSet(unused')
  BY <1>1, <1>2, <1>5, <1>7
<1>11. HeapShape'
  BY <1>4, <1>5, <1>7, <1>9, <1>10 DEF HeapShape
<1>12. pins' = IF Full THEN pins ELSE [pins EXCEPT ![p] = @ + 1]
  <2>1. pins \in [Pages -> 0 .. MaxPins + 1] /\ MaxPins \in Nat
    BY PinnedPages, EngineAssumption
  <2>2. pins[p] = 0
    BY <1>2, <1>9, <2>1 DEF Pinned
  <2>3. [pins EXCEPT ![p] = 0] = pins
    BY <2>1, <2>2
  <2>4. [pins EXCEPT ![p] = @ + 1] = [pins EXCEPT ![p] = 1]
    BY <2>2
  <2> QED
    BY <1>7, <2>3, <2>4
<1> QED
  BY <1>2, <1>6, <1>7, <1>9, <1>11, <1>12

(* A page is deleted, unless it is pinned. *)
LEMMA DeletePageSound ==
    ASSUME HeapShape, NEW p \in live, DeletePage(p)
    PROVE  /\ HeapShape' /\ live' = live \ {q \in {p} : q \notin Pinned}
           /\ \A q \in live' : page'[q] = page[q]
<1>1. /\ unused \in Seq(Pages) /\ IsInjective(unused) /\ live = Pages \ ToSet(unused)
      /\ page = [q \in live |-> page[q]]
  BY DEF HeapShape
<1>2. CASE p \in Pinned
  BY <1>2, SameShape DEF DeletePage
<1>3. CASE p \notin Pinned
  <2>1. /\ live' = live \ {p} /\ page' = [q \in live \ {p} |-> page[q]]
        /\ unused' = <<p>> \o unused
    BY <1>3 DEF DeletePage
  <2>2. /\ Len(unused) \in Nat /\ DOMAIN unused = 1 .. Len(unused)
        /\ p \in Pages /\ p \notin ToSet(unused)
    BY <1>1, LenProperties
  <2>3. /\ unused' \in Seq(Pages) /\ Len(unused') = Len(unused) + 1
        /\ DOMAIN unused' = 1 .. Len(unused') /\ unused'[1] = p
        /\ \A i \in 2 .. Len(unused') : unused'[i] = unused[i - 1]
    <3>1. <<p>> \in Seq(Pages) /\ Len(<<p>>) = 1 /\ <<p>>[1] = p
      BY <2>2
    <3>2. PICK u : u = unused'
      OBVIOUS
    <3>3. u \in Seq(Pages) /\ Len(u) = 1 + Len(unused)
      BY <1>1, <2>1, <3>1, <3>2, ConcatProperties
    <3>4. \A i \in 1 .. Len(u) : u[i] = IF i <= 1 THEN <<p>>[i] ELSE unused[i - 1]
      BY <1>1, <2>1, <3>1, <3>2, <3>3, ConcatProperties
    <3> QED
      BY <2>2, <3>1, <3>2, <3>3, <3>4, LenProperties
  <2>4. ASSUME NEW i \in 2 .. Len(unused')
        PROVE  i - 1 \in 1 .. Len(unused) /\ unused'[i] \in ToSet(unused) /\ unused'[i] # p
    BY <2>2, <2>3 DEF ToSet
  <2>5. IsInjective(unused')
    <3>1. ASSUME NEW i \in 1 .. Len(unused'), NEW j \in 1 .. Len(unused'), unused'[i] = unused'[j]
          PROVE  i = j
      <4>1. CASE i = 1 \/ j = 1
        <5>1. i = 1 \/ i \in 2 .. Len(unused')
          BY <2>2, <2>3
        <5>2. j = 1 \/ j \in 2 .. Len(unused')
          BY <2>2, <2>3
        <5> QED
          BY <2>3, <2>4, <3>1, <4>1, <5>1, <5>2
      <4>2. CASE i # 1 /\ j # 1
        <5>1. i \in 2 .. Len(unused') /\ j \in 2 .. Len(unused')
          BY <2>2, <2>3, <4>2
        <5>2. /\ i - 1 \in 1 .. Len(unused) /\ j - 1 \in 1 .. Len(unused)
              /\ unused[i - 1] = unused[j - 1]
          BY <2>3, <2>4, <3>1, <5>1
        <5>3. i - 1 = j - 1
          BY <1>1, <2>2, <5>2 DEF IsInjective
        <5> QED
          BY <5>1, <5>3
      <4> QED
        BY <4>1, <4>2
    <3> QED
      BY <2>3, <3>1 DEF IsInjective
  <2>6. ToSet(unused') = ToSet(unused) \cup {p}
    <3>1. ASSUME NEW i \in 1 .. Len(unused') PROVE unused'[i] \in ToSet(unused) \cup {p}
      <4>1. i = 1 \/ i \in 2 .. Len(unused')
        BY <2>2, <2>3
      <4> QED
        BY <2>3, <2>4, <4>1
    <3>2. ASSUME NEW i \in 1 .. Len(unused) PROVE unused[i] \in ToSet(unused')
      <4>1. i + 1 \in 2 .. Len(unused') /\ i + 1 \in 1 .. Len(unused') /\ i + 1 - 1 = i
        BY <2>2, <2>3
      <4>2. unused'[i + 1] = unused[i]
        BY <2>3, <4>1
      <4> QED
        BY <2>3, <4>1, <4>2 DEF ToSet
    <3>3. p \in ToSet(unused')
      <4>1. 1 \in 1 .. Len(unused')
        BY <2>2, <2>3
      <4> QED
        BY <2>3, <4>1 DEF ToSet
    <3> QED
      BY <2>2, <2>3, <3>1, <3>2, <3>3 DEF ToSet
  <2>7. HeapShape'
    BY <1>1, <2>1, <2>2, <2>3, <2>5, <2>6 DEF HeapShape
  <2> QED
    BY <1>3, <2>1, <2>7
<1> QED
  BY <1>2, <1>3

-----------------------------------------------------------------------------

(* drop_table lists the pages of the table. *)

(* The pages of a path. *)
LEMMA PathPages ==
    ASSUME StoreShape(before), NEW c, NEW h, PathIn(before, c, h)
    PROVE  /\ Len(c) \in Nat \ {0} /\ DOMAIN c = 1 .. Len(c) /\ c[1] = h
           /\ \A i \in 1 .. Len(c) : c[i] \in before.live /\ c[i] \in Pages /\ c[i] # NoPage
           /\ \A i \in 1 .. Len(c) :
                before.page[c[i]].next = IF i = Len(c) THEN NoPage ELSE c[i + 1]
           /\ \A i, j \in 1 .. Len(c) : c[i] = c[j] => i = j
<1>1. Len(c) \in Nat \ {0} /\ DOMAIN c = 1 .. Len(c)
  BY LenProperties DEF PathIn
<1>2. \A i \in 1 .. Len(c) : c[i] \in before.live /\ c[i] \in Pages /\ c[i] # NoPage
  BY EngineAssumption DEF PathIn, StoreShape
<1>3. \A i \in 1 .. Len(c) :
          before.page[c[i]].next = IF i = Len(c) THEN NoPage ELSE c[i + 1]
  <2>1. before.page[c[Len(c)]].next = NoPage
    BY DEF PathIn
  <2>2. \A i \in 1 .. Len(c) - 1 : c[i + 1] = before.page[c[i]].next
    BY DEF PathIn
  <2>3. ASSUME NEW i \in 1 .. Len(c), i # Len(c) PROVE i \in 1 .. Len(c) - 1
    <3>1. PICK N \in Nat : N = Len(c)
      BY Zenon, <1>1
    <3> QED
      BY <2>3, <3>1
  <2> QED
    BY <2>1, <2>2, <2>3
<1> QED
  BY Zenon, <1>1, <1>2, <1>3 DEF PathIn

(* page_ids notes the page and fetches it, or stops there. *)
LEMMA ListFetchStep ==
    ASSUME HeapShape, StoreSound(before), AtList, ListFetch, before' = before
    PROVE  HeapShape' /\ (AtListed' \/ AtDrop')
<1>1. PICK t, c, ids, k :
        /\ Listing(t, c, ids) /\ k = Len(ids) + 1 /\ k \in 1 .. Len(c) /\ Pinning({})
        /\ call = [op |-> "drop", at |-> "list", table |-> t, cur |-> c[k], ids |-> ids]
  BY DEF AtList
<1>2. /\ StoreShape(before) /\ TablePath(before, t, c) /\ t \in TableNames
      /\ tables = [before.tables EXCEPT ![t] = Absent] /\ Untouched
      /\ ids \in Seq(Pages) /\ Len(ids) \in Nat
      /\ \A i \in 1 .. Len(ids) : ids[i] = c[i] /\ ReachedIn(before, c[i])
  BY <1>1, LenProperties DEF StoreSound, Listing
<1>3. PICK h : PathIn(before, c, h)
  BY <1>2 DEF TablePath
<1>4. k \in Nat \ {0}
  BY <1>1
<1>5. /\ Len(c) \in Nat \ {0} /\ k \in 1 .. Len(c) /\ c[k] \in Pages
      /\ \A i \in 1 .. Len(c) : c[i] \in Pages
  BY <1>1, <1>2, <1>3, <1>4, PathPages
<1>6. PICK more : more = Append(ids, c[k])
  OBVIOUS
<1>7. /\ more \in Seq(Pages) /\ Len(more) = k /\ \A i \in 1 .. k : more[i] = c[i]
      /\ \A i \in 1 .. k - 1 : ReachedIn(before, c[i])
  <2>1. k - 1 = Len(ids) /\ k = Len(ids) + 1
    BY <1>1, <1>2
  <2>2. /\ more \in Seq(Pages) /\ Len(more) = Len(ids) + 1 /\ more[Len(ids) + 1] = c[k]
        /\ \A i \in 1 .. Len(ids) : more[i] = ids[i]
    BY <1>2, <1>5, <1>6, AppendProperties
  <2>3. \A i \in 1 .. k : i \in 1 .. Len(ids) \/ i = k
    BY <1>2, <1>4, <2>1
  <2> QED
    BY <1>2, <2>1, <2>2, <2>3
<1>8. /\ call' = IF CanFetch(c[k])
                  THEN [op |-> "drop", at |-> "listed", table |-> t, cur |-> c[k], ids |-> more]
                  ELSE [op |-> "drop", at |-> "drop", table |-> t, cur |-> c[k], ids |-> more]
      /\ pins' = IF CanFetch(c[k]) THEN [pins EXCEPT ![c[k]] = @ + 1] ELSE pins
      /\ UNCHANGED <<live, page, tables, unused>>
  <2>1. call.cur = c[k]
    BY <1>1
  <2>2. PICK listed : listed = [call EXCEPT !.ids = Append(@, call.cur)]
    OBVIOUS
  <2>3. listed = [op |-> "drop", at |-> "list", table |-> t, cur |-> c[k], ids |-> more]
    BY <1>1, <1>6, <2>2
  <2>4. Fetch(c[k], [listed EXCEPT !.at = "listed"], [listed EXCEPT !.at = "drop"])
    BY <2>1, <2>2 DEF ListFetch
  <2>5. /\ [listed EXCEPT !.at = "listed"] =
             [op |-> "drop", at |-> "listed", table |-> t, cur |-> c[k], ids |-> more]
        /\ [listed EXCEPT !.at = "drop"] =
             [op |-> "drop", at |-> "drop", table |-> t, cur |-> c[k], ids |-> more]
    BY <2>3
  <2> QED
    BY <2>4, <2>5 DEF Fetch
<1>9. HeapShape' /\ UNCHANGED <<live, page, tables>>
  BY <1>8, SameShape
<1>10. Untouched' /\ tables' = [before'.tables EXCEPT ![t] = Absent]
  BY <1>2, <1>9 DEF Untouched
<1>11. CanFetch(c[k]) <=> ReachedIn(before, c[k])
  BY <1>1, <1>2, SameFetches
<1>12. CASE ReachedIn(before, c[k])
  <2>1. /\ call' = [op |-> "drop", at |-> "listed", table |-> t, cur |-> c[k], ids |-> more]
        /\ pins' = [pins EXCEPT ![c[k]] = @ + 1]
    BY <1>8, <1>11, <1>12
  <2>2. Pinning({c[k]})'
    <3>1. {} \in SUBSET Pages /\ c[k] \in Pages \ {} /\ {c[k]} = {} \cup {c[k]}
      BY <1>5
    <3> QED
      BY <1>1, <1>2, <2>1, <3>1, PinOne
  <2>3. \A i \in 1 .. k : more[i] = c[i] /\ ReachedIn(before', c[i])
    BY <1>4, <1>7, <1>12
  <2>4. Listing(t, c, more)'
    BY <1>2, <1>5, <1>7, <1>10, <2>3 DEF Listing
  <2>5. AtListed'
    BY <1>5, <1>7, <2>1, <2>2, <2>4 DEF AtListed
  <2> QED
    BY <1>9, <2>5
<1>13. CASE ~ReachedIn(before, c[k])
  <2>1. /\ call' = [op |-> "drop", at |-> "drop", table |-> t, cur |-> c[k], ids |-> more]
        /\ pins' = pins
    BY <1>8, <1>11, <1>13
  <2>2. Pinning({})'
    BY <1>1, <2>1, SamePins
  <2>3. /\ \A i \in 1 .. Len(more) : more[i] = c[0 + i]
        /\ \A i \in 1 .. 0 + Len(more) - 1 : ReachedIn(before', c[i])
        /\ ~ReachedIn(before', c[0 + Len(more)])
        /\ 0 + Len(more) <= Len(c) /\ 0 \in Nat /\ Len(more) \in Nat \ {0}
    BY <1>4, <1>5, <1>7, <1>13
  <2>4. /\ live' = before'.live \
             {q \in Pages : \E i \in 1 .. 0 : q = c[i] /\ q \notin PinnedIn(before')}
        /\ Kept(live)'
    BY <1>10 DEF Untouched, Kept
  <2>5. Dropping(t, c, more, 0)'
    BY <1>2, <1>7, <1>10, <2>2, <2>3, <2>4 DEF Dropping
  <2>6. AtDrop'
    BY <2>1, <2>5 DEF AtDrop
  <2> QED
    BY <1>9, <2>6
<1> QED
  BY <1>12, <1>13

(* page_ids goes to the next page, or all the pages are listed. *)
LEMMA ListNextStep ==
    ASSUME HeapShape, StoreSound(before), AtListed, ListNext, before' = before
    PROVE  HeapShape' /\ (AtList' \/ AtDrop')
<1>1. PICK t, c, ids, k :
        /\ Listing(t, c, ids) /\ k = Len(ids) /\ k \in 1 .. Len(c) /\ Pinning({c[k]})
        /\ call = [op |-> "drop", at |-> "listed", table |-> t, cur |-> c[k], ids |-> ids]
  BY DEF AtListed
<1>2. /\ StoreShape(before) /\ TablePath(before, t, c) /\ t \in TableNames
      /\ tables = [before.tables EXCEPT ![t] = Absent] /\ Untouched
      /\ ids \in Seq(Pages) /\ Len(ids) \in Nat /\ Len(ids) <= Len(c)
      /\ \A i \in 1 .. Len(ids) : ids[i] = c[i] /\ ReachedIn(before, c[i])
  BY <1>1, LenProperties DEF StoreSound, Listing
<1>3. PICK h : PathIn(before, c, h)
  BY <1>2 DEF TablePath
<1>4. k \in Nat \ {0}
  BY <1>1
<1>5. /\ Len(c) \in Nat \ {0} /\ k \in 1 .. Len(c) /\ c[k] \in Pages
      /\ \A i \in 1 .. Len(c) : c[i] \in Pages /\ c[i] # NoPage
      /\ before.page[c[k]].next = IF k = Len(c) THEN NoPage ELSE c[k + 1]
  BY <1>1, <1>2, <1>3, <1>4, PathPages
<1>6. PICK next : next = before.page[c[k]].next
  OBVIOUS
<1>7. /\ call.at = "listed" /\ Unpin(c[k])
      /\ call' = [op |-> "drop", at |-> IF next = NoPage THEN "drop" ELSE "list",
                  table |-> t, cur |-> next, ids |-> ids]
      /\ UNCHANGED <<live, page, tables, unused>>
  BY <1>1, <1>2, <1>4, <1>6 DEF ListNext, Untouched
<1>8. HeapShape'
  BY <1>7, SameShape
<1>9. Untouched' /\ tables' = [before'.tables EXCEPT ![t] = Absent]
  BY <1>2, <1>7 DEF Untouched
<1>10. Pinning({})'
  <2>1. {c[k]} \in SUBSET Pages /\ c[k] \in {c[k]} /\ {} = {c[k]} \ {c[k]}
    BY <1>5
  <2> QED
    BY <1>1, <1>2, <1>4, <1>7, <2>1, UnpinOne
<1>11. CASE k < Len(c)
  <2>1. next = c[k + 1] /\ next # NoPage
    BY <1>5, <1>6, <1>11
  <2>2. Listing(t, c, ids)'
    BY <1>2, <1>9 DEF Listing
  <2>3. k + 1 \in 1 .. Len(c) /\ k + 1 = Len(ids) + 1
    BY <1>1, <1>4, <1>5, <1>11
  <2>4. call' = [op |-> "drop", at |-> "list", table |-> t, cur |-> c[k + 1], ids |-> ids]
    BY <1>7, <2>1
  <2>5. AtList'
    BY <1>10, <2>2, <2>3, <2>4 DEF AtList
  <2> QED
    BY <1>8, <2>5
<1>12. CASE k = Len(c)
  <2>1. next = NoPage
    BY <1>5, <1>6, <1>12
  <2>2. /\ \A i \in 1 .. Len(ids) : ids[i] = c[0 + i]
        /\ \A i \in 1 .. 0 + Len(ids) - 1 : ReachedIn(before', c[i])
        /\ 0 + Len(ids) = Len(c) /\ 0 + Len(ids) <= Len(c)
        /\ 0 \in Nat /\ Len(ids) \in Nat \ {0}
    <3>1. k = Len(ids)
      BY <1>1
    <3> QED
      BY <1>2, <1>4, <1>12, <3>1
  <2>3. /\ live' = before'.live \
             {q \in Pages : \E i \in 1 .. 0 : q = c[i] /\ q \notin PinnedIn(before')}
        /\ Kept(live)'
    BY <1>9 DEF Untouched, Kept
  <2>4. Dropping(t, c, ids, 0)'
    BY <1>2, <1>9, <1>10, <2>2, <2>3 DEF Dropping
  <2>5. AtDrop'
    BY <1>7, <2>1, <2>4 DEF AtDrop
  <2> QED
    BY <1>8, <2>5
<1> QED
  BY <1>5, <1>11, <1>12

-----------------------------------------------------------------------------

(* insert writes the pieces of a row. *)

(* The pages an insertion has written. *)
LEMMA SpillFacts ==
    ASSUME StoreShape(before), NEW t, NEW c, NEW row, NEW ps, NEW extra, NEW loose, NEW changed,
           Spilling(t, c, row, ps, extra, loose, changed)
    PROVE  /\ row \in Rows /\ Len(ps) \in Nat /\ Len(Pieces(row)) \in Nat
           /\ ps \in [1 .. Len(ps) -> Pages] /\ DOMAIN ps = 1 .. Len(ps)
           /\ ToSet(ps) = {ps[i] : i \in 1 .. Len(ps)} /\ ToSet(ps) \subseteq Pages
           /\ \A i \in 1 .. Len(ps) : ps[i] \in live /\ ps[i] \notin before.live
           /\ \A i \in 1 .. Len(ps) : ps[i] \in Pages
           /\ before.live \subseteq live /\ before.live \subseteq Pages
<1>1. ps \in Seq(Pages) /\ row \in Rows
  BY DEF Spilling
<1>2. Len(ps) \in Nat /\ DOMAIN ps = 1 .. Len(ps) /\ ps \in [1 .. Len(ps) -> Pages]
  BY <1>1, LenProperties
<1>3. ToSet(ps) = {ps[i] : i \in 1 .. Len(ps)}
  BY <1>2 DEF ToSet
<1>4. Len(Pieces(row)) \in Nat
  <2>1. PICK first : PiecesFrom(row, first)
    BY <1>1, PiecesSound
  <2>2. Pieces(row) \in Seq([column : Spilled(row), chunk : Seq(Nat)])
    BY <2>1 DEF PiecesFrom
  <2> QED
    BY <2>2, LenProperties
<1>5. ToSet(ps) \cap before.live = {} /\ live = before.live \cup ToSet(ps) \cup extra
  BY DEF Spilling
<1>6. \A i \in 1 .. Len(ps) : ps[i] \in ToSet(ps) /\ ps[i] \in Pages
  BY <1>2, <1>3
<1>7. before.live \subseteq Pages
  BY DEF StoreShape
<1> QED
  BY <1>1, <1>2, <1>3, <1>4, <1>5, <1>6, <1>7

Written(row, ps) == \A q \in ToSet(ps) : page[q] = OverflowPages(row, ps)[q]

(* In a full pool nothing is written at all. *)
LEMMA NothingSpilled ==
    ASSUME HeapShape, StoreShape(before), FullIn(before), NEW t, NEW c, NEW row, NEW ps,
           Spilling(t, c, row, ps, {}, FALSE, {})
    PROVE  ps = << >> /\ Untouched /\ tables = before.tables
<1>1. ps = << >> /\ live = before.live \cup ToSet(ps) /\ tables = before.tables
  BY DEF Spilling
<1>2. ToSet(ps) = {}
  BY <1>1 DEF ToSet
<1>3. page = before.page
  <2>1. page = [q \in live |-> page[q]]
    BY DEF HeapShape
  <2>2. before.page = [q \in before.live |-> before.page[q]]
    BY DEF StoreShape
  <2>3. \A q \in before.live : page[q] = before.page[q]
    BY DEF Spilling, Kept
  <2> QED
    BY <1>1, <1>2, <2>1, <2>2, <2>3
<1> QED
  BY <1>1, <1>2, <1>3 DEF Untouched

(* How far insert has come depends on the pages and tables alone. *)
LEMMA SpillingStays ==
    ASSUME NEW t, NEW c, NEW row, NEW ps, NEW extra, NEW loose, NEW changed,
           Spilling(t, c, row, ps, extra, loose, changed),
           before' = before, UNCHANGED <<live, page, tables>>
    PROVE  Spilling(t, c, row, ps, extra, loose, changed)'
BY DEF Spilling, Kept, PieceOn

(* The pinned pages are in use while an insertion runs. *)
LEMMA SpillPins ==
    ASSUME StoreShape(before), Pinning({}), NEW t, NEW c, NEW row, NEW ps, NEW extra, NEW loose,
           NEW changed, Spilling(t, c, row, ps, extra, loose, changed)
    PROVE  Pinned \subseteq live /\ {} \in SUBSET Pages
BY SameFetches DEF StoreShape, Spilling

(* A column's pieces are written: the next column, or the search. *)
LEMMA PiecesDone ==
    ASSUME StoreSound(before), before' = before, NEW t, NEW c, NEW row, NEW ps,
           Spilling(t, c, row, ps, {}, FALSE, {})', Pinning({})', NEW at,
           at = IF Len(ps) < Len(Pieces(row)) THEN "spill" ELSE "search",
           InsertCall(at, t, row, ps, before.tables[t].first, NoPage)'
    PROVE  AtSpill' \/ AtSearch'
<1>1. CASE Len(ps) < Len(Pieces(row))
  BY <1>1 DEF AtSpill
<1>2. CASE ~(Len(ps) < Len(Pieces(row)))
  <2>1. TablePath(before, t, c) /\ Len(ps) <= Len(Pieces(row)) /\ StoreShape(before)
    BY DEF Spilling, StoreSound
  <2>2. Len(ps) = Len(Pieces(row))
    <3>1. /\ StoreShape(before)' /\ Len(ps) \in Nat /\ Len(Pieces(row)) \in Nat
      <4>1. row \in Rows /\ ps \in Seq(Pages)
        BY DEF Spilling
      <4>2. PICK first : PiecesFrom(row, first)
        BY <4>1, PiecesSound
      <4>3. Pieces(row) \in Seq([column : Spilled(row), chunk : Seq(Nat)])
        BY <4>2 DEF PiecesFrom
      <4> QED
        BY <2>1, <4>1, <4>3, LenProperties DEF StoreShape, PinnedIn
    <3> QED
      BY <1>2, <2>1, <3>1
  <2>3. PICK h : h = before.tables[t].first /\ PathIn(before, c, h)
    BY <2>1 DEF TablePath
  <2>4. Len(c) \in Nat \ {0} /\ c[1] = h
    BY <2>1, <2>3, PathPages
  <2>5. 1 \in 1 .. Len(c)
    BY <2>4
  <2>6. Passed(c, row, 1 - 1)'
    BY DEF Passed
  <2>7. InsertCall("search", t, row, ps, c[1], NoPage)'
    BY <1>2, <2>3, <2>4
  <2> QED
    BY <2>2, <2>5, <2>6, <2>7 DEF AtSearch
<1> QED
  BY <1>1, <1>2

(* The pieces stay what they are when another follows them. *)
LEMMA OnePieceMore ==
    ASSUME NEW row, NEW ps \in Seq(Pages), NEW more \in Seq(Pages), NEW n \in Nat \ {0},
           Len(ps) = n - 1, Len(more) = n, \A i \in 1 .. n - 1 : more[i] = ps[i],
           NEW loose \in BOOLEAN, loose <=> Loose(row, more),
           NEW i \in 1 .. n - 1
    PROVE  PieceOn(row, more, i, loose) = PieceOn(row, ps, i, FALSE)
<1>1. PICK same \in BOOLEAN : same <=> Pieces(row)[i + 1].column = Pieces(row)[i].column
  OBVIOUS
<1>2. PICK k \in Nat : k = n - 1
  OBVIOUS
<1>3. /\ PieceOn(row, more, i, loose).chunk = Pieces(row)[i].chunk
      /\ PieceOn(row, more, i, loose) =
            [chunk |-> Pieces(row)[i].chunk,
             next |-> IF i < n /\ same /\ ~(loose /\ i = n - 1) THEN more[i + 1] ELSE NoPage]
  BY <1>1 DEF PieceOn
<1>4. PieceOn(row, ps, i, FALSE) =
            [chunk |-> Pieces(row)[i].chunk,
             next |-> IF i < n - 1 /\ same THEN ps[i + 1] ELSE NoPage]
  BY <1>1 DEF PieceOn
<1>5. CASE i < k
  <2>1. i + 1 \in 1 .. n - 1 /\ i < n /\ i # n - 1 /\ i < n - 1
    BY <1>2, <1>5
  <2>2. more[i + 1] = ps[i + 1]
    BY <2>1
  <2>3. (i < n /\ same /\ ~(loose /\ i = n - 1)) <=> (i < n - 1 /\ same)
    BY <2>1
  <2>4. CASE i < n - 1 /\ same
    BY <1>3, <1>4, <2>2, <2>3, <2>4
  <2>5. CASE ~(i < n - 1 /\ same)
    BY <1>3, <1>4, <2>3, <2>5
  <2> QED
    BY <2>4, <2>5
<1>6. CASE i = k
  <2>1. i = n - 1 /\ ~(i < n - 1) /\ i + 1 = n /\ n > 1
    BY <1>2, <1>6
  <2>2. same => loose
    <3>1. same => Pieces(row)[n].column = Pieces(row)[n - 1].column
      BY <1>1, <2>1
    <3> QED
      BY <2>1, <3>1 DEF Loose
  <2> QED
    BY <1>3, <1>4, <2>1, <2>2
<1>7. i < k \/ i = k
  BY <1>2
<1> QED
  BY <1>5, <1>6, <1>7

(* A piece is written to its page. *)
LEMMA SpillFillStep ==
    ASSUME HeapShape, StoreSound(before), AtFill, SpillFill, before' = before
    PROVE  HeapShape' /\ (AtChain' \/ AtSpill' \/ AtSearch')
<1>1. PICK t, c, row, ps, cur :
        /\ Spilling(t, c, row, ps, {cur}, FALSE, {})
        /\ Len(ps) < Len(Pieces(row)) /\ Pinning({cur})
        /\ InsertCall("fill", t, row, ps, cur, NoPage)
  BY DEF AtFill
<1>2. /\ t \in TableNames /\ TablePath(before, t, c) /\ row \in Rows /\ tables = before.tables
      /\ StoreShape(before) /\ ps \in Seq(Pages) /\ IsInjective(ps)
      /\ ToSet(ps) \cap before.live = {} /\ cur \in Pages \ (before.live \cup ToSet(ps))
      /\ live = before.live \cup ToSet(ps) \cup {cur} /\ ~FullIn(before)
      /\ \A q \in before.live : page[q] = before.page[q]
      /\ \A i \in 1 .. Len(ps) : page[ps[i]] = PieceOn(row, ps, i, FALSE)
  BY <1>1 DEF Spilling, StoreSound, Kept
<1>3. /\ Len(ps) \in Nat /\ Len(Pieces(row)) \in Nat /\ ToSet(ps) = {ps[i] : i \in 1 .. Len(ps)}
  BY <1>1, <1>2, SpillFacts
<1>4. PICK n \in Nat \ {0} : n = Len(ps) + 1
  <2>1. Len(ps) + 1 \in Nat \ {0}
    BY <1>3
  <2> QED
    BY <2>1
<1>5. PICK more : more = Append(ps, cur)
  OBVIOUS
<1>6. /\ more \in Seq(Pages) /\ IsInjective(more) /\ ToSet(more) = ToSet(ps) \cup {cur}
  BY <1>2, <1>5, AppendFresh
<1>7. Len(more) = n /\ more[n] = cur /\ \A i \in 1 .. n - 1 : more[i] = ps[i]
  <2>1. n - 1 = Len(ps)
    BY <1>3, <1>4
  <2>2. /\ Len(more) = Len(ps) + 1 /\ more[Len(ps) + 1] = cur
        /\ \A i \in 1 .. Len(ps) : more[i] = ps[i]
    BY <1>2, <1>5, AppendProperties
  <2> QED
    BY <1>4, <2>1, <2>2
<1>8. PICK content : content = [chunk |-> Pieces(row)[n].chunk, next |-> NoPage]
  OBVIOUS
<1>9. PICK loose \in BOOLEAN : loose <=> Loose(row, more)
  OBVIOUS
<1>10. Loose(row, more) <=> n > 1 /\ Pieces(row)[n - 1].column = Pieces(row)[n].column
  BY <1>7 DEF Loose
<1>11. /\ page' = [page EXCEPT ![cur] = content] /\ Unpin(cur)
       /\ UNCHANGED <<live, tables, unused>>
       /\ call' = [(IF loose THEN [call EXCEPT !.at = "chain"] ELSE AfterPieces(n))
                     EXCEPT !.ps = more]
  BY <1>1, <1>4, <1>5, <1>8, <1>9, <1>10 DEF SpillFill, InsertCall
<1>12. /\ HeapShape' /\ page'[cur] = content
       /\ \A q \in live \ {cur} : page'[q] = page[q]
  BY <1>2, <1>11, PageWritten
<1>13. Pinning({})'
  <2>1. {cur} \in SUBSET Pages /\ cur \in {cur} /\ {} = {cur} \ {cur}
    BY <1>2
  <2> QED
    BY <1>1, <1>2, <1>11, <2>1, UnpinOne
<1>14. \A i \in 1 .. Len(more) : page'[more[i]] = PieceOn(row, more, i, loose)
  <2>1. ASSUME NEW i \in 1 .. n - 1 PROVE page'[more[i]] = PieceOn(row, more, i, loose)
    <3>1. n - 1 = Len(ps) /\ i \in 1 .. Len(ps)
      BY <1>3, <1>4, <2>1
    <3>2. more[i] = ps[i] /\ ps[i] \in ToSet(ps)
      BY <1>3, <1>7, <3>1
    <3>3. page'[more[i]] = PieceOn(row, ps, i, FALSE)
      BY <1>2, <1>12, <3>1, <3>2
    <3>4. PieceOn(row, more, i, loose) = PieceOn(row, ps, i, FALSE)
      <4>1. Len(ps) = n - 1 /\ Len(more) = n /\ ps \in Seq(Pages) /\ more \in Seq(Pages)
            /\ loose \in BOOLEAN /\ (loose <=> Loose(row, more)) /\ n \in Nat \ {0}
            /\ (\A j \in 1 .. n - 1 : more[j] = ps[j])
        BY <1>2, <1>3, <1>4, <1>6, <1>7, <1>9
      <4>2. i \in 1 .. n - 1
        BY <2>1
      <4> QED
        BY Zenon, <4>1, <4>2, OnePieceMore
    <3> QED
      BY <3>3, <3>4
  <2>2. page'[more[n]] = PieceOn(row, more, n, loose)
    BY <1>7, <1>8, <1>12 DEF PieceOn
  <2>3. \A i \in 1 .. n : i \in 1 .. n - 1 \/ i = n
    OBVIOUS
  <2> QED
    BY <1>7, <2>1, <2>2, <2>3
<1>15. Spilling(t, c, row, more, {}, loose, {})'
  <2>1. Len(more) <= Len(Pieces(row))
    BY <1>1, <1>3, <1>4, <1>7
  <2>2. ToSet(more) \cap before.live = {} /\ live' = before.live \cup ToSet(more) \cup {}
    BY <1>2, <1>6, <1>11
  <2>3. \A q \in before.live \ {} : q \in live' /\ page'[q] = before.page[q]
    BY <1>2, <1>11, <1>12
  <2>4. {} \subseteq Pages \ (before.live \cup ToSet(more))
    OBVIOUS
  <2>5. \A i \in 1 .. Len(more) : page'[more[i]] = PieceOn(row, more, i, loose)'
    BY <1>14 DEF PieceOn
  <2> QED
    BY <1>2, <1>6, <1>11, <2>1, <2>2, <2>3, <2>4, <2>5 DEF Spilling, Kept
<1>16. CASE loose
  <2>1. InsertCall("chain", t, row, more, cur, NoPage)'
    BY <1>1, <1>11, <1>16 DEF InsertCall
  <2>2. Spilling(t, c, row, more, {}, TRUE, {})'
    BY <1>15, <1>16
  <2>3. AtChain'
    BY <1>9, <1>13, <1>16, <2>1, <2>2 DEF AtChain, Loose
  <2> QED
    BY <1>12, <2>3
<1>17. CASE ~loose
  <2>1. Spilling(t, c, row, more, {}, FALSE, {})'
    BY <1>15, <1>17
  <2>2. PICK at : at = IF Len(more) < Len(Pieces(row)) THEN "spill" ELSE "search"
    OBVIOUS
  <2>3. InsertCall(at, t, row, more, before.tables[t].first, NoPage)'
    BY <1>1, <1>2, <1>7, <1>11, <1>17, <2>2 DEF InsertCall, AfterPieces
  <2>4. AtSpill' \/ AtSearch'
    BY <1>13, <2>1, <2>2, <2>3, PiecesDone
  <2> QED
    BY <1>12, <2>4
<1> QED
  BY <1>16, <1>17

(* The page of the piece before is fetched: there are frames. *)
LEMMA ChainFetchStep ==
    ASSUME HeapShape, StoreSound(before), AtChain, ChainFetch,
           call'.at # "idle" => before' = before
    PROVE  HeapShape' /\ AtChained'
<1>1. PICK t, c, row, ps, cur :
        /\ Spilling(t, c, row, ps, {}, TRUE, {}) /\ Loose(row, ps) /\ Pinning({})
        /\ InsertCall("chain", t, row, ps, cur, NoPage)
  BY DEF AtChain
<1>2. StoreShape(before) /\ ps \in Seq(Pages) /\ (ps # << >> => ~FullIn(before))
  BY <1>1 DEF Spilling, StoreSound
<1>3. PICK n \in Nat : n = Len(ps)
  BY <1>2, LenProperties
<1>4. n > 1 /\ ps # << >>
  <2>1. n > 1
    BY <1>1, <1>3 DEF Loose
  <2> QED
    BY <1>3, <2>1, EmptySeq
<1>5. PICK prev : prev = ps[Len(ps) - 1]
  OBVIOUS
<1>6. prev \in Pages /\ prev = Previous
  <2>1. n - 1 \in 1 .. n /\ n - 1 = Len(ps) - 1
    BY <1>3, <1>4
  <2>2. prev \in Pages
    BY <1>2, <1>3, <1>5, <2>1, ElementOfSeq
  <2> QED
    BY <1>1, <1>5, <2>2 DEF Previous, InsertCall
<1>7. CanFetch(prev)
  BY <1>1, <1>2, <1>4, SameFetches DEF ReachedIn
<1>8. /\ call' = [call EXCEPT !.at = "chained"] /\ pins' = [pins EXCEPT ![prev] = @ + 1]
      /\ UNCHANGED <<live, page, tables, unused>>
  BY <1>6, <1>7 DEF ChainFetch, Fetch
<1>9. InsertCall("chained", t, row, ps, cur, NoPage)'
  BY <1>1, <1>8 DEF InsertCall
<1>10. before' = before
  BY <1>9 DEF InsertCall
<1>11. Pinning({prev})'
  <2>1. {} \in SUBSET Pages /\ prev \in Pages \ {} /\ {prev} = {} \cup {prev}
    BY <1>6
  <2> QED
    BY <1>1, <1>2, <1>8, <1>10, <2>1, PinOne
<1>12. Spilling(t, c, row, ps, {}, TRUE, {})'
  BY <1>1, <1>8, <1>10, SpillingStays
<1>13. AtChained'
  BY <1>1, <1>5, <1>9, <1>11, <1>12 DEF AtChained, Loose
<1> QED
  BY <1>8, <1>13, SameShape

(* The last two pieces are linked. *)
LEMMA ChainedStep ==
    ASSUME HeapShape, StoreSound(before), AtChained, Chained, before' = before
    PROVE  HeapShape' /\ (AtSpill' \/ AtSearch')
<1>1. PICK t, c, row, ps, cur :
        /\ Spilling(t, c, row, ps, {}, TRUE, {}) /\ Loose(row, ps)
        /\ Pinning({ps[Len(ps) - 1]})
        /\ InsertCall("chained", t, row, ps, cur, NoPage)
  BY DEF AtChained
<1>2. /\ t \in TableNames /\ TablePath(before, t, c) /\ row \in Rows /\ tables = before.tables
      /\ StoreShape(before) /\ ps \in Seq(Pages) /\ IsInjective(ps)
      /\ ToSet(ps) \cap before.live = {} /\ Len(ps) <= Len(Pieces(row))
      /\ live = before.live \cup ToSet(ps) \cup {} /\ (ps # << >> => ~FullIn(before))
      /\ \A q \in before.live : q \in live /\ page[q] = before.page[q]
      /\ \A i \in 1 .. Len(ps) : page[ps[i]] = PieceOn(row, ps, i, TRUE)
  BY <1>1 DEF Spilling, StoreSound, Kept
<1>3. /\ Len(ps) \in Nat /\ DOMAIN ps = 1 .. Len(ps)
      /\ \A i \in 1 .. Len(ps) : ps[i] \in live /\ ps[i] \notin before.live /\ ps[i] \in Pages
  BY <1>1, <1>2, SpillFacts
<1>4. PICK n \in Nat : n = Len(ps)
  BY Zenon, <1>3
<1>5. n > 1 /\ Pieces(row)[n - 1].column = Pieces(row)[n].column
  BY <1>1, <1>4 DEF Loose
<1>6. PICK k \in Nat \ {0} : k = n - 1
  BY <1>5
<1>7. k \in 1 .. n /\ n \in 1 .. n /\ k + 1 = n /\ k < n
  BY <1>5, <1>6
<1>8. PICK prev : prev = ps[k]
  OBVIOUS
<1>9. /\ prev \in live /\ prev \notin before.live /\ prev \in Pages /\ prev = Previous
      /\ prev = ps[Len(ps) - 1]
  BY <1>1, <1>3, <1>4, <1>6, <1>7, <1>8 DEF Previous, InsertCall
<1>10. PICK content : content = [page[prev] EXCEPT !.next = ps[n]]
  OBVIOUS
<1>11. /\ page' = [page EXCEPT ![prev] = content] /\ Unpin(prev)
       /\ UNCHANGED <<live, tables, unused>> /\ call' = AfterPieces(n)
  <2>1. call.ps = ps /\ Last(call.ps) = ps[n]
    BY <1>1, <1>4 DEF InsertCall, Last
  <2> QED
    BY <1>4, <1>9, <1>10, <2>1 DEF Chained
<1>12. /\ HeapShape' /\ page'[prev] = content
       /\ \A q \in live \ {prev} : page'[q] = page[q]
  BY <1>9, <1>11, PageWritten
<1>13. Pinning({})'
  <2>1. {prev} \in SUBSET Pages /\ prev \in {prev} /\ {} = {prev} \ {prev}
    BY <1>9
  <2>2. Pinning({prev})
    BY <1>1, <1>9
  <2> QED
    BY <1>2, <1>11, <2>1, <2>2, UnpinOne
<1>14. \A i \in 1 .. n : page'[ps[i]] = PieceOn(row, ps, i, FALSE)
  <2>1. CASE TRUE
    <3>1. page[prev] = [chunk |-> Pieces(row)[k].chunk, next |-> NoPage]
      <4>1. page[prev] = PieceOn(row, ps, k, TRUE)
        BY <1>2, <1>4, <1>7, <1>8
      <4> QED
        BY <1>4, <1>6, <4>1 DEF PieceOn
    <3>2. content = [chunk |-> Pieces(row)[k].chunk, next |-> ps[n]]
      BY <1>10, <3>1
    <3>3. Pieces(row)[k + 1].column = Pieces(row)[k].column
      BY <1>5, <1>6, <1>7
    <3>4. PieceOn(row, ps, k, FALSE) = [chunk |-> Pieces(row)[k].chunk, next |-> ps[k + 1]]
      BY <1>4, <1>7, <3>3 DEF PieceOn
    <3>5. page'[ps[k]] = PieceOn(row, ps, k, FALSE)
      BY <1>7, <1>8, <1>12, <3>2, <3>4
    <3>6. ASSUME NEW i \in 1 .. n, i # k PROVE page'[ps[i]] = PieceOn(row, ps, i, FALSE)
      <4>1. ps[i] # ps[k] /\ ps[i] \in live
        BY <1>2, <1>3, <1>4, <1>7, <3>6 DEF IsInjective
      <4>2. page'[ps[i]] = PieceOn(row, ps, i, TRUE)
        BY <1>2, <1>4, <1>8, <1>12, <4>1
      <4>3. PieceOn(row, ps, i, TRUE) = PieceOn(row, ps, i, FALSE)
        BY <1>4, <1>6, <3>6 DEF PieceOn
      <4> QED
        BY <4>2, <4>3
    <3> QED
      BY <3>5, <3>6
  <2> QED
    BY <2>1
<1>15. Spilling(t, c, row, ps, {}, FALSE, {})'
  <2>1. \A q \in before.live \ {} : q \in live' /\ page'[q] = before.page[q]
    BY <1>2, <1>9, <1>11, <1>12
  <2>2. {} \subseteq Pages \ (before.live \cup ToSet(ps))
    OBVIOUS
  <2>3. \A i \in 1 .. Len(ps) : page'[ps[i]] = PieceOn(row, ps, i, FALSE)'
    BY <1>4, <1>14 DEF PieceOn
  <2> QED
    BY <1>2, <1>11, <2>1, <2>2, <2>3 DEF Spilling, Kept
<1>16. PICK at : at = IF Len(ps) < Len(Pieces(row)) THEN "spill" ELSE "search"
  OBVIOUS
<1>17. InsertCall(at, t, row, ps, before.tables[t].first, NoPage)'
  BY <1>1, <1>2, <1>4, <1>11, <1>16 DEF InsertCall, AfterPieces
<1>18. AtSpill' \/ AtSearch'
  BY <1>13, <1>15, <1>16, <1>17, PiecesDone
<1> QED
  BY <1>12, <1>18

-----------------------------------------------------------------------------

(* insert looks for a page, and joins a new one to the table. *)

(* What the search compares. *)
LEMMA RoomsAreNumbers ==
    ASSUME StoreShape(before), NEW t, NEW c, TablePath(before, t, c), NEW row \in Rows
    PROVE  /\ TupleSize(row) \in Nat \ {0} /\ Needed(row) \in Nat \ {0}
           /\ \A i \in 1 .. Len(c) :
                before.page[c[i]] \in DataPages /\ before.page[c[i]].room \in Nat
<1>1. TupleSize(row) \in Nat \ {0} /\ SlotSize \in Nat \ {0}
  BY TupleSizePositive, EngineAssumption
<1>2. Needed(row) \in Nat \ {0}
  BY <1>1 DEF Needed
<1>3. PICK h : PathIn(before, c, h)
  BY DEF TablePath
<1>4. ASSUME NEW i \in 1 .. Len(c)
      PROVE  before.page[c[i]] \in DataPages /\ before.page[c[i]].room \in Nat
  <2>1. c[i] \in before.live /\ HasSlots(before, c[i])
    BY <1>3, <1>4 DEF PathIn, TablePath
  <2>2. PICK pg : pg = before.page[c[i]]
    OBVIOUS
  <2>3. pg \in SoundPages /\ "slots" \in DOMAIN pg
    BY <2>1, <2>2 DEF StoreShape, HasSlots
  <2>4. pg \in DataPages
    BY <2>3 DEF SoundPages, ChunkPages
  <2> QED
    BY <2>2, <2>4 DEF DataPages
<1> QED
  BY <1>1, <1>2, <1>4

(* The target of an insertion, where the search for it has come to. *)
Roomless(c, row, k) == \A i \in 1 .. k : before.page[c[i]].room < Needed(row)

(* The page has no room: the search goes on, or ends with the last page. *)
LEMMA SearchMissStep ==
    ASSUME HeapShape, StoreSound(before), AtLook, SearchMiss, before' = before
    PROVE  HeapShape' /\ (AtSearch' \/ AtExtend')
<1>1. PICK t, c, row, ps, k :
        /\ Spilling(t, c, row, ps, {}, FALSE, {}) /\ Len(ps) = Len(Pieces(row))
        /\ k \in 1 .. Len(c) /\ Passed(c, row, k - 1) /\ ReachedIn(before, c[k])
        /\ Pinning({c[k]})
        /\ InsertCall("look", t, row, ps, c[k], NoPage)
  BY DEF AtLook
<1>2. /\ t \in TableNames /\ TablePath(before, t, c) /\ row \in Rows /\ StoreShape(before)
      /\ call.row = row /\ call.cur = c[k]
  BY <1>1 DEF Spilling, StoreSound, InsertCall
<1>3. PICK h : PathIn(before, c, h)
  BY <1>2 DEF TablePath
<1>4. /\ Len(c) \in Nat \ {0} /\ c[k] \in before.live /\ c[k] \in Pages
      /\ \A i \in 1 .. Len(c) : c[i] # NoPage
      /\ before.page[c[k]].next = IF k = Len(c) THEN NoPage ELSE c[k + 1]
  BY <1>1, <1>2, <1>3, PathPages
<1>5. page[c[k]] = before.page[c[k]]
  BY <1>1, <1>4 DEF Spilling, Kept
<1>6. PICK next : next = before.page[c[k]].next
  OBVIOUS
<1>7. /\ before.page[c[k]].room < Needed(row) /\ Unpin(c[k])
      /\ call' = IF next = NoPage THEN [call EXCEPT !.at = "extend"]
                 ELSE [call EXCEPT !.at = "search", !.cur = next]
      /\ UNCHANGED <<live, page, tables, unused>>
  BY <1>2, <1>5, <1>6 DEF SearchMiss
<1>8. HeapShape'
  BY <1>7, SameShape
<1>9. Pinning({})'
  <2>1. {c[k]} \in SUBSET Pages /\ c[k] \in {c[k]} /\ {} = {c[k]} \ {c[k]}
    BY <1>4
  <2> QED
    BY <1>1, <1>2, <1>7, <2>1, UnpinOne
<1>10. Spilling(t, c, row, ps, {}, FALSE, {})'
  BY <1>1, <1>7, SpillingStays
<1>11. PICK N \in Nat \ {0} : N = Len(c)
  BY <1>4
<1>12. k \in Nat \ {0} /\ k <= N
  BY <1>1, <1>11
<1>13. Passed(c, row, k)
  <2>1. \A i \in 1 .. k : i \in 1 .. k - 1 \/ i = k
    BY <1>12
  <2> QED
    BY <1>1, <1>7, <2>1 DEF Passed
<1>14. CASE k < N
  <2>1. next = c[k + 1] /\ next # NoPage /\ k + 1 \in 1 .. Len(c)
    <3>1. k # Len(c) /\ k + 1 \in 1 .. Len(c)
      BY <1>11, <1>12, <1>14
    <3> QED
      BY <1>4, <1>6, <3>1
  <2>2. InsertCall("search", t, row, ps, c[k + 1], NoPage)'
    BY <1>1, <1>7, <2>1 DEF InsertCall
  <2>3. Passed(c, row, (k + 1) - 1)'
    <3>1. (k + 1) - 1 = k
      BY <1>12
    <3> QED
      BY <1>13, <3>1 DEF Passed
  <2>4. AtSearch'
    BY <1>1, <1>9, <1>10, <2>1, <2>2, <2>3 DEF AtSearch
  <2> QED
    BY <1>8, <2>4
<1>15. CASE k = N
  <2>1. next = NoPage
    BY <1>4, <1>6, <1>11, <1>15
  <2>2. PICK last : last = c[Len(c)]
    OBVIOUS
  <2>3. InsertCall("extend", t, row, ps, last, NoPage)'
    BY <1>1, <1>7, <1>11, <1>15, <2>1, <2>2 DEF InsertCall
  <2>4. Passed(c, row, Len(c))'
    BY <1>11, <1>13, <1>15 DEF Passed
  <2>5. AtExtend'
    BY <1>1, <1>9, <1>10, <2>2, <2>3, <2>4 DEF AtExtend
  <2> QED
    BY <1>8, <2>5
<1> QED
  BY <1>12, <1>14, <1>15

(* The length that the page is asked for. *)
LEMMA CutLengths ==
    ASSUME NEW row \in Rows
    PROVE  /\ TupleSize(row) \in Nat \ {0} /\ CutLength(row) \in Nat
           /\ CutLength(row) <= TupleSize(row)
           /\ CutLength(row) # TupleSize(row) => TupleSize(row) >= LengthModulus
<1>1. PICK size \in Nat \ {0} : size = TupleSize(row)
  BY TupleSizePositive
<1>2. PICK m \in Nat \ {0} : m = LengthModulus
  BY HeapAssumption
<1>3. CutLength(row) = size % m
  BY <1>1, <1>2 DEF CutLength
<1>4. size % m \in 0 .. m - 1
  BY <1>1, <1>2
<1>5. CASE size < m
  <2>1. size % m = size
    BY <1>5
  <2> QED
    BY <1>1, <1>2, <1>3, <2>1
<1>6. CASE size >= m
  <2>1. size % m <= size /\ size % m \in Nat
    BY <1>4, <1>6
  <2> QED
    BY <1>1, <1>2, <1>3, <1>6, <2>1
<1> QED
  BY <1>5, <1>6

(* A page with room for the tuple and a slot takes it, whatever slot. *)
LEMMA RoomIsEnough ==
    ASSUME NEW row \in Rows, NEW pg, pg.room \in Nat, pg.room >= Needed(row)
    PROVE  CanInsert(pg, CutLength(row))
<1>1. PICK size \in Nat, cut \in Nat, slot \in Nat :
        size = TupleSize(row) /\ cut = CutLength(row) /\ slot = SlotSize
  BY CutLengths, EngineAssumption
<1>2. cut <= size
  BY <1>1, CutLengths
<1>3. pg.room >= size + slot
  BY <1>1 DEF Needed
<1>4. PICK used : used = SlotBytes(pg)
  OBVIOUS
<1>5. used = 0 \/ used = slot
  BY <1>1, <1>4 DEF SlotBytes
<1>6. pg.room >= cut + used
  BY <1>1, <1>2, <1>3, <1>5
<1> QED
  BY <1>1, <1>4, <1>6 DEF CanInsert

(* A panic leaves the store as it was. *)
LEMMA TrapStep ==
    ASSUME StoreShape(before), NEW S \in SUBSET Pages, Pinning(S), Pinned \subseteq live,
           UNCHANGED <<live, pins>>, call' = [call EXCEPT !.at = "trapped"],
           NEW row \in Rows, NEW at, NEW t, NEW ps, NEW cur, NEW new,
           InsertCall(at, t, row, ps, cur, new), CutLength(row) # TupleSize(row)
    PROVE  AtTrapped'
<1>1. call'.at = "trapped" /\ call'.row = row
  BY DEF InsertCall
<1>2. TupleSize(row) >= LengthModulus
  BY CutLengths
<1>3. TupleSize(call'.row) >= LengthModulus
  BY <1>1, <1>2
<1>4. MaxPins \in Nat /\ \A p \in Pages : pins[p] \in 0 .. MaxPins + 1
  BY EngineAssumption, PinnedPages
<1>5. \A p \in Pages : pins'[p] \in 0 .. MaxPins + 2
  BY <1>4
<1>6. Pinned' = Pinned
  BY DEF Pinned
<1>7. AtTrapped' <=> /\ call'.at = "trapped" /\ TupleSize(call'.row) >= LengthModulus
                     /\ Pinned' \subseteq live' /\ \A p \in Pages : pins'[p] \in 0 .. MaxPins + 2
  BY DEF AtTrapped
<1> QED
  BY <1>1, <1>3, <1>5, <1>6, <1>7

(* The pin that insert leaves on its new page. *)
LEMMA AbandonedPin ==
    ASSUME StoreShape(before), NEW p \in Pages, p \notin before.live, Pinning({p})
    PROVE  pins = [before.pins EXCEPT ![p] = 1]
<1>1. /\ before.pins \in [Pages -> 0 .. MaxPins] /\ MaxPins \in Nat
      /\ PinnedIn(before) \subseteq before.live
  BY EngineAssumption DEF StoreShape
<1>2. before.pins[p] = 0
  BY <1>1 DEF PinnedIn
<1>3. before.pins = [q \in Pages |-> before.pins[q]]
  BY <1>1
<1>4. [before.pins EXCEPT ![p] = 1] = [q \in Pages |-> IF q = p THEN 1 ELSE before.pins[q]]
  BY <1>3
<1>5. pins = [q \in Pages |-> IF q \in {p} THEN before.pins[q] + 1 ELSE before.pins[q]]
  BY DEF Pinning
<1> QED
  BY <1>2, <1>4, <1>5

(* The last page of the table is linked to the new one. *)
LEMMA JoinedStep ==
    ASSUME HeapShape, StoreSound(before), AtJoined, Joined, before' = before
    PROVE  HeapShape' /\ AtStore'
<1>1. PICK t, c, row, ps, last, new :
        /\ Extending(t, c, row, ps, last, new, {}) /\ Linkable(last)
        /\ Pinning({new, last})
        /\ InsertCall("joined", t, row, ps, last, new)
  BY DEF AtJoined
<1>2. /\ Spilling(t, c, row, ps, {new}, FALSE, {}) /\ Len(ps) = Len(Pieces(row))
      /\ Passed(c, row, Len(c)) /\ last = c[Len(c)] /\ page[new] = NewDataPage
      /\ StoreShape(before) /\ call.cur = last /\ call.new = new
  BY <1>1 DEF Extending, StoreSound, InsertCall
<1>3. /\ t \in TableNames /\ TablePath(before, t, c) /\ row \in Rows /\ tables = before.tables
      /\ ps \in Seq(Pages) /\ IsInjective(ps) /\ ToSet(ps) \cap before.live = {}
      /\ Len(ps) <= Len(Pieces(row)) /\ ~FullIn(before)
      /\ new \in Pages /\ new \notin before.live /\ new \notin ToSet(ps)
      /\ {new} \subseteq Pages \ (before.live \cup ToSet(ps))
      /\ live = before.live \cup ToSet(ps) \cup {new}
      /\ \A q \in before.live : q \in live /\ page[q] = before.page[q]
      /\ \A i \in 1 .. Len(ps) : page[ps[i]] = PieceOn(row, ps, i, FALSE)
  BY <1>2 DEF Spilling, Kept
<1>4. PICK h : PathIn(before, c, h)
  BY <1>3 DEF TablePath
<1>5. last \in before.live /\ last \in Pages /\ last \in live /\ last # new
  <2>1. Len(c) \in Nat \ {0}
    BY <1>2, <1>4, PathPages
  <2>2. Len(c) \in 1 .. Len(c)
    BY <2>1
  <2>3. last \in before.live /\ last \in Pages
    BY <1>2, <1>4, <2>2, PathPages
  <2> QED
    BY <1>3, <2>3
<1>6. PICK content : content = [before.page[last] EXCEPT !.next = new]
  OBVIOUS
<1>7. /\ page' = [page EXCEPT ![last] = content] /\ Unpin(last)
      /\ call' = [call EXCEPT !.at = "store"] /\ UNCHANGED <<live, tables, unused>>
  BY <1>2, <1>3, <1>5, <1>6 DEF Joined, Goto
<1>8. /\ HeapShape' /\ page'[last] = content
      /\ \A q \in live \ {last} : page'[q] = page[q]
  BY <1>5, <1>7, PageWritten
<1>9. Pinning({new})'
  <2>1. {new, last} \in SUBSET Pages /\ last \in {new, last} /\ {new} = {new, last} \ {last}
    BY <1>3, <1>5
  <2> QED
    BY <1>1, <1>2, <1>7, <2>1, UnpinOne
<1>10. InsertCall("store", t, row, ps, last, new)'
  BY <1>1, <1>7 DEF InsertCall
<1>11. Spilling(t, c, row, ps, {new}, FALSE, {last})'
  <2>1. ASSUME NEW i \in 1 .. Len(ps) PROVE page'[ps[i]] = PieceOn(row, ps, i, FALSE)
    <3>1. ps[i] \in live /\ ps[i] \notin before.live
      BY <1>2, SpillFacts
    <3>2. page'[ps[i]] = page[ps[i]]
      BY <1>5, <1>8, <3>1
    <3> QED
      BY <1>3, <3>2
  <2>2. \A q \in before.live \ {last} : q \in live' /\ page'[q] = before.page[q]
    BY <1>3, <1>7, <1>8
  <2> QED
    BY <1>3, <1>7, <2>1, <2>2 DEF Spilling, Kept, PieceOn
<1>12. Extending(t, c, row, ps, last, new, {last})'
  <2>1. page'[new] = NewDataPage
    BY <1>2, <1>3, <1>5, <1>8
  <2>2. Passed(c, row, Len(c))'
    BY <1>2 DEF Passed
  <2> QED
    BY <1>2, <1>11, <2>1, <2>2 DEF Extending, NewDataPage, EmptyPage
<1>13. AtStore'
  <2>1. Linkable(last)'
    BY <1>1 DEF Linkable
  <2> QED
    BY <1>6, <1>8, <1>9, <1>10, <1>12, <2>1 DEF AtStore
<1> QED
  BY <1>8, <1>13

-----------------------------------------------------------------------------

(* delete frees the overflow pages of the tuple. *)

(* The path of one of the pointers. *)
LEMMA DeletedPath ==
    ASSUME StoreSound(before), NEW t, NEW p, NEW s, NEW Q, NEW D, Deleting(t, p, s, Q, D),
           NEW i \in 1 .. Len(Q), NEW d, d = D[i]
    PROVE  /\ Len(d) \in Nat \ {0} /\ DOMAIN d = 1 .. Len(d) /\ d[1] = Q[i]
           /\ \A j \in 1 .. Len(d) : d[j] \in before.live /\ d[j] \in Pages /\ d[j] # NoPage
           /\ \A j \in 1 .. Len(d) :
                before.page[d[j]].next = IF j = Len(d) THEN NoPage ELSE d[j + 1]
           /\ \A j, l \in 1 .. Len(d) : d[j] = d[l] => j = l
           /\ p \notin ToSet(d)
<1>1. PointerPath(before, d, Q[i]) /\ StoreShape(before)
  BY DEF Deleting, StoreSound
<1>2. PICK h : h = Q[i]
  OBVIOUS
<1>3. PathIn(before, d, h) /\ \A j \in 1 .. Len(d) : ~HasSlots(before, d[j])
  BY <1>1, <1>2 DEF PointerPath
<1>4. /\ Len(d) \in Nat \ {0} /\ DOMAIN d = 1 .. Len(d) /\ d[1] = h
      /\ \A j \in 1 .. Len(d) : d[j] \in before.live /\ d[j] \in Pages /\ d[j] # NoPage
      /\ \A j \in 1 .. Len(d) :
                before.page[d[j]].next = IF j = Len(d) THEN NoPage ELSE d[j + 1]
      /\ \A j, l \in 1 .. Len(d) : d[j] = d[l] => j = l
  BY <1>1, <1>3, PathPages
<1>5. ToSet(d) = {d[j] : j \in 1 .. Len(d)}
  BY <1>4 DEF ToSet
<1>6. Q # << >>
  <2>1. SUFFICES ASSUME Q = << >> PROVE FALSE
    OBVIOUS
  <2>2. Len(Q) = 0
    BY <2>1, EmptySeq
  <2> QED
    BY <2>2
<1>7. HasSlots(before, p)
  BY <1>6 DEF Deleting, HasTupleIn
<1> QED
  BY <1>2, <1>3, <1>4, <1>5, <1>7

(* The first of the pointers that are left, and the others. *)
LEMMA RestNext ==
    ASSUME NEW Q \in Seq(Pages), NEW k, NEW todo, Rest(Q, k, todo), todo # << >>
    PROVE  /\ k \in Nat /\ k + 1 \in 1 .. Len(Q) /\ Head(todo) = Q[k + 1]
           /\ Rest(Q, k + 1, Tail(todo))
           /\ Tail(todo) = << >> => k + 1 = Len(Q)
<1>1. /\ todo \in Seq(Pages) /\ k \in Nat /\ k + Len(todo) = Len(Q)
      /\ \A i \in 1 .. Len(todo) : todo[i] = Q[k + i]
  BY DEF Rest
<1>2. PICK rest : rest = Tail(todo)
  OBVIOUS
<1>3. PICK n \in Nat, L \in Nat : n = Len(Q) /\ L = Len(todo)
  BY <1>1, LenProperties
<1>4. L # 0
  BY <1>1, <1>3, EmptySeq
<1>5. /\ rest \in Seq(Pages) /\ Len(rest) = L - 1 /\ Head(todo) = todo[1]
      /\ \A i \in 1 .. Len(rest) : rest[i] = todo[i + 1]
  BY <1>1, <1>2, <1>3, HeadTailProperties
<1>6. k + L = n /\ k + 1 \in 1 .. n /\ 1 \in 1 .. L
  BY <1>1, <1>3, <1>4
<1>7. Head(todo) = Q[k + 1]
  BY <1>1, <1>3, <1>5, <1>6
<1>8. PICK m \in Nat : m = k + 1
  BY <1>1
<1>9. ASSUME NEW i \in 1 .. Len(rest) PROVE rest[i] = Q[m + i]
  <2>1. i + 1 \in 1 .. L /\ k + (i + 1) = m + i
    BY <1>1, <1>3, <1>5, <1>8, <1>9
  <2> QED
    BY <1>1, <1>3, <1>5, <1>9, <2>1
<1>10. m + Len(rest) = Len(Q) /\ m \in Nat
  <2>1. PICK r \in Nat : r = Len(rest)
    BY <1>5, LenProperties
  <2>2. r = L - 1 /\ k \in Nat
    BY <1>1, <1>5, <2>1
  <2>3. m + r = n
    BY <1>6, <1>8, <2>2
  <2> QED
    BY <1>3, <2>1, <2>3
<1>11. Rest(Q, m, rest)
  BY <1>5, <1>8, <1>9, <1>10 DEF Rest
<1>12. rest = << >> => k + 1 = Len(Q)
  <2>1. SUFFICES ASSUME rest = << >> PROVE k + 1 = n
    BY <1>3
  <2>2. Len(rest) = 0
    BY <2>1, EmptySeq
  <2>3. L - 1 = 0
    BY <1>5, <2>2
  <2> QED
    BY <1>1, <1>6, <2>3
<1> QED
  BY <1>1, <1>2, <1>3, <1>6, <1>7, <1>8, <1>11, <1>12

(* Where delete goes on with pointers to free, and without. *)
LEMMA DeleteGoesOn ==
    ASSUME NEW t, NEW p, NEW s, NEW Q, NEW D, Deleting(t, p, s, Q, D)', NEW k, NEW todo,
           Freed(Behind(D, k, 1))', Pinning({p})', Rest(Q, k, todo),
           todo = << >> => k = Len(Q), NEW at,
           at = IF todo = << >> THEN "remove" ELSE "release", NEW cur, NEW next,
           DeleteCall(at, t, p, s, todo, cur, next)'
    PROVE  AtRemove' \/ AtRelease'
<1>1. CASE todo = << >>
  <2>1. DeleteCall("remove", t, p, s, << >>, cur, next)' /\ Freed(Behind(D, Len(Q), 1))'
    BY <1>1
  <2> QED
    BY <2>1 DEF AtRemove
<1>2. CASE todo # << >>
  <2>1. DeleteCall("release", t, p, s, todo, cur, next)'
    BY <1>2
  <2>2. Rest(Q, k, todo)'
    BY DEF Rest
  <2> QED
    BY <1>2, <2>1, <2>2 DEF AtRelease
<1> QED
  BY <1>1, <1>2

(* The columns of a stored tuple, and its pointers. *)
LEMMA TupleShape ==
    ASSUME StoreShape(before), NEW p \in before.live, NEW s, HasTupleIn(before, p, s),
           NEW tuple, tuple = TupleIn(before, p, s),
           NEW holders, holders = {c \in DOMAIN tuple : IsPlaceholder(tuple[c])}
    PROVE  /\ DOMAIN tuple \in SUBSET Nat /\ IsFiniteSet(DOMAIN tuple)
           /\ \A c \in holders : PointerIn(before, p, s, c) /\ tuple[c].pointer \in Pages
<1>1. PICK pg : pg = before.page[p]
  OBVIOUS
<1>2. pg \in SoundPages /\ "slots" \in DOMAIN pg /\ s \in LiveSlots(pg)
  BY <1>1 DEF StoreShape, HasTupleIn, HasSlots
<1>3. pg \in DataPages
  BY <1>2 DEF SoundPages, ChunkPages
<1>4. pg.slots \in Seq(StoredTuples \cup {Tombstone}) /\ s \in DOMAIN pg.slots
      /\ pg.slots[s] # Tombstone /\ tuple = pg.slots[s]
  BY <1>1, <1>2, <1>3 DEF DataPages, LiveSlots, TupleIn
<1>5. tuple \in StoredTuples
  BY <1>4, ElementOfSeq, LenProperties
<1>6. PICK n \in Nat : n = Len(tuple) /\ DOMAIN tuple = 1 .. n
  BY <1>5, LenProperties DEF StoredTuples
<1>7. ASSUME NEW c \in holders
      PROVE  PointerIn(before, p, s, c) /\ tuple[c].pointer \in Pages
  <2>1. c \in DOMAIN tuple /\ "pointer" \in DOMAIN tuple[c]
    BY <1>7 DEF IsPlaceholder
  <2>2. tuple[c] \in Columns
    BY <1>5, <1>6, <2>1, ElementOfSeq DEF StoredTuples
  <2>3. tuple[c] \in PointerColumn
    BY <2>1, <2>2 DEF Columns, Column
  <2> QED
    BY <2>1, <2>3 DEF PointerIn, PointerColumn
<1>8. 1 .. n \in SUBSET Nat
  OBVIOUS
<1>9. IsFiniteSet(1 .. n)
  BY FS_Interval
<1>10. DOMAIN tuple \in SUBSET Nat /\ IsFiniteSet(DOMAIN tuple)
  BY <1>6, <1>8, <1>9
<1>11. \A c \in holders : PointerIn(before, p, s, c) /\ tuple[c].pointer \in Pages
  BY <1>7
<1> QED
  BY <1>10, <1>11

(* The page to be freed next is not freed yet. *)
LEMMA NextToFree ==
    ASSUME StoreSound(before), NEW t, NEW p, NEW s, NEW Q, NEW D, Deleting(t, p, s, Q, D),
           NEW k, NEW todo, Rest(Q, k, todo), todo # << >>, NEW j \in 1 .. Len(D[k + 1]),
           Freed(Behind(D, k, j)), NEW q, q = D[k + 1][j]
    PROVE  q \in live /\ q \in Pages /\ q \in before.live /\ page[q] = before.page[q]
<1>1. k \in Nat /\ k + 1 \in 1 .. Len(Q) /\ Len(Q) \in Nat
  <2>1. Q \in Seq(Pages)
    BY DEF Deleting
  <2> QED
    BY <2>1, RestNext, LenProperties
<1>2. PICK m : m = k + 1
  OBVIOUS
<1>3. PICK d : d = D[m]
  OBVIOUS
<1>4. m \in 1 .. Len(Q)
  BY <1>1, <1>2
<1>5. /\ q \in before.live /\ q \in Pages /\ q \in ToSet(d)
      /\ \A i, l \in 1 .. Len(d) : d[i] = d[l] => i = l
      /\ Len(d) \in Nat
  <2>1. j \in 1 .. Len(d) /\ q = d[j]
    BY <1>2, <1>3
  <2>2. Len(d) \in Nat \ {0} /\ DOMAIN d = 1 .. Len(d)
    BY <1>3, <1>4, DeletedPath
  <2>3. \A l \in 1 .. Len(d) : d[l] \in before.live /\ d[l] \in Pages
    BY <1>3, <1>4, DeletedPath
  <2>4. \A i, l \in 1 .. Len(d) : d[i] = d[l] => i = l
    BY <1>3, <1>4, DeletedPath
  <2> QED
    BY <2>1, <2>2, <2>3, <2>4 DEF ToSet
<1>6. ASSUME NEW i \in 1 .. k PROVE q \notin ToSet(D[i])
  <2>1. i \in 1 .. Len(Q) /\ i # m
    BY <1>1, <1>2, <1>6
  <2>2. ToSet(D[i]) \cap ToSet(D[m]) = {}
    BY <1>4, <2>1 DEF Deleting
  <2> QED
    BY <1>3, <1>5, <2>2
<1>7. ASSUME NEW i \in 1 .. j - 1 PROVE q # d[i]
  <2>1. i \in 1 .. Len(d) /\ i # j /\ j \in 1 .. Len(d)
    BY <1>2, <1>3, <1>5, <1>7
  <2> QED
    BY <1>2, <1>3, <1>5, <2>1
<1>8. q \notin Behind(D, k, j)
  BY <1>2, <1>3, <1>6, <1>7 DEF Behind
<1>9. q \in live
  BY <1>5, <1>8 DEF Freed
<1> QED
  BY <1>5, <1>9 DEF Freed, Kept

(* Back to the chains: the row's page is given back. *)
LEMMA ReleaseStep ==
    ASSUME HeapShape, StoreSound(before), AtRelease, Release, before' = before
    PROVE  HeapShape' /\ AtFree'
<1>1. PICK t, p, s, Q, D, k, todo, cur, next :
        /\ Deleting(t, p, s, Q, D) /\ Freed(Behind(D, k, 1)) /\ Pinning({p})
        /\ Rest(Q, k, todo) /\ todo # << >>
        /\ DeleteCall("release", t, p, s, todo, cur, next)
  BY DEF AtRelease
<1>2. Q \in Seq(Pages) /\ StoreShape(before) /\ p \in Pages
  BY <1>1 DEF Deleting, StoreSound, StoreShape
<1>3. k \in Nat /\ k + 1 \in 1 .. Len(Q) /\ Head(todo) = Q[k + 1]
  BY <1>1, <1>2, RestNext
<1>4. PICK d : d = D[k + 1]
  OBVIOUS
<1>5. Len(d) \in Nat \ {0} /\ d[1] = Q[k + 1]
  BY <1>1, <1>3, <1>4, DeletedPath
<1>6. call.id[1] = p /\ call.todo = todo
  BY <1>1 DEF DeleteCall
<1>7. Unpin(p) /\ UNCHANGED <<live, page, tables, unused>>
      /\ call' = [call EXCEPT !.at = "free", !.cur = d[1]]
  BY <1>3, <1>5, <1>6 DEF Release
<1>8. DeleteCall("free", t, p, s, todo, D[k + 1][1], next)'
  BY <1>1, <1>4, <1>7 DEF DeleteCall
<1>9. Pinning({})'
  <2>1. {p} \in SUBSET Pages /\ p \in {p} /\ {} = {p} \ {p}
    BY <1>2
  <2> QED
    BY <1>1, <1>2, <1>7, <2>1, UnpinOne
<1>10. Deleting(t, p, s, Q, D)' /\ Freed(Behind(D, k, 1))' /\ Rest(Q, k, todo)'
  BY <1>1, <1>7 DEF Deleting, Freed, Kept, Behind, Rest
<1>11. 1 \in 1 .. Len(D[k + 1])
  BY <1>4, <1>5
<1>12. AtFree'
  BY <1>1, <1>8, <1>9, <1>10, <1>11 DEF AtFree
<1> QED
  BY <1>7, <1>12, SameShape

(* The next page of the chain is fetched, or the chain is left as it is. *)
LEMMA FreeFetchStep ==
    ASSUME HeapShape, StoreSound(before), AtFree, FreeFetch, before' = before
    PROVE  HeapShape' /\ (AtFreeing' \/ AtRefetch')
<1>1. PICK t, p, s, Q, D, k, j, todo, next :
        /\ Deleting(t, p, s, Q, D) /\ Freed(Behind(D, k, j)) /\ Pinning({})
        /\ Rest(Q, k, todo) /\ todo # << >> /\ j \in 1 .. Len(D[k + 1])
        /\ DeleteCall("free", t, p, s, todo, D[k + 1][j], next)
  BY DEF AtFree
<1>2. StoreShape(before)
  BY DEF StoreSound
<1>3. PICK q : q = D[k + 1][j]
  OBVIOUS
<1>4. q \in Pages
  BY <1>1, <1>3, NextToFree
<1>5. /\ call' = IF CanFetch(q) THEN [call EXCEPT !.at = "freeing"]
                 ELSE [call EXCEPT !.at = "refetch"]
      /\ pins' = IF CanFetch(q) THEN [pins EXCEPT ![q] = @ + 1] ELSE pins
      /\ UNCHANGED <<live, page, tables, unused>>
  BY <1>1, <1>3 DEF FreeFetch, Fetch, DeleteCall
<1>6. CanFetch(q) <=> ReachedIn(before, q)
  BY <1>1, <1>2, SameFetches
<1>7. HeapShape'
  BY <1>5, SameShape
<1>8. Deleting(t, p, s, Q, D)' /\ Rest(Q, k, todo)'
  BY <1>1, <1>5 DEF Deleting, Rest
<1>9. CASE ReachedIn(before, q)
  <2>1. Pinning({q})'
    <3>1. {} \in SUBSET Pages /\ q \in Pages \ {} /\ {q} = {} \cup {q}
      BY <1>4
    <3>2. pins' = [pins EXCEPT ![q] = @ + 1]
      BY <1>5, <1>6, <1>9
    <3> QED
      BY <1>1, <1>2, <3>1, <3>2, PinOne
  <2>2. DeleteCall("freeing", t, p, s, todo, q, next)'
    BY <1>1, <1>3, <1>5, <1>6, <1>9 DEF DeleteCall
  <2>3. Freed(Behind(D, k, j))'
    BY <1>1, <1>5 DEF Freed, Kept, Behind
  <2>4. ReachedIn(before, q)'
    BY <1>9
  <2> QED
    BY <1>1, <1>3, <1>7, <1>8, <2>1, <2>2, <2>3, <2>4 DEF AtFreeing
<1>10. CASE ~ReachedIn(before, q)
  <2>1. FullIn(before)
    BY <1>10 DEF ReachedIn
  <2>2. Freed(Behind(D, k + 1, 1))'
    <3>1. live = before.live /\ Kept(live)
      BY <1>1, <2>1 DEF Freed
    <3> QED
      BY <1>5, <2>1, <3>1 DEF Freed, Kept
  <2>3. DeleteCall("refetch", t, p, s, todo, q, next)'
    BY <1>1, <1>3, <1>5, <1>6, <1>10 DEF DeleteCall
  <2>4. Pinning({})'
    BY <1>1, <1>5, <1>6, <1>10, SamePins
  <2> QED
    BY <1>1, <1>7, <1>8, <2>2, <2>3, <2>4 DEF AtRefetch
<1> QED
  BY <1>9, <1>10

(* Its link is read before it is given back. *)
LEMMA FreeUnpinStep ==
    ASSUME HeapShape, StoreSound(before), AtFreeing, FreeUnpin, before' = before
    PROVE  HeapShape' /\ AtErase'
<1>1. PICK t, p, s, Q, D, k, j, todo, next :
        /\ Deleting(t, p, s, Q, D) /\ Freed(Behind(D, k, j)) /\ Pinning({D[k + 1][j]})
        /\ Rest(Q, k, todo) /\ todo # << >> /\ j \in 1 .. Len(D[k + 1])
        /\ ReachedIn(before, D[k + 1][j])
        /\ DeleteCall("freeing", t, p, s, todo, D[k + 1][j], next)
  BY DEF AtFreeing
<1>2. StoreShape(before)
  BY DEF StoreSound
<1>3. PICK q : q = D[k + 1][j]
  OBVIOUS
<1>4. q \in Pages /\ page[q] = before.page[q]
  BY <1>1, <1>3, NextToFree
<1>5. /\ Unpin(q) /\ UNCHANGED <<live, page, tables, unused>>
      /\ call' = [call EXCEPT !.at = "erase", !.next = before.page[q].next]
  BY <1>1, <1>3, <1>4 DEF FreeUnpin, DeleteCall
<1>6. Pinning({})'
  <2>1. {q} \in SUBSET Pages /\ q \in {q} /\ {} = {q} \ {q} /\ Pinning({q})
    BY <1>1, <1>3, <1>4
  <2> QED
    BY <1>2, <1>5, <2>1, UnpinOne
<1>7. Deleting(t, p, s, Q, D)' /\ Freed(Behind(D, k, j))' /\ Rest(Q, k, todo)'
  BY <1>1, <1>5 DEF Deleting, Freed, Kept, Behind, Rest
<1>8. DeleteCall("erase", t, p, s, todo, q, before.page[q].next)'
  BY <1>1, <1>3, <1>5 DEF DeleteCall
<1>9. ReachedIn(before, q)' /\ (before.page[q].next)' = before.page[q].next
  BY <1>1, <1>3
<1>10. AtErase'
  BY <1>1, <1>3, <1>6, <1>7, <1>8, <1>9 DEF AtErase
<1> QED
  BY <1>5, <1>10, SameShape

(* A page is freed, unless it is in use; the chain goes on, or is over. *)
LEMMA EraseStep ==
    ASSUME HeapShape, StoreSound(before), AtErase, Erase, before' = before
    PROVE  HeapShape' /\ (AtFree' \/ AtRefetch')
<1>1. PICK t, p, s, Q, D, k, j, todo :
        /\ Deleting(t, p, s, Q, D) /\ Freed(Behind(D, k, j)) /\ Pinning({})
        /\ Rest(Q, k, todo) /\ todo # << >> /\ j \in 1 .. Len(D[k + 1])
        /\ ReachedIn(before, D[k + 1][j])
        /\ DeleteCall("erase", t, p, s, todo, D[k + 1][j],
                      before.page[D[k + 1][j]].next)
  BY DEF AtErase
<1>2. StoreShape(before) /\ Q \in Seq(Pages)
  BY <1>1 DEF StoreSound, Deleting
<1>3. PICK d : d = D[k + 1]
  OBVIOUS
<1>4. PICK q : q = d[j]
  OBVIOUS
<1>5. q \in live /\ ReachedIn(before, q)
  BY <1>1, <1>3, <1>4, NextToFree
<1>6. k \in Nat /\ k + 1 \in 1 .. Len(Q)
  BY Zenon, <1>1, <1>2, RestNext
<1>7. PICK n \in Nat \ {0} :
        /\ n = Len(d) /\ DOMAIN d = 1 .. n /\ ToSet(d) = {d[l] : l \in 1 .. n}
        /\ \A l \in 1 .. n : d[l] # NoPage
        /\ \A l \in 1 .. n : before.page[d[l]].next = IF l = n THEN NoPage ELSE d[l + 1]
  <2>1. PICK m : m = k + 1
    OBVIOUS
  <2>2. m \in 1 .. Len(Q) /\ d = D[m] /\ Deleting(t, p, s, Q, D)
    BY <1>1, <1>3, <1>6, <2>1
  <2>3. Len(d) \in Nat \ {0} /\ DOMAIN d = 1 .. Len(d)
    BY <2>2, DeletedPath
  <2>4. ToSet(d) = {d[l] : l \in 1 .. Len(d)}
    BY <2>3 DEF ToSet
  <2>5. \A l \in 1 .. Len(d) : d[l] # NoPage
    BY <2>2, DeletedPath
  <2>6. \A l \in 1 .. Len(d) :
            before.page[d[l]].next = IF l = Len(d) THEN NoPage ELSE d[l + 1]
    BY <2>2, DeletedPath
  <2> QED
    BY Zenon, <2>3, <2>4, <2>5, <2>6
<1>8. j \in 1 .. n
  BY <1>1, <1>3, <1>7
<1>9. PICK next : next = IF j = n THEN NoPage ELSE d[j + 1]
  OBVIOUS
<1>10. before.page[q].next = next
  BY <1>4, <1>7, <1>8, <1>9
<1>11. (next = NoPage) <=> (j = n)
  <2>1. j # n => j + 1 \in 1 .. n
    BY <1>7, <1>8
  <2> QED
    BY <1>7, <1>9, <2>1
<1>12. /\ DeletePage(q) /\ UNCHANGED <<pins, tables>>
       /\ call' = [call EXCEPT !.at = IF next = NoPage THEN "refetch" ELSE "free",
                               !.cur = next]
  BY <1>1, <1>3, <1>4, <1>10 DEF Erase, DeleteCall
<1>13. /\ HeapShape' /\ live' = live \ {x \in {q} : x \notin PinnedIn(before)}
       /\ \A x \in live' : page'[x] = page[x]
  <2>1. Pinned = PinnedIn(before)
    BY <1>1, <1>2, SameFetches
  <2> QED
    BY <1>5, <1>12, <2>1, DeletePageSound
<1>14. Deleting(t, p, s, Q, D)' /\ Rest(Q, k, todo)'
  BY <1>1, <1>12 DEF Deleting, Rest
<1>15. Pinning({})'
  BY <1>1, <1>12, SamePins
<1>16. PICK S : S = Behind(D, k, j) \cup {q}
  OBVIOUS
<1>17. Freed(S)'
  <2>1. q \notin PinnedIn(before) => ~FullIn(before)
    BY <1>5 DEF ReachedIn
  <2>2. live = before.live \ {x \in Behind(D, k, j) : x \notin PinnedIn(before) /\ ~FullIn(before)}
    BY <1>1 DEF Freed
  <2>3. live' = before.live \ {x \in S : x \notin PinnedIn(before) /\ ~FullIn(before)}
    BY <1>13, <1>16, <2>1, <2>2
  <2>4. \A x \in live' : page'[x] = before.page[x]
    BY <1>1, <1>13 DEF Freed, Kept
  <2> QED
    BY <2>3, <2>4 DEF Freed, Kept
<1>18. d[j] \in Pages
  BY <1>1, <1>3, NextToFree
<1>19. CASE j # n
  <2>1. j + 1 \in 1 .. n /\ next = d[j + 1] /\ (j + 1) - 1 = j
    BY <1>7, <1>8, <1>9, <1>19
  <2>2. S = Behind(D, k, j + 1)
    <3>1. S \subseteq Pages
      BY <1>4, <1>16, <1>18 DEF Behind
    <3>2. \A x : (\E i \in 1 .. j : x = d[i]) <=> x = d[j] \/ \E i \in 1 .. j - 1 : x = d[i]
      BY <1>8
    <3>3. Behind(D, k, j + 1) =
            {x \in Pages : \/ \E i \in 1 .. k : x \in ToSet(D[i])
                           \/ \E i \in 1 .. j : x = d[i]}
      BY <1>3, <2>1 DEF Behind
    <3>4. Behind(D, k, j) =
            {x \in Pages : \/ \E i \in 1 .. k : x \in ToSet(D[i])
                           \/ \E i \in 1 .. j - 1 : x = d[i]}
      BY <1>3 DEF Behind
    <3> QED
      BY <1>4, <1>16, <1>18, <3>2, <3>3, <3>4
  <2>3. DeleteCall("free", t, p, s, todo, d[j + 1], before.page[q].next)'
    BY <1>1, <1>3, <1>4, <1>11, <1>12, <1>19, <2>1 DEF DeleteCall
  <2>4. AtFree'
    BY <1>1, <1>3, <1>7, <1>14, <1>15, <1>17, <2>1, <2>2, <2>3 DEF AtFree
  <2> QED
    BY <1>13, <2>4
<1>20. CASE j = n
  <2>1. S = Behind(D, k + 1, 1)
    <3>1. \A x : (\E i \in 1 .. k + 1 : x \in ToSet(D[i])) <=>
                 x \in ToSet(d) \/ \E i \in 1 .. k : x \in ToSet(D[i])
      BY <1>3, <1>6
    <3>2. \A x : x \in ToSet(d) <=> x = d[j] \/ \E i \in 1 .. j - 1 : x = d[i]
      BY <1>7, <1>8, <1>20
    <3>3. Behind(D, k + 1, 1) = {x \in Pages : \E i \in 1 .. k + 1 : x \in ToSet(D[i])}
      BY DEF Behind
    <3>4. Behind(D, k, j) =
            {x \in Pages : \/ \E i \in 1 .. k : x \in ToSet(D[i])
                           \/ \E i \in 1 .. j - 1 : x = d[i]}
      BY <1>3 DEF Behind
    <3> QED
      BY <1>4, <1>16, <1>18, <3>1, <3>2, <3>3, <3>4
  <2>2. DeleteCall("refetch", t, p, s, todo, next, before.page[q].next)'
    BY <1>1, <1>3, <1>4, <1>11, <1>12, <1>20 DEF DeleteCall
  <2>3. AtRefetch'
    BY <1>1, <1>14, <1>15, <1>17, <2>1, <2>2 DEF AtRefetch
  <2> QED
    BY <1>13, <2>3
<1> QED
  BY <1>19, <1>20

(* The row's page again, with the chain freed or left as it was. *)
LEMMA RefetchStep ==
    ASSUME HeapShape, StoreSound(before), AtRefetch, Refetch,
           call'.at # "idle" => before' = before
    PROVE  HeapShape' /\ (AtRemove' \/ AtRelease')
<1>1. PICK t, p, s, Q, D, k, todo, cur, next :
        /\ Deleting(t, p, s, Q, D) /\ Freed(Behind(D, k + 1, 1)) /\ Pinning({})
        /\ Rest(Q, k, todo) /\ todo # << >>
        /\ DeleteCall("refetch", t, p, s, todo, cur, next)
  BY DEF AtRefetch
<1>2. Q \in Seq(Pages) /\ StoreShape(before) /\ p \in Pages /\ ReachedIn(before, p)
  BY <1>1 DEF Deleting, StoreSound, StoreShape
<1>3. PICK m, rest : m = k + 1 /\ rest = Tail(todo)
  OBVIOUS
<1>4. Rest(Q, m, rest) /\ (rest = << >> => m = Len(Q))
  BY <1>1, <1>2, <1>3, RestNext
<1>5. CanFetch(p)
  BY <1>1, <1>2, SameFetches
<1>6. /\ call' = DeleteRest(rest) /\ pins' = [pins EXCEPT ![p] = @ + 1]
      /\ UNCHANGED <<live, page, tables, unused>>
  BY <1>1, <1>3, <1>5 DEF Refetch, Fetch, DeleteCall
<1>7. PICK at : at = IF rest = << >> THEN "remove" ELSE "release"
  OBVIOUS
<1>8. DeleteCall(at, t, p, s, rest, cur, next)'
  BY <1>1, <1>6, <1>7 DEF DeleteCall, DeleteRest
<1>9. before' = before
  BY <1>7, <1>8 DEF DeleteCall
<1>10. Pinning({p})'
  <2>1. {} \in SUBSET Pages /\ p \in Pages \ {} /\ {p} = {} \cup {p}
    BY <1>2
  <2> QED
    BY <1>1, <1>2, <1>6, <1>9, <2>1, PinOne
<1>11. Deleting(t, p, s, Q, D)' /\ Freed(Behind(D, m, 1))'
  BY <1>1, <1>3, <1>6, <1>9 DEF Deleting, Freed, Kept, Behind
<1>12. AtRemove' \/ AtRelease'
  BY <1>4, <1>7, <1>8, <1>10, <1>11, DeleteGoesOn
<1> QED
  BY <1>6, <1>12, SameShape

-----------------------------------------------------------------------------

(* get and scan collect rows, then read the overflow pages of each. *)

(***************************************************************************)
(* get and scan collect rows R of the store, in no matter what order.      *)
(***************************************************************************)
RowsBefore ==
    {r \in [id : before.live \X Nat, tuple : StoredTuples] :
        /\ HasTupleIn(before, r.id[1], r.id[2])
        /\ r.tuple = TupleIn(before, r.id[1], r.id[2])}

Collected(R) == R \in Seq(RowsBefore) /\ IsInjective(R)

HasId(R, id) == \E i \in 1 .. Len(R) : R[i].id = id

(* The rows of the pages c[1] to c[k], and no others. *)
ScannedOnly(c, k, R) ==
    \A i \in 1 .. Len(R) : \E j \in 1 .. k : R[i].id[1] = c[j]

ScannedAll(c, k, R) ==
    \A j \in 1 .. k : \A s :
        HasTupleIn(before, c[j], s) => HasId(R, <<c[j], s>>)

(* What was collected is what was asked for, if a frame was free. *)
Answering(op, t, p, s, R) ==
    \/ op = "get" /\ Len(R) = 1 /\ R[1].id = <<p, s>>
    \/ /\ op = "scan"
       /\ \E c : /\ TablePath(before, t, c) /\ ScannedOnly(c, Len(c), R)
                 /\ FullIn(before) \/ ScannedAll(c, Len(c), R)

(* The text of a path, and what becomes of a column. *)
Text(d) == FlattenSeq([i \in 1 .. Len(d) |-> before.page[d[i]].chunk])

ChainOf(h) == CHOOSE d : PointerPath(before, d, h)

ResolvedColumn(x) ==
    IF IsPlaceholder(x) THEN [type |-> "VarChar", data |-> Text(ChainOf(x.pointer))] ELSE x

Places(R) ==
    {x \in [row : 1 .. Len(R), column : Nat] :
        /\ x.column \in DOMAIN R[x.row].tuple
        /\ IsPlaceholder(R[x.row].tuple[x.column])}

Place(i, c) == [row |-> i, column |-> c]

(* The placeholders in todo are still there; with a frame free, no others. *)
Resolved1(R, rows, todo, i, c) ==
    IF Place(i, c) \in ToSet(todo) THEN rows[i].tuple[c] = R[i].tuple[c]
    ELSE \/ rows[i].tuple[c] = ResolvedColumn(R[i].tuple[c])
         \/ FullIn(before) /\ rows[i].tuple[c] = R[i].tuple[c]

ResolvedUpTo(R, rows, todo) ==
    /\ rows = [i \in 1 .. Len(R) |-> [id |-> R[i].id, tuple |-> rows[i].tuple]]
    /\ \A i \in 1 .. Len(R) :
        rows[i].tuple = [c \in DOMAIN R[i].tuple |-> rows[i].tuple[c]]
    /\ todo \in Seq(Places(R)) /\ IsInjective(todo)
    /\ \A i \in 1 .. Len(R) : \A c \in DOMAIN R[i].tuple : Resolved1(R, rows, todo, i, c)

Reader(t) ==
    /\ t \in TableNames /\ before.tables[t] # Absent /\ tables = before.tables
    /\ Untouched

Reading(op, t, p, s, R, rows, todo) ==
    /\ Reader(t) /\ Collected(R) /\ Answering(op, t, p, s, R)
    /\ ResolvedUpTo(R, rows, todo)

(* The chunks of d one behind the other: up[k] has the first k. *)
Joins(up, d) ==
    /\ up[Len(d)] = Text(d)
    /\ up[1] = before.page[d[1]].chunk
    /\ \A k \in 2 .. Len(d) : up[k] = up[k - 1] \o before.page[d[k]].chunk

(* The chain d of the first placeholder is read up to the j-th page. *)
ReadUpTo(R, todo, d, j, data) ==
    /\ todo # << >>
    /\ d = ChainOf(R[todo[1].row].tuple[todo[1].column].pointer)
    /\ PointerPath(before, d, R[todo[1].row].tuple[todo[1].column].pointer)
    /\ j \in 1 .. Len(d)
    /\ \E up : Joins(up, d) /\ data = IF j = 1 THEN << >> ELSE up[j - 1]

ReadCall(at, op, t, p, s, rows, todo, cur, data) ==
    call = [op |-> op, at |-> at, table |-> t, id |-> <<p, s>>, rows |-> rows,
            todo |-> todo, cur |-> cur, data |-> data]

AtRow ==
    \E t, p, s :
        /\ Reader(t) /\ p \in before.live /\ Pinning({})
        /\ HasTupleIn(before, p, s) \/ before.pins[p] < MaxPins
        /\ ReadCall("row", "get", t, p, s, << >>, << >>, p, << >>)

AtGot ==
    \E t, p, s :
        /\ Reader(t) /\ p \in before.live /\ ReachedIn(before, p) /\ Pinning({p})
        /\ HasTupleIn(before, p, s) \/ before.pins[p] < MaxPins
        /\ ReadCall("got", "get", t, p, s, << >>, << >>, p, << >>)

Scanning(t, c, k, R) ==
    /\ Reader(t) /\ TablePath(before, t, c) /\ k \in 1 .. Len(c)
    /\ Collected(R) /\ ScannedOnly(c, k - 1, R) /\ ScannedAll(c, k - 1, R)

AtScan ==
    \E t, c, k, R, p, s :
        /\ Scanning(t, c, k, R) /\ Pinning({})
        /\ ReadCall("scan", "scan", t, p, s, R, << >>, c[k], << >>)

AtRows ==
    \E t, c, k, R, p, s :
        /\ Scanning(t, c, k, R) /\ ReachedIn(before, c[k]) /\ Pinning({c[k]})
        /\ ReadCall("rows", "scan", t, p, s, R, << >>, c[k], << >>)

AtRead ==
    \E op, t, p, s, R, rows, todo, d, j, data :
        /\ Reading(op, t, p, s, R, rows, todo) /\ ReadUpTo(R, todo, d, j, data)
        /\ Pinning({})
        /\ ReadCall("read", op, t, p, s, rows, todo, d[j], data)

AtChunk ==
    \E op, t, p, s, R, rows, todo, d, j, data :
        /\ Reading(op, t, p, s, R, rows, todo) /\ ReadUpTo(R, todo, d, j, data)
        /\ ReachedIn(before, d[j]) /\ Pinning({d[j]})
        /\ ReadCall("chunk", op, t, p, s, rows, todo, d[j], data)

AtAnswer ==
    \E op, t, p, s, R, rows, cur, data :
        /\ Reading(op, t, p, s, R, rows, << >>) /\ Pinning({})
        /\ ReadCall("answer", op, t, p, s, rows, << >>, cur, data)

-----------------------------------------------------------------------------

(* The steps of get and scan. *)

(* All that a reader relies on stays. *)
LEMMA StillReading ==
    ASSUME before' = before, UNCHANGED <<live, page, tables>>
    PROVE  /\ \A t : Reader(t) => Reader(t)'
           /\ \A p, s : HasTupleIn(before, p, s) => HasTupleIn(before, p, s)'
           /\ \A R : Collected(R) => Collected(R)'
           /\ \A op, t, p, s, R : Answering(op, t, p, s, R) => Answering(op, t, p, s, R)'
           /\ \A R, rows, todo : ResolvedUpTo(R, rows, todo) => ResolvedUpTo(R, rows, todo)'
           /\ \A R, todo, d, j, data :
                 ReadUpTo(R, todo, d, j, data) => ReadUpTo(R, todo, d, j, data)'
           /\ \A t, c, k, R : Scanning(t, c, k, R) => Scanning(t, c, k, R)'
<1>1. \A t : Reader(t) => Reader(t)'
  BY DEF Reader, Untouched
<1>2. \A p, s : HasTupleIn(before, p, s) => HasTupleIn(before, p, s)'
  BY DEF HasTupleIn, HasSlots
<1>3. \A R : Collected(R) => Collected(R)'
  BY DEF Collected, RowsBefore, HasTupleIn, HasSlots, TupleIn
<1>4. \A op, t, p, s, R : Answering(op, t, p, s, R) => Answering(op, t, p, s, R)'
  <2>1. \A t, c : TablePath(before, t, c) => TablePath(before, t, c)'
    BY DEF TablePath, PathIn, HasSlots
  <2>2. \A c, k, R : ScannedOnly(c, k, R) => ScannedOnly(c, k, R)'
    BY DEF ScannedOnly
  <2>3. \A c, k, R : ScannedAll(c, k, R) => ScannedAll(c, k, R)'
    BY DEF ScannedAll, HasId, HasTupleIn, HasSlots
  <2>4. FullIn(before) => FullIn(before)'
    BY DEF FullIn, PinnedIn
  <2> QED
    BY <2>1, <2>2, <2>3, <2>4 DEF Answering
<1>5. \A d, h : PointerPath(before, d, h)' <=> PointerPath(before, d, h)
  BY DEF PointerPath, PathIn, HasSlots
<1>6. \A h : ChainOf(h)' = ChainOf(h)
  BY DEF ChainOf, PointerPath, PathIn, HasSlots
<1>7. \A d : Text(d)' = Text(d)
  BY DEF Text
<1>8. \A x : ResolvedColumn(x)' = ResolvedColumn(x)
  BY <1>6, <1>7 DEF ResolvedColumn, IsPlaceholder
<1>9. FullIn(before)' <=> FullIn(before)
  BY DEF FullIn, PinnedIn
<1>10. \A R, rows, todo, i, c : Resolved1(R, rows, todo, i, c) => Resolved1(R, rows, todo, i, c)'
  BY <1>8, <1>9 DEF Resolved1, Place
<1>11. ASSUME NEW R, NEW rows, NEW todo, ResolvedUpTo(R, rows, todo)
       PROVE  ResolvedUpTo(R, rows, todo)'
  <2>1. \A i \in 1 .. Len(R) : \A c \in DOMAIN R[i].tuple : Resolved1(R, rows, todo, i, c)'
    BY Zenon, <1>10, <1>11 DEF ResolvedUpTo
  <2> QED
    BY Zenon, <1>11, <2>1 DEF ResolvedUpTo, Places, IsPlaceholder
<1>12. \A up, d : Joins(up, d) => Joins(up, d)'
  BY <1>7 DEF Joins
<1>13. ASSUME NEW R, NEW todo, NEW d, NEW j, NEW data, ReadUpTo(R, todo, d, j, data)
       PROVE  ReadUpTo(R, todo, d, j, data)'
  <2>1. PICK h : h = R[todo[1].row].tuple[todo[1].column].pointer
    OBVIOUS
  <2>2. todo # << >> /\ d = ChainOf(h) /\ PointerPath(before, d, h) /\ j \in 1 .. Len(d)
    BY Zenon, <1>13, <2>1 DEF ReadUpTo
  <2>3. PICK up : Joins(up, d) /\ data = IF j = 1 THEN << >> ELSE up[j - 1]
    BY Zenon, <1>13 DEF ReadUpTo
  <2>4. ChainOf(h)' = ChainOf(h) /\ PointerPath(before, d, h)' /\ Joins(up, d)'
    BY <1>5, <1>6, <1>12, <2>2, <2>3
  <2> QED
    BY Zenon, <2>1, <2>2, <2>3, <2>4 DEF ReadUpTo
<1>14. \A t, c, k, R : Scanning(t, c, k, R) => Scanning(t, c, k, R)'
  <2>1. \A t, c : TablePath(before, t, c) => TablePath(before, t, c)'
    BY DEF TablePath, PathIn, HasSlots
  <2>2. \A c, k, R : ScannedOnly(c, k, R) => ScannedOnly(c, k, R)'
    BY DEF ScannedOnly
  <2>3. \A c, k, R : ScannedAll(c, k, R) => ScannedAll(c, k, R)'
    BY DEF ScannedAll, HasId, HasTupleIn, HasSlots
  <2> QED
    BY <1>1, <1>3, <2>1, <2>2, <2>3 DEF Scanning
<1> QED
  BY <1>1, <1>2, <1>3, <1>4, <1>11, <1>13, <1>14

(* The rows answered are rid of their first placeholder, or there is none. *)
LEMMA ReadGoesOn ==
    ASSUME StoreSound(before), NEW op, NEW t, NEW p, NEW s, NEW R, NEW rows, NEW todo,
           Reading(op, t, p, s, R, rows, todo), NEW at, NEW r0, NEW t0, NEW cur, NEW d0,
           ReadCall(at, op, t, p, s, r0, t0, cur, d0), call' = ReadRest(todo, rows),
           UNCHANGED <<live, page, tables>>, call'.at # "idle" => before' = before,
           before' = before => Pinning({})'
    PROVE  before' = before /\ (AtRead' \/ AtAnswer')
<1>1. PICK c : c = [call EXCEPT !.todo = todo, !.rows = rows, !.data = << >>]
  OBVIOUS
<1>2. c = [op |-> op, at |-> at, table |-> t, id |-> <<p, s>>, rows |-> rows,
           todo |-> todo, cur |-> cur, data |-> << >>]
  BY <1>1 DEF ReadCall
<1>3. call' = IF todo = << >> THEN [c EXCEPT !.at = "answer"]
              ELSE [c EXCEPT !.at = "read",
                             !.cur = rows[todo[1].row].tuple[todo[1].column].pointer]
  BY <1>1 DEF ReadRest
<1>4. before' = before
  BY <1>2, <1>3
<1>5. Reading(op, t, p, s, R, rows, todo)' /\ Pinning({})'
  BY <1>4, StillReading DEF Reading
<1>6. CASE todo = << >>
  <2>1. ReadCall("answer", op, t, p, s, rows, << >>, cur, << >>)'
    BY <1>2, <1>3, <1>6 DEF ReadCall
  <2> QED
    BY <1>4, <1>5, <1>6, <2>1 DEF AtAnswer
<1>7. CASE todo # << >>
  <2>1. todo \in Seq(Places(R)) /\ R \in Seq(RowsBefore)
    BY DEF Reading, ResolvedUpTo, Collected
  <2>2. Len(todo) \in Nat \ {0} /\ 1 \in 1 .. Len(todo) /\ DOMAIN todo = 1 .. Len(todo)
    BY <1>7, <2>1, EmptySeq, LenProperties
  <2>3. PICK pl : pl = todo[1]
    OBVIOUS
  <2>4. pl \in Places(R) /\ pl \in ToSet(todo)
    BY <2>1, <2>2, <2>3, ElementOfSeq DEF ToSet
  <2>5. PICK i, k : i = pl.row /\ k = pl.column
    OBVIOUS
  <2>6. /\ i \in 1 .. Len(R) /\ k \in DOMAIN R[i].tuple /\ IsPlaceholder(R[i].tuple[k])
        /\ pl = Place(i, k)
    BY <2>4, <2>5 DEF Places, Place
  <2>7. R[i] \in RowsBefore
    BY <2>1, <2>6, ElementOfSeq
  <2>8. PICK h : h = R[i].tuple[k].pointer
    OBVIOUS
  <2>9. rows[i].tuple[k] = R[i].tuple[k]
    <3>1. Resolved1(R, rows, todo, i, k)
      BY <2>6 DEF Reading, ResolvedUpTo
    <3> QED
      BY <2>4, <2>6, <3>1 DEF Resolved1
  <2>10. PICK d : d = ChainOf(h)
    OBVIOUS
  <2>11. PointerPath(before, d, h)
    <3>1. PICK q, x : q = R[i].id[1] /\ x = R[i].id[2]
      OBVIOUS
    <3>2. q \in before.live /\ HasTupleIn(before, q, x) /\ R[i].tuple = TupleIn(before, q, x)
      BY <2>7, <3>1 DEF RowsBefore
    <3>3. PointerIn(before, q, x, k) /\ h = TupleIn(before, q, x)[k].pointer
      BY <2>6, <2>8, <3>2 DEF PointerIn, IsPlaceholder
    <3>4. \E e : PointerPath(before, e, h)
      BY <3>2, <3>3 DEF StoreSound, StorePaths
    <3> QED
      BY <2>10, <3>4 DEF ChainOf
  <2>12. Len(d) \in Nat \ {0} /\ d[1] = h
    BY <2>11 DEF PointerPath, PathIn
  <2>13. \E up : Joins(up, d)
    <3>1. PICK G : G = [l \in 1 .. Len(d) |-> before.page[d[l]].chunk]
      OBVIOUS
    <3>2. Len(G) = Len(d)
      BY <2>12, <3>1
    <3>3. PICK up : /\ FlattenSeq(G) = up[Len(G)] /\ up[1] = G[1]
                    /\ \A l \in 2 .. Len(G) : up[l] = up[l - 1] \o G[l]
      BY <2>12, <3>2, FlattenSeqUnfolds
    <3>4. \A l \in 2 .. Len(d) : G[l] = before.page[d[l]].chunk
      BY <2>12, <3>1
    <3>5. G[1] = before.page[d[1]].chunk
      BY <2>12, <3>1
    <3>6. Text(d) = FlattenSeq(G)
      BY <3>1 DEF Text
    <3>7. Joins(up, d)
      BY <3>2, <3>3, <3>4, <3>5, <3>6 DEF Joins
    <3> QED
      BY <3>7
  <2>14. ReadUpTo(R, todo, d, 1, << >>)
    <3>1. 1 \in 1 .. Len(d)
      BY <2>12
    <3>2. R[todo[1].row].tuple[todo[1].column].pointer = h
      BY <2>3, <2>5, <2>8
    <3> QED
      BY <1>7, <2>10, <2>11, <2>13, <3>1, <3>2 DEF ReadUpTo
  <2>15. ReadUpTo(R, todo, d, 1, << >>)'
    BY <1>4, <2>14, StillReading
  <2>16. ReadCall("read", op, t, p, s, rows, todo, d[1], << >>)'
    BY Zenon, <1>2, <1>3, <1>7, <2>3, <2>5, <2>8, <2>9, <2>12 DEF ReadCall
  <2> QED
    BY <1>4, <1>5, <2>15, <2>16 DEF AtRead
<1> QED
  BY <1>6, <1>7

(* The rows with nothing resolved yet. *)
LEMMA NothingResolved ==
    ASSUME StoreShape(before), NEW R, Collected(R), NEW G, NEW todo,
           G = [i \in DOMAIN R |->
                    [j \in DOMAIN Placeholders(R[i].tuple) |->
                        [row |-> i, column |-> Placeholders(R[i].tuple)[j]]]],
           todo = FlattenSeq(G)
    PROVE  ResolvedUpTo(R, R, todo)
<1>1. R \in Seq(RowsBefore)
  BY DEF Collected
<1>2. PICK n \in Nat : n = Len(R) /\ DOMAIN R = 1 .. n
  BY <1>1, LenProperties
<1>3. ASSUME NEW i \in 1 .. n
      PROVE  /\ R[i] \in RowsBefore /\ R[i].tuple \in StoredTuples
             /\ \A x : x \in ToSet(G[i]) <=>
                    \E c \in DOMAIN R[i].tuple : IsPlaceholder(R[i].tuple[c]) /\ x = Place(i, c)
             /\ G[i] \in Seq(Places(R)) /\ IsInjective(G[i])
             /\ \A x \in ToSet(G[i]) : x.row = i
  <2>1. R[i] \in RowsBefore
    BY <1>1, <1>2, <1>3, ElementOfSeq
  <2>2. PICK q, s, tuple : q = R[i].id[1] /\ s = R[i].id[2] /\ tuple = R[i].tuple
    OBVIOUS
  <2>3. q \in before.live /\ HasTupleIn(before, q, s) /\ tuple = TupleIn(before, q, s)
        /\ tuple \in StoredTuples
    BY <2>1, <2>2 DEF RowsBefore
  <2>4. PICK holders : holders = {c \in DOMAIN tuple : IsPlaceholder(tuple[c])}
    OBVIOUS
  <2>5. DOMAIN tuple \in SUBSET Nat /\ IsFiniteSet(DOMAIN tuple)
    BY <2>3, <2>4, TupleShape
  <2>6. holders \in SUBSET Nat /\ IsFiniteSet(holders)
    BY <2>4, <2>5, FS_Subset
  <2>7. PICK u : u = Ascending(holders)
    OBVIOUS
  <2>8. u \in Seq(holders) /\ IsInjective(u) /\ ToSet(u) = holders /\ DOMAIN u = 1 .. Len(u)
    BY <2>6, <2>7, AscendingSound
  <2>9. Placeholders(tuple) = u
    BY <2>4, <2>7 DEF Placeholders
  <2>10. PICK m \in Nat : m = Len(u)
    BY Zenon, <2>8, LenProperties
  <2>11. G[i] = [j \in 1 .. m |-> Place(i, u[j])]
    BY <1>2, <1>3, <2>2, <2>8, <2>9, <2>10 DEF Place
  <2>12. \A j \in 1 .. m : u[j] \in holders
    BY <2>8, <2>10, ElementOfSeq
  <2>13. \A c \in holders : \E j \in 1 .. m : c = u[j]
    BY <2>8, <2>10 DEF ToSet
  <2>14. \A c \in holders : Place(i, c) \in Places(R)
    BY <1>2, <1>3, <2>2, <2>4, <2>6 DEF Place, Places
  <2>15. PICK g : g = G[i]
    OBVIOUS
  <2>16. DOMAIN g = 1 .. m /\ \A j \in 1 .. m : g[j] = Place(i, u[j])
    BY <2>11, <2>15
  <2>17. g \in Seq(Places(R))
    <3>1. \A j \in 1 .. m : g[j] \in Places(R)
      BY <2>12, <2>14, <2>16
    <3>2. g = [j \in 1 .. m |-> g[j]]
      BY <2>11, <2>15
    <3> QED
      BY <2>10, <3>1, <3>2, IsASeq
  <2>18. IsInjective(g)
    <3>1. \A j, l \in 1 .. m : u[j] = u[l] => j = l
      BY <2>8, <2>10 DEF IsInjective
    <3>2. \A j, l \in 1 .. m : g[j] = g[l] => u[j] = u[l]
      BY <2>16 DEF Place
    <3> QED
      BY <2>16, <3>1, <3>2 DEF IsInjective
  <2>19. ASSUME NEW x PROVE x \in ToSet(g) <=> \E c \in holders : x = Place(i, c)
    <3>1. x \in ToSet(g) <=> \E j \in 1 .. m : x = g[j]
      BY <2>16 DEF ToSet
    <3> QED
      BY <2>12, <2>13, <2>16, <3>1
  <2>20. \A c : Place(i, c).row = i
    BY DEF Place
  <2> QED
    BY <2>1, <2>2, <2>3, <2>4, <2>5, <2>15, <2>17, <2>18, <2>19, <2>20
<1>4. PICK S : S = Places(R)
  OBVIOUS
<1>5. Len(G) = n /\ G \in Seq(Seq(S))
  <2>1. G = [i \in 1 .. n |-> G[i]]
    BY <1>2
  <2>2. \A i \in 1 .. n : G[i] \in Seq(S)
    BY <1>3, <1>4
  <2> QED
    BY <2>1, <2>2, IsASeq
<1>6. \A x : todo \in Seq(S) /\ (x \in ToSet(todo) <=> \E k \in 1 .. n : x \in ToSet(G[k]))
  BY <1>5, FlattenedSet
<1>7. IsInjective(todo)
  <2>1. \A k \in 1 .. Len(G) : IsInjective(G[k])
    BY <1>3, <1>5
  <2>2. ASSUME NEW k \in 1 .. Len(G), NEW l \in 1 .. Len(G), k # l
        PROVE  ToSet(G[k]) \cap ToSet(G[l]) = {}
    <3>1. \A x \in ToSet(G[k]) : x.row = k
      BY <1>3, <1>5
    <3>2. \A x \in ToSet(G[l]) : x.row = l
      BY <1>3, <1>5
    <3> QED
      BY <2>2, <3>1, <3>2
  <2> QED
    BY <1>5, <2>1, <2>2, FlattenedInjective
<1>8. ASSUME NEW i \in 1 .. n, NEW c \in DOMAIN R[i].tuple
      PROVE  Resolved1(R, R, todo, i, c)
  <2>1. CASE IsPlaceholder(R[i].tuple[c])
    <3>1. Place(i, c) \in ToSet(G[i])
      BY <1>3, <2>1
    <3>2. Place(i, c) \in ToSet(todo)
      BY <1>6, <3>1
    <3> QED
      BY <3>2 DEF Resolved1
  <2>2. CASE ~IsPlaceholder(R[i].tuple[c])
    BY <2>2 DEF Resolved1, ResolvedColumn
  <2> QED
    BY <2>1, <2>2
<1>9. R = [i \in 1 .. n |-> [id |-> R[i].id, tuple |-> R[i].tuple]]
  <2>1. R = [i \in 1 .. n |-> R[i]]
    BY <1>1, <1>2
  <2>2. \A i \in 1 .. n : R[i] = [id |-> R[i].id, tuple |-> R[i].tuple]
    BY <1>3 DEF RowsBefore
  <2> QED
    BY <2>1, <2>2
<1>10. ASSUME NEW i \in 1 .. n
       PROVE  R[i].tuple = [c \in DOMAIN R[i].tuple |-> R[i].tuple[c]]
  <2>1. PICK tuple : tuple = R[i].tuple
    OBVIOUS
  <2>2. tuple \in Seq(Columns)
    BY <1>3, <2>1 DEF StoredTuples
  <2>3. tuple = [c \in DOMAIN tuple |-> tuple[c]]
    BY <2>2
  <2> QED
    BY <2>1, <2>3
<1> QED
  BY Zenon, <1>2, <1>4, <1>6, <1>7, <1>8, <1>9, <1>10 DEF ResolvedUpTo

(* What was collected is resolved next. *)
LEMMA ResolvingGoesOn ==
    ASSUME StoreSound(before), NEW op, NEW t, NEW p, NEW s, NEW R,
           Reader(t), Collected(R), Answering(op, t, p, s, R),
           NEW at, NEW r0, NEW t0, NEW cur, NEW d0,
           ReadCall(at, op, t, p, s, r0, t0, cur, d0), call' = Resolving(R),
           UNCHANGED <<live, page, tables>>, call'.at # "idle" => before' = before,
           before' = before => Pinning({})'
    PROVE  before' = before /\ (AtRead' \/ AtAnswer')
<1>1. PICK G : G = [i \in DOMAIN R |->
                    [j \in DOMAIN Placeholders(R[i].tuple) |->
                        [row |-> i, column |-> Placeholders(R[i].tuple)[j]]]]
  OBVIOUS
<1>2. PICK todo : todo = FlattenSeq(G)
  OBVIOUS
<1>3. ResolvedUpTo(R, R, todo)
  BY <1>1, <1>2, NothingResolved DEF StoreSound
<1>4. call' = ReadRest(todo, R)
  BY <1>1, <1>2 DEF Resolving
<1>5. Reading(op, t, p, s, R, R, todo)
  BY <1>3 DEF Reading
<1> QED
  BY <1>4, <1>5, ReadGoesOn

(* A page that scan cannot fetch ends the scan. *)
LEMMA ScanFetchStep ==
    ASSUME HeapShape, StoreSound(before), AtScan, ScanFetch,
           call'.at # "idle" => before' = before
    PROVE  HeapShape' /\ before' = before /\ (AtRows' \/ AtRead' \/ AtAnswer')
<1>1. PICK t, c, k, R, p, s :
        /\ Scanning(t, c, k, R) /\ Pinning({})
        /\ ReadCall("scan", "scan", t, p, s, R, << >>, c[k], << >>)
  BY DEF AtScan
<1>2. /\ StoreShape(before) /\ Reader(t) /\ TablePath(before, t, c) /\ k \in 1 .. Len(c)
      /\ Collected(R) /\ ScannedOnly(c, k - 1, R)
  BY <1>1 DEF StoreSound, Scanning
<1>3. PICK h : PathIn(before, c, h)
  BY <1>2 DEF TablePath
<1>4. PICK n \in Nat : n = Len(c)
  BY <1>3 DEF PathIn
<1>5. PICK q : q = c[k]
  OBVIOUS
<1>6. q \in Pages
  BY <1>2, <1>3, <1>5, PathPages
<1>7. call.cur = q /\ call.rows = R /\ call.at # "idle"
  BY <1>1, <1>5 DEF ReadCall
<1>8. /\ call' = IF CanFetch(q) THEN [call EXCEPT !.at = "rows"] ELSE Resolving(R)
      /\ pins' = IF CanFetch(q) THEN [pins EXCEPT ![q] = @ + 1] ELSE pins
      /\ UNCHANGED <<live, page, tables, unused>>
  BY <1>7 DEF ScanFetch, Fetch
<1>9. CanFetch(q) <=> ReachedIn(before, q)
  BY <1>1, <1>2, SameFetches
<1>10. HeapShape'
  BY <1>8, SameShape
<1>11. CASE ReachedIn(before, q)
  <2>1. call' = [call EXCEPT !.at = "rows"] /\ pins' = [pins EXCEPT ![q] = @ + 1]
    BY <1>8, <1>9, <1>11
  <2>2. ReadCall("rows", "scan", t, p, s, R, << >>, q, << >>)'
    BY <1>1, <1>5, <2>1 DEF ReadCall
  <2>3. before' = before
    BY <2>2 DEF ReadCall
  <2>4. Pinning({q})'
    <3>1. {} \in SUBSET Pages /\ q \in Pages \ {} /\ {q} = {} \cup {q}
      BY <1>6
    <3> QED
      BY <1>1, <1>2, <2>1, <2>3, <3>1, PinOne
  <2>5. Scanning(t, c, k, R)'
    BY <1>1, <1>8, <2>3, StillReading
  <2>6. ReachedIn(before, q)'
    BY <1>11, <2>3
  <2> QED
    BY <1>5, <1>10, <2>2, <2>3, <2>4, <2>5, <2>6 DEF AtRows
<1>12. CASE ~ReachedIn(before, q)
  <2>1. call' = Resolving(R) /\ pins' = pins
    BY <1>8, <1>9, <1>12
  <2>2. FullIn(before)
    BY <1>12 DEF ReachedIn
  <2>3. ScannedOnly(c, Len(c), R)
    <3>1. \A j \in 1 .. k - 1 : j \in 1 .. n
      BY <1>2, <1>4
    <3>2. ScannedOnly(c, n, R)
      BY <1>2, <3>1 DEF ScannedOnly
    <3> QED
      BY <1>4, <3>2
  <2>4. Answering("scan", t, p, s, R)
    BY <1>2, <2>2, <2>3 DEF Answering
  <2>5. before' = before => Pinning({})'
    BY <1>1, <2>1, SamePins
  <2>6. before' = before /\ (AtRead' \/ AtAnswer')
    <3>1. UNCHANGED <<live, page, tables>>
      BY <1>8
    <3>2. ReadCall("scan", "scan", t, p, s, R, << >>, q, << >>)
      BY <1>1, <1>5
    <3> QED
      BY <1>2, <2>1, <2>4, <2>5, <3>1, <3>2, ResolvingGoesOn
  <2> QED
    BY <1>10, <2>6
<1> QED
  BY <1>11, <1>12

(* The rows of a page, each once. *)
LEMMA PageScanned ==
    ASSUME StoreShape(before), Untouched, NEW q \in before.live, HasSlots(before, q),
           NEW N, N = RowsOnPage(q)
    PROVE  /\ N \in Seq(RowsBefore) /\ IsInjective(N) /\ Len(N) \in Nat
           /\ \A i \in 1 .. Len(N) : N[i].id[1] = q
           /\ \A s : HasTupleIn(before, q, s) => HasId(N, <<q, s>>)
<1>1. PICK pg : pg = before.page[q]
  OBVIOUS
<1>2. pg \in SoundPages /\ "slots" \in DOMAIN pg /\ page[q] = pg
  BY <1>1 DEF StoreShape, HasSlots, Untouched
<1>3. pg \in DataPages
  BY <1>2 DEF SoundPages, ChunkPages
<1>4. pg.slots \in Seq(StoredTuples \cup {Tombstone})
  BY <1>3 DEF DataPages
<1>5. PICK n \in Nat : n = Len(pg.slots) /\ DOMAIN pg.slots = 1 .. n
  BY <1>4, LenProperties
<1>6. PICK slots : slots = LiveSlots(pg)
  OBVIOUS
<1>7. slots = {s \in 1 .. n : pg.slots[s] # Tombstone}
  BY <1>5, <1>6 DEF LiveSlots
<1>8. slots \in SUBSET Nat /\ IsFiniteSet(slots)
  <2>1. IsFiniteSet(1 .. n) /\ slots \in SUBSET (1 .. n) /\ (1 .. n) \in SUBSET Nat
    BY <1>7, FS_Interval
  <2> QED
    BY <2>1, FS_Subset
<1>9. PICK u : u = Ascending(slots)
  OBVIOUS
<1>10. u \in Seq(slots) /\ IsInjective(u) /\ ToSet(u) = slots /\ DOMAIN u = 1 .. Len(u)
  BY <1>8, <1>9, AscendingSound
<1>11. PICK m \in Nat : m = Len(u)
  BY Zenon, <1>10, LenProperties
<1>12. N = [i \in 1 .. m |-> [id |-> <<q, u[i]>>, tuple |-> TupleIn(before, q, u[i])]]
  BY <1>1, <1>2, <1>6, <1>9, <1>10, <1>11 DEF RowsOnPage, TupleWithId, TupleIn
<1>13. \A i \in 1 .. m : u[i] \in slots
  BY <1>10, <1>11, ElementOfSeq
<1>14. \A s : HasTupleIn(before, q, s) <=> s \in slots
  BY <1>1, <1>2, <1>6 DEF HasTupleIn, HasSlots
<1>15. ASSUME NEW i \in 1 .. m PROVE N[i] \in RowsBefore
  <2>1. PICK s : s = u[i]
    OBVIOUS
  <2>2. s \in slots /\ s \in 1 .. n /\ pg.slots[s] # Tombstone /\ s \in Nat
    BY <1>7, <1>13, <1>15, <2>1
  <2>3. pg.slots[s] \in StoredTuples
    BY <1>4, <1>5, <2>2, ElementOfSeq
  <2>4. TupleIn(before, q, s) \in StoredTuples
    BY <1>1, <2>3 DEF TupleIn
  <2>5. N[i] = [id |-> <<q, s>>, tuple |-> TupleIn(before, q, s)]
    BY <1>12, <1>15, <2>1
  <2> QED
    BY <1>14, <2>2, <2>4, <2>5 DEF RowsBefore
<1>16. N \in Seq(RowsBefore) /\ Len(N) = m /\ DOMAIN N = 1 .. m
  <2>1. N = [i \in 1 .. m |-> N[i]]
    BY <1>12
  <2>2. N \in Seq(RowsBefore) /\ Len(N) = m
    BY <1>15, <2>1, IsASeq
  <2> QED
    BY <1>12, <2>2
<1>17. \A i \in 1 .. m : N[i].id = <<q, u[i]>>
  BY <1>12
<1>18. IsInjective(N)
  <2>1. \A j, l \in 1 .. m : u[j] = u[l] => j = l
    BY <1>10, <1>11 DEF IsInjective
  <2>2. \A j, l \in 1 .. m : N[j] = N[l] => u[j] = u[l]
    BY <1>17
  <2> QED
    BY <1>16, <2>1, <2>2 DEF IsInjective
<1>19. \A s \in slots : \E i \in 1 .. m : s = u[i]
  BY <1>10, <1>11 DEF ToSet
<1> QED
  BY <1>14, <1>16, <1>17, <1>18, <1>19 DEF HasId

(* The rows of one more page of the table. *)
LEMMA OnePageMore ==
    ASSUME StoreShape(before), NEW t, NEW c, NEW k, NEW R, Scanning(t, c, k, R),
           NEW N, N = RowsOnPage(c[k]), NEW more, more = R \o N
    PROVE  Collected(more) /\ ScannedOnly(c, k, more) /\ ScannedAll(c, k, more)
<1>1. /\ Untouched /\ TablePath(before, t, c) /\ k \in 1 .. Len(c)
      /\ Collected(R) /\ ScannedOnly(c, k - 1, R) /\ ScannedAll(c, k - 1, R)
  BY DEF Scanning, Reader
<1>2. PICK h : PathIn(before, c, h)
  BY <1>1 DEF TablePath
<1>3. PICK q : q = c[k]
  OBVIOUS
<1>4. q \in before.live /\ HasSlots(before, q)
      /\ \A i, j \in 1 .. Len(c) : c[i] = c[j] => i = j
  BY <1>1, <1>2, <1>3 DEF PathIn, TablePath
<1>5. PICK l \in Nat : l = Len(c)
  BY <1>2 DEF PathIn
<1>6. /\ N \in Seq(RowsBefore) /\ IsInjective(N)
      /\ \A i \in 1 .. Len(N) : N[i].id[1] = q
      /\ \A s : HasTupleIn(before, q, s) => HasId(N, <<q, s>>)
  BY <1>1, <1>3, <1>4, PageScanned
<1>7. R \in Seq(RowsBefore) /\ IsInjective(R)
  BY <1>1 DEF Collected
<1>8. PICK a \in Nat, b \in Nat : a = Len(R) /\ b = Len(N) /\ DOMAIN R = 1 .. a /\ DOMAIN N = 1 .. b
  BY <1>6, <1>7, LenProperties
<1>9. /\ more \in Seq(RowsBefore) /\ Len(more) = a + b
      /\ \A i \in 1 .. a : more[i] = R[i]
      /\ \A i \in 1 .. b : more[a + i] = N[i]
  BY <1>6, <1>7, <1>8, ConcatParts, ConcatProperties
<1>10. DOMAIN more = 1 .. a + b
  <2>1. DOMAIN more = 1 .. Len(more)
    BY <1>9, LenProperties
  <2> QED
    BY <1>9, <2>1
<1>11. ASSUME NEW x \in 1 .. a + b
       PROVE  x \in 1 .. a \/ \E i \in 1 .. b : x = a + i
  <2>1. CASE x > a
    <3>1. x - a \in 1 .. b /\ x = a + (x - a)
      BY <1>11, <2>1
    <3> QED
      BY <3>1
  <2>2. CASE ~(x > a)
    BY <1>11, <2>2
  <2> QED
    BY <2>1, <2>2
<1>12. \A i \in 1 .. a : \E j \in 1 .. k - 1 : R[i].id[1] = c[j]
  BY <1>1, <1>8 DEF ScannedOnly
<1>13. \A j \in 1 .. k - 1 : c[j] # q
  BY <1>1, <1>3, <1>4, <1>5
<1>14. \A i \in 1 .. a : R[i].id[1] # q
  BY <1>12, <1>13
<1>15. IsInjective(more)
  <2>1. ASSUME NEW x \in 1 .. a + b, NEW y \in 1 .. a + b, more[x] = more[y] PROVE x = y
    <3>1. CASE x \in 1 .. a /\ y \in 1 .. a
      BY <1>7, <1>8, <1>9, <2>1, <3>1 DEF IsInjective
    <3>2. ASSUME NEW i \in 1 .. b, x = a + i, NEW j \in 1 .. b, y = a + j PROVE x = y
      <4>1. N[i] = N[j]
        BY <1>9, <2>1, <3>2
      <4> QED
        BY <1>6, <1>8, <3>2, <4>1 DEF IsInjective
    <3>3. ASSUME x \in 1 .. a, NEW j \in 1 .. b, y = a + j PROVE FALSE
      <4>1. N[j].id[1] = q
        BY <1>6, <1>8, <3>3
      <4>2. R[x].id[1] # q
        BY <1>14, <3>3
      <4>3. more[x] = R[x] /\ more[y] = N[j]
        BY <1>9, <3>3
      <4> QED
        BY <2>1, <4>1, <4>2, <4>3
    <3>4. ASSUME y \in 1 .. a, NEW j \in 1 .. b, x = a + j PROVE FALSE
      <4>1. N[j].id[1] = q
        BY <1>6, <1>8, <3>4
      <4>2. R[y].id[1] # q
        BY <1>14, <3>4
      <4>3. more[y] = R[y] /\ more[x] = N[j]
        BY <1>9, <3>4
      <4> QED
        BY <2>1, <4>1, <4>2, <4>3
    <3> QED
      BY <1>11, <3>1, <3>2, <3>3, <3>4
  <2> QED
    BY <1>10, <2>1 DEF IsInjective
<1>16. ScannedOnly(c, k, more)
  <2>1. ASSUME NEW x \in 1 .. a + b PROVE \E j \in 1 .. k : more[x].id[1] = c[j]
    <3>1. CASE x \in 1 .. a
      <4>1. PICK j \in 1 .. k - 1 : R[x].id[1] = c[j]
        BY <1>12, <3>1
      <4>2. j \in 1 .. k
        BY <1>1, <1>5, <4>1
      <4>3. more[x] = R[x]
        BY <1>9, <3>1
      <4> QED
        BY <4>1, <4>2, <4>3
    <3>2. ASSUME NEW i \in 1 .. b, x = a + i PROVE \E j \in 1 .. k : more[x].id[1] = c[j]
      <4>1. more[x].id[1] = c[k] /\ k \in 1 .. k
        BY <1>1, <1>3, <1>5, <1>6, <1>8, <1>9, <3>2
      <4> QED
        BY <4>1
    <3> QED
      BY <1>11, <3>1, <3>2
  <2> QED
    BY <1>9, <2>1 DEF ScannedOnly
<1>17. ScannedAll(c, k, more)
  <2>1. ASSUME NEW j \in 1 .. k, NEW s, HasTupleIn(before, c[j], s)
        PROVE  \E x \in 1 .. a + b : more[x].id = <<c[j], s>>
    <3>1. CASE j = k
      <4>1. PICK i \in 1 .. b : N[i].id = <<q, s>>
        BY <1>3, <1>6, <1>8, <2>1, <3>1 DEF HasId
      <4>2. more[a + i] = N[i]
        BY <1>9, <4>1
      <4>3. more[a + i].id = <<c[j], s>>
        BY <1>3, <3>1, <4>1, <4>2
      <4>4. a + i \in 1 .. a + b
        BY <4>1
      <4> QED
        BY <4>3, <4>4
    <3>2. CASE j # k
      <4>1. j \in 1 .. k - 1
        BY <1>1, <1>5, <2>1, <3>2
      <4>2. PICK i \in 1 .. a : R[i].id = <<c[j], s>>
        BY <1>1, <1>8, <2>1, <4>1 DEF ScannedAll, HasId
      <4>3. i \in 1 .. a + b
        BY <1>8, <4>2
      <4>4. more[i] = R[i]
        BY <1>9, <4>2
      <4> QED
        BY <4>2, <4>3, <4>4
    <3> QED
      BY <3>1, <3>2
  <2> QED
    BY <1>9, <2>1 DEF ScannedAll, HasId
<1> QED
  BY <1>9, <1>15, <1>16, <1>17 DEF Collected

(* scan goes on with the next page, or has all the rows. *)
LEMMA ScanPageStep ==
    ASSUME HeapShape, StoreSound(before), AtRows, ScanPage,
           call'.at # "idle" => before' = before
    PROVE  HeapShape' /\ before' = before /\ (AtScan' \/ AtRead' \/ AtAnswer')
<1>1. PICK t, c, k, R, p, s :
        /\ Scanning(t, c, k, R) /\ ReachedIn(before, c[k]) /\ Pinning({c[k]})
        /\ ReadCall("rows", "scan", t, p, s, R, << >>, c[k], << >>)
  BY DEF AtRows
<1>2. /\ StoreShape(before) /\ Reader(t) /\ TablePath(before, t, c) /\ k \in 1 .. Len(c)
      /\ Untouched
  BY <1>1 DEF StoreSound, Scanning, Reader
<1>3. PICK h : PathIn(before, c, h)
  BY <1>2 DEF TablePath
<1>4. PICK n \in Nat : n = Len(c)
  BY <1>3 DEF PathIn
<1>5. PICK q, N, more : q = c[k] /\ N = RowsOnPage(c[k]) /\ more = R \o N
  OBVIOUS
<1>6. /\ q \in Pages
      /\ before.page[q].next = IF k = n THEN NoPage ELSE c[k + 1]
      /\ \A i \in 1 .. n : c[i] # NoPage
  BY <1>2, <1>3, <1>4, <1>5, PathPages
<1>7. Collected(more) /\ ScannedOnly(c, k, more) /\ ScannedAll(c, k, more)
  BY <1>1, <1>2, <1>5, OnePageMore
<1>8. call.cur = q /\ call.rows = R
  BY <1>1, <1>5 DEF ReadCall
<1>9. PICK next : next = IF k = n THEN NoPage ELSE c[k + 1]
  OBVIOUS
<1>10. (next = NoPage) <=> (k = n)
  <2>1. k # n => k + 1 \in 1 .. n
    BY <1>2, <1>4
  <2> QED
    BY <1>6, <1>9, <2>1
<1>11. page[q].next = next
  BY <1>2, <1>6, <1>9 DEF Untouched
<1>12. /\ Unpin(q) /\ UNCHANGED <<live, page, tables, unused>>
       /\ call' = IF next = NoPage THEN Resolving(more)
                  ELSE [call EXCEPT !.at = "scan", !.rows = more, !.cur = next]
  BY <1>5, <1>8, <1>11 DEF ScanPage
<1>13. HeapShape'
  BY <1>12, SameShape
<1>14. before' = before => Pinning({})'
  <2>1. {q} \in SUBSET Pages /\ q \in {q} /\ {} = {q} \ {q} /\ Pinning({q})
    BY <1>1, <1>5, <1>6
  <2> QED
    BY <1>2, <1>12, <2>1, UnpinOne
<1>15. CASE k = n
  <2>1. call' = Resolving(more)
    BY <1>10, <1>12, <1>15
  <2>2. Answering("scan", t, p, s, more)
    BY <1>2, <1>4, <1>7, <1>15 DEF Answering
  <2>3. UNCHANGED <<live, page, tables>>
    BY <1>12
  <2>4. before' = before /\ (AtRead' \/ AtAnswer')
    BY <1>1, <1>2, <1>7, <1>14, <2>1, <2>2, <2>3, ResolvingGoesOn
  <2> QED
    BY <1>13, <2>4
<1>16. CASE k # n
  <2>1. k + 1 \in 1 .. Len(c) /\ next = c[k + 1] /\ (k + 1) - 1 = k
    BY <1>2, <1>4, <1>9, <1>16
  <2>2. call' = [call EXCEPT !.at = "scan", !.rows = more, !.cur = next]
    BY <1>10, <1>12, <1>16
  <2>3. ReadCall("scan", "scan", t, p, s, more, << >>, c[k + 1], << >>)'
    BY <1>1, <2>1, <2>2 DEF ReadCall
  <2>4. before' = before
    BY <2>3 DEF ReadCall
  <2>5. Scanning(t, c, k + 1, more)
    BY <1>2, <1>7, <2>1 DEF Scanning
  <2>6. Scanning(t, c, k + 1, more)'
    BY <1>12, <2>4, <2>5, StillReading
  <2> QED
    BY <1>13, <1>14, <2>3, <2>4, <2>6 DEF AtScan
<1> QED
  BY <1>15, <1>16

(* What is left without the first element. *)
LEMMA TailFresh ==
    ASSUME NEW S, NEW s \in Seq(S), s # << >>, IsInjective(s), NEW u, u = Tail(s)
    PROVE  /\ u \in Seq(S) /\ IsInjective(u) /\ s[1] \in S /\ s[1] \in ToSet(s)
           /\ ToSet(u) = ToSet(s) \ {s[1]}
<1>1. PICK n \in Nat : n = Len(s) /\ DOMAIN s = 1 .. n
  BY LenProperties
<1>2. n # 0
  BY <1>1, EmptySeq
<1>3. u \in Seq(S) /\ Len(u) = n - 1 /\ \A i \in 1 .. Len(u) : u[i] = s[i + 1]
  BY <1>1, HeadTailProperties
<1>4. DOMAIN u = 1 .. n - 1 /\ \A i \in 1 .. n - 1 : u[i] = s[i + 1]
  <2>1. DOMAIN u = 1 .. Len(u)
    BY <1>3, LenProperties
  <2> QED
    BY <1>3, <2>1
<1>5. \A i, j \in 1 .. n : s[i] = s[j] => i = j
  BY <1>1 DEF IsInjective
<1>6. ASSUME NEW i \in 1 .. n - 1, NEW j \in 1 .. n - 1, u[i] = u[j] PROVE i = j
  <2>1. i + 1 \in 1 .. n /\ j + 1 \in 1 .. n /\ s[i + 1] = s[j + 1]
    BY <1>4, <1>6
  <2> QED
    BY <1>5, <1>6, <2>1
<1>7. ASSUME NEW x PROVE x \in ToSet(u) <=> x \in ToSet(s) /\ x # s[1]
  <2>1. ASSUME x \in ToSet(u) PROVE x \in ToSet(s) /\ x # s[1]
    <3>1. PICK i \in 1 .. n - 1 : x = u[i]
      BY <1>4, <2>1 DEF ToSet
    <3>2. i + 1 \in 1 .. n /\ i + 1 # 1 /\ 1 \in 1 .. n /\ x = s[i + 1]
      BY <1>2, <1>4, <3>1
    <3> QED
      BY <1>1, <1>5, <3>2 DEF ToSet
  <2>2. ASSUME x \in ToSet(s), x # s[1] PROVE x \in ToSet(u)
    <3>1. PICK i \in 1 .. n : x = s[i]
      BY <1>1, <2>2 DEF ToSet
    <3>2. PICK j : j = i - 1
      OBVIOUS
    <3>3. j \in 1 .. n - 1 /\ j + 1 = i
      BY <2>2, <3>1, <3>2
    <3> QED
      BY <1>4, <3>1, <3>3 DEF ToSet
  <2> QED
    BY <2>1, <2>2
<1>8. 1 \in 1 .. n
  BY <1>2
<1>9. s[1] \in S /\ s[1] \in ToSet(s)
  BY <1>1, <1>8, ElementOfSeq DEF ToSet
<1>10. IsInjective(u)
  BY <1>4, <1>6 DEF IsInjective
<1> QED
  BY <1>3, <1>7, <1>9, <1>10

(* The page being read. *)
LEMMA ReadPage ==
    ASSUME StoreShape(before), NEW R, NEW todo, NEW d, NEW j, NEW data,
           ReadUpTo(R, todo, d, j, data), NEW q, q = d[j]
    PROVE  /\ q \in Pages /\ q \in before.live /\ Len(d) \in Nat \ {0}
           /\ before.page[q].chunk \in Seq(Nat)
           /\ before.page[q].next = IF j = Len(d) THEN NoPage ELSE d[j + 1]
           /\ \A i \in 1 .. Len(d) : d[i] # NoPage
<1>1. PICK h : PointerPath(before, d, h)
  BY Zenon DEF ReadUpTo
<1>2. PathIn(before, d, h) /\ \A i \in 1 .. Len(d) : ~HasSlots(before, d[i])
  BY <1>1 DEF PointerPath
<1>3. j \in 1 .. Len(d)
  BY Zenon DEF ReadUpTo
<1>4. /\ q \in Pages /\ q \in before.live /\ Len(d) \in Nat \ {0}
      /\ before.page[q].next = IF j = Len(d) THEN NoPage ELSE d[j + 1]
      /\ \A i \in 1 .. Len(d) : d[i] # NoPage
  BY <1>2, <1>3, PathPages
<1>5. PICK pg : pg = before.page[q]
  OBVIOUS
<1>6. pg \in SoundPages /\ "slots" \notin DOMAIN pg
  BY <1>2, <1>3, <1>4, <1>5 DEF StoreShape, HasSlots
<1>7. pg \in ChunkPages
  BY <1>6 DEF SoundPages, DataPages
<1>8. pg.chunk \in Seq(Nat)
  BY <1>7 DEF ChunkPages
<1> QED
  BY <1>4, <1>5, <1>8

(* A page that cannot be fetched leaves the placeholder in the answer. *)
LEMMA ReadFetchStep ==
    ASSUME HeapShape, StoreSound(before), AtRead, ReadFetch,
           call'.at # "idle" => before' = before
    PROVE  HeapShape' /\ before' = before /\ (AtChunk' \/ AtRead' \/ AtAnswer')
<1>1. PICK op, t, p, s, R, rows, todo, d, j, data :
        /\ Reading(op, t, p, s, R, rows, todo) /\ ReadUpTo(R, todo, d, j, data)
        /\ Pinning({})
        /\ ReadCall("read", op, t, p, s, rows, todo, d[j], data)
  BY DEF AtRead
<1>2. StoreShape(before)
  BY DEF StoreSound
<1>3. PICK q : q = d[j]
  OBVIOUS
<1>4. q \in Pages
  BY <1>1, <1>2, <1>3, ReadPage
<1>5. call.cur = q /\ call.rows = rows /\ call.todo = todo
  BY <1>1, <1>3 DEF ReadCall
<1>6. PICK u : u = Tail(todo)
  OBVIOUS
<1>7. /\ call' = IF CanFetch(q) THEN [call EXCEPT !.at = "chunk"] ELSE ReadRest(u, rows)
      /\ pins' = IF CanFetch(q) THEN [pins EXCEPT ![q] = @ + 1] ELSE pins
      /\ UNCHANGED <<live, page, tables, unused>>
  BY <1>5, <1>6 DEF ReadFetch, Fetch
<1>8. CanFetch(q) <=> ReachedIn(before, q)
  BY <1>1, <1>2, SameFetches
<1>9. HeapShape'
  BY <1>7, SameShape
<1>10. CASE ReachedIn(before, q)
  <2>1. call' = [call EXCEPT !.at = "chunk"] /\ pins' = [pins EXCEPT ![q] = @ + 1]
    BY <1>7, <1>8, <1>10
  <2>2. ReadCall("chunk", op, t, p, s, rows, todo, q, data)'
    BY <1>1, <1>3, <2>1 DEF ReadCall
  <2>3. before' = before
    BY <2>2 DEF ReadCall
  <2>4. Pinning({q})'
    <3>1. {} \in SUBSET Pages /\ q \in Pages \ {} /\ {q} = {} \cup {q}
      BY <1>4
    <3> QED
      BY <1>1, <1>2, <2>1, <2>3, <3>1, PinOne
  <2>5. Reading(op, t, p, s, R, rows, todo)' /\ ReadUpTo(R, todo, d, j, data)'
    BY <1>1, <1>7, <2>3, StillReading DEF Reading
  <2>6. ReachedIn(before, q)'
    BY <1>10, <2>3
  <2> QED
    BY <1>3, <1>9, <2>2, <2>3, <2>4, <2>5, <2>6 DEF AtChunk
<1>11. CASE ~ReachedIn(before, q)
  <2>1. call' = ReadRest(u, rows) /\ pins' = pins
    BY <1>7, <1>8, <1>11
  <2>2. FullIn(before)
    BY <1>11 DEF ReachedIn
  <2>3. ResolvedUpTo(R, rows, todo) /\ todo # << >>
    BY Zenon, <1>1 DEF Reading, ReadUpTo
  <2>4. todo \in Seq(Places(R)) /\ IsInjective(todo)
    BY <2>3 DEF ResolvedUpTo
  <2>5. u \in Seq(Places(R)) /\ IsInjective(u) /\ ToSet(u) = ToSet(todo) \ {todo[1]}
    BY <1>6, <2>3, <2>4, TailFresh
  <2>6. ASSUME NEW i \in 1 .. Len(R), NEW c \in DOMAIN R[i].tuple
        PROVE  Resolved1(R, rows, u, i, c)
    <3>1. Resolved1(R, rows, todo, i, c)
      BY <2>3, <2>6 DEF ResolvedUpTo
    <3> QED
      BY <2>2, <2>5, <3>1 DEF Resolved1
  <2>7. Reading(op, t, p, s, R, rows, u)
    BY <1>1, <2>3, <2>5, <2>6 DEF Reading, ResolvedUpTo
  <2>8. before' = before => Pinning({})'
    BY <1>1, <2>1, SamePins
  <2>9. before' = before /\ (AtRead' \/ AtAnswer')
    <3>1. UNCHANGED <<live, page, tables>>
      BY <1>7
    <3>2. ReadCall("read", op, t, p, s, rows, todo, q, data)
      BY <1>1, <1>3
    <3> QED
      BY <2>1, <2>7, <2>8, <3>1, <3>2, ReadGoesOn
  <2> QED
    BY <1>9, <2>9
<1> QED
  BY <1>10, <1>11

(* The first placeholder gets the text of its chain. *)
LEMMA OneResolved ==
    ASSUME NEW R, NEW rows, NEW todo, ResolvedUpTo(R, rows, todo), todo # << >>,
           Collected(R), NEW r, NEW k, r = todo[1].row, k = todo[1].column, NEW value,
           value = ResolvedColumn(R[r].tuple[k]), NEW more,
           more = [rows EXCEPT ![r].tuple[k] = value], NEW u, u = Tail(todo)
    PROVE  ResolvedUpTo(R, more, u)
<1>1. /\ rows = [i \in 1 .. Len(R) |-> [id |-> R[i].id, tuple |-> rows[i].tuple]]
      /\ \A i \in 1 .. Len(R) :
            rows[i].tuple = [c \in DOMAIN R[i].tuple |-> rows[i].tuple[c]]
      /\ todo \in Seq(Places(R)) /\ IsInjective(todo)
      /\ \A i \in 1 .. Len(R) : \A c \in DOMAIN R[i].tuple : Resolved1(R, rows, todo, i, c)
  BY DEF ResolvedUpTo
<1>2. /\ u \in Seq(Places(R)) /\ IsInjective(u) /\ ToSet(u) = ToSet(todo) \ {todo[1]}
      /\ todo[1] \in Places(R)
  BY <1>1, TailFresh
<1>3. PICK n : n = Len(R)
  OBVIOUS
<1>4. todo[1] = Place(r, k) /\ r \in 1 .. n /\ k \in DOMAIN R[r].tuple
  BY <1>2, <1>3 DEF Places, Place
<1>5. ASSUME NEW i \in 1 .. n, NEW c, <<i, c>> # <<r, k>> PROVE Place(i, c) # Place(r, k)
  <2>1. Place(i, c).row = i /\ Place(i, c).column = c
    BY DEF Place
  <2>2. Place(r, k).row = r /\ Place(r, k).column = k
    BY DEF Place
  <2> QED
    BY <1>5, <2>1, <2>2
<1>6. PICK tuple : tuple = [rows[r].tuple EXCEPT ![k] = value]
  BY Zenon
<1>7. rows[r].tuple = [c \in DOMAIN R[r].tuple |-> rows[r].tuple[c]]
  BY Zenon, <1>1, <1>3, <1>4
<1>8. tuple = [c \in DOMAIN R[r].tuple |-> IF c = k THEN value ELSE rows[r].tuple[c]]
  BY Zenon, <1>6, <1>7
<1>9. more = [i \in 1 .. n |-> IF i = r THEN [id |-> R[r].id, tuple |-> tuple] ELSE rows[i]]
  <2>1. more = [rows EXCEPT ![r] = [rows[r] EXCEPT !.tuple = tuple]]
    BY <1>6
  <2>2. rows[r] = [id |-> R[r].id, tuple |-> rows[r].tuple]
    BY Zenon, <1>1, <1>3, <1>4
  <2>3. [rows[r] EXCEPT !.tuple = tuple] = [id |-> R[r].id, tuple |-> tuple]
    BY <2>2
  <2>4. more = [rows EXCEPT ![r] = [id |-> R[r].id, tuple |-> tuple]]
    BY <2>1, <2>3
  <2>5. DOMAIN rows = 1 .. n
    BY <1>1, <1>3
  <2>6. rows = [i \in 1 .. n |-> rows[i]]
    BY <1>1, <1>3
  <2> QED
    BY <2>4, <2>5, <2>6
<1>10. ASSUME NEW i \in 1 .. n PROVE more[i] = [id |-> R[i].id, tuple |-> more[i].tuple]
  <2>1. CASE i = r
    BY <1>9, <2>1
  <2>2. CASE i # r
    <3>1. more[i] = rows[i] /\ rows[i] = [id |-> R[i].id, tuple |-> rows[i].tuple]
      BY <1>1, <1>3, <1>9, <2>2
    <3> QED
      BY <3>1
  <2> QED
    BY <2>1, <2>2
<1>11. more[r].tuple = tuple /\ \A i \in 1 .. n : i # r => more[i].tuple = rows[i].tuple
  <2>1. \A i \in 1 .. n : i # r => more[i] = rows[i]
    BY <1>9
  <2>2. more[r] = [id |-> R[r].id, tuple |-> tuple]
    BY Zenon, <1>4, <1>9
  <2>3. [id |-> R[r].id, tuple |-> tuple].tuple = tuple
    OBVIOUS
  <2> QED
    BY <2>1, <2>2, <2>3
<1>12. ASSUME NEW i \in 1 .. n
       PROVE  more[i].tuple = [c \in DOMAIN R[i].tuple |-> more[i].tuple[c]]
  <2>1. CASE i = r
    BY Zenon, <1>8, <1>11, <2>1
  <2>2. CASE i # r
    BY Zenon, <1>1, <1>3, <1>11, <2>2
  <2> QED
    BY Zenon, <2>1, <2>2
<1>13. ASSUME NEW i \in 1 .. n, NEW c \in DOMAIN R[i].tuple
       PROVE  Resolved1(R, more, u, i, c)
  <2>1. CASE i = r /\ c = k
    <3>1. more[i].tuple[c] = ResolvedColumn(R[i].tuple[c])
      <4>1. tuple[k] = value
        BY Zenon, <1>4, <1>8
      <4>2. more[i].tuple[c] = value
        BY Zenon, <1>11, <2>1, <4>1
      <4> QED
        BY <2>1, <4>2
    <3>2. Place(i, c) \notin ToSet(u)
      BY Zenon, <1>2, <1>4, <2>1
    <3> QED
      BY <3>1, <3>2 DEF Resolved1
  <2>2. CASE ~(i = r /\ c = k)
    <3>1. more[i].tuple[c] = rows[i].tuple[c]
      <4>1. CASE i # r
        BY <1>11, <4>1
      <4>2. CASE i = r
        <5>1. c # k /\ c \in DOMAIN R[r].tuple
          BY <1>13, <2>2, <4>2
        <5>2. tuple[c] = rows[r].tuple[c]
          BY <1>8, <5>1
        <5> QED
          BY <1>11, <4>2, <5>2
      <4> QED
        BY <4>1, <4>2
    <3>2. Place(i, c) \in ToSet(u) <=> Place(i, c) \in ToSet(todo)
      BY Zenon, <1>2, <1>4, <1>5, <2>2
    <3>3. Resolved1(R, rows, todo, i, c)
      BY <1>1, <1>3, <1>13
    <3> QED
      BY <3>1, <3>2, <3>3 DEF Resolved1
  <2> QED
    BY <2>1, <2>2
<1>14. more = [i \in 1 .. n |-> more[i]]
  BY Zenon, <1>9
<1>15. more = [i \in 1 .. n |-> [id |-> R[i].id, tuple |-> more[i].tuple]]
  BY Zenon, <1>10, <1>14
<1> QED
  BY Zenon, <1>2, <1>3, <1>12, <1>13, <1>15 DEF ResolvedUpTo

(* The page's bytes are appended; the last page resolves the placeholder. *)
LEMMA ReadChunkStep ==
    ASSUME HeapShape, StoreSound(before), AtChunk, ReadChunk,
           call'.at # "idle" => before' = before
    PROVE  HeapShape' /\ before' = before /\ (AtRead' \/ AtAnswer')
<1>1. PICK op, t, p, s, R, rows, todo, d, j, data :
        /\ Reading(op, t, p, s, R, rows, todo) /\ ReadUpTo(R, todo, d, j, data)
        /\ ReachedIn(before, d[j]) /\ Pinning({d[j]})
        /\ ReadCall("chunk", op, t, p, s, rows, todo, d[j], data)
  BY DEF AtChunk
<1>2. StoreShape(before) /\ page = before.page /\ Collected(R) /\ ResolvedUpTo(R, rows, todo)
  BY <1>1 DEF StoreSound, Reading, Reader, Untouched
<1>3. PICK q : q = d[j]
  OBVIOUS
<1>4. PICK n \in Nat \ {0} : n = Len(d)
  BY <1>1, <1>2, ReadPage
<1>5. /\ q \in Pages /\ before.page[q].chunk \in Seq(Nat)
      /\ before.page[q].next = IF j = n THEN NoPage ELSE d[j + 1]
      /\ \A i \in 1 .. n : d[i] # NoPage
  BY <1>1, <1>2, <1>3, <1>4, ReadPage
<1>6. PICK h : h = R[todo[1].row].tuple[todo[1].column].pointer
  OBVIOUS
<1>7. todo # << >> /\ d = ChainOf(h) /\ PointerPath(before, d, h) /\ j \in 1 .. n
  BY Zenon, <1>1, <1>4, <1>6 DEF ReadUpTo
<1>8. PICK up : Joins(up, d) /\ data = IF j = 1 THEN << >> ELSE up[j - 1]
  BY Zenon, <1>1 DEF ReadUpTo
<1>9. PICK next, joined : /\ next = IF j = n THEN NoPage ELSE d[j + 1]
                          /\ joined = data \o before.page[q].chunk
  OBVIOUS
<1>10. (next = NoPage) <=> (j = n)
  <2>1. j # n => j + 1 \in 1 .. n
    BY <1>7
  <2> QED
    BY <1>5, <1>9, <2>1
<1>11. joined = up[j]
  <2>1. CASE j = 1
    <3>1. up[1] = before.page[d[1]].chunk
      BY <1>8 DEF Joins
    <3>2. joined = << >> \o before.page[q].chunk
      BY <1>8, <1>9, <2>1
    <3>3. << >> \o before.page[q].chunk = before.page[q].chunk
      BY <1>5
    <3> QED
      BY <1>3, <2>1, <3>1, <3>2, <3>3
  <2>2. CASE j # 1
    <3>1. j \in 2 .. Len(d)
      BY <1>4, <1>7, <2>2
    <3>2. up[j] = up[j - 1] \o before.page[d[j]].chunk
      BY <1>8, <3>1 DEF Joins
    <3> QED
      BY <1>3, <1>8, <1>9, <2>2, <3>2
  <2> QED
    BY <2>1, <2>2
<1>12. PICK r, k : r = todo[1].row /\ k = todo[1].column
  OBVIOUS
<1>13. PICK value : value = [type |-> "VarChar", data |-> joined]
  OBVIOUS
<1>14. PICK u, more : u = Tail(todo) /\ more = [rows EXCEPT ![r].tuple[k] = value]
  OBVIOUS
<1>15. call.cur = q /\ call.rows = rows /\ call.todo = todo /\ call.data = data
  BY <1>1, <1>3 DEF ReadCall
<1>16. page[q].next = next /\ call.data \o page[q].chunk = joined
  BY <1>2, <1>5, <1>9, <1>15
<1>17. /\ Unpin(q) /\ UNCHANGED <<live, page, tables, unused>>
       /\ call' = IF next # NoPage
                  THEN [call EXCEPT !.at = "read", !.cur = next, !.data = joined]
                  ELSE ReadRest(u, more)
  BY <1>12, <1>13, <1>14, <1>15, <1>16 DEF ReadChunk
<1>18. HeapShape'
  BY <1>17, SameShape
<1>19. before' = before => Pinning({})'
  <2>1. {q} \in SUBSET Pages /\ q \in {q} /\ {} = {q} \ {q} /\ Pinning({q})
    BY <1>1, <1>3, <1>5
  <2> QED
    BY <1>2, <1>17, <2>1, UnpinOne
<1>20. CASE j # n
  <2>1. call' = [call EXCEPT !.at = "read", !.cur = next, !.data = joined] /\ next = d[j + 1]
    BY <1>9, <1>10, <1>17, <1>20
  <2>2. ReadCall("read", op, t, p, s, rows, todo, d[j + 1], joined)'
    BY <1>1, <2>1 DEF ReadCall
  <2>3. before' = before
    BY <2>2 DEF ReadCall
  <2>4. PICK m : m = j + 1
    OBVIOUS
  <2>5. m \in 1 .. n /\ m # 1 /\ m - 1 = j
    BY <1>7, <1>20, <2>4
  <2>6. joined = IF m = 1 THEN << >> ELSE up[m - 1]
    BY <1>11, <2>5
  <2>7. ReadUpTo(R, todo, d, m, joined)
    BY Zenon, <1>4, <1>6, <1>7, <1>8, <2>5, <2>6 DEF ReadUpTo
  <2>8. Reading(op, t, p, s, R, rows, todo)' /\ ReadUpTo(R, todo, d, m, joined)'
    BY <1>1, <1>17, <2>3, <2>7, StillReading DEF Reading
  <2> QED
    BY <1>18, <1>19, <2>2, <2>3, <2>4, <2>8 DEF AtRead
<1>21. CASE j = n
  <2>1. call' = ReadRest(u, more)
    BY <1>10, <1>17, <1>21
  <2>2. R[r].tuple[k].pointer = h /\ IsPlaceholder(R[r].tuple[k])
    <3>1. todo \in Seq(Places(R)) /\ IsInjective(todo)
      BY <1>2 DEF ResolvedUpTo
    <3>2. todo[1] \in Places(R)
      BY <1>7, <3>1, TailFresh
    <3> QED
      BY <1>6, <1>12, <3>2 DEF Places
  <2>3. joined = Text(d)
    BY <1>4, <1>8, <1>11, <1>21 DEF Joins
  <2>4. value = ResolvedColumn(R[r].tuple[k])
    BY <1>7, <1>13, <2>2, <2>3 DEF ResolvedColumn
  <2>5. ResolvedUpTo(R, more, u)
    BY <1>2, <1>7, <1>12, <1>14, <2>4, OneResolved
  <2>6. Reading(op, t, p, s, R, more, u)
    BY <1>1, <2>5 DEF Reading
  <2>7. before' = before /\ (AtRead' \/ AtAnswer')
    <3>1. UNCHANGED <<live, page, tables>>
      BY <1>17
    <3>2. ReadCall("chunk", op, t, p, s, rows, todo, q, data)
      BY <1>1, <1>3
    <3> QED
      BY <1>19, <2>1, <2>6, <3>1, <3>2, ReadGoesOn
  <2> QED
    BY <1>18, <2>7
<1> QED
  BY <1>20, <1>21

(* The store the user knows of, as the substitution of Engine has it. *)
storeLive == IF call.at = "idle" THEN live ELSE before.live

storePage == IF call.at = "idle" THEN page ELSE before.page

storePins == IF call.at = "idle" THEN pins ELSE before.pins

storeTables == IF call.at = "idle" THEN tables ELSE before.tables

(* The end of InsertOnNewPage on the page p. *)
StoredOrLost(ps, p, links, fits, counted, written, linked, stored) ==
    /\ storeLive' = storeLive \cup ps \cup {p}
    /\ \/ links /\ fits /\ storePage' = stored /\ counted /\ UNCHANGED storePins
       \/ /\ ~(links /\ fits)
          /\ storePage' = IF links THEN linked ELSE written
          /\ storePins' = [storePins EXCEPT ![p] = 1]
          /\ UNCHANGED storeTables

-----------------------------------------------------------------------------

(* A call begins. *)

(* The store that a call finds. *)
Found == [live |-> live, page |-> page, pins |-> pins, tables |-> tables]

(* The pages of a table, for the call that starts on it. *)
LEMMA FoundPath ==
    ASSUME NEW f, StoreSound(f), before' = f, f.tables = tables, NEW t \in Existing
    PROVE  \E c : /\ TablePath(before, t, c)' /\ Len(c) \in Nat \ {0}
                  /\ c[1] = tables[t].first
<1>1. t \in TableNames /\ f.tables[t] # Absent
  BY DEF Existing
<1>2. PICK c : TablePath(f, t, c)
  BY <1>1 DEF StoreSound, StorePaths
<1>3. TablePath(before, t, c)'
  BY <1>2 DEF TablePath, PathIn, HasSlots
<1>4. Len(c) \in Nat \ {0} /\ c[1] = tables[t].first
  BY <1>2 DEF TablePath, PathIn
<1> QED
  BY <1>3, <1>4

(* The empty list, with which the loops of the code begin. *)
LEMMA NothingYet ==
    ASSUME NEW S, NEW s, s = << >>
    PROVE  s \in Seq(S) /\ Len(s) = 0 /\ DOMAIN s = {} /\ IsInjective(s) /\ ToSet(s) = {}
<1>1. s \in Seq(S) /\ Len(s) = 0
  BY EmptySeq
<1>2. DOMAIN s = {}
  BY <1>1, LenProperties
<1> QED
  BY <1>1, <1>2 DEF IsInjective, ToSet

(* drop_table takes the table out of the catalog and lists its first page. *)
LEMMA StartDropStep ==
    ASSUME NEW f, StoreSound(f), before' = f, f.tables = tables,
           Untouched', Pinning({})', NEW t \in Existing, StartDrop(t)
    PROVE  AtList'
<1>1. PICK c : /\ TablePath(before, t, c)' /\ Len(c) \in Nat \ {0}
               /\ c[1] = tables[t].first
  BY FoundPath
<1>2. t \in TableNames
  BY DEF Existing
<1>3. tables' = [before.tables EXCEPT ![t] = Absent]'
  BY DEF StartDrop
<1>4. Listing(t, c, << >>)'
  <2>1. << >> \in Seq(Pages) /\ Len(<< >>) = 0 /\ 1 .. 0 = {}
    BY NothingYet
  <2>2. Len(<< >>) <= Len(c)
    BY <1>1, <2>1
  <2>3. \A i \in 1 .. Len(<< >>) : FALSE
    BY <2>1
  <2> QED
    BY <1>1, <1>2, <1>3, <2>1, <2>2, <2>3 DEF Listing
<1>5. 1 = Len(<< >>) + 1 /\ 1 \in 1 .. Len(c)
  BY <1>1, NothingYet
<1>6. call' = [op |-> "drop", at |-> "list", table |-> t, cur |-> c[1], ids |-> << >>]
  BY <1>1 DEF StartDrop
<1> QED
  BY <1>4, <1>5, <1>6 DEF AtList

(* insert begins with the first piece of the row, or with the search. *)
LEMMA StartInsertStep ==
    ASSUME NEW f, StoreSound(f), before' = f, f.tables = tables, tables' = tables,
           Untouched', Pinning({})', NEW t \in Existing, NEW row \in Rows, StartInsert(t, row)
    PROVE  AtSpill' \/ AtSearch'
<1>1. PICK c : /\ TablePath(before, t, c)' /\ Len(c) \in Nat \ {0}
               /\ c[1] = tables[t].first
  BY FoundPath
<1>2. t \in TableNames
  BY DEF Existing
<1>3. PICK ps : ps = << >>
  OBVIOUS
<1>4. /\ ps \in Seq(Pages) /\ IsInjective(ps) /\ Len(ps) = 0 /\ ToSet(ps) = {}
  BY <1>3, NothingYet
<1>5. Pieces(row) \in Seq([column : Spilled(row), chunk : Seq(Nat)])
  <2>1. PICK first : PiecesFrom(row, first)
    BY PiecesSound
  <2> QED
    BY <2>1 DEF PiecesFrom
<1>6. Len(Pieces(row)) \in Nat
  BY <1>5, LenProperties
<1>7. Spilling(t, c, row, ps, {}, FALSE, {})'
  <2>1. Len(ps) <= Len(Pieces(row))
    BY <1>4, <1>6
  <2>2. 1 .. Len(ps) = {}
    BY <1>4
  <2>3. (live = before.live \cup ToSet(ps) \cup {} /\ Kept(before.live \ {}))'
    BY <1>4 DEF Untouched, Kept
  <2> QED
    BY <1>1, <1>2, <1>3, <1>4, <2>1, <2>2, <2>3 DEF Spilling
<1>8. CASE Pieces(row) = << >>
  <2>1. Len(ps) = Len(Pieces(row)) /\ 1 \in 1 .. Len(c)
    BY <1>1, <1>3, <1>8
  <2>2. Passed(c, row, 1 - 1)'
    <3>1. 1 .. (1 - 1) = {}
      OBVIOUS
    <3> QED
      BY <3>1 DEF Passed
  <2>3. InsertCall("search", t, row, ps, c[1], NoPage)'
    BY <1>1, <1>3, <1>8 DEF StartInsert, InsertCall
  <2> QED
    BY <1>7, <2>1, <2>2, <2>3 DEF AtSearch
<1>9. CASE Pieces(row) # << >>
  <2>1. Len(ps) < Len(Pieces(row))
    BY <1>4, <1>5, <1>9
  <2>2. InsertCall("spill", t, row, ps, tables[t].first, NoPage)'
    BY <1>3, <1>9, tables' = tables DEF StartInsert, InsertCall
  <2> QED
    BY <1>7, <2>1, <2>2 DEF AtSpill
<1> QED
  BY <1>8, <1>9

(* scan begins at the first page of the table with no rows. *)
LEMMA StartScanStep ==
    ASSUME NEW f, StoreSound(f), before' = f, f.tables = tables, tables' = tables,
           Untouched', Pinning({})', NEW t \in Existing,
           StartRead("scan", t, tables[t].first, 0)
    PROVE  AtScan'
<1>1. PICK c : /\ TablePath(before, t, c)' /\ Len(c) \in Nat \ {0}
               /\ c[1] = tables[t].first
  BY FoundPath
<1>2. Reader(t)'
  BY DEF Existing, Reader
<1>3. PICK R : R = << >>
  OBVIOUS
<1>4. 1 \in 1 .. Len(c) /\ 1 .. (1 - 1) = {}
  BY <1>1
<1>5. Collected(R)'
  BY <1>3, NothingYet DEF Collected
<1>6. ScannedOnly(c, 1 - 1, R) /\ ScannedAll(c, 1 - 1, R)'
  <2>1. 1 .. Len(R) = {}
    BY <1>3, NothingYet
  <2> QED
    BY <1>4, <2>1 DEF ScannedOnly, ScannedAll
<1>7. Scanning(t, c, 1, R)'
  BY <1>1, <1>2, <1>4, <1>5, <1>6 DEF Scanning
<1>8. ReadCall("scan", "scan", t, c[1], 0, R, << >>, c[1], << >>)'
  BY <1>1, <1>3 DEF StartRead, ReadCall
<1> QED
  BY <1>7, <1>8 DEF AtScan

-----------------------------------------------------------------------------

(* Where a call can be, and what stays where it is. *)

Creating == AtNew \/ AtMade

DroppingTable == AtList \/ AtListed \/ AtDrop

Inserting ==
    \/ AtSpill \/ AtFill \/ AtChain \/ AtChained \/ AtSearch \/ AtLook
    \/ AtExtend \/ AtJoin \/ AtJoined \/ AtStore \/ AtTrapped

DeletingTuple ==
    \/ AtTuple \/ AtRemove \/ AtRelease \/ AtFree \/ AtFreeing \/ AtErase \/ AtRefetch

ReadingRows == AtRow \/ AtGot \/ AtScan \/ AtRows \/ AtRead \/ AtChunk \/ AtAnswer

Running == Creating \/ DroppingTable \/ Inserting \/ DeletingTuple \/ ReadingRows

GoesOn(running) == call'.at # "idle" /\ running

(* Each step of a call is taken at its place. *)
LEMMA PlaceOfStep ==
    /\ (CreateNew => call.at = "new") /\ (CreateUnpin => call.at = "made")
    /\ (ListFetch => call.at = "list") /\ (ListNext => call.at = "listed")
    /\ (DropPage => call.at = "drop")
    /\ (SpillNew => call.at = "spill") /\ (SpillFill => call.at = "fill")
    /\ (ChainFetch => call.at = "chain") /\ (Chained => call.at = "chained")
    /\ (SearchFetch => call.at = "search")
    /\ (SearchHit => call.at = "look") /\ (SearchMiss => call.at = "look")
    /\ (ExtendNew => call.at = "extend") /\ (JoinFetch => call.at = "join")
    /\ (Joined => call.at = "joined") /\ (StoreInNew => call.at = "store")
    /\ (DeleteFetch => call.at = "tuple") /\ (Release => call.at = "release")
    /\ (FreeFetch => call.at = "free") /\ (FreeUnpin => call.at = "freeing")
    /\ (Erase => call.at = "erase") /\ (Refetch => call.at = "refetch")
    /\ (RemoveTuple => call.at = "remove")
    /\ (GetFetch => call.at = "row") /\ (GetTuple => call.at = "got")
    /\ (ScanFetch => call.at = "scan") /\ (ScanPage => call.at = "rows")
    /\ (ReadFetch => call.at = "read") /\ (ReadChunk => call.at = "chunk")
    /\ (Answer => call.at = "answer")
BY DEF CreateNew, CreateUnpin, ListFetch, ListNext, DropPage, SpillNew, SpillFill, ChainFetch,
       Chained, SearchFetch, SearchHit, SearchMiss, ExtendNew, JoinFetch, Joined, StoreInNew,
       DeleteFetch, Release, FreeFetch, FreeUnpin, Erase, Refetch, RemoveTuple, GetFetch,
       GetTuple, ScanFetch, ScanPage, ReadFetch, ReadChunk, Answer

(* Where a call is. *)
PlacesOfCall ==
    /\ (AtIdle => call.at = "idle")
    /\ (AtNew => call.at = "new")
    /\ (AtMade => call.at = "made")
    /\ (AtList => call.at = "list")
    /\ (AtListed => call.at = "listed")
    /\ (AtDrop => call.at = "drop")
    /\ (AtSpill => call.at = "spill")
    /\ (AtFill => call.at = "fill")
    /\ (AtChain => call.at = "chain")
    /\ (AtChained => call.at = "chained")
    /\ (AtSearch => call.at = "search")
    /\ (AtLook => call.at = "look")
    /\ (AtExtend => call.at = "extend")
    /\ (AtJoin => call.at = "join")
    /\ (AtJoined => call.at = "joined")
    /\ (AtStore => call.at = "store")
    /\ (AtTuple => call.at = "tuple")
    /\ (AtRemove => call.at = "remove")
    /\ (AtRelease => call.at = "release")
    /\ (AtFree => call.at = "free")
    /\ (AtFreeing => call.at = "freeing")
    /\ (AtErase => call.at = "erase")
    /\ (AtRefetch => call.at = "refetch")
    /\ (AtRow => call.at = "row")
    /\ (AtGot => call.at = "got")
    /\ (AtScan => call.at = "scan")
    /\ (AtRows => call.at = "rows")
    /\ (AtRead => call.at = "read")
    /\ (AtChunk => call.at = "chunk")
    /\ (AtAnswer => call.at = "answer")
    /\ (AtTrapped => call.at = "trapped")

(* The name in call.at says where a call is. *)
LEMMA PlaceOfCall == PlacesOfCall
<1>1. AtIdle => call.at = "idle"
  BY DEF AtIdle, Idle
<1>2. AtNew => call.at = "new"
  BY DEF AtNew
<1>3. AtMade => call.at = "made"
  BY DEF AtMade
<1>4. AtList => call.at = "list"
  BY DEF AtList
<1>5. AtListed => call.at = "listed"
  BY DEF AtListed
<1>6. AtDrop => call.at = "drop"
  BY DEF AtDrop
<1>7. AtSpill => call.at = "spill"
  BY DEF AtSpill, InsertCall
<1>8. AtFill => call.at = "fill"
  BY DEF AtFill, InsertCall
<1>9. AtChain => call.at = "chain"
  BY DEF AtChain, InsertCall
<1>10. AtChained => call.at = "chained"
  BY DEF AtChained, InsertCall
<1>11. AtSearch => call.at = "search"
  BY DEF AtSearch, InsertCall
<1>12. AtLook => call.at = "look"
  BY DEF AtLook, InsertCall
<1>13. AtExtend => call.at = "extend"
  BY DEF AtExtend, InsertCall
<1>14. AtJoin => call.at = "join"
  BY DEF AtJoin, InsertCall
<1>15. AtJoined => call.at = "joined"
  BY DEF AtJoined, InsertCall
<1>16. AtStore => call.at = "store"
  BY DEF AtStore, InsertCall
<1>17. AtTuple => call.at = "tuple"
  BY DEF AtTuple, DeleteCall
<1>18. AtRemove => call.at = "remove"
  BY DEF AtRemove, DeleteCall
<1>19. AtRelease => call.at = "release"
  BY DEF AtRelease, DeleteCall
<1>20. AtFree => call.at = "free"
  BY DEF AtFree, DeleteCall
<1>21. AtFreeing => call.at = "freeing"
  BY DEF AtFreeing, DeleteCall
<1>22. AtErase => call.at = "erase"
  BY DEF AtErase, DeleteCall
<1>23. AtRefetch => call.at = "refetch"
  BY DEF AtRefetch, DeleteCall
<1>24. AtRow => call.at = "row"
  BY DEF AtRow, ReadCall
<1>25. AtGot => call.at = "got"
  BY DEF AtGot, ReadCall
<1>26. AtScan => call.at = "scan"
  BY DEF AtScan, ReadCall
<1>27. AtRows => call.at = "rows"
  BY DEF AtRows, ReadCall
<1>28. AtRead => call.at = "read"
  BY DEF AtRead, ReadCall
<1>29. AtChunk => call.at = "chunk"
  BY DEF AtChunk, ReadCall
<1>30. AtAnswer => call.at = "answer"
  BY DEF AtAnswer, ReadCall
<1>31. AtTrapped => call.at = "trapped"
  BY DEF AtTrapped
<1> QED
  BY <1>1, <1>2, <1>3, <1>4, <1>5, <1>6, <1>7, <1>8, <1>9, <1>10, <1>11, <1>12,
     <1>13, <1>14, <1>15, <1>16, <1>17, <1>18, <1>19, <1>20, <1>21, <1>22, <1>23, <1>24,
     <1>25, <1>26, <1>27, <1>28, <1>29, <1>30, <1>31
  DEF PlacesOfCall

(* The same of the state after a step. *)
LEMMA PlaceOfCallAfter == PlacesOfCall'
BY PlaceOfCall, PTL

(* delete begins by fetching the page of the row id. *)
LEMMA StartDeleteStep ==
    ASSUME Untouched', Pinning({})', NEW t \in Existing, NEW f, before' = f, f.tables = tables,
           f.live = live, tables' = tables, NEW p \in live, NEW s, StartDelete(t, p, s)
    PROVE  AtTuple'
<1>1. t \in TableNames /\ before'.tables[t] # Absent /\ tables' = before'.tables
  BY DEF Existing
<1>2. p \in before'.live
  OBVIOUS
<1>3. DeleteCall("tuple", t, p, s, << >>, NoPage, NoPage)'
  BY DEF StartDelete, DeleteCall
<1> QED
  BY <1>1, <1>2, <1>3 DEF AtTuple

(* get begins by fetching the page of the row id. *)
LEMMA StartGetStep ==
    ASSUME Untouched', Pinning({})', NEW t \in Existing, NEW f, before' = f, f.tables = tables,
           f.live = live, f.page = page, f.pins = pins, tables' = tables,
           NEW p \in live, NEW s, HasTuple(p, s) \/ pins[p] < MaxPins,
           StartRead("get", t, p, s)
    PROVE  AtRow'
<1>1. Reader(t)'
  BY DEF Existing, Reader
<1>2. p \in before'.live
  OBVIOUS
<1>3. (HasTupleIn(before, p, s) \/ before.pins[p] < MaxPins)'
  BY DEF HasTuple, IsDataPage, HasTupleIn, HasSlots
<1>4. ReadCall("row", "get", t, p, s, << >>, << >>, p, << >>)'
  BY DEF StartRead, ReadCall
<1> QED
  BY <1>1, <1>2, <1>3, <1>4 DEF AtRow

(* A step that changes no variable keeps the parts the places are made of. *)
LEMMA StillPinning ==
    ASSUME UNCHANGED <<live, page, pins, tables, call, before>>
    PROVE  /\ \A S : Pinning(S) => Pinning(S)'
           /\ \A q : ReachedIn(before, q) => ReachedIn(before, q)'
           /\ \A q : Linkable(q) => Linkable(q)'
           /\ Untouched => Untouched'
           /\ \A t, c : TablePath(before, t, c) => TablePath(before, t, c)'
<1>1. before' = before /\ pins' = pins /\ live' = live /\ page' = page
  OBVIOUS
<1>2. \A S : Pinning(S) => Pinning(S)'
  BY <1>1 DEF Pinning
<1>3. \A q : ReachedIn(before, q) => ReachedIn(before, q)'
  BY <1>1 DEF ReachedIn, FullIn, PinnedIn
<1>4. \A q : Linkable(q) => Linkable(q)'
  BY <1>1 DEF Linkable, PinnedIn
<1>5. Untouched => Untouched'
  BY <1>1 DEF Untouched
<1>6. \A t, c : TablePath(before, t, c) => TablePath(before, t, c)'
  BY <1>1 DEF TablePath, PathIn, HasSlots
<1> QED
  BY <1>2, <1>3, <1>4, <1>5, <1>6

(* A step that changes no variable stays at its place of create_table. *)
LEMMA StillCreating ==
    ASSUME UNCHANGED <<live, page, pins, tables, call, before>>, Creating
    PROVE  Creating'
<1>1. AtNew => AtNew'
  BY StillPinning DEF AtNew
<1>2. AtMade => AtMade'
  BY Zenon, StillPinning DEF AtMade, Kept, FullIn, PinnedIn
<1> QED
  BY <1>1, <1>2 DEF Creating

(* A step that changes no variable stays at its place of drop_table. *)
LEMMA StillDropping ==
    ASSUME UNCHANGED <<live, page, pins, tables, call, before>>, DroppingTable
    PROVE  DroppingTable'
<1>1. \A t, c, ids : Listing(t, c, ids) => Listing(t, c, ids)'
  BY StillPinning DEF Listing
<1>2. ASSUME NEW t, NEW c, NEW ids, NEW m, Dropping(t, c, ids, m)
      PROVE  Dropping(t, c, ids, m)'
  <2>1. PinnedIn(before)' = PinnedIn(before)
    BY DEF PinnedIn
  <2>2. \A q : ReachedIn(before, q)' <=> ReachedIn(before, q)
    BY <2>1 DEF ReachedIn, FullIn
  <2>3. TablePath(before, t, c)' /\ Pinning({})'
    BY <1>2, StillPinning DEF Dropping
  <2> QED
    BY <1>2, <2>1, <2>2, <2>3 DEF Dropping, Kept
<1>3. AtList => AtList'
  BY Zenon, <1>1, StillPinning DEF AtList
<1>4. AtListed => AtListed'
  BY Zenon, <1>1, StillPinning DEF AtListed
<1>5. AtDrop => AtDrop'
  BY Zenon, <1>2, StillPinning DEF AtDrop
<1> QED
  BY <1>3, <1>4, <1>5 DEF DroppingTable

(* A step that changes no variable stays at its place of insert. *)
LEMMA StillInserting ==
    ASSUME UNCHANGED <<live, page, pins, tables, call, before>>, Inserting
    PROVE  Inserting'
<1>1. \A t, c, row, ps, extra, changed :
        Spilling(t, c, row, ps, extra, FALSE, changed)
            => Spilling(t, c, row, ps, extra, FALSE, changed)'
  BY Zenon, SpillingStays
<1>2. \A t, c, row, ps, extra, changed :
        Spilling(t, c, row, ps, extra, TRUE, changed)
            => Spilling(t, c, row, ps, extra, TRUE, changed)'
  BY Zenon, SpillingStays
<1>3. \A c, row, k : Passed(c, row, k) => Passed(c, row, k)'
  BY DEF Passed, ReachedIn, FullIn, PinnedIn
<1>4. \A at, t, row, ps, cur, new :
        InsertCall(at, t, row, ps, cur, new) => InsertCall(at, t, row, ps, cur, new)'
  BY DEF InsertCall
<1>5. \A t, c, row, ps, last, new, changed :
        Extending(t, c, row, ps, last, new, changed)
            => Extending(t, c, row, ps, last, new, changed)'
  <2> SUFFICES ASSUME NEW t, NEW c, NEW row, NEW ps, NEW last, NEW new, NEW changed,
                       Extending(t, c, row, ps, last, new, changed)
                PROVE  Extending(t, c, row, ps, last, new, changed)'
    OBVIOUS
  <2>1. (Spilling(t, c, row, ps, {new}, FALSE, changed) /\ Passed(c, row, Len(c)))'
    BY <1>1, <1>3 DEF Extending
  <2> QED
    BY <2>1 DEF Extending
<1>6. ASSUME AtSpill PROVE AtSpill'
  <2>1. PICK t, c, row, ps, cur :
            /\ Spilling(t, c, row, ps, {}, FALSE, {})
            /\ Len(ps) < Len(Pieces(row)) /\ Pinning({})
            /\ InsertCall("spill", t, row, ps, cur, NoPage)
    BY <1>6 DEF AtSpill
  <2>2. (/\ Spilling(t, c, row, ps, {}, FALSE, {})
         /\ Len(ps) < Len(Pieces(row)) /\ Pinning({})
         /\ InsertCall("spill", t, row, ps, cur, NoPage))'
    BY <2>1, <1>1, <1>2, <1>3, <1>4, <1>5, StillPinning
  <2> QED
    BY <2>2 DEF AtSpill
<1>7. ASSUME AtFill PROVE AtFill'
  <2>1. PICK t, c, row, ps, cur :
            /\ Spilling(t, c, row, ps, {cur}, FALSE, {})
            /\ Len(ps) < Len(Pieces(row)) /\ Pinning({cur})
            /\ InsertCall("fill", t, row, ps, cur, NoPage)
    BY <1>7 DEF AtFill
  <2>2. (/\ Spilling(t, c, row, ps, {cur}, FALSE, {})
         /\ Len(ps) < Len(Pieces(row)) /\ Pinning({cur})
         /\ InsertCall("fill", t, row, ps, cur, NoPage))'
    BY <2>1, <1>1, <1>2, <1>3, <1>4, <1>5, StillPinning
  <2> QED
    BY <2>2 DEF AtFill
<1>8. ASSUME AtChain PROVE AtChain'
  <2>1. PICK t, c, row, ps, cur :
            /\ Spilling(t, c, row, ps, {}, TRUE, {}) /\ Loose(row, ps) /\ Pinning({})
            /\ InsertCall("chain", t, row, ps, cur, NoPage)
    BY <1>8 DEF AtChain
  <2>2. (/\ Spilling(t, c, row, ps, {}, TRUE, {}) /\ Loose(row, ps) /\ Pinning({})
         /\ InsertCall("chain", t, row, ps, cur, NoPage))'
    BY <2>1, <1>1, <1>2, <1>3, <1>4, <1>5, StillPinning
  <2> QED
    BY <2>2 DEF AtChain
<1>9. ASSUME AtChained PROVE AtChained'
  <2>1. PICK t, c, row, ps, cur :
            /\ Spilling(t, c, row, ps, {}, TRUE, {}) /\ Loose(row, ps)
            /\ Pinning({ps[Len(ps) - 1]})
            /\ InsertCall("chained", t, row, ps, cur, NoPage)
    BY <1>9 DEF AtChained
  <2>2. (/\ Spilling(t, c, row, ps, {}, TRUE, {}) /\ Loose(row, ps)
         /\ Pinning({ps[Len(ps) - 1]})
         /\ InsertCall("chained", t, row, ps, cur, NoPage))'
    BY <2>1, <1>1, <1>2, <1>3, <1>4, <1>5, StillPinning
  <2> QED
    BY <2>2 DEF AtChained
<1>10. ASSUME AtSearch PROVE AtSearch'
  <2>1. PICK t, c, row, ps, k :
            /\ Spilling(t, c, row, ps, {}, FALSE, {}) /\ Len(ps) = Len(Pieces(row))
            /\ k \in 1 .. Len(c) /\ Passed(c, row, k - 1) /\ Pinning({})
            /\ InsertCall("search", t, row, ps, c[k], NoPage)
    BY <1>10 DEF AtSearch
  <2>2. (/\ Spilling(t, c, row, ps, {}, FALSE, {}) /\ Len(ps) = Len(Pieces(row))
         /\ k \in 1 .. Len(c) /\ Passed(c, row, k - 1) /\ Pinning({})
         /\ InsertCall("search", t, row, ps, c[k], NoPage))'
    BY <2>1, <1>1, <1>2, <1>3, <1>4, <1>5, StillPinning
  <2> QED
    BY <2>2 DEF AtSearch
<1>11. ASSUME AtLook PROVE AtLook'
  <2>1. PICK t, c, row, ps, k :
            /\ Spilling(t, c, row, ps, {}, FALSE, {}) /\ Len(ps) = Len(Pieces(row))
            /\ k \in 1 .. Len(c) /\ Passed(c, row, k - 1) /\ ReachedIn(before, c[k])
            /\ Pinning({c[k]})
            /\ InsertCall("look", t, row, ps, c[k], NoPage)
    BY <1>11 DEF AtLook
  <2>2. (/\ Spilling(t, c, row, ps, {}, FALSE, {}) /\ Len(ps) = Len(Pieces(row))
         /\ k \in 1 .. Len(c) /\ Passed(c, row, k - 1) /\ ReachedIn(before, c[k])
         /\ Pinning({c[k]})
         /\ InsertCall("look", t, row, ps, c[k], NoPage))'
    BY <2>1, <1>1, <1>2, <1>3, <1>4, <1>5, StillPinning
  <2> QED
    BY <2>2 DEF AtLook
<1>12. ASSUME AtExtend PROVE AtExtend'
  <2>1. PICK t, c, row, ps, last :
            /\ Spilling(t, c, row, ps, {}, FALSE, {}) /\ Len(ps) = Len(Pieces(row))
            /\ Passed(c, row, Len(c)) /\ Pinning({}) /\ last = c[Len(c)]
            /\ InsertCall("extend", t, row, ps, last, NoPage)
    BY <1>12 DEF AtExtend
  <2>2. (/\ Spilling(t, c, row, ps, {}, FALSE, {}) /\ Len(ps) = Len(Pieces(row))
         /\ Passed(c, row, Len(c)) /\ Pinning({}) /\ last = c[Len(c)]
         /\ InsertCall("extend", t, row, ps, last, NoPage))'
    BY <2>1, <1>1, <1>2, <1>3, <1>4, <1>5, StillPinning
  <2> QED
    BY <2>2 DEF AtExtend
<1>13. ASSUME AtJoin PROVE AtJoin'
  <2>1. PICK t, c, row, ps, last, new :
            /\ Extending(t, c, row, ps, last, new, {}) /\ Pinning({new})
            /\ InsertCall("join", t, row, ps, last, new)
    BY <1>13 DEF AtJoin
  <2>2. (/\ Extending(t, c, row, ps, last, new, {}) /\ Pinning({new})
         /\ InsertCall("join", t, row, ps, last, new))'
    BY <2>1, <1>1, <1>2, <1>3, <1>4, <1>5, StillPinning
  <2> QED
    BY <2>2 DEF AtJoin
<1>14. ASSUME AtJoined PROVE AtJoined'
  <2>1. PICK t, c, row, ps, last, new :
            /\ Extending(t, c, row, ps, last, new, {}) /\ Linkable(last)
            /\ Pinning({new, last})
            /\ InsertCall("joined", t, row, ps, last, new)
    BY <1>14 DEF AtJoined
  <2>2. (/\ Extending(t, c, row, ps, last, new, {}) /\ Linkable(last)
         /\ Pinning({new, last})
         /\ InsertCall("joined", t, row, ps, last, new))'
    BY <2>1, <1>1, <1>2, <1>3, <1>4, <1>5, StillPinning
  <2> QED
    BY <2>2 DEF AtJoined
<1>15. ASSUME AtStore PROVE AtStore'
  <2>1. PICK t, c, row, ps, last, new :
            /\ Extending(t, c, row, ps, last, new, {last}) /\ Linkable(last)
            /\ page[last] = [before.page[last] EXCEPT !.next = new]
            /\ Pinning({new})
            /\ InsertCall("store", t, row, ps, last, new)
    BY <1>15 DEF AtStore
  <2>2. (/\ Extending(t, c, row, ps, last, new, {last}) /\ Linkable(last)
         /\ page[last] = [before.page[last] EXCEPT !.next = new]
         /\ Pinning({new})
         /\ InsertCall("store", t, row, ps, last, new))'
    BY <2>1, <1>1, <1>2, <1>3, <1>4, <1>5, StillPinning
  <2> QED
    BY <2>2 DEF AtStore
<1>16. AtTrapped => AtTrapped'
  BY <1>1, <1>2, <1>3, <1>4, <1>5, StillPinning DEF AtTrapped, Pinned
<1> QED
  BY <1>6, <1>7, <1>8, <1>9, <1>10, <1>11, <1>12, <1>13, <1>14, <1>15, <1>16 DEF Inserting

(* A step that changes no variable stays at its place of delete. *)
LEMMA StillDeletingTuple ==
    ASSUME UNCHANGED <<live, page, pins, tables, call, before>>, DeletingTuple
    PROVE  DeletingTuple'
<1>1. \A t, p, s, Q, D : Deleting(t, p, s, Q, D) => Deleting(t, p, s, Q, D)'
  <2> SUFFICES ASSUME NEW t, NEW p, NEW s, NEW Q, NEW D, Deleting(t, p, s, Q, D)
                PROVE  Deleting(t, p, s, Q, D)'
    OBVIOUS
  <2>1. \A d, h : PointerPath(before, d, h) => PointerPath(before, d, h)'
    BY DEF PointerPath, PathIn, HasSlots
  <2>2. ReachedIn(before, p)'
    BY StillPinning DEF Deleting
  <2>3. /\ HasTupleIn(before, p, s)' <=> HasTupleIn(before, p, s)
        /\ TupleIn(before, p, s)' = TupleIn(before, p, s)
    BY DEF HasTupleIn, HasSlots, TupleIn
  <2> QED
    BY <2>1, <2>2, <2>3 DEF Deleting
<1>2. \A S : Freed(S) => Freed(S)'
  BY DEF Freed, Kept, FullIn, PinnedIn
<1>3. \A at, t, p, s, todo, cur, next :
        DeleteCall(at, t, p, s, todo, cur, next) => DeleteCall(at, t, p, s, todo, cur, next)'
  BY DEF DeleteCall
<1>4. ASSUME AtTuple PROVE AtTuple'
  <2>1. PICK t, p, s :
            /\ t \in TableNames /\ before.tables[t] # Absent /\ tables = before.tables
            /\ p \in before.live /\ Untouched /\ Pinning({})
            /\ DeleteCall("tuple", t, p, s, << >>, NoPage, NoPage)
    BY <1>4 DEF AtTuple
  <2>2. (/\ t \in TableNames /\ before.tables[t] # Absent /\ tables = before.tables
         /\ p \in before.live /\ Untouched /\ Pinning({})
         /\ DeleteCall("tuple", t, p, s, << >>, NoPage, NoPage))'
    BY <2>1, <1>1, <1>2, <1>3, StillPinning
  <2> QED
    BY <2>2 DEF AtTuple
<1>5. ASSUME AtRemove PROVE AtRemove'
  <2>1. PICK t, p, s, Q, D, cur, next :
            /\ Deleting(t, p, s, Q, D) /\ Freed(Behind(D, Len(Q), 1)) /\ Pinning({p})
            /\ DeleteCall("remove", t, p, s, << >>, cur, next)
    BY <1>5 DEF AtRemove
  <2>2. (/\ Deleting(t, p, s, Q, D) /\ Freed(Behind(D, Len(Q), 1)) /\ Pinning({p})
         /\ DeleteCall("remove", t, p, s, << >>, cur, next))'
    BY <2>1, <1>1, <1>2, <1>3, StillPinning
  <2> QED
    BY <2>2 DEF AtRemove
<1>6. ASSUME AtRelease PROVE AtRelease'
  <2>1. PICK t, p, s, Q, D, k, todo, cur, next :
            /\ Deleting(t, p, s, Q, D) /\ Freed(Behind(D, k, 1)) /\ Pinning({p})
            /\ Rest(Q, k, todo) /\ todo # << >>
            /\ DeleteCall("release", t, p, s, todo, cur, next)
    BY <1>6 DEF AtRelease
  <2>2. (/\ Deleting(t, p, s, Q, D) /\ Freed(Behind(D, k, 1)) /\ Pinning({p})
         /\ Rest(Q, k, todo) /\ todo # << >>
         /\ DeleteCall("release", t, p, s, todo, cur, next))'
    BY <2>1, <1>1, <1>2, <1>3, StillPinning
  <2> QED
    BY <2>2 DEF AtRelease
<1>7. ASSUME AtFree PROVE AtFree'
  <2>1. PICK t, p, s, Q, D, k, j, todo, next :
            /\ Deleting(t, p, s, Q, D) /\ Freed(Behind(D, k, j)) /\ Pinning({})
            /\ Rest(Q, k, todo) /\ todo # << >> /\ j \in 1 .. Len(D[k + 1])
            /\ DeleteCall("free", t, p, s, todo, D[k + 1][j], next)
    BY <1>7 DEF AtFree
  <2>2. (/\ Deleting(t, p, s, Q, D) /\ Freed(Behind(D, k, j)) /\ Pinning({})
         /\ Rest(Q, k, todo) /\ todo # << >> /\ j \in 1 .. Len(D[k + 1])
         /\ DeleteCall("free", t, p, s, todo, D[k + 1][j], next))'
    BY <2>1, <1>1, <1>2, <1>3, StillPinning
  <2> QED
    BY <2>2 DEF AtFree
<1>8. ASSUME AtFreeing PROVE AtFreeing'
  <2>1. PICK t, p, s, Q, D, k, j, todo, next :
            /\ Deleting(t, p, s, Q, D) /\ Freed(Behind(D, k, j)) /\ Pinning({D[k + 1][j]})
            /\ Rest(Q, k, todo) /\ todo # << >> /\ j \in 1 .. Len(D[k + 1])
            /\ ReachedIn(before, D[k + 1][j])
            /\ DeleteCall("freeing", t, p, s, todo, D[k + 1][j], next)
    BY <1>8 DEF AtFreeing
  <2>2. (/\ Deleting(t, p, s, Q, D) /\ Freed(Behind(D, k, j)) /\ Pinning({D[k + 1][j]})
         /\ Rest(Q, k, todo) /\ todo # << >> /\ j \in 1 .. Len(D[k + 1])
         /\ ReachedIn(before, D[k + 1][j])
         /\ DeleteCall("freeing", t, p, s, todo, D[k + 1][j], next))'
    BY <2>1, <1>1, <1>2, <1>3, StillPinning
  <2> QED
    BY <2>2 DEF AtFreeing
<1>9. ASSUME AtErase PROVE AtErase'
  <2>1. PICK t, p, s, Q, D, k, j, todo :
            /\ Deleting(t, p, s, Q, D) /\ Freed(Behind(D, k, j)) /\ Pinning({})
            /\ Rest(Q, k, todo) /\ todo # << >> /\ j \in 1 .. Len(D[k + 1])
            /\ ReachedIn(before, D[k + 1][j])
            /\ DeleteCall("erase", t, p, s, todo, D[k + 1][j],
                          before.page[D[k + 1][j]].next)
    BY <1>9 DEF AtErase
  <2>2. (/\ Deleting(t, p, s, Q, D) /\ Freed(Behind(D, k, j)) /\ Pinning({})
         /\ Rest(Q, k, todo) /\ todo # << >> /\ j \in 1 .. Len(D[k + 1])
         /\ ReachedIn(before, D[k + 1][j])
         /\ DeleteCall("erase", t, p, s, todo, D[k + 1][j],
                       before.page[D[k + 1][j]].next))'
    BY <2>1, <1>1, <1>2, <1>3, StillPinning
  <2> QED
    BY <2>2 DEF AtErase
<1>10. ASSUME AtRefetch PROVE AtRefetch'
  <2>1. PICK t, p, s, Q, D, k, todo, cur, next :
            /\ Deleting(t, p, s, Q, D) /\ Freed(Behind(D, k + 1, 1)) /\ Pinning({})
            /\ Rest(Q, k, todo) /\ todo # << >>
            /\ DeleteCall("refetch", t, p, s, todo, cur, next)
    BY <1>10 DEF AtRefetch
  <2>2. (/\ Deleting(t, p, s, Q, D) /\ Freed(Behind(D, k + 1, 1)) /\ Pinning({})
         /\ Rest(Q, k, todo) /\ todo # << >>
         /\ DeleteCall("refetch", t, p, s, todo, cur, next))'
    BY <2>1, <1>1, <1>2, <1>3, StillPinning
  <2> QED
    BY <2>2 DEF AtRefetch
<1> QED
  BY <1>4, <1>5, <1>6, <1>7, <1>8, <1>9, <1>10 DEF DeletingTuple

(* A step that changes no variable stays at its place of get and scan. *)
LEMMA StillReadingRows ==
    ASSUME UNCHANGED <<live, page, pins, tables, call, before>>, ReadingRows
    PROVE  ReadingRows'
<1>1. /\ \A t : Reader(t) => Reader(t)'
      /\ \A p, s : HasTupleIn(before, p, s) => HasTupleIn(before, p, s)'
      /\ \A t, c, k, R : Scanning(t, c, k, R) => Scanning(t, c, k, R)'
      /\ \A R, todo, d, j, data :
                 ReadUpTo(R, todo, d, j, data) => ReadUpTo(R, todo, d, j, data)'
  BY StillReading
<1>2. \A op, t, p, s, R, rows, todo :
        Reading(op, t, p, s, R, rows, todo) => Reading(op, t, p, s, R, rows, todo)'
  BY StillReading DEF Reading
<1>3. \A at, op, t, p, s, rows, todo, cur, data :
        ReadCall(at, op, t, p, s, rows, todo, cur, data)
            => ReadCall(at, op, t, p, s, rows, todo, cur, data)'
  BY DEF ReadCall
<1>4. ASSUME AtRow PROVE AtRow'
  <2>1. PICK t, p, s :
            /\ Reader(t) /\ p \in before.live /\ Pinning({})
            /\ HasTupleIn(before, p, s) \/ before.pins[p] < MaxPins
            /\ ReadCall("row", "get", t, p, s, << >>, << >>, p, << >>)
    BY <1>4 DEF AtRow
  <2>2. (/\ Reader(t) /\ p \in before.live /\ Pinning({})
         /\ HasTupleIn(before, p, s) \/ before.pins[p] < MaxPins
         /\ ReadCall("row", "get", t, p, s, << >>, << >>, p, << >>))'
    BY <2>1, <1>1, <1>2, <1>3, StillPinning
  <2> QED
    BY <2>2 DEF AtRow
<1>5. ASSUME AtGot PROVE AtGot'
  <2>1. PICK t, p, s :
            /\ Reader(t) /\ p \in before.live /\ ReachedIn(before, p) /\ Pinning({p})
            /\ HasTupleIn(before, p, s) \/ before.pins[p] < MaxPins
            /\ ReadCall("got", "get", t, p, s, << >>, << >>, p, << >>)
    BY <1>5 DEF AtGot
  <2>2. (/\ Reader(t) /\ p \in before.live /\ ReachedIn(before, p) /\ Pinning({p})
         /\ HasTupleIn(before, p, s) \/ before.pins[p] < MaxPins
         /\ ReadCall("got", "get", t, p, s, << >>, << >>, p, << >>))'
    BY <2>1, <1>1, <1>2, <1>3, StillPinning
  <2> QED
    BY <2>2 DEF AtGot
<1>6. ASSUME AtScan PROVE AtScan'
  <2>1. PICK t, c, k, R, p, s :
            /\ Scanning(t, c, k, R) /\ Pinning({})
            /\ ReadCall("scan", "scan", t, p, s, R, << >>, c[k], << >>)
    BY <1>6 DEF AtScan
  <2>2. (/\ Scanning(t, c, k, R) /\ Pinning({})
         /\ ReadCall("scan", "scan", t, p, s, R, << >>, c[k], << >>))'
    BY <2>1, <1>1, <1>2, <1>3, StillPinning
  <2> QED
    BY <2>2 DEF AtScan
<1>7. ASSUME AtRows PROVE AtRows'
  <2>1. PICK t, c, k, R, p, s :
            /\ Scanning(t, c, k, R) /\ ReachedIn(before, c[k]) /\ Pinning({c[k]})
            /\ ReadCall("rows", "scan", t, p, s, R, << >>, c[k], << >>)
    BY <1>7 DEF AtRows
  <2>2. (/\ Scanning(t, c, k, R) /\ ReachedIn(before, c[k]) /\ Pinning({c[k]})
         /\ ReadCall("rows", "scan", t, p, s, R, << >>, c[k], << >>))'
    BY <2>1, <1>1, <1>2, <1>3, StillPinning
  <2> QED
    BY <2>2 DEF AtRows
<1>8. ASSUME AtRead PROVE AtRead'
  <2>1. PICK op, t, p, s, R, rows, todo, d, j, data :
            /\ Reading(op, t, p, s, R, rows, todo) /\ ReadUpTo(R, todo, d, j, data)
            /\ Pinning({})
            /\ ReadCall("read", op, t, p, s, rows, todo, d[j], data)
    BY <1>8 DEF AtRead
  <2>2. (/\ Reading(op, t, p, s, R, rows, todo) /\ ReadUpTo(R, todo, d, j, data)
         /\ Pinning({})
         /\ ReadCall("read", op, t, p, s, rows, todo, d[j], data))'
    BY <2>1, <1>1, <1>2, <1>3, StillPinning
  <2> QED
    BY <2>2 DEF AtRead
<1>9. ASSUME AtChunk PROVE AtChunk'
  <2>1. PICK op, t, p, s, R, rows, todo, d, j, data :
            /\ Reading(op, t, p, s, R, rows, todo) /\ ReadUpTo(R, todo, d, j, data)
            /\ ReachedIn(before, d[j]) /\ Pinning({d[j]})
            /\ ReadCall("chunk", op, t, p, s, rows, todo, d[j], data)
    BY <1>9 DEF AtChunk
  <2>2. (/\ Reading(op, t, p, s, R, rows, todo) /\ ReadUpTo(R, todo, d, j, data)
         /\ ReachedIn(before, d[j]) /\ Pinning({d[j]})
         /\ ReadCall("chunk", op, t, p, s, rows, todo, d[j], data))'
    BY <2>1, <1>1, <1>2, <1>3, StillPinning
  <2> QED
    BY <2>2 DEF AtChunk
<1>10. ASSUME AtAnswer PROVE AtAnswer'
  <2>1. PICK op, t, p, s, R, rows, cur, data :
            /\ Reading(op, t, p, s, R, rows, << >>) /\ Pinning({})
            /\ ReadCall("answer", op, t, p, s, rows, << >>, cur, data)
    BY <1>10 DEF AtAnswer
  <2>2. (/\ Reading(op, t, p, s, R, rows, << >>) /\ Pinning({})
         /\ ReadCall("answer", op, t, p, s, rows, << >>, cur, data))'
    BY <2>1, <1>1, <1>2, <1>3, StillPinning
  <2> QED
    BY <2>2 DEF AtAnswer
<1> QED
  BY <1>4, <1>5, <1>6, <1>7, <1>8, <1>9, <1>10 DEF ReadingRows

-----------------------------------------------------------------------------

(* The pins, place by place. *)

PinsSound == Pinned \subseteq live /\ \A p \in Pages : pins[p] \in 0 .. MaxPins + 2

(* The pages S that the call holds, and those pinned before it. *)
LEMMA HeldPages ==
    ASSUME HeapShape, StoreSound(before), NEW S \in SUBSET live, Pinning(S),
           PinnedIn(before) \subseteq live
    PROVE  PinsSound
<1>1. StoreShape(before) /\ S \in SUBSET Pages
  BY DEF StoreSound, HeapShape
<1>2. Pinned = PinnedIn(before) \cup S /\ pins \in [Pages -> 0 .. MaxPins + 1]
  BY <1>1, PinnedPages
<1>3. MaxPins \in Nat
  BY EngineAssumption
<1>4. \A p \in Pages : pins[p] \in 0 .. MaxPins + 1
  BY <1>2
<1>5. \A p \in Pages : pins[p] \in 0 .. MaxPins + 2
  BY <1>3, <1>4
<1> QED
  BY <1>2, <1>5 DEF PinsSound

(* The pages of a table are pages of the store. *)
LEMMA PathLive ==
    ASSUME StoreSound(before), NEW t, NEW c, TablePath(before, t, c)
    PROVE  Len(c) \in Nat \ {0} /\ \A i \in 1 .. Len(c) : c[i] \in before.live
BY DEF TablePath, PathIn

(* During create_table only pages of the store are pinned, none too often. *)
LEMMA CreatingPins ==
    ASSUME HeapShape, StoreSound(before), Creating
    PROVE  PinsSound
<1>1. PinnedIn(before) \subseteq before.live
  BY DEF StoreSound, StoreShape
<1>2. CASE AtNew
  <2>1. live = before.live /\ Pinning({})
    BY <1>2 DEF AtNew, Untouched
  <2> QED
    BY <1>1, <2>1, HeldPages
<1>3. CASE AtMade
  <2>1. PICK p : live = before.live \cup {p} /\ Pinning({p})
    BY <1>3 DEF AtMade
  <2> QED
    BY <1>1, <2>1, HeldPages
<1> QED
  BY <1>2, <1>3 DEF Creating

(* The pins during drop_table are sound. *)
LEMMA DroppingPins ==
    ASSUME HeapShape, StoreSound(before), DroppingTable
    PROVE  PinsSound
<1>1. PinnedIn(before) \subseteq before.live
  BY DEF StoreSound, StoreShape
<1>2. CASE AtList
  <2>1. live = before.live /\ Pinning({})
    BY <1>2 DEF AtList, Listing, Untouched
  <2> QED
    BY <1>1, <2>1, HeldPages
<1>3. CASE AtListed
  <2>1. PICK t, c, ids, k :
            Listing(t, c, ids) /\ k \in 1 .. Len(c) /\ Pinning({c[k]})
    BY <1>3 DEF AtListed
  <2>2. live = before.live /\ c[k] \in before.live
    BY <2>1, PathLive DEF Listing, Untouched
  <2> QED
    BY <1>1, <2>1, <2>2, HeldPages
<1>4. CASE AtDrop
  <2>1. PICK t, c, ids, m : Dropping(t, c, ids, m)
    BY <1>4 DEF AtDrop
  <2>2. PinnedIn(before) \subseteq live /\ Pinning({})
    BY <1>1, <2>1 DEF Dropping
  <2> QED
    BY <2>2, HeldPages
<1> QED
  BY <1>2, <1>3, <1>4 DEF DroppingTable

(* The pins during insert are sound. *)
LEMMA InsertingPins ==
    ASSUME HeapShape, StoreSound(before), Inserting
    PROVE  PinsSound
<1>1. PinnedIn(before) \subseteq before.live
  BY DEF StoreSound, StoreShape
<1>2. ASSUME NEW t, NEW c, NEW row, NEW ps, NEW extra, NEW loose, NEW changed,
             Spilling(t, c, row, ps, extra, loose, changed)
      PROVE  /\ PinnedIn(before) \subseteq live /\ extra \subseteq live
             /\ before.live \subseteq live /\ Len(ps) \in Nat
             /\ \A i \in 1 .. Len(ps) : ps[i] \in live
             /\ Len(c) \in Nat \ {0} /\ \A i \in 1 .. Len(c) : c[i] \in live
  <2>1. live = before.live \cup ToSet(ps) \cup extra /\ TablePath(before, t, c)
    BY <1>2 DEF Spilling
  <2>2. StoreShape(before)
    BY DEF StoreSound
  <2>3. Len(ps) \in Nat /\ \A i \in 1 .. Len(ps) : ps[i] \in live
    BY <1>2, <2>2, SpillFacts
  <2> QED
    BY <1>1, <2>1, <2>3, PathLive
<1>3. CASE AtSpill
  <2>1. PICK t, c, row, ps : Spilling(t, c, row, ps, {}, FALSE, {}) /\ Pinning({})
    BY <1>3 DEF AtSpill
  <2>2. PinnedIn(before) \subseteq live
    BY <1>2, <2>1
  <2> QED
    BY <2>1, <2>2, HeldPages
<1>4. CASE AtFill
  <2>1. PICK t, c, row, ps, cur :
            Spilling(t, c, row, ps, {cur}, FALSE, {}) /\ Pinning({cur})
    BY <1>4 DEF AtFill
  <2>2. PinnedIn(before) \subseteq live /\ {cur} \subseteq live
    BY <1>2, <2>1
  <2> QED
    BY <2>1, <2>2, HeldPages
<1>5. CASE AtChain
  <2>1. PICK t, c, row, ps : Spilling(t, c, row, ps, {}, TRUE, {}) /\ Pinning({})
    BY <1>5 DEF AtChain
  <2>2. PinnedIn(before) \subseteq live
    BY <1>2, <2>1
  <2> QED
    BY <2>1, <2>2, HeldPages
<1>6. CASE AtChained
  <2>1. PICK t, c, row, ps :
            /\ Spilling(t, c, row, ps, {}, TRUE, {}) /\ Len(ps) > 1
            /\ Pinning({ps[Len(ps) - 1]})
    BY <1>6 DEF AtChained, Loose
  <2>2. /\ PinnedIn(before) \subseteq live /\ Len(ps) \in Nat
        /\ \A i \in 1 .. Len(ps) : ps[i] \in live
    BY <1>2, <2>1
  <2>3. Len(ps) - 1 \in 1 .. Len(ps)
    BY <2>1, <2>2
  <2> QED
    BY <2>1, <2>2, <2>3, HeldPages
<1>7. CASE AtSearch
  <2>1. PICK t, c, row, ps : Spilling(t, c, row, ps, {}, FALSE, {}) /\ Pinning({})
    BY <1>7 DEF AtSearch
  <2>2. PinnedIn(before) \subseteq live
    BY <1>2, <2>1
  <2> QED
    BY <2>1, <2>2, HeldPages
<1>8. CASE AtLook
  <2>1. PICK t, c, row, ps, k :
            /\ Spilling(t, c, row, ps, {}, FALSE, {}) /\ k \in 1 .. Len(c)
            /\ Pinning({c[k]})
    BY <1>8 DEF AtLook
  <2>2. PinnedIn(before) \subseteq live /\ c[k] \in live
    BY <1>2, <2>1
  <2> QED
    BY <2>1, <2>2, HeldPages
<1>9. CASE AtExtend
  <2>1. PICK t, c, row, ps : Spilling(t, c, row, ps, {}, FALSE, {}) /\ Pinning({})
    BY <1>9 DEF AtExtend
  <2>2. PinnedIn(before) \subseteq live
    BY <1>2, <2>1
  <2> QED
    BY <2>1, <2>2, HeldPages
<1>10. CASE AtJoin
  <2>1. PICK t, c, row, ps, new :
            Spilling(t, c, row, ps, {new}, FALSE, {}) /\ Pinning({new})
    BY <1>10 DEF AtJoin, Extending
  <2>2. PinnedIn(before) \subseteq live /\ {new} \subseteq live
    BY <1>2, <2>1
  <2> QED
    BY <2>1, <2>2, HeldPages
<1>11. CASE AtJoined
  <2>1. PICK t, c, row, ps, last, new :
            /\ Spilling(t, c, row, ps, {new}, FALSE, {}) /\ last = c[Len(c)]
            /\ Pinning({new, last})
    BY <1>11 DEF AtJoined, Extending
  <2>2. /\ PinnedIn(before) \subseteq live /\ {new} \subseteq live
        /\ Len(c) \in Nat \ {0} /\ \A i \in 1 .. Len(c) : c[i] \in live
    BY <1>2, <2>1
  <2>3. {new, last} \subseteq live
    BY <2>1, <2>2
  <2> QED
    BY <2>1, <2>2, <2>3, HeldPages
<1>12. CASE AtStore
  <2>1. PICK t, c, row, ps, last, new :
            Spilling(t, c, row, ps, {new}, FALSE, {last}) /\ Pinning({new})
    BY <1>12 DEF AtStore, Extending
  <2>2. PinnedIn(before) \subseteq live /\ {new} \subseteq live
    BY <1>2, <2>1
  <2> QED
    BY <2>1, <2>2, HeldPages
<1>13. CASE AtTrapped
  BY <1>13 DEF AtTrapped, PinsSound
<1> QED
  BY <1>3, <1>4, <1>5, <1>6, <1>7, <1>8, <1>9, <1>10, <1>11, <1>12, <1>13 DEF Inserting

(* The pins during delete are sound. *)
LEMMA DeletingPins ==
    ASSUME HeapShape, StoreSound(before), DeletingTuple
    PROVE  PinsSound
<1>1. PinnedIn(before) \subseteq before.live
  BY DEF StoreSound, StoreShape
<1>2. \A S : Freed(S) => PinnedIn(before) \subseteq live
  BY <1>1 DEF Freed
<1>3. ASSUME NEW t, NEW p, NEW s, NEW Q, NEW D, Deleting(t, p, s, Q, D),
             NEW k \in 0 .. Len(Q), Freed(Behind(D, k, 1))
      PROVE  p \in live
  <2>1. p \in before.live /\ Q \in Seq(Pages)
    BY <1>3 DEF Deleting
  <2>2. Len(Q) \in Nat
    BY <2>1
  <2>3. \A i \in 1 .. k : p \notin ToSet(D[i])
    <3>1. \A i \in 1 .. k : i \in 1 .. Len(Q)
      BY <2>2
    <3> QED
      BY <1>3, <3>1, DeletedPath
  <2>4. p \notin Behind(D, k, 1)
    BY <2>3 DEF Behind
  <2> QED
    BY <1>3, <2>1, <2>4 DEF Freed
<1>4. CASE AtTuple
  <2>1. live = before.live /\ Pinning({})
    BY <1>4 DEF AtTuple, Untouched
  <2> QED
    BY <1>1, <2>1, HeldPages
<1>5. CASE AtRemove
  <2>1. PICK t, p, s, Q, D :
            Deleting(t, p, s, Q, D) /\ Freed(Behind(D, Len(Q), 1)) /\ Pinning({p})
    BY <1>5 DEF AtRemove
  <2>2. Len(Q) \in 0 .. Len(Q)
    BY <2>1 DEF Deleting
  <2>3. p \in live
    BY <1>3, <2>1, <2>2
  <2> QED
    BY <1>2, <2>1, <2>3, HeldPages
<1>6. CASE AtRelease
  <2>1. PICK t, p, s, Q, D, k, todo :
            /\ Deleting(t, p, s, Q, D) /\ Freed(Behind(D, k, 1)) /\ Pinning({p})
            /\ Rest(Q, k, todo)
    BY <1>6 DEF AtRelease
  <2>2. k \in 0 .. Len(Q)
    <3>1. k \in Nat /\ Len(todo) \in Nat /\ Len(Q) \in Nat /\ k + Len(todo) = Len(Q)
      BY <2>1 DEF Rest, Deleting
    <3> QED
      BY <3>1
  <2>3. p \in live
    BY <1>3, <2>1, <2>2
  <2> QED
    BY <1>2, <2>1, <2>3, HeldPages
<1>7. CASE AtFreeing
  <2>1. PICK t, p, s, Q, D, k, j, todo, next :
            /\ Deleting(t, p, s, Q, D) /\ Freed(Behind(D, k, j)) /\ Pinning({D[k + 1][j]})
            /\ Rest(Q, k, todo) /\ todo # << >> /\ j \in 1 .. Len(D[k + 1])
            /\ ReachedIn(before, D[k + 1][j])
            /\ DeleteCall("freeing", t, p, s, todo, D[k + 1][j], next)
    BY Zenon, <1>7 DEF AtFreeing
  <2>2. D[k + 1][j] \in live
    BY <2>1, NextToFree
  <2> QED
    BY <1>2, <2>1, <2>2, HeldPages
<1>8. CASE AtFree \/ AtErase \/ AtRefetch
  <2>1. PICK S : Freed(S) /\ Pinning({})
    BY <1>8 DEF AtFree, AtErase, AtRefetch
  <2> QED
    BY <1>2, <2>1, HeldPages
<1> QED
  BY <1>4, <1>5, <1>6, <1>7, <1>8 DEF DeletingTuple

(* The pins during get and scan are sound. *)
LEMMA ReadingPins ==
    ASSUME HeapShape, StoreSound(before), ReadingRows
    PROVE  PinsSound
<1>1. PinnedIn(before) \subseteq before.live /\ StoreShape(before)
  BY DEF StoreSound, StoreShape
<1>2. \A t : Reader(t) => live = before.live
  BY DEF Reader, Untouched
<1>3. CASE AtRow \/ AtScan \/ AtRead \/ AtAnswer
  <2>1. live = before.live /\ Pinning({})
    BY <1>2, <1>3 DEF AtRow, AtScan, AtRead, AtAnswer, Scanning, Reading
  <2> QED
    BY <1>1, <2>1, HeldPages
<1>4. CASE AtGot
  <2>1. PICK p : live = before.live /\ p \in before.live /\ Pinning({p})
    BY <1>2, <1>4 DEF AtGot
  <2> QED
    BY <1>1, <2>1, HeldPages
<1>5. CASE AtRows
  <2>1. PICK t, c, k, R : Scanning(t, c, k, R) /\ Pinning({c[k]})
    BY <1>5 DEF AtRows
  <2>2. live = before.live /\ c[k] \in before.live
    BY <1>2, <2>1, PathLive DEF Scanning
  <2> QED
    BY <1>1, <2>1, <2>2, HeldPages
<1>6. CASE AtChunk
  <2>1. PICK op, t, p, s, R, rows, todo, d, j, data :
            /\ Reading(op, t, p, s, R, rows, todo) /\ ReadUpTo(R, todo, d, j, data)
            /\ ReachedIn(before, d[j]) /\ Pinning({d[j]})
            /\ ReadCall("chunk", op, t, p, s, rows, todo, d[j], data)
    BY Zenon, <1>6 DEF AtChunk
  <2>2. live = before.live /\ d[j] \in before.live
    BY <1>1, <1>2, <2>1, ReadPage DEF Reading
  <2> QED
    BY <1>1, <2>1, <2>2, HeldPages
<1> QED
  BY <1>3, <1>4, <1>5, <1>6 DEF ReadingRows

=============================================================================
