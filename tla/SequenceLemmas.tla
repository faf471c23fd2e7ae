--------------------------- MODULE SequenceLemmas ---------------------------
(***************************************************************************)
(* What the sequence operators of the models do to a sequence without      *)
(* repetitions: the free lists of the disk and of the buffer pool, and the *)
(* replacer's queue, are such sequences.                                   *)
(***************************************************************************)
EXTENDS Integers, SequencesExt, SequenceTheorems, FiniteSetTheorems,
        WellFoundedInduction, TLAPS

(***************************************************************************)
(* Every non-empty set of naturals has a least element.  The proof uses    *)
(* that the finite sets I \cap 1..k, for k in I, have a minimal one.       *)
(***************************************************************************)
LEMMA LeastElement ==
    ASSUME NEW I \in SUBSET Nat, I # {}
    PROVE  \E m \in I : \A k \in I : m <= k
<1> DEFINE Upto(k) == I \cap 0 .. k
           T == {Upto(k) : k \in I}
<1>1. T \subseteq FiniteSubsetsOf(Nat) /\ T # {}
  <2>1. ASSUME NEW k \in I PROVE Upto(k) \in FiniteSubsetsOf(Nat)
    <3>1. IsFiniteSet(0 .. k)
      BY FS_Interval
    <3>2. Upto(k) \in SUBSET (0 .. k)
      OBVIOUS
    <3>3. IsFiniteSet(Upto(k))
      BY <3>1, <3>2, FS_Subset
    <3> QED
      BY <3>3 DEF FiniteSubsetsOf
  <2> QED
    BY <2>1
<1>2. PICK x \in T : \A y \in T : ~ (<<y, x>> \in StrictSubsetOrdering(Nat))
  <2> HIDE DEF T
  <2> QED
    BY <1>1, WFMin, FS_StrictSubsetOrderingWellFounded
<1>3. PICK m \in I : x = Upto(m)
  OBVIOUS
<1>4. ASSUME NEW k \in I, k < m PROVE FALSE
  <2>1. Upto(k) \subseteq x /\ m \in x /\ m \notin Upto(k)
    BY <1>3, <1>4
  <2>2. <<Upto(k), x>> \in StrictSubsetOrdering(Nat)
    BY <2>1, <1>3 DEF StrictSubsetOrdering
  <2> QED
    BY <1>2, <2>2
<1> QED
  BY <1>4

(* The size of an interval that is open to the right. *)
LEMMA IntervalSize ==
    ASSUME NEW a \in Int, NEW b \in Int, a <= b
    PROVE  IsFiniteSet(a .. b - 1) /\ Cardinality(a .. b - 1) = b - a
<1>1. PICK c \in Int : c = b - 1
  OBVIOUS
<1>2. IsFiniteSet(a .. c) /\ Cardinality(a .. c) = IF a > c THEN 0 ELSE c - a + 1
  BY FS_Interval
<1>3. (IF a > c THEN 0 ELSE c - a + 1) = b - a
  BY <1>1
<1> QED
  BY <1>1, <1>2, <1>3

(* RemoveAt closes the gap that the removed entry leaves. *)
LEMMA RemoveAtProperties ==
    ASSUME NEW S, NEW s \in Seq(S), NEW i \in 1 .. Len(s)
    PROVE  /\ RemoveAt(s, i) \in Seq(S)
           /\ Len(RemoveAt(s, i)) = Len(s) - 1
           /\ \A j \in 1 .. Len(s) - 1 :
                RemoveAt(s, i)[j] = IF j < i THEN s[j] ELSE s[j + 1]
<1> DEFINE l == SubSeq(s, 1, i - 1)
           r == SubSeq(s, i + 1, Len(s))
<1>0. Len(s) \in Nat /\ \A j \in 1 .. Len(s) : s[j] \in S
  BY LenProperties, ElementOfSeq
<1>1. /\ l \in Seq(S)
      /\ Len(l) = i - 1
      /\ \A j \in 1 .. i - 1 : l[j] = s[j]
  BY <1>0, SubSeqProperties
<1>2. /\ r \in Seq(S)
      /\ Len(r) = Len(s) - i
      /\ \A j \in 1 .. Len(s) - i : r[j] = s[i + j]
  BY <1>0, SubSeqProperties
<1>3. RemoveAt(s, i) = l \o r
  BY DEF RemoveAt
<1> HIDE DEF l, r
<1>4. /\ l \o r \in Seq(S)
      /\ Len(l \o r) = Len(l) + Len(r)
      /\ \A j \in 1 .. Len(l) + Len(r) :
            (l \o r)[j] = IF j <= Len(l) THEN l[j] ELSE r[j - Len(l)]
  BY <1>1, <1>2, ConcatProperties
<1> QED
  BY <1>0, <1>1, <1>2, <1>3, <1>4

(* Removing an entry of a sequence without repetitions removes its value. *)
LEMMA RemoveAtInjective ==
    ASSUME NEW S, NEW s \in Seq(S), NEW i \in 1 .. Len(s), IsInjective(s)
    PROVE  /\ IsInjective(RemoveAt(s, i))
           /\ ToSet(RemoveAt(s, i)) = ToSet(s) \ {s[i]}
<1> DEFINE t == RemoveAt(s, i)
<1>1. /\ Len(s) \in Nat
      /\ DOMAIN s = 1 .. Len(s)
      /\ t \in Seq(S)
      /\ DOMAIN t = 1 .. Len(s) - 1
      /\ \A j \in 1 .. Len(s) - 1 : t[j] = IF j < i THEN s[j] ELSE s[j + 1]
  BY LenProperties, RemoveAtProperties
<1> HIDE DEF t
<1>2. IsInjective(t)
  <2> SUFFICES ASSUME NEW a \in DOMAIN t, NEW b \in DOMAIN t, t[a] = t[b]
               PROVE  a = b
    BY DEF IsInjective
  <2> DEFINE From(j) == IF j < i THEN j ELSE j + 1
  <2>1. /\ From(a) \in DOMAIN s /\ t[a] = s[From(a)]
        /\ From(b) \in DOMAIN s /\ t[b] = s[From(b)]
    BY <1>1
  <2>2. From(a) = From(b)
    BY <2>1 DEF IsInjective
  <2> QED
    BY <1>1, <2>2
<1>3. ASSUME NEW j \in DOMAIN t PROVE t[j] \in ToSet(s) \ {s[i]}
  BY <1>1, <1>3 DEF IsInjective, ToSet
<1>4. ASSUME NEW k \in DOMAIN s, s[k] # s[i] PROVE \E j \in DOMAIN t : t[j] = s[k]
  <2>1. CASE k < i
    BY <1>1, <2>1
  <2>2. CASE k > i
    <3>1. k - 1 \in DOMAIN t /\ t[k - 1] = s[k]
      BY <1>1, <2>2
    <3> QED
      BY <3>1
  <2> QED
    BY <1>1, <1>4, <2>1, <2>2
<1> QED
  BY <1>2, <1>3, <1>4 DEF ToSet, t

(* The first position whose entry is in P, as SelectInSeq computes it. *)
LEMMA FirstPosition ==
    ASSUME NEW S, NEW s \in Seq(S), NEW P, ToSet(s) \cap P # {},
           NEW i, i = Min({j \in 1 .. Len(s) : s[j] \in P})
    PROVE  /\ i \in 1 .. Len(s)
           /\ s[i] \in P
           /\ \A k \in 1 .. Len(s) : s[k] \in P => i <= k
<1> DEFINE I == {j \in 1 .. Len(s) : s[j] \in P}
<1>1. Len(s) \in Nat /\ DOMAIN s = 1 .. Len(s)
  BY LenProperties
<1>2. I # {} /\ I \in SUBSET Nat
  BY <1>1 DEF ToSet
<1>3. i \in I /\ \A k \in I : i <= k
  <2>1. i = Min(I)
    OBVIOUS
  <2> HIDE DEF I
  <2>2. \E m \in I : \A k \in I : m <= k
    BY <1>2, LeastElement
  <2> QED
    BY <2>1, <2>2 DEF Min
<1> QED
  BY <1>3

(* RemoveFirst of a value that occurs is RemoveAt of one of its positions. *)
LEMMA RemoveFirstIsRemoveAt ==
    ASSUME NEW S, NEW s \in Seq(S), NEW e, e \in ToSet(s)
    PROVE  \E i \in 1 .. Len(s) : s[i] = e /\ RemoveFirst(s, e) = RemoveAt(s, i)
<1> DEFINE P == {e}
           i == Min({j \in 1 .. Len(s) : s[j] \in P})
<1>1. RemoveFirst(s, e) = RemoveAt(s, i)
  <2>1. \E j \in 1 .. Len(s) : s[j] = e
    BY LenProperties DEF ToSet
  <2>2. {j \in 1 .. Len(s) : s[j] = e} = {j \in 1 .. Len(s) : s[j] \in P}
    OBVIOUS
  <2> QED
    BY <2>1, <2>2 DEF RemoveFirst, SelectInSeq
<1>2. ToSet(s) \cap P # {}
  OBVIOUS
<1>3. \A v : v \in P => v = e
  OBVIOUS
<1>4. i = Min({j \in 1 .. Len(s) : s[j] \in P})
  OBVIOUS
<1> HIDE DEF P, i
<1>5. i \in 1 .. Len(s) /\ s[i] \in P
  BY <1>2, <1>4, FirstPosition
<1> QED
  BY <1>1, <1>3, <1>5

(* Removing a value that does not occur changes nothing. *)
LEMMA RemoveFirstAbsent ==
    ASSUME NEW S, NEW s \in Seq(S), NEW e, e \notin ToSet(s)
    PROVE  RemoveFirst(s, e) = s
BY LenProperties DEF RemoveFirst, ToSet

(* RemoveFirst removes a value from a sequence without repetitions. *)
LEMMA RemoveFirstProperties ==
    ASSUME NEW S, NEW s \in Seq(S), NEW e, IsInjective(s)
    PROVE  /\ RemoveFirst(s, e) \in Seq(S)
           /\ IsInjective(RemoveFirst(s, e))
           /\ ToSet(RemoveFirst(s, e)) = ToSet(s) \ {e}
<1>1. CASE e \in ToSet(s)
  BY <1>1, RemoveFirstIsRemoveAt, RemoveAtProperties, RemoveAtInjective
<1>2. CASE e \notin ToSet(s)
  BY <1>2, RemoveFirstAbsent
<1> QED
  BY <1>1, <1>2

(* Appending a value that does not occur yet. *)
LEMMA AppendFresh ==
    ASSUME NEW S, NEW s \in Seq(S), NEW e \in S, IsInjective(s), e \notin ToSet(s)
    PROVE  /\ Append(s, e) \in Seq(S)
           /\ IsInjective(Append(s, e))
           /\ ToSet(Append(s, e)) = ToSet(s) \cup {e}
<1> DEFINE t == Append(s, e)
<1>1. /\ Len(s) \in Nat
      /\ DOMAIN s = 1 .. Len(s)
      /\ t \in Seq(S)
      /\ DOMAIN t = 1 .. Len(s) + 1
      /\ \A j \in 1 .. Len(s) : t[j] = s[j]
      /\ t[Len(s) + 1] = e
  BY LenProperties, AppendProperties
<1> HIDE DEF t
<1>2. IsInjective(t)
  BY <1>1 DEF IsInjective, ToSet
<1>3. ToSet(t) = ToSet(s) \cup {e}
  BY <1>1 DEF ToSet
<1> QED
  BY <1>1, <1>2, <1>3 DEF t

(* Popping the last entry. *)
LEMMA FrontProperties ==
    ASSUME NEW S, NEW s \in Seq(S), s # << >>, IsInjective(s)
    PROVE  /\ Last(s) \in ToSet(s)
           /\ Last(s) \in S
           /\ Front(s) \in Seq(S)
           /\ IsInjective(Front(s))
           /\ ToSet(Front(s)) = ToSet(s) \ {Last(s)}
<1> DEFINE t == Front(s)
<1>1. /\ Len(s) \in Nat \ {0}
      /\ DOMAIN s = 1 .. Len(s)
      /\ \A j \in 1 .. Len(s) : s[j] \in S
  BY LenProperties, EmptySeq, ElementOfSeq
<1>2. /\ t \in Seq(S)
      /\ Len(t) = Len(s) - 1
      /\ \A j \in 1 .. Len(s) - 1 : t[j] = s[j]
  BY <1>1, SubSeqProperties DEF Front
<1>3. DOMAIN t = 1 .. Len(s) - 1
  BY <1>2, LenProperties
<1> HIDE DEF t
<1>4. IsInjective(t)
  BY <1>1, <1>2, <1>3 DEF IsInjective
<1>5. ToSet(t) = ToSet(s) \ {Last(s)}
  BY <1>1, <1>2, <1>3 DEF IsInjective, ToSet, Last
<1>6. Last(s) \in ToSet(s) /\ Last(s) \in S
  BY <1>1 DEF Last, ToSet
<1> QED
  BY <1>2, <1>4, <1>5, <1>6 DEF t

-----------------------------------------------------------------------------

(* Blocks one behind the other: where they begin, and what they cover. *)
LEMMA BlockOffsets ==
    ASSUME NEW N \in Nat, NEW off \in [0 .. N -> Nat], NEW ln \in [1 .. N -> Nat],
           off[0] = 0, \A k \in 1 .. N : off[k] = off[k - 1] + ln[k]
    PROVE  /\ \A k, l \in 0 .. N : k <= l => off[k] <= off[l]
           /\ \A j \in 1 .. off[N] :
                \E k \in 1 .. N : \E i \in 1 .. ln[k] : j = off[k - 1] + i
<1>1. ASSUME NEW k \in 0 .. N, NEW l \in 0 .. N, k <= l PROVE off[k] <= off[l]
  <2> DEFINE I == {m \in Nat : m \in k .. N /\ ~(off[k] <= off[m])}
  <2>1. SUFFICES ASSUME l \in I PROVE FALSE
    BY <1>1
  <2>2. PICK m \in I : \A n \in I : m <= n
    BY <2>1, LeastElement
  <2>3. m # k /\ m \in k .. N /\ m \in 1 .. N
    BY <2>2
  <2>4. m - 1 \in k .. N /\ m - 1 \in Nat /\ m - 1 \in 0 .. N
    BY <2>3
  <2>5. m - 1 \notin I
    BY <2>2, <2>4
  <2>6. off[k] <= off[m - 1]
    BY <2>4, <2>5
  <2>7. off[m] = off[m - 1] + ln[m]
    BY <2>3
  <2>8. off[m - 1] \in Nat /\ ln[m] \in Nat /\ off[k] \in Nat
    BY <2>3, <2>4
  <2>9. off[k] <= off[m]
    BY <2>6, <2>7, <2>8
  <2> QED
    BY <2>2, <2>9
<1>2. ASSUME NEW j \in 1 .. off[N]
      PROVE  \E k \in 1 .. N : \E i \in 1 .. ln[k] : j = off[k - 1] + i
  <2> DEFINE I == {m \in 0 .. N : j <= off[m]}
  <2>1. N \in I /\ off[N] \in Nat /\ I \in SUBSET Nat
    OBVIOUS
  <2>2. PICK k \in I : \A n \in I : k <= n
    BY <2>1, LeastElement
  <2>3. k \in 1 .. N /\ k - 1 \in 0 .. N
    BY <2>2
  <2>4. k - 1 \notin I
    BY <2>2, <2>3
  <2>5. off[k - 1] < j /\ j <= off[k] /\ off[k - 1] \in Nat /\ ln[k] \in Nat
    BY <2>1, <2>2, <2>3, <2>4
  <2>6. off[k] = off[k - 1] + ln[k]
    BY <2>3
  <2>7. j - off[k - 1] \in 1 .. ln[k] /\ j = off[k - 1] + (j - off[k - 1])
    BY <2>5, <2>6
  <2> QED
    BY <2>3, <2>7
<1> QED
  BY <1>1, <1>2

(* The two parts of a concatenation. *)
LEMMA ConcatParts ==
    ASSUME NEW S, NEW a \in Seq(S), NEW b \in Seq(S), NEW c, c = a \o b
    PROVE  /\ Len(c) = Len(a) + Len(b)
           /\ \A i \in 1 .. Len(a) : c[i] = a[i]
           /\ \A i \in 1 .. Len(b) : c[Len(a) + i] = b[i]
<1>1. /\ Len(c) = Len(a) + Len(b)
      /\ \A i \in 1 .. Len(a) + Len(b) :
            c[i] = IF i <= Len(a) THEN a[i] ELSE b[i - Len(a)]
  BY ConcatProperties
<1>2. PICK n \in Nat, m \in Nat : n = Len(a) /\ m = Len(b)
  BY LenProperties
<1>3. ASSUME NEW i \in 1 .. n PROVE c[i] = a[i]
  <2>1. i \in 1 .. n + m /\ i <= n
    OBVIOUS
  <2> QED
    BY <1>1, <1>2, <2>1
<1>4. ASSUME NEW i \in 1 .. m PROVE c[n + i] = b[i]
  <2>1. PICK j \in Nat : j = n + i
    OBVIOUS
  <2>2. j \in 1 .. n + m /\ ~(j <= n) /\ j - n = i
    BY <2>1
  <2>3. c[j] = b[j - n]
    BY <1>1, <1>2, <2>2
  <2> QED
    BY <2>1, <2>2, <2>3
<1> QED
  BY <1>1, <1>2, <1>3, <1>4

(* The equation that defines FlattenSeq has a solution. *)
LEMMA FlattenSeqUnfolds ==
    ASSUME NEW G, Len(G) \in Nat \ {0}
    PROVE  \E fl :
            /\ FlattenSeq(G) = fl[Len(G)]
            /\ fl[1] = G[1]
            /\ \A k \in 2 .. Len(G) : fl[k] = fl[k - 1] \o G[k]
<1> DEFINE Row(f, k) == IF k = 1 THEN G[k] ELSE f[k - 1] \o G[k]
           Solves(f, n) == f = [k \in 1 .. n |-> Row(f, k)]
           fl == CHOOSE f : Solves(f, Len(G))
<1>1. FlattenSeq(G) = fl[Len(G)]
  BY DEF FlattenSeq
<1>2. ASSUME NEW n \in Nat, NEW f, Solves(f, n)
      PROVE  \E g : Solves(g, n + 1)
  <2> DEFINE g == [k \in 1 .. n + 1 |-> IF k = n + 1 THEN Row(f, k) ELSE f[k]]
  <2>1. ASSUME NEW k \in 1 .. n + 1 PROVE g[k] = Row(g, k)
    <3>1. k = 1 \/ f[k - 1] = g[k - 1]
      BY <2>1
    <3>2. Row(f, k) = Row(g, k)
      BY <3>1
    <3>3. ASSUME k # n + 1 PROVE f[k] = Row(f, k)
      <4>1. k \in 1 .. n
        BY <2>1, <3>3
      <4> HIDE DEF Row
      <4> QED
        BY <1>2, <4>1
    <3> QED
      BY <3>2, <3>3
  <2>2. g = [k \in 1 .. n + 1 |-> g[k]]
    OBVIOUS
  <2> HIDE DEF g, Row
  <2>3. g = [k \in 1 .. n + 1 |-> Row(g, k)]
    BY <2>1, <2>2
  <2> QED
    BY <2>3
<1>3. \E f : Solves(f, 0)
  <2> DEFINE g == [k \in 1 .. 0 |-> 0]
  <2>1. g = [k \in 1 .. 0 |-> Row(g, k)]
    OBVIOUS
  <2> HIDE DEF g, Row
  <2> QED
    BY <2>1
<1>4. \E f : Solves(f, Len(G))
  <2> DEFINE I == {n \in Nat : ~ \E f : Solves(f, n)}
  <2>1. SUFFICES ASSUME I # {} PROVE FALSE
    OBVIOUS
  <2> HIDE DEF Solves
  <2>2. PICK m \in I : \A k \in I : m <= k
    BY <2>1, LeastElement
  <2>3. m \in Nat \ {0}
    BY <1>3, <2>2
  <2>4. m - 1 \in Nat /\ m - 1 \notin I
    BY <2>2, <2>3
  <2>5. \E f : Solves(f, m - 1)
    BY <2>4
  <2>6. m - 1 + 1 = m
    BY <2>3
  <2>7. \E g : Solves(g, m)
    BY <1>2, <2>4, <2>5, <2>6
  <2> QED
    BY <2>2, <2>7
<1> HIDE DEF fl, Row
<1>5. Solves(fl, Len(G))
  BY <1>4 DEF fl
<1>6. \A k \in 1 .. Len(G) : fl[k] = Row(fl, k)
  BY <1>5
<1>7. fl[1] = G[1]
  BY <1>6 DEF Row
<1>8. ASSUME NEW k \in 2 .. Len(G) PROVE fl[k] = fl[k - 1] \o G[k]
  <2>1. k \in 1 .. Len(G) /\ k # 1
    OBVIOUS
  <2> QED
    BY <1>6, <2>1 DEF Row
<1> QED
  BY <1>1, <1>7, <1>8

(* Where the sequences G begin in F, which has one behind the other. *)
Offsets(off, G, F, S) ==
    /\ off \in [0 .. Len(G) -> Nat]
    /\ off[0] = 0
    /\ \A k \in 1 .. Len(G) : off[k] = off[k - 1] + Len(G[k])
    /\ F \in Seq(S) /\ Len(F) = off[Len(G)]
    /\ \A k \in 1 .. Len(G) : \A i \in 1 .. Len(G[k]) : F[off[k - 1] + i] = G[k][i]

(***************************************************************************)
(* FlattenSeq puts the sequences one behind the other: the k-th begins     *)
(* behind the first off[k - 1] elements.                                   *)
(***************************************************************************)
LEMMA FlattenSeqProperties ==
    ASSUME NEW S, NEW G \in Seq(Seq(S)), NEW F, F = FlattenSeq(G)
    PROVE  \E off : Offsets(off, G, F, S)
<1>1. /\ Len(G) \in Nat
      /\ \A k \in 1 .. Len(G) : G[k] \in Seq(S) /\ Len(G[k]) \in Nat
  <2>1. Len(G) \in Nat /\ \A k \in 1 .. Len(G) : G[k] \in Seq(S)
    BY LenProperties, ElementOfSeq
  <2> QED
    BY <2>1, LenProperties
<1>2. CASE Len(G) = 0
  <2>1. G = << >> /\ F = << >>
    BY <1>2, EmptySeq DEF FlattenSeq
  <2>2. Len(F) = 0 /\ F \in Seq(S)
    BY <2>1, EmptySeq
  <2> QED
    <3> DEFINE off == [k \in 0 .. Len(G) |-> 0]
    <3>1. off \in [0 .. Len(G) -> Nat] /\ off[0] = 0 /\ Len(F) = off[Len(G)]
      BY <1>2, <2>2
    <3>2. 1 .. Len(G) = {}
      BY <1>2
    <3> HIDE DEF off
    <3>3. Offsets(off, G, F, S)
      BY <2>2, <3>1, <3>2 DEF Offsets
    <3> QED
      BY <3>3
<1>3. CASE Len(G) # 0
  <2>1. PICK fl :
          /\ F = fl[Len(G)]
          /\ fl[1] = G[1]
          /\ \A k \in 2 .. Len(G) : fl[k] = fl[k - 1] \o G[k]
    BY <1>1, <1>3, FlattenSeqUnfolds
  <2>2. ASSUME NEW n \in 1 .. Len(G) PROVE fl[n] \in Seq(S)
    <3> DEFINE I == {k \in Nat : k \in 1 .. Len(G) /\ fl[k] \notin Seq(S)}
    <3>1. SUFFICES ASSUME n \in I PROVE FALSE
      BY <1>1
    <3>2. PICK m \in I : \A k \in I : m <= k
      BY <3>1, LeastElement
    <3>3. m # 1
      <4>1. 1 \in 1 .. Len(G)
        BY <1>1, <1>3
      <4>2. fl[1] \in Seq(S)
        BY <1>1, <2>1, <4>1
      <4> QED
        BY <3>2, <4>2
    <3>4. m \in 2 .. Len(G) /\ m - 1 \in 1 .. Len(G) /\ m - 1 \notin I
      BY <1>1, <3>2, <3>3
    <3>5. fl[m - 1] \in Seq(S)
      BY <1>1, <3>4
    <3>6. fl[m] \in Seq(S)
      <4>1. fl[m] = fl[m - 1] \o G[m] /\ G[m] \in Seq(S)
        BY <1>1, <2>1, <3>2, <3>4
      <4>2. PICK a \in Seq(S), b \in Seq(S) : a = fl[m - 1] /\ b = G[m]
        BY <3>5, <4>1
      <4> QED
        BY <4>1, <4>2, ConcatProperties
    <3> QED
      BY <3>2, <3>6
  <2>3. PICK off : off = [k \in 0 .. Len(G) |-> IF k = 0 THEN 0 ELSE Len(fl[k])]
    OBVIOUS
  <2>4. off \in [0 .. Len(G) -> Nat] /\ off[0] = 0
    BY <1>1, <2>2, <2>3, LenProperties
  <2>5. ASSUME NEW k \in 1 .. Len(G)
        PROVE  /\ off[k] = off[k - 1] + Len(G[k])
               /\ \A i \in 1 .. off[k - 1] : fl[k][i] = fl[k - 1][i]
               /\ \A i \in 1 .. Len(G[k]) : fl[k][off[k - 1] + i] = G[k][i]
    <3>1. CASE k = 1
      BY <1>1, <1>3, <2>1, <2>3, <2>4, <3>1
    <3>2. CASE k # 1
      <4>1. k \in 2 .. Len(G) /\ k - 1 \in 1 .. Len(G) /\ k - 1 \in 0 .. Len(G)
        BY <1>1, <3>2
      <4>2. off[k] = Len(fl[k]) /\ off[k - 1] = Len(fl[k - 1])
        BY <2>3, <4>1
      <4>3. fl[k] = fl[k - 1] \o G[k]
        BY <2>1, <4>1
      <4>4. /\ Len(fl[k]) = Len(fl[k - 1]) + Len(G[k])
            /\ \A i \in 1 .. Len(fl[k - 1]) : fl[k][i] = fl[k - 1][i]
            /\ \A i \in 1 .. Len(G[k]) : fl[k][Len(fl[k - 1]) + i] = G[k][i]
        <5>1. PICK a \in Seq(S), b \in Seq(S) : a = fl[k - 1] /\ b = G[k]
          BY <1>1, <2>2, <4>1
        <5>2. PICK c : c = fl[k] /\ c = a \o b
          BY <4>3, <5>1
        <5>3. /\ Len(c) = Len(a) + Len(b)
              /\ \A i \in 1 .. Len(a) : c[i] = a[i]
              /\ \A i \in 1 .. Len(b) : c[Len(a) + i] = b[i]
          BY <5>2, ConcatParts
        <5> QED
          BY <5>1, <5>2, <5>3
      <4> QED
        BY <4>2, <4>4
    <3> QED
      BY <3>1, <3>2
  <2>6. \A k, l \in 0 .. Len(G) : k <= l => off[k] <= off[l]
    <3> DEFINE ln == [k \in 1 .. Len(G) |-> Len(G[k])]
    <3>1. ln \in [1 .. Len(G) -> Nat] /\ \A k \in 1 .. Len(G) : ln[k] = Len(G[k])
      BY <1>1
    <3> HIDE DEF ln
    <3>2. \A k \in 1 .. Len(G) : off[k] = off[k - 1] + ln[k]
      BY <2>5, <3>1
    <3> QED
      BY <1>1, <2>4, <3>1, <3>2, BlockOffsets
  <2>7. ASSUME NEW k \in 1 .. Len(G), NEW i \in 1 .. Len(G[k])
        PROVE  F[off[k - 1] + i] = G[k][i]
    <3> DEFINE I == {m \in Nat : m \in k .. Len(G) /\ fl[m][off[k - 1] + i] # G[k][i]}
    <3>1. SUFFICES ASSUME I # {} PROVE FALSE
      BY <1>1, <2>1
    <3>2. PICK m \in I : \A n \in I : m <= n
      BY <3>1, LeastElement
    <3>3. m # k
      BY <2>5, <3>2
    <3>4. m \in 1 .. Len(G) /\ m - 1 \in k .. Len(G) /\ m - 1 \in Nat /\ m - 1 \notin I
      BY <1>1, <3>2, <3>3
    <3>5. fl[m - 1][off[k - 1] + i] = G[k][i]
      BY <3>4
    <3>6. off[k - 1] + i \in 1 .. off[m - 1]
      <4>1. k - 1 \in 0 .. Len(G) /\ k \in 0 .. Len(G) /\ m - 1 \in 0 .. Len(G)
        BY <1>1, <3>4
      <4>2. off[k] <= off[m - 1] /\ off[k] = off[k - 1] + Len(G[k])
        BY <2>5, <2>6, <3>4, <4>1
      <4>3. off[k - 1] \in Nat /\ off[k] \in Nat /\ off[m - 1] \in Nat /\ Len(G[k]) \in Nat
        BY <1>1, <2>4, <4>1
      <4>4. PICK a \in Nat, b \in Nat, c \in Nat, d \in Nat :
                a = off[k - 1] /\ b = off[k] /\ c = off[m - 1] /\ d = Len(G[k])
        BY <4>3
      <4>5. i \in 1 .. d /\ b <= c /\ b = a + d
        BY <4>2, <4>4
      <4>6. a + i \in 1 .. c
        BY <4>5
      <4> QED
        BY <4>4, <4>6
    <3>7. fl[m][off[k - 1] + i] = fl[m - 1][off[k - 1] + i]
      BY <2>5, <3>4, <3>6
    <3> QED
      BY <3>2, <3>5, <3>7
  <2>8. F \in Seq(S) /\ Len(F) = off[Len(G)]
    BY <1>1, <1>3, <2>1, <2>2, <2>3
  <2>9. Offsets(off, G, F, S)
    BY <2>4, <2>5, <2>7, <2>8 DEF Offsets
  <2> QED
    BY <2>9
<1> QED
  BY <1>2, <1>3

(* What a sequence is cut into gives the sequence back when it is joined. *)
LEMMA FlattenedPieces ==
    ASSUME NEW S, NEW data \in Seq(S), NEW G \in Seq(Seq(S)),
           NEW at \in [0 .. Len(G) -> Nat], at[0] = 0, at[Len(G)] = Len(data),
           \A i \in 1 .. Len(G) :
              /\ at[i] = at[i - 1] + Len(G[i])
              /\ \A j \in 1 .. Len(G[i]) : G[i][j] = data[at[i - 1] + j]
    PROVE  FlattenSeq(G) = data
<1>1. PICK n \in Nat : n = Len(G)
  BY LenProperties
<1>2. PICK F : F = FlattenSeq(G)
  OBVIOUS
<1>3. PICK off : Offsets(off, G, F, S)
  BY <1>2, FlattenSeqProperties
<1>4. ASSUME NEW i \in 0 .. n PROVE off[i] = at[i]
  <2> DEFINE Bad == {m \in 0 .. n : off[m] # at[m]}
  <2> SUFFICES ASSUME Bad # {} PROVE FALSE
    OBVIOUS
  <2>1. Bad \subseteq Nat
    OBVIOUS
  <2>2. PICK m \in Bad : \A j \in Bad : m <= j
    <3> HIDE DEF Bad
    <3> QED
      BY <2>1, LeastElement
  <2>3. m \in 1 .. n /\ off[m] # at[m]
    BY <1>1, <1>3 DEF Offsets
  <2>4. m - 1 \in 0 .. n /\ m - 1 \notin Bad
    BY <1>1, <2>2, <2>3
  <2>5. off[m - 1] = at[m - 1]
    BY <2>4
  <2> QED
    BY <1>1, <1>3, <2>3, <2>5 DEF Offsets
<1>5. PICK ln : ln = [k \in 1 .. n |-> Len(G[k])]
  OBVIOUS
<1>6. ln \in [1 .. n -> Nat] /\ \A k \in 1 .. n : ln[k] = Len(G[k])
  <2>1. \A k \in 1 .. n : Len(G[k]) \in Nat
    BY <1>1, ElementOfSeq, LenProperties
  <2> QED
    BY <1>5, <2>1
<1>7. \A j \in 1 .. off[n] : \E k \in 1 .. n : \E i \in 1 .. ln[k] : j = off[k - 1] + i
  <2>1. /\ off \in [0 .. n -> Nat] /\ off[0] = 0
        /\ \A k \in 1 .. n : off[k] = off[k - 1] + ln[k]
    BY <1>1, <1>3, <1>6 DEF Offsets
  <2> QED
    BY <1>6, <2>1, BlockOffsets
<1>8. off[n] = Len(data) /\ Len(F) = Len(data) /\ Len(data) \in Nat
  BY <1>1, <1>3, <1>4, LenProperties DEF Offsets
<1>9. ASSUME NEW j \in 1 .. Len(data) PROVE F[j] = data[j]
  <2>1. PICK k \in 1 .. n : \E i \in 1 .. ln[k] : j = off[k - 1] + i
    BY <1>7, <1>8
  <2>2. PICK i \in 1 .. ln[k] : j = off[k - 1] + i
    BY <2>1
  <2>3. F[off[k - 1] + i] = G[k][i]
    BY <1>1, <1>3, <1>6, <2>2 DEF Offsets
  <2>4. G[k][i] = data[at[k - 1] + i]
    BY <1>1, <1>6, <2>2
  <2>5. off[k - 1] = at[k - 1]
    BY <1>1, <1>4
  <2> QED
    BY <2>2, <2>3, <2>4, <2>5
<1>10. F = [j \in 1 .. Len(F) |-> F[j]] /\ data = [j \in 1 .. Len(data) |-> data[j]]
  BY <1>3, LenProperties DEF Offsets
<1> QED
  BY <1>2, <1>8, <1>9, <1>10

(* The j-th element of F is one of the parts', and G[k][i] is one of F's. *)
FoundIn(off, G, F, j) ==
    \E k \in 1 .. Len(G) : \E i \in 1 .. Len(G[k]) : j = off[k - 1] + i /\ F[j] = G[k][i]

PutIn(off, G, F, k, i) ==
    off[k - 1] + i \in 1 .. Len(F) /\ F[off[k - 1] + i] = G[k][i]

(* Every element of a flattened sequence has its place in one of the parts. *)
LEMMA FlattenedPlaces ==
    ASSUME NEW S, NEW G \in Seq(Seq(S)), NEW F, NEW off, Offsets(off, G, F, S)
    PROVE  /\ Len(F) \in Nat /\ DOMAIN F = 1 .. Len(F)
           /\ \A j \in 1 .. Len(F) : FoundIn(off, G, F, j)
           /\ \A k \in 1 .. Len(G) : \A i \in 1 .. Len(G[k]) : PutIn(off, G, F, k, i)
<1>1. PICK N \in Nat : N = Len(G)
  BY LenProperties
<1>2. PICK ln : ln = [k \in 1 .. N |-> Len(G[k])]
  OBVIOUS
<1>3. ln \in [1 .. N -> Nat]
  <2>1. ASSUME NEW k \in 1 .. N PROVE Len(G[k]) \in Nat
    BY <1>1, <2>1, ElementOfSeq, LenProperties
  <2> QED
    BY <1>2, <2>1
<1>4. /\ off \in [0 .. N -> Nat] /\ off[0] = 0 /\ \A k \in 1 .. N : off[k] = off[k - 1] + ln[k]
      /\ F \in Seq(S) /\ Len(F) = off[N]
      /\ \A k \in 1 .. N : \A i \in 1 .. ln[k] : F[off[k - 1] + i] = G[k][i]
  BY <1>1, <1>2 DEF Offsets
<1>5. /\ \A k, l \in 0 .. N : k <= l => off[k] <= off[l]
      /\ \A j \in 1 .. off[N] : \E k \in 1 .. N : \E i \in 1 .. ln[k] : j = off[k - 1] + i
  BY <1>3, <1>4, BlockOffsets
<1>6. Len(F) \in Nat /\ DOMAIN F = 1 .. Len(F)
  BY <1>4, LenProperties
<1>7. ASSUME NEW k \in 1 .. N, NEW i \in 1 .. ln[k]
      PROVE  off[k - 1] + i \in 1 .. off[N]
  <2>1. k \in 0 .. N /\ N \in 0 .. N /\ k - 1 \in 0 .. N /\ k <= N
    BY <1>1
  <2>2. off[k] <= off[N] /\ off[k] = off[k - 1] + ln[k]
    BY <1>4, <1>5, <2>1
  <2>3. off[k] \in Nat /\ off[k - 1] \in Nat /\ off[N] \in Nat /\ ln[k] \in Nat
    BY <1>3, <1>4, <2>1
  <2> QED
    BY <1>7, <2>2, <2>3
<1>8. ASSUME NEW j \in 1 .. Len(F)
      PROVE  FoundIn(off, G, F, j)
  <2>1. j \in 1 .. off[N]
    BY <1>4, <1>8
  <2>2. PICK k \in 1 .. N : \E i \in 1 .. ln[k] : j = off[k - 1] + i
    BY <1>5, <2>1
  <2>3. PICK i \in 1 .. ln[k] : j = off[k - 1] + i
    BY <2>2
  <2>4. F[j] = G[k][i] /\ k \in 1 .. Len(G) /\ i \in 1 .. Len(G[k])
    BY <1>1, <1>2, <1>4, <2>3
  <2> QED
    BY <2>3, <2>4 DEF FoundIn
<1>9. ASSUME NEW k \in 1 .. Len(G), NEW i \in 1 .. Len(G[k]) PROVE PutIn(off, G, F, k, i)
  <2>1. k \in 1 .. N /\ i \in 1 .. ln[k]
    BY <1>1, <1>2, <1>9
  <2> QED
    BY <1>4, <1>7, <2>1 DEF PutIn
<1> QED
  BY <1>6, <1>8, <1>9

(* A flattened sequence has the elements of the parts. *)
LEMMA FlattenedSet ==
    ASSUME NEW S, NEW G \in Seq(Seq(S)), NEW F, F = FlattenSeq(G), NEW x
    PROVE  F \in Seq(S) /\ (x \in ToSet(F) <=> \E k \in 1 .. Len(G) : x \in ToSet(G[k]))
<1>1. PICK off : Offsets(off, G, F, S)
  BY FlattenSeqProperties
<1>2. F \in Seq(S)
  BY <1>1 DEF Offsets
<1>3. /\ Len(F) \in Nat /\ DOMAIN F = 1 .. Len(F)
      /\ \A j \in 1 .. Len(F) : FoundIn(off, G, F, j)
      /\ \A k \in 1 .. Len(G) : \A i \in 1 .. Len(G[k]) : PutIn(off, G, F, k, i)
  BY <1>1, FlattenedPlaces
<1>4. \A k \in 1 .. Len(G) : DOMAIN G[k] = 1 .. Len(G[k])
  BY ElementOfSeq, LenProperties
<1>5. ASSUME x \in ToSet(F) PROVE \E k \in 1 .. Len(G) : x \in ToSet(G[k])
  <2>1. PICK j \in 1 .. Len(F) : x = F[j]
    BY <1>3, <1>5 DEF ToSet
  <2>2. PICK k \in 1 .. Len(G) : \E i \in 1 .. Len(G[k]) : F[j] = G[k][i]
    BY <1>3 DEF FoundIn
  <2> QED
    BY <1>4, <2>1, <2>2 DEF ToSet
<1>6. ASSUME NEW k \in 1 .. Len(G), x \in ToSet(G[k]) PROVE x \in ToSet(F)
  <2>1. PICK i \in 1 .. Len(G[k]) : x = G[k][i]
    BY <1>4, <1>6 DEF ToSet
  <2>2. PutIn(off, G, F, k, i)
    BY <1>3
  <2> QED
    BY <1>3, <2>1, <2>2 DEF PutIn, ToSet
<1> QED
  BY <1>2, <1>5, <1>6

(* Different elements everywhere stay different. *)
LEMMA FlattenedInjective ==
    ASSUME NEW S, NEW G \in Seq(Seq(S)), NEW F, F = FlattenSeq(G),
           \A k \in 1 .. Len(G) : IsInjective(G[k]),
           \A k, l \in 1 .. Len(G) : k # l => ToSet(G[k]) \cap ToSet(G[l]) = {}
    PROVE  IsInjective(F)
<1>1. PICK off : Offsets(off, G, F, S)
  BY FlattenSeqProperties
<1>2. /\ Len(F) \in Nat /\ DOMAIN F = 1 .. Len(F)
      /\ \A j \in 1 .. Len(F) : FoundIn(off, G, F, j)
  BY <1>1, FlattenedPlaces
<1>3. \A k \in 1 .. Len(G) : DOMAIN G[k] = 1 .. Len(G[k])
  BY ElementOfSeq, LenProperties
<1>4. ASSUME NEW a \in 1 .. Len(F), NEW b \in 1 .. Len(F), F[a] = F[b] PROVE a = b
  <2>1. PICK k \in 1 .. Len(G) : \E i \in 1 .. Len(G[k]) : a = off[k - 1] + i /\ F[a] = G[k][i]
    BY <1>2 DEF FoundIn
  <2>2. PICK i \in 1 .. Len(G[k]) : a = off[k - 1] + i /\ F[a] = G[k][i]
    BY <2>1
  <2>3. PICK l \in 1 .. Len(G) : \E j \in 1 .. Len(G[l]) : b = off[l - 1] + j /\ F[b] = G[l][j]
    BY <1>2 DEF FoundIn
  <2>4. PICK j \in 1 .. Len(G[l]) : b = off[l - 1] + j /\ F[b] = G[l][j]
    BY <2>3
  <2>5. G[k][i] \in ToSet(G[k]) /\ G[l][j] \in ToSet(G[l])
    BY <1>3 DEF ToSet
  <2>6. k = l
    BY <1>4, <2>2, <2>4, <2>5
  <2>7. i = j
    BY <1>3, <1>4, <2>2, <2>4, <2>6 DEF IsInjective
  <2> QED
    BY <2>2, <2>4, <2>6, <2>7
<1> QED
  BY <1>2, <1>4 DEF IsInjective

-----------------------------------------------------------------------------

(***************************************************************************)
(* The function that FoldFunction computes a sum of naturals with, from    *)
(* one on: iter[s] is the sum over the elements of s.                      *)
(***************************************************************************)
LEMMA SumIsPositive ==
    ASSUME NEW f, IsFiniteSet(DOMAIN f), \A x \in DOMAIN f : f[x] \in Nat,
           NEW iter,
           iter = CHOOSE g : g =
               [s \in SUBSET DOMAIN f |->
                   IF s = {} THEN 1
                   ELSE f[CHOOSE x \in s : TRUE] + g[s \ {CHOOSE x \in s : TRUE}]]
    PROVE  iter[DOMAIN f] \in Nat \ {0}
<1> DEFINE S == DOMAIN f
           Some(s) == CHOOSE x \in s : TRUE
           Row(g, s) == IF s = {} THEN 1 ELSE f[Some(s)] + g[s \ {Some(s)}]
           Small(n) == {s \in SUBSET S : Cardinality(s) <= n}
           Solves(g, n) == g = [s \in Small(n) |-> Row(g, s)]
<1>1. /\ Cardinality(S) \in Nat
      /\ \A s \in SUBSET S : /\ IsFiniteSet(s) /\ Cardinality(s) \in Nat
                             /\ Cardinality(s) <= Cardinality(S)
  BY FS_Subset, FS_CardinalityType
<1>2. ASSUME NEW s \in SUBSET S, s # {}
      PROVE  /\ Some(s) \in s /\ s \ {Some(s)} \in SUBSET S
             /\ Cardinality(s \ {Some(s)}) = Cardinality(s) - 1
  <2>1. Some(s) \in s
    BY <1>2
  <2> HIDE DEF Some
  <2> QED
    BY <1>1, <2>1, FS_RemoveElement
<1>3. \E g : Solves(g, 0)
  <2> DEFINE g == [s \in Small(0) |-> 1]
  <2>1. ASSUME NEW s \in Small(0) PROVE s = {}
    BY <1>1, <2>1, FS_EmptySet
  <2> HIDE DEF Small
  <2>2. g = [s \in Small(0) |-> Row(g, s)]
    BY <2>1
  <2> HIDE DEF g, Row
  <2> QED
    BY <2>2
<1>4. ASSUME NEW n \in Nat, NEW h, Solves(h, n)
      PROVE  \E g : Solves(g, n + 1)
  <2> DEFINE g == [s \in Small(n + 1) |-> IF s \in Small(n) THEN h[s] ELSE Row(h, s)]
  <2>1. ASSUME NEW s \in Small(n + 1) PROVE g[s] = Row(g, s)
    <3>1. s \in SUBSET S /\ Cardinality(s) <= n + 1 /\ Cardinality(s) \in Nat
      BY <1>1
    <3>2. Row(g, s) = Row(h, s)
      <4>1. CASE s = {}
        BY <4>1
      <4>2. CASE s # {}
        <5>1. s \ {Some(s)} \in Small(n) /\ s \ {Some(s)} \in Small(n + 1)
          BY <1>2, <3>1, <4>2
        <5> HIDE DEF Some, Small
        <5> QED
          BY <5>1
      <4> QED
        BY <4>1, <4>2
    <3>3. ASSUME s \in Small(n) PROVE h[s] = Row(h, s)
      <4> HIDE DEF Small, Row
      <4> QED
        BY <1>4, <3>3
    <3> HIDE DEF Small, Row
    <3> QED
      BY <3>2, <3>3
  <2>2. g = [s \in Small(n + 1) |-> g[s]]
    OBVIOUS
  <2> HIDE DEF g, Row, Small
  <2>3. g = [s \in Small(n + 1) |-> Row(g, s)]
    BY <2>1, <2>2
  <2> QED
    BY <2>3
<1>5. \E g : Solves(g, Cardinality(S))
  <2> DEFINE I == {n \in Nat : ~ \E g : Solves(g, n)}
  <2>1. SUFFICES ASSUME I # {} PROVE FALSE
    BY <1>1
  <2> HIDE DEF Solves
  <2>2. PICK m \in I : \A k \in I : m <= k
    BY <2>1, LeastElement
  <2>3. m \in Nat \ {0}
    BY <1>3, <2>2
  <2>4. m - 1 \in Nat /\ m - 1 \notin I
    BY <2>2, <2>3
  <2>5. \E g : Solves(g, m - 1)
    BY <2>4
  <2>6. m - 1 + 1 = m
    BY <2>3
  <2>7. \E g : Solves(g, m)
    BY <1>4, <2>4, <2>5, <2>6
  <2> QED
    BY <2>2, <2>7
<1>6. Small(Cardinality(S)) = SUBSET S
  BY <1>1
<1>7. \E g : g = [s \in SUBSET S |-> Row(g, s)]
  <2> HIDE DEF Row, Small
  <2> QED
    BY <1>5, <1>6
<1>8. iter = CHOOSE g : g = [s \in SUBSET S |-> Row(g, s)]
  OBVIOUS
<1> HIDE DEF Row
<1>9. iter = [s \in SUBSET S |-> Row(iter, s)]
  BY <1>7, <1>8
<1>10. ASSUME NEW s \in SUBSET S PROVE iter[s] = Row(iter, s)
  BY <1>9
<1>11. ASSUME NEW s \in SUBSET S PROVE iter[s] \in Nat \ {0}
  <2> DEFINE I == {n \in Nat : \E r \in SUBSET S : Cardinality(r) = n /\ iter[r] \notin Nat \ {0}}
  <2>1. SUFFICES ASSUME iter[s] \notin Nat \ {0} PROVE FALSE
    OBVIOUS
  <2>2. I # {}
    BY <1>1, <2>1
  <2>3. PICK m \in I : \A k \in I : m <= k
    BY <2>2, LeastElement
  <2>4. PICK r \in SUBSET S : Cardinality(r) = m /\ iter[r] \notin Nat \ {0}
    BY <2>3
  <2>5. ASSUME r = {} PROVE FALSE
    <3>1. iter[r] = 1
      BY <1>10, <2>5 DEF Row
    <3> QED
      BY <2>4, <3>1
  <2>6. /\ Some(r) \in r /\ r \ {Some(r)} \in SUBSET S
        /\ Cardinality(r \ {Some(r)}) = m - 1
    BY <1>2, <2>4, <2>5
  <2>7. iter[r] = f[Some(r)] + iter[r \ {Some(r)}]
    BY <1>10, <2>5 DEF Row
  <2>8. m - 1 \in Nat /\ m - 1 \notin I
    <3>1. m - 1 \in Nat
      BY <1>1, <2>6
    <3>2. ~(m <= m - 1)
      BY <2>3
    <3> HIDE DEF I
    <3> QED
      BY <2>3, <3>1, <3>2
  <2>9. iter[r \ {Some(r)}] \in Nat \ {0}
    BY <2>6, <2>8
  <2>10. f[Some(r)] \in Nat
    BY <2>6
  <2> QED
    BY <2>4, <2>7, <2>9, <2>10
<1> QED
  BY <1>11

=============================================================================
