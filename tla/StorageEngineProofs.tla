------------------------ MODULE StorageEngineProofs ------------------------
(***************************************************************************)
(* The storage engine, for every set of pages, rows and sizes.  First what *)
(* its operators compute; then who owns a page, action by action; then the *)
(* chains, the rows, the row counts, and the table store it implements.    *)
(***************************************************************************)
EXTENDS StorageEngine, SequenceLemmas

(* The equation that defines the chains of n links has a solution. *)
LEMMA ChainFromUnfolds ==
    ASSUME NEW next
    PROVE  \E up :
            /\ \A p : ChainFrom(next, p) = up[Cardinality(Pages)][p]
            /\ \A q \in DOMAIN next : up[0][q] = <<q>>
            /\ \A n \in 1 .. Cardinality(Pages) : \A q \in DOMAIN next :
                up[n][q] = IF next[q] = NoPage THEN <<q>>
                           ELSE IF next[q] \in DOMAIN next
                                THEN <<q>> \o up[n - 1][next[q]]
                                ELSE <<q, next[q]>>
<1> DEFINE Row(f, n) ==
               [q \in DOMAIN next |->
                   IF n = 0 \/ next[q] = NoPage THEN <<q>>
                   ELSE IF next[q] \in DOMAIN next THEN <<q>> \o f[n - 1][next[q]]
                   ELSE <<q, next[q]>>]
           Solves(f, k) == f = [n \in 0 .. k |-> Row(f, n)]
           up == CHOOSE f : Solves(f, Cardinality(Pages))
<1>1. \A p : ChainFrom(next, p) = up[Cardinality(Pages)][p]
  BY DEF ChainFrom
<1>2. Cardinality(Pages) \in Nat
  BY EngineAssumption, FS_CardinalityType
<1>3. ASSUME NEW k \in Nat, NEW f, Solves(f, k)
      PROVE  \E g : Solves(g, k + 1)
  <2> DEFINE g == [n \in 0 .. k + 1 |-> IF n = k + 1 THEN Row(f, n) ELSE f[n]]
  <2>1. ASSUME NEW n \in 0 .. k + 1 PROVE g[n] = Row(g, n)
    <3>1. n = 0 \/ f[n - 1] = g[n - 1]
      BY <2>1
    <3>2. Row(f, n) = Row(g, n)
      BY <3>1
    <3>3. ASSUME n # k + 1 PROVE f[n] = Row(f, n)
      <4>1. n \in 0 .. k
        BY <2>1, <3>3
      <4> HIDE DEF Row
      <4> QED
        BY <1>3, <4>1
    <3> QED
      BY <3>2, <3>3
  <2>2. g = [n \in 0 .. k + 1 |-> g[n]]
    OBVIOUS
  <2> HIDE DEF g, Row
  <2>3. g = [n \in 0 .. k + 1 |-> Row(g, n)]
    BY <2>1, <2>2
  <2> QED
    BY <2>3
<1>4. \E f : Solves(f, 0)
  <2> DEFINE g == [n \in 0 .. 0 |-> [q \in DOMAIN next |-> <<q>>]]
  <2>1. ASSUME NEW n \in 0 .. 0 PROVE Row(g, n) = [q \in DOMAIN next |-> <<q>>]
    <3>1. n = 0
      BY <2>1
    <3> QED
      BY <3>1
  <2> HIDE DEF Row
  <2>2. Solves(g, 0)
    BY <2>1
  <2> QED
    BY <2>2
<1>5. \E f : Solves(f, Cardinality(Pages))
  <2> DEFINE I == {k \in Nat : ~ \E f : Solves(f, k)}
  <2>1. SUFFICES ASSUME I # {} PROVE FALSE
    BY <1>2
  <2> HIDE DEF Solves
  <2>2. PICK m \in I : \A k \in I : m <= k
    BY <2>1, LeastElement
  <2>3. m \in Nat \ {0}
    BY <1>4, <2>2
  <2>4. m - 1 \in Nat /\ m - 1 \notin I
    BY <2>2, <2>3
  <2>5. \E f : Solves(f, m - 1)
    BY <2>4
  <2>6. m - 1 + 1 = m
    BY <2>3
  <2>7. \E g : Solves(g, m)
    BY <1>3, <2>4, <2>5, <2>6
  <2> QED
    BY <2>2, <2>7
<1> HIDE DEF up, Row
<1>6. Solves(up, Cardinality(Pages))
  BY <1>5 DEF up
<1>7. \A n \in 0 .. Cardinality(Pages) : up[n] = Row(up, n)
  BY <1>6
<1>8. \A q \in DOMAIN next : up[0][q] = <<q>>
  <2>1. up[0] = Row(up, 0)
    BY <1>2, <1>7
  <2> QED
    BY <2>1 DEF Row
<1>9. ASSUME NEW n \in 1 .. Cardinality(Pages), NEW q \in DOMAIN next
      PROVE  up[n][q] = IF next[q] = NoPage THEN <<q>>
                        ELSE IF next[q] \in DOMAIN next
                             THEN <<q>> \o up[n - 1][next[q]]
                             ELSE <<q, next[q]>>
  <2>1. up[n] = Row(up, n) /\ n # 0
    BY <1>2, <1>7
  <2> QED
    BY <2>1 DEF Row
<1> QED
  BY <1>1, <1>8, <1>9

(***************************************************************************)
(* Who owns which page: the pages D belong to chains, one for each of the  *)
(* keys.  head, next and owner say where a chain begins, which page        *)
(* follows a page, and to which key's chain it belongs; place counts the   *)
(* pages of a chain.                                                       *)
(***************************************************************************)
Ownership(D, keys, head, next, owner, place) ==
    /\ owner \in [D -> keys] /\ place \in [D -> Nat]
    /\ \A k \in keys : head[k] \in D /\ owner[head[k]] = k /\ place[head[k]] = 1
    /\ \A p \in D : next[p] # NoPage =>
        next[p] \in D /\ owner[next[p]] = owner[p] /\ place[next[p]] = place[p] + 1
    /\ \A p \in D : p = head[owner[p]] \/ \E q \in D : next[q] = p

(* c runs from p along the links, through pages of one owner. *)
Follows(c, p, D, next, owner, place) ==
    /\ c \in Seq(D) /\ Len(c) \in Nat \ {0} /\ c[1] = p
    /\ \A i \in 1 .. Len(c) :
        c[i] \in D /\ owner[c[i]] = owner[p] /\ place[c[i]] = place[p] + i - 1
    /\ \A i \in 1 .. Len(c) - 1 : c[i + 1] = next[c[i]]

(* The first page alone. *)
LEMMA FollowsOne ==
    ASSUME NEW D, NEW next, NEW owner, NEW place \in [D -> Nat], NEW q \in D
    PROVE  Follows(<<q>>, q, D, next, owner, place) /\ Len(<<q>>) = 1
BY DEF Follows

(* A page more in front of them, if it links to the first. *)
LEMMA FollowsMore ==
    ASSUME NEW D, NEW keys, NEW head, NEW next, NEW owner, NEW place,
           Ownership(D, keys, head, next, owner, place),
           NEW q \in D, next[q] # NoPage, NEW c,
           Follows(c, next[q], D, next, owner, place)
    PROVE  /\ Follows(<<q>> \o c, q, D, next, owner, place)
           /\ Len(<<q>> \o c) = Len(c) + 1
           /\ (<<q>> \o c)[Len(c) + 1] = c[Len(c)]
<1> DEFINE d == <<q>> \o c
<1>1. <<q>> \in Seq(D) /\ Len(<<q>>) = 1 /\ <<q>>[1] = q
  OBVIOUS
<1>2. c \in Seq(D) /\ Len(c) \in Nat \ {0} /\ c[1] = next[q]
  BY DEF Follows
<1>3. /\ d \in Seq(D) /\ Len(d) = Len(c) + 1
      /\ \A i \in 1 .. Len(c) + 1 : d[i] = IF i = 1 THEN q ELSE c[i - 1]
  BY <1>1, <1>2, ConcatProperties
<1>4. /\ owner[next[q]] = owner[q] /\ place[next[q]] = place[q] + 1
      /\ place[q] \in Nat
  BY DEF Ownership
<1> HIDE DEF d
<1>5. ASSUME NEW i \in 1 .. Len(d)
      PROVE  d[i] \in D /\ owner[d[i]] = owner[q] /\ place[d[i]] = place[q] + i - 1
  <2>1. CASE i = 1
    BY <1>3, <1>4, <2>1
  <2>2. CASE i # 1
    <3>1. i - 1 \in 1 .. Len(c) /\ d[i] = c[i - 1]
      BY <1>2, <1>3, <2>2
    <3>2. /\ c[i - 1] \in D /\ owner[c[i - 1]] = owner[next[q]]
          /\ place[c[i - 1]] = place[next[q]] + (i - 1) - 1
      BY <3>1 DEF Follows
    <3> QED
      BY <1>4, <3>1, <3>2
  <2> QED
    BY <2>1, <2>2
<1>6. ASSUME NEW i \in 1 .. Len(d) - 1 PROVE d[i + 1] = next[d[i]]
  <2>1. CASE i = 1
    BY <1>2, <1>3, <2>1
  <2>2. CASE i # 1
    <3>1. i - 1 \in 1 .. Len(c) - 1 /\ i - 1 + 1 = i /\ i \in 1 .. Len(c)
      BY <1>2, <1>3, <2>2
    <3>2. c[i] = next[c[i - 1]]
      BY <3>1 DEF Follows
    <3> QED
      BY <1>2, <1>3, <2>2, <3>1, <3>2
  <2> QED
    BY <2>1, <2>2
<1>7. d[1] = q /\ d[Len(c) + 1] = c[Len(c)]
  BY <1>2, <1>3
<1>8. Follows(d, q, D, next, owner, place)
  BY <1>2, <1>3, <1>5, <1>6, <1>7 DEF Follows
<1> QED
  BY <1>3, <1>7, <1>8 DEF d

(* The chain from an owned page follows the links to the last one. *)
LEMMA ChainFollows ==
    ASSUME NEW next, DOMAIN next \subseteq Pages, NEW D \in SUBSET DOMAIN next,
           NEW keys, NEW head, NEW owner, NEW place,
           Ownership(D, keys, head, next, owner, place),
           NEW p \in D, NEW c, c = ChainFrom(next, p)
    PROVE  /\ Follows(c, p, D, next, owner, place)
           /\ IsInjective(c)
           /\ next[c[Len(c)]] = NoPage
<1> DEFINE N == Cardinality(Pages)
           Sound(f, q, n) ==
               /\ Follows(f, q, D, next, owner, place)
               /\ next[f[Len(f)]] = NoPage \/ Len(f) = n + 1
<1>1. N \in Nat
  BY EngineAssumption, FS_CardinalityType
<1>2. PICK up :
          /\ \A q : ChainFrom(next, q) = up[N][q]
          /\ \A q \in DOMAIN next : up[0][q] = <<q>>
          /\ \A n \in 1 .. N : \A q \in DOMAIN next :
              up[n][q] = IF next[q] = NoPage THEN <<q>>
                         ELSE IF next[q] \in DOMAIN next
                              THEN <<q>> \o up[n - 1][next[q]]
                              ELSE <<q, next[q]>>
  BY ChainFromUnfolds
<1> HIDE DEF N
<1>3. place \in [D -> Nat]
  BY DEF Ownership
<1>4. \A q \in D : Sound(up[0][q], q, 0)
  <2>1. ASSUME NEW q \in D PROVE Sound(<<q>>, q, 0)
    <3>1. Follows(<<q>>, q, D, next, owner, place) /\ Len(<<q>>) = 1
      BY <1>3, FollowsOne
    <3> QED
      BY <3>1
  <2> HIDE DEF Sound
  <2> QED
    BY <1>2, <2>1
<1>5. ASSUME NEW n \in 1 .. N, \A q \in D : Sound(up[n - 1][q], q, n - 1), NEW q \in D
      PROVE  Sound(up[n][q], q, n)
  <2>1. CASE next[q] = NoPage
    <3>1. up[n][q] = <<q>>
      BY <1>2, <2>1
    <3>2. <<q>>[Len(<<q>>)] = q
      OBVIOUS
    <3> QED
      BY <1>3, <2>1, <3>1, <3>2, FollowsOne
  <2>2. CASE next[q] # NoPage
    <3>1. next[q] \in D
      BY <2>2 DEF Ownership
    <3>2. up[n][q] = <<q>> \o up[n - 1][next[q]]
      BY <1>2, <2>2, <3>1
    <3>3. PICK f : f = up[n - 1][next[q]]
      OBVIOUS
    <3>4. Sound(f, next[q], n - 1)
      BY <1>5, <3>1, <3>3
    <3>5. /\ Follows(<<q>> \o f, q, D, next, owner, place)
          /\ Len(<<q>> \o f) = Len(f) + 1
          /\ (<<q>> \o f)[Len(f) + 1] = f[Len(f)]
      BY <2>2, <3>4, FollowsMore
    <3> QED
      BY SMTT(30), <3>2, <3>3, <3>4, <3>5
  <2> QED
    BY <2>1, <2>2
<1>6. \A q \in D : Sound(up[N][q], q, N)
  <2> DEFINE I == {n \in 0 .. N : ~ \A q \in D : Sound(up[n][q], q, n)}
  <2>1. SUFFICES ASSUME I # {} PROVE FALSE
    BY <1>1
  <2> HIDE DEF Sound
  <2>2. I \in SUBSET Nat
    OBVIOUS
  <2>3. PICK m \in I : \A k \in I : m <= k
    BY <2>1, <2>2, LeastElement
  <2>4. m \in 1 .. N /\ m - 1 \in 0 .. N
    BY <1>1, <1>4, <2>3
  <2>5. m - 1 \notin I
    BY <2>3, <2>4
  <2> QED
    BY <1>5, <2>3, <2>4, <2>5
<1>7. Sound(c, p, N)
  BY <1>2, <1>6
<1>8. IsInjective(c)
  <2>1. DOMAIN c = 1 .. Len(c)
    BY <1>7, LenProperties DEF Follows
  <2> QED
    BY <1>7, <2>1, <1>3 DEF IsInjective, Follows
<1>9. Len(c) # N + 1
  <2>1. c \in [1 .. Len(c) -> D] /\ Len(c) \in Nat
    BY <1>7, LenProperties DEF Follows
  <2>2. c \in [1 .. Len(c) -> Pages]
    BY <2>1
  <2>3. c \in Injection(1 .. Len(c), Pages)
    BY <1>8, <2>2 DEF Injection, IsInjective
  <2>4. Cardinality(1 .. Len(c)) <= Cardinality(Pages)
    BY <2>3, FS_Injection, EngineAssumption
  <2>5. PICK n \in Nat : n = Len(c)
    BY <2>1
  <2>6. Cardinality(1 .. n) = n
    BY FS_Interval
  <2> QED
    BY <1>1, <2>1, <2>4, <2>5, <2>6 DEF N
<1> QED
  BY <1>7, <1>8, <1>9

(* The chain of a key has all the pages that belong to the key. *)
LEMMA ChainCovers ==
    ASSUME NEW next, DOMAIN next \subseteq Pages, NEW D \in SUBSET DOMAIN next,
           NEW keys, NEW head, NEW owner, NEW place,
           Ownership(D, keys, head, next, owner, place),
           NEW k \in keys, NEW c, c = ChainFrom(next, head[k])
    PROVE  /\ Follows(c, head[k], D, next, owner, place)
           /\ IsInjective(c)
           /\ next[c[Len(c)]] = NoPage
           /\ ToSet(c) = {q \in D : owner[q] = k}
<1>1. head[k] \in D /\ owner[head[k]] = k /\ place \in [D -> Nat]
  BY DEF Ownership
<1>2. /\ Follows(c, head[k], D, next, owner, place)
      /\ IsInjective(c)
      /\ next[c[Len(c)]] = NoPage
  BY <1>1, ChainFollows
<1>3. DOMAIN c = 1 .. Len(c) /\ Len(c) \in Nat \ {0}
  BY <1>2, LenProperties DEF Follows
<1>4. ToSet(c) \subseteq {q \in D : owner[q] = k}
  BY <1>1, <1>2, <1>3 DEF ToSet, Follows
<1>5. ASSUME NEW q \in D, owner[q] = k, q \notin ToSet(c) PROVE FALSE
  <2> DEFINE I == {n \in Nat : \E r \in D : owner[r] = k /\ r \notin ToSet(c) /\ place[r] = n}
  <2>1. I # {}
    BY <1>1, <1>5
  <2>2. PICK m \in I : \A n \in I : m <= n
    BY <2>1, LeastElement
  <2>3. PICK r \in D : owner[r] = k /\ r \notin ToSet(c) /\ place[r] = m
    BY <2>2
  <2>4. c[1] = head[k] /\ c[1] \in ToSet(c)
    BY <1>2, <1>3 DEF ToSet, Follows
  <2>5. PICK s \in D : next[s] = r
    BY <2>3, <2>4 DEF Ownership
  <2>6. r # NoPage
    BY EngineAssumption
  <2>7. owner[s] = k /\ place[r] = place[s] + 1 /\ place[s] \in Nat
    BY <1>1, <2>3, <2>5, <2>6 DEF Ownership
  <2>8. s \in ToSet(c)
    <3>1. SUFFICES ASSUME s \notin ToSet(c) PROVE FALSE
      OBVIOUS
    <3>2. place[s] \in I
      BY <2>7, <3>1
    <3>3. m \in Nat
      OBVIOUS
    <3> HIDE DEF I
    <3> QED
      BY <2>2, <2>3, <2>7, <3>2, <3>3
  <2>9. PICK i \in 1 .. Len(c) : c[i] = s
    BY <1>3, <2>8 DEF ToSet
  <2>10. i # Len(c)
    BY <1>2, <2>5, <2>6, <2>9
  <2>11. i \in 1 .. Len(c) - 1 /\ i + 1 \in 1 .. Len(c)
    BY <1>3, <2>10
  <2>12. c[i + 1] = r
    BY <1>2, <2>5, <2>9, <2>11 DEF Follows
  <2> QED
    BY <1>3, <2>3, <2>11, <2>12 DEF ToSet
<1> QED
  BY <1>2, <1>4, <1>5

(* From one page along the same links to an end there is one path. *)
LEMMA OnePath ==
    ASSUME NEW c, NEW d, NEW n, NEW m, NEW S, NEW T,
           c \in Seq(S), d \in Seq(T), Len(c) # 0, Len(d) # 0,
           NoPage \notin S, NoPage \notin T, c[1] = d[1],
           \A i \in 1 .. Len(c) - 1 : c[i + 1] = n[c[i]],
           \A i \in 1 .. Len(d) - 1 : d[i + 1] = m[d[i]],
           n[c[Len(c)]] = NoPage, m[d[Len(d)]] = NoPage,
           \A i \in 1 .. Len(c) : n[c[i]] = m[c[i]]
    PROVE  c = d
<1>1. /\ Len(c) \in Nat \ {0} /\ Len(d) \in Nat \ {0}
      /\ \A i \in 1 .. Len(c) : c[i] \in S
      /\ \A i \in 1 .. Len(d) : d[i] \in T
      /\ DOMAIN c = 1 .. Len(c) /\ DOMAIN d = 1 .. Len(d)
      /\ c \in [1 .. Len(c) -> S] /\ d \in [1 .. Len(d) -> T]
  BY LenProperties, ElementOfSeq
<1> DEFINE I == {i \in Nat \ {0} : i \in 1 .. Len(c) /\ ~(i \in 1 .. Len(d) /\ c[i] = d[i])}
<1>2. I = {}
  <2>1. SUFFICES ASSUME I # {} PROVE FALSE
    OBVIOUS
  <2>2. I \in SUBSET Nat
    OBVIOUS
  <2>3. PICK i \in I : \A k \in I : i <= k
    BY <2>1, <2>2, LeastElement
  <2>4. i # 1
    BY <1>1, <2>3
  <2>5. i - 1 \in 1 .. Len(c) - 1 /\ i - 1 + 1 = i /\ i - 1 \in Nat \ {0}
    BY <1>1, <2>3, <2>4
  <2>6. i - 1 \notin I
    BY <2>3, <2>5
  <2>7. i - 1 \in 1 .. Len(d) /\ c[i - 1] = d[i - 1]
    BY <1>1, <2>5, <2>6
  <2>8. c[i] = n[c[i - 1]] /\ n[c[i - 1]] = m[c[i - 1]]
    BY <1>1, <2>5
  <2>9. CASE i - 1 = Len(d)
    BY <1>1, <2>3, <2>5, <2>7, <2>8, <2>9
  <2>10. CASE i - 1 # Len(d)
    <3>1. i - 1 \in 1 .. Len(d) - 1 /\ i \in 1 .. Len(d)
      BY <1>1, <2>5, <2>7, <2>10
    <3>2. d[i] = m[d[i - 1]]
      BY <2>5, <3>1
    <3> QED
      BY <2>3, <2>7, <2>8, <3>1, <3>2
  <2> QED
    BY <2>9, <2>10
<1>3. \A i \in 1 .. Len(c) : i \in 1 .. Len(d) /\ c[i] = d[i]
  BY <1>1, <1>2
<1>4. Len(c) = Len(d)
  <2>1. Len(c) \in 1 .. Len(c) /\ Len(c) <= Len(d)
    BY <1>1, <1>3
  <2>2. ASSUME Len(c) < Len(d) PROVE FALSE
    <3>1. Len(c) \in 1 .. Len(d) - 1 /\ Len(c) + 1 \in 1 .. Len(d)
      BY <1>1, <2>2
    <3>2. d[Len(c) + 1] = m[d[Len(c)]]
      BY <3>1
    <3> QED
      BY <1>1, <1>3, <2>1, <3>1, <3>2
  <2>3. Len(c) \in Nat /\ Len(d) \in Nat
    BY <1>1
  <2> QED
    BY <2>1, <2>2, <2>3
<1> QED
  BY <1>1, <1>3, <1>4

-----------------------------------------------------------------------------

(* The pages of some of the keys, when their links stay. *)
LEMMA OwnershipOfFewer ==
    ASSUME NEW D, NEW keys, NEW head, NEW next, NEW owner, NEW place,
           Ownership(D, keys, head, next, owner, place),
           NEW keys2 \in SUBSET keys, NEW head2, NEW next2, NEW D2,
           D2 = {p \in D : owner[p] \in keys2},
           \A k \in keys2 : head2[k] = head[k],
           \A p \in D2 : next2[p] = next[p], NoPage \notin D,
           NEW o, o = [p \in D2 |-> owner[p]], NEW l, l = [p \in D2 |-> place[p]]
    PROVE  Ownership(D2, keys2, head2, next2, o, l)
<1>1. o \in [D2 -> keys2] /\ l \in [D2 -> Nat]
  BY DEF Ownership
<1>2. \A k \in keys2 : head2[k] \in D2 /\ o[head2[k]] = k /\ l[head2[k]] = 1
  BY DEF Ownership
<1>3. ASSUME NEW p \in D2, next2[p] # NoPage
      PROVE  next2[p] \in D2 /\ o[next2[p]] = o[p] /\ l[next2[p]] = l[p] + 1
  BY <1>3 DEF Ownership
<1>4. ASSUME NEW p \in D2 PROVE p = head2[o[p]] \/ \E q \in D2 : next2[q] = p
  <2>1. p = head[owner[p]] \/ \E q \in D : next[q] = p
    BY DEF Ownership
  <2>2. ASSUME NEW q \in D, next[q] = p PROVE q \in D2 /\ next2[q] = p
    BY <2>2 DEF Ownership
  <2> QED
    BY <2>1, <2>2
<1> QED
  BY <1>1, <1>2, <1>3, <1>4 DEF Ownership

(* Two sets of keys together. *)
LEMMA OwnershipOfBoth ==
    ASSUME NEW D, NEW keys, NEW owner, NEW place,
           NEW D2, NEW keys2, NEW owner2, NEW place2, NEW head, NEW next,
           Ownership(D, keys, head, next, owner, place),
           Ownership(D2, keys2, head, next, owner2, place2),
           D \cap D2 = {}, NEW E, E = D \cup D2, NEW K, K = keys \cup keys2,
           NEW o, o = [p \in E |-> IF p \in D THEN owner[p] ELSE owner2[p]],
           NEW l, l = [p \in E |-> IF p \in D THEN place[p] ELSE place2[p]]
    PROVE  Ownership(E, K, head, next, o, l)
<1>1. /\ \A p \in D : o[p] = owner[p] /\ l[p] = place[p] /\ p \in E
      /\ \A p \in D2 : o[p] = owner2[p] /\ l[p] = place2[p] /\ p \in E
  OBVIOUS
<1>2. o \in [E -> K] /\ l \in [E -> Nat]
  BY DEF Ownership
<1>3. \A k \in K : head[k] \in E /\ o[head[k]] = k /\ l[head[k]] = 1
  BY <1>1 DEF Ownership
<1>4. \A p \in E : next[p] # NoPage =>
          /\ next[p] \in E /\ o[next[p]] = o[p]
          /\ l[next[p]] = l[p] + 1
  BY <1>1 DEF Ownership
<1>5. \A p \in E : p = head[o[p]] \/ \E q \in E : next[q] = p
  BY <1>1 DEF Ownership
<1> QED
  BY <1>2, <1>3, <1>4, <1>5 DEF Ownership

(* One more page behind the last one of a chain. *)
LinksTo(D, last, p, next, next2) ==
    /\ last \in D /\ p \notin D /\ p # NoPage /\ NoPage \notin D
    /\ next[last] = NoPage /\ next2[last] = p /\ next2[p] = NoPage
    /\ \A q \in D \ {last} : next2[q] = next[q]

(* The chain of a key gets longer by the page its last one links to. *)
LEMMA OwnershipLonger ==
    ASSUME NEW D, NEW keys, NEW head, NEW next, NEW owner, NEW place,
           Ownership(D, keys, head, next, owner, place),
           NEW last, NEW p, NEW next2, LinksTo(D, last, p, next, next2),
           NEW E, E = D \cup {p},
           NEW o, o = [q \in E |-> IF q = p THEN owner[last] ELSE owner[q]],
           NEW l, l = [q \in E |-> IF q = p THEN place[last] + 1 ELSE place[q]]
    PROVE  Ownership(E, keys, head, next2, o, l)
<1> /\ last \in D /\ p \notin D /\ p # NoPage /\ NoPage \notin D
    /\ next[last] = NoPage /\ next2[last] = p /\ next2[p] = NoPage
    /\ \A q \in D \ {last} : next2[q] = next[q]
  BY DEF LinksTo
<1>1. /\ \A q \in D : o[q] = owner[q] /\ l[q] = place[q] /\ q # p /\ q \in E
      /\ o[p] = owner[last] /\ l[p] = place[last] + 1 /\ p \in E
      /\ \A q \in E : q = p \/ q \in D
  OBVIOUS
<1>2. o \in [E -> keys] /\ l \in [E -> Nat]
  BY DEF Ownership
<1>3. \A k \in keys : head[k] \in E /\ o[head[k]] = k /\ l[head[k]] = 1
  BY <1>1 DEF Ownership
<1>4. \A q \in E : next2[q] # NoPage =>
          next2[q] \in E /\ o[next2[q]] = o[q] /\ l[next2[q]] = l[q] + 1
  BY <1>1 DEF Ownership
<1>5. \A q \in E : q = head[o[q]] \/ \E r \in E : next2[r] = q
  <2>1. ASSUME NEW q \in D, NEW r \in D, next[r] = q PROVE next2[r] = q
    BY <2>1, EngineAssumption, <1>1 DEF Ownership
  <2> QED
    BY <1>1, <2>1 DEF Ownership
<1> QED
  BY <1>2, <1>3, <1>4, <1>5 DEF Ownership

-----------------------------------------------------------------------------

(* Every tuple takes up room: the lengths are stored, whatever the data. *)
LEMMA TupleSizePositive ==
    ASSUME NEW row \in Rows
    PROVE  TupleSize(row) \in Nat \ {0}
<1> DEFINE f == [c \in DOMAIN row |->
                    IF c \in Spilled(row) THEN PointerSize ELSE Len(row[c].data)]
<1>1. row \in Seq(Column)
  BY EngineAssumption
<1>2. /\ DOMAIN row = 1 .. Len(row) /\ Len(row) \in Nat
      /\ \A c \in DOMAIN row : row[c] \in Column
  BY <1>1, LenProperties, ElementOfSeq
<1>3. \A c \in DOMAIN row : Len(row[c].data) \in Nat
  BY <1>2, LenProperties DEF Column
<1>4. IsFiniteSet(DOMAIN row)
  BY <1>2, FS_Interval
<1>5. \A c \in DOMAIN row : f[c] \in Nat
  BY <1>3, EngineAssumption
<1>6. \E iter :
          /\ TupleSize(row) = iter[DOMAIN f]
          /\ iter = CHOOSE g : g =
                 [s \in SUBSET DOMAIN f |->
                     IF s = {} THEN 1
                     ELSE f[CHOOSE x \in s : TRUE] + g[s \ {CHOOSE x \in s : TRUE}]]
  BY DEF TupleSize, FoldFunction, FoldFunctionOnSet, MapThenFoldSet
<1>7. DOMAIN f = DOMAIN row
  OBVIOUS
<1> HIDE DEF f
<1> QED
  BY <1>4, <1>5, <1>6, <1>7, SumIsPositive

(* A division that is rounded up. *)
LEMMA RoundedUp ==
    ASSUME NEW l \in Nat, NEW k \in Nat \ {0}, NEW n, n = (l + k - 1) \div k
    PROVE  n \in Nat /\ (n - 1) * k < l /\ l <= n * k
OBVIOUS

(* Chunks are full but for the last one, and none is empty. *)
LEMMA ChunkSound ==
    ASSUME NEW column, column.data \in Seq(Nat), Len(column.data) > 0,
           NEW n, n = ChunksOf(column)
    PROVE  /\ n \in Nat \ {0}
           /\ (n - 1) * Capacity < Len(column.data)
           /\ \A i \in 1 .. n :
                /\ Chunk(column, i) \in Seq(Nat)
                /\ Len(Chunk(column, i)) = IF i = n THEN Len(column.data) - (n - 1) * Capacity
                                           ELSE Capacity
                /\ \A j \in 1 .. Len(Chunk(column, i)) :
                    /\ (i - 1) * Capacity + j \in 1 .. Len(column.data)
                    /\ Chunk(column, i)[j] = column.data[(i - 1) * Capacity + j]
<1>1. PICK l \in Nat \ {0}, k \in Nat \ {0} : l = Len(column.data) /\ k = Capacity
  BY LenProperties, EngineAssumption
<1>2. n \in Nat /\ (n - 1) * k < l /\ l <= n * k
  BY <1>1, RoundedUp DEF ChunksOf
<1>3. n \in Nat \ {0}
  <2>1. ASSUME n = 0 PROVE FALSE
    <3>1. n * k = 0
      BY <2>1
    <3> QED
      BY <1>2, <3>1
  <2> QED
    BY <1>2, <2>1
<1>4. ASSUME NEW i \in 1 .. n
      PROVE  /\ Chunk(column, i) \in Seq(Nat)
             /\ Len(Chunk(column, i)) = IF i = n THEN l - (n - 1) * k ELSE k
             /\ \A j \in 1 .. Len(Chunk(column, i)) :
                 /\ (i - 1) * k + j \in 1 .. l
                 /\ Chunk(column, i)[j] = column.data[(i - 1) * k + j]
  <2>1. PICK a \in Nat, b \in Int :
            /\ a = (i - 1) * k
            /\ b = IF i = n THEN l ELSE i * k
    <3>1. i - 1 \in Nat /\ i \in Nat /\ l \in Int
      OBVIOUS
    <3>2. (i - 1) * k \in Nat /\ i * k \in Int
      BY <3>1
    <3> QED
      BY <3>1, <3>2
  <2>2. a < l /\ b <= l /\ (IF i = n THEN b - a = l - (n - 1) * k ELSE b - a = k) /\ a < b
    <3>1. CASE i = n
      BY <1>2, <2>1, <3>1
    <3>2. CASE i # n
      <4>1. i <= n - 1 /\ i \in Nat /\ n - 1 \in Nat
        BY <1>2, <3>2
      <4>2. i * k <= (n - 1) * k
        BY SMTT(30), <4>1
      <4>3. i * k - (i - 1) * k = k
        OBVIOUS
      <4> QED
        BY <1>2, <2>1, <3>2, <4>1, <4>2, <4>3
    <3> QED
      BY <3>1, <3>2
  <2>3. Chunk(column, i) = SubSeq(column.data, a + 1, b)
    BY <1>1, <2>1 DEF Chunk
  <2>4. \A j \in a + 1 .. b : column.data[j] \in Nat
    <3>1. \A j \in 1 .. l : column.data[j] \in Nat
      BY <1>1, ElementOfSeq
    <3> QED
      BY <2>2, <3>1
  <2>5. /\ SubSeq(column.data, a + 1, b) \in Seq(Nat)
        /\ Len(SubSeq(column.data, a + 1, b)) = b - a
        /\ \A j \in 1 .. b - (a + 1) + 1 :
              SubSeq(column.data, a + 1, b)[j] = column.data[a + 1 + j - 1]
    <3>1. a + 1 \in Int /\ a + 1 <= b /\ b - (a + 1) + 1 = b - a
      BY <2>2
    <3> QED
      BY <2>4, <3>1, SubSeqProperties
  <2>6. ASSUME NEW j \in 1 .. b - a
        PROVE  a + j \in 1 .. l /\ Chunk(column, i)[j] = column.data[a + j]
    <3>1. j \in 1 .. b - (a + 1) + 1 /\ a + 1 + j - 1 = a + j
      OBVIOUS
    <3> QED
      BY <2>2, <2>3, <2>5, <3>1
  <2>7. Len(Chunk(column, i)) = b - a
    BY <2>3, <2>5
  <2>8. Len(Chunk(column, i)) = IF i = n THEN l - (n - 1) * k ELSE k
    BY <2>2, <2>7
  <2> QED
    BY <2>1, <2>3, <2>5, <2>6, <2>7, <2>8
<1> QED
  BY <1>1, <1>2, <1>3, <1>4

(***************************************************************************)
(* Where the pieces of a row lie: those of a spilled column one behind the *)
(* other in the order of its chunks, from first[c] on.                     *)
(***************************************************************************)
PiecesFrom(row, first) ==
    /\ first \in [Spilled(row) -> Nat \ {0}]
    /\ Pieces(row) \in Seq([column : Spilled(row), chunk : Seq(Nat)])
    /\ \A c \in Spilled(row) : \A i \in 1 .. ChunksOf(row[c]) :
        /\ first[c] + i - 1 \in 1 .. Len(Pieces(row))
        /\ Pieces(row)[first[c] + i - 1] = [column |-> c, chunk |-> Chunk(row[c], i)]
    /\ \A j \in 1 .. Len(Pieces(row)) :
        \E i \in 1 .. ChunksOf(row[Pieces(row)[j].column]) :
            j = first[Pieces(row)[j].column] + i - 1

(* The columns of a row that users pick. *)
LEMMA SpilledColumn ==
    ASSUME NEW row \in Rows
    PROVE  /\ DOMAIN row = 1 .. Len(row) /\ Len(row) \in Nat
           /\ \A c \in DOMAIN row : row[c] \in Column
           /\ \A c \in Spilled(row) :
                /\ c \in DOMAIN row /\ row[c].data \in Seq(Nat) /\ Len(row[c].data) > 0
                /\ ChunksOf(row[c]) \in Nat \ {0}
<1>1. row \in Seq(Column)
  BY EngineAssumption
<1>2. /\ DOMAIN row = 1 .. Len(row) /\ Len(row) \in Nat
      /\ \A c \in DOMAIN row : row[c] \in Column
  BY <1>1, LenProperties, ElementOfSeq
<1>3. ASSUME NEW c \in Spilled(row)
      PROVE  /\ c \in DOMAIN row /\ row[c].data \in Seq(Nat) /\ Len(row[c].data) > 0
             /\ ChunksOf(row[c]) \in Nat \ {0}
  <2>1. c \in DOMAIN row /\ row[c].data \in Seq(Nat) /\ Len(row[c].data) > Threshold
    BY <1>2 DEF Spilled, Column
  <2>2. Len(row[c].data) > 0
    BY <2>1, LenProperties, EngineAssumption
  <2> QED
    BY <2>1, <2>2, ChunkSound
<1> QED
  BY <1>2, <1>3

(* The pieces of every row lie like that. *)
LEMMA PiecesSound ==
    ASSUME NEW row \in Rows
    PROVE  \E first : PiecesFrom(row, first)
<1> DEFINE P == [column : Spilled(row), chunk : Seq(Nat)]
           count(c) == IF c \in Spilled(row) THEN ChunksOf(row[c]) ELSE 0
           block(c) == [i \in 1 .. count(c) |-> [column |-> c, chunk |-> Chunk(row[c], i)]]
           G == [c \in DOMAIN row |-> block(c)]
<1>1. DOMAIN row = 1 .. Len(row) /\ Len(row) \in Nat
  BY SpilledColumn
<1>2. ASSUME NEW c \in DOMAIN row
      PROVE  block(c) \in Seq(P) /\ Len(block(c)) = count(c) /\ count(c) \in Nat
  <2>1. count(c) \in Nat
    BY SpilledColumn
  <2>2. \A i \in 1 .. count(c) : [column |-> c, chunk |-> Chunk(row[c], i)] \in P
    <3>1. ASSUME c \in Spilled(row), NEW i \in 1 .. ChunksOf(row[c])
          PROVE  Chunk(row[c], i) \in Seq(Nat)
      BY <3>1, SpilledColumn, ChunkSound
    <3> QED
      BY <3>1
  <2>3. block(c) \in [1 .. count(c) -> P]
    <3> HIDE DEF count, P
    <3> QED
      BY <2>2
  <2> HIDE DEF count, block, P
  <2> QED
    BY <2>1, <2>3
<1>3. G \in Seq(Seq(P)) /\ Len(G) = Len(row)
  <2>1. G \in [1 .. Len(row) -> Seq(P)]
    <3> HIDE DEF block, P
    <3> QED
      BY <1>1, <1>2
  <2> HIDE DEF G, P
  <2> QED
    BY <1>1, <2>1
<1>4. PICK F : F = FlattenSeq(G)
  OBVIOUS
<1>5. Pieces(row) = F
  BY <1>4 DEF Pieces
<1>6. \A c \in DOMAIN row : G[c] = block(c)
  OBVIOUS
<1>7. \A c \in DOMAIN row : \A i \in 1 .. count(c) :
          block(c)[i] = [column |-> c, chunk |-> Chunk(row[c], i)]
  OBVIOUS
<1> HIDE DEF G, block
<1>8. PICK off : Offsets(off, G, F, P)
  <2> HIDE DEF P, count
  <2>1. PICK Q : Q = P
    OBVIOUS
  <2>2. PICK H \in Seq(Seq(Q)) : H = G
    BY <1>3, <2>1
  <2>3. F = FlattenSeq(H)
    BY <1>4, <2>2
  <2>4. \E off : Offsets(off, H, F, Q)
    BY <2>3, FlattenSeqProperties
  <2> QED
    BY <2>1, <2>2, <2>4
<1>9. /\ off \in [0 .. Len(row) -> Nat] /\ off[0] = 0
      /\ \A k \in 1 .. Len(row) : off[k] = off[k - 1] + count(k)
      /\ Len(F) = off[Len(row)]
      /\ \A k \in 1 .. Len(row) : \A i \in 1 .. count(k) :
            F[off[k - 1] + i] = [column |-> k, chunk |-> Chunk(row[k], i)]
  <2> HIDE DEF count, P
  <2>1. \A k \in 1 .. Len(row) : G[k] = block(k) /\ Len(G[k]) = count(k)
    BY <1>1, <1>2, <1>6
  <2>2. \A k \in 1 .. Len(row) : off[k] = off[k - 1] + count(k)
    BY <1>3, <1>8, <2>1 DEF Offsets
  <2>3. ASSUME NEW k \in 1 .. Len(row), NEW i \in 1 .. count(k)
        PROVE  F[off[k - 1] + i] = [column |-> k, chunk |-> Chunk(row[k], i)]
    <3>1. F[off[k - 1] + i] = G[k][i]
      BY <1>3, <1>8, <2>1 DEF Offsets
    <3> QED
      BY <1>1, <1>7, <2>1, <3>1
  <2> QED
    BY <1>3, <1>8, <2>2, <2>3 DEF Offsets
<1>10. /\ \A k, l \in 0 .. Len(row) : k <= l => off[k] <= off[l]
       /\ \A j \in 1 .. off[Len(row)] :
            \E k \in 1 .. Len(row) : \E i \in 1 .. count(k) : j = off[k - 1] + i
  <2> DEFINE ln == [k \in 1 .. Len(row) |-> count(k)]
  <2>1. /\ ln \in [1 .. Len(row) -> Nat]
        /\ \A k \in 1 .. Len(row) : ln[k] = count(k)
    <3> HIDE DEF count
    <3> QED
      BY <1>1, <1>2
  <2> HIDE DEF ln, count
  <2>2. \A k \in 1 .. Len(row) : off[k] = off[k - 1] + ln[k]
    BY <1>9, <2>1
  <2>3. /\ \A k, l \in 0 .. Len(row) : k <= l => off[k] <= off[l]
        /\ \A j \in 1 .. off[Len(row)] :
            \E k \in 1 .. Len(row) : \E i \in 1 .. ln[k] : j = off[k - 1] + i
    BY <1>1, <1>9, <2>1, <2>2, BlockOffsets
  <2> QED
    BY <2>1, <2>3
<1>11. PICK first : first = [c \in Spilled(row) |-> off[c - 1] + 1]
  OBVIOUS
<1>12. \A c \in Spilled(row) :
          /\ c \in 1 .. Len(row) /\ count(c) = ChunksOf(row[c])
          /\ off[c - 1] \in Nat /\ first[c] = off[c - 1] + 1
  BY <1>1, <1>9, <1>11, SpilledColumn
<1>13. first \in [Spilled(row) -> Nat \ {0}]
  BY <1>11, <1>12
<1>14. ASSUME NEW c \in Spilled(row), NEW i \in 1 .. ChunksOf(row[c])
       PROVE  /\ first[c] + i - 1 \in 1 .. Len(F)
              /\ F[first[c] + i - 1] = [column |-> c, chunk |-> Chunk(row[c], i)]
  <2>1. first[c] + i - 1 = off[c - 1] + i
    BY <1>12
  <2>2. off[c - 1] + i <= off[c] /\ off[c] <= off[Len(row)] /\ off[c] \in Nat
    <3>1. c \in 0 .. Len(row) /\ Len(row) \in 0 .. Len(row) /\ c <= Len(row)
      BY <1>1, <1>12
    <3>2. off[c] <= off[Len(row)] /\ off[c] \in Nat
      BY <1>9, <1>10, <3>1
    <3>3. off[c] = off[c - 1] + ChunksOf(row[c]) /\ ChunksOf(row[c]) \in Nat
      BY <1>9, <1>12, SpilledColumn
    <3> QED
      BY <1>12, <3>2, <3>3
  <2>3. off[Len(row)] \in Nat
    BY <1>1, <1>9
  <2>4. F[off[c - 1] + i] = [column |-> c, chunk |-> Chunk(row[c], i)]
    BY <1>9, <1>12
  <2>5. PICK a \in Nat, b \in Nat, l \in Nat, n \in Nat :
            /\ a = off[c - 1] /\ b = off[c] /\ l = off[Len(row)]
            /\ n = ChunksOf(row[c])
    BY <1>12, <2>2, <2>3, SpilledColumn
  <2>6. i \in 1 .. n /\ a + i <= b /\ b <= l
    BY <2>2, <2>5
  <2>7. a + i \in 1 .. l
    BY <2>6
  <2> QED
    BY <1>9, <2>1, <2>4, <2>5, <2>7
<1>15. ASSUME NEW j \in 1 .. Len(F)
       PROVE  \E i \in 1 .. ChunksOf(row[F[j].column]) : j = first[F[j].column] + i - 1
  <2>1. PICK k \in 1 .. Len(row) : \E i \in 1 .. count(k) : j = off[k - 1] + i
    BY <1>9, <1>10
  <2>2. PICK i \in 1 .. count(k) : j = off[k - 1] + i
    BY <2>1
  <2>3. k \in Spilled(row) /\ count(k) = ChunksOf(row[k])
    OBVIOUS
  <2>4. F[j].column = k
    <3>1. F[j] = [column |-> k, chunk |-> Chunk(row[k], i)]
      BY <1>9, <2>2
    <3> QED
      BY <3>1
  <2>5. j = first[k] + i - 1
    BY <1>12, <2>2, <2>3
  <2> QED
    BY <2>3, <2>4, <2>5
<1>16. PiecesFrom(row, first)
  BY <1>5, <1>8, <1>13, <1>14, <1>15 DEF PiecesFrom, Offsets
<1> QED
  BY <1>16

(* The least of a set of naturals, as SelectInSeq computes it. *)
LEMMA MinIsLeast ==
    ASSUME NEW I \in SUBSET Nat, NEW m \in I, \A k \in I : m <= k
    PROVE  Min(I) = m
<1>1. Min(I) = CHOOSE x \in I : \A y \in I : x <= y
  BY DEF Min
<1>2. ASSUME NEW x \in I, \A y \in I : x <= y PROVE x = m
  <2>1. x <= m /\ m <= x /\ x \in Nat /\ m \in Nat
    BY <1>2
  <2> QED
    BY <2>1
<1> QED
  BY <1>1, <1>2

(* The first piece of a column is the one its pointer names. *)
LEMMA FirstPiece ==
    ASSUME NEW row \in Rows, NEW first, PiecesFrom(row, first), NEW c \in Spilled(row)
    PROVE  /\ SelectInSeq(Pieces(row), LAMBDA x : x.column = c) = first[c]
           /\ first[c] \in 1 .. Len(Pieces(row))
<1>1. PICK ps : ps = Pieces(row)
  OBVIOUS
<1> DEFINE I == {i \in 1 .. Len(ps) : ps[i].column = c}
<1>2. SelectInSeq(ps, LAMBDA x : x.column = c) = IF I # {} THEN Min(I) ELSE 0
  BY DEF SelectInSeq
<1>3. ChunksOf(row[c]) \in Nat \ {0} /\ first[c] \in Nat \ {0}
  BY SpilledColumn DEF PiecesFrom
<1>4. first[c] \in I
  <2>1. 1 \in 1 .. ChunksOf(row[c]) /\ first[c] + 1 - 1 = first[c]
    BY <1>3
  <2>2. first[c] \in 1 .. Len(ps) /\ ps[first[c]] = [column |-> c, chunk |-> Chunk(row[c], 1)]
    BY <1>1, <2>1 DEF PiecesFrom
  <2> QED
    BY <2>2
<1>5. ASSUME NEW i \in I PROVE first[c] <= i
  <2>1. PICK k \in 1 .. ChunksOf(row[c]) : i = first[c] + k - 1
    BY <1>1, <1>5 DEF PiecesFrom
  <2> QED
    BY <1>3, <2>1
<1>6. I \in SUBSET Nat
  OBVIOUS
<1> HIDE DEF I
<1>7. Min(I) = first[c]
  BY <1>4, <1>5, <1>6, MinIsLeast
<1>8. SelectInSeq(ps, LAMBDA x : x.column = c) = first[c]
  BY <1>2, <1>4, <1>7
<1>9. first[c] \in 1 .. Len(ps)
  BY <1>4 DEF I
<1> QED
  BY <1>1, <1>8, <1>9

-----------------------------------------------------------------------------

Columns == Column \cup PointerColumn

StoredTuples == Seq(Columns)

DataPages ==
    [slots : Seq(StoredTuples \cup {Tombstone}), room : Nat, next : Pages \cup {NoPage}]

ChunkPages == [chunk : Seq(Nat), next : Pages \cup {NoPage}]

(* What is stored of a row. *)
LEMMA EncodedSound ==
    ASSUME NEW row \in Rows, NEW first, PiecesFrom(row, first),
           NEW ps \in [1 .. Len(Pieces(row)) -> Pages],
           NEW tuple, tuple = Encoded(row, ps)
    PROVE  /\ tuple \in StoredTuples /\ tuple # Tombstone
           /\ DOMAIN tuple = DOMAIN row
           /\ \A c \in DOMAIN row \ Spilled(row) : tuple[c] = row[c]
           /\ \A c \in DOMAIN row : "pointer" \in DOMAIN tuple[c] <=> c \in Spilled(row)
           /\ \A c \in Spilled(row) :
                tuple[c] = [type |-> row[c].type, pointer |-> ps[first[c]]]
<1>1. /\ DOMAIN row = 1 .. Len(row) /\ Len(row) \in Nat
      /\ \A c \in DOMAIN row : row[c] \in Column
      /\ Spilled(row) \subseteq DOMAIN row
  BY SpilledColumn
<1>2. DOMAIN tuple = DOMAIN row
  BY DEF Encoded
<1>3. \A c \in DOMAIN row \ Spilled(row) : tuple[c] = row[c]
  BY DEF Encoded
<1>4. ASSUME NEW c \in Spilled(row)
      PROVE  tuple[c] = [type |-> row[c].type, pointer |-> ps[first[c]]]
  <2>1. tuple[c] = [type |-> row[c].type,
                    pointer |-> ps[SelectInSeq(Pieces(row), LAMBDA x : x.column = c)]]
    BY <1>1 DEF Encoded
  <2> QED
    BY <2>1, FirstPiece
<1>5. ASSUME NEW c \in DOMAIN row
      PROVE  /\ tuple[c] \in Columns
             /\ "pointer" \in DOMAIN tuple[c] <=> c \in Spilled(row)
  <2>1. row[c] \in Column
    BY <1>1
  <2>2. CASE c \in Spilled(row)
    <3>1. ps[first[c]] \in Pages
      BY <2>2, FirstPiece
    <3>2. tuple[c] = [type |-> row[c].type, pointer |-> ps[first[c]]]
      BY <1>4, <2>2
    <3>3. row[c].type \in STRING
      BY <2>1 DEF Column
    <3>4. tuple[c] \in PointerColumn
      BY <3>1, <3>2, <3>3 DEF PointerColumn
    <3> QED
      BY <2>2, <3>2, <3>4 DEF Columns
  <2>3. CASE c \notin Spilled(row)
    BY <1>3, <2>1, <2>3 DEF Columns, Column
  <2> QED
    BY <2>2, <2>3
<1>6. tuple \in [1 .. Len(row) -> Columns]
  <2>1. tuple = [c \in DOMAIN row |-> tuple[c]]
    BY DEF Encoded
  <2> QED
    BY <1>1, <1>5, <2>1
<1>7. tuple \in StoredTuples
  BY <1>1, <1>6 DEF StoredTuples
<1> QED
  BY <1>2, <1>3, <1>4, <1>5, <1>7, EngineAssumption DEF StoredTuples, Columns

(* A tuple takes the slot of a deleted one, or a new one. *)
LEMMA InsertedSlots ==
    ASSUME NEW pg \in DataPages, NEW tuple \in StoredTuples, tuple # Tombstone,
           NEW size \in Nat \ {0}, CanInsert(pg, size),
           NEW new, new = Inserted(pg, tuple, size)
    PROVE  /\ new \in DataPages /\ new.next = pg.next
           /\ Len(new.slots) * SlotSize + new.room <= Len(pg.slots) * SlotSize + pg.room
           /\ \E s \in Nat \ LiveSlots(pg) :
                /\ LiveSlots(new) = LiveSlots(pg) \cup {s}
                /\ new.slots[s] = tuple
                /\ \A k \in LiveSlots(pg) : new.slots[k] = pg.slots[k]
<1> DEFINE T == StoredTuples \cup {Tombstone}
<1>1. /\ pg.slots \in Seq(T) /\ pg.room \in Nat /\ pg.next \in Pages \cup {NoPage}
      /\ Len(pg.slots) \in Nat /\ DOMAIN pg.slots = 1 .. Len(pg.slots)
      /\ tuple \in T
  BY LenProperties DEF DataPages
<1>2. SlotSize \in Nat \ {0}
  BY EngineAssumption
<1>3. CASE HasTombstone(pg)
  <2>1. PICK s \in Nat : s = FirstTombstone(pg) /\ s \in Tombstones(pg)
    <3>1. Tombstones(pg) \in SUBSET Nat /\ Tombstones(pg) # {}
      BY <1>1, <1>3 DEF Tombstones, HasTombstone
    <3>2. \E s \in Tombstones(pg) : \A k \in Tombstones(pg) : s <= k
      BY <3>1, LeastElement
    <3>3. FirstTombstone(pg) \in Tombstones(pg)
      BY <3>2 DEF FirstTombstone
    <3> QED
      BY <3>1, <3>3
  <2>2. s \in 1 .. Len(pg.slots) /\ pg.slots[s] = Tombstone
    BY <1>1, <2>1 DEF Tombstones
  <2>a. new = [pg EXCEPT !.slots = [pg.slots EXCEPT ![s] = tuple],
                         !.room = pg.room - size - 0]
    BY <1>3, <2>1 DEF Inserted, SlotBytes
  <2>b. pg.room - size - 0 = pg.room - size
    BY <1>1
  <2>3. new = [pg EXCEPT !.slots = [pg.slots EXCEPT ![s] = tuple],
                         !.room = pg.room - size]
    BY <2>a, <2>b
  <2>4. /\ new.slots = [pg.slots EXCEPT ![s] = tuple]
        /\ new.room = pg.room - size /\ new.next = pg.next
        /\ new = [slots |-> new.slots, room |-> new.room, next |-> new.next]
    BY <1>1, <2>3 DEF DataPages
  <2>5. size <= pg.room
    BY <1>1, <1>3 DEF CanInsert, SlotBytes
  <2>6. new.room \in Nat /\ new.room <= pg.room
    BY <1>1, <2>4, <2>5
  <2>7. /\ new.slots \in Seq(T) /\ Len(new.slots) = Len(pg.slots)
        /\ DOMAIN new.slots = 1 .. Len(pg.slots)
        /\ \A j \in 1 .. Len(pg.slots) :
              new.slots[j] = IF j = s THEN tuple ELSE pg.slots[j]
    BY <1>1, <2>2, <2>4, ExceptSeq, LenProperties
  <2>8. new \in DataPages
    BY <1>1, <2>4, <2>6, <2>7 DEF DataPages
  <2>9. Len(new.slots) * SlotSize + new.room <= Len(pg.slots) * SlotSize + pg.room
    <3>1. Len(pg.slots) * SlotSize \in Int
      BY <1>1, <1>2
    <3> QED
      BY <1>1, <2>6, <2>7, <3>1
  <2>10. /\ s \notin LiveSlots(pg) /\ new.slots[s] = tuple
         /\ LiveSlots(new) = LiveSlots(pg) \cup {s}
         /\ \A k \in LiveSlots(pg) : new.slots[k] = pg.slots[k]
    BY <1>1, <2>2, <2>7 DEF LiveSlots
  <2> QED
    BY <2>1, <2>4, <2>8, <2>9, <2>10
<1>4. CASE ~HasTombstone(pg)
  <2> DEFINE s == Len(pg.slots) + 1
  <2>1. new = [pg EXCEPT !.slots = Append(pg.slots, tuple),
                         !.room = pg.room - size - SlotSize]
    BY <1>4 DEF Inserted, SlotBytes
  <2>2. /\ new.slots = Append(pg.slots, tuple)
        /\ new.room = pg.room - size - SlotSize /\ new.next = pg.next
        /\ new = [slots |-> new.slots, room |-> new.room, next |-> new.next]
    BY <1>1, <2>1 DEF DataPages
  <2>3. size + SlotSize <= pg.room
    BY <1>1, <1>4 DEF CanInsert, SlotBytes
  <2>4. new.room \in Nat
    BY <1>1, <1>2, <2>2, <2>3
  <2>5. /\ new.slots \in Seq(T) /\ Len(new.slots) = s
        /\ DOMAIN new.slots = 1 .. s
        /\ \A j \in 1 .. Len(pg.slots) : new.slots[j] = pg.slots[j]
        /\ new.slots[s] = tuple
    BY <1>1, <2>2, AppendProperties, LenProperties
  <2>6. new \in DataPages
    BY <1>1, <2>2, <2>4, <2>5 DEF DataPages
  <2>7. Len(new.slots) * SlotSize + new.room <= Len(pg.slots) * SlotSize + pg.room
    <3>1. PICK n \in Nat, k \in Nat : n = Len(pg.slots) /\ k = SlotSize
      BY <1>1, <1>2
    <3>2. (n + 1) * k = n * k + k /\ n * k \in Int
      BY <3>1
    <3>3. PICK a \in Nat, b \in Nat : a = new.room /\ b = pg.room
      BY <1>1, <2>4
    <3>4. PICK z \in Int : z = n * k
      BY <3>2
    <3>5. a = b - size - k
      BY <2>2, <3>1, <3>3
    <3>6. (z + k) + a <= z + b
      BY <3>5
    <3>7. Len(new.slots) * SlotSize = z + k /\ Len(pg.slots) * SlotSize = z
      BY <2>5, <3>1, <3>2, <3>4
    <3> QED
      BY <3>3, <3>6, <3>7
  <2>8. /\ s \in Nat \ LiveSlots(pg) /\ new.slots[s] = tuple
        /\ LiveSlots(new) = LiveSlots(pg) \cup {s}
        /\ \A k \in LiveSlots(pg) : new.slots[k] = pg.slots[k]
    <3>1. 1 .. s = 1 .. Len(pg.slots) \cup {s} /\ s \notin 1 .. Len(pg.slots) /\ s \in Nat
      BY <1>1
    <3> HIDE DEF s
    <3> QED
      BY <1>1, <2>5, <3>1 DEF LiveSlots
  <2> QED
    BY <2>2, <2>6, <2>7, <2>8
<1> QED
  BY <1>3, <1>4

(* A deleted tuple leaves a tombstone, and its bytes. *)
LEMMA DeletedSlots ==
    ASSUME NEW pg \in DataPages, NEW s \in LiveSlots(pg), NEW new, new = Deleted(pg, s)
    PROVE  /\ new \in DataPages /\ new.next = pg.next
           /\ Len(new.slots) = Len(pg.slots) /\ new.room = pg.room
           /\ LiveSlots(new) = LiveSlots(pg) \ {s}
           /\ \A k \in LiveSlots(new) : new.slots[k] = pg.slots[k]
<1> DEFINE T == StoredTuples \cup {Tombstone}
<1>1. /\ pg.slots \in Seq(T) /\ pg.room \in Nat /\ pg.next \in Pages \cup {NoPage}
      /\ DOMAIN pg.slots = 1 .. Len(pg.slots)
  BY LenProperties DEF DataPages
<1>2. s \in 1 .. Len(pg.slots) /\ Tombstone \in T
  BY <1>1 DEF LiveSlots
<1>3. /\ new.slots = [pg.slots EXCEPT ![s] = Tombstone]
      /\ new.room = pg.room /\ new.next = pg.next
      /\ new = [slots |-> new.slots, room |-> new.room, next |-> new.next]
  BY <1>1 DEF Deleted, DataPages
<1>4. /\ new.slots \in Seq(T) /\ Len(new.slots) = Len(pg.slots)
      /\ DOMAIN new.slots = 1 .. Len(pg.slots)
      /\ \A j \in 1 .. Len(pg.slots) :
            new.slots[j] = IF j = s THEN Tombstone ELSE pg.slots[j]
  BY <1>1, <1>2, <1>3, ExceptSeq, LenProperties
<1>5. new \in DataPages
  BY <1>1, <1>3, <1>4 DEF DataPages
<1>6. /\ LiveSlots(new) = LiveSlots(pg) \ {s}
      /\ \A k \in LiveSlots(new) : new.slots[k] = pg.slots[k]
  BY <1>1, <1>4 DEF LiveSlots
<1> QED
  BY <1>3, <1>4, <1>5, <1>6

-----------------------------------------------------------------------------

TableKey(t) == [kind |-> "table", table |-> t]

PointerKey(p, s, c) == [kind |-> "pointer", page |-> p, slot |-> s, column |-> c]

(* The overflow pages of a row, as they are written. *)
LEMMA WrittenPage ==
    ASSUME NEW row \in Rows, NEW first, PiecesFrom(row, first),
           NEW n \in 0 .. Len(Pieces(row)),
           NEW ps \in [1 .. n -> Pages], IsInjective(ps), NEW i \in 1 .. n
    PROVE  /\ DOMAIN OverflowPages(row, ps) = ToSet(ps) /\ ps[i] \in ToSet(ps)
           /\ OverflowPages(row, ps)[ps[i]] =
                [chunk |-> Pieces(row)[i].chunk,
                 next |-> IF i < n /\ Pieces(row)[i + 1].column = Pieces(row)[i].column
                          THEN ps[i + 1] ELSE NoPage]
           /\ OverflowPages(row, ps)[ps[i]] \in ChunkPages
<1>1. PICK pieces : pieces = Pieces(row)
  OBVIOUS
<1>2. /\ pieces \in Seq([column : Spilled(row), chunk : Seq(Nat)])
      /\ Len(pieces) \in Nat /\ n \in Nat /\ n <= Len(pieces)
  BY <1>1, LenProperties DEF PiecesFrom
<1>3. Len(ps) = n /\ DOMAIN ps = 1 .. n
  BY <1>2
<1>4. ps[i] \in ToSet(ps)
  BY <1>3 DEF ToSet
<1>5. (CHOOSE j \in DOMAIN ps : ps[j] = ps[i]) = i
  BY <1>3 DEF IsInjective
<1>6. /\ DOMAIN OverflowPages(row, ps) = ToSet(ps)
      /\ OverflowPages(row, ps)[ps[i]] =
            [chunk |-> Pieces(row)[i].chunk,
             next |-> IF i < n /\ Pieces(row)[i + 1].column = Pieces(row)[i].column
                      THEN ps[i + 1] ELSE NoPage]
  <2> DEFINE at == CHOOSE j \in DOMAIN ps : ps[j] = ps[i]
  <2>1. /\ DOMAIN OverflowPages(row, ps) = ToSet(ps)
        /\ OverflowPages(row, ps)[ps[i]] =
              [chunk |-> Pieces(row)[at].chunk,
               next |-> IF at < Len(ps) /\ Pieces(row)[at + 1].column = Pieces(row)[at].column
                        THEN ps[at + 1] ELSE NoPage]
    BY <1>4 DEF OverflowPages
  <2> HIDE DEF at
  <2>2. at = i
    BY <1>5 DEF at
  <2> QED
    BY <1>3, <2>1, <2>2
<1>7. pieces[i].chunk \in Seq(Nat)
  <2>1. i \in 1 .. Len(pieces)
    BY <1>2
  <2>2. pieces[i] \in [column : Spilled(row), chunk : Seq(Nat)]
    BY <1>2, <2>1, ElementOfSeq
  <2> QED
    BY <2>2
<1>8. i < n => ps[i + 1] \in Pages
  BY <1>2
<1>9. OverflowPages(row, ps)[ps[i]] \in ChunkPages
  BY <1>1, <1>6, <1>7, <1>8 DEF ChunkPages
<1> QED
  BY <1>4, <1>6, <1>9

(***************************************************************************)
(* The overflow pages of a row are chains, one for each spilled column,    *)
(* that begin where the pointers of the stored tuple lead.                 *)
(***************************************************************************)
PointerKeys(row, p, s) == {PointerKey(p, s, c) : c \in Spilled(row)}

SpillsTo(row, first, ps, p, s, head, next) ==
    /\ PiecesFrom(row, first)
    /\ ps \in [1 .. Len(Pieces(row)) -> Pages] /\ IsInjective(ps)
    /\ \A c \in Spilled(row) : head[PointerKey(p, s, c)] = ps[first[c]]
    /\ \A q \in ToSet(ps) : next[q] = OverflowPages(row, ps)[q].next

(* The pages of a row just spilled belong to the keys of its columns. *)
LEMMA SpilledOwnership ==
    ASSUME NEW row \in Rows, NEW first, NEW ps, NEW p, NEW s, NEW head, NEW next,
           SpillsTo(row, first, ps, p, s, head, next)
    PROVE  \E owner, place :
                Ownership(ToSet(ps), PointerKeys(row, p, s), head, next, owner, place)
<1> PICK keys : keys = {PointerKey(p, s, c) : c \in Spilled(row)}
  OBVIOUS
<1> /\ PiecesFrom(row, first)
    /\ ps \in [1 .. Len(Pieces(row)) -> Pages] /\ IsInjective(ps)
    /\ \A c \in Spilled(row) : head[PointerKey(p, s, c)] = ps[first[c]]
    /\ \A q \in ToSet(ps) : next[q] = OverflowPages(row, ps)[q].next
  BY DEF SpillsTo
<1> PICK pieces : pieces = Pieces(row)
  OBVIOUS
<1>1. PICK n \in Nat : pieces = Pieces(row) /\ n = Len(Pieces(row))
  BY LenProperties DEF PiecesFrom
<1>2. DOMAIN ps = 1 .. n
  BY <1>1
<1> DEFINE D == ToSet(ps)
           at(q) == CHOOSE i \in 1 .. n : ps[i] = q
           owner == [q \in D |-> PointerKey(p, s, pieces[at(q)].column)]
           place == [q \in D |-> at(q) - first[pieces[at(q)].column] + 1]
<1>3. ASSUME NEW i \in 1 .. n
      PROVE  /\ ps[i] \in D
             /\ pieces[i].column \in Spilled(row)
             /\ first[pieces[i].column] \in Nat \ {0}
             /\ first[pieces[i].column] <= i
             /\ owner[ps[i]] = PointerKey(p, s, pieces[i].column)
             /\ place[ps[i]] = i - first[pieces[i].column] + 1
             /\ next[ps[i]] = IF i < n /\ pieces[i + 1].column = pieces[i].column
                              THEN ps[i + 1] ELSE NoPage
             /\ i # first[pieces[i].column] =>
                    i - 1 \in 1 .. n /\ pieces[i - 1].column = pieces[i].column
  <2>1. ps[i] \in D
    BY <1>2 DEF ToSet
  <2>2. at(ps[i]) = i
    BY <1>2 DEF IsInjective
  <2>3. pieces[i] \in [column : Spilled(row), chunk : Seq(Nat)]
    <3>1. pieces \in Seq([column : Spilled(row), chunk : Seq(Nat)]) /\ n = Len(pieces)
      BY <1>1 DEF PiecesFrom
    <3> QED
      BY <3>1, ElementOfSeq
  <2>4. PICK c \in Spilled(row) : c = pieces[i].column
    BY <2>3
  <2>5. PICK k \in 1 .. ChunksOf(row[c]) : i = first[c] + k - 1
    BY <1>1, <2>4 DEF PiecesFrom
  <2>6. first[c] \in Nat \ {0} /\ ChunksOf(row[c]) \in Nat \ {0}
    BY SpilledColumn DEF PiecesFrom
  <2>7. first[c] <= i
    BY <2>5, <2>6
  <2>8. OverflowPages(row, ps)[ps[i]] =
            [chunk |-> Pieces(row)[i].chunk,
             next |-> IF i < n /\ Pieces(row)[i + 1].column = Pieces(row)[i].column
                      THEN ps[i + 1] ELSE NoPage]
    <3>1. n \in 0 .. Len(Pieces(row)) /\ ps \in [1 .. n -> Pages]
      BY <1>1
    <3> QED
      BY <3>1, WrittenPage
  <2>9. next[ps[i]] = IF i < n /\ pieces[i + 1].column = pieces[i].column
                      THEN ps[i + 1] ELSE NoPage
    BY <1>1, <2>1, <2>8
  <2>10. ASSUME i # first[c] PROVE i - 1 \in 1 .. n /\ pieces[i - 1].column = c
    <3>1. k - 1 \in 1 .. ChunksOf(row[c]) /\ first[c] + (k - 1) - 1 = i - 1
      BY <2>5, <2>6, <2>10
    <3>2. /\ i - 1 \in 1 .. Len(Pieces(row))
          /\ Pieces(row)[i - 1] = [column |-> c, chunk |-> Chunk(row[c], k - 1)]
      <4>1. /\ first[c] + (k - 1) - 1 \in 1 .. Len(Pieces(row))
            /\ Pieces(row)[first[c] + (k - 1) - 1] =
                  [column |-> c, chunk |-> Chunk(row[c], k - 1)]
        BY <3>1 DEF PiecesFrom
      <4> QED
        BY <3>1, <4>1
    <3> QED
      BY <1>1, <3>2
  <2>11. owner[ps[i]] = PointerKey(p, s, c) /\ place[ps[i]] = i - first[c] + 1
    BY <2>1, <2>2, <2>4
  <2> QED
    BY <2>1, <2>4, <2>6, <2>7, <2>9, <2>10, <2>11
<1>4. \A q \in D : \E i \in 1 .. n : q = ps[i]
  BY <1>2 DEF ToSet
<1>5. owner \in [D -> keys]
  <2>1. ASSUME NEW q \in D PROVE owner[q] \in keys
    <3>1. PICK i \in 1 .. n : q = ps[i]
      BY <1>4
    <3> HIDE DEF owner, place, at
    <3>2. /\ owner[q] = PointerKey(p, s, pieces[i].column)
          /\ pieces[i].column \in Spilled(row)
      BY <1>3, <3>1
    <3> QED
      BY <3>2
  <2> QED
    BY <2>1
<1>6. place \in [D -> Nat]
  <2>1. ASSUME NEW q \in D PROVE place[q] \in Nat
    <3>1. PICK i \in 1 .. n : q = ps[i]
      BY <1>4
    <3> HIDE DEF owner, place, at
    <3>2. /\ place[q] = i - first[pieces[i].column] + 1
          /\ first[pieces[i].column] \in Nat /\ first[pieces[i].column] <= i
      BY <1>3, <3>1
    <3> QED
      BY <3>2
  <2> QED
    BY <2>1
<1> HIDE DEF owner, place, D
<1>7. ASSUME NEW k \in keys
      PROVE  head[k] \in D /\ owner[head[k]] = k /\ place[head[k]] = 1
  <2>1. PICK c \in Spilled(row) : k = PointerKey(p, s, c)
    OBVIOUS
  <2>2. PICK i \in 1 .. n : i = first[c]
    BY <1>1, FirstPiece
  <2>3. pieces[i].column = c
    <3>1. ChunksOf(row[c]) \in Nat \ {0} /\ first[c] \in Nat
      BY SpilledColumn DEF PiecesFrom
    <3>2. 1 \in 1 .. ChunksOf(row[c]) /\ first[c] + 1 - 1 = i
      BY <2>2, <3>1
    <3>3. Pieces(row)[first[c] + 1 - 1] = [column |-> c, chunk |-> Chunk(row[c], 1)]
      BY <3>2 DEF PiecesFrom
    <3> QED
      BY <1>1, <3>2, <3>3
  <2>4. head[k] = ps[i]
    BY <2>1, <2>2
  <2>5. i - first[c] + 1 = 1
    BY <2>2
  <2> QED
    BY ZenonT(60), <1>3, <2>1, <2>3, <2>4, <2>5
<1>8. ASSUME NEW q \in D, next[q] # NoPage
      PROVE  /\ next[q] \in D /\ owner[next[q]] = owner[q]
             /\ place[next[q]] = place[q] + 1
  <2>1. PICK i \in 1 .. n : q = ps[i]
    BY <1>4
  <2>2. i < n /\ pieces[i + 1].column = pieces[i].column /\ next[q] = ps[i + 1]
    BY <1>3, <1>8, <2>1
  <2>3. PICK j \in 1 .. n : j = i + 1
    BY <2>2
  <2>4. /\ place[ps[j]] = j - first[pieces[j].column] + 1
        /\ place[ps[i]] = i - first[pieces[i].column] + 1
        /\ pieces[j].column = pieces[i].column
        /\ first[pieces[i].column] \in Nat
    BY <1>3, <2>2, <2>3
  <2>5. place[ps[j]] = place[ps[i]] + 1
    <3>1. PICK f \in Nat : f = first[pieces[i].column]
      BY <2>4
    <3>2. place[ps[j]] = j - f + 1 /\ place[ps[i]] = i - f + 1
      BY <2>4, <3>1
    <3> QED
      BY <2>3, <3>2
  <2> QED
    BY <1>3, <2>1, <2>2, <2>3, <2>5
<1>9. ASSUME NEW q \in D PROVE q = head[owner[q]] \/ \E r \in D : next[r] = q
  <2>1. PICK i \in 1 .. n : q = ps[i]
    BY <1>4
  <2>2. PICK c \in Spilled(row) : c = pieces[i].column
    BY <1>3
  <2>3. CASE i = first[c]
    BY ZenonT(60), <1>3, <2>1, <2>2, <2>3
  <2>4. CASE i # first[c]
    <3>1. PICK j \in 1 .. n : j = i - 1 /\ pieces[j].column = c
      BY <1>3, <2>2, <2>4
    <3>2. j < n /\ j + 1 = i
      BY <3>1
    <3>3. next[ps[j]] = q
      BY <1>3, <2>1, <2>2, <3>1, <3>2
    <3> QED
      BY <1>3, <3>3
  <2> QED
    BY <2>3, <2>4
<1>10. Ownership(D, keys, head, next, owner, place)
  BY <1>5, <1>6, <1>7, <1>8, <1>9 DEF Ownership
<1> QED
  BY <1>10 DEF D, PointerKeys

-----------------------------------------------------------------------------

(***************************************************************************)
(* The inductive invariant: what the variables hold, and that every chain  *)
(* has pages of its own.  It speaks of all rows on allocated pages, those  *)
(* on the pages of a dropped table too: an id still names them.            *)
(***************************************************************************)
TableRecords == [first : Pages, row_count : Nat]

SoundPages ==
    {pg \in DataPages \cup ChunkPages :
        "slots" \in DOMAIN pg => Len(pg.slots) * SlotSize + pg.room <= PageRoom}

Shape ==
    /\ live \subseteq Pages
    /\ page \in [live -> SoundPages]
    /\ pins \in [Pages -> 0 .. MaxPins]
    /\ Pinned \subseteq live
    /\ tables \in [TableNames -> TableRecords \cup {Absent}]

PointerAt(p, s, c) ==
    HasTuple(p, s) /\ c \in DOMAIN page[p].slots[s]
                   /\ "pointer" \in DOMAIN page[p].slots[s][c]

Keys ==
    {TableKey(t) : t \in Existing} \cup
    {k \in [kind : {"pointer"}, page : live, slot : Nat, column : Nat] :
        PointerAt(k.page, k.slot, k.column)}

Heads ==
    [k \in Keys |-> IF k.kind = "table" THEN tables[k.table].first
                    ELSE page[k.page].slots[k.slot][k.column].pointer]

Owns(D, owner, place) ==
    /\ D \subseteq live
    /\ Ownership(D, Keys, Heads, Links, owner, place)
    /\ \A p \in D : IsDataPage(p) <=> owner[p].kind = "table"

ChainsOwned == \E D, owner, place : Owns(D, owner, place)

EngineInv == Shape /\ ChainsOwned

(* The two kinds of pages. *)
LEMMA PageKinds ==
    ASSUME NEW pg \in DataPages \cup ChunkPages
    PROVE  /\ pg.next \in Pages \cup {NoPage}
           /\ "slots" \in DOMAIN pg =>
                /\ pg \in DataPages /\ pg.room \in Nat
                /\ pg.slots \in Seq(StoredTuples \cup {Tombstone})
                /\ DOMAIN pg.slots = 1 .. Len(pg.slots) /\ Len(pg.slots) \in Nat
                /\ \A s \in LiveSlots(pg) :
                    /\ s \in Nat /\ pg.slots[s] \in StoredTuples
                    /\ \A c \in DOMAIN pg.slots[s] :
                        c \in Nat /\ pg.slots[s][c] \in Columns
           /\ "slots" \notin DOMAIN pg =>
                pg \in ChunkPages /\ pg.chunk \in Seq(Nat)
<1>1. CASE pg \in DataPages
  <2>1. /\ pg = [slots |-> pg.slots, room |-> pg.room, next |-> pg.next]
        /\ pg.room \in Nat /\ pg.next \in Pages \cup {NoPage}
        /\ pg.slots \in Seq(StoredTuples \cup {Tombstone})
    BY <1>1 DEF DataPages
  <2>2. DOMAIN pg.slots = 1 .. Len(pg.slots) /\ Len(pg.slots) \in Nat
    BY <2>1, LenProperties
  <2>3. ASSUME NEW s \in LiveSlots(pg)
        PROVE  /\ s \in Nat /\ pg.slots[s] \in StoredTuples
               /\ \A c \in DOMAIN pg.slots[s] : c \in Nat /\ pg.slots[s][c] \in Columns
    <3>1. s \in 1 .. Len(pg.slots) /\ pg.slots[s] # Tombstone
      BY <2>2 DEF LiveSlots
    <3>2. pg.slots[s] \in StoredTuples
      BY <2>1, <3>1, ElementOfSeq
    <3>3. \A c \in DOMAIN pg.slots[s] : c \in Nat /\ pg.slots[s][c] \in Columns
      <4>1. PICK tuple \in Seq(Columns) : tuple = pg.slots[s]
        BY <3>2 DEF StoredTuples
      <4>2. DOMAIN tuple = 1 .. Len(tuple) /\ \A c \in 1 .. Len(tuple) : tuple[c] \in Columns
        BY LenProperties, ElementOfSeq
      <4> QED
        BY <4>1, <4>2
    <3> QED
      BY <3>1, <3>2, <3>3
  <2>4. "slots" \in DOMAIN pg
    BY <2>1
  <2> QED
    BY <1>1, <2>1, <2>2, <2>3, <2>4
<1>2. CASE pg \in ChunkPages
  BY <1>2 DEF ChunkPages
<1> QED
  BY <1>1, <1>2

(* Every key is one of a table or of a pointer. *)
LEMMA KeyKinds ==
    ASSUME Shape
    PROVE  /\ \A t \in Existing :
                /\ t \in TableNames /\ tables[t] \in TableRecords
                /\ TableKey(t) \in Keys /\ Heads[TableKey(t)] = tables[t].first
           /\ \A p \in live : \A s, c :
                PointerAt(p, s, c) =>
                    /\ PointerKey(p, s, c) \in Keys
                    /\ Heads[PointerKey(p, s, c)] = page[p].slots[s][c].pointer
           /\ \A k \in Keys :
                \/ k.kind = "table" /\ k.table \in Existing /\ k = TableKey(k.table)
                \/ /\ k.kind = "pointer" /\ k.page \in live
                   /\ PointerAt(k.page, k.slot, k.column)
                   /\ k = PointerKey(k.page, k.slot, k.column)
<1>1. ASSUME NEW t \in Existing
      PROVE  /\ t \in TableNames /\ tables[t] \in TableRecords
             /\ TableKey(t) \in Keys /\ Heads[TableKey(t)] = tables[t].first
  <2>1. t \in TableNames /\ tables[t] \in TableRecords
    BY DEF Existing, Shape
  <2>2. TableKey(t) \in Keys /\ TableKey(t).kind = "table" /\ TableKey(t).table = t
    BY DEF Keys, TableKey
  <2> QED
    BY <2>1, <2>2 DEF Heads
<1>2. ASSUME NEW p \in live, NEW s, NEW c, PointerAt(p, s, c)
      PROVE  /\ PointerKey(p, s, c) \in Keys
             /\ Heads[PointerKey(p, s, c)] = page[p].slots[s][c].pointer
  <2>1. page[p] \in DataPages \cup ChunkPages
    BY DEF Shape, SoundPages
  <2>2. "slots" \in DOMAIN page[p] /\ s \in LiveSlots(page[p]) /\ c \in DOMAIN page[p].slots[s]
    BY <1>2 DEF PointerAt, HasTuple, IsDataPage
  <2>3. s \in Nat /\ c \in Nat
    BY <2>1, <2>2, PageKinds
  <2>4. /\ PointerKey(p, s, c) \in [kind : {"pointer"}, page : live, slot : Nat, column : Nat]
        /\ PointerKey(p, s, c).kind = "pointer" /\ PointerKey(p, s, c).page = p
        /\ PointerKey(p, s, c).slot = s /\ PointerKey(p, s, c).column = c
    BY <2>3 DEF PointerKey
  <2>5. PointerKey(p, s, c) \in Keys
    BY <1>2, <2>4 DEF Keys
  <2> QED
    BY <2>4, <2>5 DEF Heads
<1>3. ASSUME NEW k \in Keys
      PROVE  \/ k.kind = "table" /\ k.table \in Existing /\ k = TableKey(k.table)
             \/ /\ k.kind = "pointer" /\ k.page \in live
                /\ PointerAt(k.page, k.slot, k.column)
                /\ k = PointerKey(k.page, k.slot, k.column)
  <2>1. CASE \E t \in Existing : k = TableKey(t)
    BY <2>1 DEF TableKey
  <2>2. CASE k \in [kind : {"pointer"}, page : live, slot : Nat, column : Nat]
             /\ PointerAt(k.page, k.slot, k.column)
    BY <2>2 DEF PointerKey
  <2> QED
    BY <2>1, <2>2 DEF Keys
<1> QED
  BY <1>1, <1>2, <1>3

(* The chain of a key has the pages the key owns, and ends. *)
LEMMA ChainOfKey ==
    ASSUME Shape, NEW D, NEW owner, NEW place, Owns(D, owner, place),
           NEW k \in Keys, NEW c, c = Chain(Heads[k])
    PROVE  /\ c \in Seq(D) /\ Len(c) \in Nat \ {0} /\ DOMAIN c = 1 .. Len(c)
           /\ c[1] = Heads[k] /\ Heads[k] \in D
           /\ \A i \in 1 .. Len(c) : c[i] \in D /\ c[i] \in live /\ owner[c[i]] = k
           /\ \A i \in 1 .. Len(c) - 1 : c[i + 1] = page[c[i]].next
           /\ page[c[Len(c)]].next = NoPage
           /\ IsInjective(c)
           /\ ToSet(c) = {q \in D : owner[q] = k}
<1>1. /\ DOMAIN Links = live /\ \A q \in live : Links[q] = page[q].next
  BY DEF Links
<1>2. D \subseteq live /\ live \subseteq Pages
  BY DEF Shape, Owns
<1>3. Ownership(D, Keys, Heads, Links, owner, place)
  BY DEF Owns
<1>4. c = ChainFrom(Links, Heads[k])
  BY DEF Chain
<1>5. /\ Follows(c, Heads[k], D, Links, owner, place)
      /\ IsInjective(c)
      /\ Links[c[Len(c)]] = NoPage
      /\ ToSet(c) = {q \in D : owner[q] = k}
  <2>1. DOMAIN Links \subseteq Pages /\ D \in SUBSET DOMAIN Links
    BY <1>1, <1>2
  <2> QED
    BY <1>3, <1>4, <2>1, ChainCovers
<1>6. owner[Heads[k]] = k /\ Heads[k] \in D
  BY <1>3 DEF Ownership
<1>7. /\ c \in Seq(D) /\ Len(c) \in Nat \ {0} /\ DOMAIN c = 1 .. Len(c)
      /\ c[1] = Heads[k]
      /\ \A i \in 1 .. Len(c) : c[i] \in D /\ c[i] \in live /\ owner[c[i]] = k
  BY <1>2, <1>5, <1>6, LenProperties DEF Follows
<1>8. \A i \in 1 .. Len(c) - 1 : c[i + 1] = page[c[i]].next
  BY <1>1, <1>5, <1>7 DEF Follows
<1>9. page[c[Len(c)]].next = NoPage
  BY <1>1, <1>5, <1>7
<1> QED
  BY <1>5, <1>6, <1>7, <1>8, <1>9

(* The pages of a table are data pages. *)
LEMMA ChainOfTable ==
    ASSUME Shape, NEW D, NEW owner, NEW place, Owns(D, owner, place),
           NEW t \in Existing, NEW c, c = TableChain(t)
    PROVE  /\ c = Chain(Heads[TableKey(t)]) /\ TableKey(t) \in Keys
           /\ c \in Seq(D) /\ Len(c) \in Nat \ {0} /\ DOMAIN c = 1 .. Len(c)
           /\ \A i \in 1 .. Len(c) :
                /\ c[i] \in D /\ c[i] \in live /\ c[i] \in TablePages(t)
                /\ owner[c[i]] = TableKey(t) /\ IsDataPage(c[i])
           /\ TablePages(t) = {q \in D : owner[q] = TableKey(t)}
           /\ \A p \in TablePages(t) : p \in live /\ IsDataPage(p)
           /\ page[c[Len(c)]].next = NoPage
<1>1. TableKey(t) \in Keys /\ c = Chain(Heads[TableKey(t)]) /\ TablePages(t) = ToSet(c)
  BY KeyKinds DEF TableChain, TablePages
<1>2. /\ c \in Seq(D) /\ Len(c) \in Nat \ {0} /\ DOMAIN c = 1 .. Len(c)
      /\ \A i \in 1 .. Len(c) :
            c[i] \in D /\ c[i] \in live /\ owner[c[i]] = TableKey(t)
      /\ page[c[Len(c)]].next = NoPage
      /\ ToSet(c) = {q \in D : owner[q] = TableKey(t)}
  BY <1>1, ChainOfKey
<1>3. TableKey(t).kind = "table"
  BY DEF TableKey
<1>4. D \subseteq live /\ \A p \in D : IsDataPage(p) <=> owner[p].kind = "table"
  BY DEF Owns
<1> QED
  BY <1>1, <1>2, <1>3, <1>4

(***************************************************************************)
(* The chains after a step: those of some of the keys before it, whose     *)
(* pages and links stay, and those of the keys that are new.               *)
(***************************************************************************)
Retained(old, D, keys, head, next, owner, place) ==
    /\ Ownership(D, keys, head, next, owner, place)
    /\ NoPage \notin D /\ old \subseteq keys
    /\ \A k \in old : Heads'[k] = head[k]
    /\ \A p \in D : owner[p] \in old =>
        /\ p \in live' /\ page'[p].next = next[p]
        /\ IsDataPage(p)' <=> owner[p].kind = "table"

Added(new, D, owner, place) ==
    /\ Ownership(D, new, Heads', Links', owner, place)
    /\ \A p \in D : p \in live' /\ (IsDataPage(p)' <=> owner[p].kind = "table")

(* Pages that keep their owners, and pages that get new ones. *)
LEMMA OwnedAfter ==
    ASSUME NEW old, NEW D, NEW K, NEW H, NEW N, NEW owner, NEW place,
           Retained(old, D, K, H, N, owner, place),
           NEW new, NEW D2, NEW owner2, NEW place2, Added(new, D2, owner2, place2),
           D \cap D2 = {}, Keys' = old \cup new
    PROVE  ChainsOwned'
<1> PICK K2 : K2 = Keys'
  OBVIOUS
<1> PICK H2 : H2 = Heads'
  OBVIOUS
<1> PICK N2 : N2 = Links'
  OBVIOUS
<1>1. PICK E : E = {p \in D : owner[p] \in old}
  OBVIOUS
<1>2. PICK o : o = [p \in E |-> owner[p]]
  OBVIOUS
<1>3. PICK l : l = [p \in E |-> place[p]]
  OBVIOUS
<1>4. Ownership(E, old, H2, N2, o, l)
  <2>1. /\ Ownership(D, K, H, N, owner, place) /\ NoPage \notin D
        /\ old \in SUBSET K /\ \A k \in old : H2[k] = H[k]
    BY DEF Retained
  <2>2. \A p \in E : N2[p] = N[p]
    BY <1>1 DEF Retained, Links
  <2> QED
    BY <1>1, <1>2, <1>3, <2>1, <2>2, OwnershipOfFewer
<1>5. E \cap D2 = {}
  BY <1>1
<1>6. PICK F : F = E \cup D2
  OBVIOUS
<1>7. PICK o2 : o2 = [p \in F |-> IF p \in E THEN o[p] ELSE owner2[p]]
  OBVIOUS
<1>8. PICK l2 : l2 = [p \in F |-> IF p \in E THEN l[p] ELSE place2[p]]
  OBVIOUS
<1>9. Ownership(F, K2, H2, N2, o2, l2)
  <2>1. Ownership(D2, new, H2, N2, owner2, place2) /\ K2 = old \cup new
    BY DEF Added
  <2> QED
    BY <1>4, <1>5, <1>6, <1>7, <1>8, <2>1, OwnershipOfBoth
<1>10. \A p \in F : p \in live' /\ (IsDataPage(p)' <=> o2[p].kind = "table")
  <2>1. \A p \in E : o2[p] = owner[p] /\ p \in D /\ owner[p] \in old
    BY <1>1, <1>2, <1>6, <1>7
  <2>2. \A p \in D2 : o2[p] = owner2[p]
    BY <1>5, <1>6, <1>7
  <2> QED
    BY <1>6, <2>1, <2>2 DEF Retained, Added
<1>11. Owns(F, o2, l2)'
  BY <1>9, <1>10 DEF Owns
<1> QED
  BY <1>11 DEF ChainsOwned

(* The same when no key is new. *)
LEMMA OwnedStill ==
    ASSUME NEW D, NEW owner, NEW place, Owns(D, owner, place), Shape,
           Keys' \subseteq Keys, \A k \in Keys' : Heads'[k] = Heads[k],
           \A p \in D : owner[p] \in Keys' =>
               /\ p \in live' /\ page'[p].next = page[p].next
               /\ IsDataPage(p)' <=> IsDataPage(p)
    PROVE  ChainsOwned'
<1>1. PICK K2 : K2 = Keys'
  OBVIOUS
<1>2. PICK H2 : H2 = Heads'
  OBVIOUS
<1>3. PICK N2 : N2 = Links'
  OBVIOUS
<1>4. Ownership(D, Keys, Heads, Links, owner, place) /\ D \subseteq live
  BY DEF Owns
<1>5. PICK E : E = {p \in D : owner[p] \in K2}
  OBVIOUS
<1>6. PICK o : o = [p \in E |-> owner[p]]
  OBVIOUS
<1>7. PICK l : l = [p \in E |-> place[p]]
  OBVIOUS
<1>8. \A p \in E : p \in live' /\ N2[p] = Links[p] /\ (IsDataPage(p)' <=> o[p].kind = "table")
  BY <1>1, <1>3, <1>4, <1>5, <1>6 DEF Links, Owns
<1>9. NoPage \notin D
  BY <1>4, EngineAssumption DEF Shape
<1>10. K2 \in SUBSET Keys /\ \A k \in K2 : H2[k] = Heads[k]
  BY <1>1, <1>2
<1>11. Ownership(E, K2, H2, N2, o, l)
  <2>1. PICK K : K = Keys
    OBVIOUS
  <2>2. PICK H : H = Heads
    OBVIOUS
  <2>3. PICK N : N = Links
    OBVIOUS
  <2>4. Ownership(D, K, H, N, owner, place)
    BY <1>4, <2>1, <2>2, <2>3
  <2>5. K2 \in SUBSET K /\ \A k \in K2 : H2[k] = H[k]
    BY <1>10, <2>1, <2>2
  <2>6. \A p \in E : N2[p] = N[p]
    BY <1>8, <2>3
  <2> QED
    BY <1>5, <1>6, <1>7, <1>9, <2>4, <2>5, <2>6, OwnershipOfFewer
<1>12. Owns(E, o, l)'
  BY <1>1, <1>2, <1>3, <1>8, <1>11 DEF Owns
<1> QED
  BY <1>12 DEF ChainsOwned

-----------------------------------------------------------------------------

(***************************************************************************)
(* The keys after a step: the new ones, and keys from before it for which  *)
(* the pointer, or the first page of the table, is as it was.              *)
(***************************************************************************)
KeysGained(new) ==
    /\ \A t \in Existing' :
        \/ TableKey(t) \in new
        \/ t \in Existing /\ tables'[t].first = tables[t].first
    /\ \A p \in live' : \A s, c : PointerAt(p, s, c)' =>
        \/ PointerKey(p, s, c) \in new
        \/ /\ p \in live /\ PointerAt(p, s, c)
           /\ page'[p].slots[s][c] = page[p].slots[s][c]

(* A key that is not new was one before, with the same first page. *)
LEMMA KeysAfter ==
    ASSUME NEW new, KeysGained(new)
    PROVE  /\ Keys' \ new \subseteq Keys
           /\ \A k \in Keys' \ new : Heads'[k] = Heads[k]
<1> SUFFICES ASSUME NEW k \in Keys' \ new
             PROVE  k \in Keys /\ Heads'[k] = Heads[k]
  OBVIOUS
<1>1. CASE \E t \in Existing' : k = TableKey(t)
  <2>1. PICK t \in Existing' : k = TableKey(t)
    BY <1>1
  <2>2. k.kind = "table" /\ k.table = t
    BY <2>1 DEF TableKey
  <2>3. t \in Existing /\ tables'[t].first = tables[t].first
    BY <2>1 DEF KeysGained
  <2>4. k \in Keys
    BY <2>1, <2>3 DEF Keys
  <2> QED
    BY <2>2, <2>3, <2>4 DEF Heads
<1>2. CASE /\ k \in [kind : {"pointer"}, page : live', slot : Nat, column : Nat]
           /\ PointerAt(k.page, k.slot, k.column)'
  <2>1. /\ k.kind = "pointer" /\ k.page \in live' /\ k.slot \in Nat /\ k.column \in Nat
        /\ k = [kind |-> "pointer", page |-> k.page, slot |-> k.slot, column |-> k.column]
    BY <1>2
  <2>2. k = PointerKey(k.page, k.slot, k.column)
    BY <2>1 DEF PointerKey
  <2>3. /\ k.page \in live /\ PointerAt(k.page, k.slot, k.column)
        /\ page'[k.page].slots[k.slot][k.column] = page[k.page].slots[k.slot][k.column]
    BY <1>2, <2>1, <2>2 DEF KeysGained
  <2>4. k \in Keys
    BY <2>1, <2>3 DEF Keys
  <2> QED
    BY <2>1, <2>3, <2>4 DEF Heads
<1> QED
  BY <1>1, <1>2 DEF Keys

(* A page that stays as it was keeps its pointers. *)
LEMMA SamePage ==
    ASSUME NEW p, page'[p] = page[p]
    PROVE  /\ IsDataPage(p)' <=> IsDataPage(p)
           /\ \A s : HasTuple(p, s)' <=> HasTuple(p, s)
           /\ \A s, c : PointerAt(p, s, c)' <=> PointerAt(p, s, c)
<1>1. IsDataPage(p)' <=> IsDataPage(p)
  BY DEF IsDataPage
<1>2. \A s : HasTuple(p, s)' <=> HasTuple(p, s)
  BY <1>1 DEF HasTuple, LiveSlots
<1> QED
  BY <1>1, <1>2 DEF PointerAt

(* The contents of the pages after new ones are written. *)
LEMMA PagesWritten ==
    ASSUME Shape, NEW contents, page' = WithPages(contents),
           DOMAIN contents \cap live = {}
    PROVE  /\ page' = [p \in live \cup DOMAIN contents |-> page'[p]]
           /\ \A p \in live : page'[p] = page[p]
           /\ \A p \in DOMAIN contents : page'[p] = contents[p]
BY DEF Shape, WithPages, Over

(* A page without tuples. *)
LEMMA EmptyPageSound ==
    ASSUME NEW room \in Nat, NEW pg, pg = EmptyPage(room, NoPage)
    PROVE  /\ pg \in DataPages /\ pg.next = NoPage /\ pg.room = room
           /\ "slots" \in DOMAIN pg /\ Len(pg.slots) = 0 /\ LiveSlots(pg) = {}
BY EmptySeq DEF EmptyPage, DataPages, LiveSlots

(* The step that gives up adds at most an empty page, and changes no chain. *)
LEMMA WastePageSound ==
    ASSUME EngineInv, WastePage
    PROVE  EngineInv'
<1>1. PICK p \in Unused :
          /\ live' = live \cup {p}
          /\ page' = WithPages(Only(p, EmptyPage(0, NoPage)))
          /\ UNCHANGED <<pins, tables>>
  BY DEF WastePage
<1>2. PICK pg : pg = EmptyPage(0, NoPage)
  OBVIOUS
<1>3. /\ pg \in DataPages /\ pg.room = 0 /\ Len(pg.slots) = 0 /\ LiveSlots(pg) = {}
  BY <1>2, EmptyPageSound
<1>4. p \in Pages /\ p \notin live /\ Shape
  BY DEF Unused, EngineInv
<1>5. /\ page' = [q \in live' |-> page'[q]]
      /\ page'[p] = pg /\ \A q \in live : page'[q] = page[q]
  <2>1. PICK contents : contents = Only(p, pg)
    OBVIOUS
  <2>2. DOMAIN contents = {p} /\ contents[p] = pg
    BY <2>1 DEF Only
  <2> QED
    BY <1>1, <1>2, <1>4, <2>1, <2>2, PagesWritten
<1>6. Shape'
  <2>1. pg \in SoundPages
    BY <1>3, EngineAssumption DEF SoundPages
  <2>2. page' \in [live' -> SoundPages]
    BY <1>1, <1>4, <1>5, <2>1 DEF Shape
  <2> QED
    BY <1>1, <1>4, <2>2 DEF Shape, Pinned
<1>7. ChainsOwned'
  <2>1. PICK D, owner, place : Owns(D, owner, place)
    BY DEF EngineInv, ChainsOwned
  <2>2. Existing' = Existing /\ tables' = tables
    BY <1>1 DEF Existing
  <2>3. \A q \in live : /\ IsDataPage(q)' <=> IsDataPage(q)
                        /\ \A s, c : PointerAt(q, s, c)' <=> PointerAt(q, s, c)
    BY <1>5, SamePage
  <2>4. \A s, c : ~PointerAt(p, s, c)'
    BY <1>3, <1>5 DEF PointerAt, HasTuple
  <2>5. Keys' \subseteq Keys /\ \A k \in Keys' : Heads'[k] = Heads[k]
    <3>1. KeysGained({})
      BY <1>1, <1>5, <2>2, <2>3, <2>4 DEF KeysGained
    <3> QED
      BY <3>1, KeysAfter
  <2>6. \A q \in D : q \in live' /\ page'[q].next = page[q].next
                     /\ (IsDataPage(q)' <=> IsDataPage(q))
    BY <1>1, <1>5, <2>1, <2>3 DEF Owns
  <2> QED
    BY <1>4, <2>1, <2>5, <2>6, OwnedStill
<1> QED
  BY <1>6, <1>7 DEF EngineInv

(* A new table has one page, and no other chain has it. *)
LEMMA CreateTableSound ==
    ASSUME EngineInv, NEW t \in TableNames \ Existing, CreateTable(t)
    PROVE  EngineInv'
<1>1. PICK p \in Unused :
          /\ live' = live \cup {p}
          /\ page' = WithPages(Only(p, NewDataPage))
          /\ tables' = [tables EXCEPT ![t] = [first |-> p, row_count |-> 0]]
          /\ UNCHANGED pins
  BY DEF CreateTable
<1>2. PICK pg : pg = NewDataPage
  OBVIOUS
<1>3. /\ pg \in DataPages /\ pg.room = PageRoom /\ Len(pg.slots) = 0
      /\ "slots" \in DOMAIN pg /\ LiveSlots(pg) = {} /\ pg.next = NoPage
  BY <1>2, EmptyPageSound, EngineAssumption DEF NewDataPage
<1>4. p \in Pages /\ p \notin live /\ Shape
  BY DEF Unused, EngineInv
<1>5. /\ page' = [q \in live' |-> page'[q]]
      /\ page'[p] = pg /\ \A q \in live : page'[q] = page[q]
  <2>1. PICK contents : contents = Only(p, pg)
    OBVIOUS
  <2>2. DOMAIN contents = {p} /\ contents[p] = pg
    BY <2>1 DEF Only
  <2> QED
    BY <1>1, <1>2, <1>4, <2>1, <2>2, PagesWritten
<1>6. /\ tables' \in [TableNames -> TableRecords \cup {Absent}]
      /\ tables'[t].first = p /\ tables'[t] # Absent
      /\ \A u \in TableNames \ {t} : tables'[u] = tables[u]
  BY <1>1, <1>4, EngineAssumption DEF Shape, TableRecords
<1>7. Shape'
  <2>1. pg \in SoundPages
    BY <1>3, EngineAssumption DEF SoundPages
  <2>2. page' \in [live' -> SoundPages]
    BY <1>1, <1>4, <1>5, <2>1 DEF Shape
  <2> QED
    BY <1>1, <1>4, <1>6, <2>2 DEF Shape, Pinned
<1>8. ChainsOwned'
  <2>1. PICK D, owner, place : Owns(D, owner, place)
    BY DEF EngineInv, ChainsOwned
  <2>2. Existing' = Existing \cup {t}
    BY <1>6 DEF Existing
  <2>3. \A q \in live : /\ IsDataPage(q)' <=> IsDataPage(q)
                        /\ \A s, c : PointerAt(q, s, c)' <=> PointerAt(q, s, c)
    BY <1>5, SamePage
  <2>4. \A s, c : ~PointerAt(p, s, c)'
    BY <1>3, <1>5 DEF PointerAt, HasTuple
  <2>5. PICK new : new = {TableKey(t)}
    OBVIOUS
  <2>6. KeysGained(new)
    BY <1>1, <1>5, <1>6, <2>2, <2>3, <2>4, <2>5 DEF KeysGained, Existing
  <2>7. PICK K2 : K2 = Keys'
    OBVIOUS
  <2>8. PICK H2 : H2 = Heads'
    OBVIOUS
  <2>9. PICK N2 : N2 = Links'
    OBVIOUS
  <2>10. PICK old : old = K2 \ new
    OBVIOUS
  <2>11. old \in SUBSET Keys /\ \A k \in old : H2[k] = Heads[k]
    BY <2>6, <2>7, <2>8, <2>10, KeysAfter
  <2>12. TableKey(t) \in K2 /\ H2[TableKey(t)] = p
    <3>1. TableKey(t).kind = "table" /\ TableKey(t).table = t
      BY DEF TableKey
    <3>2. TableKey(t) \in Keys'
      BY <2>2 DEF Keys
    <3> QED
      BY <1>6, <2>7, <2>8, <3>1, <3>2 DEF Heads
  <2>13. K2 = old \cup new
    BY <2>5, <2>10, <2>12
  <2>14. \A q \in live' : N2[q] = page'[q].next
    BY <2>9 DEF Links
  <2>15. D \cap {p} = {} /\ D \subseteq live /\ NoPage \notin D
    BY <1>4, <2>1, EngineAssumption DEF Owns, Shape
  <2>16. Retained(old, D, Keys, Heads, Links, owner, place)
    BY <1>1, <1>5, <2>1, <2>3, <2>8, <2>11, <2>15 DEF Owns, Links, Retained
  <2>17. PICK owner2 : owner2 = [q \in {p} |-> TableKey(t)]
    OBVIOUS
  <2>18. PICK place2 : place2 = [q \in {p} |-> 1]
    OBVIOUS
  <2>19. Ownership({p}, new, H2, N2, owner2, place2)
    BY <1>1, <1>3, <1>5, <2>5, <2>12, <2>14, <2>17, <2>18 DEF Ownership
  <2>20. \A q \in {p} : q \in live' /\ (IsDataPage(q)' <=> owner2[q].kind = "table")
    BY <1>1, <1>3, <1>5, <2>17 DEF IsDataPage, TableKey
  <2>21. Added(new, {p}, owner2, place2)
    BY <2>8, <2>9, <2>19, <2>20 DEF Added
  <2> QED
    BY <2>7, <2>13, <2>15, <2>16, <2>21, OwnedAfter
<1> QED
  BY <1>7, <1>8 DEF EngineInv

(* Dropping a table deletes pages of its own chain only. *)
LEMMA DropTableSound ==
    ASSUME EngineInv, NEW t \in Existing, DropTable(t)
    PROVE  EngineInv'
<1>1. PICK D, owner, place : Owns(D, owner, place)
  BY DEF EngineInv, ChainsOwned
<1>2. PICK kept : kept = live \ (Listed(t) \ Pinned)
  OBVIOUS
<1>3. /\ live' = kept /\ page' = [q \in kept |-> page[q]]
      /\ tables' = [tables EXCEPT ![t] = Absent] /\ UNCHANGED pins
  BY <1>2 DEF DropTable
<1>4. Shape /\ kept \subseteq live
  BY <1>2 DEF EngineInv
<1>5. \A u \in TableNames : tables'[u] = IF u = t THEN Absent ELSE tables[u]
  BY <1>3, <1>4 DEF Shape
<1>6. \A q \in kept : page'[q] = page[q]
  BY <1>3
<1>7. Shape'
  <2>1. page' \in [live' -> SoundPages]
    BY <1>3, <1>4 DEF Shape
  <2>2. tables' \in [TableNames -> TableRecords \cup {Absent}]
    BY <1>3, <1>4 DEF Shape
  <2>3. Pinned' \subseteq live'
    BY <1>2, <1>3, <1>4 DEF Shape, Pinned
  <2> QED
    BY <1>3, <1>4, <2>1, <2>2, <2>3 DEF Shape
<1>8. Existing' = Existing \ {t}
  BY <1>5 DEF Existing
<1>9. \A q \in kept : /\ IsDataPage(q)' <=> IsDataPage(q)
                      /\ \A s, c : PointerAt(q, s, c)' <=> PointerAt(q, s, c)
  BY <1>6, SamePage
<1>10. Keys' \subseteq Keys /\ \A k \in Keys' : Heads'[k] = Heads[k]
  <2>1. KeysGained({})
    BY <1>3, <1>4, <1>5, <1>6, <1>8, <1>9 DEF KeysGained, Existing
  <2> QED
    BY <2>1, KeysAfter
<1>11. TableKey(t) \notin Keys'
  BY <1>8 DEF Keys, TableKey
<1>12. \A q \in live \ kept : q \in D => owner[q] = TableKey(t)
  <2>1. PICK c : c = TableChain(t)
    OBVIOUS
  <2>2. DOMAIN c = 1 .. Len(c) /\ \A i \in 1 .. Len(c) : owner[c[i]] = TableKey(t)
    BY <1>1, <1>4, <2>1, ChainOfTable
  <2> QED
    BY <1>2, <2>1, <2>2 DEF Listed
<1>13. \A q \in D : owner[q] \in Keys' =>
          /\ q \in live' /\ page'[q].next = page[q].next
          /\ IsDataPage(q)' <=> IsDataPage(q)
  BY <1>1, <1>3, <1>6, <1>9, <1>11, <1>12 DEF Owns
<1>14. ChainsOwned'
  BY <1>1, <1>4, <1>10, <1>13, OwnedStill
<1> QED
  BY <1>7, <1>14 DEF EngineInv

(* get of nothing leaves a pin. *)
LEMMA GetNothingSound ==
    ASSUME EngineInv, NEW p \in live, GetNothing(p)
    PROVE  EngineInv'
<1>1. Shape /\ pins[p] \in 0 .. MaxPins /\ pins[p] < MaxPins
  BY DEF EngineInv, Shape, GetNothing
<1>2. pins' = [pins EXCEPT ![p] = pins[p] + 1] /\ UNCHANGED <<live, page, tables>>
  BY DEF GetNothing
<1>3. pins[p] + 1 \in 0 .. MaxPins
  BY <1>1, EngineAssumption
<1>4. pins' \in [Pages -> 0 .. MaxPins] /\ Pinned' \subseteq live'
  BY <1>1, <1>2, <1>3 DEF Shape, Pinned
<1>5. Shape'
  BY <1>1, <1>2, <1>4 DEF Shape
<1>6. ChainsOwned'
  <2>1. /\ Existing' = Existing /\ Links' = Links
        /\ \A q : IsDataPage(q)' <=> IsDataPage(q)
        /\ \A q, s, c : PointerAt(q, s, c)' <=> PointerAt(q, s, c)
    BY <1>2, SamePage DEF Existing, Links
  <2>2. Keys' = Keys
    BY <1>2, <2>1 DEF Keys
  <2>3. Heads' = Heads
    BY <1>2, <2>2 DEF Heads
  <2>4. PICK D, owner, place : Owns(D, owner, place)
    BY DEF EngineInv, ChainsOwned
  <2>5. Owns(D, owner, place)'
    BY <1>2, <2>1, <2>2, <2>3, <2>4 DEF Owns
  <2> QED
    BY <2>5 DEF ChainsOwned
<1> QED
  BY <1>5, <1>6 DEF EngineInv

(* The pages freed with a tuple are those of its own pointers. *)
LEMMA FreedOwned ==
    ASSUME Shape, NEW D, NEW owner, NEW place, Owns(D, owner, place),
           NEW p \in live, NEW s, HasTuple(p, s),
           NEW q \in FreedWith(page[p].slots[s])
    PROVE  /\ q \in D /\ ~IsDataPage(q) /\ q \notin Pinned
           /\ \E c : PointerAt(p, s, c) /\ owner[q] = PointerKey(p, s, c)
<1>1. PICK tuple : tuple = page[p].slots[s]
  OBVIOUS
<1>2. PICK c \in {d \in DOMAIN tuple : IsPlaceholder(tuple[d])} :
          q \in ToSet(Chain(tuple[c].pointer)) /\ q \notin Pinned
  BY <1>1 DEF FreedWith
<1>3. PointerAt(p, s, c)
  BY <1>1, <1>2 DEF PointerAt, IsPlaceholder
<1>4. PICK k : k = PointerKey(p, s, c)
  OBVIOUS
<1>5. k \in Keys /\ Heads[k] = tuple[c].pointer
  BY <1>1, <1>3, <1>4, KeyKinds
<1>6. PICK chain : chain = Chain(Heads[k])
  OBVIOUS
<1>7. ToSet(chain) = {r \in D : owner[r] = k}
  BY <1>5, <1>6, ChainOfKey
<1>8. q \in D /\ owner[q] = k
  BY <1>2, <1>5, <1>6, <1>7
<1>9. owner[q].kind = "pointer"
  BY <1>4, <1>8 DEF PointerKey
<1>10. ~IsDataPage(q)
  BY <1>8, <1>9 DEF Owns
<1> QED
  BY <1>2, <1>3, <1>4, <1>8, <1>10

(* The pages after a row is deleted. *)
LEMMA DeletePages ==
    ASSUME EngineInv, NEW t \in Existing, NEW p \in live, NEW s, HasTuple(p, s),
           Delete(t, p, s)
    PROVE  /\ p \in live' /\ live' \subseteq live
           /\ page' = [q \in live' |-> page'[q]]
           /\ \A q \in live' \ {p} : page'[q] = page[q]
           /\ page[p] \in DataPages /\ s \in LiveSlots(page[p])
           /\ page'[p] = Deleted(page[p], s)
           /\ page'[p] \in SoundPages /\ page'[p].next = page[p].next
           /\ "slots" \in DOMAIN page'[p]
           /\ LiveSlots(page'[p]) = LiveSlots(page[p]) \ {s}
           /\ \A k \in LiveSlots(page'[p]) : page'[p].slots[k] = page[p].slots[k]
           /\ tables'[t] \in TableRecords
           /\ tables' = [tables EXCEPT ![t] = [first |-> tables[t].first,
                             row_count |-> (tables[t].row_count - 1) % CountModulus]]
           /\ \A q \in live \ live' : q \in FreedWith(page[p].slots[s])
           /\ pins' = pins
<1>1. PICK D, owner, place : Owns(D, owner, place)
  BY DEF EngineInv, ChainsOwned
<1>2. PICK kept : kept = live \ FreedWith(page[p].slots[s])
  OBVIOUS
<1>3. /\ live' = kept
      /\ page' = [[q \in kept |-> page[q]] EXCEPT ![p] = Deleted(@, s)]
      /\ tables' = [tables EXCEPT ![t].row_count = (@ - 1) % CountModulus]
      /\ UNCHANGED pins
  BY <1>2 DEF Delete
<1>4. Shape
  BY DEF EngineInv
<1>5. p \in kept
  <2>1. IsDataPage(p)
    BY DEF HasTuple
  <2> QED
    BY <1>1, <1>2, <1>4, <2>1, FreedOwned
<1>6. /\ page' = [q \in kept |-> IF q = p THEN Deleted(page[p], s) ELSE page[q]]
  BY <1>3, <1>5
<1>7. /\ page[p] \in SoundPages /\ page[p] \in DataPages \cup ChunkPages
      /\ "slots" \in DOMAIN page[p] /\ s \in LiveSlots(page[p])
  BY <1>4 DEF Shape, SoundPages, HasTuple, IsDataPage
<1>8. page[p] \in DataPages
  BY <1>7, PageKinds
<1>9. PICK new : new = Deleted(page[p], s)
  OBVIOUS
<1>10. /\ new \in DataPages /\ new.next = page[p].next
       /\ Len(new.slots) = Len(page[p].slots) /\ new.room = page[p].room
       /\ LiveSlots(new) = LiveSlots(page[p]) \ {s}
       /\ \A k \in LiveSlots(new) : new.slots[k] = page[p].slots[k]
  BY <1>7, <1>8, <1>9, DeletedSlots
<1>11. new \in SoundPages /\ "slots" \in DOMAIN new
  BY <1>7, <1>10 DEF SoundPages, DataPages
<1>12. tables[t] \in TableRecords
  BY <1>4, KeyKinds
<1>13. PICK m : m = (tables[t].row_count - 1) % CountModulus
  OBVIOUS
<1>14. m \in Nat
  BY <1>12, <1>13, EngineAssumption DEF TableRecords
<1>15. /\ tables[t] = [first |-> tables[t].first, row_count |-> tables[t].row_count]
       /\ tables[t].first \in Pages
  BY <1>12 DEF TableRecords
<1>16. /\ tables' = [tables EXCEPT ![t] = [first |-> tables[t].first, row_count |-> m]]
       /\ tables'[t] \in TableRecords
  <2>1. t \in DOMAIN tables
    BY <1>4 DEF Shape, Existing
  <2>2. tables' = [tables EXCEPT ![t] = [tables[t] EXCEPT !.row_count = m]]
    BY <1>3, <1>13
  <2>3. [tables[t] EXCEPT !.row_count = m] = [first |-> tables[t].first, row_count |-> m]
    BY <1>15
  <2> QED
    BY <1>14, <1>15, <2>1, <2>2, <2>3 DEF TableRecords
<1> QED
  BY <1>2, <1>3, <1>5, <1>6, <1>7, <1>8, <1>9, <1>10, <1>11, <1>13, <1>16

(* Deleting a row frees pages of its own pointers only, and takes these away. *)
LEMMA DeleteSound ==
    ASSUME EngineInv, NEW t \in Existing, NEW p \in live, NEW s, HasTuple(p, s),
           Delete(t, p, s)
    PROVE  EngineInv'
<1>1. PICK D, owner, place : Owns(D, owner, place)
  BY DEF EngineInv, ChainsOwned
<1>2. /\ p \in live' /\ live' \subseteq live
      /\ page' = [q \in live' |-> page'[q]]
      /\ \A q \in live' \ {p} : page'[q] = page[q]
      /\ page'[p] \in SoundPages /\ page'[p].next = page[p].next
      /\ "slots" \in DOMAIN page'[p]
      /\ LiveSlots(page'[p]) = LiveSlots(page[p]) \ {s}
      /\ \A k \in LiveSlots(page'[p]) : page'[p].slots[k] = page[p].slots[k]
      /\ tables'[t] \in TableRecords
      /\ \A q \in live \ live' : q \in FreedWith(page[p].slots[s])
      /\ pins' = pins
  BY DeletePages
<1>3. tables' = [tables EXCEPT ![t] = [first |-> tables[t].first,
                     row_count |-> (tables[t].row_count - 1) % CountModulus]]
  BY DeletePages
<1>4. Shape /\ t \in TableNames /\ tables[t] # Absent
  BY DEF EngineInv, Existing
<1>5. /\ tables'[t].first = tables[t].first
      /\ \A u \in TableNames \ {t} : tables'[u] = tables[u]
      /\ tables' \in [TableNames -> TableRecords \cup {Absent}]
  BY <1>2, <1>3, <1>4 DEF Shape
<1>6. Shape'
  <2>1. page' \in [live' -> SoundPages]
    BY <1>2, <1>4 DEF Shape
  <2>2. Pinned' \subseteq live'
    BY <1>1, <1>2, <1>4, FreedOwned DEF Pinned, Shape
  <2> QED
    BY <1>2, <1>4, <1>5, <2>1, <2>2 DEF Shape
<1>7. Existing' = Existing
  <2>1. tables'[t] # Absent
    BY <1>2, EngineAssumption DEF TableRecords
  <2> QED
    BY <1>4, <1>5, <2>1 DEF Existing
<1>8. \A q \in live' \ {p} : /\ IsDataPage(q)' <=> IsDataPage(q)
                             /\ \A r, c : PointerAt(q, r, c)' <=> PointerAt(q, r, c)
  BY <1>2, SamePage
<1>9. IsDataPage(p) /\ IsDataPage(p)'
  BY <1>2 DEF IsDataPage, HasTuple
<1>10. \A r, c : PointerAt(p, r, c)' =>
          /\ r # s /\ PointerAt(p, r, c)
          /\ page'[p].slots[r][c] = page[p].slots[r][c]
  BY <1>2, <1>9 DEF PointerAt, HasTuple
<1>11. Keys' \subseteq Keys /\ \A k \in Keys' : Heads'[k] = Heads[k]
  <2>1. KeysGained({})
    BY <1>2, <1>4, <1>5, <1>7, <1>8, <1>10 DEF KeysGained, Existing
  <2> QED
    BY <2>1, KeysAfter
<1>12. \A c : PointerKey(p, s, c) \notin Keys'
  BY <1>10 DEF Keys, PointerKey, TableKey
<1>13. \A q \in D : owner[q] \in Keys' =>
          /\ q \in live' /\ page'[q].next = page[q].next
          /\ IsDataPage(q)' <=> IsDataPage(q)
  <2> SUFFICES ASSUME NEW q \in D, owner[q] \in Keys'
               PROVE  /\ q \in live' /\ page'[q].next = page[q].next
                      /\ IsDataPage(q)' <=> IsDataPage(q)
    OBVIOUS
  <2>1. q \in live
    BY <1>1 DEF Owns
  <2>2. q \in live'
    <3> SUFFICES ASSUME q \in live \ live' PROVE FALSE
      BY <2>1
    <3>1. q \in FreedWith(page[p].slots[s])
      BY <1>2
    <3>2. \E c : owner[q] = PointerKey(p, s, c)
      BY <1>1, <1>4, <3>1, FreedOwned
    <3> QED
      BY <1>12, <3>2
  <2> QED
    BY <1>2, <1>8, <1>9, <2>2
<1>14. ChainsOwned'
  BY <1>1, <1>4, <1>11, <1>13, OwnedStill
<1> QED
  BY <1>6, <1>14 DEF EngineInv

-----------------------------------------------------------------------------

(* The pages a row is spilled to. *)
LEMMA AllocationSound ==
    ASSUME Shape, NEW n \in Nat, NEW ps \in Allocations(n)
    PROVE  /\ ps \in [1 .. n -> Pages] /\ IsInjective(ps) /\ DOMAIN ps = 1 .. n
           /\ ToSet(ps) \subseteq Pages /\ ToSet(ps) \cap live = {}
           /\ \A q \in ToSet(ps) : \E i \in 1 .. n : q = ps[i]
<1>1. ps \in [1 .. n -> Unused] /\ IsInjective(ps)
  BY DEF Allocations
<1>2. Unused \subseteq Pages /\ Unused \cap live = {}
  BY DEF Unused
<1>3. \A q \in ToSet(ps) : \E i \in 1 .. n : q = ps[i]
  BY <1>1 DEF ToSet
<1> QED
  BY <1>1, <1>2, <1>3

(* What write_overflow writes to new pages, and what it leaves. *)
LEMMA OverflowSound ==
    ASSUME Shape, NEW row \in Rows, NEW n \in 0 .. Len(Pieces(row)),
           NEW ps \in Allocations(n), NEW contents, contents = OverflowPages(row, ps)
    PROVE  /\ DOMAIN contents = ToSet(ps)
           /\ \A q \in ToSet(ps) :
                contents[q] \in SoundPages /\ "slots" \notin DOMAIN contents[q]
<1>1. PICK first : PiecesFrom(row, first)
  BY PiecesSound
<1>2. DOMAIN contents = ToSet(ps)
  BY DEF OverflowPages
<1>3. ASSUME NEW q \in ToSet(ps)
      PROVE  contents[q] \in SoundPages /\ "slots" \notin DOMAIN contents[q]
  <2>1. n \in Nat
    BY <1>1, LenProperties DEF PiecesFrom
  <2>2. PICK i \in 1 .. n : q = ps[i]
    BY <2>1, AllocationSound
  <2>3. ps \in [1 .. n -> Pages] /\ IsInjective(ps)
    BY <2>1, AllocationSound
  <2>4. contents[q] \in ChunkPages
    BY <1>1, <2>2, <2>3, WrittenPage
  <2>5. "slots" \notin DOMAIN contents[q]
    BY <2>4 DEF ChunkPages
  <2> QED
    BY <2>4, <2>5 DEF SoundPages
<1> QED
  BY <1>2, <1>3

(* A disk that fills up: what is written by then belongs to no chain. *)
LEMMA InsertFindsNoPageSound ==
    ASSUME EngineInv, NEW t \in Existing, NEW row \in Rows, InsertFindsNoPage(t, row)
    PROVE  EngineInv'
<1>1. Shape
  BY DEF EngineInv
<1>2. Len(Pieces(row)) \in Nat
  <2>1. PICK first : PiecesFrom(row, first)
    BY PiecesSound
  <2> QED
    BY <2>1, LenProperties DEF PiecesFrom
<1>3. PICK unused : unused = Cardinality(Unused)
  OBVIOUS
<1>4. unused \in Nat
  <2>1. IsFiniteSet(Unused)
    BY EngineAssumption, FS_Subset DEF Unused
  <2> QED
    BY <1>3, <2>1, FS_CardinalityType
<1>5. PICK n : n = IF unused < Len(Pieces(row)) THEN unused ELSE Len(Pieces(row))
  OBVIOUS
<1>6. n \in 0 .. Len(Pieces(row)) /\ n \in Nat
  BY <1>2, <1>4, <1>5
<1>7. PICK ps \in Allocations(n) :
          /\ live' = live \cup ToSet(ps)
          /\ page' = WithPages(OverflowPages(row, ps))
          /\ UNCHANGED <<pins, tables>>
  BY <1>3, <1>5 DEF InsertFindsNoPage
<1>8. PICK contents : contents = OverflowPages(row, ps)
  OBVIOUS
<1>9. /\ DOMAIN contents = ToSet(ps)
      /\ \A q \in ToSet(ps) :
            contents[q] \in SoundPages /\ "slots" \notin DOMAIN contents[q]
  BY <1>1, <1>6, <1>8, OverflowSound
<1>10. ToSet(ps) \subseteq Pages /\ ToSet(ps) \cap live = {}
  BY <1>1, <1>6, AllocationSound
<1>11. /\ page' = [q \in live' |-> page'[q]]
       /\ \A q \in live : page'[q] = page[q]
       /\ \A q \in ToSet(ps) : page'[q] = contents[q]
  <2>1. page' = WithPages(contents) /\ DOMAIN contents \cap live = {}
    BY <1>7, <1>8, <1>9, <1>10
  <2>2. live' = live \cup DOMAIN contents
    BY <1>7, <1>9
  <2> QED
    BY <1>1, <1>9, <2>1, <2>2, PagesWritten
<1>12. Shape'
  <2>1. page' \in [live' -> SoundPages]
    BY <1>1, <1>7, <1>9, <1>11 DEF Shape
  <2> QED
    BY <1>1, <1>7, <1>10, <2>1 DEF Shape, Pinned
<1>13. ChainsOwned'
  <2>1. PICK D, owner, place : Owns(D, owner, place)
    BY DEF EngineInv, ChainsOwned
  <2>2. Existing' = Existing /\ tables' = tables
    BY <1>7 DEF Existing
  <2>3. \A q \in live : /\ IsDataPage(q)' <=> IsDataPage(q)
                        /\ \A s, c : PointerAt(q, s, c)' <=> PointerAt(q, s, c)
    BY <1>11, SamePage
  <2>4. \A q \in ToSet(ps) : \A s, c : ~PointerAt(q, s, c)'
    BY <1>9, <1>11 DEF PointerAt, HasTuple, IsDataPage
  <2>5. KeysGained({})
    BY <1>7, <1>11, <2>2, <2>3, <2>4 DEF KeysGained
  <2>6. Keys' \subseteq Keys /\ \A k \in Keys' : Heads'[k] = Heads[k]
    BY <2>5, KeysAfter
  <2>7. \A q \in D : q \in live' /\ page'[q].next = page[q].next
                     /\ (IsDataPage(q)' <=> IsDataPage(q))
    BY <1>7, <1>11, <2>1, <2>3 DEF Owns
  <2> QED
    BY <1>1, <2>1, <2>6, <2>7, OwnedStill
<1> QED
  BY <1>12, <1>13 DEF EngineInv

(***************************************************************************)
(* What an insertion leaves: the tuple in slot s of page p, and its data   *)
(* on the pages ps; when p is new the last page of the table links to it.  *)
(***************************************************************************)
LastPage(t) == Last(TableChain(t))

Stored(t, row, ps, p, s) ==
    /\ ps \in Allocations(Len(Pieces(row)))
    /\ p \in Pages \ ToSet(ps) /\ s \in Nat
    /\ live' = live \cup ToSet(ps) \cup {p}
    /\ page' = [q \in live' |-> page'[q]]
    /\ \A q \in ToSet(ps) : page'[q] = OverflowPages(row, ps)[q]
    /\ \A q \in live \ {p} :
        page'[q] = IF p \notin live /\ q = LastPage(t)
                   THEN [page[q] EXCEPT !.next = p] ELSE page[q]
    /\ page'[p] \in DataPages \cap SoundPages
    /\ page'[p].slots[s] = Encoded(row, ps)
    /\ LiveSlots(page'[p]) = {s} \cup IF p \in live THEN LiveSlots(page[p]) ELSE {}
    /\ p \notin live => page'[p].next = NoPage
    /\ p \in live =>
        /\ p \in TablePages(t) /\ page'[p].next = page[p].next
        /\ s \notin LiveSlots(page[p])
        /\ \A k \in LiveSlots(page[p]) : page'[p].slots[k] = page[p].slots[k]
    /\ tables' = [tables EXCEPT ![t] = [first |-> tables[t].first,
                      row_count |-> (tables[t].row_count + 1) % CountModulus]]
    /\ tables'[t] \in TableRecords
    /\ pins' = pins

(* The page insert finds has room for the tuple and a slot. *)
LEMMA TargetSound ==
    ASSUME NEW t, NEW row, NEW c, c = TableChain(t), HasTarget(t, row)
    PROVE  /\ Target(t, row) \in 1 .. Len(c)
           /\ page[c[Target(t, row)]].room >= TupleSize(row) + SlotSize
<1> DEFINE I == {i \in 1 .. Len(c) : page[c[i]].room >= TupleSize(row) + SlotSize}
<1>1. Target(t, row) = IF I # {} THEN Min(I) ELSE 0
  BY DEF Target, SelectInSeq
<1>2. I # {} /\ Target(t, row) = Min(I)
  BY <1>1 DEF HasTarget
<1>3. I \in SUBSET Nat
  OBVIOUS
<1> HIDE DEF I
<1>4. PICK m \in I : \A k \in I : m <= k
  BY <1>2, <1>3, LeastElement
<1>5. Target(t, row) \in I
  BY <1>2, <1>3, <1>4, MinIsLeast
<1> QED
  BY <1>5 DEF I

(* The table's count after an insertion. *)
LEMMA CountedSound ==
    ASSUME Shape, NEW t \in Existing, Counted(t)
    PROVE  /\ tables' = [tables EXCEPT ![t] = [first |-> tables[t].first,
                             row_count |-> (tables[t].row_count + 1) % CountModulus]]
           /\ tables'[t] \in TableRecords
<1>1. tables[t] \in TableRecords /\ t \in DOMAIN tables
  BY KeyKinds DEF Shape, Existing
<1>2. PICK m : m = (tables[t].row_count + 1) % CountModulus
  OBVIOUS
<1>3. m \in Nat
  BY <1>1, <1>2, EngineAssumption DEF TableRecords
<1>4. /\ tables[t] = [first |-> tables[t].first, row_count |-> tables[t].row_count]
      /\ tables[t].first \in Pages
  BY <1>1 DEF TableRecords
<1>5. tables' = [tables EXCEPT ![t] = [tables[t] EXCEPT !.row_count = m]]
  BY <1>2 DEF Counted
<1>6. [tables[t] EXCEPT !.row_count = m] = [first |-> tables[t].first, row_count |-> m]
  BY <1>4
<1> QED
  BY <1>1, <1>2, <1>3, <1>4, <1>5, <1>6 DEF TableRecords

(* The last page of a table. *)
LEMMA LastPageSound ==
    ASSUME Shape, NEW D, NEW owner, NEW place, Owns(D, owner, place),
           NEW t \in Existing
    PROVE  /\ LastPage(t) \in D /\ LastPage(t) \in live
           /\ LastPage(t) \in TablePages(t) /\ IsDataPage(LastPage(t))
           /\ owner[LastPage(t)] = TableKey(t) /\ page[LastPage(t)].next = NoPage
<1>1. PICK c : c = TableChain(t)
  OBVIOUS
<1>2. /\ Len(c) \in Nat \ {0}
      /\ \A i \in 1 .. Len(c) :
            /\ c[i] \in D /\ c[i] \in live /\ c[i] \in TablePages(t)
            /\ owner[c[i]] = TableKey(t) /\ IsDataPage(c[i])
      /\ page[c[Len(c)]].next = NoPage
  BY <1>1, ChainOfTable
<1>3. LastPage(t) = c[Len(c)] /\ Len(c) \in 1 .. Len(c)
  BY <1>1, <1>2 DEF LastPage, Last
<1> QED
  BY <1>2, <1>3

(* Linking to another page leaves the rest of a page alone. *)
LEMMA LinkedPage ==
    ASSUME NEW pg \in SoundPages, "slots" \in DOMAIN pg, NEW p \in Pages,
           NEW new, new = [pg EXCEPT !.next = p]
    PROVE  /\ pg \in DataPages /\ new \in DataPages /\ new \in SoundPages
           /\ new.next = p /\ new.slots = pg.slots /\ new.room = pg.room
           /\ "slots" \in DOMAIN new /\ LiveSlots(new) = LiveSlots(pg)
<1>1. pg \in DataPages
  BY PageKinds DEF SoundPages
<1>2. /\ new.next = p /\ new.slots = pg.slots /\ new.room = pg.room
      /\ new \in DataPages /\ "slots" \in DOMAIN new
  BY <1>1 DEF DataPages
<1> QED
  BY <1>1, <1>2 DEF SoundPages, LiveSlots

(* There is room on the page, so the tuple is in a slot of its own. *)
LEMMA InsertHereStores ==
    ASSUME EngineInv, NEW t \in Existing, NEW row \in Rows, InsertHere(t, row)
    PROVE  \E ps, p, s : Stored(t, row, ps, p, s)
<1>1. PICK D, owner, place : Owns(D, owner, place)
  BY DEF EngineInv, ChainsOwned
<1>2. Shape
  BY DEF EngineInv
<1>3. PICK c : c = TableChain(t)
  OBVIOUS
<1>4. PICK p : p = c[Target(t, row)]
  OBVIOUS
<1>5. Target(t, row) \in 1 .. Len(c) /\ page[p].room >= TupleSize(row) + SlotSize
  BY <1>3, <1>4, TargetSound DEF InsertHere
<1>6. p \in live /\ p \in TablePages(t) /\ IsDataPage(p)
  BY <1>1, <1>2, <1>3, <1>4, <1>5, ChainOfTable
<1>7. PICK ps \in Allocations(Len(Pieces(row))) :
          /\ live' = live \cup ToSet(ps)
          /\ page' = [WithPages(OverflowPages(row, ps)) EXCEPT
                          ![p] = Inserted(@, Encoded(row, ps), TupleSize(row))]
          /\ Counted(t)
          /\ UNCHANGED pins
  BY <1>3, <1>4 DEF InsertHere
<1>8. PICK n : n = Len(Pieces(row))
  OBVIOUS
<1>9. PICK first : PiecesFrom(row, first)
  BY PiecesSound
<1>10. n \in Nat /\ n \in 0 .. n
  BY <1>8, <1>9, LenProperties DEF PiecesFrom
<1>11. ps \in [1 .. n -> Pages] /\ ToSet(ps) \subseteq Pages /\ ToSet(ps) \cap live = {}
  BY <1>2, <1>7, <1>8, <1>10, AllocationSound
<1>12. DOMAIN OverflowPages(row, ps) = ToSet(ps)
  BY <1>2, <1>7, <1>8, <1>10, OverflowSound
<1>13. PICK pg : pg = page[p]
  OBVIOUS
<1>14. pg \in SoundPages /\ "slots" \in DOMAIN pg /\ pg \in DataPages
  BY <1>2, <1>6, <1>13, PageKinds DEF Shape, SoundPages, IsDataPage
<1>15. PICK tuple : tuple = Encoded(row, ps)
  OBVIOUS
<1>16. tuple \in StoredTuples /\ tuple # Tombstone
  BY <1>8, <1>9, <1>11, <1>15, EncodedSound
<1>17. PICK size : size = TupleSize(row)
  OBVIOUS
<1>18. size \in Nat \ {0}
  BY <1>17, TupleSizePositive
<1>19. CanInsert(pg, size)
  <2>1. pg.room \in Nat /\ pg.room >= size + SlotSize
    BY <1>5, <1>13, <1>14, <1>17 DEF DataPages
  <2> QED
    BY <1>18, <2>1, EngineAssumption DEF CanInsert, SlotBytes
<1>20. PICK new : new = Inserted(pg, tuple, size)
  OBVIOUS
<1>21. /\ new \in DataPages /\ new.next = pg.next
       /\ Len(new.slots) * SlotSize + new.room <= Len(pg.slots) * SlotSize + pg.room
       /\ \E s \in Nat \ LiveSlots(pg) :
            /\ LiveSlots(new) = LiveSlots(pg) \cup {s}
            /\ new.slots[s] = tuple
            /\ \A k \in LiveSlots(pg) : new.slots[k] = pg.slots[k]
  BY <1>14, <1>16, <1>18, <1>19, <1>20, InsertedSlots
<1>22. PICK s \in Nat \ LiveSlots(pg) :
          /\ LiveSlots(new) = LiveSlots(pg) \cup {s}
          /\ new.slots[s] = tuple
          /\ \A k \in LiveSlots(pg) : new.slots[k] = pg.slots[k]
  BY <1>21
<1>23. new \in SoundPages
  <2>1. PICK a : a = Len(new.slots) * SlotSize
    OBVIOUS
  <2>2. PICK b : b = Len(pg.slots) * SlotSize
    OBVIOUS
  <2>3. a \in Nat /\ b \in Nat /\ new.room \in Nat /\ pg.room \in Nat
    <3>1. Len(new.slots) \in Nat /\ Len(pg.slots) \in Nat
      BY <1>14, <1>21, LenProperties DEF DataPages
    <3> QED
      BY SMTT(30), <1>14, <1>21, <2>1, <2>2, <3>1, EngineAssumption DEF DataPages
  <2>4. a + new.room <= b + pg.room /\ b + pg.room <= PageRoom
    BY <1>14, <1>21, <2>1, <2>2 DEF SoundPages
  <2>5. a + new.room <= PageRoom
    BY <2>3, <2>4, EngineAssumption
  <2> QED
    BY <1>21, <2>1, <2>5 DEF SoundPages
<1>24. PICK w : w = WithPages(OverflowPages(row, ps))
  OBVIOUS
<1>25. /\ w = [q \in live' |-> w[q]]
       /\ \A q \in live : w[q] = page[q]
       /\ \A q \in ToSet(ps) : w[q] = OverflowPages(row, ps)[q]
  BY <1>2, <1>7, <1>11, <1>12, <1>24 DEF WithPages, Over, Shape
<1>26. page' = [w EXCEPT ![p] = new]
  BY <1>6, <1>7, <1>13, <1>15, <1>17, <1>20, <1>24, <1>25
<1>27. /\ page' = [q \in live' |-> page'[q]] /\ page'[p] = new
       /\ \A q \in ToSet(ps) : page'[q] = OverflowPages(row, ps)[q]
       /\ \A q \in live \ {p} : page'[q] = page[q]
  BY <1>6, <1>7, <1>11, <1>25, <1>26
<1>28. /\ tables' = [tables EXCEPT ![t] = [first |-> tables[t].first,
                         row_count |-> (tables[t].row_count + 1) % CountModulus]]
       /\ tables'[t] \in TableRecords
  BY <1>2, <1>7, CountedSound
<1>29. p \in Pages \ ToSet(ps) /\ live' = live \cup ToSet(ps) \cup {p}
  BY <1>2, <1>6, <1>7, <1>11 DEF Shape
<1>30. /\ page'[p] \in DataPages \cap SoundPages
       /\ page'[p].slots[s] = Encoded(row, ps)
       /\ LiveSlots(page'[p]) = {s} \cup LiveSlots(page[p])
       /\ page'[p].next = page[p].next
       /\ s \notin LiveSlots(page[p])
       /\ \A k \in LiveSlots(page[p]) : page'[p].slots[k] = page[p].slots[k]
  BY <1>13, <1>15, <1>21, <1>22, <1>23, <1>27
<1>31. Stored(t, row, ps, p, s)
  BY <1>6, <1>7, <1>27, <1>28, <1>29, <1>30 DEF Stored
<1> QED
  BY <1>31

(* The pages an insertion without a target writes before it links any. *)
WrittenFirst(row, ps, p) == WithPages(Over(OverflowPages(row, ps), Only(p, NewDataPage)))

(* The pages after insert wrote the overflow pages and took a data page. *)
LEMMA NewPageWritten ==
    ASSUME EngineInv, NEW row \in Rows, NEW ps \in Allocations(Len(Pieces(row))),
           NEW p \in Unused \ ToSet(ps),
           NEW w, w = WrittenFirst(row, ps, p)
    PROVE  /\ w = [q \in live \cup ToSet(ps) \cup {p} |-> w[q]]
           /\ \A q \in live : w[q] = page[q]
           /\ \A q \in ToSet(ps) : w[q] = OverflowPages(row, ps)[q]
           /\ w[p] = NewDataPage
           /\ p \in Pages \ ToSet(ps) /\ p \notin live
           /\ ToSet(ps) \subseteq Pages /\ ToSet(ps) \cap live = {}
           /\ ps \in [1 .. Len(Pieces(row)) -> Pages]
           /\ \A q \in ToSet(ps) : /\ OverflowPages(row, ps)[q] \in SoundPages
                                   /\ "slots" \notin DOMAIN OverflowPages(row, ps)[q]
<1>1. Shape /\ p \in Pages \ ToSet(ps) /\ p \notin live
  BY DEF EngineInv, Unused
<1>2. PICK n : n = Len(Pieces(row))
  OBVIOUS
<1>3. PICK first : PiecesFrom(row, first)
  BY PiecesSound
<1>4. n \in Nat /\ n \in 0 .. n
  BY <1>2, <1>3, LenProperties DEF PiecesFrom
<1>5. ps \in [1 .. n -> Pages] /\ ToSet(ps) \subseteq Pages /\ ToSet(ps) \cap live = {}
  BY <1>1, <1>2, <1>4, AllocationSound
<1>6. PICK contents : contents = OverflowPages(row, ps)
  OBVIOUS
<1>7. /\ DOMAIN contents = ToSet(ps)
      /\ \A q \in ToSet(ps) :
            contents[q] \in SoundPages /\ "slots" \notin DOMAIN contents[q]
  BY <1>1, <1>2, <1>4, <1>6, OverflowSound
<1>8. PICK pg : pg = NewDataPage
  OBVIOUS
<1>9. PICK over : over = Over(contents, Only(p, pg))
  OBVIOUS
<1>10. /\ DOMAIN over = ToSet(ps) \cup {p} /\ over[p] = pg
       /\ \A q \in ToSet(ps) : over[q] = contents[q]
  BY <1>1, <1>7, <1>9 DEF Over, Only
<1>11. w = WithPages(over)
  BY <1>6, <1>8, <1>9 DEF WrittenFirst
<1>12. /\ w = [q \in live \cup ToSet(ps) \cup {p} |-> w[q]]
       /\ \A q \in live : w[q] = page[q]
       /\ \A q \in ToSet(ps) : w[q] = contents[q]
       /\ w[p] = pg
  <2>1. DOMAIN page = live
    BY <1>1 DEF Shape
  <2>2. PICK all : all = live \cup ToSet(ps) \cup {p}
    OBVIOUS
  <2>3. DOMAIN over \cup live = all
    BY <1>10, <2>2
  <2>4. w = [q \in all |-> IF q \in DOMAIN over THEN over[q] ELSE page[q]]
    BY <1>11, <2>1, <2>3 DEF WithPages, Over
  <2>5. w = [q \in all |-> w[q]]
    BY <2>4
  <2> QED
    BY <1>1, <1>5, <1>10, <2>2, <2>4, <2>5
<1> QED
  BY <1>1, <1>2, <1>5, <1>6, <1>7, <1>8, <1>12

(***************************************************************************)
(* What an insertion that gives up behind its new page leaves: the page    *)
(* empty and pinned, linked to or not, and its data on pages of no chain.  *)
(***************************************************************************)
Abandoned(t, ps, p, links) ==
    /\ ToSet(ps) \subseteq Pages /\ ToSet(ps) \cap live = {}
    /\ p \in Pages \ ToSet(ps) /\ p \notin live
    /\ live' = live \cup ToSet(ps) \cup {p}
    /\ page' = [q \in live' |-> page'[q]]
    /\ \A q \in ToSet(ps) :
        page'[q] \in SoundPages /\ "slots" \notin DOMAIN page'[q]
    /\ page'[p] = NewDataPage
    /\ \A q \in live :
        page'[q] = IF links /\ q = LastPage(t)
                   THEN [page[q] EXCEPT !.next = p] ELSE page[q]
    /\ pins' = [pins EXCEPT ![p] = 1]
    /\ tables' = tables

(* insert on a new page stores the row, or abandons the page. *)
LEMMA InsertOnNewPageStores ==
    ASSUME EngineInv, NEW t \in Existing, NEW row \in Rows, InsertOnNewPage(t, row)
    PROVE  \/ \E ps, p, s : Stored(t, row, ps, p, s)
           \/ \E ps, p : Abandoned(t, ps, p, TRUE) \/ Abandoned(t, ps, p, FALSE)
<1>1. PICK D, owner, place : Owns(D, owner, place)
  BY DEF EngineInv, ChainsOwned
<1>2. Shape
  BY DEF EngineInv
<1>3. PICK last : last = LastPage(t)
  OBVIOUS
<1>4. PICK ps \in Allocations(Len(Pieces(row))) : \E p \in Unused \ ToSet(ps) :
        LET linked == [WrittenFirst(row, ps, p) EXCEPT ![last].next = p]
            stored == [linked EXCEPT
                           ![p] = Inserted(@, Encoded(row, ps), TupleSize(row))]
        IN
        /\ live' = live \cup ToSet(ps) \cup {p}
        /\ \/ /\ CanLink(t) /\ FitsEmptyPage(row)
              /\ page' = stored
              /\ Counted(t)
              /\ UNCHANGED pins
           \/ /\ ~(CanLink(t) /\ FitsEmptyPage(row))
              /\ page' = IF CanLink(t) THEN linked ELSE WrittenFirst(row, ps, p)
              /\ pins' = [pins EXCEPT ![p] = 1]
              /\ UNCHANGED tables
  BY <1>3 DEF InsertOnNewPage, LastPage, WrittenFirst
<1>5. PICK p \in Unused \ ToSet(ps) :
        LET linked == [WrittenFirst(row, ps, p) EXCEPT ![last].next = p]
            stored == [linked EXCEPT
                           ![p] = Inserted(@, Encoded(row, ps), TupleSize(row))]
        IN
        /\ live' = live \cup ToSet(ps) \cup {p}
        /\ \/ /\ CanLink(t) /\ FitsEmptyPage(row)
              /\ page' = stored
              /\ Counted(t)
              /\ UNCHANGED pins
           \/ /\ ~(CanLink(t) /\ FitsEmptyPage(row))
              /\ page' = IF CanLink(t) THEN linked ELSE WrittenFirst(row, ps, p)
              /\ pins' = [pins EXCEPT ![p] = 1]
              /\ UNCHANGED tables
  BY <1>4
<1>6. PICK w : w = WrittenFirst(row, ps, p)
  OBVIOUS
<1>7. PICK linked : linked = [w EXCEPT ![last].next = p]
  OBVIOUS
<1>8. PICK tuple : tuple = Encoded(row, ps)
  OBVIOUS
<1>9. PICK size : size = TupleSize(row)
  OBVIOUS
<1>10. /\ live' = live \cup ToSet(ps) \cup {p}
       /\ \/ /\ CanLink(t) /\ FitsEmptyPage(row)
             /\ page' = [linked EXCEPT ![p] = Inserted(@, tuple, size)]
             /\ Counted(t)
             /\ UNCHANGED pins
          \/ /\ page' = IF CanLink(t) THEN linked ELSE w
             /\ pins' = [pins EXCEPT ![p] = 1]
             /\ UNCHANGED tables
  BY <1>5, <1>6, <1>7, <1>8, <1>9
<1>11. PICK contents : contents = OverflowPages(row, ps)
  OBVIOUS
<1>12. PICK empty : empty = NewDataPage
  OBVIOUS
<1>13. /\ w = [q \in live \cup ToSet(ps) \cup {p} |-> w[q]]
       /\ \A q \in live : w[q] = page[q]
       /\ \A q \in ToSet(ps) : w[q] = contents[q]
       /\ w[p] = empty
       /\ p \in Pages \ ToSet(ps) /\ p \notin live
       /\ ToSet(ps) \subseteq Pages /\ ToSet(ps) \cap live = {}
       /\ ps \in [1 .. Len(Pieces(row)) -> Pages]
       /\ \A q \in ToSet(ps) :
            contents[q] \in SoundPages /\ "slots" \notin DOMAIN contents[q]
  <2>1. /\ w = [q \in live \cup ToSet(ps) \cup {p} |-> w[q]]
        /\ \A q \in live : w[q] = page[q]
        /\ \A q \in ToSet(ps) : w[q] = OverflowPages(row, ps)[q]
        /\ w[p] = NewDataPage
    BY <1>6, NewPageWritten
  <2>2. /\ p \in Pages \ ToSet(ps) /\ p \notin live
        /\ ToSet(ps) \subseteq Pages /\ ToSet(ps) \cap live = {}
        /\ ps \in [1 .. Len(Pieces(row)) -> Pages]
        /\ \A q \in ToSet(ps) : /\ OverflowPages(row, ps)[q] \in SoundPages
                                /\ "slots" \notin DOMAIN OverflowPages(row, ps)[q]
    BY ZenonT(60), <1>6, NewPageWritten
  <2> QED
    BY <1>11, <1>12, <2>1, <2>2
<1>14. last \in live /\ last \notin ToSet(ps) /\ last # p
  BY <1>1, <1>2, <1>3, <1>13, LastPageSound
<1>15. /\ linked = [q \in live \cup ToSet(ps) \cup {p} |-> linked[q]]
       /\ linked[last] = [page[last] EXCEPT !.next = p]
       /\ \A q \in (live \cup ToSet(ps) \cup {p}) \ {last} : linked[q] = w[q]
  BY <1>7, <1>13, <1>14
<1>16. ASSUME CanLink(t), FitsEmptyPage(row), Counted(t), UNCHANGED pins,
              page' = [linked EXCEPT ![p] = Inserted(@, tuple, size)]
       PROVE  \E s : Stored(t, row, ps, p, s)
  <2>1. /\ empty \in DataPages /\ empty.room = PageRoom /\ Len(empty.slots) = 0
        /\ LiveSlots(empty) = {} /\ empty.next = NoPage
    BY <1>12, EmptyPageSound, EngineAssumption DEF NewDataPage
  <2>2. PICK first : PiecesFrom(row, first)
    BY PiecesSound
  <2>3. tuple \in StoredTuples /\ tuple # Tombstone
    BY <1>8, <1>13, <2>2, EncodedSound
  <2>4. size \in Nat \ {0}
    BY <1>9, TupleSizePositive
  <2>5. CanInsert(empty, size)
    BY <1>9, <1>12, <1>16 DEF FitsEmptyPage
  <2>6. PICK new : new = Inserted(empty, tuple, size)
    OBVIOUS
  <2>7. /\ new \in DataPages /\ new.next = empty.next
        /\ Len(new.slots) * SlotSize + new.room <= Len(empty.slots) * SlotSize + empty.room
        /\ \E s \in Nat \ LiveSlots(empty) :
             /\ LiveSlots(new) = LiveSlots(empty) \cup {s}
             /\ new.slots[s] = tuple
             /\ \A k \in LiveSlots(empty) : new.slots[k] = empty.slots[k]
    BY <2>1, <2>3, <2>4, <2>5, <2>6, InsertedSlots
  <2>8. PICK s \in Nat : LiveSlots(new) = {s} /\ new.slots[s] = tuple
    BY <2>1, <2>7
  <2>9. new \in SoundPages
    BY <2>1, <2>7, EngineAssumption DEF SoundPages
  <2>10. page' = [linked EXCEPT ![p] = new] /\ linked[p] = empty
    BY <1>13, <1>14, <1>15, <1>16, <2>6
  <2>11. /\ page' = [q \in live' |-> page'[q]] /\ page'[p] = new
         /\ \A q \in ToSet(ps) : page'[q] = contents[q]
         /\ \A q \in live \ {p} :
              page'[q] = IF q = last THEN [page[q] EXCEPT !.next = p] ELSE page[q]
    BY <1>10, <1>13, <1>14, <1>15, <2>10
  <2>12. /\ tables' = [tables EXCEPT ![t] = [first |-> tables[t].first,
                           row_count |-> (tables[t].row_count + 1) % CountModulus]]
         /\ tables'[t] \in TableRecords
    BY <1>2, <1>16, CountedSound
  <2>13. Stored(t, row, ps, p, s)
    BY <1>3, <1>8, <1>10, <1>11, <1>13, <1>16, <2>1, <2>7, <2>8, <2>9, <2>11, <2>12
    DEF Stored
  <2> QED
    BY <2>13
<1>17. ASSUME CanLink(t), page' = linked, pins' = [pins EXCEPT ![p] = 1], UNCHANGED tables
       PROVE  Abandoned(t, ps, p, TRUE)
  BY <1>3, <1>10, <1>12, <1>13, <1>14, <1>15, <1>17 DEF Abandoned
<1>18. ASSUME page' = w, pins' = [pins EXCEPT ![p] = 1], UNCHANGED tables
       PROVE  Abandoned(t, ps, p, FALSE)
  BY <1>10, <1>12, <1>13, <1>18 DEF Abandoned
<1>19. CASE CanLink(t)
  BY <1>10, <1>16, <1>17, <1>19
<1>20. CASE ~CanLink(t)
  BY <1>10, <1>18, <1>20
<1> QED
  BY <1>19, <1>20

(***************************************************************************)
(* The old chains when the last page of a table is linked to a new page,   *)
(* which belongs to the table from then on.                                *)
(***************************************************************************)
LEMMA RetainedLinked ==
    ASSUME Shape, NEW D, NEW owner, NEW place, Owns(D, owner, place),
           NEW t \in Existing, NEW p \in Pages, p \notin live,
           live \subseteq live', p \in live',
           page'[LastPage(t)].next = p, page'[p].next = NoPage, IsDataPage(p)',
           \A q \in live : IsDataPage(q)' <=> IsDataPage(q),
           \A q \in live \ {LastPage(t)} : page'[q].next = page[q].next,
           NEW old, old \subseteq Keys, \A k \in old : Heads'[k] = Heads[k]
    PROVE  \E E, next, o, l :
                Retained(old, E, Keys, Heads, next, o, l) /\ E \subseteq live \cup {p}
<1> PICK K : K = Keys
  OBVIOUS
<1> PICK H : H = Heads
  OBVIOUS
<1> PICK N : N = Links
  OBVIOUS
<1> PICK last : last = LastPage(t)
  OBVIOUS
<1> PICK N2 : N2 = [q \in live \cup {p} |-> page'[q].next]
  OBVIOUS
<1>1. Ownership(D, K, H, N, owner, place) /\ D \subseteq live
  BY DEF Owns
<1>2. NoPage \notin D /\ p \notin D /\ p # NoPage
  BY <1>1, EngineAssumption DEF Shape
<1>3. last \in D /\ owner[last] = TableKey(t) /\ page[last].next = NoPage
  BY LastPageSound
<1>4. N[last] = NoPage
  BY <1>1, <1>3 DEF Links
<1>5. N2[last] = p /\ N2[p] = NoPage /\ \A q \in D \ {last} : N2[q] = N[q]
  BY <1>1, <1>3 DEF Links
<1>6. PICK E : E = D \cup {p}
  OBVIOUS
<1>7. PICK o : o = [q \in E |-> IF q = p THEN owner[last] ELSE owner[q]]
  OBVIOUS
<1>8. PICK l : l = [q \in E |-> IF q = p THEN place[last] + 1 ELSE place[q]]
  OBVIOUS
<1>9. Ownership(E, K, H, N2, o, l)
  <2>1. LinksTo(D, last, p, N, N2)
    BY <1>2, <1>3, <1>4, <1>5 DEF LinksTo
  <2> QED
    BY <1>1, <1>6, <1>7, <1>8, <2>1, OwnershipLonger
<1>10. o[p] = TableKey(t) /\ TableKey(t).kind = "table" /\ \A q \in D : o[q] = owner[q]
  BY <1>2, <1>3, <1>6, <1>7 DEF TableKey
<1>11. \A q \in D : IsDataPage(q)' <=> owner[q].kind = "table"
  BY <1>1 DEF Owns
<1>12. Retained(old, E, Keys, Heads, N2, o, l)
  <2>1. Ownership(E, Keys, Heads, N2, o, l) /\ NoPage \notin E
    BY <1>2, <1>6, <1>9
  <2>2. \A q \in E : /\ q \in live' /\ page'[q].next = N2[q]
                     /\ IsDataPage(q)' <=> o[q].kind = "table"
    BY <1>1, <1>6, <1>10, <1>11
  <2> QED
    BY <2>1, <2>2 DEF Retained
<1> QED
  BY <1>1, <1>6, <1>12

(* An insertion adds the chains of the pointers of its tuple. *)
LEMMA StoredSound ==
    ASSUME EngineInv, NEW t \in Existing, NEW row \in Rows,
           NEW ps, NEW p, NEW s, Stored(t, row, ps, p, s)
    PROVE  EngineInv'
<1>1. PICK D, owner, place : Owns(D, owner, place)
  BY DEF EngineInv, ChainsOwned
<1>2. Shape
  BY DEF EngineInv
<1>3. PICK n : n = Len(Pieces(row))
  OBVIOUS
<1>4. PICK first : PiecesFrom(row, first)
  BY PiecesSound
<1>5. n \in Nat /\ n \in 0 .. n
  BY <1>3, <1>4, LenProperties DEF PiecesFrom
<1>6. ps \in Allocations(n)
  BY <1>3 DEF Stored
<1>7. /\ ps \in [1 .. n -> Pages] /\ IsInjective(ps)
      /\ ToSet(ps) \subseteq Pages /\ ToSet(ps) \cap live = {}
  BY <1>2, <1>5, <1>6, AllocationSound
<1>8. PICK contents : contents = OverflowPages(row, ps)
  OBVIOUS
<1>9. \A q \in ToSet(ps) :
          /\ page'[q] = contents[q]
          /\ page'[q] \in SoundPages /\ "slots" \notin DOMAIN page'[q]
  <2>1. \A q \in ToSet(ps) :
            contents[q] \in SoundPages /\ "slots" \notin DOMAIN contents[q]
    BY <1>2, <1>3, <1>5, <1>6, <1>8, OverflowSound
  <2> QED
    BY <1>8, <2>1 DEF Stored
<1>10. PICK last : last = LastPage(t)
  OBVIOUS
<1>11. /\ last \in live /\ IsDataPage(last) /\ page[last] \in SoundPages
       /\ page[last].next = NoPage
  BY <1>1, <1>2, <1>10, LastPageSound DEF Shape
<1>12. p \in Pages \ ToSet(ps) /\ live' = live \cup ToSet(ps) \cup {p} /\ s \in Nat
  BY DEF Stored
<1>13. page'[p] \in SoundPages /\ "slots" \in DOMAIN page'[p]
  BY DEF Stored, DataPages
<1>14. \A q \in live \ {p} :
          /\ page'[q] \in SoundPages
          /\ "slots" \in DOMAIN page'[q] <=> "slots" \in DOMAIN page[q]
          /\ "slots" \in DOMAIN page[q] =>
                page'[q].slots = page[q].slots /\ LiveSlots(page'[q]) = LiveSlots(page[q])
          /\ ~(p \notin live /\ q = last) => page'[q].next = page[q].next
  <2> SUFFICES ASSUME NEW q \in live \ {p}
               PROVE  /\ page'[q] \in SoundPages
                      /\ "slots" \in DOMAIN page'[q] <=> "slots" \in DOMAIN page[q]
                      /\ "slots" \in DOMAIN page[q] =>
                            /\ page'[q].slots = page[q].slots
                            /\ LiveSlots(page'[q]) = LiveSlots(page[q])
                      /\ ~(p \notin live /\ q = last) => page'[q].next = page[q].next
    OBVIOUS
  <2>1. page[q] \in SoundPages
    BY <1>2 DEF Shape
  <2>2. CASE p \notin live /\ q = last
    <3>1. page'[q] = [page[q] EXCEPT !.next = p] /\ "slots" \in DOMAIN page[q]
      BY <1>10, <1>11, <2>2 DEF Stored, IsDataPage
    <3> QED
      BY <1>12, <2>1, <2>2, <3>1, LinkedPage
  <2>3. CASE ~(p \notin live /\ q = last)
    <3>1. page'[q] = page[q]
      BY <1>10, <2>3 DEF Stored
    <3> QED
      BY <2>1, <2>3, <3>1
  <2> QED
    BY <2>2, <2>3
<1>15. /\ tables'[t] \in TableRecords /\ tables'[t].first = tables[t].first
       /\ \A u \in TableNames \ {t} : tables'[u] = tables[u]
       /\ tables' \in [TableNames -> TableRecords \cup {Absent}]
  BY <1>2 DEF Stored, Shape, Existing
<1>16. Shape'
  <2>1. page' \in [live' -> SoundPages]
    <3>1. \A q \in live' : page'[q] \in SoundPages
      BY <1>9, <1>12, <1>13, <1>14
    <3> QED
      BY <3>1 DEF Stored
  <2>2. pins' = pins
    BY DEF Stored
  <2> QED
    BY <1>2, <1>7, <1>12, <1>15, <2>1, <2>2 DEF Shape, Pinned
<1>17. Existing' = Existing
  <2>1. tables'[t] # Absent
    BY <1>15, EngineAssumption DEF TableRecords
  <2> QED
    BY <1>15, <2>1 DEF Existing
<1>18. PICK tuple : tuple = Encoded(row, ps)
  OBVIOUS
<1>19. /\ DOMAIN tuple = DOMAIN row /\ Spilled(row) \subseteq DOMAIN row
       /\ \A c \in DOMAIN row : "pointer" \in DOMAIN tuple[c] <=> c \in Spilled(row)
       /\ \A c \in Spilled(row) :
            tuple[c] = [type |-> row[c].type, pointer |-> ps[first[c]]]
  BY <1>3, <1>4, <1>7, <1>18, EncodedSound DEF Spilled
<1>20. PICK new : new = PointerKeys(row, p, s)
  OBVIOUS
<1>21. new = {PointerKey(p, s, c) : c \in Spilled(row)}
  BY <1>20 DEF PointerKeys
<1>22. page'[p].slots[s] = tuple /\ s \in LiveSlots(page'[p])
  BY <1>18 DEF Stored
<1>23. \A q \in live \ {p} : \A r, c :
          /\ IsDataPage(q)' <=> IsDataPage(q)
          /\ PointerAt(q, r, c)' => PointerAt(q, r, c)
                                    /\ page'[q].slots[r][c] = page[q].slots[r][c]
  BY <1>14 DEF PointerAt, HasTuple, IsDataPage
<1>24. \A r, c : PointerAt(p, r, c)' =>
          \/ PointerKey(p, r, c) \in new
          \/ /\ p \in live /\ PointerAt(p, r, c)
             /\ page'[p].slots[r][c] = page[p].slots[r][c]
  <2> SUFFICES ASSUME NEW r, NEW c, PointerAt(p, r, c)', PointerKey(p, r, c) \notin new
               PROVE  /\ p \in live /\ PointerAt(p, r, c)
                      /\ page'[p].slots[r][c] = page[p].slots[r][c]
    OBVIOUS
  <2>1. r \in LiveSlots(page'[p]) /\ c \in DOMAIN page'[p].slots[r]
        /\ "pointer" \in DOMAIN page'[p].slots[r][c]
    BY DEF PointerAt, HasTuple
  <2>2. r # s
    BY <1>19, <1>21, <1>22, <2>1
  <2>3. p \in live /\ r \in LiveSlots(page[p]) /\ page'[p].slots[r] = page[p].slots[r]
    BY <2>1, <2>2 DEF Stored
  <2>4. p \in TablePages(t)
    BY <2>3 DEF Stored
  <2>5. IsDataPage(p)
    <3>1. PICK c2 : c2 = TableChain(t)
      OBVIOUS
    <3> QED
      BY <1>1, <1>2, <2>4, <3>1, ChainOfTable
  <2> QED
    BY <2>1, <2>3, <2>5 DEF PointerAt, HasTuple
<1>25. KeysGained(new)
  <2>1. \A u \in Existing' : u \in Existing /\ tables'[u].first = tables[u].first
    BY <1>15, <1>17 DEF Existing
  <2>2. \A q \in ToSet(ps) : \A r, c : ~PointerAt(q, r, c)'
    BY <1>9 DEF PointerAt, HasTuple, IsDataPage
  <2>3. \A q \in live' : q \in ToSet(ps) \/ q = p \/ q \in live \ {p}
    BY <1>12
  <2> QED
    BY <1>23, <1>24, <2>1, <2>2, <2>3 DEF KeysGained
<1>26. PICK K2 : K2 = Keys'
  OBVIOUS
<1>27. PICK H2 : H2 = Heads'
  OBVIOUS
<1>28. PICK N2 : N2 = Links'
  OBVIOUS
<1>29. PICK old : old = K2 \ new
  OBVIOUS
<1>30. old \subseteq Keys /\ \A k \in old : Heads'[k] = Heads[k]
  BY <1>25, <1>26, <1>29, KeysAfter
<1>31. ASSUME NEW c \in Spilled(row)
       PROVE  PointerKey(p, s, c) \in K2 /\ H2[PointerKey(p, s, c)] = ps[first[c]]
  <2>1. PointerAt(p, s, c)'
    BY <1>13, <1>19, <1>22 DEF PointerAt, HasTuple, IsDataPage
  <2>2. c \in Nat
    BY <1>19, SpilledColumn
  <2>3. PICK k : k = PointerKey(p, s, c)
    OBVIOUS
  <2>4. /\ k \in [kind : {"pointer"}, page : live', slot : Nat, column : Nat]
        /\ k.kind = "pointer" /\ k.page = p /\ k.slot = s /\ k.column = c
    BY <1>12, <2>2, <2>3 DEF PointerKey
  <2>5. k \in Keys'
    BY <2>1, <2>4 DEF Keys
  <2>6. Heads'[k] = page'[p].slots[s][c].pointer
    BY <2>4, <2>5 DEF Heads
  <2>7. tuple[c] = [type |-> row[c].type, pointer |-> ps[first[c]]]
    BY <1>19
  <2>8. page'[p].slots[s][c].pointer = ps[first[c]]
    BY <1>22, <2>7
  <2> QED
    BY <1>26, <1>27, <2>3, <2>5, <2>6, <2>8
<1>32. K2 = old \cup new
  BY <1>21, <1>29, <1>31
<1>33. \E owner2, place2 : Added(new, ToSet(ps), owner2, place2)
  <2>1. \A q \in ToSet(ps) : N2[q] = contents[q].next
    BY <1>9, <1>12, <1>28 DEF Links
  <2>2. SpillsTo(row, first, ps, p, s, H2, N2)
    BY <1>3, <1>4, <1>7, <1>8, <1>31, <2>1 DEF SpillsTo
  <2>3. PICK owner2, place2 : Ownership(ToSet(ps), new, H2, N2, owner2, place2)
    BY <1>20, <2>2, SpilledOwnership
  <2>4. owner2 \in [ToSet(ps) -> new]
    BY <2>3 DEF Ownership
  <2>5. \A q \in ToSet(ps) : q \in live' /\ (IsDataPage(q)' <=> owner2[q].kind = "table")
    BY <1>9, <1>12, <1>21, <2>4 DEF IsDataPage, PointerKey
  <2>6. Added(new, ToSet(ps), owner2, place2)
    BY <1>27, <1>28, <2>3, <2>5 DEF Added
  <2> QED
    BY <2>6
<1>34. \E E, next, o, l :
            Retained(old, E, Keys, Heads, next, o, l) /\ E \subseteq live \cup {p}
  <2>1. CASE p \in live
    <3>1. page'[p].next = page[p].next /\ p \in TablePages(t)
      BY <2>1 DEF Stored
    <3>2. IsDataPage(p) /\ IsDataPage(p)'
      <4>1. PICK c : c = TableChain(t)
        OBVIOUS
      <4> QED
        BY <1>1, <1>2, <1>13, <3>1, <4>1, ChainOfTable DEF IsDataPage
    <3>3. D \subseteq live /\ NoPage \notin D
      BY <1>1, <1>2, EngineAssumption DEF Owns, Shape
    <3>4. \A q \in D : /\ q \in live' /\ page'[q].next = Links[q]
                       /\ IsDataPage(q)' <=> owner[q].kind = "table"
      BY <1>1, <1>12, <1>14, <1>23, <2>1, <3>1, <3>2, <3>3 DEF Owns, Links
    <3>5. Retained(old, D, Keys, Heads, Links, owner, place)
      BY <1>1, <1>30, <3>3, <3>4 DEF Owns, Retained
    <3> QED
      BY <3>3, <3>5
  <2>2. CASE p \notin live
    <3>1. page'[p].next = NoPage
      BY <2>2 DEF Stored
    <3>2. page'[LastPage(t)].next = p
      <4>1. page'[last] = [page[last] EXCEPT !.next = p]
        BY <1>10, <1>11, <2>2 DEF Stored
      <4> QED
        BY <1>10, <1>11, <1>12, <4>1, LinkedPage DEF IsDataPage
    <3>3. live \subseteq live' /\ p \in live' /\ IsDataPage(p)'
      BY <1>12, <1>13 DEF IsDataPage
    <3>4. \A q \in live : IsDataPage(q)' <=> IsDataPage(q)
      BY <1>23, <2>2
    <3>5. \A q \in live \ {LastPage(t)} : page'[q].next = page[q].next
      BY <1>10, <1>14, <2>2
    <3> QED
      BY <1>1, <1>2, <1>12, <1>30, <2>2, <3>1, <3>2, <3>3, <3>4, <3>5, RetainedLinked
  <2> QED
    BY <2>1, <2>2
<1>35. ChainsOwned'
  <2>1. PICK owner2, place2 : Added(new, ToSet(ps), owner2, place2)
    BY <1>33
  <2>2. PICK E, next, o, l :
            Retained(old, E, Keys, Heads, next, o, l) /\ E \subseteq live \cup {p}
    BY <1>34
  <2>3. E \cap ToSet(ps) = {}
    BY <1>7, <1>12, <2>2
  <2> QED
    BY <1>26, <1>32, <2>1, <2>2, <2>3, OwnedAfter
<1> QED
  BY <1>16, <1>35 DEF EngineInv

(* An insertion that gives up behind its new page adds no chain. *)
LEMMA AbandonedSound ==
    ASSUME EngineInv, NEW t \in Existing, NEW ps, NEW p, NEW links \in BOOLEAN,
           Abandoned(t, ps, p, links)
    PROVE  EngineInv'
<1>1. PICK D, owner, place : Owns(D, owner, place)
  BY DEF EngineInv, ChainsOwned
<1>2. Shape
  BY DEF EngineInv
<1>3. PICK last : last = LastPage(t)
  OBVIOUS
<1>4. /\ last \in live /\ IsDataPage(last) /\ page[last] \in SoundPages
      /\ page[last].next = NoPage
  BY <1>1, <1>2, <1>3, LastPageSound DEF Shape
<1>5. /\ ToSet(ps) \subseteq Pages /\ ToSet(ps) \cap live = {}
      /\ p \in Pages \ ToSet(ps) /\ p \notin live
      /\ live' = live \cup ToSet(ps) \cup {p} /\ tables' = tables
      /\ page' = [q \in live' |-> page'[q]]
      /\ pins' = [pins EXCEPT ![p] = 1]
      /\ \A q \in ToSet(ps) :
            page'[q] \in SoundPages /\ "slots" \notin DOMAIN page'[q]
  BY DEF Abandoned
<1>6. /\ page'[p] \in SoundPages /\ "slots" \in DOMAIN page'[p]
      /\ LiveSlots(page'[p]) = {} /\ page'[p].next = NoPage
  <2>1. PICK pg : pg = NewDataPage
    OBVIOUS
  <2>2. /\ pg \in DataPages /\ pg.room = PageRoom /\ Len(pg.slots) = 0
        /\ "slots" \in DOMAIN pg /\ LiveSlots(pg) = {} /\ pg.next = NoPage
    BY <2>1, EmptyPageSound, EngineAssumption DEF NewDataPage
  <2>3. pg \in SoundPages
    BY <2>2, EngineAssumption DEF SoundPages
  <2>4. page'[p] = pg
    BY <2>1 DEF Abandoned
  <2> QED
    BY <2>2, <2>3, <2>4
<1>7. \A q \in live :
          /\ page'[q] \in SoundPages
          /\ "slots" \in DOMAIN page'[q] <=> "slots" \in DOMAIN page[q]
          /\ "slots" \in DOMAIN page[q] =>
                page'[q].slots = page[q].slots /\ LiveSlots(page'[q]) = LiveSlots(page[q])
          /\ page'[q].next = IF links /\ q = last THEN p ELSE page[q].next
  <2> SUFFICES ASSUME NEW q \in live
               PROVE  /\ page'[q] \in SoundPages
                      /\ "slots" \in DOMAIN page'[q] <=> "slots" \in DOMAIN page[q]
                      /\ "slots" \in DOMAIN page[q] =>
                            /\ page'[q].slots = page[q].slots
                            /\ LiveSlots(page'[q]) = LiveSlots(page[q])
                      /\ page'[q].next = IF links /\ q = last THEN p ELSE page[q].next
    OBVIOUS
  <2>1. page[q] \in SoundPages
    BY <1>2 DEF Shape
  <2>2. CASE links /\ q = last
    <3>1. page'[q] = [page[q] EXCEPT !.next = p] /\ "slots" \in DOMAIN page[q]
      BY <1>3, <1>4, <2>2 DEF Abandoned, IsDataPage
    <3> QED
      BY <1>5, <2>1, <2>2, <3>1, LinkedPage
  <2>3. CASE ~(links /\ q = last)
    <3>1. page'[q] = page[q]
      BY <1>3, <2>3 DEF Abandoned
    <3> QED
      BY <2>1, <2>3, <3>1
  <2> QED
    BY <2>2, <2>3
<1>8. Shape'
  <2>1. page' \in [live' -> SoundPages]
    <3>1. \A q \in live' : page'[q] \in SoundPages
      BY <1>5, <1>6, <1>7
    <3> QED
      BY <1>5, <3>1
  <2>2. pins' \in [Pages -> 0 .. MaxPins]
    BY <1>2, <1>5, EngineAssumption DEF Shape
  <2>3. Pinned' \subseteq live'
    BY <1>2, <1>5 DEF Shape, Pinned
  <2> QED
    BY <1>2, <1>5, <2>1, <2>2, <2>3 DEF Shape
<1>9. \A q \in live : \A r, c :
          /\ IsDataPage(q)' <=> IsDataPage(q)
          /\ PointerAt(q, r, c)' => PointerAt(q, r, c)
                                    /\ page'[q].slots[r][c] = page[q].slots[r][c]
  BY <1>7 DEF PointerAt, HasTuple, IsDataPage
<1>10. Keys' \subseteq Keys /\ \A k \in Keys' : Heads'[k] = Heads[k]
  <2>1. \A q \in ToSet(ps) \cup {p} : \A r, c : ~PointerAt(q, r, c)'
    BY <1>5, <1>6 DEF PointerAt, HasTuple, IsDataPage
  <2>2. \A q \in live' : q \in ToSet(ps) \cup {p} \/ q \in live
    BY <1>5
  <2>3. KeysGained({})
    BY <1>5, <1>9, <2>1, <2>2 DEF KeysGained, Existing
  <2> QED
    BY <2>3, KeysAfter
<1>11. ChainsOwned'
  <2>1. CASE links
    <3>1. PICK old : old = Keys'
      OBVIOUS
    <3>2. live \subseteq live' /\ p \in live' /\ IsDataPage(p)'
      BY <1>5, <1>6 DEF IsDataPage
    <3>3. page'[LastPage(t)].next = p /\ page'[p].next = NoPage
      BY <1>3, <1>4, <1>6, <1>7, <2>1
    <3>4. /\ \A q \in live : IsDataPage(q)' <=> IsDataPage(q)
          /\ \A q \in live \ {LastPage(t)} : page'[q].next = page[q].next
      BY <1>3, <1>7, <1>9
    <3>5. old \subseteq Keys /\ \A k \in old : Heads'[k] = Heads[k]
      BY <1>10, <3>1
    <3>6. PICK E, next, o, l :
            Retained(old, E, Keys, Heads, next, o, l) /\ E \subseteq live \cup {p}
      BY ZenonT(60), <1>1, <1>2, <1>5, <3>2, <3>3, <3>4, <3>5, RetainedLinked
    <3>7. PICK none : none = [q \in {} |-> 0]
      OBVIOUS
    <3>8. PICK H2 : H2 = Heads'
      OBVIOUS
    <3>9. PICK N2 : N2 = Links'
      OBVIOUS
    <3>10. Ownership({}, {}, H2, N2, none, none)
      BY <3>7 DEF Ownership
    <3>11. Added({}, {}, none, none)
      BY <3>8, <3>9, <3>10 DEF Added
    <3>12. Keys' = old \cup {} /\ E \cap {} = {}
      BY <3>1
    <3> QED
      BY <3>6, <3>11, <3>12, OwnedAfter
  <2>2. CASE ~links
    <3>1. \A q \in D : q \in live' /\ page'[q].next = page[q].next
                       /\ (IsDataPage(q)' <=> IsDataPage(q))
      BY <1>1, <1>5, <1>7, <1>9, <2>2 DEF Owns
    <3> QED
      BY <1>1, <1>2, <1>10, <3>1, OwnedStill
  <2> QED
    BY <2>1, <2>2
<1> QED
  BY <1>8, <1>11 DEF EngineInv

-----------------------------------------------------------------------------

(* No page is in use at first. *)
LEMMA InitSound == Init => EngineInv
<1> SUFFICES ASSUME Init PROVE EngineInv
  OBVIOUS
<1>1. /\ live = {} /\ DOMAIN page = {} /\ pins = [p \in Pages |-> 0]
      /\ tables = [t \in TableNames |-> Absent]
  BY DEF Init
<1>2. page \in [live -> SoundPages]
  BY DEF Init
<1>3. Shape
  BY <1>1, <1>2, EngineAssumption DEF Shape, Pinned
<1>4. Keys = {}
  BY <1>1 DEF Keys, Existing
<1>5. PICK none : none = [p \in {} |-> 0]
  OBVIOUS
<1>6. Ownership({}, {}, Heads, Links, none, none)
  BY <1>5 DEF Ownership
<1>7. Owns({}, none, none)
  BY <1>4, <1>6 DEF Owns
<1> QED
  BY <1>3, <1>7 DEF EngineInv, ChainsOwned

(* The pages of a table hold tuples. *)
LEMMA TablePagesSound ==
    ASSUME EngineInv, NEW t \in Existing, NEW p \in TablePages(t)
    PROVE  p \in live /\ IsDataPage(p)
<1>1. PICK D, owner, place : Owns(D, owner, place)
  BY DEF EngineInv, ChainsOwned
<1>2. PICK c : c = TableChain(t)
  OBVIOUS
<1> QED
  BY <1>1, <1>2, ChainOfTable DEF EngineInv

(* However an insertion ends, it keeps the invariant. *)
LEMMA InsertSound ==
    ASSUME EngineInv, NEW t \in Existing, NEW row \in Rows, Insert(t, row)
    PROVE  EngineInv'
<1>1. CASE \E ps, p, s : Stored(t, row, ps, p, s)
  BY <1>1, StoredSound
<1>2. CASE \E ps, p : Abandoned(t, ps, p, TRUE) \/ Abandoned(t, ps, p, FALSE)
  BY <1>2, AbandonedSound
<1>3. CASE InsertHere(t, row)
  BY <1>1, <1>3, InsertHereStores
<1>4. CASE InsertOnNewPage(t, row)
  BY <1>1, <1>2, <1>4, InsertOnNewPageStores
<1>5. CASE InsertFindsNoFrame(t, row)
  BY <1>5, WastePageSound DEF InsertFindsNoFrame
<1>6. CASE InsertFindsNoPage(t, row)
  BY <1>6, InsertFindsNoPageSound
<1> QED
  BY <1>3, <1>4, <1>5, <1>6 DEF Insert

(* So does every step. *)
LEMMA NextSound == EngineInv /\ [NextInUse]_vars => EngineInv'
<1> SUFFICES ASSUME EngineInv, [NextInUse]_vars PROVE EngineInv'
  OBVIOUS
<1>1. CASE UNCHANGED vars
  <2>1. UNCHANGED <<live, page, pins, tables>>
    BY <1>1 DEF vars
  <2> QED
    BY ZenonT(60), <2>1 DEF EngineInv, Shape, Pinned, ChainsOwned, Owns, Keys, Heads, Links,
        Existing, PointerAt, HasTuple, IsDataPage
<1>2. ASSUME NEW t \in TableNames \ Existing, CreateTable(t) PROVE EngineInv'
  BY <1>2, CreateTableSound
<1>3. CASE CreateTableFails
  BY <1>3, WastePageSound DEF CreateTableFails
<1>4. ASSUME NEW t \in Existing, DropTable(t) PROVE EngineInv'
  BY <1>4, DropTableSound
<1>5. ASSUME NEW t \in Existing, NEW row \in Rows, Insert(t, row) PROVE EngineInv'
  BY <1>5, InsertSound
<1>6. ASSUME NEW p \in live, GetNothing(p) PROVE EngineInv'
  BY <1>6, GetNothingSound
<1>7. ASSUME NEW t \in Existing, NEW p \in live, IsDataPage(p),
             NEW s \in LiveSlots(page[p]), Delete(t, p, s)
      PROVE  EngineInv'
  BY <1>7, DeleteSound DEF HasTuple
<1>8. CASE Next
  <2>1. CASE \E t \in TableNames \ Existing : CreateTable(t) \/ CreateTableFails
    BY <1>2, <1>3, <2>1
  <2>2. CASE \E t \in Existing :
                \/ DropTable(t)
                \/ \E row \in Rows : Insert(t, row)
                \/ \E p \in TablePages(t) :
                    \/ GetNothing(p)
                    \/ \E s \in LiveSlots(page[p]) : Delete(t, p, s)
    BY <1>4, <1>5, <1>6, <1>7, <2>2, TablePagesSound
  <2> QED
    BY <1>8, <2>1, <2>2 DEF Next
<1> QED
  BY <1>1, <1>6, <1>7, <1>8 DEF NextInUse

(***************************************************************************)
(* Whatever row ids on pages in use the callers name, each page in use     *)
(* belongs to one chain at most, and every chain begins where its table or *)
(* pointer says.                                                           *)
(***************************************************************************)
THEOREM PagesOwned == SpecInUse => []EngineInv
<1>1. Init => EngineInv
  BY InitSound
<1>2. EngineInv /\ [NextInUse]_vars => EngineInv'
  BY NextSound
<1> QED
  BY <1>1, <1>2, PTL DEF SpecInUse

(***************************************************************************)
(* What the variables hold, whatever row ids on pages in use the callers   *)
(* name: only allocated pages are pinned.                                  *)
(***************************************************************************)
THEOREM EngineTypes == SpecInUse => []TypeOK
<1>1. EngineInv => TypeOK
  BY DEF EngineInv, Shape, TypeOK, Existing, TableRecords
<1> QED
  BY <1>1, PagesOwned, PTL

(* Users that name rows of the table they name are users that name pages in use. *)
LEMMA SpecIsSpecInUse == Spec => SpecInUse
<1>1. [Next]_vars => [NextInUse]_vars
  BY DEF NextInUse
<1> QED
  BY <1>1, PTL DEF Spec, SpecInUse

(* The key of a reference to a chain. *)
ReferenceKey(r) ==
    IF Len(r) = 2 THEN TableKey(r[1]) ELSE PointerKey(r[1][1], r[1][2], r[2])

(* A reference is that of a table, or of a pointer in a stored tuple. *)
LEMMA ReferenceKinds ==
    ASSUME EngineInv, NEW r \in AllReferences
    PROVE  \/ \E t \in Existing : r = <<t, tables[t].first>>
           \/ \E p \in live : \E s, c :
                /\ PointerAt(p, s, c)
                /\ r = <<<<p, s>>, c, page[p].slots[s][c].pointer>>
<1>1. PICK t \in Existing : r \in References(t)
  BY DEF AllReferences
<1>2. CASE r = <<t, tables[t].first>>
  BY <1>2
<1>3. ASSUME NEW id \in Tuples(t),
             NEW c \in {d \in DOMAIN TupleAt(id) : "pointer" \in DOMAIN TupleAt(id)[d]},
             r = <<id, c, TupleAt(id)[c].pointer>>
      PROVE  \E p \in live : \E s :
                /\ PointerAt(p, s, c)
                /\ r = <<<<p, s>>, c, page[p].slots[s][c].pointer>>
  <2>1. PICK p \in TablePages(t) : \E s \in LiveSlots(page[p]) : id = <<p, s>>
    BY DEF Tuples
  <2>2. PICK s \in LiveSlots(page[p]) : id = <<p, s>>
    BY <2>1
  <2>3. TupleAt(id) = page[p].slots[s]
    BY <2>2 DEF TupleAt
  <2>4. p \in live /\ IsDataPage(p)
    BY TablePagesSound
  <2>5. PointerAt(p, s, c)
    BY <2>3, <2>4 DEF PointerAt, HasTuple
  <2> QED
    BY <1>3, <2>2, <2>3, <2>4, <2>5
<1> QED
  BY <1>1, <1>2, <1>3 DEF References

(* Each reference has a key of its own. *)
LEMMA ReferenceKeys ==
    ASSUME EngineInv
    PROVE  /\ \A r \in AllReferences :
                ReferenceKey(r) \in Keys /\ Heads[ReferenceKey(r)] = Last(r)
           /\ \A r, q \in AllReferences : ReferenceKey(r) = ReferenceKey(q) => r = q
<1>1. \A t : ReferenceKey(<<t, tables[t].first>>) = TableKey(t)
             /\ Last(<<t, tables[t].first>>) = tables[t].first
  BY DEF ReferenceKey, Last
<1>2. \A p, s, c, a : ReferenceKey(<<<<p, s>>, c, a>>) = PointerKey(p, s, c)
                      /\ Last(<<<<p, s>>, c, a>>) = a
  BY DEF ReferenceKey, Last
<1>3. Shape
  BY DEF EngineInv
<1>4. ASSUME NEW r \in AllReferences
      PROVE  ReferenceKey(r) \in Keys /\ Heads[ReferenceKey(r)] = Last(r)
  BY <1>1, <1>2, <1>3, ReferenceKinds, KeyKinds
<1>5. ASSUME NEW r \in AllReferences, NEW q \in AllReferences,
             ReferenceKey(r) = ReferenceKey(q)
      PROVE  r = q
  <2>1. \A t, p, s, c : TableKey(t) # PointerKey(p, s, c)
    BY DEF TableKey, PointerKey
  <2>2. \A t, u : TableKey(t) = TableKey(u) => t = u
    BY DEF TableKey
  <2>3. \A p, s, c, p2, s2, c2 :
            PointerKey(p, s, c) = PointerKey(p2, s2, c2) => p = p2 /\ s = s2 /\ c = c2
    BY DEF PointerKey
  <2> QED
    BY <1>1, <1>2, <1>5, <2>1, <2>2, <2>3, ReferenceKinds
<1> QED
  BY <1>4, <1>5

(***************************************************************************)
(* Walking a table or an overflow value ends, stays on allocated pages and *)
(* meets no page of another: on every disk, with every pool, whichever     *)
(* calls fail half-way and whatever row ids on pages in use get and delete *)
(* are called with.                                                        *)
(***************************************************************************)
THEOREM ChainsAlwaysSound == SpecInUse => []ChainsSound
<1>1. ASSUME EngineInv PROVE ChainsSound
  <2>1. PICK D, owner, place : Owns(D, owner, place)
    BY <1>1 DEF EngineInv, ChainsOwned
  <2>2. Shape
    BY <1>1 DEF EngineInv
  <2>3. ASSUME NEW r \in AllReferences
        PROVE  /\ IsInjective(Chain(Last(r))) /\ ToSet(Chain(Last(r))) \subseteq live
               /\ \A q \in ToSet(Chain(Last(r))) : owner[q] = ReferenceKey(r)
    <3>1. PICK k \in Keys : k = ReferenceKey(r) /\ Heads[k] = Last(r)
      BY <1>1, ReferenceKeys
    <3>2. PICK c : c = Chain(Heads[k])
      OBVIOUS
    <3>3. IsInjective(c) /\ ToSet(c) = {q \in D : owner[q] = k}
      BY <2>1, <2>2, <3>2, ChainOfKey
    <3>4. D \subseteq live
      BY <2>1 DEF Owns
    <3> QED
      BY <3>1, <3>2, <3>3, <3>4
  <2>4. ASSUME NEW r \in AllReferences, NEW q \in AllReferences, r # q
        PROVE  ToSet(Chain(Last(r))) \cap ToSet(Chain(Last(q))) = {}
    <3>1. ReferenceKey(r) # ReferenceKey(q)
      BY <1>1, <2>4, ReferenceKeys
    <3> QED
      BY <2>3, <3>1
  <2> QED
    BY <2>3, <2>4 DEF ChainsSound
<1> QED
  BY <1>1, PagesOwned, PTL

-----------------------------------------------------------------------------

(* A path along the links from a page to the end of a chain. *)
IsPath(c, h) ==
    /\ c \in Seq(live) /\ Len(c) \in Nat \ {0} /\ c[1] = h
    /\ \A i \in 1 .. Len(c) - 1 : c[i + 1] = page[c[i]].next
    /\ page[c[Len(c)]].next = NoPage

(* There is one path at most from a page. *)
LEMMA OnlyPath ==
    Shape => \A h, c, d : IsPath(c, h) /\ IsPath(d, h) => c = d
<1> SUFFICES ASSUME Shape, NEW h, NEW c, NEW d, IsPath(c, h), IsPath(d, h)
             PROVE  c = d
  OBVIOUS
<1>1. PICK n : n = Links
  OBVIOUS
<1>2. \A q \in live : n[q] = page[q].next
  BY <1>1 DEF Links
<1>3. NoPage \notin live
  BY EngineAssumption DEF Shape
<1>4. /\ \A i \in 1 .. Len(c) : c[i] \in live
      /\ \A i \in 1 .. Len(d) : d[i] \in live
      /\ Len(c) \in Nat \ {0} /\ Len(d) \in Nat \ {0}
  BY ElementOfSeq DEF IsPath
<1>5. /\ \A i \in 1 .. Len(c) - 1 : c[i + 1] = n[c[i]]
      /\ \A i \in 1 .. Len(d) - 1 : d[i + 1] = n[d[i]]
      /\ n[c[Len(c)]] = NoPage /\ n[d[Len(d)]] = NoPage
  <2>1. ASSUME NEW e, IsPath(e, h), NEW l \in Nat \ {0}, l = Len(e),
               \A i \in 1 .. l : e[i] \in live
        PROVE  n[e[l]] = NoPage /\ \A i \in 1 .. l - 1 : e[i + 1] = n[e[i]]
    <3>1. n[e[l]] = page[e[l]].next /\ page[e[l]].next = NoPage
      BY <1>2, <2>1 DEF IsPath
    <3>2. ASSUME NEW i \in 1 .. l - 1 PROVE e[i + 1] = n[e[i]]
      <4>1. e[i] \in live /\ e[i + 1] = page[e[i]].next
        BY <2>1 DEF IsPath
      <4> QED
        BY <1>2, <4>1
    <3> QED
      BY <3>1, <3>2
  <2> QED
    BY <1>4, <2>1
<1>6. c \in Seq(live) /\ d \in Seq(live) /\ c[1] = d[1]
  BY DEF IsPath
<1> QED
  BY <1>3, <1>4, <1>5, <1>6, OnePath

(* The chain of a key is the path from where the key says. *)
LEMMA ChainIsPath ==
    EngineInv => \A k \in Keys :
        /\ IsPath(Chain(Heads[k]), Heads[k])
        /\ \A c : IsPath(c, Heads[k]) => Chain(Heads[k]) = c
<1> SUFFICES ASSUME EngineInv, NEW k \in Keys
             PROVE  /\ IsPath(Chain(Heads[k]), Heads[k])
                    /\ \A c : IsPath(c, Heads[k]) => Chain(Heads[k]) = c
  OBVIOUS
<1>1. PICK D, owner, place : Owns(D, owner, place)
  BY DEF EngineInv, ChainsOwned
<1>2. Shape
  BY DEF EngineInv
<1>3. PICK c : c = Chain(Heads[k])
  OBVIOUS
<1>4. /\ c \in Seq(D) /\ Len(c) \in Nat \ {0} /\ DOMAIN c = 1 .. Len(c)
      /\ c[1] = Heads[k]
      /\ \A i \in 1 .. Len(c) : c[i] \in live
      /\ \A i \in 1 .. Len(c) - 1 : c[i + 1] = page[c[i]].next
      /\ page[c[Len(c)]].next = NoPage
  BY <1>1, <1>2, <1>3, ChainOfKey
<1>5. c \in Seq(live)
  <2>1. c = [i \in 1 .. Len(c) |-> c[i]]
    BY <1>4
  <2> QED
    BY <1>4, <2>1, IsASeq
<1>6. IsPath(c, Heads[k])
  BY <1>4, <1>5 DEF IsPath
<1> QED
  BY <1>2, <1>3, <1>6, OnlyPath

(* The pages of the chain of a table, and of a pointer. *)
TableChainsArePaths ==
    \A t \in Existing :
        /\ IsPath(TableChain(t), tables[t].first)
        /\ \A c : IsPath(c, tables[t].first) => TableChain(t) = c

(* The chain of a table is the path from its first page. *)
LEMMA TableChainIsPath == EngineInv => TableChainsArePaths
<1> SUFFICES ASSUME EngineInv, NEW t \in Existing
             PROVE  /\ IsPath(TableChain(t), tables[t].first)
                    /\ \A c : IsPath(c, tables[t].first) => TableChain(t) = c
  BY DEF TableChainsArePaths
<1>1. PICK k \in Keys : Heads[k] = tables[t].first
  BY KeyKinds DEF EngineInv
<1> QED
  BY <1>1, ChainIsPath DEF TableChain

(* The same in the next state. *)
LEMMA TableChainIsPathAfter == EngineInv' => TableChainsArePaths'
BY TableChainIsPath, PTL

PointerChainsArePaths ==
    \A p \in live : \A s, c, h :
        PointerAt(p, s, c) /\ h = page[p].slots[s][c].pointer =>
            /\ IsPath(Chain(h), h)
            /\ \A d : IsPath(d, h) => Chain(h) = d
            /\ \A q \in ToSet(Chain(h)) : q \in live /\ ~IsDataPage(q)

(* The chain of a pointer is the path from it, through overflow pages. *)
LEMMA PointerChainIsPath == EngineInv => PointerChainsArePaths
<1> SUFFICES ASSUME EngineInv, NEW p \in live, NEW s, NEW c, PointerAt(p, s, c),
                    NEW h, h = page[p].slots[s][c].pointer
             PROVE  /\ IsPath(Chain(h), h)
                    /\ \A d : IsPath(d, h) => Chain(h) = d
                    /\ \A q \in ToSet(Chain(h)) : q \in live /\ ~IsDataPage(q)
  BY DEF PointerChainsArePaths
<1>1. PICK k \in Keys : k = PointerKey(p, s, c) /\ Heads[k] = h
  BY KeyKinds DEF EngineInv
<1>2. PICK D, owner, place : Owns(D, owner, place)
  BY DEF EngineInv, ChainsOwned
<1>3. PICK d : d = Chain(Heads[k])
  OBVIOUS
<1>4. ToSet(d) = {q \in D : owner[q] = k}
  BY <1>2, <1>3, ChainOfKey DEF EngineInv
<1>5. k.kind = "pointer"
  BY <1>1 DEF PointerKey
<1>6. \A q \in ToSet(d) : q \in live /\ ~IsDataPage(q)
  BY <1>2, <1>4, <1>5 DEF Owns
<1> QED
  BY <1>1, <1>3, <1>6, ChainIsPath

(* The same in the next state. *)
LEMMA PointerChainIsPathAfter == EngineInv' => PointerChainsArePaths'
BY PointerChainIsPath, PTL

(* Two tables share no page, and neither do the chains of two pointers. *)
LEMMA TablesApart ==
    ASSUME EngineInv, NEW t \in Existing, NEW u \in Existing, t # u
    PROVE  TablePages(t) \cap TablePages(u) = {}
<1>1. PICK D, owner, place : Owns(D, owner, place)
  BY DEF EngineInv, ChainsOwned
<1>2. PICK c : c = TableChain(t)
  OBVIOUS
<1>3. PICK d : d = TableChain(u)
  OBVIOUS
<1>4. /\ TablePages(t) = {q \in D : owner[q] = TableKey(t)}
      /\ TablePages(u) = {q \in D : owner[q] = TableKey(u)}
  BY <1>1, <1>2, <1>3, ChainOfTable DEF EngineInv
<1>5. TableKey(t) # TableKey(u)
  BY DEF TableKey
<1> QED
  BY <1>4, <1>5

(* The chains of two pointers share no page. *)
LEMMA PointersApart ==
    ASSUME EngineInv, NEW p \in live, NEW s, NEW c, PointerAt(p, s, c),
           NEW p2 \in live, NEW s2, NEW c2, PointerAt(p2, s2, c2),
           <<p, s, c>> # <<p2, s2, c2>>
    PROVE  ToSet(Chain(page[p].slots[s][c].pointer))
               \cap ToSet(Chain(page[p2].slots[s2][c2].pointer)) = {}
<1>1. PICK D, owner, place : Owns(D, owner, place)
  BY DEF EngineInv, ChainsOwned
<1>2. PICK k \in Keys : k = PointerKey(p, s, c) /\ Heads[k] = page[p].slots[s][c].pointer
  BY KeyKinds DEF EngineInv
<1>3. PICK k2 \in Keys :
        k2 = PointerKey(p2, s2, c2) /\ Heads[k2] = page[p2].slots[s2][c2].pointer
  BY KeyKinds DEF EngineInv
<1>4. PICK d : d = Chain(Heads[k])
  OBVIOUS
<1>5. PICK d2 : d2 = Chain(Heads[k2])
  OBVIOUS
<1>6. ToSet(d) = {q \in D : owner[q] = k} /\ ToSet(d2) = {q \in D : owner[q] = k2}
  BY <1>1, <1>4, <1>5, ChainOfKey DEF EngineInv
<1>7. k # k2
  BY <1>2, <1>3 DEF PointerKey
<1> QED
  BY SMTT(30), <1>2, <1>3, <1>4, <1>5, <1>6, <1>7

(* A path stays one while its links stay. *)
LEMMA PathStays ==
    ASSUME NEW c, NEW h, IsPath(c, h),
           \A q \in ToSet(c) : q \in live' /\ page'[q].next = page[q].next
    PROVE  IsPath(c, h)'
<1>1. /\ c \in Seq(live) /\ Len(c) \in Nat \ {0} /\ DOMAIN c = 1 .. Len(c)
      /\ \A i \in 1 .. Len(c) : c[i] \in ToSet(c)
  BY LenProperties DEF IsPath, ToSet
<1>2. c \in Seq(live')
  <2>1. c = [i \in 1 .. Len(c) |-> c[i]] /\ \A i \in 1 .. Len(c) : c[i] \in live'
    BY <1>1
  <2> QED
    BY <1>1, <2>1, IsASeq
<1>3. /\ \A i \in 1 .. Len(c) - 1 : page'[c[i]].next = page[c[i]].next
      /\ page'[c[Len(c)]].next = page[c[Len(c)]].next
  BY <1>1
<1> QED
  BY <1>1, <1>2, <1>3 DEF IsPath

(* The record of a row in the table store, and those of a table. *)
RowOf(t, id) == [table |-> t, id |-> id, row |-> Resolved(TupleAt(id))]

RowsOf(t) == {RowOf(t, id) : id \in Tuples(t)}

(* A step leaves the overflow pages of a tuple alone. *)
PointersStay(p, s) ==
    \A c : PointerAt(p, s, c) =>
        \A q \in ToSet(Chain(page[p].slots[s][c].pointer)) :
            q \in live' /\ page'[q] = page[q]

(* What is read from an overflow chain whose pages stay. *)
LEMMA ReadStays ==
    ASSUME EngineInv, EngineInv', NEW p \in live, p \in live', NEW s, NEW c,
           PointerAt(p, s, c), PointerAt(p, s, c)',
           NEW h, h = page[p].slots[s][c].pointer, h = page'[p].slots[s][c].pointer,
           \A q \in ToSet(Chain(h)) : q \in live' /\ page'[q] = page[q]
    PROVE  ReadOverflow(h)' = ReadOverflow(h)
<1>1. PICK d : d = Chain(h)
  OBVIOUS
<1>2. IsPath(d, h)
  BY <1>1, PointerChainIsPath DEF PointerChainsArePaths
<1>3. IsPath(d, h)'
  BY <1>1, <1>2, PathStays
<1>4. Chain(h)' = d
  <2>1. PointerChainsArePaths'
    BY PointerChainIsPathAfter
  <2> QED
    BY <1>3, <2>1 DEF PointerChainsArePaths
<1>5. DOMAIN d = 1 .. Len(d) /\ \A i \in DOMAIN d : d[i] \in ToSet(d)
  BY <1>2, LenProperties DEF IsPath, ToSet
<1>6. [i \in DOMAIN d |-> page'[d[i]].chunk] = [i \in DOMAIN d |-> page[d[i]].chunk]
  BY <1>1, <1>5
<1>7. ReadOverflow(h) = FlattenSeq([i \in DOMAIN d |-> page[d[i]].chunk])
  BY <1>1 DEF ReadOverflow
<1>8. ReadOverflow(h)' = FlattenSeq([i \in DOMAIN d |-> page'[d[i]].chunk])
  BY <1>4 DEF ReadOverflow
<1> QED
  BY <1>6, <1>7, <1>8

(* The row get returns of a tuple that stays, and whose pages stay. *)
LEMMA RowStays ==
    ASSUME EngineInv, EngineInv', NEW p \in live, p \in live', NEW s,
           HasTuple(p, s), HasTuple(p, s)', page'[p].slots[s] = page[p].slots[s],
           PointersStay(p, s)
    PROVE  \A t : RowOf(t, <<p, s>>)' = RowOf(t, <<p, s>>)
<1>1. PICK tuple : tuple = page[p].slots[s] /\ tuple = page'[p].slots[s]
  OBVIOUS
<1>2. ASSUME NEW c \in DOMAIN tuple, IsPlaceholder(tuple[c])
      PROVE  ReadOverflow(tuple[c].pointer)' = ReadOverflow(tuple[c].pointer)
  <2>1. PointerAt(p, s, c) /\ PointerAt(p, s, c)'
    BY <1>1, <1>2 DEF PointerAt, IsPlaceholder
  <2>2. PICK h : h = tuple[c].pointer
    OBVIOUS
  <2>3. \A q \in ToSet(Chain(h)) : q \in live' /\ page'[q] = page[q]
    BY <1>1, <2>1, <2>2 DEF PointersStay
  <2> QED
    BY <1>1, <2>1, <2>2, <2>3, ReadStays
<1>3. [c \in DOMAIN tuple |->
          IF IsPlaceholder(tuple[c])
          THEN [type |-> "VarChar", data |-> ReadOverflow(tuple[c].pointer)']
          ELSE tuple[c]]
      = [c \in DOMAIN tuple |->
          IF IsPlaceholder(tuple[c])
          THEN [type |-> "VarChar", data |-> ReadOverflow(tuple[c].pointer)]
          ELSE tuple[c]]
  BY <1>2
<1>4. TupleAt(<<p, s>>) = tuple /\ TupleAt(<<p, s>>)' = tuple
  BY <1>1 DEF TupleAt
<1>5. Resolved(tuple)' = Resolved(tuple)
  BY <1>3 DEF Resolved, IsPlaceholder
<1>6. Resolved(TupleAt(<<p, s>>))' = Resolved(TupleAt(<<p, s>>))
  BY <1>4, <1>5 DEF Resolved, IsPlaceholder
<1> QED
  BY <1>6 DEF RowOf

(* The chain of a table whose links stay. *)
LEMMA TableChainStays ==
    ASSUME EngineInv, EngineInv', NEW t \in Existing, t \in Existing',
           tables'[t].first = tables[t].first,
           \A q \in TablePages(t) : q \in live' /\ page'[q].next = page[q].next
    PROVE  TablePages(t)' = TablePages(t)
<1>1. PICK c : c = TableChain(t)
  OBVIOUS
<1>2. PICK h : h = tables[t].first
  OBVIOUS
<1>3. IsPath(c, h)
  BY <1>1, <1>2, TableChainIsPath DEF TableChainsArePaths
<1>4. \A q \in ToSet(c) : q \in live' /\ page'[q].next = page[q].next
  BY <1>1 DEF TablePages
<1>5. IsPath(c, h)'
  BY <1>3, <1>4, PathStays
<1>6. TableChain(t)' = c
  <2>1. TableChainsArePaths'
    BY TableChainIsPathAfter
  <2>2. \A d : IsPath(d, tables[t].first)' => TableChain(t)' = d
    BY <2>1 DEF TableChainsArePaths
  <2>3. IsPath(c, tables[t].first)'
    BY <1>2, <1>5 DEF IsPath
  <2> QED
    BY <2>2, <2>3
<1> QED
  BY <1>1, <1>6 DEF TablePages

(* The rows of a table whose pages stay as they were, links apart. *)
LEMMA TableStays ==
    ASSUME EngineInv, EngineInv', NEW t \in Existing, t \in Existing',
           tables'[t].first = tables[t].first,
           \A q \in TablePages(t) :
                /\ q \in live' /\ page'[q].next = page[q].next /\ IsDataPage(q)'
                /\ LiveSlots(page'[q]) = LiveSlots(page[q])
                /\ \A s \in LiveSlots(page[q]) :
                    page'[q].slots[s] = page[q].slots[s] /\ PointersStay(q, s)
    PROVE  Tuples(t)' = Tuples(t) /\ RowsOf(t)' = RowsOf(t)
<1>1. TablePages(t)' = TablePages(t)
  BY TableChainStays
<1>2. Tuples(t)' = Tuples(t)
  BY <1>1 DEF Tuples
<1>3. ASSUME NEW id \in Tuples(t) PROVE RowOf(t, id)' = RowOf(t, id)
  <2>1. PICK q \in TablePages(t) : \E s \in LiveSlots(page[q]) : id = <<q, s>>
    BY DEF Tuples
  <2>2. PICK s \in LiveSlots(page[q]) : id = <<q, s>>
    BY <2>1
  <2>3. q \in live /\ IsDataPage(q)
    BY TablePagesSound
  <2>4. HasTuple(q, s) /\ HasTuple(q, s)'
    BY <2>3 DEF HasTuple
  <2>5. RowOf(t, <<q, s>>)' = RowOf(t, <<q, s>>)
    BY <2>3, <2>4, RowStays
  <2> QED
    BY <2>2, <2>5
<1> QED
  BY <1>2, <1>3 DEF RowsOf

(* A step that leaves all overflow pages alone. *)
OverflowStays == \A q \in live : ~IsDataPage(q) => q \in live' /\ page'[q] = page[q]

(* Then the pages of every pointer stay. *)
LEMMA AllPointersStay ==
    ASSUME EngineInv, OverflowStays, NEW p \in live, NEW s
    PROVE  PointersStay(p, s)
BY PointerChainIsPath DEF PointerChainsArePaths, PointersStay, OverflowStays

(* A table none of whose pages change. *)
LEMMA TableUntouched ==
    ASSUME EngineInv, EngineInv', OverflowStays, NEW t \in Existing, t \in Existing',
           tables'[t].first = tables[t].first,
           \A q \in TablePages(t) : q \in live' /\ page'[q] = page[q]
    PROVE  Tuples(t)' = Tuples(t) /\ RowsOf(t)' = RowsOf(t)
<1>1. ASSUME NEW q \in TablePages(t)
      PROVE  /\ q \in live' /\ page'[q].next = page[q].next /\ IsDataPage(q)'
             /\ LiveSlots(page'[q]) = LiveSlots(page[q])
             /\ \A s \in LiveSlots(page[q]) :
                    page'[q].slots[s] = page[q].slots[s] /\ PointersStay(q, s)
  <2>1. q \in live /\ IsDataPage(q)
    BY TablePagesSound
  <2>2. \A s : PointersStay(q, s)
    BY <2>1, AllPointersStay
  <2> QED
    BY <2>1, <2>2 DEF IsDataPage
<1> QED
  BY <1>1, TableStays

(* What a step that changes no row leaves. *)
RowsStay ==
    /\ Existing' = Existing
    /\ \A t \in Existing : Tuples(t)' = Tuples(t) /\ RowsOf(t)' = RowsOf(t)

(* No page in use is changed, and no table. *)
LEMMA NothingTouched ==
    ASSUME EngineInv, EngineInv', live \subseteq live', tables' = tables,
           \A q \in live : page'[q] = page[q]
    PROVE  RowsStay
<1>1. Existing' = Existing
  BY DEF Existing
<1>2. OverflowStays
  BY DEF OverflowStays
<1>3. ASSUME NEW t \in Existing PROVE Tuples(t)' = Tuples(t) /\ RowsOf(t)' = RowsOf(t)
  <2>1. \A q \in TablePages(t) : q \in live' /\ page'[q] = page[q]
    BY TablePagesSound
  <2> QED
    BY <1>1, <1>2, <2>1, TableUntouched
<1> QED
  BY <1>1, <1>3 DEF RowsStay

(* A page used up for nothing, a pin left and a full disk change no row. *)
LEMMA WastePageRows ==
    ASSUME EngineInv, WastePage
    PROVE  RowsStay /\ tables' = tables
<1>1. PICK p \in Unused :
          /\ live' = live \cup {p}
          /\ page' = WithPages(Only(p, EmptyPage(0, NoPage)))
          /\ UNCHANGED <<pins, tables>>
  BY DEF WastePage
<1>2. p \notin live /\ Shape
  BY DEF Unused, EngineInv
<1>3. PICK contents : contents = Only(p, EmptyPage(0, NoPage))
  OBVIOUS
<1>4. DOMAIN contents = {p} /\ page' = WithPages(contents)
  BY <1>1, <1>3 DEF Only
<1>5. DOMAIN contents \cap live = {}
  BY <1>2, <1>4
<1>6. \A q \in live : page'[q] = page[q]
  BY <1>2, <1>4, <1>5, PagesWritten
<1> QED
  BY <1>1, <1>6, WastePageSound, NothingTouched

(* The pin that get leaves. *)
LEMMA GetNothingRows ==
    ASSUME EngineInv, NEW p \in live, GetNothing(p)
    PROVE  RowsStay /\ tables' = tables
<1>1. UNCHANGED <<live, page, tables>>
  BY DEF GetNothing
<1> QED
  BY <1>1, GetNothingSound, NothingTouched

(* The overflow pages of an insertion that found the disk full. *)
LEMMA InsertFindsNoPageRows ==
    ASSUME EngineInv, NEW t \in Existing, NEW row \in Rows, InsertFindsNoPage(t, row)
    PROVE  RowsStay /\ tables' = tables
<1>1. Shape
  BY DEF EngineInv
<1>2. PICK n : n = IF Cardinality(Unused) < Len(Pieces(row))
                   THEN Cardinality(Unused) ELSE Len(Pieces(row))
  OBVIOUS
<1>3. PICK ps \in Allocations(n) :
          /\ live' = live \cup ToSet(ps)
          /\ page' = WithPages(OverflowPages(row, ps))
          /\ UNCHANGED <<pins, tables>>
  BY <1>2 DEF InsertFindsNoPage
<1>4. ToSet(ps) \cap live = {}
  BY DEF Allocations, Unused, ToSet
<1>5. PICK contents : contents = OverflowPages(row, ps)
  OBVIOUS
<1>6. DOMAIN contents = ToSet(ps) /\ page' = WithPages(contents)
  BY <1>3, <1>5 DEF OverflowPages
<1>7. DOMAIN contents \cap live = {}
  BY <1>4, <1>6
<1>8. \A q \in live : page'[q] = page[q]
  BY <1>1, <1>6, <1>7, PagesWritten
<1> QED
  BY <1>3, <1>8, InsertFindsNoPageSound, NothingTouched

(* A new table has no rows. *)
LEMMA CreateTableRows ==
    ASSUME EngineInv, NEW t \in TableNames \ Existing, CreateTable(t)
    PROVE  /\ Existing' = Existing \cup {t}
           /\ Tuples(t)' = {} /\ tables'[t].row_count = 0
           /\ \A u \in Existing :
                /\ Tuples(u)' = Tuples(u) /\ RowsOf(u)' = RowsOf(u)
                /\ tables'[u] = tables[u]
<1>1. PICK p \in Unused :
          /\ live' = live \cup {p}
          /\ page' = WithPages(Only(p, NewDataPage))
          /\ tables' = [tables EXCEPT ![t] = [first |-> p, row_count |-> 0]]
          /\ UNCHANGED pins
  BY DEF CreateTable
<1>2. PICK pg : pg = NewDataPage
  OBVIOUS
<1>3. LiveSlots(pg) = {} /\ pg.next = NoPage
  BY <1>2, EmptyPageSound, EngineAssumption DEF NewDataPage
<1>4. p \in Pages /\ p \notin live /\ Shape
  BY DEF Unused, EngineInv
<1>5. page'[p] = pg /\ \A q \in live : page'[q] = page[q]
  <2>1. PICK contents : contents = Only(p, pg)
    OBVIOUS
  <2>2. DOMAIN contents = {p} /\ contents[p] = pg
    BY <2>1 DEF Only
  <2> QED
    BY <1>1, <1>2, <1>4, <2>1, <2>2, PagesWritten
<1>6. /\ tables'[t] = [first |-> p, row_count |-> 0] /\ tables'[t] # Absent
      /\ \A u \in TableNames \ {t} : tables'[u] = tables[u]
  BY <1>1, <1>4, EngineAssumption DEF Shape
<1>7. Existing' = Existing \cup {t}
  BY <1>6 DEF Existing
<1>8. EngineInv'
  BY CreateTableSound
<1>9. OverflowStays
  BY <1>1, <1>5 DEF OverflowStays
<1>10. ASSUME NEW u \in Existing
       PROVE  /\ Tuples(u)' = Tuples(u) /\ RowsOf(u)' = RowsOf(u)
              /\ tables'[u] = tables[u]
  <2>1. tables'[u] = tables[u] /\ u \in Existing'
    BY <1>6, <1>7 DEF Existing
  <2>2. \A q \in TablePages(u) : q \in live' /\ page'[q] = page[q]
    BY <1>1, <1>5, TablePagesSound
  <2> QED
    BY <1>8, <1>9, <2>1, <2>2, TableUntouched
<1>11. Tuples(t)' = {}
  <2>1. PICK c : c = <<p>>
    OBVIOUS
  <2>2. c \in Seq(live') /\ Len(c) = 1 /\ c[1] = p /\ ToSet(c) = {p}
    BY <1>1, <2>1 DEF ToSet
  <2>3. IsPath(c, p)'
    BY <1>3, <1>5, <2>2 DEF IsPath
  <2>4. TableChain(t)' = c
    <3>1. TableChainsArePaths'
      BY <1>8, TableChainIsPathAfter
    <3>2. \A d : IsPath(d, tables[t].first)' => TableChain(t)' = d
      BY <1>7, <3>1 DEF TableChainsArePaths
    <3>3. IsPath(c, tables[t].first)'
      BY <1>6, <2>3 DEF IsPath
    <3> QED
      BY <3>2, <3>3
  <2>5. TablePages(t)' = {p}
    BY <2>2, <2>4 DEF TablePages
  <2> QED
    BY <1>3, <1>5, <2>5 DEF Tuples
<1> QED
  BY <1>6, <1>7, <1>10, <1>11

(* Dropping a table takes its rows away, and no others. *)
LEMMA DropTableRows ==
    ASSUME EngineInv, NEW t \in Existing, DropTable(t)
    PROVE  /\ Existing' = Existing \ {t}
           /\ \A u \in Existing \ {t} :
                /\ Tuples(u)' = Tuples(u) /\ RowsOf(u)' = RowsOf(u)
                /\ tables'[u] = tables[u]
<1>1. PICK kept : kept = live \ (Listed(t) \ Pinned)
  OBVIOUS
<1>2. /\ live' = kept /\ page' = [q \in kept |-> page[q]]
      /\ tables' = [tables EXCEPT ![t] = Absent]
  BY <1>1 DEF DropTable
<1>3. \A u \in TableNames : tables'[u] = IF u = t THEN Absent ELSE tables[u]
  BY <1>2 DEF EngineInv, Shape
<1>4. Existing' = Existing \ {t}
  BY <1>3 DEF Existing
<1>5. Listed(t) \subseteq TablePages(t)
  BY DEF Listed, TablePages, ToSet
<1>6. OverflowStays
  BY <1>1, <1>2, <1>5, TablePagesSound DEF OverflowStays
<1>7. ASSUME NEW u \in Existing \ {t}
      PROVE  /\ Tuples(u)' = Tuples(u) /\ RowsOf(u)' = RowsOf(u)
             /\ tables'[u] = tables[u]
  <2>1. tables'[u] = tables[u] /\ u \in Existing'
    BY <1>3, <1>4 DEF Existing
  <2>2. \A q \in TablePages(u) : q \in live /\ q \notin TablePages(t)
    BY TablePagesSound, TablesApart
  <2>3. \A q \in TablePages(u) : q \in live' /\ page'[q] = page[q]
    BY <1>1, <1>2, <1>5, <2>2
  <2> QED
    BY <1>6, <2>1, <2>3, DropTableSound, TableUntouched
<1> QED
  BY <1>4, <1>7

(* The pages of a table whose last page was linked to a new one. *)
LEMMA TableLonger ==
    ASSUME EngineInv, EngineInv', NEW t \in Existing, t \in Existing',
           tables'[t].first = tables[t].first,
           NEW p \in live', p \notin live, live \subseteq live',
           page'[p].next = NoPage, page'[LastPage(t)].next = p,
           \A q \in live \ {LastPage(t)} : page'[q].next = page[q].next
    PROVE  TablePages(t)' = TablePages(t) \cup {p}
<1>1. PICK c : c = TableChain(t)
  OBVIOUS
<1>2. PICK h : h = tables[t].first
  OBVIOUS
<1>3. PICK n : n = Len(c)
  OBVIOUS
<1>4. IsPath(c, h)
  BY <1>1, <1>2, TableChainIsPath DEF TableChainsArePaths
<1>5. /\ c \in Seq(live) /\ n \in Nat \ {0} /\ c[1] = h
      /\ \A i \in 1 .. n - 1 : c[i + 1] = page[c[i]].next
      /\ page[c[n]].next = NoPage
  BY <1>3, <1>4 DEF IsPath
<1>6. \A i \in 1 .. n : c[i] \in live
  BY <1>3, <1>5, ElementOfSeq
<1>7. LastPage(t) = c[n]
  BY <1>1, <1>3 DEF LastPage, Last
<1>8. \A i \in 1 .. n - 1 : c[i] # c[n]
  <2> SUFFICES ASSUME NEW i \in 1 .. n - 1, c[i] = c[n] PROVE FALSE
    OBVIOUS
  <2>1. c[i + 1] = NoPage
    BY <1>5
  <2>2. c[i + 1] \in live
    BY <1>5, <1>6
  <2> QED
    BY <2>1, <2>2, EngineAssumption DEF EngineInv, Shape
<1>9. PICK d : d = Append(c, p)
  OBVIOUS
<1>10. c \in Seq(live')
  <2>1. c = [i \in 1 .. n |-> c[i]]
    BY <1>3, <1>5, LenProperties
  <2>2. \A i \in 1 .. n : c[i] \in live'
    BY <1>6
  <2> QED
    BY <1>5, <2>1, <2>2, IsASeq
<1>11. /\ d \in Seq(live') /\ Len(d) = n + 1
       /\ \A i \in 1 .. n : d[i] = c[i]
       /\ d[n + 1] = p
  BY <1>3, <1>9, <1>10, AppendProperties
<1>12. IsPath(d, h)'
  <2>1. Len(d) \in Nat \ {0} /\ d[1] = h
    BY <1>5, <1>11
  <2>2. ASSUME NEW i \in 1 .. Len(d) - 1 PROVE d[i + 1] = page'[d[i]].next
    <3>1. CASE i = n
      BY <1>5, <1>7, <1>11, <3>1
    <3>2. CASE i \in 1 .. n - 1
      <4>1. d[i] = c[i] /\ d[i + 1] = c[i + 1]
        BY <1>5, <1>11, <3>2
      <4>2. page'[c[i]].next = page[c[i]].next
        BY <1>5, <1>6, <1>7, <1>8, <3>2
      <4> QED
        BY <1>5, <3>2, <4>1, <4>2
    <3> QED
      BY <1>5, <1>11, <3>1, <3>2
  <2>3. page'[d[Len(d)]].next = NoPage
    BY <1>11
  <2> QED
    BY <1>11, <2>1, <2>2, <2>3 DEF IsPath
<1>13. TableChain(t)' = d
  <2>1. TableChainsArePaths'
    BY TableChainIsPathAfter
  <2>2. \A e : IsPath(e, tables[t].first)' => TableChain(t)' = e
    BY <2>1 DEF TableChainsArePaths
  <2>3. IsPath(d, tables[t].first)'
    BY <1>2, <1>12 DEF IsPath
  <2> QED
    BY <2>2, <2>3
<1>14. ToSet(d) = ToSet(c) \cup {p}
  <2>1. DOMAIN c = 1 .. n /\ DOMAIN d = 1 .. n + 1
    BY <1>3, <1>10, <1>11, LenProperties
  <2>2. ToSet(c) = {c[i] : i \in 1 .. n} /\ ToSet(d) = {d[i] : i \in 1 .. n + 1}
    BY <2>1 DEF ToSet
  <2>3. \A i \in 1 .. n + 1 : i \in 1 .. n \/ i = n + 1
    BY <1>5
  <2>4. n + 1 \in 1 .. n + 1 /\ \A i \in 1 .. n : i \in 1 .. n + 1
    BY <1>5
  <2>5. \A q \in ToSet(d) : q \in ToSet(c) \cup {p}
    BY <1>11, <2>2, <2>3
  <2>6. \A q \in ToSet(c) \cup {p} : q \in ToSet(d)
    BY <1>11, <2>2, <2>4
  <2> QED
    BY <2>5, <2>6
<1> QED
  BY <1>1, <1>13, <1>14 DEF TablePages

(* The tuples of a table lie in its pages. *)
LEMMA TuplePlaces ==
    ASSUME EngineInv, NEW t \in Existing, NEW id \in Tuples(t)
    PROVE  \E p \in TablePages(t) : \E s \in Nat :
               /\ id = <<p, s>> /\ p \in live /\ HasTuple(p, s)
               /\ s \in LiveSlots(page[p])
<1>1. PICK p \in TablePages(t) : \E s \in LiveSlots(page[p]) : id = <<p, s>>
  BY DEF Tuples
<1>2. PICK s \in LiveSlots(page[p]) : id = <<p, s>>
  BY <1>1
<1>3. p \in live /\ IsDataPage(p)
  BY TablePagesSound
<1>4. page[p] \in DataPages \cup ChunkPages
  BY <1>3 DEF EngineInv, Shape, SoundPages
<1>5. s \in Nat
  BY <1>3, <1>4, PageKinds DEF IsDataPage
<1> QED
  BY <1>1, <1>2, <1>3, <1>5 DEF HasTuple

(* The rows of a table: those of tuples that stay are as they were. *)
RowsKept(t) ==
    \A p \in live : \A s :
        <<p, s>> \in Tuples(t) /\ <<p, s>> \in Tuples(t)' =>
            /\ p \in live' /\ IsDataPage(p)' /\ s \in LiveSlots(page'[p])
            /\ page'[p].slots[s] = page[p].slots[s] /\ PointersStay(p, s)

(* The rows of a table whose tuples are kept. *)
LEMMA RowsAfter ==
    ASSUME EngineInv, EngineInv', NEW t \in Existing, t \in Existing', RowsKept(t)
    PROVE  \A id \in Tuples(t) : id \in Tuples(t)' => RowOf(t, id)' = RowOf(t, id)
<1> SUFFICES ASSUME NEW id \in Tuples(t), id \in Tuples(t)'
             PROVE  RowOf(t, id)' = RowOf(t, id)
  OBVIOUS
<1>1. PICK p \in TablePages(t) : \E s \in Nat :
          /\ id = <<p, s>> /\ p \in live /\ HasTuple(p, s) /\ s \in LiveSlots(page[p])
  BY TuplePlaces
<1>2. PICK s \in Nat :
          /\ id = <<p, s>> /\ p \in live /\ HasTuple(p, s) /\ s \in LiveSlots(page[p])
  BY <1>1
<1>3. /\ p \in live' /\ IsDataPage(p)' /\ s \in LiveSlots(page'[p])
      /\ page'[p].slots[s] = page[p].slots[s] /\ PointersStay(p, s)
  BY <1>2 DEF RowsKept
<1>4. HasTuple(p, s)'
  BY <1>3 DEF HasTuple
<1>5. RowOf(t, <<p, s>>)' = RowOf(t, <<p, s>>)
  BY <1>2, <1>3, <1>4, RowStays
<1> QED
  BY <1>2, <1>5

(***************************************************************************)
(* A table that gains tuples on one page p, of its own or linked behind    *)
(* its last page, while the overflow pages stay.                           *)
(***************************************************************************)
Gains(t, p, gained) ==
    /\ TablePages(t)' = TablePages(t) \cup {p}
    /\ OverflowStays
    /\ p \in TablePages(t) => LiveSlots(page'[p]) = LiveSlots(page[p]) \cup gained
    /\ p \notin TablePages(t) => LiveSlots(page'[p]) = gained
    /\ \A q \in TablePages(t) \ {p} : LiveSlots(page'[q]) = LiveSlots(page[q])
    /\ \A q \in TablePages(t) :
        /\ q \in live' /\ IsDataPage(q)'
        /\ \A s \in LiveSlots(page[q]) : page'[q].slots[s] = page[q].slots[s]

(* The tuples and rows of a table after that. *)
LEMMA TableGains ==
    ASSUME EngineInv, EngineInv', NEW t \in Existing, t \in Existing',
           NEW p, NEW gained, Gains(t, p, gained)
    PROVE  /\ Tuples(t)' = Tuples(t) \cup {<<p, s>> : s \in gained}
           /\ RowsOf(t)' = RowsOf(t) \cup {RowOf(t, <<p, s>>)' : s \in gained}
<1>1. Tuples(t)' = Tuples(t) \cup {<<p, s>> : s \in gained}
  <2>1. \A id \in Tuples(t)' : id \in Tuples(t) \cup {<<p, s>> : s \in gained}
    <3> SUFFICES ASSUME NEW id \in Tuples(t)'
                 PROVE  id \in Tuples(t) \cup {<<p, s>> : s \in gained}
      OBVIOUS
    <3>1. PICK q \in TablePages(t)' : \E s \in LiveSlots(page'[q]) : id = <<q, s>>
      BY DEF Tuples
    <3> QED
      BY <3>1 DEF Tuples, Gains
  <2>2. \A id \in Tuples(t) : id \in Tuples(t)'
    BY DEF Tuples, Gains
  <2>3. \A s \in gained : <<p, s>> \in Tuples(t)'
    BY DEF Tuples, Gains
  <2> QED
    BY <2>1, <2>2, <2>3
<1>2. RowsKept(t)
  <2> SUFFICES ASSUME NEW q \in live, NEW s, <<q, s>> \in Tuples(t)
               PROVE  /\ q \in live' /\ IsDataPage(q)' /\ s \in LiveSlots(page'[q])
                      /\ page'[q].slots[s] = page[q].slots[s] /\ PointersStay(q, s)
    BY DEF RowsKept
  <2>1. q \in TablePages(t) /\ s \in LiveSlots(page[q])
    BY DEF Tuples
  <2>2. PointersStay(q, s)
    BY AllPointersStay DEF Gains
  <2> QED
    BY <2>1, <2>2 DEF Gains
<1>3. \A id \in Tuples(t) : RowOf(t, id)' = RowOf(t, id)
  BY <1>1, <1>2, RowsAfter
<1> QED
  BY <1>1, <1>3 DEF RowsOf

(* An insertion that gives up behind its new page changes no row. *)
LEMMA AbandonedRows ==
    ASSUME EngineInv, NEW t \in Existing, NEW ps, NEW p, NEW links \in BOOLEAN,
           Abandoned(t, ps, p, links)
    PROVE  RowsStay /\ tables' = tables
<1>1. PICK D, owner, place : Owns(D, owner, place)
  BY DEF EngineInv, ChainsOwned
<1>2. Shape
  BY DEF EngineInv
<1>3. PICK last : last = LastPage(t)
  OBVIOUS
<1>4. /\ last \in live /\ IsDataPage(last) /\ page[last] \in SoundPages
      /\ last \in TablePages(t) /\ page[last].next = NoPage
  BY <1>1, <1>2, <1>3, LastPageSound DEF Shape
<1>5. /\ p \in Pages /\ p \notin live /\ p \in live' /\ live \subseteq live'
      /\ tables' = tables /\ page'[p] = NewDataPage
      /\ \A q \in live :
            page'[q] = IF links /\ q = last THEN [page[q] EXCEPT !.next = p] ELSE page[q]
  BY <1>3 DEF Abandoned
<1>6. EngineInv' /\ Existing' = Existing
  BY <1>5, AbandonedSound DEF Existing
<1>7. LiveSlots(page'[p]) = {} /\ page'[p].next = NoPage
  BY <1>5, EmptyPageSound, EngineAssumption DEF NewDataPage
<1>8. OverflowStays
  BY <1>4, <1>5 DEF OverflowStays
<1>9. ASSUME NEW u \in Existing, u # t \/ ~links
      PROVE  Tuples(u)' = Tuples(u) /\ RowsOf(u)' = RowsOf(u)
  <2>1. \A q \in TablePages(u) : q \in live /\ (links => q # last)
    BY <1>4, <1>9, TablesApart, TablePagesSound
  <2>2. \A q \in TablePages(u) : q \in live' /\ page'[q] = page[q]
    BY <1>5, <2>1
  <2> QED
    BY <1>5, <1>6, <1>8, <2>2, TableUntouched
<1>10. ASSUME links
       PROVE  Tuples(t)' = Tuples(t) /\ RowsOf(t)' = RowsOf(t)
  <2>1. /\ page'[last] = [page[last] EXCEPT !.next = p]
        /\ page'[last].next = p /\ page'[last].slots = page[last].slots
        /\ LiveSlots(page'[last]) = LiveSlots(page[last]) /\ "slots" \in DOMAIN page'[last]
    <3>1. page'[last] = [page[last] EXCEPT !.next = p] /\ "slots" \in DOMAIN page[last]
      BY <1>4, <1>5, <1>10 DEF IsDataPage
    <3> QED
      BY <1>4, <1>5, <3>1, LinkedPage
  <2>2. \A q \in live \ {last} : page'[q] = page[q]
    BY <1>5
  <2>3. TablePages(t)' = TablePages(t) \cup {p}
    BY ZenonT(60), <1>3, <1>5, <1>6, <1>7, <2>1, <2>2, TableLonger
  <2>4. \A q \in TablePages(t) : q \in live /\ IsDataPage(q)
    BY TablePagesSound
  <2>5. PICK none : none = {}
    OBVIOUS
  <2>6. Gains(t, p, none)
    BY <1>5, <1>7, <1>8, <2>1, <2>2, <2>3, <2>4, <2>5 DEF Gains, IsDataPage
  <2>7. /\ Tuples(t)' = Tuples(t) \cup {<<p, s>> : s \in none}
        /\ RowsOf(t)' = RowsOf(t) \cup {RowOf(t, <<p, s>>)' : s \in none}
    BY <1>6, <2>6, TableGains
  <2> QED
    BY <2>5, <2>7
<1> QED
  BY <1>5, <1>6, <1>9, <1>10 DEF RowsStay

(* An insertion that ends well adds one tuple to the table. *)
LEMMA StoredRows ==
    ASSUME EngineInv, NEW t \in Existing, NEW row \in Rows,
           NEW ps, NEW p, NEW s, Stored(t, row, ps, p, s)
    PROVE  /\ EngineInv' /\ Existing' = Existing
           /\ Tuples(t)' = Tuples(t) \cup {<<p, s>>}
           /\ RowsOf(t)' = RowsOf(t) \cup {RowOf(t, <<p, s>>)'}
           /\ \A u \in Existing : <<p, s>> \notin Tuples(u)
           /\ tables'[t].row_count = (tables[t].row_count + 1) % CountModulus
           /\ \A u \in Existing \ {t} :
                /\ Tuples(u)' = Tuples(u) /\ RowsOf(u)' = RowsOf(u)
                /\ tables'[u] = tables[u]
<1>1. PICK D, owner, place : Owns(D, owner, place)
  BY DEF EngineInv, ChainsOwned
<1>2. Shape
  BY DEF EngineInv
<1>3. PICK last : last = LastPage(t)
  OBVIOUS
<1>4. /\ last \in live /\ IsDataPage(last) /\ page[last] \in SoundPages
      /\ last \in TablePages(t) /\ page[last].next = NoPage
  BY <1>1, <1>2, <1>3, LastPageSound DEF Shape
<1>5. /\ p \in Pages /\ live \subseteq live' /\ p \in live'
      /\ page'[p] \in DataPages
      /\ LiveSlots(page'[p]) = {s} \cup IF p \in live THEN LiveSlots(page[p]) ELSE {}
      /\ \A q \in live \ {p} :
            page'[q] = IF p \notin live /\ q = last
                       THEN [page[q] EXCEPT !.next = p] ELSE page[q]
      /\ p \notin live => page'[p].next = NoPage
      /\ p \in live =>
            /\ p \in TablePages(t) /\ page'[p].next = page[p].next
            /\ s \notin LiveSlots(page[p])
            /\ \A k \in LiveSlots(page[p]) : page'[p].slots[k] = page[p].slots[k]
  BY <1>3 DEF Stored
<1>6. /\ tables' = [tables EXCEPT ![t] = [first |-> tables[t].first,
                        row_count |-> (tables[t].row_count + 1) % CountModulus]]
      /\ tables'[t] \in TableRecords
  BY DEF Stored
<1>7. /\ tables'[t].first = tables[t].first
      /\ tables'[t].row_count = (tables[t].row_count + 1) % CountModulus
      /\ \A u \in TableNames \ {t} : tables'[u] = tables[u]
  BY <1>2, <1>6 DEF Shape, Existing
<1>8. Existing' = Existing
  <2>1. tables'[t] # Absent
    BY <1>6, EngineAssumption DEF TableRecords
  <2> QED
    BY <1>7, <2>1 DEF Existing
<1>9. EngineInv'
  BY StoredSound
<1>10. \A q \in TablePages(t) : q \in live /\ IsDataPage(q)
  BY TablePagesSound
<1>11. OverflowStays
  BY <1>4, <1>5, <1>10 DEF OverflowStays
<1>12. ASSUME NEW u \in Existing \ {t}
       PROVE  /\ Tuples(u)' = Tuples(u) /\ RowsOf(u)' = RowsOf(u)
              /\ tables'[u] = tables[u] /\ <<p, s>> \notin Tuples(u)
  <2>1. \A q \in TablePages(u) : q \in live /\ q # p /\ q # last
    BY <1>4, <1>5, TablesApart, TablePagesSound
  <2>2. \A q \in TablePages(u) : q \in live' /\ page'[q] = page[q]
    BY <1>5, <2>1
  <2>3. tables'[u] = tables[u]
    BY <1>7 DEF Existing
  <2>4. <<p, s>> \notin Tuples(u)
    BY <2>1 DEF Tuples
  <2> QED
    BY <1>8, <1>9, <1>11, <2>2, <2>3, <2>4, TableUntouched
<1>13. <<p, s>> \notin Tuples(t)
  BY <1>5, <1>10 DEF Tuples
<1>14. Gains(t, p, {s})
  <2>1. CASE p \in live
    <3>1. \A q \in live \ {p} : page'[q] = page[q]
      BY <1>5, <2>1
    <3>2. \A q \in TablePages(t) : q \in live' /\ page'[q].next = page[q].next
      BY <1>5, <1>10, <2>1, <3>1
    <3>3. TablePages(t)' = TablePages(t)
      BY <1>7, <1>8, <1>9, <3>2, TableChainStays
    <3>4. \A q \in TablePages(t) : IsDataPage(q)'
      BY <1>5, <1>10, <3>1 DEF IsDataPage, DataPages
    <3> QED
      BY <1>5, <1>10, <1>11, <2>1, <3>1, <3>2, <3>3, <3>4 DEF Gains
  <2>2. CASE p \notin live
    <3>1. /\ page'[last].next = p /\ page'[last].slots = page[last].slots
          /\ LiveSlots(page'[last]) = LiveSlots(page[last]) /\ IsDataPage(last)'
      <4>1. page'[last] = [page[last] EXCEPT !.next = p] /\ "slots" \in DOMAIN page[last]
        BY <1>4, <1>5, <2>2 DEF IsDataPage
      <4> QED
        BY <1>4, <1>5, <4>1, LinkedPage DEF IsDataPage
    <3>2. \A q \in live \ {last} : page'[q] = page[q]
      BY <1>5, <2>2
    <3>3. TablePages(t)' = TablePages(t) \cup {p}
      BY <1>3, <1>5, <1>7, <1>8, <1>9, <2>2, <3>1, <3>2, TableLonger
    <3>4. \A q \in TablePages(t) : IsDataPage(q)'
      BY <1>10, <3>1, <3>2 DEF IsDataPage
    <3> QED
      BY <1>5, <1>10, <1>11, <2>2, <3>1, <3>2, <3>3, <3>4 DEF Gains
  <2> QED
    BY <2>1, <2>2
<1>15. /\ Tuples(t)' = Tuples(t) \cup {<<p, s>>}
       /\ RowsOf(t)' = RowsOf(t) \cup {RowOf(t, <<p, s>>)'}
  <2>1. PICK gained : gained = {s}
    OBVIOUS
  <2>2. /\ Tuples(t)' = Tuples(t) \cup {<<p, k>> : k \in gained}
        /\ RowsOf(t)' = RowsOf(t) \cup {RowOf(t, <<p, k>>)' : k \in gained}
    BY <1>8, <1>9, <1>14, <2>1, TableGains
  <2> QED
    BY <2>1, <2>2
<1> QED
  BY <1>7, <1>8, <1>9, <1>12, <1>13, <1>15

(* Deleting a row takes away that row, of whichever table, and no other. *)
LEMMA DeleteRows ==
    ASSUME EngineInv, NEW t \in Existing, NEW p \in live, NEW s, HasTuple(p, s),
           Delete(t, p, s)
    PROVE  /\ EngineInv' /\ Existing' = Existing
           /\ tables'[t].row_count = (tables[t].row_count - 1) % CountModulus
           /\ \A u \in Existing \ {t} : tables'[u] = tables[u]
           /\ \A u \in Existing :
                /\ Tuples(u)' = Tuples(u) \ {<<p, s>>}
                /\ RowsOf(u)' = {r \in RowsOf(u) : r.id # <<p, s>>}
<1>1. PICK D, owner, place : Owns(D, owner, place)
  BY DEF EngineInv, ChainsOwned
<1>2. /\ p \in live' /\ live' \subseteq live
      /\ \A q \in live' \ {p} : page'[q] = page[q]
      /\ page'[p].next = page[p].next
      /\ "slots" \in DOMAIN page'[p]
      /\ LiveSlots(page'[p]) = LiveSlots(page[p]) \ {s}
      /\ \A k \in LiveSlots(page'[p]) : page'[p].slots[k] = page[p].slots[k]
      /\ tables'[t] \in TableRecords
      /\ \A q \in live \ live' : q \in FreedWith(page[p].slots[s])
  BY DeletePages
<1>3. tables' = [tables EXCEPT ![t] = [first |-> tables[t].first,
                     row_count |-> (tables[t].row_count - 1) % CountModulus]]
  BY DeletePages
<1>4. Shape /\ t \in TableNames
  BY DEF EngineInv, Existing
<1>5. /\ tables'[t].first = tables[t].first
      /\ tables'[t].row_count = (tables[t].row_count - 1) % CountModulus
      /\ \A u \in TableNames \ {t} : tables'[u] = tables[u]
  BY <1>3, <1>4 DEF Shape
<1>6. Existing' = Existing
  <2>1. tables'[t] # Absent
    BY <1>2, EngineAssumption DEF TableRecords
  <2> QED
    BY <1>5, <2>1 DEF Existing
<1>7. EngineInv'
  BY DeleteSound
<1>8. \A q \in live \ live' :
          q \in D /\ ~IsDataPage(q) /\ \E c : owner[q] = PointerKey(p, s, c)
  BY <1>1, <1>2, <1>4, FreedOwned
<1>9. IsDataPage(p) /\ IsDataPage(p)'
  BY <1>2 DEF IsDataPage, HasTuple
<1>10. ASSUME NEW q \in live, NEW r, HasTuple(q, r), <<q, r>> # <<p, s>>
       PROVE  PointersStay(q, r)
  <2> SUFFICES ASSUME NEW c, PointerAt(q, r, c),
                      NEW a \in ToSet(Chain(page[q].slots[r][c].pointer))
               PROVE  a \in live' /\ page'[a] = page[a]
    BY DEF PointersStay
  <2>1. PICK k \in Keys : k = PointerKey(q, r, c)
                          /\ Heads[k] = page[q].slots[r][c].pointer
    BY <1>4, KeyKinds
  <2>2. PICK chain : chain = Chain(Heads[k])
    OBVIOUS
  <2>3. ToSet(chain) = {b \in D : owner[b] = k}
    BY <1>1, <1>4, <2>2, ChainOfKey
  <2>4. a \in D /\ owner[a] = k
    BY <2>1, <2>2, <2>3
  <2>5. k.kind = "pointer" /\ \A d : k # PointerKey(p, s, d)
    BY <1>10, <2>1 DEF PointerKey
  <2>6. a \in live /\ ~IsDataPage(a)
    BY <1>1, <2>4, <2>5 DEF Owns
  <2> QED
    BY <1>2, <1>8, <1>9, <2>4, <2>5, <2>6
<1>11. ASSUME NEW u \in Existing
       PROVE  /\ Tuples(u)' = Tuples(u) \ {<<p, s>>}
              /\ RowsOf(u)' = {r \in RowsOf(u) : r.id # <<p, s>>}
  <2>1. tables'[u].first = tables[u].first /\ u \in Existing'
    BY <1>5, <1>6 DEF Existing
  <2>2. \A q \in TablePages(u) :
            /\ q \in live /\ q \in live' /\ IsDataPage(q)
            /\ page'[q].next = page[q].next /\ IsDataPage(q)'
    <3> SUFFICES ASSUME NEW q \in TablePages(u)
                 PROVE  /\ q \in live /\ q \in live' /\ IsDataPage(q)
                        /\ page'[q].next = page[q].next /\ IsDataPage(q)'
      OBVIOUS
    <3>1. q \in live /\ IsDataPage(q)
      BY TablePagesSound
    <3> QED
      BY <1>2, <1>8, <1>9, <3>1 DEF IsDataPage
  <2>3. TablePages(u)' = TablePages(u)
    BY <1>7, <2>1, <2>2, TableChainStays
  <2>4. \A q \in TablePages(u) : \A r :
            r \in LiveSlots(page'[q]) <=> r \in LiveSlots(page[q]) /\ <<q, r>> # <<p, s>>
    BY <1>2, <2>2
  <2>5. Tuples(u)' = Tuples(u) \ {<<p, s>>}
    <3>1. \A id \in Tuples(u)' : id \in Tuples(u) \ {<<p, s>>}
      BY <2>3, <2>4 DEF Tuples
    <3>2. \A id \in Tuples(u) \ {<<p, s>>} : id \in Tuples(u)'
      BY <2>3, <2>4 DEF Tuples
    <3> QED
      BY <3>1, <3>2
  <2>6. RowsKept(u)
    <3> SUFFICES ASSUME NEW q \in live, NEW r, <<q, r>> \in Tuples(u), <<q, r>> \in Tuples(u)'
                 PROVE  /\ q \in live' /\ IsDataPage(q)' /\ r \in LiveSlots(page'[q])
                        /\ page'[q].slots[r] = page[q].slots[r] /\ PointersStay(q, r)
      BY DEF RowsKept
    <3>1. q \in TablePages(u) /\ r \in LiveSlots(page[q]) /\ <<q, r>> # <<p, s>>
      <4>1. q \in TablePages(u) /\ r \in LiveSlots(page[q])
        BY DEF Tuples
      <4>2. <<q, r>> # <<p, s>>
        BY <2>5
      <4> QED
        BY <4>1, <4>2
    <3>2. HasTuple(q, r) /\ r \in LiveSlots(page'[q])
      BY <2>2, <2>4, <3>1 DEF HasTuple
    <3>3. PointersStay(q, r)
      BY <1>10, <3>1, <3>2
    <3> QED
      BY <1>2, <2>2, <3>1, <3>2, <3>3
  <2>7. \A id \in Tuples(u)' : RowOf(u, id)' = RowOf(u, id)
    BY <1>7, <2>1, <2>5, <2>6, RowsAfter
  <2>8. RowsOf(u)' = {RowOf(u, id) : id \in Tuples(u) \ {<<p, s>>}}
    BY <2>5, <2>7 DEF RowsOf
  <2>9. \A id : RowOf(u, id).id = id
    BY DEF RowOf
  <2>10. {RowOf(u, id) : id \in Tuples(u) \ {<<p, s>>}}
            = {r \in RowsOf(u) : r.id # <<p, s>>}
    BY <2>9 DEF RowsOf
  <2> QED
    BY <2>5, <2>8, <2>10
<1> QED
  BY <1>5, <1>6, <1>7, <1>11 DEF Existing

(* The row count has room for as many tuples as fit on the disk. *)
CountFits == Cardinality(Pages) * PageRoom < CountModulus

(* A table has no more tuples than pages have slots. *)
TuplesFit ==
    CountFits =>
        \A t \in Existing :
            /\ IsFiniteSet(Tuples(t)) /\ Cardinality(Tuples(t)) \in Nat
            /\ Cardinality(Tuples(t)) < CountModulus

(* Each tuple takes a slot of its page, so they are fewer than CountModulus. *)
LEMMA TuplesBounded == EngineInv => TuplesFit
<1> SUFFICES ASSUME CountFits, EngineInv, NEW t \in Existing
             PROVE  /\ IsFiniteSet(Tuples(t)) /\ Cardinality(Tuples(t)) \in Nat
                    /\ Cardinality(Tuples(t)) < CountModulus
  BY DEF TuplesFit
<1>1. IsFiniteSet(1 .. PageRoom) /\ Cardinality(1 .. PageRoom) = PageRoom
  BY FS_Interval, EngineAssumption
<1>2. PICK all : all = Pages \X (1 .. PageRoom)
  OBVIOUS
<1>3. IsFiniteSet(all) /\ Cardinality(all) = Cardinality(Pages) * PageRoom
  BY <1>1, <1>2, FS_Product, EngineAssumption
<1>4. ASSUME NEW id \in Tuples(t) PROVE id \in all
  <2>1. PICK p \in TablePages(t) : \E s \in LiveSlots(page[p]) : id = <<p, s>>
    BY DEF Tuples
  <2>2. PICK s \in LiveSlots(page[p]) : id = <<p, s>>
    BY <2>1
  <2>3. p \in live /\ IsDataPage(p)
    BY TablePagesSound
  <2>4. /\ page[p] \in DataPages \cup ChunkPages /\ p \in Pages
        /\ Len(page[p].slots) * SlotSize + page[p].room <= PageRoom
    BY <2>3 DEF EngineInv, Shape, SoundPages, IsDataPage
  <2>5. /\ page[p].room \in Nat /\ Len(page[p].slots) \in Nat
        /\ DOMAIN page[p].slots = 1 .. Len(page[p].slots)
    BY <2>3, <2>4, PageKinds DEF IsDataPage
  <2>6. s \in 1 .. Len(page[p].slots)
    BY <2>5 DEF LiveSlots
  <2>7. PICK n \in Nat, r \in Nat : n = Len(page[p].slots) /\ r = page[p].room
    BY <2>5
  <2>8. PICK z : z = n * SlotSize
    OBVIOUS
  <2>9. z \in Nat /\ z >= n
    BY <2>8, EngineAssumption
  <2>10. n <= PageRoom
    BY <2>4, <2>7, <2>8, <2>9, EngineAssumption
  <2> QED
    BY <1>2, <2>2, <2>4, <2>6, <2>7, <2>10, EngineAssumption
<1>5. Tuples(t) \subseteq all
  BY <1>4
<1>6. /\ IsFiniteSet(Tuples(t)) /\ Cardinality(Tuples(t)) <= Cardinality(all)
  BY <1>3, <1>5, FS_Subset
<1>7. Cardinality(Tuples(t)) \in Nat /\ Cardinality(all) \in Nat
  BY <1>3, <1>6, FS_CardinalityType
<1> QED
  BY <1>3, <1>6, <1>7, EngineAssumption DEF CountFits

(* The same in the next state. *)
LEMMA TuplesBoundedAfter == EngineInv' => TuplesFit'
BY TuplesBounded, PTL

(* The counts of tables whose tuples and counts are as they were. *)
LEMMA CountsStay ==
    ASSUME RowCountExact, RowsStay, tables' = tables
    PROVE  RowCountExact'
BY DEF RowCountExact, RowsStay

(* A row stored is counted. *)
LEMMA StoredCount ==
    ASSUME CountFits, EngineInv, RowCountExact, NEW t \in Existing, NEW row \in Rows,
           NEW ps, NEW p, NEW s, Stored(t, row, ps, p, s)
    PROVE  RowCountExact'
<1>1. /\ EngineInv' /\ Existing' = Existing
      /\ Tuples(t)' = Tuples(t) \cup {<<p, s>>} /\ <<p, s>> \notin Tuples(t)
      /\ tables'[t].row_count = (tables[t].row_count + 1) % CountModulus
      /\ \A u \in Existing \ {t} : Tuples(u)' = Tuples(u) /\ tables'[u] = tables[u]
  BY StoredRows
<1>2. PICK old : old = Tuples(t)
  OBVIOUS
<1>3. PICK new : new = Tuples(t)'
  OBVIOUS
<1>4. /\ IsFiniteSet(old) /\ Cardinality(old) \in Nat
      /\ tables[t].row_count = Cardinality(old)
  BY <1>2, TuplesBounded DEF RowCountExact, TuplesFit
<1>5. Cardinality(new) < CountModulus
  <2>1. TuplesFit'
    BY <1>1, TuplesBoundedAfter
  <2> QED
    BY <1>1, <1>3, <2>1 DEF TuplesFit, CountFits
<1>6. Cardinality(new) = Cardinality(old) + 1
  BY <1>1, <1>2, <1>3, <1>4, FS_AddElement
<1>7. tables'[t].row_count = Cardinality(new)
  BY <1>1, <1>4, <1>5, <1>6, EngineAssumption
<1> QED
  BY <1>1, <1>3, <1>7 DEF RowCountExact

(* A row deleted is counted off. *)
LEMMA DeleteCount ==
    ASSUME CountFits, EngineInv, RowCountExact, NEW t \in Existing,
           NEW p \in TablePages(t), NEW s \in LiveSlots(page[p]), Delete(t, p, s)
    PROVE  RowCountExact'
<1>1. p \in live /\ HasTuple(p, s)
  BY TablePagesSound DEF HasTuple
<1>2. /\ EngineInv' /\ Existing' = Existing
      /\ tables'[t].row_count = (tables[t].row_count - 1) % CountModulus
      /\ \A u \in Existing \ {t} : tables'[u] = tables[u]
      /\ \A u \in Existing : Tuples(u)' = Tuples(u) \ {<<p, s>>}
  BY <1>1, DeleteRows
<1>3. PICK old : old = Tuples(t)
  OBVIOUS
<1>4. PICK new : new = Tuples(t)'
  OBVIOUS
<1>5. <<p, s>> \in old
  BY <1>3 DEF Tuples
<1>6. /\ IsFiniteSet(old) /\ Cardinality(old) \in Nat /\ Cardinality(old) < CountModulus
      /\ tables[t].row_count = Cardinality(old)
  BY <1>3, TuplesBounded DEF RowCountExact, TuplesFit
<1>7. Cardinality(new) = Cardinality(old) - 1 /\ Cardinality(new) \in Nat
  <2>1. IsFiniteSet(new) /\ Cardinality(new) = Cardinality(old) - 1
    BY <1>2, <1>3, <1>4, <1>5, <1>6, FS_RemoveElement
  <2> QED
    BY <2>1, FS_CardinalityType
<1>8. tables'[t].row_count = Cardinality(new)
  BY <1>2, <1>6, <1>7, EngineAssumption
<1>9. ASSUME NEW u \in Existing \ {t} PROVE Tuples(u)' = Tuples(u)
  <2>1. <<p, s>> \notin Tuples(u)
    BY TablesApart DEF Tuples
  <2> QED
    BY <1>2, <2>1
<1> QED
  BY <1>2, <1>4, <1>8, <1>9 DEF RowCountExact

(* However an insertion ends, the count is right. *)
LEMMA InsertCount ==
    ASSUME CountFits, EngineInv, RowCountExact, NEW t \in Existing, NEW row \in Rows,
           Insert(t, row)
    PROVE  RowCountExact'
<1>1. CASE \E ps, p, s : Stored(t, row, ps, p, s)
  BY <1>1, StoredCount
<1>2. CASE \E ps, p : Abandoned(t, ps, p, TRUE) \/ Abandoned(t, ps, p, FALSE)
  BY <1>2, AbandonedRows, CountsStay
<1>3. CASE InsertHere(t, row)
  BY <1>1, <1>3, InsertHereStores
<1>4. CASE InsertOnNewPage(t, row)
  BY <1>1, <1>2, <1>4, InsertOnNewPageStores
<1>5. CASE InsertFindsNoFrame(t, row)
  BY <1>5, WastePageRows, CountsStay DEF InsertFindsNoFrame
<1>6. CASE InsertFindsNoPage(t, row)
  BY <1>6, InsertFindsNoPageRows, CountsStay
<1> QED
  BY <1>3, <1>4, <1>5, <1>6 DEF Insert

(* So it is after every step. *)
LEMMA CountStep ==
    CountFits /\ EngineInv /\ RowCountExact /\ [Next]_vars => RowCountExact'
<1> SUFFICES ASSUME CountFits, EngineInv, RowCountExact, [Next]_vars
             PROVE  RowCountExact'
  OBVIOUS
<1>1. CASE UNCHANGED vars
  <2>1. UNCHANGED <<live, page, pins, tables>>
    BY <1>1 DEF vars
  <2>2. RowsStay
    BY <2>1 DEF RowsStay, Existing, Tuples, TablePages, TableChain, Chain, ChainFrom, Links, RowsOf, RowOf, TupleAt, Resolved, ReadOverflow, IsPlaceholder
  <2> QED
    BY <2>1, <2>2, CountsStay
<1>2. ASSUME NEW t \in TableNames \ Existing, CreateTable(t) PROVE RowCountExact'
  <2>1. /\ Existing' = Existing \cup {t}
        /\ Tuples(t)' = {} /\ tables'[t].row_count = 0
        /\ \A u \in Existing : Tuples(u)' = Tuples(u) /\ tables'[u] = tables[u]
    BY <1>2, CreateTableRows
  <2> QED
    BY <2>1, FS_EmptySet DEF RowCountExact
<1>3. CASE CreateTableFails
  BY <1>3, WastePageRows, CountsStay DEF CreateTableFails
<1>4. ASSUME NEW t \in Existing, DropTable(t) PROVE RowCountExact'
  <2>1. /\ Existing' = Existing \ {t}
        /\ \A u \in Existing \ {t} : Tuples(u)' = Tuples(u) /\ tables'[u] = tables[u]
    BY <1>4, DropTableRows
  <2> QED
    BY <2>1 DEF RowCountExact
<1>5. ASSUME NEW t \in Existing, NEW row \in Rows, Insert(t, row) PROVE RowCountExact'
  BY <1>5, InsertCount
<1>6. ASSUME NEW t \in Existing, NEW p \in TablePages(t), GetNothing(p)
      PROVE  RowCountExact'
  BY <1>6, TablePagesSound, GetNothingRows, CountsStay
<1>7. ASSUME NEW t \in Existing, NEW p \in TablePages(t),
             NEW s \in LiveSlots(page[p]), Delete(t, p, s)
      PROVE  RowCountExact'
  BY <1>7, DeleteCount
<1>8. CASE \E t \in TableNames \ Existing : CreateTable(t) \/ CreateTableFails
  BY <1>2, <1>3, <1>8
<1>9. CASE \E t \in Existing :
              \/ DropTable(t)
              \/ \E row \in Rows : Insert(t, row)
              \/ \E p \in TablePages(t) :
                  \/ GetNothing(p)
                  \/ \E s \in LiveSlots(page[p]) : Delete(t, p, s)
  BY <1>4, <1>5, <1>6, <1>7, <1>9
<1> QED
  BY <1>1, <1>8, <1>9 DEF Next

(***************************************************************************)
(* row_count is the number of rows a table has, also after insertions that *)
(* failed half-way, for callers that delete rows from the table they are   *)
(* in; a disk that fits the memory of the machine has fewer than 2^32.     *)
(***************************************************************************)
THEOREM RowCountAlwaysExact ==
    ASSUME CountFits
    PROVE  Spec => []RowCountExact
<1>1. Init => RowCountExact
  BY DEF Init, RowCountExact, Existing
<1>2. EngineInv /\ RowCountExact /\ [Next]_vars => RowCountExact'
  BY CountStep
<1> QED
  BY <1>1, <1>2, SpecIsSpecInUse, PagesOwned, PTL DEF Spec

(* The chunks of a column, one behind the other, are its data. *)
LEMMA JoinedChunks ==
    ASSUME NEW column, column.data \in Seq(Nat), Len(column.data) > 0,
           NEW n, n = ChunksOf(column)
    PROVE  FlattenSeq([i \in 1 .. n |-> Chunk(column, i)]) = column.data
<1>1. PICK l \in Nat \ {0}, k \in Nat \ {0} : l = Len(column.data) /\ k = Capacity
  BY LenProperties, EngineAssumption
<1>2. n \in Nat \ {0} /\ (n - 1) * k < l
  BY <1>1, ChunkSound
<1>3. PICK at : at = [i \in 0 .. n |-> IF i = n THEN l ELSE i * k]
  OBVIOUS
<1>4. at \in [0 .. n -> Nat] /\ at[0] = 0 /\ at[n] = l
  <2>1. ASSUME NEW i \in 0 .. n PROVE i * k \in Nat
    BY <1>2
  <2>2. 0 * k = 0 /\ 0 # n /\ 0 \in 0 .. n /\ n \in 0 .. n
    BY <1>2
  <2> QED
    BY <1>3, <2>1, <2>2
<1>5. PICK G : G = [i \in 1 .. n |-> Chunk(column, i)]
  OBVIOUS
<1>6. ASSUME NEW i \in 1 .. n
      PROVE  /\ Chunk(column, i) \in Seq(Nat)
             /\ at[i] = at[i - 1] + Len(Chunk(column, i))
             /\ \A j \in 1 .. Len(Chunk(column, i)) :
                  Chunk(column, i)[j] = column.data[at[i - 1] + j]
  <2>1. /\ Chunk(column, i) \in Seq(Nat)
        /\ Len(Chunk(column, i)) = IF i = n THEN l - (n - 1) * k ELSE k
        /\ \A j \in 1 .. Len(Chunk(column, i)) :
              Chunk(column, i)[j] = column.data[(i - 1) * k + j]
    BY <1>1, ChunkSound
  <2>2. i - 1 \in 0 .. n /\ i \in 0 .. n /\ i - 1 # n
    BY <1>2
  <2>3. PICK a \in Nat : a = (i - 1) * k
    <3>1. i - 1 \in Nat
      OBVIOUS
    <3> QED
      BY <3>1
  <2>4. at[i - 1] = a
    BY <1>3, <2>2, <2>3
  <2>5. i * k = a + k
    BY <2>3
  <2>6. at[i] = a + Len(Chunk(column, i))
    <3>1. CASE i = n
      BY <1>3, <2>1, <2>2, <2>3, <3>1
    <3>2. CASE i # n
      BY <1>3, <2>1, <2>2, <2>5, <3>2
    <3> QED
      BY <3>1, <3>2
  <2> QED
    BY <2>1, <2>3, <2>4, <2>6
<1>7. PICK S : S = Nat
  OBVIOUS
<1>8. G \in [1 .. n -> Seq(S)] /\ \A i \in 1 .. n : G[i] = Chunk(column, i)
  BY <1>5, <1>6, <1>7
<1>9. G \in Seq(Seq(S)) /\ Len(G) = n
  BY <1>2, <1>8
<1>10. PICK data \in Seq(S) : data = column.data
  BY <1>7
<1>11. /\ at \in [0 .. Len(G) -> Nat] /\ at[Len(G)] = Len(data)
       /\ \A i \in 1 .. Len(G) :
            /\ at[i] = at[i - 1] + Len(G[i])
            /\ \A j \in 1 .. Len(G[i]) : G[i][j] = data[at[i - 1] + j]
  BY SMTT(30), <1>1, <1>4, <1>6, <1>8, <1>9, <1>10
<1>12. FlattenSeq(G) = data
  BY <1>4, <1>9, <1>11, FlattenedPieces
<1> QED
  BY <1>5, <1>10, <1>12

(* The pages d that the chunks of a spilled column are written to, from h on. *)
WrittenTo(row, ps, first, c, d, h) ==
    /\ c \in Spilled(row)
    /\ h = ps[first[c]]
    /\ d = [i \in 1 .. ChunksOf(row[c]) |-> ps[first[c] + i - 1]]

(* Those of a row just stored are a path through the overflow pages. *)
LEMMA WrittenPath ==
    ASSUME EngineInv, NEW t \in Existing, NEW row \in Rows,
           NEW ps, NEW p, NEW s, Stored(t, row, ps, p, s),
           NEW first, PiecesFrom(row, first),
           NEW c, NEW d, NEW h, WrittenTo(row, ps, first, c, d, h)
    PROVE  /\ IsPath(d, h)'
           /\ \A i \in 1 .. ChunksOf(row[c]) : page'[d[i]].chunk = Chunk(row[c], i)
<1>1. PICK n : n = ChunksOf(row[c])
  OBVIOUS
<1>2. /\ c \in Spilled(row) /\ h = ps[first[c]]
      /\ d = [i \in 1 .. n |-> ps[first[c] + i - 1]]
  BY <1>1 DEF WrittenTo
<1>3. Shape
  BY DEF EngineInv
<1>4. PICK m : m = Len(Pieces(row))
  OBVIOUS
<1>5. m \in Nat /\ m \in 0 .. m
  BY <1>4, LenProperties DEF PiecesFrom
<1>6. ps \in Allocations(m) /\ \A q \in ToSet(ps) : page'[q] = OverflowPages(row, ps)[q]
  BY <1>4 DEF Stored
<1>7. ps \in [1 .. m -> Pages] /\ IsInjective(ps)
  BY <1>3, <1>5, <1>6, AllocationSound
<1>8. \A i \in 1 .. m :
          /\ ps[i] \in live'
          /\ page'[ps[i]] =
                [chunk |-> Pieces(row)[i].chunk,
                 next |-> IF i < m /\ Pieces(row)[i + 1].column = Pieces(row)[i].column
                          THEN ps[i + 1] ELSE NoPage]
  <2> SUFFICES ASSUME NEW i \in 1 .. m
               PROVE  /\ ps[i] \in live'
                      /\ page'[ps[i]] =
                            [chunk |-> Pieces(row)[i].chunk,
                             next |-> IF i < m /\ Pieces(row)[i + 1].column
                                                    = Pieces(row)[i].column
                                      THEN ps[i + 1] ELSE NoPage]
    OBVIOUS
  <2>1. /\ ps[i] \in ToSet(ps)
        /\ OverflowPages(row, ps)[ps[i]] =
                [chunk |-> Pieces(row)[i].chunk,
                 next |-> IF i < m /\ Pieces(row)[i + 1].column = Pieces(row)[i].column
                          THEN ps[i + 1] ELSE NoPage]
    BY <1>4, <1>5, <1>7, WrittenPage
  <2>2. ps[i] \in live'
    BY <2>1 DEF Stored
  <2> QED
    BY <1>6, <2>1, <2>2
<1>9. n \in Nat \ {0} /\ first[c] \in Nat \ {0}
  BY <1>1, <1>2, SpilledColumn DEF PiecesFrom
<1>10. PICK f \in Nat \ {0} : f = first[c]
  BY <1>9
<1>11. ASSUME NEW i \in 1 .. n
      PROVE  \E j \in 1 .. m :
                /\ j = f + i - 1
                /\ Pieces(row)[j] = [column |-> c, chunk |-> Chunk(row[c], i)]
                /\ d[i] = ps[j]
  <2>1. PICK j \in Int : j = f + i - 1
    OBVIOUS
  <2>2. /\ first[c] + i - 1 \in 1 .. Len(Pieces(row))
        /\ Pieces(row)[first[c] + i - 1] = [column |-> c, chunk |-> Chunk(row[c], i)]
    BY <1>1, <1>2 DEF PiecesFrom
  <2>3. d[i] = ps[first[c] + i - 1]
    BY <1>2
  <2> QED
    BY <1>4, <1>10, <2>1, <2>2, <2>3
<1>12. ASSUME NEW i \in 1 .. n
       PROVE  d[i] \in live' /\ page'[d[i]].chunk = Chunk(row[c], i)
  <2>1. PICK j \in 1 .. m :
            /\ Pieces(row)[j] = [column |-> c, chunk |-> Chunk(row[c], i)]
            /\ d[i] = ps[j]
    BY <1>11
  <2>2. /\ ps[j] \in live'
        /\ page'[ps[j]] =
                [chunk |-> Pieces(row)[j].chunk,
                 next |-> IF j < m /\ Pieces(row)[j + 1].column = Pieces(row)[j].column
                          THEN ps[j + 1] ELSE NoPage]
    BY <1>8
  <2> QED
    BY <2>1, <2>2
<1>13. d \in Seq(live') /\ Len(d) = n
  <2>1. d \in [1 .. n -> live']
    BY <1>2, <1>12
  <2> QED
    BY <1>9, <2>1
<1>14. d[1] = ps[f]
  <2>1. 1 \in 1 .. n
    BY <1>9
  <2>2. PICK j \in 1 .. m : j = f + 1 - 1 /\ d[1] = ps[j]
    BY <1>11, <2>1
  <2> QED
    BY <1>10, <2>2
<1>15. ASSUME NEW i \in 1 .. n - 1 PROVE d[i + 1] = page'[d[i]].next
  <2>1. i \in 1 .. n /\ i + 1 \in 1 .. n
    BY <1>9
  <2>2. PICK j \in 1 .. m :
            /\ j = f + i - 1
            /\ Pieces(row)[j] = [column |-> c, chunk |-> Chunk(row[c], i)]
            /\ d[i] = ps[j]
    BY <1>11, <2>1
  <2>3. PICK j2 \in 1 .. m :
            /\ j2 = f + (i + 1) - 1
            /\ Pieces(row)[j2] = [column |-> c, chunk |-> Chunk(row[c], i + 1)]
            /\ d[i + 1] = ps[j2]
    BY <1>11, <2>1
  <2>4. j2 = j + 1
    BY <2>2, <2>3
  <2>5. j < m /\ Pieces(row)[j + 1].column = Pieces(row)[j].column
    BY <1>5, <2>2, <2>3, <2>4
  <2>6. page'[ps[j]] =
            [chunk |-> Pieces(row)[j].chunk,
             next |-> IF j < m /\ Pieces(row)[j + 1].column = Pieces(row)[j].column
                      THEN ps[j + 1] ELSE NoPage]
    BY <1>8
  <2>7. page'[ps[j]].next = ps[j + 1]
    BY <2>5, <2>6
  <2> QED
    BY <2>2, <2>3, <2>4, <2>7
<1>16. page'[d[n]].next = NoPage
  <2>1. n \in 1 .. n
    BY <1>9
  <2>2. PICK j \in 1 .. m :
            /\ j = f + n - 1
            /\ Pieces(row)[j] = [column |-> c, chunk |-> Chunk(row[c], n)]
            /\ d[n] = ps[j]
    BY <1>11, <2>1
  <2>3. ASSUME j < m, Pieces(row)[j + 1].column = c PROVE FALSE
    <3>1. j + 1 \in 1 .. Len(Pieces(row))
      BY <1>4, <1>5, <2>3
    <3>2. PICK i \in 1 .. ChunksOf(row[Pieces(row)[j + 1].column]) :
              j + 1 = first[Pieces(row)[j + 1].column] + i - 1
      BY <3>1 DEF PiecesFrom
    <3>3. i \in 1 .. n /\ j + 1 = f + i - 1
      BY <1>1, <1>10, <2>3, <3>2
    <3> QED
      BY <1>9, <2>2, <3>3
  <2>4. Pieces(row)[j].column = c
    BY <2>2
  <2>5. page'[ps[j]] =
            [chunk |-> Pieces(row)[j].chunk,
             next |-> IF j < m /\ Pieces(row)[j + 1].column = Pieces(row)[j].column
                      THEN ps[j + 1] ELSE NoPage]
    BY <1>8
  <2> QED
    BY <2>2, <2>3, <2>4, <2>5
<1>17. IsPath(d, h)'
  BY <1>2, <1>9, <1>10, <1>13, <1>14, <1>15, <1>16 DEF IsPath
<1> QED
  BY <1>1, <1>12, <1>17

(***************************************************************************)
(* Only text is spilled.  A spilled Blob is read back as the pointer to it *)
(* (IsPlaceholder): PointersResolved does not hold, and the rows of the    *)
(* store are then not those that were inserted.                            *)
(***************************************************************************)
SpillsText == \A row \in Rows : \A c \in Spilled(row) : row[c].type = "VarChar"

(* What get reads of a row just stored is the row. *)
LEMMA RowRead ==
    ASSUME SpillsText, EngineInv, EngineInv', NEW t \in Existing, NEW row \in Rows,
           NEW ps, NEW p, NEW s, Stored(t, row, ps, p, s)
    PROVE  Resolved(TupleAt(<<p, s>>))' = row
<1>1. PICK first : PiecesFrom(row, first)
  BY PiecesSound
<1>2. PICK tuple : tuple = Encoded(row, ps)
  OBVIOUS
<1>3. page'[p].slots[s] = tuple /\ p \in live' /\ s \in LiveSlots(page[p])' /\ IsDataPage(p)'
  BY <1>2 DEF Stored, IsDataPage, DataPages, LiveSlots
<1>4. ps \in [1 .. Len(Pieces(row)) -> Pages]
  <2>1. Shape
    BY DEF EngineInv
  <2>2. PICK m \in Nat : m = Len(Pieces(row))
    BY <1>1, LenProperties DEF PiecesFrom
  <2>3. ps \in Allocations(m)
    BY <2>2 DEF Stored
  <2> QED
    BY <2>1, <2>2, <2>3, AllocationSound
<1>5. /\ DOMAIN tuple = DOMAIN row
      /\ \A c \in DOMAIN row \ Spilled(row) : tuple[c] = row[c]
      /\ \A c \in DOMAIN row : "pointer" \in DOMAIN tuple[c] <=> c \in Spilled(row)
      /\ \A c \in Spilled(row) :
            tuple[c] = [type |-> row[c].type, pointer |-> ps[first[c]]]
  BY <1>1, <1>2, <1>4, EncodedSound
<1>6. /\ \A c \in DOMAIN row : row[c] \in Column
      /\ \A c \in Spilled(row) :
            /\ c \in DOMAIN row /\ row[c].data \in Seq(Nat) /\ Len(row[c].data) > 0
  BY SpilledColumn
<1>7. ASSUME NEW c \in Spilled(row)
      PROVE  ReadOverflow(ps[first[c]])' = row[c].data
  <2>1. PICK n : n = ChunksOf(row[c])
    OBVIOUS
  <2>2. PICK d : d = [i \in 1 .. n |-> ps[first[c] + i - 1]]
    OBVIOUS
  <2>3. PICK h : h = ps[first[c]] /\ WrittenTo(row, ps, first, c, d, h)
    BY <2>1, <2>2 DEF WrittenTo
  <2>4. IsPath(d, h)' /\ \A i \in 1 .. n : page'[d[i]].chunk = Chunk(row[c], i)
    BY <1>1, <2>1, <2>3, WrittenPath
  <2>5. PointerAt(p, s, c)' /\ h = page'[p].slots[s][c].pointer
    <3>1. c \in DOMAIN tuple /\ "pointer" \in DOMAIN tuple[c]
      BY <1>5, <1>6
    <3>2. tuple[c] = [type |-> row[c].type, pointer |-> h]
      BY <1>5, <2>3
    <3>3. HasTuple(p, s)'
      BY <1>3 DEF HasTuple
    <3> QED
      BY <1>3, <3>1, <3>2, <3>3 DEF PointerAt
  <2>6. PointerChainsArePaths'
    BY PointerChainIsPathAfter
  <2>7. Chain(h)' = d
    BY <1>3, <2>4, <2>5, <2>6 DEF PointerChainsArePaths
  <2>8. DOMAIN d = 1 .. n
    BY <2>2
  <2>9. [i \in DOMAIN d |-> page'[d[i]].chunk] = [i \in 1 .. n |-> Chunk(row[c], i)]
    BY <2>4, <2>8
  <2>10. ReadOverflow(h)' = FlattenSeq([i \in DOMAIN d |-> page'[d[i]].chunk])
    BY <2>7 DEF ReadOverflow
  <2>11. PICK column : column = row[c]
    OBVIOUS
  <2>12. FlattenSeq([i \in 1 .. n |-> Chunk(column, i)]) = column.data
    BY <1>6, <2>1, <2>11, JoinedChunks
  <2> QED
    BY <2>3, <2>9, <2>10, <2>11, <2>12
<1>8. ASSUME NEW c \in DOMAIN row
      PROVE  row[c] = IF IsPlaceholder(tuple[c])
                      THEN [type |-> "VarChar", data |-> ReadOverflow(tuple[c].pointer)']
                      ELSE tuple[c]
  <2>1. CASE c \in Spilled(row)
    <3>1. /\ tuple[c] = [type |-> row[c].type, pointer |-> ps[first[c]]]
          /\ row[c].type = "VarChar"
      BY <1>5, <2>1 DEF SpillsText
    <3>2. IsPlaceholder(tuple[c]) /\ tuple[c].pointer = ps[first[c]]
      BY <3>1 DEF IsPlaceholder
    <3>3. ReadOverflow(tuple[c].pointer)' = row[c].data
      BY <1>7, <2>1, <3>2
    <3>4. row[c] = [type |-> row[c].type, data |-> row[c].data]
      BY <1>6 DEF Column
    <3> QED
      BY <3>1, <3>2, <3>3, <3>4
  <2>2. CASE c \notin Spilled(row)
    <3>1. tuple[c] = row[c] /\ ~IsPlaceholder(tuple[c])
      BY <1>5, <2>2 DEF IsPlaceholder
    <3> QED
      BY <3>1
  <2> QED
    BY <2>1, <2>2
<1>9. row = [c \in DOMAIN row |-> row[c]]
  <2>1. row \in Seq(Column)
    BY EngineAssumption
  <2> QED
    BY <2>1, LenProperties
<1>10. row = [c \in DOMAIN tuple |->
                IF IsPlaceholder(tuple[c])
                THEN [type |-> "VarChar", data |-> ReadOverflow(tuple[c].pointer)']
                ELSE tuple[c]]
  BY <1>5, <1>8, <1>9
<1>11. TupleAt(<<p, s>>)' = tuple
  BY <1>3 DEF TupleAt
<1>12. Resolved(tuple)' = row
  BY <1>10 DEF Resolved, IsPlaceholder
<1>13. Resolved(TupleAt(<<p, s>>))' = Resolved(tuple)'
  BY <1>11 DEF Resolved, IsPlaceholder
<1> QED
  BY <1>12, <1>13

(* All rows of the engine: what its tables are mapped to. *)
AllRows == UNION {RowsOf(t) : t \in Existing}

(* The actions of the table store, said with AllRows. *)
LEMMA StoreStutters ==
    ASSUME Existing' = Existing, AllRows' = AllRows
    PROVE  UNCHANGED Store!vars
BY DEF Store!vars, AllRows, RowsOf, RowOf

(* create_table. *)
LEMMA StoreCreates ==
    ASSUME NEW t \in TableNames \ Existing, Existing' = Existing \cup {t},
           AllRows' = AllRows
    PROVE  Store!CreateTable
BY DEF Store!CreateTable, AllRows, RowsOf, RowOf

(* drop_table. *)
LEMMA StoreDrops ==
    ASSUME NEW t \in Existing, Existing' = Existing \ {t},
           AllRows' = {r \in AllRows : r.table # t}
    PROVE  Store!DropTable
BY DEF Store!DropTable, AllRows, RowsOf, RowOf

(* An insertion, under an id that no row has. *)
LEMMA StoreInserts ==
    ASSUME NEW new, new \in AllRows', new \notin AllRows,
           AllRows' = AllRows \cup {new}, Existing' = Existing,
           new.table \in Existing, new.row \in Rows, \A r \in AllRows : r.id # new.id
    PROVE  Store!Insert
BY DEF Store!Insert, AllRows, RowsOf, RowOf

(* A deletion. *)
LEMMA StoreDeletes ==
    ASSUME NEW old, old \in AllRows, old \notin AllRows', AllRows' = AllRows \ {old},
           Existing' = Existing
    PROVE  Store!Delete
BY DEF Store!Delete, AllRows, RowsOf, RowOf

(* The id of a row is the place of its tuple, and no two rows have the same. *)
LEMMA RowIds ==
    ASSUME EngineInv
    PROVE  /\ \A t \in Existing : \A r \in RowsOf(t) :
                /\ r.table = t /\ r.id \in Tuples(t) /\ r = RowOf(t, r.id)
           /\ \A r, q \in AllRows : r.id = q.id => r = q
<1>1. ASSUME NEW t \in Existing, NEW r \in RowsOf(t)
      PROVE  r.table = t /\ r.id \in Tuples(t) /\ r = RowOf(t, r.id)
  <2>1. PICK id \in Tuples(t) : r = RowOf(t, id)
    BY DEF RowsOf
  <2>2. r.table = t /\ r.id = id
    BY <2>1 DEF RowOf
  <2> QED
    BY <2>1, <2>2
<1>2. ASSUME NEW r \in AllRows, NEW q \in AllRows, r.id = q.id PROVE r = q
  <2>1. PICK t \in Existing : r \in RowsOf(t)
    BY DEF AllRows
  <2>2. PICK u \in Existing : q \in RowsOf(u)
    BY DEF AllRows
  <2>3. r.id \in Tuples(t) /\ q.id \in Tuples(u)
    BY <1>1, <2>1, <2>2
  <2>4. PICK p, s : r.id = <<p, s>> /\ p \in TablePages(t) /\ p \in TablePages(u)
    <3>1. PICK p \in TablePages(t) : r.id \in {<<p, s>> : s \in LiveSlots(page[p])}
      BY <2>3 DEF Tuples
    <3>2. PICK p2 \in TablePages(u) : r.id \in {<<p2, s>> : s \in LiveSlots(page[p2])}
      BY <1>2, <2>3 DEF Tuples
    <3>3. PICK s : r.id = <<p, s>>
      BY <3>1
    <3>4. PICK s2 : r.id = <<p2, s2>>
      BY <3>2
    <3>5. p = p2
      BY <3>3, <3>4
    <3> QED
      BY <3>3, <3>5
  <2>5. t = u
    BY <2>4, TablesApart
  <2> QED
    BY <1>1, <1>2, <2>1, <2>2, <2>5
<1> QED
  BY <1>1, <1>2

(* What does not change a row is no step of the store. *)
LEMMA RowsStayStutters ==
    ASSUME RowsStay
    PROVE  UNCHANGED Store!vars
<1>1. Existing' = Existing /\ \A t \in Existing : RowsOf(t)' = RowsOf(t)
  BY DEF RowsStay
<1>2. AllRows' = AllRows
  BY <1>1 DEF AllRows
<1> QED
  BY <1>1, <1>2, StoreStutters

(* A row that is stored is inserted, under an id no row has. *)
LEMMA StoredInserts ==
    ASSUME SpillsText, EngineInv, NEW t \in Existing, NEW row \in Rows,
           NEW ps, NEW p, NEW s, Stored(t, row, ps, p, s)
    PROVE  Store!Insert
<1>1. PICK new : new = RowOf(t, <<p, s>>)'
  OBVIOUS
<1>2. /\ EngineInv' /\ Existing' = Existing
      /\ RowsOf(t)' = RowsOf(t) \cup {new}
      /\ \A u \in Existing : <<p, s>> \notin Tuples(u)
      /\ \A u \in Existing \ {t} : RowsOf(u)' = RowsOf(u)
  BY <1>1, StoredRows
<1>3. new.table = t /\ new.id = <<p, s>> /\ new.row = row
  <2>1. Resolved(TupleAt(<<p, s>>))' = row
    BY <1>2, RowRead
  <2> QED
    BY <1>1, <2>1 DEF RowOf
<1>4. AllRows' = AllRows \cup {new}
  BY <1>2 DEF AllRows
<1>5. ASSUME NEW r \in AllRows PROVE r.id # new.id
  <2>1. PICK u \in Existing : r \in RowsOf(u)
    BY DEF AllRows
  <2>2. r.id \in Tuples(u)
    BY <2>1, RowIds
  <2> QED
    BY <1>2, <1>3, <2>2
<1>6. new \notin AllRows /\ new \in AllRows'
  BY <1>4, <1>5
<1> QED
  BY <1>2, <1>3, <1>4, <1>5, <1>6, StoreInserts

(* A tuple of a table that is deleted takes one row away, any other none. *)
LEMMA DeleteDeletes ==
    ASSUME EngineInv, NEW t \in Existing, NEW p \in live, NEW s, HasTuple(p, s),
           Delete(t, p, s)
    PROVE  Store!Delete \/ UNCHANGED Store!vars
<1>1. PICK id : id = <<p, s>>
  OBVIOUS
<1>2. /\ Existing' = Existing
      /\ \A u \in Existing : RowsOf(u)' = {r \in RowsOf(u) : r.id # id}
  BY <1>1, DeleteRows
<1>3. AllRows' = {r \in AllRows : r.id # id}
  BY <1>2 DEF AllRows
<1>4. CASE \E old \in AllRows : old.id = id
  <2>1. PICK old \in AllRows : old.id = id
    BY <1>4
  <2>2. \A r \in AllRows : r.id = id => r = old
    BY <2>1, RowIds
  <2>3. AllRows' = AllRows \ {old} /\ old \notin AllRows'
    BY <1>3, <2>1, <2>2
  <2> QED
    BY <1>2, <2>1, <2>3, StoreDeletes
<1>5. CASE ~ \E old \in AllRows : old.id = id
  <2>1. AllRows' = AllRows
    BY <1>3, <1>5
  <2> QED
    BY <1>2, <2>1, StoreStutters
<1> QED
  BY <1>4, <1>5

(* The ways an insertion ends: one row more, or none. *)
LEMMA InsertInserts ==
    ASSUME SpillsText, EngineInv, NEW t \in Existing, NEW row \in Rows, Insert(t, row)
    PROVE  Store!Insert \/ UNCHANGED Store!vars
<1>1. CASE \E ps, p, s : Stored(t, row, ps, p, s)
  BY <1>1, StoredInserts
<1>2. CASE \E ps, p : Abandoned(t, ps, p, TRUE) \/ Abandoned(t, ps, p, FALSE)
  BY <1>2, AbandonedRows, RowsStayStutters
<1>3. CASE InsertHere(t, row)
  BY <1>1, <1>3, InsertHereStores
<1>4. CASE InsertOnNewPage(t, row)
  BY <1>1, <1>2, <1>4, InsertOnNewPageStores
<1>5. CASE InsertFindsNoFrame(t, row)
  BY <1>5, WastePageRows, RowsStayStutters DEF InsertFindsNoFrame
<1>6. CASE InsertFindsNoPage(t, row)
  BY <1>6, InsertFindsNoPageRows, RowsStayStutters
<1> QED
  BY <1>3, <1>4, <1>5, <1>6 DEF Insert

(* Creating a table. *)
LEMMA CreateCreates ==
    ASSUME EngineInv, NEW t \in TableNames \ Existing, CreateTable(t)
    PROVE  Store!CreateTable
<1>1. /\ Existing' = Existing \cup {t} /\ Tuples(t)' = {}
      /\ \A u \in Existing : RowsOf(u)' = RowsOf(u)
  BY CreateTableRows
<1>2. RowsOf(t)' = {}
  BY <1>1 DEF RowsOf
<1>3. AllRows' = AllRows
  BY <1>1, <1>2 DEF AllRows
<1> QED
  BY <1>1, <1>3, StoreCreates

(* Dropping one takes its rows away. *)
LEMMA DropDrops ==
    ASSUME EngineInv, NEW t \in Existing, DropTable(t)
    PROVE  Store!DropTable
<1>1. /\ Existing' = Existing \ {t}
      /\ \A u \in Existing \ {t} : RowsOf(u)' = RowsOf(u)
  BY DropTableRows
<1>2. \A u \in Existing : \A r \in RowsOf(u) : r.table = u
  BY RowIds
<1>3. AllRows' = {r \in AllRows : r.table # t}
  BY <1>1, <1>2 DEF AllRows
<1> QED
  BY <1>1, <1>3, StoreDrops

(* Every step of the engine is one of the table store, or leaves it alone. *)
LEMMA StoreStep ==
    SpillsText /\ EngineInv /\ [NextInUse]_vars => [Store!Next]_Store!vars
<1> SUFFICES ASSUME SpillsText, EngineInv, [NextInUse]_vars
             PROVE  Store!Next \/ UNCHANGED Store!vars
  OBVIOUS
<1>1. CASE UNCHANGED vars
  <2>1. UNCHANGED <<live, page, pins, tables>>
    BY <1>1 DEF vars
  <2>2. RowsStay
    BY <2>1 DEF RowsStay, Existing, Tuples, TablePages, TableChain, Chain, ChainFrom,
                Links, RowsOf, RowOf, TupleAt, Resolved, ReadOverflow, IsPlaceholder
  <2> QED
    BY <2>2, RowsStayStutters
<1>2. ASSUME NEW t \in TableNames \ Existing, CreateTable(t)
      PROVE  Store!Next
  BY <1>2, CreateCreates DEF Store!Next
<1>3. ASSUME CreateTableFails PROVE UNCHANGED Store!vars
  BY <1>3, WastePageRows, RowsStayStutters DEF CreateTableFails
<1>4. ASSUME NEW t \in Existing, DropTable(t) PROVE Store!Next
  BY <1>4, DropDrops DEF Store!Next
<1>5. ASSUME NEW t \in Existing, NEW row \in Rows, Insert(t, row)
      PROVE  Store!Next \/ UNCHANGED Store!vars
  BY <1>5, InsertInserts DEF Store!Next
<1>6. ASSUME NEW p \in live, GetNothing(p) PROVE UNCHANGED Store!vars
  BY <1>6, GetNothingRows, RowsStayStutters
<1>7. ASSUME NEW t \in Existing, NEW p \in live, NEW s, HasTuple(p, s), Delete(t, p, s)
      PROVE  Store!Next \/ UNCHANGED Store!vars
  BY <1>7, DeleteDeletes DEF Store!Next
<1>8. ASSUME NEW t \in Existing, NEW p \in TablePages(t), NEW s \in LiveSlots(page[p]),
             Delete(t, p, s)
      PROVE  Store!Next \/ UNCHANGED Store!vars
  <2>1. p \in live /\ HasTuple(p, s)
    BY <1>8, TablePagesSound DEF HasTuple
  <2> QED
    BY <1>7, <1>8, <2>1
<1>9. CASE \E t \in TableNames \ Existing : CreateTable(t) \/ CreateTableFails
  BY <1>2, <1>3, <1>9
<1>10. CASE \E t \in Existing :
              \/ DropTable(t)
              \/ \E row \in Rows : Insert(t, row)
              \/ \E p \in TablePages(t) :
                  \/ GetNothing(p)
                  \/ \E s \in LiveSlots(page[p]) : Delete(t, p, s)
  BY <1>4, <1>5, <1>6, <1>8, <1>10, TablePagesSound
<1>11. CASE \E t \in Existing : \E p \in live \ TablePages(t) :
              \/ GetNothing(p)
              \/ /\ IsDataPage(p)
                 /\ \E s \in LiveSlots(page[p]) : Delete(t, p, s)
  BY <1>6, <1>7, <1>11 DEF HasTuple
<1> QED
  BY <1>1, <1>9, <1>10, <1>11 DEF Next, NextInUse

(***************************************************************************)
(* The engine implements the table store, if only text is spilled: rows    *)
(* are read back as they were inserted until they are deleted, and a call  *)
(* that fails half-way changes no row of any table. It does so for callers *)
(* that use any row id on a page in use, also of another table, or on a    *)
(* page a dropped table left allocated. Ids on freed pages are excluded:   *)
(* with them it can fail.                                                  *)
(***************************************************************************)
THEOREM EngineKeepsRows ==
    ASSUME SpillsText
    PROVE  SpecInUse => ImplementsTableStore
<1>1. Init => Store!Init
  BY DEF Init, Store!Init, Existing
<1>2. EngineInv /\ [NextInUse]_vars => [Store!Next]_Store!vars
  BY StoreStep
<1> QED
  BY <1>1, <1>2, PagesOwned, PTL DEF SpecInUse, ImplementsTableStore, Store!Spec

(* Only rows that users pick are read back. *)
RowsPicked == \A r \in AllRows : r.row \in Rows

(* Steps of the store bring no other rows. *)
LEMMA PickedRowsStay ==
    RowsPicked /\ [Store!Next]_Store!vars => RowsPicked'
<1> SUFFICES ASSUME RowsPicked, Store!Next \/ UNCHANGED Store!vars
             PROVE  RowsPicked'
  OBVIOUS
<1>1. CASE AllRows' \subseteq AllRows
  BY <1>1 DEF RowsPicked
<1>2. CASE Store!Insert
  <2>1. PICK new \in AllRows' : AllRows' = AllRows \cup {new} /\ new.row \in Rows
    BY <1>2 DEF Store!Insert, AllRows, RowsOf, RowOf
  <2> QED
    BY <2>1 DEF RowsPicked
<1>3. CASE Store!CreateTable
  BY <1>1, <1>3 DEF Store!CreateTable, AllRows, RowsOf, RowOf
<1>4. CASE Store!DropTable
  BY <1>1, <1>4 DEF Store!DropTable, AllRows, RowsOf, RowOf
<1>5. CASE Store!Delete
  BY <1>1, <1>5 DEF Store!Delete, AllRows, RowsOf, RowOf
<1>6. CASE UNCHANGED Store!vars
  BY <1>1, <1>6 DEF Store!vars, AllRows, RowsOf, RowOf
<1> QED
  BY <1>2, <1>3, <1>4, <1>5, <1>6 DEF Store!Next

(***************************************************************************)
(* "Resolve overflow pointers" (get), as far as it is true: if only text   *)
(* is spilled and row ids name pages in use, the row a user gets holds the *)
(* data of each column and never the pointer to it.                        *)
(***************************************************************************)
THEOREM TextPointersResolved ==
    ASSUME SpillsText
    PROVE  SpecInUse => []PointersResolved
<1>1. Store!Init => RowsPicked
  BY DEF Store!Init, RowsPicked, AllRows, RowsOf, RowOf
<1>2. RowsPicked /\ [Store!Next]_Store!vars => RowsPicked'
  BY PickedRowsStay
<1>3. RowsPicked => PointersResolved
  <2> SUFFICES ASSUME RowsPicked, NEW t \in Existing, NEW id \in Tuples(t),
                      NEW c \in DOMAIN TupleAt(id)
               PROVE  "data" \in DOMAIN Resolved(TupleAt(id))[c]
    BY DEF PointersResolved
  <2>1. PICK row : row = Resolved(TupleAt(id))
    OBVIOUS
  <2>2. row \in Rows
    <3>1. RowOf(t, id) \in AllRows /\ RowOf(t, id).row = row
      BY <2>1 DEF AllRows, RowsOf, RowOf
    <3> QED
      BY <3>1 DEF RowsPicked
  <2>3. c \in DOMAIN row
    BY <2>1 DEF Resolved
  <2>4. row[c] \in Column
    BY <2>2, <2>3, SpilledColumn
  <2> QED
    BY <2>1, <2>4 DEF Column
<1> QED
  BY <1>1, <1>2, <1>3, EngineKeepsRows, PTL DEF ImplementsTableStore, Store!Spec

-----------------------------------------------------------------------------

(***************************************************************************)
(* A store as a record, for a module that keeps one: what EngineInv says   *)
(* of it in terms of paths, without the keys and the owners.               *)
(***************************************************************************)
PinnedIn(f) == {p \in Pages : f.pins[p] > 0}

FullIn(f) == Cardinality(PinnedIn(f)) >= PoolSize

ReachedIn(f, p) == p \in PinnedIn(f) \/ ~FullIn(f)

HasSlots(f, p) == "slots" \in DOMAIN f.page[p]

TupleIn(f, p, s) == f.page[p].slots[s]

HasTupleIn(f, p, s) == HasSlots(f, p) /\ s \in LiveSlots(f.page[p])

PointerIn(f, p, s, c) ==
    /\ HasTupleIn(f, p, s)
    /\ c \in DOMAIN TupleIn(f, p, s) /\ "pointer" \in DOMAIN TupleIn(f, p, s)[c]

PathIn(f, c, h) ==
    /\ c \in Seq(f.live) /\ Len(c) \in Nat \ {0} /\ c[1] = h
    /\ \A i \in 1 .. Len(c) : c[i] \in f.live
    /\ \A i \in 1 .. Len(c) - 1 : c[i + 1] = f.page[c[i]].next
    /\ f.page[c[Len(c)]].next = NoPage
    /\ \A i, j \in 1 .. Len(c) : c[i] = c[j] => i = j

(* The pages of a table, and those of a pointer. *)
TablePath(f, t, c) ==
    /\ f.tables[t] # Absent /\ PathIn(f, c, f.tables[t].first)
    /\ \A i \in 1 .. Len(c) : HasSlots(f, c[i])

PointerPath(f, d, h) ==
    /\ PathIn(f, d, h)
    /\ \A i \in 1 .. Len(d) : ~HasSlots(f, d[i])

StoreShape(f) ==
    /\ f.live \subseteq Pages
    /\ f.page \in [f.live -> SoundPages]
    /\ f.pins \in [Pages -> 0 .. MaxPins]
    /\ PinnedIn(f) \subseteq f.live
    /\ f.tables \in [TableNames -> TableRecords \cup {Absent}]

StorePaths(f) ==
    /\ \A t \in TableNames : f.tables[t] # Absent => \E c : TablePath(f, t, c)
    /\ \A p \in f.live : \A s, c :
        PointerIn(f, p, s, c) => \E d : PointerPath(f, d, TupleIn(f, p, s)[c].pointer)

(* Two pointers of a tuple lead to different pages. *)
StoreApart(f) ==
    \A p \in f.live : \A s, c, c2 : \A d, d2 :
        /\ PointerIn(f, p, s, c) /\ PathIn(f, d, TupleIn(f, p, s)[c].pointer)
        /\ PointerIn(f, p, s, c2) /\ PathIn(f, d2, TupleIn(f, p, s)[c2].pointer)
        /\ c # c2
        => ToSet(d) \cap ToSet(d2) = {}

StoreSound(f) == StoreShape(f) /\ StorePaths(f) /\ StoreApart(f)

(* The chain of a key as a path of the record. *)
LEMMA PathOfKey ==
    ASSUME EngineInv, NEW f, f.live = live, f.page = page,
           NEW k \in Keys, NEW c, c = Chain(Heads[k])
    PROVE  PathIn(f, c, Heads[k]) /\ \A d : PathIn(f, d, Heads[k]) => d = c
<1>1. PICK D, owner, place : Owns(D, owner, place)
  BY DEF EngineInv, ChainsOwned
<1>2. Shape
  BY DEF EngineInv
<1>3. IsInjective(c) /\ DOMAIN c = 1 .. Len(c) /\ \A i \in 1 .. Len(c) : c[i] \in live
  BY <1>1, <1>2, ChainOfKey
<1>4. IsPath(c, Heads[k]) /\ \A d : IsPath(d, Heads[k]) => d = c
  BY ChainIsPath
<1>5. PathIn(f, c, Heads[k])
  BY <1>3, <1>4 DEF IsPath, PathIn, IsInjective
<1>6. ASSUME NEW d, PathIn(f, d, Heads[k]) PROVE d = c
  <2>1. IsPath(d, Heads[k])
    BY <1>6 DEF PathIn, IsPath
  <2> QED
    BY <1>4, <2>1
<1> QED
  BY <1>5, <1>6

(* What the invariant says of the store. *)
LEMMA StoreIsSound ==
    ASSUME EngineInv, NEW f,
           f = [live |-> live, page |-> page, pins |-> pins, tables |-> tables]
    PROVE  StoreSound(f)
<1>1. f.live = live /\ f.page = page /\ f.pins = pins /\ f.tables = tables
  OBVIOUS
<1>2. Shape
  BY DEF EngineInv
<1>3. PinnedIn(f) = Pinned
  BY <1>1 DEF PinnedIn, Pinned
<1>4. StoreShape(f)
  BY <1>1, <1>2, <1>3 DEF StoreShape, Shape
<1>5. PICK D, owner, place : Owns(D, owner, place)
  BY DEF EngineInv, ChainsOwned
<1>6. ASSUME NEW t \in TableNames, f.tables[t] # Absent
      PROVE  \E c : TablePath(f, t, c)
  <2>1. t \in Existing
    BY <1>1, <1>6 DEF Existing
  <2>2. PICK c : c = TableChain(t)
    OBVIOUS
  <2>3. PICK k \in Keys : k = TableKey(t) /\ Heads[k] = tables[t].first
    BY <1>2, <2>1, KeyKinds
  <2>4. c = Chain(Heads[k]) /\ \A i \in 1 .. Len(c) : IsDataPage(c[i])
    BY <1>2, <1>5, <2>1, <2>2, <2>3, ChainOfTable
  <2>5. PathIn(f, c, Heads[k])
    BY <1>1, <2>3, <2>4, PathOfKey
  <2>6. \A i \in 1 .. Len(c) : HasSlots(f, c[i])
    BY <1>1, <2>4 DEF IsDataPage, HasSlots
  <2> QED
    BY <1>1, <1>6, <2>3, <2>5, <2>6 DEF TablePath
<1>7. ASSUME NEW p \in live, NEW s, NEW c, PointerIn(f, p, s, c)
      PROVE  PointerAt(p, s, c) /\ TupleIn(f, p, s)[c] = page[p].slots[s][c]
  BY <1>1, <1>7 DEF PointerIn, HasTupleIn, HasSlots, TupleIn, PointerAt, HasTuple, IsDataPage
<1>8. ASSUME NEW p \in live, NEW s, NEW c, PointerIn(f, p, s, c)
      PROVE  \E d : PointerPath(f, d, TupleIn(f, p, s)[c].pointer)
  <2>1. PointerAt(p, s, c) /\ TupleIn(f, p, s)[c] = page[p].slots[s][c]
    BY <1>7, <1>8
  <2>2. PICK k \in Keys : k = PointerKey(p, s, c) /\ Heads[k] = page[p].slots[s][c].pointer
    BY <1>2, <2>1, KeyKinds
  <2>3. PICK d : d = Chain(Heads[k])
    OBVIOUS
  <2>4. PathIn(f, d, Heads[k])
    BY <1>1, <2>3, PathOfKey
  <2>5. \A i \in 1 .. Len(d) : d[i] \in D /\ owner[d[i]] = k
    BY <1>2, <1>5, <2>3, ChainOfKey
  <2>6. k.kind # "table"
    BY <2>2 DEF PointerKey
  <2>7. \A i \in 1 .. Len(d) : ~HasSlots(f, d[i])
    BY <1>1, <1>5, <2>5, <2>6 DEF Owns, IsDataPage, HasSlots
  <2> QED
    BY <2>1, <2>2, <2>4, <2>7 DEF PointerPath
<1>9. ASSUME NEW p \in live, NEW s, NEW c, NEW c2, NEW d, NEW d2, c # c2,
             PointerIn(f, p, s, c), PathIn(f, d, TupleIn(f, p, s)[c].pointer),
             PointerIn(f, p, s, c2), PathIn(f, d2, TupleIn(f, p, s)[c2].pointer)
      PROVE  ToSet(d) \cap ToSet(d2) = {}
  <2>1. PointerAt(p, s, c) /\ PathIn(f, d, page[p].slots[s][c].pointer)
    BY <1>7, <1>9
  <2>2. PointerAt(p, s, c2) /\ PathIn(f, d2, page[p].slots[s][c2].pointer)
    BY <1>7, <1>9
  <2>3. ASSUME NEW x, NEW e, PointerAt(p, s, x), PathIn(f, e, page[p].slots[s][x].pointer)
        PROVE  e = Chain(page[p].slots[s][x].pointer)
    <3>1. PICK k \in Keys : Heads[k] = page[p].slots[s][x].pointer
      BY <1>2, <2>3, KeyKinds
    <3> QED
      BY <1>1, <2>3, <3>1, PathOfKey
  <2>4. d = Chain(page[p].slots[s][c].pointer) /\ d2 = Chain(page[p].slots[s][c2].pointer)
    BY <2>1, <2>2, <2>3
  <2>5. <<p, s, c>> # <<p, s, c2>>
    BY <1>9
  <2> QED
    BY <2>1, <2>2, <2>4, <2>5, PointersApart
<1>10. StorePaths(f)
  BY <1>1, <1>6, <1>8 DEF StorePaths
<1>11. StoreApart(f)
  BY <1>1, <1>9 DEF StoreApart
<1> QED
  BY <1>4, <1>10, <1>11 DEF StoreSound

=============================================================================
