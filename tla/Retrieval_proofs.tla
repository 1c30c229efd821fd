--------------------------- MODULE Retrieval_proofs ---------------------------
(***************************************************************************)
(* That a semantic search returns the best of what was found, for any      *)
(* chunks, sections, scores and limits: RankInv says what each pass over   *)
(* the hits has achieved, and the properties follow from it.  Before it    *)
(* come the lemmas about sorting, selecting and counting that the passes   *)
(* rest on, and after it that the concurrent lookups of photos do not take *)
(* from one another.                                                       *)
(***************************************************************************)
EXTENDS Retrieval, FiniteSetTheorems, TLAPS

(***************************************************************************)
(* Sorting and selecting.                                                  *)
(***************************************************************************)

\* R orders S: what Ranked asks of an order.
TotalOrder(S, R) ==
  /\ \A x \in S : <<x, x>> \notin R
  /\ \A x, y \in S : x = y \/ <<x, y>> \in R \/ <<y, x>> \in R
  /\ \A x, y, z \in S : <<x, y>> \in R /\ <<y, z>> \in R => <<x, z>> \in R

\* r is the sequence of all elements of S in the order R.
Enumerates(r, S, R) ==
  /\ r \in [1..Cardinality(S) -> S]
  /\ \A x \in S : \E k \in 1..Cardinality(S) : r[k] = x
  /\ \A k, l \in 1..Cardinality(S) : k < l => <<r[k], r[l]>> \in R

\* A finite set has a size.
LEMMA SizeIsNat == ASSUME NEW S, IsFiniteSet(S) PROVE Cardinality(S) \in Nat
BY FS_CardinalityType

\* Ranked is what a sort returns: every element once, in the order given.
LEMMA RankedEnumerates ==
  ASSUME NEW S, IsFiniteSet(S), NEW R, TotalOrder(S, R)
  PROVE  Enumerates(Ranked(S, R), S, R)
<1> DEFINE Down(x) == {y \in S : y = x \/ <<y, x>> \in R}
           N == Cardinality(S)
           place == [x \in S |-> Cardinality(Down(x))]
<1>1. N \in Nat
  BY SizeIsNat
<1>2. ASSUME NEW x \in S
      PROVE  IsFiniteSet(Down(x)) /\ place[x] \in 1..N
  <2>1. IsFiniteSet(Down(x)) /\ Cardinality(Down(x)) <= N
    BY FS_Subset
  <2>2. Down(x) # {}
    OBVIOUS
  <2>3. Cardinality(Down(x)) \in Nat /\ Cardinality(Down(x)) # 0
    BY <2>1, <2>2, FS_EmptySet, SizeIsNat
  <2> QED BY <2>1, <2>3, <1>1
<1>3. ASSUME NEW x \in S, NEW y \in S, <<x, y>> \in R
      PROVE  place[x] < place[y]
  <2>1. Down(x) \subseteq Down(y) /\ y \notin Down(x) /\ y \in Down(y)
    BY <1>3 DEF TotalOrder
  <2>2. IsFiniteSet(Down(y)) /\ place[x] \in Nat /\ place[y] \in Nat
    BY <1>2, <1>1
  <2> HIDE DEF Down
  <2>3. Cardinality(Down(x)) <= Cardinality(Down(y)) /\ Cardinality(Down(x)) # Cardinality(Down(y))
    BY <2>1, <2>2, FS_Subset
  <2> QED BY <2>2, <2>3
<1> HIDE DEF Down
<1>a. \A x \in S : place[x] \in 1..N
  BY <1>2
<1>b. \A x, y \in S : <<x, y>> \in R => place[x] < place[y]
  BY <1>3
<1>c. DOMAIN place = S
  OBVIOUS
<1>4. place \in Injection(S, 1..N)
  <2>1. place \in [S -> 1..N]
    BY <1>a
  <2> HIDE DEF place, N
  <2>2. ASSUME NEW x \in S, NEW y \in S, place[x] = place[y]
        PROVE  x = y
    <3>1. <<x, y>> \notin R /\ <<y, x>> \notin R
      BY <1>1, <1>a, <1>b, <2>2
    <3> QED BY <3>1 DEF TotalOrder
  <2> QED BY <2>1, <2>2, <1>c DEF Injection, IsInjective
<1>5. IsFiniteSet(1..N) /\ Cardinality(1..N) = N
  BY <1>1, FS_Interval
<1>6. place \in Surjection(S, 1..N)
  BY <1>4, <1>5, FS_Injection
<1>7. \A k \in 1..N : \E x \in S : place[x] = k
  BY <1>6 DEF Surjection
<1> DEFINE q == [k \in 1..N |-> CHOOSE x \in S : place[x] = k]
<1>8. Ranked(S, R) = q
  BY DEF Ranked, Down
<1>9. \A k \in 1..N : q[k] \in S /\ place[q[k]] = k
  BY <1>7
<1>10. \A x, y \in S : place[x] = place[y] => x = y
  BY <1>4 DEF Injection, IsInjective
<1>11. \A x \in S : place[x] \in 1..N
  BY <1>2
<1> HIDE DEF place
<1>12. q \in [1..N -> S]
  BY <1>9
<1>13. \A x \in S : q[place[x]] = x
  BY <1>9, <1>10, <1>11
<1> HIDE DEF q
<1>14. ASSUME NEW k \in 1..N, NEW l \in 1..N, k < l
       PROVE  <<q[k], q[l]>> \in R
  <2>1. q[k] # q[l]
    BY <1>9, <1>14
  <2>2. <<q[l], q[k]>> \notin R
    BY <1>9, <1>3, <1>14
  <2> QED BY <2>1, <2>2, <1>9 DEF TotalOrder
<1> QED BY <1>8, <1>11, <1>12, <1>13, <1>14 DEF Enumerates

\* The order of the places themselves.
LEMMA AsTheyAreIsOrder ==
  ASSUME NEW I, I \subseteq Int PROVE TotalOrder(I, AsTheyAre(I))
BY DEF TotalOrder, AsTheyAre

\* Sorting by a key, equal keys left as they are, is sorting by a total order.
LEMMA ByKeyIsOrder ==
  ASSUME NEW I, I \subseteq Int, NEW key \in [I -> Int] PROVE TotalOrder(I, ByKey(I, key))
BY DEF TotalOrder, ByKey

\* A sequence is one of its own elements.
IsSequence(s) == s \in Seq(Range(s))

\* A function on 1..n is a sequence.
LEMMA SequenceOf ==
  ASSUME NEW n \in Nat, NEW s, s = [k \in 1..n |-> s[k]]
  PROVE  IsSequence(s) /\ Len(s) = n /\ DOMAIN s = 1..n
<1>1. DOMAIN s = 1..n
  OBVIOUS
<1>2. s \in [1..n -> Range(s)]
  BY <1>1 DEF Range
<1> QED BY <1>1, <1>2 DEF IsSequence

\* q is the sequence of the n elements of s at the places in r.
Lists(q, n, s, r) ==
  /\ IsSequence(q) /\ Len(q) = n /\ DOMAIN q = 1..n
  /\ \A k \in 1..n : q[k] = s[r[k]]

\* Arranged lists the elements of s at the places I, in the order R of those places.
LEMMA ArrangedIs ==
  ASSUME NEW s, NEW I, IsFiniteSet(I), NEW R, TotalOrder(I, R)
  PROVE  Lists(Arranged(s, I, R), Cardinality(I), s, Ranked(I, R))
<1> DEFINE q == Arranged(s, I, R)
           n == Cardinality(I)
           r == Ranked(I, R)
<1>1. DOMAIN r = 1..n
  BY RankedEnumerates DEF Enumerates
<1>2. q = [k \in 1..n |-> s[r[k]]]
  BY <1>1 DEF Arranged
<1>3. n \in Nat
  BY SizeIsNat
<1> HIDE DEF r, n
<1>4. DOMAIN q = 1..n /\ \A k \in 1..n : q[k] = s[r[k]]
  BY <1>2
<1>5. q = [k \in 1..n |-> q[k]]
  BY <1>2
<1> HIDE DEF q
<1>6. IsSequence(q) /\ Len(q) = n
  BY <1>3, <1>5, SequenceOf
<1>7. Lists(q, n, s, r)
  BY <1>4, <1>6 DEF Lists
<1> QED BY <1>7 DEF q, n, r

\* The places I in their order.
Places(I) == Ranked(I, AsTheyAre(I))

\* r is the sequence of the integers of I, the least first.
Ascends(r, I) ==
  /\ r \in [1..Cardinality(I) -> I]
  /\ \A i \in I : \E k \in 1..Cardinality(I) : r[k] = i
  /\ \A k, l \in 1..Cardinality(I) : k < l <=> r[k] < r[l]

\* The places of a finite set of integers ascend.
LEMMA PlacesInOrder ==
  ASSUME NEW I, I \subseteq Int, IsFiniteSet(I)
  PROVE  Ascends(Places(I), I)
<1> DEFINE R == AsTheyAre(I)
           N == Cardinality(I)
           r == Places(I)
<1>1. TotalOrder(I, R)
  BY AsTheyAreIsOrder
<1>2. \A i, j : <<i, j>> \in R <=> i \in I /\ j \in I /\ i < j
  BY DEF AsTheyAre
<1>3. N \in Nat
  BY SizeIsNat
<1>4. Enumerates(r, I, R)
  BY <1>1, RankedEnumerates DEF Places
<1> HIDE DEF R, r
<1>5. /\ r \in [1..N -> I]
      /\ \A i \in I : \E k \in 1..N : r[k] = i
      /\ \A k, l \in 1..N : k < l => <<r[k], r[l]>> \in R
  BY <1>4 DEF Enumerates
<1> HIDE DEF N
<1>6. ASSUME NEW k \in 1..N, NEW l \in 1..N, k < l
      PROVE  r[k] < r[l]
  <2>1. <<r[k], r[l]>> \in R
    BY <1>5, <1>6
  <2> QED BY <2>1, <1>2
<1>7. ASSUME NEW k \in 1..N, NEW l \in 1..N
      PROVE  k < l <=> r[k] < r[l]
  <2>0. r[k] \in I /\ r[l] \in I
    BY <1>5
  <2>a. r[k] \in Int /\ r[l] \in Int
    BY <2>0
  <2>1. r[k] \in Int /\ r[l] \in Int /\ k \in Int /\ l \in Int
    BY <2>a, <1>3
  <2>2. k < l => r[k] < r[l]
    BY <1>6
  <2>3. l < k => r[l] < r[k]
    BY <1>6
  <2>4. CASE k < l
    BY <2>1, <2>2, <2>4
  <2>5. CASE l < k
    BY <2>1, <2>3, <2>5
  <2>6. CASE k = l
    BY <2>1, <2>6
  <2> QED BY <2>1, <2>4, <2>5, <2>6
<1> QED BY <1>5, <1>7 DEF N, r, Ascends

\* Picked lists the elements of s at the places I, as they stand in s.
LEMMA PickedIs ==
  ASSUME NEW s, NEW I, I \subseteq Int, IsFiniteSet(I)
  PROVE  Lists(Picked(s, I), Cardinality(I), s, Places(I))
<1>1. TotalOrder(I, AsTheyAre(I))
  BY AsTheyAreIsOrder
<1> QED BY <1>1, ArrangedIs DEF Picked, Places

(***************************************************************************)
(* Counting, and induction.                                                *)
(***************************************************************************)

\* f pairs the elements of D with those of T.
LEMMA SameSize ==
  ASSUME NEW D, IsFiniteSet(D), NEW T, NEW f,
         \A x \in D : f[x] \in T,
         \A t \in T : \E x \in D : f[x] = t,
         \A x, y \in D : f[x] = f[y] => x = y
  PROVE  IsFiniteSet(T) /\ Cardinality(T) = Cardinality(D)
<1> DEFINE g == [x \in D |-> f[x]]
<1>1. g \in [D -> T]
  OBVIOUS
<1>2. \A t \in T : \E x \in D : g[x] = t
  OBVIOUS
<1>3. \A x, y \in D : g[x] = g[y] => x = y
  OBVIOUS
<1>4. DOMAIN g = D
  OBVIOUS
<1> HIDE DEF g
<1>5. g \in Bijection(D, T)
  BY <1>1, <1>2, <1>3, <1>4 DEF Bijection, Injection, IsInjective, Surjection
<1>6. ExistsBijection(D, T)
  BY <1>5 DEF ExistsBijection
<1> QED BY <1>6, FS_Bijection

\* The size of 1..n.
LEMMA UpTo ==
  ASSUME NEW n \in Nat PROVE IsFiniteSet(1..n) /\ Cardinality(1..n) = n
BY FS_Interval

\* What a concatenation has at each place.
LEMMA Joined ==
  ASSUME NEW s, NEW t, IsSequence(s), IsSequence(t)
  PROVE  /\ IsSequence(s \o t)
         /\ Len(s \o t) = Len(s) + Len(t)
         /\ DOMAIN (s \o t) = 1..Len(s) + Len(t)
         /\ \A k \in 1..Len(s) : (s \o t)[k] = s[k]
         /\ \A k \in Len(s) + 1..Len(s) + Len(t) : (s \o t)[k] = t[k - Len(s)]
<1> DEFINE T == Range(s) \cup Range(t)
           q == s \o t
           n == Len(s) + Len(t)
<1>1. s \in Seq(T) /\ t \in Seq(T)
  BY DEF IsSequence
<1> HIDE DEF T
<1>2. q \in Seq(T) /\ Len(q) = n
  BY <1>1
<1>3. \A k \in 1..Len(s) : q[k] = s[k]
  BY <1>1
<1>4. \A k \in Len(s) + 1..Len(s) + Len(t) : q[k] = t[k - Len(s)]
  BY <1>1
<1>5. n \in Nat /\ DOMAIN q = 1..n
  BY <1>1, <1>2
<1> HIDE DEF q, n
<1>6. q = [k \in 1..n |-> q[k]]
  BY <1>2, <1>5
<1>7. IsSequence(q)
  BY <1>5, <1>6, SequenceOf
<1> QED BY <1>2, <1>3, <1>4, <1>5, <1>7 DEF q, n

\* A set of natural numbers has a least one.
LEMMA LeastOne ==
  ASSUME NEW S, S \subseteq Nat, S # {}
  PROVE  \E x \in S : \A y \in S : x <= y
<1>1. \E x \in S : \A y \in S : ~ (<<y, x>> \in OpToRel(<, Nat))
  <2>1. IsWellFoundedOn(OpToRel(<, Nat), Nat)
    BY NatLessThanWellFounded
  <2> QED BY WFMin, <2>1
<1>2. PICK x \in S : \A y \in S : ~ (<<y, x>> \in OpToRel(<, Nat))
  BY <1>1, Zenon
<1>3. \A y \in S : ~ (y < x)
  BY <1>2 DEF OpToRel
<1>4. \A y \in S : y \in Nat
  OBVIOUS
<1>5. \A y \in S : x <= y
  BY <1>3, <1>4
<1> QED BY <1>5

\* Induction, of a set rather than an operator.
LEMMA Induction ==
  ASSUME NEW S, 0 \in S, \A n \in Nat : n \in S => n + 1 \in S
  PROVE  Nat \subseteq S
<1> DEFINE T == Nat \ S
<1> SUFFICES ASSUME T # {} PROVE FALSE
  OBVIOUS
<1>1. T \subseteq Nat
  OBVIOUS
<1> HIDE DEF T
<1>2. PICK x \in T : \A y \in T : x <= y
  BY <1>1, LeastOne
<1>3. x \in Nat /\ x \notin S
  BY <1>2 DEF T
<1>4. x # 0 /\ x - 1 \in Nat
  BY <1>3
<1>5. x - 1 \notin T
  BY <1>2, <1>3
<1>6. x - 1 \in S
  BY <1>4, <1>5 DEF T
<1>7. (x - 1) + 1 = x
  BY <1>3
<1>8. x \in S
  BY <1>4, <1>6, <1>7
<1> QED BY <1>3, <1>8

\* The first n of the places I.
LEMMA FirstOnes ==
  ASSUME NEW I, I \subseteq Int, IsFiniteSet(I), NEW n \in Nat
  PROVE  LET K == {i \in I : Cardinality(Before(I, i)) < n} IN
         /\ IsFiniteSet(K)
         /\ Cardinality(K) = Least(n, Cardinality(I))
         /\ \A k \in K, i \in I \ K : k < i
<1> DEFINE N == Cardinality(I)
           P == Places(I)
           K == {i \in I : Cardinality(Before(I, i)) < n}
           m == Least(n, N)
<1>1. N \in Nat
  BY SizeIsNat
<1>2. m \in Nat /\ m <= N /\ m <= n /\ \A k \in 1..N : k <= m <=> k <= n
  BY <1>1 DEF Least
<1>3. /\ P \in [1..N -> I]
      /\ \A i \in I : \E k \in 1..N : P[k] = i
      /\ \A k, l \in 1..N : k < l <=> P[k] < P[l]
  BY PlacesInOrder DEF Ascends
<1> HIDE DEF P, N
<1>4. \A k, l \in 1..N : P[k] = P[l] => k = l
  <2> SUFFICES ASSUME NEW k \in 1..N, NEW l \in 1..N, P[k] = P[l] PROVE k = l
    OBVIOUS
  <2>1. P[k] \in I /\ P[l] \in I
    BY <1>3
  <2>2. P[k] \in Int /\ P[l] \in Int
    BY <2>1
  <2>3. ~(k < l) /\ ~(l < k)
    BY <1>3, <2>2
  <2> QED BY <2>3, <1>1
<1>5. ASSUME NEW k \in 1..N
      PROVE  Cardinality(Before(I, P[k])) = k - 1
  <2>1. \A i \in I : i < P[k] <=> \E l \in 1..k - 1 : P[l] = i
    <3>1. ASSUME NEW i \in I, i < P[k]
          PROVE  \E l \in 1..k - 1 : P[l] = i
      <4>1. PICK l \in 1..N : P[l] = i
        BY <1>3
      <4>2. l < k
        BY <3>1, <4>1, <1>3
      <4> QED BY <4>1, <4>2, <1>1
    <3>2. ASSUME NEW l \in 1..k - 1
          PROVE  P[l] < P[k]
      <4>1. l \in 1..N /\ l < k
        BY <1>1
      <4> QED BY <4>1, <1>3
    <3> QED BY <3>1, <3>2
  <2>2. \A l \in 1..k - 1 : P[l] \in I
    BY <1>1, <1>3
  <2>3. /\ \A l \in 1..k - 1 : P[l] \in Before(I, P[k])
        /\ \A i \in Before(I, P[k]) : \E l \in 1..k - 1 : P[l] = i
    BY <2>1, <2>2 DEF Before
  <2>4. IsFiniteSet(1..k - 1) /\ Cardinality(1..k - 1) = k - 1
    <3>1. k \in Nat /\ k # 0
      BY <1>1
    <3> QED BY <3>1, FS_Interval
  <2>5. \A x, y \in 1..k - 1 : P[x] = P[y] => x = y
    BY <1>1, <1>4
  <2> QED BY <2>3, <2>4, <2>5, SameSize
<1>6. \A k \in 1..N : P[k] \in K <=> k <= m
  <2> SUFFICES ASSUME NEW k \in 1..N PROVE P[k] \in K <=> k <= m
    OBVIOUS
  <2>1. P[k] \in I
    BY <1>3
  <2>2. P[k] \in K <=> k - 1 < n
    BY <1>5, <2>1
  <2>3. k - 1 < n <=> k <= n
    BY <1>1
  <2> QED BY <2>2, <2>3, <1>2
<1>7. /\ \A k \in 1..m : P[k] \in K
      /\ \A i \in K : \E k \in 1..m : P[k] = i
  <2>1. \A k \in 1..m : k \in 1..N /\ k <= m
    BY <1>1, <1>2
  <2>2. ASSUME NEW i \in K PROVE \E k \in 1..m : P[k] = i
    <3>1. PICK k \in 1..N : P[k] = i
      BY <1>3
    <3>2. k <= m
      BY <1>6, <3>1
    <3> QED BY <3>1, <3>2, <1>1, <1>2
  <2>3. \A k \in 1..m : P[k] \in K
    BY <2>1, <1>6
  <2> QED BY <2>2, <2>3
<1>8. IsFiniteSet(K) /\ Cardinality(K) = m
  <2>1. IsFiniteSet(1..m) /\ Cardinality(1..m) = m
    BY <1>2, FS_Interval
  <2>2. \A x, y \in 1..m : P[x] = P[y] => x = y
    BY <1>1, <1>2, <1>4
  <2> DEFINE D == 1..m
  <2>3. /\ \A k \in D : P[k] \in K
        /\ \A i \in K : \E k \in D : P[k] = i
        /\ \A x, y \in D : P[x] = P[y] => x = y
        /\ IsFiniteSet(D) /\ Cardinality(D) = m
    BY <2>1, <2>2, <1>7
  <2> HIDE DEF m, K, D
  <2>4. IsFiniteSet(K) /\ Cardinality(K) = Cardinality(D)
    BY <2>3, SameSize
  <2> QED BY <2>3, <2>4
<1>9. ASSUME NEW a \in K, NEW i \in I \ K
      PROVE  a < i
  <2>1. PICK k \in 1..N : P[k] = a
    BY <1>3
  <2>2. PICK l \in 1..N : P[l] = i
    BY <1>3
  <2>3. k <= m /\ ~(l <= m)
    BY <1>6, <2>1, <2>2
  <2>4. k < l
    BY <2>3, <1>1, <1>2
  <2> QED BY <2>1, <2>2, <2>4, <1>3
<1> QED BY <1>8, <1>9 DEF N

(***************************************************************************)
(* The ranking of chunks, and reranking.                                   *)
(***************************************************************************)

\* Qdrant returns a chunk once.
VecOK ==
  /\ vec \in Seq(Chunks) /\ Len(vec) <= Cardinality(Chunks)
  /\ \A i, j \in DOMAIN vec : vec[i] = vec[j] => i = j

\* Precedes, under the scores x.
Outranks(x, c, d) ==
  IF c \in DOMAIN x /\ d \in DOMAIN x /\ x[c] # x[d] THEN x[c] > x[d]
  ELSE IF (c \in DOMAIN x) # (d \in DOMAIN x) THEN c \in DOMAIN x
  ELSE Pos(c) < Pos(d)

InOrder(hs, x) == \A i, j \in DOMAIN hs : i < j => Outranks(x, hs[i].chunk, hs[j].chunk)

\* A hit as buildHit makes it.
Single(h) == h.cite = h.chunk /\ h.text = <<h.chunk>> /\ h.merged = 1

\* Every chunk of the answer has its hit.
OneEach(hs) ==
  /\ IsSequence(hs)
  /\ \A i \in DOMAIN hs : Single(hs[i]) /\ hs[i].chunk \in Found
  /\ \A c \in Found : \E i \in DOMAIN hs : hs[i].chunk = c

\* A chunk of the answer is at its place, once.
LEMMA PosIs ==
  ASSUME VecOK
  PROVE  /\ \A i \in DOMAIN vec : Pos(vec[i]) = i
         /\ \A c \in Found : Pos(c) \in Nat /\ Pos(c) \in DOMAIN vec /\ vec[Pos(c)] = c
<1>1. ASSUME NEW i \in DOMAIN vec
      PROVE  Pos(vec[i]) = i
  BY DEF VecOK, Pos
<1>2. DOMAIN vec = 1..Len(vec) /\ Len(vec) \in Nat
  BY DEF VecOK
<1>3. ASSUME NEW c \in Found
      PROVE  Pos(c) \in Nat /\ Pos(c) \in DOMAIN vec /\ vec[Pos(c)] = c
  <2>1. PICK i \in DOMAIN vec : vec[i] = c
    BY DEF Found
  <2>2. Pos(c) = i
    BY <1>1, <2>1
  <2> QED BY <2>1, <2>2, <1>2
<1> QED BY <1>1, <1>3

\* Two chunks of the answer are not at one place.
LEMMA PosTellsApart ==
  ASSUME VecOK, NEW c \in Found, NEW d \in Found, Pos(c) = Pos(d)
  PROVE  c = d
BY PosIs

\* The ranking is a strict total order of what was found, whatever was reranked.
LEMMA OutranksIsOrder ==
  ASSUME VecOK, NEW x, \A c \in DOMAIN x : x[c] \in Int
  PROVE  /\ \A c \in Found : ~Outranks(x, c, c)
         /\ \A c, d \in Found : c = d \/ Outranks(x, c, d) \/ Outranks(x, d, c)
         /\ \A c, d, e \in Found : Outranks(x, c, d) /\ Outranks(x, d, e) => Outranks(x, c, e)
<1>1. \A c \in Found : Pos(c) \in Nat
  BY PosIs
<1>2. \A c \in Found : ~Outranks(x, c, c)
  BY <1>1 DEF Outranks
<1>3. ASSUME NEW c \in Found, NEW d \in Found, c # d
      PROVE  Outranks(x, c, d) \/ Outranks(x, d, c)
  <2>1. Pos(c) \in Nat /\ Pos(d) \in Nat /\ Pos(c) # Pos(d)
    BY <1>1, <1>3, PosTellsApart
  <2>2. CASE c \in DOMAIN x /\ d \in DOMAIN x
    BY <2>1, <2>2 DEF Outranks
  <2>3. CASE ~(c \in DOMAIN x /\ d \in DOMAIN x)
    BY <2>1, <2>3 DEF Outranks
  <2> QED BY <2>2, <2>3
<1>4. ASSUME NEW c \in Found, NEW d \in Found, NEW e \in Found,
             Outranks(x, c, d), Outranks(x, d, e)
      PROVE  Outranks(x, c, e)
  <2>1. Pos(c) \in Nat /\ Pos(d) \in Nat /\ Pos(e) \in Nat
    BY <1>1
  <2>2. CASE c \in DOMAIN x /\ d \in DOMAIN x /\ e \in DOMAIN x
    <3>1. x[c] \in Int /\ x[d] \in Int /\ x[e] \in Int
      BY <2>2
    <3> QED BY <2>1, <2>2, <3>1, <1>4 DEF Outranks
  <2>3. CASE ~(c \in DOMAIN x /\ d \in DOMAIN x /\ e \in DOMAIN x)
    BY <2>1, <2>3, <1>4 DEF Outranks
  <2> QED BY <2>2, <2>3
<1> QED BY <1>2, <1>3, <1>4

\* In hits that are in order, the place tells the rank.
LEMMA InOrderIffBefore ==
  ASSUME VecOK, NEW x, \A c \in DOMAIN x : x[c] \in Int,
         NEW hs, IsSequence(hs), \A i \in DOMAIN hs : hs[i].chunk \in Found,
         InOrder(hs, x), NEW i \in DOMAIN hs, NEW j \in DOMAIN hs
  PROVE  /\ i < j <=> Outranks(x, hs[i].chunk, hs[j].chunk)
         /\ hs[i].chunk = hs[j].chunk => i = j
<1> DEFINE c == hs[i].chunk
           d == hs[j].chunk
<1>1. i \in Int /\ j \in Int
  BY DEF IsSequence
<1>2. i < j => Outranks(x, c, d)
  BY DEF InOrder
<1>3. j < i => Outranks(x, d, c)
  BY DEF InOrder
<1>4. c \in Found /\ d \in Found
  OBVIOUS
<1> HIDE DEF c, d
<1>5. ~(Outranks(x, c, d) /\ Outranks(x, d, c)) /\ ~Outranks(x, c, c)
  BY <1>4, OutranksIsOrder
<1>6. c = d => i = j
  BY <1>1, <1>2, <1>3, <1>5
<1>7. ASSUME Outranks(x, c, d)
      PROVE  i < j
  <2>1. ~(j < i)
    BY <1>3, <1>5, <1>7
  <2>2. i # j
    BY <1>5, <1>7 DEF c, d
  <2> QED BY <1>1, <2>1, <2>2
<1> QED BY <1>2, <1>6, <1>7 DEF c, d

\* The hits before the reranker: one for each chunk of the answer, in its order.
AsFound(hs) == hs = [i \in DOMAIN vec |-> buildHit(vec[i], VectorScores[i])]

\* What SearchText has before it reranks.
LEMMA AsFoundIs ==
  ASSUME VecOK, NEW hs, AsFound(hs)
  PROVE  /\ IsSequence(hs) /\ Len(hs) = Len(vec) /\ DOMAIN hs = 1..Len(vec)
         /\ \A i \in DOMAIN hs : Single(hs[i]) /\ hs[i].chunk = vec[i] /\ vec[i] \in Found
<1>1. DOMAIN vec = 1..Len(vec) /\ Len(vec) \in Nat
  BY DEF VecOK
<1>2. hs = [i \in 1..Len(vec) |-> buildHit(vec[i], VectorScores[i])]
  BY <1>1 DEF AsFound
<1>3. hs = [i \in 1..Len(vec) |-> hs[i]]
  BY <1>2
<1>4. IsSequence(hs) /\ Len(hs) = Len(vec) /\ DOMAIN hs = 1..Len(vec)
  BY <1>1, <1>3, SequenceOf
<1>5. ASSUME NEW i \in DOMAIN hs
      PROVE  Single(hs[i]) /\ hs[i].chunk = vec[i]
  BY <1>2, <1>4 DEF Single, buildHit
<1>6. \A i \in DOMAIN hs : vec[i] \in Found
  BY <1>1, <1>4 DEF Found
<1> QED BY <1>4, <1>5, <1>6

\* If nothing was reranked, the order of the answer is the ranking.
LEMMA NoScores ==
  ASSUME VecOK, NEW hs, AsFound(hs), NEW x, DOMAIN x = {}
  PROVE  OneEach(hs) /\ InOrder(hs, x)
<1>1. /\ IsSequence(hs) /\ DOMAIN hs = 1..Len(vec)
      /\ \A i \in DOMAIN hs : Single(hs[i]) /\ hs[i].chunk = vec[i] /\ vec[i] \in Found
  BY AsFoundIs
<1>2. DOMAIN vec = 1..Len(vec) /\ Len(vec) \in Nat
  BY DEF VecOK
<1>3. \A c \in Found : \E i \in DOMAIN hs : hs[i].chunk = c
  BY <1>1, <1>2 DEF Found
<1>4. ASSUME NEW i \in DOMAIN hs, NEW j \in DOMAIN hs, i < j
      PROVE  Outranks(x, hs[i].chunk, hs[j].chunk)
  <2>1. Pos(vec[i]) = i /\ Pos(vec[j]) = j
    BY <1>1, <1>2, PosIs
  <2> QED BY <2>1, <1>1, <1>4 DEF Outranks
<1> QED BY <1>1, <1>3, <1>4 DEF OneEach, InOrder

\* rerank: sorting the hits that have a score, and appending the others, yields the ranking.
LEMMA RerankRanks ==
  ASSUME VecOK, NEW hs, AsFound(hs),
         NEW x, DOMAIN x \subseteq Found, \A c \in DOMAIN x : x[c] \in Int
  PROVE  OneEach(RerankHits(hs, x)) /\ InOrder(RerankHits(hs, x), x)
<1> DEFINE n == Len(vec)
           A == Scored(hs, x)
           B == DOMAIN hs \ A
           a == Cardinality(A)
           b == Cardinality(B)
           key == [i \in A |-> -x[hs[i].chunk]]
           R == ByKey(A, key)
           rA == Ranked(A, R)
           rB == Places(B)
           sA == Arranged(Rescored(hs, x), A, R)
           sB == Picked(hs, B)
           q == sA \o sB
<1>1. n \in Nat /\ DOMAIN vec = 1..n
  BY DEF VecOK
<1>2. /\ IsSequence(hs) /\ DOMAIN hs = 1..n
      /\ \A i \in 1..n : Single(hs[i]) /\ hs[i].chunk = vec[i] /\ vec[i] \in Found
  BY AsFoundIs
<1>3. /\ A \subseteq 1..n /\ B \subseteq 1..n /\ A \cup B = 1..n /\ A \cap B = {}
      /\ \A i \in 1..n : i \in A <=> vec[i] \in DOMAIN x
      /\ \A i \in 1..n : i \in B <=> vec[i] \notin DOMAIN x
  BY <1>2 DEF Scored
<1>4. IsFiniteSet(1..n) /\ Cardinality(1..n) = n
  <2> HIDE DEF n
  <2> QED BY <1>1, UpTo
<1>5. IsFiniteSet(A) /\ IsFiniteSet(B) /\ a \in Nat /\ b \in Nat
  <2> HIDE DEF A, B
  <2>1. IsFiniteSet(A) /\ IsFiniteSet(B)
    BY <1>3, <1>4, FS_Subset
  <2> QED BY <2>1, SizeIsNat
<1>6. a + b = n
  <2> HIDE DEF A, B
  <2>1. Cardinality(A \cup B) = a + b - Cardinality(A \cap B)
    BY <1>5, FS_Union
  <2>2. Cardinality(A \cap B) = 0
    BY <1>3, FS_EmptySet
  <2>3. Cardinality(A \cup B) = n
    BY <1>3, <1>4
  <2> HIDE DEF n, a, b
  <2> QED BY <2>1, <2>2, <2>3, <1>5
<1>7. A \subseteq Int /\ B \subseteq Int /\ key \in [A -> Int]
  <2>1. \A i \in A : x[hs[i].chunk] \in Int
    BY <1>2, <1>3
  <2>2. key \in [A -> Int]
    BY <2>1
  <2> HIDE DEF A, B, key
  <2> QED BY <2>2, <1>3
<1>8. RerankHits(hs, x) = q
  BY DEF RerankHits
<1>9. TotalOrder(A, R)
  <2> HIDE DEF A, key
  <2> QED BY <1>7, ByKeyIsOrder
<1>10. /\ Enumerates(rA, A, R)
       /\ IsSequence(sA) /\ Len(sA) = a /\ DOMAIN sA = 1..a
       /\ \A k \in 1..a : sA[k] = Rescored(hs, x)[rA[k]]
  <2> HIDE DEF A, R
  <2>1. Enumerates(rA, A, R)
    BY <1>5, <1>9, RankedEnumerates
  <2>2. Lists(sA, a, Rescored(hs, x), rA)
    BY <1>5, <1>9, ArrangedIs
  <2> HIDE DEF sA, rA
  <2> QED BY <2>1, <2>2 DEF Lists
<1>11. /\ rA \in [1..a -> A]
       /\ \A i \in A : \E k \in 1..a : rA[k] = i
       /\ \A k, l \in 1..a : k < l => <<rA[k], rA[l]>> \in R
  <2> HIDE DEF A, R, rA, sA
  <2> QED BY <1>10 DEF Enumerates
<1>12. /\ rB \in [1..b -> B]
       /\ \A i \in B : \E k \in 1..b : rB[k] = i
       /\ \A k, l \in 1..b : k < l <=> rB[k] < rB[l]
  <2> HIDE DEF B
  <2>1. Ascends(rB, B)
    BY <1>5, <1>7, PlacesInOrder
  <2> HIDE DEF rB
  <2> QED BY <2>1 DEF Ascends
<1>13. /\ IsSequence(sB) /\ Len(sB) = b /\ DOMAIN sB = 1..b
       /\ \A k \in 1..b : sB[k] = hs[rB[k]]
  <2> HIDE DEF B
  <2>1. Lists(sB, b, hs, rB)
    BY <1>5, <1>7, PickedIs
  <2> HIDE DEF rB, sB
  <2> QED BY <2>1 DEF Lists
<1>14. \A i \in A : Single(Rescored(hs, x)[i]) /\ Rescored(hs, x)[i].chunk = vec[i]
  <2> SUFFICES ASSUME NEW i \in A
               PROVE  Single(Rescored(hs, x)[i]) /\ Rescored(hs, x)[i].chunk = vec[i]
    OBVIOUS
  <2>1. i \in DOMAIN vec
    BY <1>1, <1>3
  <2>2. hs[i] = buildHit(vec[i], VectorScores[i])
    BY <2>1 DEF AsFound
  <2>3. Rescored(hs, x)[i] = [hs[i] EXCEPT !.score = x[hs[i].chunk]]
    BY <2>1, <1>1, <1>2 DEF Rescored
  <2> QED BY <2>2, <2>3 DEF buildHit, Single
<1>15. \A i, j : <<i, j>> \in R => i \in A /\ j \in A /\ (key[i] < key[j] \/ (key[i] = key[j] /\ i < j))
  BY DEF ByKey
<1>16. \A i \in A : key[i] = -x[vec[i]]
  BY <1>2, <1>3
<1> HIDE DEF A, B, R, rA, rB, a, b, key, n
<1>17. \A k \in 1..a : Single(sA[k]) /\ sA[k].chunk = vec[rA[k]]
  <2> HIDE DEF sA
  <2> QED BY <1>10, <1>11, <1>14
<1>18. \A k \in 1..b : Single(sB[k]) /\ sB[k].chunk = vec[rB[k]]
  <2> HIDE DEF sB
  <2> QED BY <1>13, <1>12, <1>2, <1>3
<1>19. /\ IsSequence(q) /\ Len(q) = n /\ DOMAIN q = 1..n
       /\ \A k \in 1..a : q[k] = sA[k]
       /\ \A k \in a + 1..n : q[k] = sB[k - a]
  <2> HIDE DEF sA, sB
  <2>1. IsSequence(sA) /\ IsSequence(sB) /\ Len(sA) = a /\ Len(sB) = b
    BY <1>10, <1>13
  <2> QED BY <2>1, <1>6, Joined
<1> DEFINE p == [k \in 1..n |-> IF k <= a THEN rA[k] ELSE rB[k - a]]
<1> HIDE DEF sA, sB, q
<1>20. \A k \in 1..n : (k <= a => k \in 1..a) /\ (~(k <= a) => k \in a + 1..n /\ k - a \in 1..b)
  BY <1>1, <1>5, <1>6
<1>21. \A k \in 1..n : p[k] \in 1..n
  BY <1>20, <1>11, <1>12, <1>3
<1>22. \A k \in 1..n : Single(q[k]) /\ q[k].chunk = vec[p[k]]
  <2> SUFFICES ASSUME NEW k \in 1..n
               PROVE  Single(q[k]) /\ q[k].chunk = vec[p[k]]
    OBVIOUS
  <2>1. CASE k <= a
    BY <2>1, <1>17, <1>19, <1>20
  <2>2. CASE ~(k <= a)
    BY <2>2, <1>18, <1>19, <1>20
  <2> QED BY <2>1, <2>2
<1>23. \A i \in 1..n : \E k \in 1..n : p[k] = i
  <2> SUFFICES ASSUME NEW i \in 1..n
               PROVE  \E k \in 1..n : p[k] = i
    OBVIOUS
  <2>1. CASE i \in A
    <3>1. PICK k \in 1..a : rA[k] = i
      BY <2>1, <1>11
    <3>2. k \in 1..n /\ k <= a
      BY <1>1, <1>5, <1>6
    <3> QED BY <3>1, <3>2
  <2>2. CASE i \in B
    <3>1. PICK k \in 1..b : rB[k] = i
      BY <2>2, <1>12
    <3>2. k + a \in 1..n /\ ~(k + a <= a) /\ (k + a) - a = k
      BY <1>1, <1>5, <1>6
    <3> QED BY <3>1, <3>2
  <2> QED BY <2>1, <2>2, <1>3
<1>24. \A i \in 1..n : Pos(vec[i]) = i
  BY <1>1, PosIs
<1>25. ASSUME NEW k \in 1..n, NEW l \in 1..n, k < l
       PROVE  Outranks(x, vec[p[k]], vec[p[l]])
  <2>1. CASE k <= a /\ l <= a
    <3>1. p[k] = rA[k] /\ p[l] = rA[l] /\ k \in 1..a /\ l \in 1..a
      BY <2>1, <1>20
    <3>2. <<p[k], p[l]>> \in R
      BY <3>1, <1>11, <1>25
    <3>3. /\ p[k] \in A /\ p[l] \in A
          /\ -x[vec[p[k]]] < -x[vec[p[l]]] \/ (-x[vec[p[k]]] = -x[vec[p[l]]] /\ p[k] < p[l])
      BY <3>2, <1>15, <1>16
    <3>4. vec[p[k]] \in DOMAIN x /\ vec[p[l]] \in DOMAIN x
      BY <3>3, <1>3
    <3>5. x[vec[p[k]]] \in Int /\ x[vec[p[l]]] \in Int
      BY <3>4
    <3>6. Pos(vec[p[k]]) = p[k] /\ Pos(vec[p[l]]) = p[l]
      BY <1>21, <1>24
    <3> QED BY <3>3, <3>4, <3>5, <3>6 DEF Outranks
  <2>2. CASE k <= a /\ ~(l <= a)
    <3>1. p[k] \in A /\ p[l] \in B
      BY <2>2, <1>20, <1>11, <1>12
    <3>2. vec[p[k]] \in DOMAIN x /\ vec[p[l]] \notin DOMAIN x
      BY <3>1, <1>3
    <3> QED BY <3>2 DEF Outranks
  <2>3. CASE ~(k <= a) /\ ~(l <= a)
    <3>1. /\ p[k] = rB[k - a] /\ p[l] = rB[l - a]
          /\ k - a \in 1..b /\ l - a \in 1..b /\ k - a < l - a
      BY <2>3, <1>20, <1>25, <1>1, <1>5
    <3>2. p[k] < p[l] /\ p[k] \in B /\ p[l] \in B
      BY <3>1, <1>12
    <3>3. vec[p[k]] \notin DOMAIN x /\ vec[p[l]] \notin DOMAIN x
      BY <3>2, <1>3
    <3>4. Pos(vec[p[k]]) = p[k] /\ Pos(vec[p[l]]) = p[l]
      BY <1>21, <1>24
    <3> QED BY <3>2, <3>3, <3>4 DEF Outranks
  <2> QED BY <2>1, <2>2, <2>3, <1>1, <1>5, <1>25
<1> HIDE DEF p
<1>26. \A c \in Found : \E k \in 1..n : q[k].chunk = c
  <2> SUFFICES ASSUME NEW i \in 1..n
               PROVE  \E k \in 1..n : q[k].chunk = vec[i]
    BY <1>1 DEF Found
  <2> QED BY <1>22, <1>23
<1>27. OneEach(q)
  <2>1. \A k \in 1..n : q[k].chunk \in Found
    BY <1>2, <1>21, <1>22
  <2> QED BY <2>1, <1>19, <1>22, <1>26 DEF OneEach
<1>28. InOrder(q, x)
  BY <1>19, <1>22, <1>25 DEF InOrder
<1> QED BY <1>8, <1>27, <1>28

(***************************************************************************)
(* Sections: their text, and folding.                                      *)
(***************************************************************************)

\* g[n] is the text of the first n chunks of cs.
Upto(g, N, cs) == g = [n \in 0..N |-> IF n = 0 THEN NoText ELSE AddText(g[n - 1], cs[n])]

\* Such a function exists, so the recursive definition in SectionText is one.
LEMMA TextIsDefined ==
  ASSUME NEW cs, NEW N \in Nat
  PROVE  \E g : Upto(g, N, cs)
<1> DEFINE S == {n \in Nat : \E g : Upto(g, n, cs)}
<1>1. 0 \in S
  <2> DEFINE g == [n \in 0..0 |-> NoText]
  <2>1. Upto(g, 0, cs)
    BY DEF Upto
  <2> QED BY <2>1
<1>2. ASSUME NEW n \in Nat, n \in S
      PROVE  n + 1 \in S
  <2>1. PICK g : Upto(g, n, cs)
    BY <1>2
  <2> DEFINE h == [k \in 0..n + 1 |-> IF k = n + 1 THEN AddText(g[n], cs[n + 1]) ELSE g[k]]
             w == [k \in 0..n + 1 |-> IF k = 0 THEN NoText ELSE AddText(h[k - 1], cs[k])]
  <2>2. \A k \in 0..n + 1 : h[k] = w[k]
    <3> SUFFICES ASSUME NEW k \in 0..n + 1 PROVE h[k] = w[k]
      OBVIOUS
    <3>1. CASE k = n + 1
      <4>1. h[n] = g[n]
        OBVIOUS
      <4> QED BY <3>1, <4>1
    <3>2. CASE k # n + 1
      <4>1. k \in 0..n
        BY <3>2
      <4>2. h[k] = g[k]
        BY <3>2
      <4>3. g[k] = IF k = 0 THEN NoText ELSE AddText(g[k - 1], cs[k])
        BY <2>1, <4>1 DEF Upto
      <4>4. k # 0 => h[k - 1] = g[k - 1]
        BY <4>1
      <4> HIDE DEF h
      <4> QED BY <4>2, <4>3, <4>4
    <3> QED BY <3>1, <3>2
  <2>3. h = w
    <3> HIDE DEF h
    <3>1. DOMAIN h = 0..n + 1 /\ h = [k \in 0..n + 1 |-> h[k]]
      BY DEF h
    <3> QED BY <2>2, <3>1
  <2>4. Upto(h, n + 1, cs)
    BY <2>3 DEF Upto
  <2> HIDE DEF h
  <2> QED BY <2>4
<1> HIDE DEF S
<1>3. Nat \subseteq S
  BY <1>1, <1>2, Induction
<1> QED BY <1>3 DEF S

\* SectionText is the text of all of cs.
LEMMA SectionTextIs ==
  ASSUME NEW cs, Len(cs) \in Nat
  PROVE  \E g : Upto(g, Len(cs), cs) /\ SectionText(cs) = g[Len(cs)].parts
<1> DEFINE N == Len(cs)
<1> DEFINE f == CHOOSE g : g = [n \in 0..N |-> IF n = 0 THEN NoText ELSE AddText(g[n - 1], cs[n])]
<1>1. \E g : g = [n \in 0..N |-> IF n = 0 THEN NoText ELSE AddText(g[n - 1], cs[n])]
  BY TextIsDefined DEF Upto
<1>2. f = [n \in 0..N |-> IF n = 0 THEN NoText ELSE AddText(f[n - 1], cs[n])]
  BY <1>1
<1>3. SectionText(cs) = f[N].parts
  BY DEF SectionText
<1> HIDE DEF f
<1>4. Upto(f, N, cs)
  BY <1>2 DEF Upto
<1> QED BY <1>3, <1>4

\* t is drawn, in order, from the first n elements of cs.
Drawn(t, cs, n) ==
  /\ t \in Seq(Range(cs))
  /\ \A i \in DOMAIN t : \E a \in 1..n : t[i] = cs[a]
  /\ \A i, j \in DOMAIN t : i < j => \E a, b \in 1..n : a < b /\ t[i] = cs[a] /\ t[j] = cs[b]

\* The text of a section skips chunks, and neither repeats nor moves one.
LEMMA SectionTextDrawn ==
  ASSUME NEW cs, IsSequence(cs)
  PROVE  Drawn(SectionText(cs), cs, Len(cs))
<1> DEFINE N == Len(cs)
<1>1. N \in Nat /\ \A k \in 1..N : cs[k] \in Range(cs)
  BY DEF IsSequence
<1>2. PICK g : Upto(g, N, cs) /\ SectionText(cs) = g[N].parts
  BY <1>1, SectionTextIs
<1> DEFINE S == {n \in Nat : n <= N => Drawn(g[n].parts, cs, n)}
<1>3. 0 \in S
  <2>1. g[0].parts = <<>>
    BY <1>1, <1>2 DEF Upto, NoText
  <2>2. Drawn(<<>>, cs, 0)
    BY DEF Drawn
  <2> QED BY <2>1, <2>2
<1>4. ASSUME NEW n \in Nat, n \in S
      PROVE  n + 1 \in S
  <2> SUFFICES ASSUME n + 1 <= N
               PROVE  Drawn(g[n + 1].parts, cs, n + 1)
    OBVIOUS
  <2> DEFINE t == g[n].parts
             c == cs[n + 1]
  <2>1. Drawn(t, cs, n)
    BY <1>1, <1>4
  <2>2. c \in Range(cs)
    BY <1>1
  <2>3. g[n + 1] = AddText(g[n], c)
    <3>1. n + 1 \in 0..N /\ n + 1 # 0 /\ (n + 1) - 1 = n
      BY <1>1
    <3> QED BY <3>1, <1>2 DEF Upto
  <2>4. g[n + 1].parts = t \/ g[n + 1].parts = Append(t, c)
    BY <2>3 DEF AddText
  <2> HIDE DEF t
  <2>5. \A a \in 1..n : a \in 1..n + 1
    OBVIOUS
  <2>6. CASE g[n + 1].parts = t
    <3>1. Drawn(t, cs, n + 1)
      BY <2>1, <2>5 DEF Drawn
    <3> QED BY <3>1, <2>6
  <2>7. CASE g[n + 1].parts = Append(t, c)
    <3> DEFINE u == Append(t, c)
               l == Len(t)
    <3>1. t \in Seq(Range(cs)) /\ l \in Nat /\ DOMAIN t = 1..l
      BY <2>1 DEF Drawn
    <3>2. /\ u \in Seq(Range(cs)) /\ DOMAIN u = 1..l + 1
          /\ u[l + 1] = c /\ \A i \in 1..l : u[i] = t[i]
      BY <3>1, <2>2
    <3>9. \A i, j \in 1..l : i < j => \E a, b \in 1..n : a < b /\ t[i] = cs[a] /\ t[j] = cs[b]
      <4>1. \A i, j \in DOMAIN t : i < j => \E a, b \in 1..n : a < b /\ t[i] = cs[a] /\ t[j] = cs[b]
        BY <2>1 DEF Drawn
      <4>2. ASSUME NEW i \in 1..l, NEW j \in 1..l, i < j
            PROVE  \E a, b \in 1..n : a < b /\ t[i] = cs[a] /\ t[j] = cs[b]
        <5>1. i \in DOMAIN t /\ j \in DOMAIN t
          BY <3>1
        <5> QED BY <4>1, <4>2, <5>1
      <4> QED BY <4>2
    <3> HIDE DEF u, l, c
    <3>3. n + 1 \in 1..n + 1 /\ \A a \in 1..n : a < n + 1
      OBVIOUS
    <3>4. ASSUME NEW i \in 1..l + 1
          PROVE  \E a \in 1..n + 1 : u[i] = cs[a]
      <4>1. CASE i = l + 1
        BY <4>1, <3>2, <3>3 DEF c
      <4>2. CASE i # l + 1
        <5>1. i \in 1..l
          BY <4>2, <3>1
        <5>2. PICK a \in 1..n : t[i] = cs[a]
          BY <5>1, <3>1, <2>1 DEF Drawn
        <5> QED BY <5>1, <5>2, <3>2, <2>5
      <4> QED BY <4>1, <4>2
    <3>5. ASSUME NEW i \in 1..l + 1, NEW j \in 1..l + 1, i < j
          PROVE  \E a, b \in 1..n + 1 : a < b /\ u[i] = cs[a] /\ u[j] = cs[b]
      <4>1. i \in 1..l
        BY <3>5, <3>1
      <4>2. CASE j = l + 1
        <5>1. PICK a \in 1..n : t[i] = cs[a]
          BY <4>1, <3>1, <2>1 DEF Drawn
        <5>2. a \in 1..n + 1 /\ n + 1 \in 1..n + 1 /\ a < n + 1
          BY <3>3, <2>5
        <5>3. u[i] = cs[a] /\ u[j] = cs[n + 1]
          BY <4>1, <4>2, <5>1, <3>2 DEF c
        <5> QED BY <5>2, <5>3
      <4>3. CASE j # l + 1
        <5>1. j \in 1..l
          BY <4>3, <3>1
        <5>2. PICK a \in 1..n, b \in 1..n : a < b /\ t[i] = cs[a] /\ t[j] = cs[b]
          BY <4>1, <5>1, <3>5, <3>9
        <5> QED BY <4>1, <5>1, <5>2, <3>2, <2>5
      <4> QED BY <4>2, <4>3
    <3>6. Drawn(u, cs, n + 1)
      <4>1. \A i \in DOMAIN u : \E a \in 1..n + 1 : u[i] = cs[a]
        BY <3>2, <3>4
      <4>2. \A i, j \in DOMAIN u : i < j => \E a, b \in 1..n + 1 : a < b /\ u[i] = cs[a] /\ u[j] = cs[b]
        BY <3>2, <3>5
      <4> QED BY <3>2, <4>1, <4>2 DEF Drawn
    <3> QED BY <3>6, <2>7 DEF u
  <2> QED BY <2>4, <2>6, <2>7
<1> HIDE DEF S
<1>5. Nat \subseteq S
  BY <1>3, <1>4, Induction
<1>6. N \in S
  BY <1>1, <1>5
<1> QED BY <1>1, <1>2, <1>6 DEF S

\* g[n] is the length of the first n chunks of t.
Sums(g, N, t) ==
  g = [n \in 0..N |-> IF n = 0 THEN 0 ELSE g[n - 1] + Length[t[n]] + (IF n = 1 THEN 0 ELSE 1)]

\* Such a function exists, so the recursive definition in TextLength is one.
LEMMA SumsAreDefined ==
  ASSUME NEW t, NEW N \in Nat
  PROVE  \E g : Sums(g, N, t)
<1> DEFINE S == {n \in Nat : \E g : Sums(g, n, t)}
<1>1. 0 \in S
  <2> DEFINE g == [n \in 0..0 |-> 0]
  <2>1. Sums(g, 0, t)
    BY DEF Sums
  <2> QED BY <2>1
<1>2. ASSUME NEW n \in Nat, n \in S
      PROVE  n + 1 \in S
  <2>1. PICK g : Sums(g, n, t)
    BY <1>2
  <2> DEFINE add(f, k) == f[k - 1] + Length[t[k]] + (IF k = 1 THEN 0 ELSE 1)
             h == [k \in 0..n + 1 |-> IF k = n + 1 THEN add(g, n + 1) ELSE g[k]]
             w == [k \in 0..n + 1 |-> IF k = 0 THEN 0 ELSE add(h, k)]
  <2>2. \A k \in 0..n + 1 : h[k] = w[k]
    <3> SUFFICES ASSUME NEW k \in 0..n + 1 PROVE h[k] = w[k]
      OBVIOUS
    <3>1. CASE k = n + 1
      <4>1. h[n] = g[n] /\ k # 0 /\ k - 1 = n
        BY <3>1
      <4>2. h[k] = add(g, n + 1)
        BY <3>1
      <4> HIDE DEF h
      <4> QED BY <3>1, <4>1, <4>2
    <3>2. CASE k # n + 1
      <4>1. k \in 0..n
        BY <3>2
      <4>2. h[k] = g[k]
        BY <3>2
      <4>3. g[k] = IF k = 0 THEN 0 ELSE add(g, k)
        BY <2>1, <4>1 DEF Sums
      <4>4. k # 0 => h[k - 1] = g[k - 1]
        BY <4>1
      <4> HIDE DEF h
      <4> QED BY <4>2, <4>3, <4>4
    <3> QED BY <3>1, <3>2
  <2>3. h = w
    <3> HIDE DEF h
    <3>1. DOMAIN h = 0..n + 1 /\ h = [k \in 0..n + 1 |-> h[k]]
      BY DEF h
    <3> QED BY <2>2, <3>1
  <2>4. Sums(h, n + 1, t)
    BY <2>3 DEF Sums
  <2> HIDE DEF h
  <2> QED BY <2>4
<1> HIDE DEF S
<1>3. Nat \subseteq S
  BY <1>1, <1>2, Induction
<1> QED BY <1>3 DEF S

\* TextLength is the length of all of t.
LEMMA TextLengthIs ==
  ASSUME NEW t, Len(t) \in Nat
  PROVE  \E g : Sums(g, Len(t), t) /\ TextLength(t) = g[Len(t)]
<1> DEFINE N == Len(t)
<1> DEFINE f == CHOOSE g : g = [n \in 0..N |->
                  IF n = 0 THEN 0 ELSE g[n - 1] + Length[t[n]] + (IF n = 1 THEN 0 ELSE 1)]
<1>1. \E g : g = [n \in 0..N |->
                IF n = 0 THEN 0 ELSE g[n - 1] + Length[t[n]] + (IF n = 1 THEN 0 ELSE 1)]
  BY SumsAreDefined DEF Sums
<1>2. f = [n \in 0..N |-> IF n = 0 THEN 0 ELSE f[n - 1] + Length[t[n]] + (IF n = 1 THEN 0 ELSE 1)]
  BY <1>1
<1>3. TextLength(t) = f[N]
  BY DEF TextLength
<1> HIDE DEF f
<1>4. Sums(f, N, t)
  BY <1>2 DEF Sums
<1> QED BY <1>3, <1>4

\* Texts that begin alike are as long so far.
LEMMA SumsAgree ==
  ASSUME NEW t \in Seq(Chunks), NEW u \in Seq(Chunks), NEW N \in Nat, N <= Len(t), N <= Len(u),
         \A i \in 1..N : t[i] = u[i], NEW g, NEW h, Sums(g, Len(t), t), Sums(h, Len(u), u)
  PROVE  g[N] = h[N] /\ g[N] \in Nat
<1> DEFINE S == {n \in Nat : n <= N => g[n] = h[n] /\ g[n] \in Nat}
<1>1. Len(t) \in Nat /\ Len(u) \in Nat /\ \A i \in 1..Len(t) : t[i] \in Chunks
  OBVIOUS
<1>2. 0 \in S
  <2>1. 0 \in 0..Len(t) /\ 0 \in 0..Len(u)
    BY <1>1
  <2>2. g[0] = 0 /\ h[0] = 0
    BY <2>1 DEF Sums
  <2> QED BY <2>2
<1>3. ASSUME NEW n \in Nat, n \in S
      PROVE  n + 1 \in S
  <2> SUFFICES ASSUME n + 1 <= N
               PROVE  g[n + 1] = h[n + 1] /\ g[n + 1] \in Nat
    OBVIOUS
  <2>1. /\ n + 1 \in 0..Len(t) /\ n + 1 \in 0..Len(u) /\ n + 1 # 0 /\ (n + 1) - 1 = n
        /\ n + 1 \in 1..N /\ n + 1 \in 1..Len(t) /\ n <= N
    BY <1>1
  <2>2. g[n + 1] = g[n] + Length[t[n + 1]] + (IF n + 1 = 1 THEN 0 ELSE 1)
    BY <2>1 DEF Sums
  <2>3. h[n + 1] = h[n] + Length[u[n + 1]] + (IF n + 1 = 1 THEN 0 ELSE 1)
    BY <2>1 DEF Sums
  <2>4. t[n + 1] = u[n + 1] /\ Length[t[n + 1]] \in Nat
    BY <1>1, <2>1, RetrievalAssumption
  <2>5. g[n] = h[n] /\ g[n] \in Nat
    BY <1>3, <2>1
  <2> QED BY <2>2, <2>3, <2>4, <2>5
<1> HIDE DEF S
<1>4. Nat \subseteq S
  BY <1>2, <1>3, Induction
<1> QED BY <1>4 DEF S

\* What a chunk adds to a text: its own length, and a line feed unless it is the first.
LEMMA TextLengthGrows ==
  ASSUME NEW t \in Seq(Chunks), NEW c \in Chunks
  PROVE  /\ TextLength(t) \in Nat /\ Append(t, c) \in Seq(Chunks)
         /\ TextLength(Append(t, c)) = TextLength(t) + Length[c] + (IF t = <<>> THEN 0 ELSE 1)
<1> DEFINE u == Append(t, c)
           l == Len(t)
<1>1. /\ l \in Nat /\ u \in Seq(Chunks) /\ Len(u) = l + 1 /\ u[l + 1] = c
      /\ \A i \in 1..l : u[i] = t[i]
      /\ l = 0 <=> t = <<>>
  OBVIOUS
<1> HIDE DEF u, l
<1>2. PICK g : Sums(g, l, t) /\ TextLength(t) = g[l]
  BY <1>1, TextLengthIs DEF l
<1>3. PICK h : Sums(h, l + 1, u) /\ TextLength(u) = h[l + 1]
  <2>1. Len(u) \in Nat
    BY <1>1
  <2> QED BY <1>1, <2>1, TextLengthIs
<1>4. g[l] = h[l] /\ g[l] \in Nat
  <2>1. l <= Len(t) /\ l <= Len(u) /\ \A i \in 1..l : t[i] = u[i]
    BY <1>1 DEF l
  <2>2. Sums(g, Len(t), t) /\ Sums(h, Len(u), u)
    BY <1>1, <1>2, <1>3 DEF l
  <2> QED BY <1>1, <2>1, <2>2, SumsAgree
<1>5. h[l + 1] = h[l] + Length[c] + (IF l + 1 = 1 THEN 0 ELSE 1)
  <2>1. l + 1 \in 0..l + 1 /\ l + 1 # 0 /\ (l + 1) - 1 = l
    BY <1>1
  <2> QED BY <1>1, <1>3, <2>1 DEF Sums
<1>6. Length[c] \in Nat
  BY RetrievalAssumption
<1> QED BY <1>1, <1>2, <1>3, <1>4, <1>5, <1>6 DEF u

\* No text is of no length.
LEMMA NothingIsShort == TextLength(<<>>) = 0
<1>1. Len(<<>>) = 0
  OBVIOUS
<1>2. PICK g : Sums(g, 0, <<>>) /\ TextLength(<<>>) = g[0]
  BY <1>1, TextLengthIs
<1>3. 0 \in 0..0
  OBVIOUS
<1> QED BY <1>2, <1>3 DEF Sums

\* There is room for t, and none behind it for what of the first n elements of cs it leaves out.
Fits(t, cs, n) ==
  /\ t \in Seq(Chunks) /\ TextLength(t) <= ParentMergeMaxChars
  /\ \A k \in 1..n : \/ Length[cs[k]] = 0 \/ \E i \in DOMAIN t : t[i] = cs[k]
                     \/ TextLength(Append(t, cs[k])) > ParentMergeMaxChars

\* The text of a section keeps the cap, and leaves out only what does not fit.
LEMMA SectionTextFits ==
  ASSUME NEW cs, IsSequence(cs), \A k \in 1..Len(cs) : cs[k] \in Chunks
  PROVE  Fits(SectionText(cs), cs, Len(cs))
<1> DEFINE N == Len(cs)
<1>1. N \in Nat
  BY DEF IsSequence
<1>2. PICK g : Upto(g, N, cs) /\ SectionText(cs) = g[N].parts
  BY <1>1, SectionTextIs
<1> DEFINE S == {n \in Nat : n <= N => Fits(g[n].parts, cs, n) /\ g[n].len = TextLength(g[n].parts)}
<1>3. 0 \in S
  <2>1. g[0] = NoText
    BY <1>1, <1>2 DEF Upto
  <2>2. g[0].parts = <<>> /\ g[0].len = 0
    BY <2>1 DEF NoText
  <2>3. TextLength(<<>>) = 0 /\ 0 <= ParentMergeMaxChars
    BY NothingIsShort, RetrievalAssumption
  <2>4. Fits(<<>>, cs, 0)
    BY <2>3 DEF Fits
  <2> QED BY <2>2, <2>3, <2>4
<1>4. ASSUME NEW n \in Nat, n \in S
      PROVE  n + 1 \in S
  <2> SUFFICES ASSUME n + 1 <= N
               PROVE  Fits(g[n + 1].parts, cs, n + 1) /\ g[n + 1].len = TextLength(g[n + 1].parts)
    OBVIOUS
  <2> DEFINE t == g[n].parts
             c == cs[n + 1]
             u == Append(t, c)
  <2>1. Fits(t, cs, n) /\ g[n].len = TextLength(t)
    BY <1>1, <1>4
  <2>2. c \in Chunks /\ Length[c] \in Nat /\ \A k \in 1..n : cs[k] \in Chunks /\ Length[cs[k]] \in Nat
    BY <1>1, RetrievalAssumption
  <2>3. g[n + 1] = AddText(g[n], c)
    <3>1. n + 1 \in 0..N /\ n + 1 # 0 /\ (n + 1) - 1 = n
      BY <1>1
    <3> QED BY <3>1, <1>2 DEF Upto
  <2>4. /\ t \in Seq(Chunks) /\ TextLength(t) \in Nat /\ u \in Seq(Chunks)
        /\ TextLength(u) = TextLength(t) + Length[c] + (IF t = <<>> THEN 0 ELSE 1)
    BY <2>1, <2>2, TextLengthGrows DEF Fits
  <2>5. ParentMergeMaxChars \in Nat
    BY RetrievalAssumption
  <2>6. CASE Length[c] = 0 \/ TextLength(u) > ParentMergeMaxChars
    <3>1. g[n + 1] = g[n]
      BY <2>1, <2>3, <2>4, <2>6 DEF AddText
    <3> HIDE DEF t, c, u
    <3>2. Fits(t, cs, n + 1)
      <4>1. \A k \in 1..n + 1 : k \in 1..n \/ k = n + 1
        OBVIOUS
      <4>2. Length[cs[n + 1]] = 0 \/ TextLength(Append(t, cs[n + 1])) > ParentMergeMaxChars
        BY <2>6 DEF c, u
      <4> QED BY <2>1, <4>1, <4>2 DEF Fits
    <3> QED BY <2>1, <3>1, <3>2 DEF t
  <2>7. CASE ~(Length[c] = 0 \/ TextLength(u) > ParentMergeMaxChars)
    <3>1. g[n + 1].parts = u /\ g[n + 1].len = TextLength(u)
      BY <2>1, <2>3, <2>4, <2>7 DEF AddText
    <3>2. Len(t) \in Nat /\ DOMAIN t = 1..Len(t) /\ DOMAIN u = 1..Len(t) + 1 /\ u # <<>>
          /\ u[Len(t) + 1] = c /\ \A i \in 1..Len(t) : u[i] = t[i]
      <4> HIDE DEF t, c
      <4>1. t \in Seq(Chunks) /\ c \in Chunks /\ Len(t) \in Nat
        BY <2>4, <2>2
      <4>2. DOMAIN t = 1..Len(t) /\ DOMAIN u = 1..Len(t) + 1
            /\ u[Len(t) + 1] = c /\ \A i \in 1..Len(t) : u[i] = t[i]
        BY <4>1
      <4>3. Len(u) = Len(t) + 1
        BY <4>1
      <4>4. u # <<>>
        BY <4>1, <4>3
      <4> QED BY <4>1, <4>2, <4>4
    <3> HIDE DEF t, c, u
    <3>3. TextLength(u) \in Nat /\ TextLength(u) <= ParentMergeMaxChars
      BY <2>2, <2>4, <2>5, <2>7
    <3>4. ASSUME NEW k \in 1..n + 1, Length[cs[k]] # 0, \A i \in DOMAIN u : u[i] # cs[k]
          PROVE  TextLength(Append(u, cs[k])) > ParentMergeMaxChars
      <4>1. k \in 1..n
        <5>1. Len(t) + 1 \in DOMAIN u
          BY <3>2
        <5>2. k # n + 1
          BY <3>2, <3>4, <5>1 DEF c
        <5> QED BY <5>2
      <4>2. \A i \in DOMAIN t : t[i] # cs[k]
        BY <3>2, <3>4
      <4>3. TextLength(Append(t, cs[k])) > ParentMergeMaxChars
        BY <2>1, <3>4, <4>1, <4>2 DEF Fits
      <4>4. /\ TextLength(Append(t, cs[k])) = TextLength(t) + Length[cs[k]] + (IF t = <<>> THEN 0 ELSE 1)
            /\ TextLength(Append(u, cs[k])) = TextLength(u) + Length[cs[k]] + (IF u = <<>> THEN 0 ELSE 1)
        BY <2>2, <2>4, <4>1, TextLengthGrows
      <4>5. TextLength(Append(u, cs[k])) >= TextLength(Append(t, cs[k]))
        BY <2>2, <2>4, <3>2, <4>1, <4>4
      <4>6. TextLength(Append(u, cs[k])) \in Nat /\ TextLength(Append(t, cs[k])) \in Nat
        <5>1. Append(u, cs[k]) \in Seq(Chunks) /\ Append(t, cs[k]) \in Seq(Chunks)
              /\ cs[k] \in Chunks
          BY <2>2, <2>4, <4>1, TextLengthGrows
        <5> QED BY <5>1, TextLengthGrows
      <4> QED BY <2>5, <4>3, <4>5, <4>6
    <3>5. Fits(u, cs, n + 1)
      BY <2>4, <3>3, <3>4 DEF Fits
    <3> QED BY <3>1, <3>5
  <2> QED BY <2>6, <2>7
<1> HIDE DEF S
<1>5. Nat \subseteq S
  BY <1>3, <1>4, Induction
<1>6. N \in S
  BY <1>1, <1>5
<1> QED BY <1>1, <1>2, <1>6 DEF S

\* A hit stands for its section, reads in document order and keeps the cap.
SectionOK(h) ==
  /\ h.merged = Cardinality(Siblings(h.chunk))
  /\ h.cite \in Siblings(h.chunk)
  /\ \A c \in Siblings(h.chunk) : ChunkNo[h.cite] <= ChunkNo[c]
  /\ \A m, n \in DOMAIN h.text : m < n => ChunkNo[h.text[m]] <= ChunkNo[h.text[n]]
                                           /\ h.text[m] # h.text[n]
  /\ \A n \in DOMAIN h.text : h.text[n] \in Siblings(h.chunk)
  /\ h.merged > 1 => TextLength(h.text) <= ParentMergeMaxChars
  /\ \A c \in Siblings(h.chunk) :
       \/ Length[c] = 0 \/ \E n \in DOMAIN h.text : h.text[n] = c
       \/ TextLength(Append(h.text, c)) > ParentMergeMaxChars

\* The answer holds as many chunks as places.
LEMMA FoundIs ==
  ASSUME VecOK
  PROVE  IsFiniteSet(Found) /\ Cardinality(Found) = Len(vec) /\ Found \subseteq Chunks
<1> DEFINE n == Len(vec)
<1>1. n \in Nat /\ DOMAIN vec = 1..n /\ \A i \in 1..n : vec[i] \in Chunks
  BY DEF VecOK
<1>2. /\ \A i \in 1..n : vec[i] \in Found
      /\ \A c \in Found : \E i \in 1..n : vec[i] = c
      /\ \A i, j \in 1..n : vec[i] = vec[j] => i = j
  BY <1>1 DEF VecOK, Found
<1>3. Found \subseteq Chunks
  BY <1>1, <1>2
<1> HIDE DEF n
<1>4. IsFiniteSet(1..n) /\ Cardinality(1..n) = n
  BY <1>1, UpTo
<1>5. IsFiniteSet(Found) /\ Cardinality(Found) = Cardinality(1..n)
  <2> DEFINE D == 1..n
  <2>1. /\ \A i \in D : vec[i] \in Found
        /\ \A c \in Found : \E i \in D : vec[i] = c
        /\ \A i, j \in D : vec[i] = vec[j] => i = j
        /\ IsFiniteSet(D)
    BY <1>2, <1>4
  <2> HIDE DEF D
  <2>2. IsFiniteSet(Found) /\ Cardinality(Found) = Cardinality(D)
    BY <2>1, SameSize
  <2> QED BY <2>2 DEF D
<1> QED BY <1>3, <1>4, <1>5 DEF n

\* A hit that was not folded, because it is alone, is its section.
LEMMA SingleIsSection ==
  ASSUME VecOK, NEW h, Single(h), Siblings(h.chunk) = {h.chunk}, h.chunk \in Found
  PROVE  SectionOK(h)
<1> DEFINE c == h.chunk
<1>1. Cardinality({c}) = 1
  BY FS_Singleton
<1>2. c \in Chunks /\ ChunkNo[c] \in Int
  BY FoundIs, RetrievalAssumption
<1>3. DOMAIN h.text = {1} /\ h.text[1] = c
  BY DEF Single
<1>4. h.merged = 1 /\ h.cite = c
  BY DEF Single
<1> HIDE DEF c
<1>5. Siblings(h.chunk) = {c}
  BY DEF c
<1> QED BY <1>1, <1>2, <1>3, <1>4, <1>5 DEF SectionOK

\* mergeParents, of one section: the members are its siblings, in chunk order.
LEMMA FoldedIsSection ==
  ASSUME VecOK, ~ParentMergeDisabled, NEW x, \A c \in DOMAIN x : x[c] \in Int,
         NEW hs, OneEach(hs), InOrder(hs, x), NEW i \in DOMAIN hs
  PROVE  SectionOK(Folded(hs, i)) /\ Folded(hs, i).chunk = hs[i].chunk
<1> DEFINE c == hs[i].chunk
           M == Members(hs, i)
           B == Siblings(c)
           D == DOMAIN hs
<1>1. /\ IsSequence(hs) /\ D = 1..Len(hs) /\ Len(hs) \in Nat
      /\ \A j \in D : Single(hs[j]) /\ hs[j].chunk \in Found
      /\ \A d \in Found : \E j \in D : hs[j].chunk = d
  BY DEF OneEach, IsSequence
<1>2. \A j, k \in D : hs[j].chunk = hs[k].chunk => j = k
  <2> SUFFICES ASSUME NEW j \in D, NEW k \in D, hs[j].chunk = hs[k].chunk PROVE j = k
    OBVIOUS
  <2>1. IsSequence(hs) /\ \A l \in DOMAIN hs : hs[l].chunk \in Found
    BY <1>1
  <2> HIDE DEF D
  <2>2. j \in DOMAIN hs /\ k \in DOMAIN hs
    BY DEF D
  <2> QED BY <2>1, <2>2, InOrderIffBefore
<1>3. c \in Found
  BY <1>1
<1>4. CASE SectionOf[c] = None
  <2>1. M = {}
    BY <1>4 DEF Members, SameSection
  <2>2. Cardinality(M) = 0
    BY <2>1, FS_EmptySet
  <2>3. Folded(hs, i) = hs[i]
    BY <2>2 DEF Folded
  <2>4. B = {c}
    BY <1>3, <1>4 DEF Siblings
  <2> QED BY <2>3, <2>4, <1>1, <1>3, SingleIsSection
<1>5. CASE SectionOf[c] # None
  <2>1. \A j : j \in M <=> j \in D /\ SectionOf[hs[j].chunk] = SectionOf[c]
    BY <1>5 DEF Members, SameSection
  <2>2. \A d : d \in B <=> d \in Found /\ SectionOf[d] = SectionOf[c]
    BY <1>3, <1>5 DEF Siblings
  <2>3. i \in M /\ M \subseteq D
    BY <2>1
  <2> DEFINE chunkOf == [j \in DOMAIN hs |-> hs[j].chunk]
  <2>4. \A j \in D : chunkOf[j] = hs[j].chunk
    OBVIOUS
  <2> HIDE DEF chunkOf, M, B
  <2>5. /\ \A j \in M : chunkOf[j] \in B
        /\ \A d \in B : \E j \in M : chunkOf[j] = d
        /\ \A j, k \in M : chunkOf[j] = chunkOf[k] => j = k
    BY <1>1, <1>2, <2>1, <2>2, <2>3, <2>4
  <2>6. IsFiniteSet(M)
    <3>1. IsFiniteSet(1..Len(hs))
      BY <1>1, UpTo
    <3> QED BY <3>1, <1>1, <2>3, FS_Subset
  <2>7. IsFiniteSet(B) /\ Cardinality(B) = Cardinality(M)
    BY <2>5, <2>6, SameSize
  <2>8. Cardinality(M) \in Nat /\ Cardinality(M) # 0
    BY <2>3, <2>6, SizeIsNat, FS_EmptySet
  <2>9. CASE Cardinality(M) < 2
    <3>1. Cardinality(M) = 1
      BY <2>8, <2>9
    <3>2. \E j : M = {j}
      BY <2>6, <3>1, FS_Singleton
    <3>3. M = {i}
      BY <2>3, <3>2
    <3>4. c \in B /\ \A d \in B : d = c
      BY <3>3, <2>4, <2>5, <2>3
    <3>5. B = {c}
      BY <3>4
    <3>6. Folded(hs, i) = hs[i]
      BY <2>9 DEF Folded, M
    <3> QED BY <3>5, <3>6, <1>1, <1>3, SingleIsSection DEF B
  <2>10. CASE ~(Cardinality(M) < 2)
    <3> DEFINE key == [j \in M |-> ChunkNo[hs[j].chunk]]
               R == ByKey(M, key)
               r == Ranked(M, R)
               o == Arranged(chunkOf, M, R)
               n == Cardinality(M)
               h == Folded(hs, i)
    <3>1. Folded(hs, i) = Section(hs, i)
      BY <2>10 DEF Folded, M
    <3>2. h.chunk = c /\ h.cite = o[1] /\ h.text = SectionText(o) /\ h.merged = n
      BY <3>1 DEF Section, M, chunkOf
    <3>3. \A d \in B : ChunkNo[d] \in Nat
      BY <2>2, FoundIs, RetrievalAssumption
    <3>4. \A j \in M : hs[j].chunk = chunkOf[j] /\ ChunkNo[chunkOf[j]] \in Int
      BY <2>3, <2>4, <2>5, <3>3
    <3>5. key \in [M -> Int] /\ \A j \in M : key[j] = ChunkNo[chunkOf[j]]
      BY <3>4
    <3>6. M \subseteq Int
      BY <2>3, <1>1
    <3>7. \A j, k : <<j, k>> \in R => (key[j] < key[k] \/ (key[j] = key[k] /\ j < k))
      BY DEF ByKey
    <3> HIDE DEF key
    <3>8. TotalOrder(M, R)
      BY <3>5, <3>6, ByKeyIsOrder
    <3> HIDE DEF R
    <3>9. Enumerates(r, M, R)
      BY <3>8, <2>6, RankedEnumerates
    <3>10. Lists(o, n, chunkOf, r)
      BY <3>8, <2>6, ArrangedIs
    <3> HIDE DEF o, r, h
    <3>11. /\ r \in [1..n -> M]
           /\ \A j \in M : \E k \in 1..n : r[k] = j
           /\ \A k, l \in 1..n : k < l => <<r[k], r[l]>> \in R
      BY <3>9 DEF Enumerates
    <3>12. IsSequence(o) /\ Len(o) = n /\ DOMAIN o = 1..n /\ \A k \in 1..n : o[k] = chunkOf[r[k]]
      BY <3>10 DEF Lists
    <3>13. \A k \in 1..n : o[k] \in B
      BY <3>11, <3>12, <2>5
    <3>14. \A d \in B : \E k \in 1..n : o[k] = d
      <4> SUFFICES ASSUME NEW d \in B PROVE \E k \in 1..n : o[k] = d
        OBVIOUS
      <4>1. PICK j \in M : chunkOf[j] = d
        BY <2>5
      <4>2. PICK k \in 1..n : r[k] = j
        BY <3>11
      <4> QED BY <4>1, <4>2, <3>12
    <3>15. ASSUME NEW k \in 1..n, NEW l \in 1..n, k < l
           PROVE  ChunkNo[o[k]] <= ChunkNo[o[l]] /\ o[k] # o[l]
      <4>1. r[k] \in M /\ r[l] \in M /\ <<r[k], r[l]>> \in R
        BY <3>11, <3>15
      <4>2. r[k] # r[l]
        BY <4>1, <3>8 DEF TotalOrder
      <4>3. key[r[k]] <= key[r[l]]
        <5>1. key[r[k]] \in Int /\ key[r[l]] \in Int
          BY <4>1, <3>5
        <5>2. key[r[k]] < key[r[l]] \/ key[r[k]] = key[r[l]]
          BY <4>1, <3>7
        <5> QED BY <5>1, <5>2
      <4>4. o[k] = chunkOf[r[k]] /\ o[l] = chunkOf[r[l]]
        BY <3>12
      <4>5. o[k] # o[l]
        BY <4>1, <4>2, <4>4, <2>5
      <4>6. key[r[k]] = ChunkNo[o[k]] /\ key[r[l]] = ChunkNo[o[l]]
        BY <4>1, <4>4, <3>5
      <4> QED BY <4>3, <4>5, <4>6
    <3>16. \A d \in B : ChunkNo[o[1]] <= ChunkNo[d]
      <4> SUFFICES ASSUME NEW d \in B PROVE ChunkNo[o[1]] <= ChunkNo[d]
        OBVIOUS
      <4>1. PICK k \in 1..n : o[k] = d
        BY <3>14
      <4>2. 1 \in 1..n /\ (k = 1 \/ 1 < k)
        BY <2>8
      <4>3. CASE k = 1
        BY <4>1, <4>3, <3>3
      <4>4. CASE 1 < k
        BY <4>1, <4>2, <4>4, <3>15
      <4> QED BY <4>2, <4>3, <4>4
    <3>17. Drawn(SectionText(o), o, n)
      BY <3>12, SectionTextDrawn
    <3> DEFINE t == SectionText(o)
    <3> HIDE DEF t
    <3>18. \A m \in DOMAIN t : t[m] \in B
      BY <3>13, <3>17 DEF Drawn, t
    <3>19. \A m, k \in DOMAIN t : m < k => ChunkNo[t[m]] <= ChunkNo[t[k]] /\ t[m] # t[k]
      <4> SUFFICES ASSUME NEW m \in DOMAIN t, NEW k \in DOMAIN t, m < k
                   PROVE  ChunkNo[t[m]] <= ChunkNo[t[k]] /\ t[m] # t[k]
        OBVIOUS
      <4>1. PICK a \in 1..n, b \in 1..n : a < b /\ t[m] = o[a] /\ t[k] = o[b]
        BY <3>17 DEF Drawn, t
      <4> QED BY <4>1, <3>15
    <3>20. o[1] \in B
      BY <3>13, <2>8
    <3>21. h.text = t /\ h.cite = o[1] /\ h.merged = Cardinality(B) /\ h.chunk = c
      BY <3>2, <2>7 DEF t
    <3>22. Siblings(h.chunk) = B
      BY <3>21 DEF B
    <3>24. Fits(t, o, n)
      <4>1. \A k \in 1..n : o[k] \in Chunks
        BY <3>13, <2>2, FoundIs
      <4> QED BY <3>12, <4>1, SectionTextFits DEF t
    <3>25. TextLength(t) <= ParentMergeMaxChars
      BY <3>24 DEF Fits
    <3>26. \A d \in B : \/ Length[d] = 0 \/ \E m \in DOMAIN t : t[m] = d
                       \/ TextLength(Append(t, d)) > ParentMergeMaxChars
      BY <3>14, <3>24 DEF Fits
    <3>23. SectionOK(h)
      BY <3>16, <3>18, <3>19, <3>20, <3>21, <3>22, <3>25, <3>26 DEF SectionOK
    <3> QED BY <3>21, <3>23 DEF h
  <2> QED BY <2>9, <2>10
<1> QED BY <1>4, <1>5

\* The reranker scores chunks of the answer.
CrossOK == DOMAIN cross \subseteq Found /\ \A c \in DOMAIN cross : cross[c] \in Int

\* The hits are the sections of the answer, best first.
SectionsRanked(hs) ==
  /\ IsSequence(hs)
  /\ \A i \in DOMAIN hs : hs[i].chunk \in Bests /\ SectionOK(hs[i])
  /\ \A c \in Bests : \E i \in DOMAIN hs : hs[i].chunk = c
  /\ InOrder(hs, cross)
  /\ \A c \in Found : \E i \in DOMAIN hs : FileOfHit(hs[i]) = FileOf[c]

\* Precedes is Outranks under the scores of this search.
LEMMA PrecedesIs == \A c, d : Precedes(c, d) = Outranks(cross, c, d)
BY DEF Precedes, Outranks, Reranked

\* Without folding, every chunk is its section.
LEMMA UnmergedRanks ==
  ASSUME VecOK, CrossOK, ParentMergeDisabled, NEW hs, OneEach(hs), InOrder(hs, cross)
  PROVE  SectionsRanked(hs)
<1>1. \A c \in Found : Siblings(c) = {c}
  BY DEF Siblings
<1>2. Bests = Found
  BY <1>1 DEF Bests
<1>3. \A i \in DOMAIN hs : hs[i].chunk \in Found /\ SectionOK(hs[i])
  BY <1>1, SingleIsSection DEF OneEach
<1> QED BY <1>2, <1>3 DEF OneEach, SectionsRanked, FileOfHit

\* mergeParents leaves each section at the place of its best chunk, and loses none.
LEMMA MergedRanks ==
  ASSUME VecOK, CrossOK, ~ParentMergeDisabled, NEW hs, OneEach(hs), InOrder(hs, cross)
  PROVE  SectionsRanked(mergeParents(hs))
<1> DEFINE D == DOMAIN hs
           L == Leads(hs)
           P == Places(L)
           n == Cardinality(L)
           q == mergeParents(hs)
           folds == [i \in D |-> Folded(hs, i)]
           chunk(i) == hs[i].chunk
           Same(i, j) == SameSection(hs[i], hs[j])
<1>1. /\ IsSequence(hs) /\ D = 1..Len(hs) /\ Len(hs) \in Nat
      /\ \A i \in D : chunk(i) \in Found
      /\ \A c \in Found : \E i \in D : chunk(i) = c
  BY DEF OneEach, IsSequence
<1>2. \A i, j \in D : /\ i < j <=> Precedes(chunk(i), chunk(j))
                      /\ chunk(i) = chunk(j) => i = j
  <2> SUFFICES ASSUME NEW i \in D, NEW j \in D
               PROVE  /\ i < j <=> Precedes(chunk(i), chunk(j))
                      /\ chunk(i) = chunk(j) => i = j
    OBVIOUS
  <2>1. /\ i < j <=> Outranks(cross, chunk(i), chunk(j))
        /\ chunk(i) = chunk(j) => i = j
    BY <1>1, InOrderIffBefore DEF CrossOK
  <2> QED BY <2>1, PrecedesIs
<1>3. \A i, j \in D : Same(i, j) <=> SectionOf[chunk(i)] # None /\ SectionOf[chunk(j)] = SectionOf[chunk(i)]
  BY DEF SameSection
<1>4. \A i : i \in L <=> i \in D /\ \A j \in 1..i - 1 : ~Same(i, j)
  BY DEF Leads
<1>5. \A i \in D : \A j : j \in 1..i - 1 <=> j \in D /\ j < i
  BY <1>1
<1>6. \A i \in D : \A d : d \in Siblings(chunk(i)) \ {chunk(i)} <=>
                            \E j \in D : j # i /\ d = chunk(j) /\ Same(i, j)
  <2> HIDE DEF chunk, D
  <2> QED BY <1>1, <1>2, <1>3 DEF Siblings
<1>7. ASSUME NEW i \in D
      PROVE  i \in L <=> chunk(i) \in Bests
  <2>1. chunk(i) \in Bests <=> \A j \in D : j # i /\ Same(i, j) => Precedes(chunk(i), chunk(j))
    <3> HIDE DEF chunk, D
    <3> QED BY <1>1, <1>6 DEF Bests
  <2>2. \A j \in D : Precedes(chunk(i), chunk(j)) <=> i < j
    BY <1>2
  <2>3. i \in L <=> \A j \in D : j < i => ~Same(i, j)
    BY <1>4, <1>5
  <2>4. \A j \in D : i \in Int /\ j \in Int
    BY <1>1
  <2> HIDE DEF L, D
  <2> QED BY <2>1, <2>2, <2>3, <2>4
<1>8. L \subseteq Int /\ IsFiniteSet(L) /\ n \in Nat
  <2>1. L \subseteq D
    BY <1>4
  <2> HIDE DEF L
  <2>2. IsFiniteSet(D)
    BY <1>1, UpTo
  <2>3. IsFiniteSet(L)
    BY <2>1, <2>2, FS_Subset
  <2>4. n \in Nat
    BY <2>3, SizeIsNat
  <2>5. L \subseteq Int
    BY <2>1, <1>1
  <2> QED BY <2>3, <2>4, <2>5
<1>9. q = Picked(folds, L)
  BY DEF mergeParents
<1> HIDE DEF L, q, folds
<1>10. /\ P \in [1..n -> L]
       /\ \A i \in L : \E k \in 1..n : P[k] = i
       /\ \A k, l \in 1..n : k < l <=> P[k] < P[l]
  <2>1. Ascends(P, L)
    BY <1>8, PlacesInOrder
  <2> HIDE DEF P
  <2> QED BY <2>1 DEF Ascends
<1>11. IsSequence(q) /\ DOMAIN q = 1..n /\ \A k \in 1..n : q[k] = folds[P[k]]
  <2>1. Lists(q, n, folds, P)
    BY <1>8, <1>9, PickedIs
  <2> HIDE DEF P
  <2> QED BY <2>1 DEF Lists
<1> HIDE DEF P, n
<1>12. \A k \in 1..n : P[k] \in L /\ P[k] \in D
  BY <1>10, <1>4
<1>13. \A k \in 1..n : SectionOK(q[k]) /\ q[k].chunk = chunk(P[k])
  <2> SUFFICES ASSUME NEW k \in 1..n PROVE SectionOK(q[k]) /\ q[k].chunk = chunk(P[k])
    OBVIOUS
  <2>1. q[k] = Folded(hs, P[k])
    BY <1>11, <1>12 DEF folds
  <2>2. SectionOK(Folded(hs, P[k])) /\ Folded(hs, P[k]).chunk = hs[P[k]].chunk
    BY <1>12, FoldedIsSection DEF CrossOK
  <2> QED BY <2>1, <2>2
<1> HIDE DEF chunk
<1>14. \A k \in 1..n : q[k].chunk \in Bests
  BY <1>7, <1>12, <1>13
<1>15. \A c \in Bests : \E k \in 1..n : q[k].chunk = c
  <2> SUFFICES ASSUME NEW c \in Bests PROVE \E k \in 1..n : q[k].chunk = c
    OBVIOUS
  <2>1. PICK i \in D : chunk(i) = c
    BY <1>1 DEF Bests
  <2>2. PICK k \in 1..n : P[k] = i
    BY <2>1, <1>7, <1>10
  <2> QED BY <2>1, <2>2, <1>13
<1>16. \A k, l \in 1..n : k < l => Outranks(cross, q[k].chunk, q[l].chunk)
  <2> SUFFICES ASSUME NEW k \in 1..n, NEW l \in 1..n, k < l
               PROVE  Outranks(cross, q[k].chunk, q[l].chunk)
    OBVIOUS
  <2>1. Precedes(chunk(P[k]), chunk(P[l]))
    BY <1>2, <1>10, <1>12
  <2> QED BY <2>1, <1>13, PrecedesIs
<1>17. \A c \in Found : \E k \in 1..n : FileOfHit(q[k]) = FileOf[c]
  <2> SUFFICES ASSUME NEW c \in Found PROVE \E k \in 1..n : FileOfHit(q[k]) = FileOf[c]
    OBVIOUS
  <2>1. PICK i \in D : chunk(i) = c
    BY <1>1
  <2>2. \E j \in L : FileOf[chunk(j)] = FileOf[c]
    <3>1. CASE i \in L
      BY <2>1, <3>1
    <3>2. CASE i \notin L
      <4> DEFINE E == {j \in D : j < i /\ Same(i, j)}
      <4>1. E # {} /\ E \subseteq Nat
        BY <3>2, <1>1, <1>4, <1>5
      <4> HIDE DEF E
      <4>2. PICK j \in E : \A k \in E : j <= k
        BY <4>1, LeastOne
      <4>3. j \in D /\ j < i /\ Same(i, j)
        BY <4>2 DEF E
      <4>4. \A k \in D : k < j => ~Same(j, k)
        <5> SUFFICES ASSUME NEW k \in D, k < j, Same(j, k) PROVE FALSE
          OBVIOUS
        <5>1. k \in Int /\ j \in Int /\ i \in Int
          BY <4>3, <1>1
        <5>2. Same(i, k)
          BY <4>3, <1>3
        <5>3. k \in E
          BY <5>1, <5>2, <4>3 DEF E
        <5> QED BY <5>1, <5>3, <4>2
      <4>5. j \in L
        BY <4>3, <4>4, <1>4, <1>5
      <4>6. FileOf[chunk(j)] = FileOf[chunk(i)]
        <5>1. chunk(i) \in Chunks /\ chunk(j) \in Chunks
          BY <4>3, <1>1, FoundIs
        <5>2. SectionOf[chunk(i)] # None /\ SectionOf[chunk(j)] = SectionOf[chunk(i)]
          BY <4>3, <1>3
        <5> QED BY <5>1, <5>2, RetrievalAssumption
      <4> QED BY <4>5, <4>6, <2>1
    <3> QED BY <3>1, <3>2
  <2>3. PICK j \in L : FileOf[chunk(j)] = FileOf[c]
    BY <2>2
  <2>4. PICK k \in 1..n : P[k] = j
    BY <1>10
  <2> QED BY <2>3, <2>4, <1>13 DEF FileOfHit
<1>18. SectionsRanked(q)
  <2>1. InOrder(q, cross)
    BY <1>11, <1>16 DEF InOrder
  <2>2. \A k \in DOMAIN q : q[k].chunk \in Bests /\ SectionOK(q[k])
    BY <1>11, <1>13, <1>14
  <2>3. \A c \in Bests : \E k \in DOMAIN q : q[k].chunk = c
    BY <1>11, <1>15
  <2>4. \A c \in Found : \E k \in DOMAIN q : FileOfHit(q[k]) = FileOf[c]
    BY <1>11, <1>17
  <2> QED BY <1>11, <2>1, <2>2, <2>3, <2>4 DEF SectionsRanked
<1> QED BY <1>18 DEF q

(***************************************************************************)
(* The cut.                                                                *)
(***************************************************************************)

\* The chunks that hits q stand for.
ShownBy(q) == {q[i].chunk : i \in DOMAIN q}

\* BestSectionsFirst, of the hits q and the limit n.
TopSections(q, n) ==
  /\ \A i, j \in DOMAIN q : i < j => Precedes(q[i].chunk, q[j].chunk)
  /\ ShownBy(q) \subseteq Bests
  /\ Len(q) = Least(n, Cardinality(Bests))
  /\ \A c \in Bests \ ShownBy(q), d \in ShownBy(q) : Precedes(d, c)

\* What SectionsRanked says of the places.
LEMMA PlacesOfSections ==
  ASSUME VecOK, CrossOK, NEW hs, SectionsRanked(hs)
  PROVE  /\ DOMAIN hs = 1..Len(hs) /\ Len(hs) \in Nat
         /\ \A i \in DOMAIN hs : hs[i].chunk \in Bests /\ hs[i].chunk \in Found
         /\ \A c \in Bests : \E i \in DOMAIN hs : hs[i].chunk = c
         /\ \A i, j \in DOMAIN hs : /\ i < j <=> Precedes(hs[i].chunk, hs[j].chunk)
                                    /\ hs[i].chunk = hs[j].chunk => i = j
<1>1. DOMAIN hs = 1..Len(hs) /\ Len(hs) \in Nat
  BY DEF SectionsRanked, IsSequence
<1>2. \A i \in DOMAIN hs : hs[i].chunk \in Bests /\ hs[i].chunk \in Found
  BY DEF SectionsRanked, Bests
<1>3. \A c \in Bests : \E i \in DOMAIN hs : hs[i].chunk = c
  BY DEF SectionsRanked
<1>4. ASSUME NEW i \in DOMAIN hs, NEW j \in DOMAIN hs
      PROVE  /\ i < j <=> Precedes(hs[i].chunk, hs[j].chunk)
             /\ hs[i].chunk = hs[j].chunk => i = j
  <2>1. IsSequence(hs) /\ InOrder(hs, cross) /\ \A c \in DOMAIN cross : cross[c] \in Int
    BY DEF SectionsRanked, CrossOK
  <2>2. /\ i < j <=> Outranks(cross, hs[i].chunk, hs[j].chunk)
        /\ hs[i].chunk = hs[j].chunk => i = j
    BY <1>2, <2>1, InOrderIffBefore
  <2> QED BY <2>2, PrecedesIs
<1> QED BY <1>1, <1>2, <1>3, <1>4

\* There are as many sections as hits.
LEMMA SectionsCounted ==
  ASSUME VecOK, CrossOK, NEW hs, SectionsRanked(hs)
  PROVE  Cardinality(Bests) = Len(hs)
<1> DEFINE n == Len(hs)
           D == 1..n
           f == [i \in D |-> hs[i].chunk]
<1>1. n \in Nat /\ DOMAIN hs = D
  BY PlacesOfSections
<1>2. IsFiniteSet(D) /\ Cardinality(D) = n
  BY <1>1, UpTo
<1>3. /\ \A i \in D : f[i] \in Bests
      /\ \A c \in Bests : \E i \in D : f[i] = c
      /\ \A i, j \in D : f[i] = f[j] => i = j
  <2>1. \A i \in D : f[i] = hs[i].chunk
    OBVIOUS
  <2> HIDE DEF f, D
  <2> QED BY <2>1, <1>1, PlacesOfSections
<1> HIDE DEF f, D
<1>4. Cardinality(Bests) = Cardinality(D)
  BY <1>2, <1>3, SameSize
<1> QED BY <1>2, <1>4

\* Truncating to topK keeps the best sections.
LEMMA PrefixIsBest ==
  ASSUME VecOK, CrossOK, NEW hs, SectionsRanked(hs), NEW n \in Nat
  PROVE  /\ TopSections(Prefix(hs, n), n)
         /\ IsSequence(Prefix(hs, n))
         /\ \A i \in DOMAIN Prefix(hs, n) : SectionOK(Prefix(hs, n)[i])
<1> DEFINE q == Prefix(hs, n)
           N == Len(hs)
           m == Least(n, N)
<1>1. /\ DOMAIN hs = 1..N /\ N \in Nat
      /\ \A i \in 1..N : hs[i].chunk \in Bests /\ hs[i].chunk \in Found
      /\ \A c \in Bests : \E i \in 1..N : hs[i].chunk = c
      /\ \A i, j \in 1..N : /\ i < j <=> Precedes(hs[i].chunk, hs[j].chunk)
                            /\ hs[i].chunk = hs[j].chunk => i = j
  BY PlacesOfSections
<1>2. m \in 0..N
  BY <1>1 DEF Least
<1>3. q = SubSeq(hs, 1, m)
  BY DEF Prefix
<1>4. hs \in Seq(Range(hs))
  BY DEF SectionsRanked, IsSequence
<1>5. Cardinality(Bests) = N
  BY SectionsCounted
<1> HIDE DEF q, m
<1>6. Len(q) = m /\ DOMAIN q = 1..m /\ \A i \in 1..m : q[i] = hs[i]
  BY <1>1, <1>2, <1>3, <1>4
<1>7. q = [i \in 1..m |-> q[i]]
  BY <1>2, <1>3, <1>4, <1>6
<1>8. IsSequence(q)
  BY <1>2, <1>6, <1>7, SequenceOf
<1> HIDE DEF N
<1>9. \A i \in 1..m : i \in 1..N
  BY <1>1, <1>2
<1>10. \A i \in DOMAIN q : SectionOK(q[i])
  BY <1>1, <1>6, <1>9 DEF SectionsRanked
<1>11. \A c : c \in ShownBy(q) <=> \E i \in 1..m : c = hs[i].chunk
  BY <1>6 DEF ShownBy
<1>12. \A c \in Bests \ ShownBy(q), d \in ShownBy(q) : Precedes(d, c)
  <2> SUFFICES ASSUME NEW c \in Bests \ ShownBy(q), NEW d \in ShownBy(q)
               PROVE  Precedes(d, c)
    OBVIOUS
  <2>1. PICK j \in 1..m : d = hs[j].chunk
    BY <1>11
  <2>2. PICK i \in 1..N : hs[i].chunk = c
    BY <1>1
  <2>3. i \notin 1..m
    BY <2>2, <1>11
  <2>4. j < i
    BY <2>3, <1>1, <1>2
  <2> QED BY <2>1, <2>2, <2>4, <1>1, <1>9
<1>13. ShownBy(q) \subseteq Bests
  BY <1>1, <1>9, <1>11
<1>14. \A i, j \in DOMAIN q : i < j => Precedes(q[i].chunk, q[j].chunk)
  BY <1>1, <1>6, <1>9
<1>15. TopSections(q, n)
  BY <1>5, <1>6, <1>12, <1>13, <1>14 DEF TopSections, m, N
<1> QED BY <1>8, <1>10, <1>15 DEF q

\* The best section of a file.
LeadOf(f) == CHOOSE c \in Bests : FileOf[c] = f /\
               \A d \in Bests \ {c} : FileOf[d] = f => Precedes(c, d)
\* The group of f in q, the files and the sections found.
GroupIn(q, f) == Picked(q, {i \in DOMAIN q : FileOfHit(q[i]) = f})
FilesFound == {FileOf[c] : c \in Found}
Own(f) == {c \in Bests : FileOf[c] = f}

\* BestFilesFirst, of the hits q and the limits n and m.
TopFiles(q, n, m) ==
  /\ Cardinality(Files(q)) = Least(n, Cardinality(FilesFound))
  /\ \A f \in FilesFound \ Files(q), g \in Files(q) : Precedes(LeadOf(g), LeadOf(f))
  /\ \A i, j \in DOMAIN q : i < j /\ FileOfHit(q[i]) # FileOfHit(q[j]) =>
       Precedes(LeadOf(FileOfHit(q[i])), LeadOf(FileOfHit(q[j])))
  /\ \A f \in Files(q) :
       /\ Len(GroupIn(q, f)) = Least(m, Cardinality(Own(f)))
       /\ GroupIn(q, f)[1].chunk = LeadOf(f)
       /\ \A c \in Own(f) \ ShownBy(q), d \in Own(f) \cap ShownBy(q) : Precedes(d, c)

\* A file begins at one place, the least of its places.
LEMMA FileLeadIs ==
  ASSUME NEW hs, NEW n \in Nat, DOMAIN hs = 1..n
  PROVE  /\ FileLeads(hs) \subseteq 1..n
         /\ \A i \in 1..n : /\ FileLead(hs, i) \in FileLeads(hs)
                            /\ FileOfHit(hs[FileLead(hs, i)]) = FileOfHit(hs[i])
                            /\ FileLead(hs, i) <= i
         /\ \A i \in 1..n, j \in FileLeads(hs) :
              FileOfHit(hs[i]) = FileOfHit(hs[j]) => FileLead(hs, i) = j
<1> DEFINE L == FileLeads(hs)
           file(i) == FileOfHit(hs[i])
<1>1. \A i : i \in L <=> i \in 1..n /\ \A j \in 1..i - 1 : file(j) # file(i)
  BY DEF FileLeads
<1>2. \A i \in 1..n : FileLead(hs, i) = CHOOSE j \in L : file(j) = file(i)
  BY DEF FileLead
<1> HIDE DEF L, file
<1>3. ASSUME NEW i \in L, NEW j \in L, file(i) = file(j)
      PROVE  i = j
  <2>1. i \in 1..n /\ j \in 1..n
    BY <1>1
  <2>2. ~(i < j)
    <3> SUFFICES ASSUME i < j PROVE FALSE
      OBVIOUS
    <3>1. i \in 1..j - 1
      BY <2>1
    <3> QED BY <3>1, <1>1, <1>3
  <2>3. ~(j < i)
    <3> SUFFICES ASSUME j < i PROVE FALSE
      OBVIOUS
    <3>1. j \in 1..i - 1
      BY <2>1
    <3> QED BY <3>1, <1>1, <1>3
  <2> QED BY <2>1, <2>2, <2>3
<1>4. ASSUME NEW i \in 1..n
      PROVE  \E j \in L : file(j) = file(i) /\ j <= i
  <2> DEFINE E == {j \in 1..n : file(j) = file(i)}
  <2>1. i \in E /\ E \subseteq Nat
    OBVIOUS
  <2> HIDE DEF E
  <2>2. PICK j \in E : \A k \in E : j <= k
    BY <2>1, LeastOne
  <2>3. j \in 1..n /\ file(j) = file(i) /\ j <= i
    BY <2>1, <2>2 DEF E
  <2>4. \A k \in 1..j - 1 : file(k) # file(j)
    <3> SUFFICES ASSUME NEW k \in 1..j - 1, file(k) = file(j) PROVE FALSE
      OBVIOUS
    <3>1. k \in 1..n /\ k < j
      BY <2>3
    <3>2. k \in E
      BY <3>1, <2>3 DEF E
    <3>3. j <= k
      BY <3>2, <2>2
    <3> QED BY <3>1, <3>3, <2>3
  <2>5. j \in L
    BY <2>3, <2>4, <1>1
  <2> QED BY <2>3, <2>5
<1>5. \A i \in 1..n : FileLead(hs, i) \in L /\ file(FileLead(hs, i)) = file(i)
  BY <1>2, <1>4
<1>6. \A i \in 1..n, j \in L : file(i) = file(j) => FileLead(hs, i) = j
  BY <1>3, <1>5
<1>7. \A i \in 1..n : FileLead(hs, i) <= i
  <2> SUFFICES ASSUME NEW i \in 1..n PROVE FileLead(hs, i) <= i
    OBVIOUS
  <2>1. PICK j \in L : file(j) = file(i) /\ j <= i
    BY <1>4
  <2>2. FileLead(hs, i) = j
    BY <2>1, <1>6
  <2> QED BY <2>1, <2>2
<1>8. L \subseteq 1..n
  BY <1>1
<1> QED BY <1>5, <1>6, <1>7, <1>8 DEF L, file

\* The best section of a file is the one it begins with.
LEMMA LeadOfIs ==
  ASSUME VecOK, CrossOK, NEW hs, SectionsRanked(hs), NEW j \in FileLeads(hs)
  PROVE  LeadOf(FileOfHit(hs[j])) = hs[j].chunk
<1> DEFINE f == FileOfHit(hs[j])
           b == hs[j].chunk
           Leading(c) == FileOf[c] = f /\ \A d \in Bests \ {c} : FileOf[d] = f => Precedes(c, d)
<1>1. /\ DOMAIN hs = 1..Len(hs) /\ Len(hs) \in Nat
      /\ \A i \in DOMAIN hs : hs[i].chunk \in Bests /\ hs[i].chunk \in Found
      /\ \A c \in Bests : \E i \in DOMAIN hs : hs[i].chunk = c
      /\ \A i, k \in DOMAIN hs : /\ i < k <=> Precedes(hs[i].chunk, hs[k].chunk)
                                 /\ hs[i].chunk = hs[k].chunk => i = k
  BY PlacesOfSections
<1>2. j \in DOMAIN hs /\ \A i \in DOMAIN hs : FileOf[hs[i].chunk] = f => j <= i
  <2>1. \A i \in DOMAIN hs : FileOfHit(hs[i]) = FileOfHit(hs[j]) => j <= i
    <3> SUFFICES ASSUME NEW i \in DOMAIN hs, FileOfHit(hs[i]) = FileOfHit(hs[j]) PROVE j <= i
      OBVIOUS
    <3>1. FileLead(hs, i) = j /\ FileLead(hs, i) <= i
      BY <1>1, FileLeadIs
    <3> QED BY <3>1
  <2>2. j \in DOMAIN hs
    BY <1>1, FileLeadIs
  <2> QED BY <2>1, <2>2 DEF FileOfHit
<1>3. b \in Bests /\ FileOf[b] = f
  BY <1>1, <1>2 DEF FileOfHit
<1>4. \A d \in Bests \ {b} : FileOf[d] = f => Precedes(b, d)
  <2> SUFFICES ASSUME NEW d \in Bests \ {b}, FileOf[d] = f PROVE Precedes(b, d)
    OBVIOUS
  <2>1. PICK i \in DOMAIN hs : hs[i].chunk = d
    BY <1>1
  <2>2. j <= i /\ j # i /\ i \in Int /\ j \in Int
    BY <2>1, <1>1, <1>2
  <2> QED BY <2>1, <2>2, <1>1, <1>2
<1> HIDE DEF b, f
<1>5. ~\E c \in Bests \ {b} : Precedes(b, c) /\ Precedes(c, b)
  <2> SUFFICES ASSUME NEW c \in Bests \ {b}, Precedes(b, c), Precedes(c, b) PROVE FALSE
    OBVIOUS
  <2>1. c \in Found /\ b \in Found
    BY <1>3 DEF Bests
  <2>2. Outranks(cross, b, c) /\ Outranks(cross, c, b)
    BY PrecedesIs
  <2> QED BY <2>1, <2>2, OutranksIsOrder DEF CrossOK
<1>6. \A c \in Bests : Leading(c) => c = b
  BY <1>3, <1>4, <1>5
<1>7. Leading(b)
  BY <1>3, <1>4
<1>8. LeadOf(f) = CHOOSE c \in Bests : Leading(c)
  BY DEF LeadOf
<1> HIDE DEF Leading
<1>9. LeadOf(f) = b
  BY <1>3, <1>6, <1>7, <1>8
<1> QED BY <1>9 DEF f, b

\* Grouping: the first topK files of the ranking, each with the first maxChunks of its sections.
LEMMA ByFileIsBest ==
  ASSUME VecOK, CrossOK, NEW hs, SectionsRanked(hs), topK \in Nat, maxChunks \in Nat \ {0}
  PROVE  /\ TopFiles(ByFile(hs), topK, maxChunks)
         /\ IsSequence(ByFile(hs))
         /\ \A k \in DOMAIN ByFile(hs) : SectionOK(ByFile(hs)[k]) /\ ByFile(hs)[k].chunk \in Bests
<1> DEFINE N == Len(hs)
           D == 1..N
           chunk(i) == hs[i].chunk
           file(i) == FileOfHit(hs[i])
           L == FileLeads(hs)
           lead(i) == FileLead(hs, i)
           own(i) == FilePlaces(hs, i)
           K == {i \in D : /\ Cardinality(Before(L, lead(i))) < topK
                           /\ Cardinality(Before(own(i), i)) < maxChunks}
           KL == {j \in L : Cardinality(Before(L, j)) < topK}
           KP(j) == {i \in own(j) : Cardinality(Before(own(j), i)) < maxChunks}
           key == [i \in K |-> lead(i)]
           R == ByKey(K, key)
           r == Ranked(K, R)
           n == Cardinality(K)
           q == ByFile(hs)
<1>1. /\ DOMAIN hs = D /\ N \in Nat
      /\ \A i \in D : chunk(i) \in Bests /\ chunk(i) \in Found
      /\ \A c \in Bests : \E i \in D : chunk(i) = c
      /\ \A i, j \in D : /\ i < j <=> Precedes(chunk(i), chunk(j))
                         /\ chunk(i) = chunk(j) => i = j
  BY PlacesOfSections
<1>2. /\ L \subseteq D
      /\ \A i \in D : lead(i) \in L /\ file(lead(i)) = file(i) /\ lead(i) <= i
      /\ \A i \in D, j \in L : file(i) = file(j) => lead(i) = j
  BY <1>1, FileLeadIs
<1>3. \A i : file(i) = FileOf[chunk(i)]
  BY DEF FileOfHit
<1>4. \A j \in L : LeadOf(file(j)) = chunk(j)
  BY LeadOfIs
<1>5. \A c \in Found : \E i \in D : file(i) = FileOf[c]
  BY <1>1 DEF SectionsRanked
<1>6. \A i, j : i \in own(j) <=> i \in D /\ file(i) = file(j)
  BY <1>1 DEF FilePlaces
<1>7. \A i \in D : SectionOK(hs[i])
  BY <1>1 DEF SectionsRanked
<1>8. \A i, j \in D : file(i) = file(j) => own(i) = own(j)
  BY DEF FilePlaces
<1>9. q = Arranged(hs, K, R)
  BY <1>1 DEF ByFile
<1>10. \A S : S \subseteq D => IsFiniteSet(S) /\ S \subseteq Int
  <2> HIDE DEF N
  <2>1. IsFiniteSet(D)
    BY <1>1, UpTo
  <2>2. \A i \in D : i \in Int
    BY <1>1
  <2> HIDE DEF D
  <2>3. ASSUME NEW S, S \subseteq D
        PROVE  IsFiniteSet(S) /\ S \subseteq Int
    <3>1. IsFiniteSet(S)
      BY <2>1, <2>3, FS_Subset
    <3>2. S \subseteq Int
      BY <2>2, <2>3
    <3> QED BY <3>1, <3>2
  <2> QED BY <2>3
<1> HIDE DEF N, D, chunk, file, L, lead, own, q
<1>11. /\ Cardinality(KL) = Least(topK, Cardinality(L))
       /\ \A j \in KL, i \in L \ KL : j < i
  <2>1. L \subseteq Int /\ IsFiniteSet(L)
    BY <1>2, <1>10
  <2> QED BY <2>1, FirstOnes
<1>12. ASSUME NEW j \in D
       PROVE  /\ Cardinality(KP(j)) = Least(maxChunks, Cardinality(own(j)))
              /\ \A a \in KP(j), i \in own(j) \ KP(j) : a < i
  <2>1. own(j) \subseteq D
    BY <1>6
  <2>2. own(j) \subseteq Int /\ IsFiniteSet(own(j))
    BY <2>1, <1>10
  <2>3. maxChunks \in Nat
    OBVIOUS
  <2> HIDE DEF own
  <2> QED BY <2>2, <2>3, FirstOnes
<1>13. \A i : i \in K <=> i \in D /\ lead(i) \in KL /\ i \in KP(i)
  BY <1>2, <1>6
<1>14. \A i, j \in D : file(i) = file(j) => KP(i) = KP(j)
  BY <1>8
<1>15. \A j \in KL : j \in K /\ lead(j) = j /\ j \in D
  <2> SUFFICES ASSUME NEW j \in KL PROVE j \in K /\ lead(j) = j /\ j \in D
    OBVIOUS
  <2>1. j \in L /\ j \in D /\ lead(j) = j
    BY <1>2
  <2>2. Before(own(j), j) = {}
    <3> SUFFICES ASSUME NEW i \in own(j), i < j PROVE FALSE
      BY DEF Before
    <3>1. i \in D /\ file(i) = file(j)
      BY <1>6
    <3>2. lead(i) = j /\ lead(i) <= i
      BY <2>1, <3>1, <1>2
    <3>3. i \in Int /\ j \in Int
      BY <2>1, <3>1, <1>10
    <3> QED BY <3>2, <3>3
  <2>3. Cardinality(Before(own(j), j)) = 0
    BY <2>2, FS_EmptySet
  <2>4. Cardinality(Before(own(j), j)) < maxChunks
    BY <2>3
  <2> QED BY <2>1, <2>4
<1>16. K \subseteq D /\ IsFiniteSet(K) /\ n \in Nat
  <2>1. K \subseteq D
    OBVIOUS
  <2> HIDE DEF K
  <2> QED BY <2>1, <1>10, SizeIsNat
<1>17. key \in [K -> Int] /\ \A i \in K : key[i] = lead(i)
  <2>1. \A i \in K : lead(i) \in Int
    BY <1>2, <1>10
  <2> HIDE DEF K
  <2> QED BY <2>1
<1>18. \A i, j : <<i, j>> \in R => (key[i] < key[j] \/ (key[i] = key[j] /\ i < j))
  BY DEF ByKey
<1> HIDE DEF K, KL, KP, key
<1>19. TotalOrder(K, R)
  BY <1>10, <1>16, <1>17, ByKeyIsOrder
<1> HIDE DEF R
<1>20. Enumerates(r, K, R) /\ Lists(q, n, hs, r)
  BY <1>9, <1>16, <1>19, RankedEnumerates, ArrangedIs
<1> HIDE DEF r
<1>21. /\ r \in [1..n -> K]
       /\ \A i \in K : \E k \in 1..n : r[k] = i
       /\ \A k, l \in 1..n : k < l => <<r[k], r[l]>> \in R
  BY <1>20 DEF Enumerates
<1>22. IsSequence(q) /\ Len(q) = n /\ DOMAIN q = 1..n /\ \A k \in 1..n : q[k] = hs[r[k]]
  BY <1>20 DEF Lists
<1> HIDE DEF n
<1>23. \A k \in 1..n : r[k] \in K /\ r[k] \in D
  BY <1>16, <1>21
<1>24. \A k \in 1..n : q[k].chunk = chunk(r[k]) /\ FileOfHit(q[k]) = file(r[k])
  BY <1>22 DEF chunk, file
<1>25. \A k, l \in 1..n : k < l =>
         lead(r[k]) < lead(r[l]) \/ (lead(r[k]) = lead(r[l]) /\ r[k] < r[l])
  <2> SUFFICES ASSUME NEW k \in 1..n, NEW l \in 1..n, k < l
               PROVE  lead(r[k]) < lead(r[l]) \/ (lead(r[k]) = lead(r[l]) /\ r[k] < r[l])
    OBVIOUS
  <2>1. <<r[k], r[l]>> \in R
    BY <1>21
  <2>2. key[r[k]] < key[r[l]] \/ (key[r[k]] = key[r[l]] /\ r[k] < r[l])
    BY <2>1, <1>18
  <2>3. key[r[k]] = lead(r[k]) /\ key[r[l]] = lead(r[l])
    BY <1>17, <1>23
  <2> QED BY <2>2, <2>3
<1>26. \A k \in DOMAIN q : SectionOK(q[k]) /\ q[k].chunk \in Bests
  BY <1>1, <1>7, <1>22, <1>23, <1>24
<1>27. \A k, l \in 1..n : r[k] = r[l] => k = l
  <2> SUFFICES ASSUME NEW k \in 1..n, NEW l \in 1..n, r[k] = r[l] PROVE k = l
    OBVIOUS
  <2>1. <<r[k], r[l]>> \notin R /\ <<r[l], r[k]>> \notin R
    BY <1>19, <1>23 DEF TotalOrder
  <2>2. ~(k < l) /\ ~(l < k)
    BY <2>1, <1>21
  <2> QED BY <2>2, <1>16
\* The files of the answer are those of the first places.
<1>28. \A f : f \in Files(q) <=> \E j \in KL : f = file(j)
  <2>1. \A f : f \in Files(q) <=> \E k \in 1..n : f = file(r[k])
    BY <1>22, <1>24 DEF Files
  <2>2. \A k \in 1..n : lead(r[k]) \in KL /\ file(lead(r[k])) = file(r[k])
    BY <1>2, <1>13, <1>23
  <2>3. \A j \in KL : \E k \in 1..n : r[k] = j
    BY <1>15, <1>21
  <2> QED BY <2>1, <2>2, <2>3
<1>29. KL \subseteq L
  BY DEF KL
<1>30. \A j, i \in L : file(j) = file(i) => j = i
  BY <1>2
<1>31. \A f \in FilesFound : \E j \in L : f = file(j)
  <2> SUFFICES ASSUME NEW c \in Found PROVE \E j \in L : FileOf[c] = file(j)
    BY DEF FilesFound
  <2> QED BY <1>2, <1>5
<1>32. \A j \in L : file(j) \in FilesFound
  BY <1>1, <1>2, <1>3 DEF FilesFound
<1>33. Cardinality(Files(q)) = Least(topK, Cardinality(FilesFound))
  <2> DEFINE g == [j \in L |-> file(j)]
  <2>1. \A j \in L : g[j] = file(j)
    OBVIOUS
  <2> HIDE DEF g
  <2>2. IsFiniteSet(L) /\ IsFiniteSet(KL)
    <3>1. KL \subseteq D
      BY <1>2, <1>29
    <3> QED BY <3>1, <1>2, <1>10
  <2>3. Cardinality(FilesFound) = Cardinality(L)
    <3>1. /\ \A j \in L : g[j] \in FilesFound
          /\ \A f \in FilesFound : \E j \in L : g[j] = f
          /\ \A j, i \in L : g[j] = g[i] => j = i
      BY <2>1, <1>30, <1>31, <1>32
    <3> QED BY <2>2, <3>1, SameSize
  <2>4. Cardinality(Files(q)) = Cardinality(KL)
    <3>1. /\ \A j \in KL : g[j] \in Files(q)
          /\ \A f \in Files(q) : \E j \in KL : g[j] = f
          /\ \A j, i \in KL : g[j] = g[i] => j = i
      BY <2>1, <1>28, <1>29, <1>30
    <3> QED BY <2>2, <3>1, SameSize
  <2> QED BY <2>3, <2>4, <1>11
<1>34. \A f \in FilesFound \ Files(q), g \in Files(q) : Precedes(LeadOf(g), LeadOf(f))
  <2> SUFFICES ASSUME NEW f \in FilesFound \ Files(q), NEW g \in Files(q)
               PROVE  Precedes(LeadOf(g), LeadOf(f))
    OBVIOUS
  <2>1. PICK j \in KL : g = file(j)
    BY <1>28
  <2>2. PICK i \in L : f = file(i)
    BY <1>31
  <2>3. i \notin KL
    BY <2>2, <1>28
  <2>4. j < i
    BY <2>2, <2>3, <1>11
  <2>5. j \in L /\ j \in D /\ i \in D
    BY <1>2, <1>29
  <2>6. LeadOf(g) = chunk(j) /\ LeadOf(f) = chunk(i)
    BY <2>1, <2>2, <2>5, <1>4
  <2> QED BY <2>4, <2>5, <2>6, <1>1
<1>35. \A i \in D : LeadOf(file(i)) = chunk(lead(i)) /\ lead(i) \in D
  <2> SUFFICES ASSUME NEW i \in D PROVE LeadOf(file(i)) = chunk(lead(i)) /\ lead(i) \in D
    OBVIOUS
  <2>1. lead(i) \in L /\ file(lead(i)) = file(i) /\ lead(i) \in D
    BY <1>2
  <2>2. LeadOf(file(lead(i))) = chunk(lead(i))
    BY <2>1, <1>4
  <2> QED BY <2>1, <2>2
<1>36. \A k, l \in DOMAIN q : k < l /\ FileOfHit(q[k]) # FileOfHit(q[l]) =>
         Precedes(LeadOf(FileOfHit(q[k])), LeadOf(FileOfHit(q[l])))
  <2> SUFFICES ASSUME NEW k \in 1..n, NEW l \in 1..n, k < l, file(r[k]) # file(r[l])
               PROVE  Precedes(LeadOf(file(r[k])), LeadOf(file(r[l])))
    BY <1>22, <1>24
  <2>1. lead(r[k]) # lead(r[l])
    BY <1>2, <1>23
  <2>2. lead(r[k]) < lead(r[l])
    BY <2>1, <1>25
  <2> QED BY <2>2, <1>1, <1>23, <1>35
\* A file of the answer has its first places.
<1>37. ASSUME NEW f \in Files(q)
       PROVE  /\ Len(GroupIn(q, f)) = Least(maxChunks, Cardinality(Own(f)))
              /\ GroupIn(q, f)[1].chunk = LeadOf(f)
              /\ \A c \in Own(f) \ ShownBy(q), d \in Own(f) \cap ShownBy(q) : Precedes(d, c)
  <2>1. PICK j \in KL : f = file(j)
    BY <1>28
  <2>2. j \in K /\ lead(j) = j /\ j \in D /\ j \in L
    BY <1>15, <1>29
  <2> DEFINE G == {k \in 1..n : file(r[k]) = f}
  <2>3. \A k : k \in G <=> k \in 1..n /\ r[k] \in KP(j)
    <3>1. ASSUME NEW k \in 1..n
          PROVE  file(r[k]) = f <=> r[k] \in KP(j)
      <4>1. r[k] \in D /\ r[k] \in KP(r[k])
        BY <1>13, <1>23
      <4>2. file(r[k]) = f => r[k] \in KP(j)
        BY <4>1, <2>1, <2>2, <1>14
      <4>3. r[k] \in KP(j) => file(r[k]) = f
        BY <2>1, <1>6 DEF KP
      <4> QED BY <4>2, <4>3
    <3> QED BY <3>1
  <2>4. \A i \in KP(j) : i \in D /\ i \in K /\ file(i) = f
    <3> SUFFICES ASSUME NEW i \in KP(j) PROVE i \in D /\ i \in K /\ file(i) = f
      OBVIOUS
    <3>1. i \in D /\ file(i) = file(j)
      BY <1>6 DEF KP
    <3>2. i \in KP(i)
      BY <3>1, <2>2, <1>14
    <3>3. lead(i) = j
      BY <3>1, <2>2, <1>2
    <3> QED BY <3>1, <3>2, <3>3, <2>1, <1>13
  <2>5. \A i \in KP(j) : \E k \in G : r[k] = i
    BY <2>3, <2>4, <1>21
  <2>6. G \subseteq 1..n /\ G \subseteq Int /\ IsFiniteSet(G)
    <3>1. IsFiniteSet(1..n) /\ G \subseteq 1..n
      BY <1>16, UpTo
    <3> HIDE DEF G
    <3>2. IsFiniteSet(G)
      BY <3>1, FS_Subset
    <3>3. G \subseteq Int
      BY <3>1, <1>16
    <3> QED BY <3>1, <3>2, <3>3
  <2>7. GroupIn(q, f) = Picked(q, G)
    <3>1. {k \in DOMAIN q : FileOfHit(q[k]) = f} = G
      BY <1>22, <1>24
    <3> QED BY <3>1 DEF GroupIn
  <2> HIDE DEF G
  <2>8. Cardinality(G) = Cardinality(KP(j))
    <3>1. /\ \A k \in G : r[k] \in KP(j)
          /\ \A i \in KP(j) : \E k \in G : r[k] = i
          /\ \A k, l \in G : r[k] = r[l] => k = l
      BY <2>3, <2>5, <2>6, <1>27
    <3> QED BY <2>6, <3>1, SameSize
  <2>9. Cardinality(Own(f)) = Cardinality(own(j))
    <3> DEFINE g == [i \in D |-> chunk(i)]
               T == own(j)
               O == Own(f)
    <3>1. \A i \in D : g[i] = chunk(i)
      OBVIOUS
    <3>2. \A i : i \in T <=> i \in D /\ file(i) = f
      BY <2>1, <1>6
    <3>3. \A c : c \in O <=> c \in Bests /\ FileOf[c] = f
      BY DEF Own
    <3> HIDE DEF g, T, O
    <3>4. /\ \A i \in T : g[i] \in O
          /\ \A c \in O : \E i \in T : g[i] = c
          /\ \A i, k \in T : g[i] = g[k] => i = k
      BY <3>1, <3>2, <3>3, <1>1, <1>3
    <3>5. IsFiniteSet(T)
      BY <3>2, <1>10
    <3>6. Cardinality(O) = Cardinality(T)
      BY <3>4, <3>5, SameSize
    <3> QED BY <3>6 DEF O, T
  <2>10. Lists(Picked(q, G), Cardinality(G), q, Places(G)) /\ Ascends(Places(G), G)
    BY <2>6, PickedIs, PlacesInOrder
  <2>11. Len(GroupIn(q, f)) = Least(maxChunks, Cardinality(Own(f)))
    BY <2>2, <2>7, <2>8, <2>9, <2>10, <1>12 DEF Lists
  <2>12. GroupIn(q, f)[1].chunk = LeadOf(f)
    <3>1. j \in KP(j)
      BY <2>2, <1>13
    <3>2. PICK k \in G : r[k] = j
      BY <3>1, <2>5
    <3> DEFINE c == Cardinality(G)
               p == Places(G)
    <3>3. c \in Nat
      BY <2>6, SizeIsNat
    <3>4. /\ p \in [1..c -> G]
          /\ \A i \in G : \E a \in 1..c : p[a] = i
          /\ \A a, b \in 1..c : a < b <=> p[a] < p[b]
      BY <2>10 DEF Ascends
    <3> HIDE DEF c, p
    <3>5. PICK a \in 1..c : p[a] = k
      BY <3>4
    <3>6. 1 \in 1..c /\ (a = 1 \/ 1 < a)
      BY <3>3
    <3>7. p[1] \in G /\ (p[1] = k \/ p[1] < k)
      BY <3>4, <3>5, <3>6
    <3>8. p[1] = k
      <4> SUFFICES ASSUME p[1] < k PROVE FALSE
        BY <3>7
      <4>1. p[1] \in 1..n /\ k \in 1..n
        BY <3>7, <2>6
      <4>2. r[p[1]] \in D /\ file(r[p[1]]) = file(j)
        BY <3>7, <2>1, <2>3, <2>4
      <4>3. lead(r[p[1]]) = j /\ lead(r[p[1]]) <= r[p[1]]
        BY <4>2, <2>2, <1>2
      <4>4. lead(r[k]) = j
        BY <3>2, <2>2
      <4>5. lead(r[p[1]]) < lead(r[k]) \/ r[p[1]] < r[k]
        BY <4>1, <1>25
      <4>6. j \in Int /\ r[p[1]] \in Int
        BY <4>2, <2>2, <1>10
      <4> QED BY <4>3, <4>4, <4>5, <4>6, <3>2
    <3>9. GroupIn(q, f)[1] = q[k]
      BY <3>6, <3>8, <2>7, <2>10 DEF Lists, c, p
    <3>10. q[k].chunk = chunk(j)
      BY <3>2, <2>6, <1>24
    <3>11. LeadOf(f) = chunk(j)
      BY <2>1, <2>2, <1>4
    <3> QED BY <3>9, <3>10, <3>11
  <2>13. \A c \in Own(f) \ ShownBy(q), d \in Own(f) \cap ShownBy(q) : Precedes(d, c)
    <3> SUFFICES ASSUME NEW c \in Own(f) \ ShownBy(q), NEW d \in Own(f) \cap ShownBy(q)
                 PROVE  Precedes(d, c)
      OBVIOUS
    <3>1. PICK i \in D : chunk(i) = c
      BY <1>1 DEF Own
    <3>2. PICK k \in 1..n : d = chunk(r[k])
      BY <1>22, <1>24 DEF ShownBy
    <3>3. file(i) = f /\ file(r[k]) = f
      BY <3>1, <3>2, <1>3 DEF Own
    <3>4. r[k] \in KP(j) /\ r[k] \in D
      BY <3>3, <2>3, <1>23 DEF G
    <3>5. i \in own(j)
      BY <3>3, <2>1, <1>6
    <3>6. i \notin KP(j)
      <4> SUFFICES ASSUME i \in KP(j) PROVE FALSE
        OBVIOUS
      <4>1. PICK l \in G : r[l] = i
        BY <2>5
      <4>2. l \in DOMAIN q /\ q[l].chunk = c
        BY <4>1, <3>1, <2>6, <1>22, <1>24
      <4> QED BY <4>2 DEF ShownBy
    <3>7. r[k] < i
      BY <3>4, <3>5, <3>6, <2>2, <1>12
    <3> QED BY <3>1, <3>2, <3>4, <3>7, <1>1
  <2> QED BY <2>11, <2>12, <2>13
<1>38. TopFiles(q, topK, maxChunks)
  BY <1>33, <1>34, <1>36, <1>37 DEF TopFiles
<1> QED BY <1>22, <1>26, <1>38 DEF q

(***************************************************************************)
(* The steps of a search.                                                  *)
(***************************************************************************)

\* What is found and how it ranks depend on the answers of Qdrant and the reranker only.
LEMMA OrderStable ==
  ASSUME UNCHANGED <<vec, cross>>
  PROVE  /\ Found' = Found /\ VecOK' = VecOK /\ CrossOK' = CrossOK
         /\ \A c : Siblings(c)' = Siblings(c)
         /\ \A c, d : Precedes(c, d)' = Precedes(c, d)
         /\ Bests' = Bests
         /\ \A f : LeadOf(f)' = LeadOf(f) /\ Own(f)' = Own(f)
         /\ \A hs, x : InOrder(hs, x)' = InOrder(hs, x)
<1>1. Found' = Found /\ VecOK' = VecOK
  BY DEF Found, VecOK
<1>2. CrossOK' = CrossOK
  BY <1>1 DEF CrossOK
<1>3. \A c : Siblings(c)' = Siblings(c)
  BY <1>1 DEF Siblings
<1>4. \A c, d : Precedes(c, d)' = Precedes(c, d)
  BY DEF Precedes, Pos, Reranked
<1>5. Bests' = Bests
  BY <1>1, <1>3, <1>4 DEF Bests
<1>6. \A f : LeadOf(f)' = LeadOf(f) /\ Own(f)' = Own(f)
  BY <1>4, <1>5 DEF LeadOf, Own
<1>7. \A hs, x : InOrder(hs, x)' = InOrder(hs, x)
  BY DEF InOrder, Outranks, Pos
<1> QED BY <1>1, <1>2, <1>3, <1>4, <1>5, <1>6, <1>7

\* So does what a best answer is.
LEMMA AnswersStable ==
  ASSUME UNCHANGED <<vec, cross>>
  PROVE  /\ \A hs : SectionsRanked(hs)' = SectionsRanked(hs)
         /\ \A h : SectionOK(h)' = SectionOK(h)
         /\ \A q, n : TopSections(q, n)' = TopSections(q, n)
         /\ \A q, n, m : TopFiles(q, n, m)' = TopFiles(q, n, m)
<1>1. \A h : SectionOK(h)' = SectionOK(h)
  BY OrderStable DEF SectionOK
<1>2. \A hs : SectionsRanked(hs)' = SectionsRanked(hs)
  BY <1>1, OrderStable DEF SectionsRanked
<1>3. \A q, n : TopSections(q, n)' = TopSections(q, n)
  BY OrderStable DEF TopSections
<1>4. FilesFound' = FilesFound
  BY OrderStable DEF FilesFound
<1>5. \A q, n, m : TopFiles(q, n, m)' = TopFiles(q, n, m)
  BY <1>4, OrderStable DEF TopFiles
<1> QED BY <1>1, <1>2, <1>3, <1>5

\* The limits of a request are numbers, and a group may hold a chunk.
LEMMA Limits ==
  ASSUME req \in Requests
  PROVE  topK \in Nat /\ maxChunks \in Nat \ {0}
<1>1. req.topK \in Int /\ req.maxChunks \in Int
  BY RetrievalAssumption
<1>2. Clamp(req.topK, DefaultTopK, 0) \in Nat
  BY <1>1, RetrievalAssumption DEF Clamp
<1>3. topK \in Nat
  BY <1>2, RetrievalAssumption DEF topK, Clamp
<1>4. maxChunks \in Nat \ {0}
  BY <1>1, RetrievalAssumption DEF maxChunks, Clamp
<1> QED BY <1>3, <1>4

\* The answer is the best of what was found, as asked for.
AnswerOK ==
  /\ IsSequence(hits)
  /\ \A i \in DOMAIN hits : SectionOK(hits[i]) /\ hits[i].chunk \in Bests
  /\ IF req.group THEN TopFiles(hits, topK, maxChunks) ELSE TopSections(hits, topK)

Stages == {"mime", "embed", "query", "rerank", "merge", "cut", "docs", "photos", "done", "failed"}
NothingYet == stage \in {"mime", "embed", "query", "failed"}

\* What each pass has made of the hits.
RankInv ==
  /\ stage \in Stages
  /\ req \in Requests
  /\ VecOK
  /\ CrossOK
  /\ NothingYet => vec = <<>> /\ cross = <<>> /\ hits = <<>>
  /\ stage = "rerank" => AsFound(hits) /\ cross = <<>>
  /\ stage = "merge" => OneEach(hits) /\ InOrder(hits, cross)
  /\ stage = "cut" => SectionsRanked(hits)
  /\ Served => AnswerOK

\* A search that ends before the query has the right, empty answer.
LEMMA NothingFound ==
  ASSUME req \in Requests, vec = <<>>, hits = <<>>
  PROVE  AnswerOK
<1>1. Found = {} /\ Bests = {} /\ FilesFound = {} /\ Files(hits) = {} /\ DOMAIN hits = {} /\ Len(hits) = 0
  BY DEF Found, Bests, FilesFound, Files
<1>2. Cardinality({}) = 0
  BY FS_EmptySet
<1>3. topK \in Nat
  BY Limits
<1>4. IsSequence(hits)
  BY DEF IsSequence
<1>5. ShownBy(hits) = {}
  BY <1>1 DEF ShownBy
<1>6. TopSections(hits, topK)
  BY <1>1, <1>2, <1>3, <1>5 DEF TopSections, Least
<1>7. TopFiles(hits, topK, maxChunks)
  <2>1. Cardinality(Files(hits)) = Least(topK, Cardinality(FilesFound))
    <3>1. Least(topK, 0) = 0
      BY <1>3 DEF Least
    <3>2. Cardinality(Files(hits)) = 0 /\ Cardinality(FilesFound) = 0
      BY <1>1, <1>2
    <3> QED BY <3>1, <3>2
  <2> QED BY <2>1, <1>1 DEF TopFiles
<1> QED BY <1>1, <1>4, <1>6, <1>7 DEF AnswerOK

\* A finished answer stays right while it and what it was made of stay.
LEMMA AnswerStable ==
  ASSUME UNCHANGED <<vec, cross, hits, req>>
  PROVE  AnswerOK' = AnswerOK
<1>1. topK' = topK /\ maxChunks' = maxChunks
  BY DEF topK, maxChunks
<1> QED BY <1>1, OrderStable, AnswersStable DEF AnswerOK

\* A search begins with nothing.
LEMMA Start == Init => RankInv
<1> SUFFICES ASSUME Init PROVE RankInv
  OBVIOUS
<1>1. stage = "mime" /\ req \in Requests /\ vec = <<>> /\ cross = <<>> /\ hits = <<>>
  BY DEF Init
<1>2. Cardinality(Chunks) \in Nat
  BY RetrievalAssumption, SizeIsNat
<1>3. VecOK
  BY <1>1, <1>2 DEF VecOK
<1>4. CrossOK
  BY <1>1 DEF CrossOK
<1> QED BY <1>1, <1>3, <1>4 DEF RankInv, Stages, NothingYet, Served

\* Qdrant answers, or fails.
LEMMA HybridStep ==
  ASSUME RankInv, SearchTextHybrid
  PROVE  RankInv'
<1>1. stage = "query" /\ cross = <<>> /\ vec = <<>> /\ hits = <<>> /\ VecOK /\ CrossOK /\ req \in Requests
  BY DEF RankInv, NothingYet, SearchTextHybrid
<1>2. UNCHANGED <<req, cross>>
  BY DEF SearchTextHybrid
<1>3. CASE GoTo("failed") /\ UNCHANGED <<vec, hits>>
  <2>1. VecOK' /\ CrossOK'
    BY <1>1, <1>2, <1>3, OrderStable
  <2> QED BY <1>1, <1>2, <1>3, <2>1 DEF RankInv, GoTo, Stages, NothingYet, Served
<1>4. ASSUME NEW S \in SUBSET Chunks, vec' \in SetToSeqs(S),
             hits' = [i \in DOMAIN vec' |-> buildHit(vec'[i], VectorScores[i])],
             stage' = "rerank"
      PROVE  RankInv'
  <2>1. IsFiniteSet(S) /\ Cardinality(S) \in Nat /\ Cardinality(S) <= Cardinality(Chunks)
    BY RetrievalAssumption, FS_Subset, SizeIsNat
  <2>2. /\ vec' \in [1..Cardinality(S) -> S]
        /\ \A i, j \in 1..Cardinality(S) : vec'[i] = vec'[j] => i = j
    BY <1>4 DEF SetToSeqs
  <2>3. vec' \in Seq(Chunks) /\ Len(vec') = Cardinality(S) /\ DOMAIN vec' = 1..Cardinality(S)
    BY <2>1, <2>2
  <2>4. VecOK'
    BY <2>1, <2>2, <2>3 DEF VecOK
  <2>5. CrossOK'
    BY <1>1, <1>2 DEF CrossOK
  <2>6. AsFound(hits)'
    BY <1>4 DEF AsFound
  <2> QED BY <1>1, <1>2, <1>4, <2>4, <2>5, <2>6 DEF RankInv, Stages, NothingYet, Served
<1> QED BY <1>3, <1>4 DEF SearchTextHybrid, GoTo

\* The reranker answers, fails, or is not asked.
LEMMA RerankStep ==
  ASSUME RankInv, Rerank
  PROVE  RankInv'
<1>1. stage = "rerank" /\ cross = <<>> /\ AsFound(hits) /\ VecOK /\ CrossOK /\ req \in Requests
  BY DEF RankInv, Rerank
<1>2. UNCHANGED <<req, vec>> /\ stage' = "merge"
  BY DEF Rerank, GoTo
<1>3. VecOK' /\ Found' = Found /\ \A hs, x : InOrder(hs, x)' = InOrder(hs, x)
  BY <1>1, <1>2 DEF VecOK, Found, InOrder, Outranks, Pos
<1>4. SUFFICES CrossOK' /\ OneEach(hits)' /\ InOrder(hits, cross)'
  BY <1>1, <1>2, <1>3 DEF RankInv, Stages, NothingYet, Served
<1>5. CASE UNCHANGED <<cross, hits>>
  <2>1. DOMAIN cross = {}
    BY <1>1
  <2>2. OneEach(hits) /\ InOrder(hits, cross)
    BY <1>1, <2>1, NoScores
  <2> QED BY <1>1, <1>3, <1>5, <2>2 DEF CrossOK, OneEach, IsSequence, Single
<1>6. ASSUME NEW S \in SUBSET {vec[i] : i \in 1..Budget(Len(hits))},
             cross' \in [S -> CrossScores], hits' = RerankHits(hits, cross')
      PROVE  CrossOK' /\ OneEach(hits)' /\ InOrder(hits, cross)'
  <2>1. Len(hits) = Len(vec) /\ DOMAIN vec = 1..Len(vec) /\ Len(vec) \in Nat
    BY <1>1, AsFoundIs DEF VecOK
  <2>2. \A i \in 1..Budget(Len(hits)) : i \in DOMAIN vec
    BY <2>1, RetrievalAssumption DEF Budget, Least
  <2>3. S \subseteq Found
    BY <2>2 DEF Found
  <2>4. DOMAIN cross' = S /\ \A c \in S : cross'[c] \in Int
    BY <1>6, RetrievalAssumption
  <2>5. OneEach(RerankHits(hits, cross')) /\ InOrder(RerankHits(hits, cross'), cross')
    BY <1>1, <2>3, <2>4, RerankRanks
  <2>6. CrossOK'
    BY <1>3, <2>3, <2>4 DEF CrossOK
  <2>7. OneEach(hits)'
    BY <1>3, <1>6, <2>5 DEF OneEach, IsSequence, Single
  <2>8. InOrder(hits, cross)'
    BY <1>3, <1>6, <2>5
  <2> QED BY <2>6, <2>7, <2>8
<1> QED BY <1>5, <1>6 DEF Rerank

\* The hits are folded.
LEMMA MergeStep ==
  ASSUME RankInv, Merge
  PROVE  RankInv'
<1>1. /\ stage = "merge" /\ OneEach(hits) /\ InOrder(hits, cross) /\ VecOK /\ CrossOK
      /\ req \in Requests
  BY DEF RankInv, Merge
<1>2. UNCHANGED <<req, vec, cross>> /\ stage' = "cut"
  BY DEF Merge, GoTo
<1>3. SectionsRanked(hits')
  <2>1. CASE ParentMergeDisabled
    BY <2>1, <1>1, UnmergedRanks DEF Merge
  <2>2. CASE ~ParentMergeDisabled
    BY <2>2, <1>1, MergedRanks DEF Merge
  <2> QED BY <2>1, <2>2
<1>4. SectionsRanked(hits)' /\ VecOK' /\ CrossOK'
  BY <1>1, <1>2, <1>3, OrderStable, AnswersStable
<1> QED BY <1>1, <1>2, <1>4 DEF RankInv, Stages, NothingYet, Served

\* The hits are grouped or truncated.
LEMMA CutStep ==
  ASSUME RankInv, Cut
  PROVE  RankInv'
<1>1. stage = "cut" /\ SectionsRanked(hits) /\ VecOK /\ CrossOK /\ req \in Requests
  BY DEF RankInv, Cut
<1>2. UNCHANGED <<req, vec, cross>> /\ stage' \in {"done", "photos", "docs"}
  BY DEF Cut, GoTo
<1>3. topK \in Nat /\ maxChunks \in Nat \ {0} /\ topK' = topK /\ maxChunks' = maxChunks
  BY <1>1, <1>2, Limits DEF topK, maxChunks
<1>4. /\ IsSequence(hits')
      /\ \A i \in DOMAIN hits' : SectionOK(hits'[i]) /\ hits'[i].chunk \in Bests
      /\ IF req.group THEN TopFiles(hits', topK, maxChunks) ELSE TopSections(hits', topK)
  <2>1. CASE req.group
    BY <2>1, <1>1, <1>3, ByFileIsBest DEF Cut
  <2>2. CASE ~req.group
    <3> DEFINE q == Prefix(hits, topK)
    <3>1. hits' = q
      BY <2>2 DEF Cut
    <3>2. TopSections(q, topK) /\ IsSequence(q) /\ \A i \in DOMAIN q : SectionOK(q[i])
      BY <1>1, <1>3, PrefixIsBest
    <3> HIDE DEF q
    <3>3. \A i \in DOMAIN q : q[i].chunk \in Bests
      BY <3>2 DEF TopSections, ShownBy
    <3> QED BY <2>2, <3>1, <3>2, <3>3
  <2> QED BY <2>1, <2>2
<1>5. AnswerOK'
  BY <1>2, <1>3, <1>4, OrderStable, AnswersStable DEF AnswerOK
<1>6. VecOK' /\ CrossOK'
  BY <1>1, <1>2, OrderStable
<1> QED BY <1>1, <1>2, <1>5, <1>6 DEF RankInv, Stages, NothingYet, Served

\* The steps that leave the ranking alone.
LEMMA OtherSteps ==
  ASSUME RankInv, UNCHANGED <<req, vec, cross, hits>>, stage' \in Stages,
         \/ stage' = stage
         \/ NothingYet /\ stage' \in {"embed", "query", "failed", "done"}
         \/ Served /\ Served'
  PROVE  RankInv'
<1>1. VecOK' = VecOK /\ CrossOK' = CrossOK /\ AnswerOK' = AnswerOK
  BY OrderStable, AnswerStable
<1>2. NothingYet => AnswerOK
  BY NothingFound DEF RankInv
<1>3. AsFound(hits)' = AsFound(hits)
  BY DEF AsFound
<1>4. OneEach(hits)' = OneEach(hits)
  BY OrderStable DEF OneEach, Single, IsSequence
<1>5. InOrder(hits, cross)' = InOrder(hits, cross) /\ SectionsRanked(hits)' = SectionsRanked(hits)
  BY OrderStable, AnswersStable
<1>6. CASE stage' = stage
  BY <1>6, <1>1, <1>3, <1>4, <1>5 DEF RankInv, NothingYet, Served
<1>7. CASE NothingYet /\ stage' \in {"embed", "query", "failed", "done"}
  BY <1>7, <1>1, <1>2 DEF RankInv, NothingYet, Served
<1>8. CASE Served /\ Served'
  BY <1>8, <1>1 DEF RankInv, NothingYet, Served
<1> QED BY <1>6, <1>7, <1>8

\* Each pass over the hits does its part of the ranking: reranking sorts, folding keeps the order
\* and loses no section, and the cut takes the best.
THEOREM RankInvariance == Spec => []RankInv
<1>1. Init => RankInv
  BY Start
<1>2. RankInv /\ [Next]_vars => RankInv'
  <2> SUFFICES ASSUME RankInv, [Next]_vars
               PROVE  RankInv'
    OBVIOUS
  <2>0. stage \in Stages
    BY DEF RankInv
  <2>1. CASE ResolveMime
    BY <2>0, <2>1, OtherSteps DEF ResolveMime, GoTo, Stages, NothingYet
  <2>2. CASE Embed
    BY <2>0, <2>2, OtherSteps DEF Embed, GoTo, Stages, NothingYet
  <2>3. CASE SearchTextHybrid
    BY <2>3, HybridStep
  <2>4. CASE Rerank
    BY <2>4, RerankStep
  <2>5. CASE Merge
    BY <2>5, MergeStep
  <2>6. CASE Cut
    BY <2>6, CutStep
  <2>7. CASE ExpandFiles
    BY <2>0, <2>7, OtherSteps DEF ExpandFiles, GoTo, Stages, Served
  <2>8. CASE ExpandedPhotos
    BY <2>0, <2>8, OtherSteps DEF ExpandedPhotos, GoTo, Stages, Served
  <2>9. ASSUME NEW f \in PhotoIDs, GetAsset(f) \/ GotAsset(f)
        PROVE  RankInv'
    BY <2>0, <2>9, OtherSteps DEF GetAsset, GotAsset
  <2>10. CASE UNCHANGED vars
    BY <2>0, <2>10, OtherSteps DEF vars
  <2> QED BY <2>1, <2>2, <2>3, <2>4, <2>5, <2>6, <2>7, <2>8, <2>9, <2>10 DEF Next, Lookups
<1> QED BY <1>1, <1>2, PTL DEF Spec

\* Ungrouped, SearchText returns the best topK sections, best first: the two scales of scores are
\* never interleaved, folding does not reorder, truncation takes nothing before its turn.
THEOREM SectionsFirst == Spec => []BestSectionsFirst
<1>1. RankInv => BestSectionsFirst
  BY DEF RankInv, AnswerOK, TopSections, ShownBy, BestSectionsFirst, Shown
<1> QED BY <1>1, RankInvariance, PTL

\* Grouped, it returns the topK best files in order, each with the best of its sections, the first
\* of which is the hit an ungrouped search would have shown.
THEOREM FilesFirst == Spec => []BestFilesFirst
<1>1. RankInv => BestFilesFirst
  <2> SUFFICES ASSUME RankInv, Served, req.group
               PROVE  BestFilesFirst
    BY DEF BestFilesFirst
  <2> DEFINE files == {FileOf[c] : c \in Found}
             own   == [f \in files |-> {c \in Bests : FileOf[c] = f}]
             lead  == [f \in files |-> CHOOSE c \in Bests :
                         FileOf[c] = f /\ \A d \in Bests \ {c} : FileOf[d] = f => Precedes(c, d)]
  <2>1. AnswerOK /\ FilesFound = files
    BY DEF RankInv, FilesFound
  <2>2. TopFiles(hits, topK, maxChunks)
    BY <2>1 DEF AnswerOK
  <2>3. \A f \in files : own[f] = Own(f)
    BY DEF Own
  <2>4. \A f \in files : lead[f] = LeadOf(f)
    BY DEF LeadOf
  <2>5. \A i \in DOMAIN hits : hits[i].chunk \in Bests
    BY <2>1 DEF AnswerOK
  <2>6. Files(hits) \subseteq files
    BY <2>5 DEF Files, FileOfHit, Bests
  <2>7. \A i \in DOMAIN hits : FileOfHit(hits[i]) \in files
    BY <2>6 DEF Files
  <2>8. ShownBy(hits) = Shown /\ \A f : GroupIn(hits, f) = GroupOf(f)
    BY DEF ShownBy, Shown, GroupIn, GroupOf
  <2> HIDE DEF files, own, lead
  <2>9. /\ Cardinality(Files(hits)) = Least(topK, Cardinality(files))
        /\ \A f \in files \ Files(hits), g \in Files(hits) : Precedes(lead[g], lead[f])
        /\ \A i, j \in DOMAIN hits : i < j /\ FileOfHit(hits[i]) # FileOfHit(hits[j]) =>
             Precedes(lead[FileOfHit(hits[i])], lead[FileOfHit(hits[j])])
    BY <2>1, <2>2, <2>4, <2>6, <2>7 DEF TopFiles
  <2>10. \A f \in Files(hits) :
           /\ Len(GroupOf(f)) = Least(maxChunks, Cardinality(own[f]))
           /\ GroupOf(f)[1].chunk = lead[f]
           /\ \A c \in own[f] \ Shown, d \in own[f] \cap Shown : Precedes(d, c)
    BY <2>2, <2>3, <2>4, <2>6, <2>8 DEF TopFiles
  <2> QED BY <2>9, <2>10 DEF BestFilesFirst, files, own, lead
<1> QED BY <1>1, RankInvariance, PTL

\* A folded hit reads in document order, repeats nothing, holds its own section only and accounts
\* for every chunk of it, and its text keeps the cap and leaves out only what it has no room for.
THEOREM SectionsInOrder == Spec => []SectionsReadInOrder
<1>1. RankInv => SectionsReadInOrder
  BY DEF RankInv, AnswerOK, SectionOK, SectionsReadInOrder
<1> QED BY <1>1, RankInvariance, PTL

(***************************************************************************)
(* Limits and lookups.                                                     *)
(***************************************************************************)

\* The warnings of a search.
KnownWarnings == {"mime_facet_unavailable", "rerank_unavailable", "rerank_disabled",
                  "path_expand_unavailable", "photo_expand_unavailable"}

\* The semaphore has a turn for each lookup in flight; paths are of files of the answer.
LimitInv ==
  /\ warnings \subseteq KnownWarnings
  /\ lookup \in [PhotoIDs -> {"none", "flight", "found", "gone", "failed"}]
  /\ IsFiniteSet(InFlight) /\ Cardinality(InFlight) <= PhotoLookupConcurrency
  /\ paths \subseteq Files(hits)
  /\ stage \notin {"photos", "done"} => paths = {}

\* The semaphore counts the lookups of photos, and no path is known before it is asked for.
LEMMA LimitInvariance == Spec => []LimitInv
<1>1. Init => LimitInv
  <2> SUFFICES ASSUME Init PROVE LimitInv
    OBVIOUS
  <2>1. InFlight = {}
    BY DEF Init, InFlight
  <2>2. IsFiniteSet(InFlight) /\ Cardinality(InFlight) = 0
    BY <2>1, FS_EmptySet
  <2> QED BY <2>2, RetrievalAssumption DEF Init, LimitInv
<1>2. LimitInv /\ [Next]_vars => LimitInv'
  <2> SUFFICES ASSUME LimitInv, [Next]_vars
               PROVE  LimitInv'
    OBVIOUS
  <2>0. UNCHANGED lookup => InFlight' = InFlight
    BY DEF InFlight
  <2>a. UNCHANGED hits => Files(hits)' = Files(hits)
    BY DEF Files, FileOfHit
  <2> USE DEF LimitInv, GoTo, Warn, KnownWarnings
  <2>1. CASE ResolveMime
    BY <2>0, <2>a, <2>1 DEF ResolveMime
  <2>2. CASE Embed
    BY <2>0, <2>a, <2>2 DEF Embed
  <2>3. CASE SearchTextHybrid
    BY <2>0, <2>3 DEF SearchTextHybrid
  <2>4. CASE Rerank
    BY <2>0, <2>4 DEF Rerank
  <2>5. CASE Merge
    BY <2>0, <2>5 DEF Merge
  <2>6. CASE Cut
    BY <2>0, <2>6 DEF Cut
  <2>7. CASE ExpandFiles
    BY <2>0, <2>a, <2>7 DEF ExpandFiles
  <2>8. CASE ExpandedPhotos
    BY <2>0, <2>a, <2>8 DEF ExpandedPhotos, Photos
  <2>9. ASSUME NEW f \in PhotoIDs, GetAsset(f)
        PROVE  LimitInv'
    <3>1. InFlight' = InFlight \cup {f} /\ f \notin InFlight
      BY <2>9 DEF GetAsset, InFlight
    <3>2. IsFiniteSet(InFlight') /\ Cardinality(InFlight') = Cardinality(InFlight) + 1
      BY <3>1, FS_AddElement
    <3>3. Cardinality(InFlight) \in Nat
      BY SizeIsNat
    <3>4. Cardinality(InFlight') <= PhotoLookupConcurrency
      BY <3>2, <3>3, <2>9, RetrievalAssumption DEF GetAsset
    <3> QED BY <3>2, <3>4, <2>a, <2>9 DEF GetAsset
  <2>10. ASSUME NEW f \in PhotoIDs, GotAsset(f)
         PROVE  LimitInv'
    <3>1. InFlight' \subseteq InFlight
      BY <2>10 DEF GotAsset, InFlight
    <3>2. IsFiniteSet(InFlight') /\ Cardinality(InFlight') <= Cardinality(InFlight)
      BY <3>1, FS_Subset
    <3>3. Cardinality(InFlight) \in Nat /\ Cardinality(InFlight') \in Nat
      BY <3>2, SizeIsNat
    <3>4. Cardinality(InFlight') <= PhotoLookupConcurrency
      BY <3>2, <3>3, RetrievalAssumption
    <3> QED BY <3>2, <3>4, <2>a, <2>10 DEF GotAsset
  <2>11. CASE UNCHANGED vars
    BY <2>0, <2>a, <2>11 DEF vars
  <2> QED BY <2>1, <2>2, <2>3, <2>4, <2>5, <2>6, <2>7, <2>8, <2>9, <2>10, <2>11 DEF Next, Lookups
<1> QED BY <1>1, <1>2, PTL DEF Spec

\* A hit that stands for its section accounts for chunks of the answer.
LEMMA SectionInAnswer ==
  ASSUME VecOK, NEW h, SectionOK(h)
  PROVE  h.cite \in Found /\ h.merged \in 1..Len(vec)
<1>1. Siblings(h.chunk) \subseteq Found /\ h.cite \in Siblings(h.chunk)
  BY DEF Siblings, SectionOK
<1> DEFINE B == Siblings(h.chunk)
<1> HIDE DEF B
<1>2. B \subseteq Found /\ B # {} /\ h.cite \in Found
  BY <1>1 DEF B
<1>3. IsFiniteSet(Found) /\ Cardinality(Found) = Len(vec)
  BY FoundIs
<1>4. IsFiniteSet(B) /\ Cardinality(B) <= Len(vec)
  BY <1>2, <1>3, FS_Subset
<1>5. Cardinality(B) \in Nat /\ Cardinality(B) # 0
  BY <1>2, <1>4, SizeIsNat, FS_EmptySet
<1>6. h.merged = Cardinality(B) /\ Len(vec) \in Nat
  BY DEF SectionOK, VecOK, B
<1> QED BY <1>2, <1>4, <1>5, <1>6

\* Hits are of chunks that Qdrant returned, and at most PhotoLookupConcurrency lookups of photos
\* are in flight.
THEOREM TypeCorrect == Spec => []TypeOK
<1>1. RankInv /\ LimitInv => TypeOK
  <2> SUFFICES ASSUME RankInv, LimitInv PROVE TypeOK
    OBVIOUS
  <2>1. VecOK
    BY DEF RankInv
  <2>2. \A i \in DOMAIN hits : /\ hits[i].chunk \in Found
                               /\ hits[i].cite \in Found /\ hits[i].merged \in 1..Len(vec)
    <3>1. CASE NothingYet
      BY <3>1 DEF RankInv
    <3>2. CASE stage \in {"rerank", "merge"}
      <4>1. OneEach(hits)
        BY <3>2, NoScores DEF RankInv
      <4>2. \A i \in DOMAIN hits : Single(hits[i]) /\ hits[i].chunk \in Found
        BY <4>1 DEF OneEach
      <4>3. Found # {} => 1 \in 1..Len(vec)
        BY <2>1 DEF Found, VecOK
      <4> QED BY <4>2, <4>3 DEF Single
    <3>3. CASE stage = "cut" \/ Served
      <4>1. \A i \in DOMAIN hits : SectionOK(hits[i]) /\ hits[i].chunk \in Found
        BY <3>3 DEF RankInv, SectionsRanked, AnswerOK, Bests
      <4> QED BY <4>1, <2>1, SectionInAnswer
    <3> QED BY <3>1, <3>2, <3>3 DEF RankInv, Stages, NothingYet, Served
  <2> QED BY <2>2 DEF RankInv, LimitInv, KnownWarnings, Stages, TypeOK, Shown
<1> QED BY <1>1, RankInvariance, LimitInvariance, PTL

Answers == {"found", "gone", "failed"}

\* Lookups are of photos of the answer, begun when the hits are cut.
LookupOK ==
  /\ lookup \in [PhotoIDs -> {"none", "flight"} \cup Answers]
  /\ \A f \in PhotoIDs : lookup[f] # "none" => stage \in {"photos", "done"} /\ f \in Photos

\* Until the wait ends no photo's path is known: Parser is asked of documents only.
PathsOK == stage # "done" => paths \cap PhotoIDs = {}

\* There is no hit before Qdrant's answer.
HitsOK == stage \in {"mime", "embed", "query"} => hits = <<>>

\* The warning about photos is given when the wait for them ends, not before.
NoPhotoWarning == stage # "done" => "photo_expand_unavailable" \notin warnings

LookupInv == LookupOK /\ PathsOK /\ HitsOK /\ NoPhotoWarning /\ LookupsIndependent

\* Without hits there are no files.
LEMMA NoHits == Files(<<>>) = {}
BY DEF Files

\* Lookups belong to the answer, and paths of photos come with the end of the wait.
THEOREM LookupInvariance == Spec => []LookupInv
<1>1. Init => LookupInv
  BY DEF Init, LookupInv, LookupOK, PathsOK, HitsOK, NoPhotoWarning, LookupsIndependent
<1>2. LookupInv /\ [Next]_vars => LookupInv'
  <2> SUFFICES ASSUME LookupInv, [Next]_vars
               PROVE  LookupInv'
    OBVIOUS
  <2> USE DEF LookupInv, LookupOK, PathsOK, HitsOK, NoPhotoWarning, LookupsIndependent, Photos, Files,
            FileOfHit, GoTo, Warn, Answers
  <2>1. CASE ResolveMime
    BY <2>1, NoHits DEF ResolveMime
  <2>2. CASE Embed
    BY <2>2 DEF Embed
  <2>3. CASE SearchTextHybrid
    BY <2>3 DEF SearchTextHybrid
  <2>4. CASE Rerank
    BY <2>4 DEF Rerank
  <2>5. CASE Merge
    BY <2>5 DEF Merge
  <2>6. CASE Cut
    BY <2>6, NoHits DEF Cut
  <2>7. CASE ExpandFiles
    BY <2>7 DEF ExpandFiles
  <2>8. CASE ExpandedPhotos
    BY <2>8 DEF ExpandedPhotos
  <2>9. ASSUME NEW f \in PhotoIDs, GetAsset(f)
        PROVE  LookupInv'
    BY <2>9 DEF GetAsset
  <2>10. ASSUME NEW f \in PhotoIDs, GotAsset(f)
         PROVE  LookupInv'
    BY <2>10 DEF GotAsset
  <2>11. CASE UNCHANGED vars
    BY <2>11 DEF vars
  <2> QED BY <2>1, <2>2, <2>3, <2>4, <2>5, <2>6, <2>7, <2>8, <2>9, <2>10, <2>11 DEF Next, Lookups
<1> QED BY <1>1, <1>2, PTL DEF Spec

\* One photo that is missing or fails takes no path from another, and the warning tells
\* failures from absences: expandPaths waits for every goroutine, whatever the others got.
THEOREM PhotosIndependent == Spec => []LookupsIndependent
<1>1. LookupInv => LookupsIndependent
  BY DEF LookupInv
<1> QED BY <1>1, LookupInvariance, PTL

=============================================================================
