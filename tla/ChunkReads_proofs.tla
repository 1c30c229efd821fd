-------------------------- MODULE ChunkReads_proofs --------------------------
(***************************************************************************)
(* That a file is read back whole and in order, for any points, limits and *)
(* numbers of pages and turns: ReadInv says that what was scrolled is a    *)
(* prefix of the listing of the file and what was read a prefix of its     *)
(* text, as long as the file stays.  Before it come what a listing is, how *)
(* a page continues it, what each call makes of it, and that the text      *)
(* stitched from overlapping chunks repeats and loses no character.        *)
(* StayInv says what is left of that when the file changes.                *)
(***************************************************************************)
EXTENDS ChunkReads, FiniteSetTheorems, SequenceTheorems, TLAPS

(***************************************************************************)
(* Sorting and counting, and induction.                                    *)
(***************************************************************************)

\* R orders S: what Ranked asks of an order.
TotalOrder(S, R) ==
  /\ \A x \in S : <<x, x>> \notin R
  /\ \A x, y \in S : x = y \/ <<x, y>> \in R \/ <<y, x>> \in R
  /\ \A x, y, z \in S : <<x, y>> \in R /\ <<y, z>> \in R => <<x, z>> \in R

\* r is the sequence of all elements of S in the order R.
Enumerates(r, S, R) ==
  /\ r \in [1..Cardinality(S) -> S]
  /\ \A x \in S : \E k \in 1..Cardinality(S) : r[k] = x
  /\ \A k, l \in 1..Cardinality(S) : k < l => <<r[k], r[l]>> \in R

\* A finite set has a size.
LEMMA SizeIsNat == ASSUME NEW S, IsFiniteSet(S) PROVE Cardinality(S) \in Nat
BY FS_CardinalityType

\* Ranked is what a sort returns: every element once, in the order given.
LEMMA RankedEnumerates ==
  ASSUME NEW S, IsFiniteSet(S), NEW R, TotalOrder(S, R)
  PROVE  Enumerates(Ranked(S, R), S, R)
<1> DEFINE Down(x) == {y \in S : y = x \/ <<y, x>> \in R}
           N == Cardinality(S)
           place == [x \in S |-> Cardinality(Down(x))]
<1>1. N \in Nat
  BY SizeIsNat
<1>2. ASSUME NEW x \in S
      PROVE  IsFiniteSet(Down(x)) /\ place[x] \in 1..N
  <2>1. IsFiniteSet(Down(x)) /\ Cardinality(Down(x)) <= N
    BY FS_Subset
  <2>2. Down(x) # {}
    OBVIOUS
  <2>3. Cardinality(Down(x)) \in Nat /\ Cardinality(Down(x)) # 0
    BY <2>1, <2>2, FS_EmptySet, SizeIsNat
  <2> QED BY <2>1, <2>3, <1>1
<1>3. ASSUME NEW x \in S, NEW y \in S, <<x, y>> \in R
      PROVE  place[x] < place[y]
  <2>1. Down(x) \subseteq Down(y) /\ y \notin Down(x) /\ y \in Down(y)
    BY <1>3 DEF TotalOrder
  <2>2. IsFiniteSet(Down(y)) /\ place[x] \in Nat /\ place[y] \in Nat
    BY <1>2, <1>1
  <2> HIDE DEF Down
  <2>3. Cardinality(Down(x)) <= Cardinality(Down(y)) /\ Cardinality(Down(x)) # Cardinality(Down(y))
    BY <2>1, <2>2, FS_Subset
  <2> QED BY <2>2, <2>3
<1> HIDE DEF Down
<1>a. \A x \in S : place[x] \in 1..N
  BY <1>2
<1>b. \A x, y \in S : <<x, y>> \in R => place[x] < place[y]
  BY <1>3
<1>c. DOMAIN place = S
  OBVIOUS
<1>4. place \in Injection(S, 1..N)
  <2>1. place \in [S -> 1..N]
    BY <1>a
  <2> HIDE DEF place, N
  <2>2. ASSUME NEW x \in S, NEW y \in S, place[x] = place[y]
        PROVE  x = y
    <3>1. <<x, y>> \notin R /\ <<y, x>> \notin R
      BY <1>1, <1>a, <1>b, <2>2
    <3> QED BY <3>1 DEF TotalOrder
  <2> QED BY <2>1, <2>2, <1>c DEF Injection, IsInjective
<1>5. IsFiniteSet(1..N) /\ Cardinality(1..N) = N
  BY <1>1, FS_Interval
<1>6. place \in Surjection(S, 1..N)
  BY <1>4, <1>5, FS_Injection
<1>7. \A k \in 1..N : \E x \in S : place[x] = k
  BY <1>6 DEF Surjection
<1> DEFINE q == [k \in 1..N |-> CHOOSE x \in S : place[x] = k]
<1>8. Ranked(S, R) = q
  BY DEF Ranked, Down
<1>9. \A k \in 1..N : q[k] \in S /\ place[q[k]] = k
  BY <1>7
<1>10. \A x, y \in S : place[x] = place[y] => x = y
  BY <1>4 DEF Injection, IsInjective
<1>11. \A x \in S : place[x] \in 1..N
  BY <1>2
<1> HIDE DEF place
<1>12. q \in [1..N -> S]
  BY <1>9
<1>13. \A x \in S : q[place[x]] = x
  BY <1>9, <1>10, <1>11
<1> HIDE DEF q
<1>14. ASSUME NEW k \in 1..N, NEW l \in 1..N, k < l
       PROVE  <<q[k], q[l]>> \in R
  <2>1. q[k] # q[l]
    BY <1>9, <1>14
  <2>2. <<q[l], q[k]>> \notin R
    BY <1>9, <1>3, <1>14
  <2> QED BY <2>1, <2>2, <1>9 DEF TotalOrder
<1> QED BY <1>8, <1>11, <1>12, <1>13, <1>14 DEF Enumerates

\* Sorting by a key, equal keys left as they are, is sorting by a total order.
LEMMA ByKeyIsOrder ==
  ASSUME NEW I, I \subseteq Int, NEW key \in [I -> Int] PROVE TotalOrder(I, ByKey(I, key))
BY DEF TotalOrder, ByKey

\* A sequence is one of its own elements.
IsSequence(s) == s \in Seq(Range(s))

\* A function on 1..n is a sequence.
LEMMA SequenceOf ==
  ASSUME NEW n \in Nat, NEW s, s = [k \in 1..n |-> s[k]]
  PROVE  IsSequence(s) /\ Len(s) = n /\ DOMAIN s = 1..n
<1>1. DOMAIN s = 1..n
  OBVIOUS
<1>2. s \in [1..n -> Range(s)]
  BY <1>1 DEF Range
<1> QED BY <1>1, <1>2 DEF IsSequence

\* q is the sequence of the n elements of s at the places in r.
Lists(q, n, s, r) ==
  /\ IsSequence(q) /\ Len(q) = n /\ DOMAIN q = 1..n
  /\ \A k \in 1..n : q[k] = s[r[k]]

\* Arranged lists the elements of s at the places I, in the order R of those places.
LEMMA ArrangedIs ==
  ASSUME NEW s, NEW I, IsFiniteSet(I), NEW R, TotalOrder(I, R)
  PROVE  Lists(Arranged(s, I, R), Cardinality(I), s, Ranked(I, R))
<1> DEFINE q == Arranged(s, I, R)
           n == Cardinality(I)
           r == Ranked(I, R)
<1>1. DOMAIN r = 1..n
  BY RankedEnumerates DEF Enumerates
<1>2. q = [k \in 1..n |-> s[r[k]]]
  BY <1>1 DEF Arranged
<1>3. n \in Nat
  BY SizeIsNat
<1> HIDE DEF r, n
<1>4. DOMAIN q = 1..n /\ \A k \in 1..n : q[k] = s[r[k]]
  BY <1>2
<1>5. q = [k \in 1..n |-> q[k]]
  BY <1>2
<1> HIDE DEF q
<1>6. IsSequence(q) /\ Len(q) = n
  BY <1>3, <1>5, SequenceOf
<1>7. Lists(q, n, s, r)
  BY <1>4, <1>6 DEF Lists
<1> QED BY <1>7 DEF q, n, r

\* f pairs the elements of D with those of T.
LEMMA SameSize ==
  ASSUME NEW D, IsFiniteSet(D), NEW T, NEW f,
         \A x \in D : f[x] \in T,
         \A t \in T : \E x \in D : f[x] = t,
         \A x, y \in D : f[x] = f[y] => x = y
  PROVE  IsFiniteSet(T) /\ Cardinality(T) = Cardinality(D)
<1> DEFINE g == [x \in D |-> f[x]]
<1>1. g \in [D -> T]
  OBVIOUS
<1>2. \A t \in T : \E x \in D : g[x] = t
  OBVIOUS
<1>3. \A x, y \in D : g[x] = g[y] => x = y
  OBVIOUS
<1>4. DOMAIN g = D
  OBVIOUS
<1> HIDE DEF g
<1>5. g \in Bijection(D, T)
  BY <1>1, <1>2, <1>3, <1>4 DEF Bijection, Injection, IsInjective, Surjection
<1>6. ExistsBijection(D, T)
  BY <1>5 DEF ExistsBijection
<1> QED BY <1>6, FS_Bijection

\* The size of 1..n.
LEMMA UpTo ==
  ASSUME NEW n \in Nat PROVE IsFiniteSet(1..n) /\ Cardinality(1..n) = n
BY FS_Interval

\* What a concatenation has at each place.
LEMMA Joined ==
  ASSUME NEW s, NEW t, IsSequence(s), IsSequence(t)
  PROVE  /\ IsSequence(s \o t)
         /\ Len(s \o t) = Len(s) + Len(t)
         /\ DOMAIN (s \o t) = 1..Len(s) + Len(t)
         /\ \A k \in 1..Len(s) : (s \o t)[k] = s[k]
         /\ \A k \in Len(s) + 1..Len(s) + Len(t) : (s \o t)[k] = t[k - Len(s)]
<1> DEFINE T == Range(s) \cup Range(t)
           q == s \o t
           n == Len(s) + Len(t)
<1>1. s \in Seq(T) /\ t \in Seq(T)
  BY DEF IsSequence
<1> HIDE DEF T
<1>2. q \in Seq(T) /\ Len(q) = n
  BY <1>1
<1>3. \A k \in 1..Len(s) : q[k] = s[k]
  BY <1>1
<1>4. \A k \in Len(s) + 1..Len(s) + Len(t) : q[k] = t[k - Len(s)]
  BY <1>1
<1>5. n \in Nat /\ DOMAIN q = 1..n
  BY <1>1, <1>2
<1> HIDE DEF q, n
<1>6. q = [k \in 1..n |-> q[k]]
  BY <1>2, <1>5
<1>7. IsSequence(q)
  BY <1>5, <1>6, SequenceOf
<1> QED BY <1>2, <1>3, <1>4, <1>5, <1>7 DEF q, n

\* A set of natural numbers has a least one.
LEMMA LeastOne ==
  ASSUME NEW S, S \subseteq Nat, S # {}
  PROVE  \E x \in S : \A y \in S : x <= y
<1>1. \E x \in S : \A y \in S : ~ (<<y, x>> \in OpToRel(<, Nat))
  <2>1. IsWellFoundedOn(OpToRel(<, Nat), Nat)
    BY NatLessThanWellFounded
  <2> QED BY WFMin, <2>1
<1>2. PICK x \in S : \A y \in S : ~ (<<y, x>> \in OpToRel(<, Nat))
  BY <1>1, Zenon
<1>3. \A y \in S : ~ (y < x)
  BY <1>2 DEF OpToRel
<1>4. \A y \in S : y \in Nat
  OBVIOUS
<1>5. \A y \in S : x <= y
  BY <1>3, <1>4
<1> QED BY <1>5

\* Induction, of a set rather than an operator.
LEMMA Induction ==
  ASSUME NEW S, 0 \in S, \A n \in Nat : n \in S => n + 1 \in S
  PROVE  Nat \subseteq S
<1> DEFINE T == Nat \ S
<1> SUFFICES ASSUME T # {} PROVE FALSE
  OBVIOUS
<1>1. T \subseteq Nat
  OBVIOUS
<1> HIDE DEF T
<1>2. PICK x \in T : \A y \in T : x <= y
  BY <1>1, LeastOne
<1>3. x \in Nat /\ x \notin S
  BY <1>2 DEF T
<1>4. x # 0 /\ x - 1 \in Nat
  BY <1>3
<1>5. x - 1 \notin T
  BY <1>2, <1>3
<1>6. x - 1 \in S
  BY <1>4, <1>5 DEF T
<1>7. (x - 1) + 1 = x
  BY <1>3
<1>8. x \in S
  BY <1>4, <1>6, <1>7
<1> QED BY <1>3, <1>8

(***************************************************************************)
(* The listing of a file, and its pages.                                   *)
(***************************************************************************)

\* The element at place k of an enumeration has k - 1 before it.
LEMMA CountedBefore ==
  ASSUME NEW S, IsFiniteSet(S), NEW R, TotalOrder(S, R), NEW r, Enumerates(r, S, R),
         NEW k \in 1..Cardinality(S)
  PROVE  Cardinality({y \in S : <<y, r[k]>> \in R}) = k - 1
<1> DEFINE N == Cardinality(S)
           T == {y \in S : <<y, r[k]>> \in R}
           D == 1..k - 1
<1>1. N \in Nat
  BY SizeIsNat
<1>2. /\ \A i \in 1..N : r[i] \in S
      /\ \A x \in S : \E i \in 1..N : r[i] = x
      /\ \A i, j \in 1..N : i < j => <<r[i], r[j]>> \in R
  BY DEF Enumerates
<1>3. IsFiniteSet(D) /\ Cardinality(D) = k - 1
  <2>1. k - 1 \in Nat
    BY <1>1
  <2> QED BY <2>1, UpTo
<1>4. \A x \in D : x \in 1..N /\ x < k
  BY <1>1
<1>5. \A x \in D : r[x] \in T
  BY <1>2, <1>4
<1>6. \A t \in T : \E x \in D : r[x] = t
  <2> SUFFICES ASSUME NEW t \in T PROVE \E x \in D : r[x] = t
    OBVIOUS
  <2>1. PICK x \in 1..N : r[x] = t
    BY <1>2
  <2>2. x # k
    BY <2>1 DEF TotalOrder
  <2>3. ~(k < x)
    <3>1. SUFFICES ASSUME k < x PROVE FALSE
      OBVIOUS
    <3>2. <<r[k], r[x]>> \in R /\ <<r[x], r[k]>> \in R /\ r[k] \in S /\ r[x] \in S
      BY <1>2, <2>1, <3>1
    <3> QED BY <3>2 DEF TotalOrder
  <2>4. x \in D
    BY <1>1, <2>2, <2>3
  <2> QED BY <2>1, <2>4
<1>7. \A x, y \in D : r[x] = r[y] => x = y
  <2> SUFFICES ASSUME NEW x \in D, NEW y \in D, r[x] = r[y] PROVE x = y
    OBVIOUS
  <2>1. <<r[x], r[x]>> \notin R
    BY <1>2, <1>4 DEF TotalOrder
  <2>2. ~(x < y) /\ ~(y < x)
    BY <1>2, <1>4, <2>1
  <2> QED BY <2>2, <1>1
<1> HIDE DEF D, T, N
<1>8. Cardinality(T) = Cardinality(D)
  BY <1>3, <1>5, <1>6, <1>7, SameSize
<1> QED BY <1>3, <1>8 DEF T

\* There is one enumeration of a set in an order.
LEMMA OneEnumeration ==
  ASSUME NEW S, IsFiniteSet(S), NEW R, TotalOrder(S, R),
         NEW g, Enumerates(g, S, R), NEW h, Enumerates(h, S, R)
  PROVE  g = h
<1> DEFINE N == Cardinality(S)
<1>1. g \in [1..N -> S] /\ h \in [1..N -> S]
  BY DEF Enumerates
<1>2. N \in Nat
  BY SizeIsNat
<1>3. ASSUME NEW k \in 1..N PROVE g[k] = h[k]
  <2>1. PICK l \in 1..N : h[l] = g[k]
    BY <1>1 DEF Enumerates
  <2>2. Cardinality({y \in S : <<y, g[k]>> \in R}) = k - 1
    BY CountedBefore
  <2>3. Cardinality({y \in S : <<y, h[l]>> \in R}) = l - 1
    BY CountedBefore
  <2>4. k - 1 = l - 1
    BY <2>1, <2>2, <2>3
  <2>5. k = l
    BY <2>4, <1>2
  <2> QED BY <2>1, <2>5
<1> HIDE DEF N
<1>4. \A k \in 1..N : g[k] = h[k]
  BY <1>3
<1>5. g = [k \in 1..N |-> g[k]] /\ h = [k \in 1..N |-> h[k]]
  BY <1>1
<1> QED BY <1>4, <1>5

\* The points of a version have ids and numbers of their own.
Version(S) ==
  /\ IsFiniteSet(S) /\ \A p \in S : Point(p)
  /\ \A p, q \in S : p.id = q.id \/ (p.kind = q.kind /\ p.no = q.no) => p = q

\* So is a part of it.
LEMMA PartOfVersion ==
  ASSUME NEW S, Version(S), NEW T, T \subseteq S
  PROVE  Version(T)
BY FS_Subset DEF Version

\* What the constants say of a version.
LEMMA VersionsAre ==
  ASSUME NEW v \in Versions
  PROVE  Version(v)
BY ReadsAssumption DEF Version

\* The pairs of the order of ids.
LEMMA InIdOrder ==
  ASSUME NEW S, NEW p, NEW q
  PROVE  <<p, q>> \in IdOrder(S) <=> p \in S /\ q \in S /\ p.id < q.id
BY DEF IdOrder

\* Ids order the points of a version.
LEMMA IdOrderIsOrder ==
  ASSUME NEW S, Version(S)
  PROVE  TotalOrder(S, IdOrder(S))
<1>1. \A p \in S : p.id \in Int
  BY DEF Version, Point
<1>2. \A p, q \in S : p.id = q.id => p = q
  BY DEF Version
<1> QED BY <1>1, <1>2, InIdOrder DEF TotalOrder

\* g is the points of S by their ids.
Listing(g, S) ==
  /\ IsSequence(g) /\ Len(g) = Cardinality(S) /\ DOMAIN g = 1..Cardinality(S)
  /\ \A k \in DOMAIN g : g[k] \in S
  /\ \A p \in S : \E k \in DOMAIN g : g[k] = p
  /\ \A k, l \in DOMAIN g : k < l => g[k].id < g[l].id

\* ById lists the points of a version.
LEMMA ByIdLists ==
  ASSUME NEW S, Version(S)
  PROVE  Listing(ById(S), S)
<1> DEFINE g == ById(S)
           n == Cardinality(S)
<1>1. n \in Nat
  BY SizeIsNat DEF Version
<1>2. Enumerates(g, S, IdOrder(S))
  BY IdOrderIsOrder, RankedEnumerates DEF ById, Version
<1> HIDE DEF g
<1>3. /\ g \in [1..n -> S]
      /\ \A x \in S : \E k \in 1..n : g[k] = x
      /\ \A k, l \in 1..n : k < l => <<g[k], g[l]>> \in IdOrder(S)
  BY <1>2 DEF Enumerates
<1> HIDE DEF n
<1>4. DOMAIN g = 1..n /\ g = [k \in 1..n |-> g[k]]
  BY <1>3
<1>5. IsSequence(g) /\ Len(g) = n
  BY <1>1, <1>4, SequenceOf
<1>6. \A k, l \in 1..n : k < l => g[k].id < g[l].id
  BY <1>3, InIdOrder
<1> QED BY <1>3, <1>4, <1>5, <1>6 DEF Listing, g, n

\* There is one such listing.
LEMMA OneListing ==
  ASSUME NEW S, Version(S), NEW n \in Nat, NEW g, g = [k \in 1..n |-> g[k]],
         \A k \in 1..n : g[k] \in S,
         \A p \in S : \E k \in 1..n : g[k] = p,
         \A k, l \in 1..n : k < l => g[k].id < g[l].id
  PROVE  g = ById(S)
<1> DEFINE D == 1..n
<1>1. IsFiniteSet(D) /\ Cardinality(D) = n
  BY UpTo
<1>2. \A k, l \in D : g[k] = g[l] => k = l
  <2> SUFFICES ASSUME NEW k \in D, NEW l \in D, g[k] = g[l] PROVE k = l
    OBVIOUS
  <2>1. g[k].id \in Int /\ g[l].id = g[k].id
    BY DEF Version, Point
  <2>2. ~(k < l) /\ ~(l < k)
    BY <2>1
  <2> QED BY <2>2
<1>3. \A k \in D : g[k] \in S
  OBVIOUS
<1>4. \A p \in S : \E k \in D : g[k] = p
  OBVIOUS
<1>a. DOMAIN g = D /\ \A k, l \in D : k < l => <<g[k], g[l]>> \in IdOrder(S)
  BY InIdOrder
<1> HIDE DEF D
<1>5. Cardinality(S) = n
  BY <1>1, <1>2, <1>3, <1>4, SameSize
<1>6. g \in [1..n -> S]
  BY <1>3, <1>a DEF D
<1>7. Enumerates(g, S, IdOrder(S))
  BY <1>5, <1>6, <1>4, <1>a DEF Enumerates, D
<1>8. Enumerates(ById(S), S, IdOrder(S))
  BY IdOrderIsOrder, RankedEnumerates DEF ById, Version
<1>9. IsFiniteSet(S)
  BY DEF Version
<1>10. TotalOrder(S, IdOrder(S))
  BY IdOrderIsOrder
<1> QED BY <1>7, <1>8, <1>9, <1>10, OneEnumeration

\* The first n elements of a sequence.
LEMMA FirstIs ==
  ASSUME NEW s, IsSequence(s), NEW n \in Nat
  PROVE  /\ IsSequence(First(s, n)) /\ Len(First(s, n)) = Least(n, Len(s))
         /\ DOMAIN First(s, n) = 1..Least(n, Len(s)) /\ Least(n, Len(s)) \in 0..Len(s)
         /\ \A k \in 1..Least(n, Len(s)) : k \in DOMAIN s /\ First(s, n)[k] = s[k]
<1> DEFINE q == First(s, n)
           m == Least(n, Len(s))
<1>1. s \in Seq(Range(s)) /\ Len(s) \in Nat /\ DOMAIN s = 1..Len(s)
  BY DEF IsSequence
<1>2. m \in 0..Len(s)
  BY <1>1 DEF Least
<1>3. q = SubSeq(s, 1, m)
  BY DEF First
<1> HIDE DEF q, m
<1>4. Len(q) = m /\ DOMAIN q = 1..m /\ \A k \in 1..m : q[k] = s[k]
  BY <1>1, <1>2, <1>3
<1>5. q = [k \in 1..m |-> q[k]]
  BY <1>1, <1>2, <1>3, <1>4
<1>6. IsSequence(q)
  BY <1>2, <1>4, <1>5, SequenceOf
<1>7. \A k \in 1..m : k \in DOMAIN s
  BY <1>1, <1>2
<1> QED BY <1>2, <1>4, <1>6, <1>7 DEF q, m

\* The points that a scroll has passed.
Below(x) == {p \in store : p.id < x}

\* A page continues the listing of the points passed, and the next begins with the least of the
\* others.
LEMMA PageContinues ==
  ASSUME store \in Versions, off \in Nat, NEW n \in Nat \ {0}
  PROVE  LET page == First(ById(Left), n)
             rest == Left \ Range(page)
         IN /\ rest = {} => ById(Below(off)) \o page = ById(store)
            /\ rest # {} => /\ ById(rest)[1].id \in Nat \ {0}
                            /\ ById(Below(off)) \o page = ById(Below(ById(rest)[1].id))
<1> DEFINE A == Left
           B == Below(off)
           gA == ById(A)
           gB == ById(B)
           a == Len(gA)
           b == Len(gB)
           page == First(gA, n)
           m == Least(n, a)
           P == Range(page)
           rest == A \ P
           T == B \cup P
           q == gB \o page
<1>1. Version(store) /\ Version(A) /\ Version(B)
  <2>1. Version(store)
    BY VersionsAre
  <2>2. A \subseteq store /\ B \subseteq store
    BY DEF Left, Below
  <2> QED BY <2>1, <2>2, PartOfVersion
<1>2. \A p \in store : p.id \in Nat \ {0}
  BY <1>1 DEF Version, Point
<1>3. \A p : /\ p \in A <=> p \in store /\ off <= p.id
             /\ p \in B <=> p \in store /\ p.id < off
  BY <1>2 DEF Left, Below
<1>4. Listing(gA, A) /\ Listing(gB, B)
  BY <1>1, ByIdLists
<1> HIDE DEF A, B, gA, gB
<1>5. /\ IsSequence(page) /\ Len(page) = m /\ DOMAIN page = 1..m /\ m \in 0..a
      /\ \A k \in 1..m : k \in DOMAIN gA /\ page[k] = gA[k]
  BY <1>4, FirstIs DEF Listing
<1>6. /\ IsSequence(gA) /\ a \in Nat /\ DOMAIN gA = 1..a
      /\ IsSequence(gB) /\ b \in Nat /\ DOMAIN gB = 1..b
  BY <1>4 DEF Listing, IsSequence
<1>a. /\ \A k \in 1..a : gA[k] \in A
      /\ \A p \in A : \E k \in 1..a : gA[k] = p
      /\ \A k, l \in 1..a : k < l => gA[k].id < gA[l].id
  BY <1>4, <1>6 DEF Listing
<1>b. /\ \A k \in 1..b : gB[k] \in B
      /\ \A p \in B : \E k \in 1..b : gB[k] = p
      /\ \A k, l \in 1..b : k < l => gB[k].id < gB[l].id
  BY <1>4, <1>6 DEF Listing
<1>c. \A k \in 1..m : k \in 1..a /\ page[k] = gA[k]
  BY <1>5, <1>6
<1>7. \A p : p \in P <=> \E k \in 1..m : p = page[k]
  BY <1>5 DEF Range
<1>8. P \subseteq A
  BY <1>7, <1>c, <1>a
<1>9. /\ IsSequence(q) /\ Len(q) = b + m /\ DOMAIN q = 1..b + m
      /\ \A k \in 1..b : q[k] = gB[k]
      /\ \A k \in b + 1..b + m : q[k] = page[k - b]
  BY <1>5, <1>6, Joined
<1> HIDE DEF a, b, m, page, P, q
<1>10. q = ById(T)
  <2>1. b + m \in Nat
    BY <1>5, <1>6
  <2>2. T \subseteq store
    BY <1>3, <1>8
  <2>3. Version(T)
    BY <1>1, <2>2, PartOfVersion
  <2>4. \A k \in b + 1..b + m : k - b \in 1..m /\ k - b \in 1..a
    BY <1>5, <1>6
  <2>5. \A k \in b + 1..b + m : q[k] \in P /\ q[k] = gA[k - b]
    BY <2>4, <1>7, <1>9, <1>c
  <2>6. \A k \in 1..b + m : k \in 1..b \/ k \in b + 1..b + m
    BY <1>5, <1>6
  <2>7. \A k \in 1..b : k \in 1..b + m
    BY <1>5, <1>6
  <2>8. \A k \in 1..b + m : q[k] \in T
    BY <2>5, <2>6, <1>9, <1>b
  <2>9. ASSUME NEW p \in T PROVE \E k \in 1..b + m : q[k] = p
    <3>1. CASE p \in B
      BY <3>1, <1>b, <1>9, <2>7
    <3>2. CASE p \in P
      <4>1. PICK k \in 1..m : p = page[k]
        BY <3>2, <1>7
      <4>2. b + k \in b + 1..b + m /\ (b + k) - b = k /\ b + k \in 1..b + m
        BY <1>5, <1>6
      <4> QED BY <4>1, <4>2, <1>9
    <3> QED BY <3>1, <3>2
  <2>10. ASSUME NEW k \in 1..b + m, NEW l \in 1..b + m, k < l
         PROVE  q[k].id < q[l].id
    <3>1. CASE l \in 1..b
      <4>1. k \in 1..b
        BY <3>1, <2>10, <2>1, <1>6
      <4> QED BY <3>1, <4>1, <2>10, <1>9, <1>b
    <3>2. CASE k \in 1..b /\ l \in b + 1..b + m
      <4>1. q[k] \in B /\ q[l] \in A
        BY <3>2, <2>5, <1>8, <1>9, <1>b
      <4>2. q[k].id < off /\ off <= q[l].id /\ q[k].id \in Nat /\ q[l].id \in Nat
        BY <4>1, <1>2, <1>3
      <4> QED BY <4>2
    <3>3. CASE k \in b + 1..b + m /\ l \in b + 1..b + m
      <4>1. k - b \in 1..a /\ l - b \in 1..a /\ k - b < l - b
        BY <3>3, <2>4, <2>10, <1>6
      <4> QED BY <3>3, <4>1, <2>5, <1>a
    <3> QED BY <3>1, <3>2, <3>3, <2>6, <2>10, <1>6
  <2>11. q = [k \in 1..b + m |-> q[k]]
    BY <1>9 DEF IsSequence
  <2> HIDE DEF T
  <2> DEFINE d == b + m
  <2>12. /\ d \in Nat /\ q = [k \in 1..d |-> q[k]]
         /\ \A k \in 1..d : q[k] \in T
         /\ \A p \in T : \E k \in 1..d : q[k] = p
         /\ \A k, l \in 1..d : k < l => q[k].id < q[l].id
    BY <2>1, <2>8, <2>9, <2>10, <2>11
  <2> HIDE DEF d
  <2> QED BY <2>3, <2>12, OneListing
<1>11. ASSUME rest = {} PROVE q = ById(store)
  <2>1. \A p : p \in T <=> p \in store
    BY <1>2, <1>3, <1>8, <1>11
  <2> QED BY <2>1, <1>10
<1>12. ASSUME rest # {}
       PROVE  ById(rest)[1].id \in Nat \ {0} /\ q = ById(Below(ById(rest)[1].id))
  <2> DEFINE g == ById(rest)
             f == g[1]
             c == Cardinality(rest)
  <2>1. Version(rest)
    BY <1>1, PartOfVersion
  <2>2. Listing(g, rest)
    BY <2>1, ByIdLists
  <2>3. c \in Nat /\ c # 0
    BY <2>1, <1>12, SizeIsNat, FS_EmptySet DEF Version
  <2> HIDE DEF rest, g
  <2>4. /\ \A k \in 1..c : g[k] \in rest
        /\ \A p \in rest : \E k \in 1..c : g[k] = p
        /\ \A k, l \in 1..c : k < l => g[k].id < g[l].id
    BY <2>2 DEF Listing
  <2> HIDE DEF c
  <2>5. f \in rest
    BY <2>3, <2>4
  <2>6. \A p \in rest : p = f \/ f.id < p.id
    <3> SUFFICES ASSUME NEW p \in rest PROVE p = f \/ f.id < p.id
      OBVIOUS
    <3>1. PICK k \in 1..c : g[k] = p
      BY <2>4
    <3>2. 1 \in 1..c /\ (k = 1 \/ 1 < k)
      BY <2>3
    <3> QED BY <3>1, <3>2, <2>4
  <2> HIDE DEF f
  <2>7. f \in store /\ f \in A /\ f \notin P /\ f.id \in Nat \ {0}
    BY <2>5, <1>2, <1>3 DEF rest
  <2>8. \A p \in P : p.id < f.id
    <3> SUFFICES ASSUME NEW p \in P PROVE p.id < f.id
      OBVIOUS
    <3>1. PICK k \in 1..m : p = page[k]
      BY <1>7
    <3>2. PICK l \in 1..a : gA[l] = f
      BY <2>7, <1>a
    <3>3. l \notin 1..m
      BY <3>2, <2>7, <1>7, <1>c
    <3>4. k < l /\ k \in 1..a
      BY <3>3, <1>5, <1>6
    <3> QED BY <3>1, <3>2, <3>4, <1>a, <1>c
  <2>9. \A p : p \in T <=> p \in store /\ p.id < f.id
    <3>1. ASSUME NEW p \in T PROVE p \in store /\ p.id < f.id
      <4>1. CASE p \in P
        BY <4>1, <2>8, <1>3, <1>8
      <4>2. CASE p \in B
        <5>1. p \in store /\ p.id < off /\ off <= f.id
          BY <4>2, <2>7, <1>3
        <5>2. p.id \in Nat /\ f.id \in Nat
          BY <5>1, <2>7, <1>2
        <5> QED BY <5>1, <5>2
      <4> QED BY <4>1, <4>2
    <3>2. ASSUME NEW p \in store, p.id < f.id PROVE p \in T
      <4>1. p \notin rest
        <5>1. p.id \in Nat /\ f.id \in Nat
          BY <2>7, <1>2
        <5> QED BY <5>1, <3>2, <2>6
      <4>2. p \in A \/ p \in B
        BY <1>2, <1>3
      <4> QED BY <4>1, <4>2 DEF rest
    <3> QED BY <3>1, <3>2
  <2>10. T = Below(f.id)
    BY <2>9 DEF Below
  <2> QED BY <2>7, <2>10, <1>10 DEF f, g
<1> QED BY <1>11, <1>12 DEF q, page, P, A, B, gA, gB, rest

(***************************************************************************)
(* Windows, sections and lists.                                            *)
(***************************************************************************)

\* g holds points of the store, each once; every point of the store.
SomeOfStore(g) ==
  /\ IsSequence(g) /\ Len(g) \in Nat /\ DOMAIN g = 1..Len(g)
  /\ \A k \in DOMAIN g : g[k] \in store
  /\ \A k, l \in DOMAIN g : g[k] = g[l] => k = l
\* g holds them all.
AllOfStore(g) == SomeOfStore(g) /\ \A p \in store : \E k \in DOMAIN g : g[k] = p

\* A whole scroll has all points.
LEMMA ListingIsAll ==
  ASSUME store \in Versions
  PROVE  AllOfStore(ById(store)) /\ Len(ById(store)) = Cardinality(store)
<1> DEFINE g == ById(store)
<1>1. Listing(g, store) /\ Version(store)
  BY VersionsAre, ByIdLists
<1> HIDE DEF g
<1>2. IsSequence(g) /\ Len(g) \in Nat /\ DOMAIN g = 1..Len(g) /\ Len(g) = Cardinality(store)
  BY <1>1 DEF Listing, IsSequence
<1>3. /\ \A k \in DOMAIN g : g[k] \in store
      /\ \A p \in store : \E k \in DOMAIN g : g[k] = p
      /\ \A k, l \in DOMAIN g : k < l => g[k].id < g[l].id
  BY <1>1 DEF Listing
<1>4. ASSUME NEW k \in DOMAIN g, NEW l \in DOMAIN g, g[k] = g[l]
      PROVE  k = l
  <2>1. g[k].id \in Nat /\ g[l].id = g[k].id
    BY <1>1, <1>3, <1>4 DEF Version, Point
  <2>2. ~(k < l) /\ ~(l < k)
    BY <1>3, <2>1
  <2> QED BY <2>2, <1>2
<1> QED BY <1>2, <1>3, <1>4 DEF AllOfStore, SomeOfStore, g

\* One page has some, and all if there are not more than the limit.
LEMMA PageIsSome ==
  ASSUME store \in Versions, NEW n \in Nat
  PROVE  /\ SomeOfStore(First(ById(store), n))
         /\ Cardinality(store) <= n => AllOfStore(First(ById(store), n))
<1> DEFINE g == ById(store)
           q == First(g, n)
           m == Least(n, Len(g))
<1>1. AllOfStore(g) /\ Len(g) = Cardinality(store)
  BY ListingIsAll
<1> HIDE DEF g
<1>2. IsSequence(g) /\ Len(g) \in Nat /\ DOMAIN g = 1..Len(g)
  BY <1>1 DEF AllOfStore, SomeOfStore
<1>3. /\ IsSequence(q) /\ Len(q) = m /\ DOMAIN q = 1..m /\ m \in 0..Len(g)
      /\ \A k \in 1..m : k \in DOMAIN g /\ q[k] = g[k]
  BY <1>2, FirstIs
<1>a. m \in Nat
  BY <1>2, <1>3
<1>4. Cardinality(store) <= n => m = Len(g)
  BY <1>1, <1>2 DEF Least
<1> HIDE DEF q, m
<1>5. SomeOfStore(q)
  BY <1>1, <1>3, <1>a DEF AllOfStore, SomeOfStore
<1>6. Cardinality(store) <= n => AllOfStore(q)
  BY <1>1, <1>2, <1>3, <1>4, <1>5 DEF AllOfStore
<1> QED BY <1>5, <1>6 DEF q, g

\* q is the hits at the places I, the least number first.
Sorted(q, hits, I) ==
  /\ IsSequence(q) /\ Len(q) = Cardinality(I) /\ Len(q) \in Nat /\ DOMAIN q = 1..Len(q)
  /\ \A k \in DOMAIN q : \E i \in I : q[k] = hits[i]
  /\ \A i \in I : \E k \in DOMAIN q : q[k] = hits[i]
  /\ \A k, l \in DOMAIN q : k < l =>
       \E i, j \in I : i # j /\ q[k] = hits[i] /\ q[l] = hits[j] /\ hits[i].no <= hits[j].no

\* Sorting by number loses and repeats no hit.
LEMMA ByNoSorts ==
  ASSUME NEW hits, NEW n \in Nat, NEW I, I \subseteq 1..n, \A i \in I : hits[i].no \in Int
  PROVE  Sorted(ByNo(hits, I), hits, I)
<1> DEFINE key == [i \in I |-> hits[i].no]
           R == ByKey(I, key)
           r == Ranked(I, R)
           c == Cardinality(I)
           q == ByNo(hits, I)
<1>1. I \subseteq Int /\ IsFiniteSet(I)
  <2>1. IsFiniteSet(1..n)
    BY UpTo
  <2>2. IsFiniteSet(I)
    BY <2>1, FS_Subset
  <2> QED BY <2>2
<1>2. key \in [I -> Int] /\ \A i \in I : key[i] = hits[i].no
  OBVIOUS
<1>3. TotalOrder(I, R)
  BY <1>1, <1>2, ByKeyIsOrder
<1>4. Enumerates(r, I, R)
  BY <1>1, <1>3, RankedEnumerates
<1>5. Lists(q, c, hits, r)
  BY <1>1, <1>3, ArrangedIs DEF ByNo
<1>6. c \in Nat
  BY <1>1, SizeIsNat
<1>7. \A i, j : <<i, j>> \in R <=> i \in I /\ j \in I /\ (key[i] < key[j] \/ (key[i] = key[j] /\ i < j))
  BY DEF ByKey
<1> HIDE DEF R, r, q, key
<1>8. /\ \A k \in 1..c : r[k] \in I
      /\ \A i \in I : \E k \in 1..c : r[k] = i
      /\ \A k, l \in 1..c : k < l => <<r[k], r[l]>> \in R
  BY <1>4 DEF Enumerates
<1> HIDE DEF c
<1>9. /\ IsSequence(q) /\ Len(q) = c /\ DOMAIN q = 1..c
      /\ \A k \in 1..c : q[k] = hits[r[k]]
  BY <1>5 DEF Lists
<1>10. ASSUME NEW k \in 1..c, NEW l \in 1..c, k < l
       PROVE  \E i, j \in I : i # j /\ q[k] = hits[i] /\ q[l] = hits[j] /\ hits[i].no <= hits[j].no
  <2>1. <<r[k], r[l]>> \in R /\ r[k] \in I /\ r[l] \in I
    BY <1>8, <1>10
  <2>a. key[r[k]] \in Int /\ key[r[l]] \in Int /\ r[k] \in Int /\ r[l] \in Int
    BY <2>1, <1>1, <1>2
  <2>b. key[r[k]] < key[r[l]] \/ (key[r[k]] = key[r[l]] /\ r[k] < r[l])
    BY <2>1, <1>7
  <2>c. r[k] # r[l] /\ key[r[k]] <= key[r[l]]
    BY <2>a, <2>b
  <2>2. r[k] # r[l] /\ hits[r[k]].no <= hits[r[l]].no
    BY <2>1, <2>c, <1>2
  <2> QED BY <2>1, <2>2, <1>9
<1>11. \A k \in 1..c : \E i \in I : q[k] = hits[i]
  BY <1>8, <1>9
<1>12. \A i \in I : \E k \in 1..c : q[k] = hits[i]
  BY <1>8, <1>9
<1>13. IsSequence(q) /\ Len(q) = Cardinality(I) /\ Len(q) \in Nat /\ DOMAIN q = 1..Len(q)
  BY <1>6, <1>9 DEF c
<1>14. DOMAIN q = 1..c
  BY <1>9
<1>15. /\ \A k \in DOMAIN q : \E i \in I : q[k] = hits[i]
       /\ \A i \in I : \E k \in DOMAIN q : q[k] = hits[i]
  BY <1>11, <1>12, <1>14
<1>16. \A k, l \in DOMAIN q : k < l =>
         \E i, j \in I : i # j /\ q[k] = hits[i] /\ q[l] = hits[j] /\ hits[i].no <= hits[j].no
  BY <1>10, <1>14
<1>17. Sorted(q, hits, I)
  BY <1>13, <1>15, <1>16 DEF Sorted
<1> QED BY <1>17 DEF q

\* Chunks of one kind ascend strictly.
LEMMA OneKindAscends ==
  ASSUME store \in Versions, NEW g, SomeOfStore(g), NEW I, I \subseteq DOMAIN g,
         NEW kind, \A i \in I : g[i].kind = kind
  PROVE  /\ Sorted(ByNo(g, I), g, I)
         /\ \A k, l \in DOMAIN ByNo(g, I) : k < l => ByNo(g, I)[k].no < ByNo(g, I)[l].no
<1> DEFINE q == ByNo(g, I)
<1>1. Version(store) /\ DOMAIN g = 1..Len(g) /\ Len(g) \in Nat
  BY VersionsAre DEF SomeOfStore
<1>2. \A i \in DOMAIN g : g[i] \in store /\ g[i].no \in Nat
  BY <1>1 DEF SomeOfStore, Version, Point
<1>3. Sorted(q, g, I)
  BY <1>1, <1>2, ByNoSorts
<1> HIDE DEF q
<1>4. ASSUME NEW k \in DOMAIN q, NEW l \in DOMAIN q, k < l
      PROVE  q[k].no < q[l].no
  <2>1. PICK i \in I, j \in I : i # j /\ q[k] = g[i] /\ q[l] = g[j] /\ g[i].no <= g[j].no
    BY <1>3, <1>4 DEF Sorted
  <2>2. g[i] # g[j]
    BY <2>1 DEF SomeOfStore
  <2>3. g[i].no # g[j].no
    BY <2>2, <1>1, <1>2 DEF Version
  <2> QED BY <2>1, <2>3, <1>2
<1> QED BY <1>3, <1>4 DEF q

\* An answer shows kind and number of each chunk.
LEMMA NumbersIs ==
  ASSUME NEW s
  PROVE  /\ DOMAIN Numbers(s) = DOMAIN s
         /\ \A k \in DOMAIN s : Numbers(s)[k] = <<s[k].kind, s[k].no>> /\ Numbers(s)[k][2] = s[k].no
BY DEF Numbers

\* GetChunkWindow.
LEMMA WindowIs ==
  ASSUME store \in Versions, read.anchor.no \in Int, read.window \in Int, NEW g, SomeOfStore(g)
  PROVE  LET near(p) == p.no - read.anchor.no \in -read.window..read.window
             all == Keys(Chunks(read.anchor.kind, near))
         IN /\ Increasing(GetChunkWindow(g)) /\ Range(GetChunkWindow(g)) \subseteq all
            /\ AllOfStore(g) => Range(GetChunkWindow(g)) = all
<1> DEFINE a == read.anchor
           near(p) == p.no - a.no \in -read.window..read.window
           C == Chunks(a.kind, near)
           I == {i \in DOMAIN g : g[i].kind = a.kind /\ g[i].no \in a.no - read.window..a.no + read.window}
           q == ByNo(g, I)
           s == GetChunkWindow(g)
<1>1. s = Numbers(q)
  BY DEF GetChunkWindow
<1>2. \A p \in store : p.no \in Int
  BY VersionsAre DEF Version, Point
<1>3. \A p : p \in C <=> p \in store /\ p.kind = a.kind /\ p.no \in a.no - read.window..a.no + read.window
  BY <1>2 DEF Chunks
<1>4. \A i \in DOMAIN g : g[i] \in store
  BY DEF SomeOfStore
<1>5. \A i : i \in I <=> i \in DOMAIN g /\ g[i] \in C
  BY <1>3, <1>4
<1>6. I \subseteq DOMAIN g /\ \A i \in I : g[i].kind = a.kind
  OBVIOUS
<1> HIDE DEF C, I, q, s
<1>7. /\ Sorted(q, g, I)
      /\ \A k, l \in DOMAIN q : k < l => q[k].no < q[l].no
  BY <1>6, OneKindAscends DEF q
<1>8. DOMAIN s = DOMAIN q /\ \A k \in DOMAIN q : s[k] = <<q[k].kind, q[k].no>> /\ s[k][2] = q[k].no
  BY <1>1, NumbersIs
<1>9. Increasing(s)
  BY <1>7, <1>8 DEF Increasing
<1>10. \A k \in DOMAIN q : q[k] \in C
  BY <1>5, <1>7 DEF Sorted
<1>11. \A x : x \in Keys(C) <=> \E p \in C : x = <<p.kind, p.no>>
  BY DEF Keys
<1>12. \A x : x \in Range(s) <=> \E k \in DOMAIN q : x = <<q[k].kind, q[k].no>>
  BY <1>8 DEF Range
<1>13. Range(s) \subseteq Keys(C)
  BY <1>10, <1>11, <1>12
<1>14. ASSUME AllOfStore(g) PROVE Range(s) = Keys(C)
  <2>1. ASSUME NEW p \in C PROVE \E k \in DOMAIN q : q[k] = p
    <3>1. PICK i \in DOMAIN g : g[i] = p
      BY <1>3, <1>14 DEF AllOfStore
    <3>2. i \in I
      BY <3>1, <1>5
    <3> QED BY <3>1, <3>2, <1>7 DEF Sorted
  <2>2. Keys(C) \subseteq Range(s)
    BY <2>1, <1>11, <1>12
  <2> QED BY <2>2, <1>13
<1> QED BY <1>9, <1>13, <1>14 DEF C, s

\* The points of g at the places I are as many as the places.
LEMMA AsManyPoints ==
  ASSUME NEW g, SomeOfStore(g), NEW I, I \subseteq DOMAIN g, NEW S,
         \A i \in I : g[i] \in S, \A p \in S : \E i \in I : g[i] = p
  PROVE  Cardinality(S) = Cardinality(I)
<1>1. IsFiniteSet(I)
  <2>1. IsFiniteSet(1..Len(g)) /\ I \subseteq 1..Len(g)
    BY UpTo DEF SomeOfStore
  <2> QED BY <2>1, FS_Subset
<1>2. \A i, j \in I : g[i] = g[j] => i = j
  BY DEF SomeOfStore
<1> QED BY <1>1, <1>2, SameSize

\* GetParentChunks.
LEMMA AnchorIs ==
  ASSUME store \in Versions, NEW g, AllOfStore(g), NEW i \in DOMAIN g, IsAnchor(g[i])
  PROVE  /\ Anchor(g) \in store /\ IsAnchor(Anchor(g))
         /\ \A p \in store : IsAnchor(p) <=> p = Anchor(g)
<1> DEFINE A == {j \in DOMAIN g : IsAnchor(g[j])}
           m == CHOOSE j \in A : \A k \in A : j <= k
<1>1. DOMAIN g = 1..Len(g) /\ Len(g) \in Nat /\ \A j \in DOMAIN g : g[j] \in store
  BY DEF AllOfStore, SomeOfStore
<1>2. A \subseteq Nat /\ A # {}
  BY <1>1
<1>3. Anchor(g) = g[m]
  BY DEF Anchor
<1> HIDE DEF A
<1>4. \E j \in A : \A k \in A : j <= k
  BY <1>2, LeastOne
<1>5. m \in A
  BY <1>4
<1> HIDE DEF m
<1>6. Anchor(g) \in store /\ IsAnchor(Anchor(g))
  BY <1>1, <1>3, <1>5 DEF A
<1>7. \A p \in store : IsAnchor(p) => p = Anchor(g)
  BY <1>6, VersionsAre DEF IsAnchor, Version
<1> QED BY <1>6, <1>7

\* From any chunk of it, the section.
LEMMA ParentIs ==
  ASSUME store \in Versions, NEW g, AllOfStore(g)
  PROVE  LET anchor == {p \in store : IsAnchor(p)}
             section == {p \in store : \E a \in anchor : p = a \/ /\ a.parent # NoParent
                                                                  /\ p.kind = a.kind
                                                                  /\ p.parent = a.parent}
             t == GetParentChunks(g)
         IN /\ Increasing(t) /\ Range(t) \subseteq Keys(section)
            /\ Len(t) = Least(parentMaxChunks, Cardinality(section))
            /\ \A p \in section : \/ <<p.kind, p.no>> \in Range(t)
                                  \/ \A k \in DOMAIN t : t[k][2] < p.no
<1> DEFINE anchor == {p \in store : IsAnchor(p)}
           S == {p \in store : \E a \in anchor : p = a \/ /\ a.parent # NoParent
                                                          /\ p.kind = a.kind
                                                          /\ p.parent = a.parent}
           t == GetParentChunks(g)
<1>1. SomeOfStore(g) /\ \A p \in store : \E i \in DOMAIN g : g[i] = p
  BY DEF AllOfStore
<1>2. \A x : x \in Keys(S) <=> \E p \in S : x = <<p.kind, p.no>>
  BY DEF Keys
<1>3. CASE ~\E i \in DOMAIN g : IsAnchor(g[i])
  <2>1. t = <<>>
    BY <1>3 DEF GetParentChunks
  <2>2. anchor = {}
    BY <1>1, <1>3
  <2>3. S = {}
    BY <2>2
  <2>4. Keys(S) = {}
    BY <1>2, <2>3
  <2>5. DOMAIN t = {}
    BY <2>1
  <2>6. Increasing(t) /\ Range(t) = {}
    BY <2>5 DEF Increasing, Range
  <2>7. Len(t) = Least(parentMaxChunks, Cardinality(S))
    <3>1. Len(t) = 0
      BY <2>1
    <3>2. Cardinality(S) = 0
      BY <2>3, FS_EmptySet
    <3> HIDE DEF S, t
    <3> QED BY <3>1, <3>2, ReadsAssumption DEF Least
  <2> QED BY <2>3, <2>4, <2>6, <2>7
<1>4. ASSUME NEW i0 \in DOMAIN g, IsAnchor(g[i0])
      PROVE  /\ Increasing(t) /\ Range(t) \subseteq Keys(S)
             /\ Len(t) = Least(parentMaxChunks, Cardinality(S))
             /\ \A p \in S : <<p.kind, p.no>> \in Range(t) \/ \A k \in DOMAIN t : t[k][2] < p.no
  <2> DEFINE a == Anchor(g)
             I == {i \in DOMAIN g : /\ g[i].kind = read.anchor.kind
                                    /\ IF a.parent = NoParent THEN g[i].no = read.anchor.no
                                       ELSE g[i].parent = a.parent}
             q == ByNo(g, I)
             m == Least(parentMaxChunks, Len(q))
             s == First(q, parentMaxChunks)
  <2>1. a \in store /\ IsAnchor(a) /\ \A p \in store : IsAnchor(p) <=> p = a
    BY <1>4, AnchorIs
  <2>2. t = Numbers(s)
    BY <1>4 DEF GetParentChunks
  <2>3. \A i \in DOMAIN g : g[i] \in store
    BY <1>1 DEF SomeOfStore
  <2>a. I \subseteq DOMAIN g /\ \A i \in I : g[i].kind = read.anchor.kind
    OBVIOUS
  <2> HIDE DEF a
  <2>4. \A p : p \in S <=> p \in store /\ (p = a \/ (a.parent # NoParent /\ p.kind = a.kind /\ p.parent = a.parent))
    BY <2>1
  <2>5. \A p \in store : p.kind = read.anchor.kind /\ p.no = read.anchor.no <=> p = a
    BY <2>1 DEF IsAnchor
  <2>6. a.kind = read.anchor.kind
    BY <2>1 DEF IsAnchor
  <2>7. \A i : i \in I <=> i \in DOMAIN g /\ g[i] \in S
    BY <2>3, <2>4, <2>5, <2>6
  <2> HIDE DEF I, S, q, s
  <2>8. /\ Sorted(q, g, I)
        /\ \A k, l \in DOMAIN q : k < l => q[k].no < q[l].no
    BY <1>1, <2>a, OneKindAscends DEF q
  <2>9. IsSequence(q) /\ Len(q) = Cardinality(I) /\ Len(q) \in Nat /\ DOMAIN q = 1..Len(q)
    BY <2>8 DEF Sorted
  <2>10. /\ DOMAIN s = 1..m /\ m \in 0..Len(q)
         /\ \A k \in 1..m : k \in DOMAIN q /\ s[k] = q[k]
    BY <2>9, FirstIs, ReadsAssumption DEF s
  <2>11. DOMAIN t = 1..m /\ \A k \in 1..m : t[k] = <<q[k].kind, q[k].no>> /\ t[k][2] = q[k].no
    BY <2>2, <2>10, NumbersIs
  <2>12. Increasing(t)
    BY <2>8, <2>10, <2>11 DEF Increasing
  <2>13. \A p \in S : \E i \in I : g[i] = p
    BY <1>1, <2>4, <2>7
  <2>14. Cardinality(S) = Cardinality(I)
    BY <1>1, <2>a, <2>7, <2>13, AsManyPoints
  <2>15. \A x : x \in Range(t) <=> \E k \in 1..m : x = <<q[k].kind, q[k].no>>
    BY <2>11 DEF Range
  <2>16. Range(t) \subseteq Keys(S)
    <3>1. \A k \in 1..m : q[k] \in S
      BY <2>7, <2>8, <2>10 DEF Sorted
    <3> QED BY <1>2, <2>15, <3>1
  <2>17. Len(t) = Least(parentMaxChunks, Cardinality(S))
    <3>1. Len(t) = Len(s)
      BY <2>2 DEF Numbers
    <3>2. Len(s) = m
      BY <2>9, FirstIs, ReadsAssumption DEF s
    <3> QED BY <2>9, <2>14, <3>1, <3>2
  <2>18. ASSUME NEW p \in S, <<p.kind, p.no>> \notin Range(t), NEW k \in DOMAIN t
         PROVE  t[k][2] < p.no
    <3>1. PICK i \in I : g[i] = p
      BY <2>13
    <3>2. PICK l \in DOMAIN q : q[l] = p
      BY <3>1, <2>8 DEF Sorted
    <3>3. l \notin 1..m
      BY <2>15, <2>18, <3>2
    <3>4. k \in 1..m /\ k \in DOMAIN q /\ k < l
      BY <2>9, <2>10, <2>11, <2>18, <3>2, <3>3
    <3> QED BY <2>8, <2>11, <3>2, <3>4
  <2> QED BY <2>12, <2>16, <2>17, <2>18
<1> QED BY <1>3, <1>4

\* Kinds are told apart by their rank.
LEMMA KindRanks ==
  ASSUME NEW k \in Range(Kinds)
  PROVE  KindRank(k) \in Int /\ Kinds[KindRank(k)] = k
<1>1. \E i \in DOMAIN Kinds : Kinds[i] = k
  BY DEF Range
<1>2. DOMAIN Kinds = 1..5
  BY DEF Kinds
<1>3. \E i \in 1..5 : Kinds[i] = k
  BY <1>1, <1>2
<1>4. KindRank(k) = CHOOSE i \in 1..5 : Kinds[i] = k
  BY <1>2 DEF KindRank
<1> QED BY <1>3, <1>4

\* The pairs of the order of a list.
LEMMA InListOrder ==
  ASSUME NEW g, NEW i, NEW j
  PROVE  <<i, j>> \in ListOrder(g) <=>
           /\ i \in DOMAIN g /\ j \in DOMAIN g
           /\ \/ Listed(g[i].kind, g[i].no, g[j].kind, g[j].no)
              \/ g[i].kind = g[j].kind /\ g[i].no = g[j].no /\ i < j
BY DEF ListOrder

\* Kind and number order the hits of a list.
LEMMA ListOrderIsOrder ==
  ASSUME NEW g, DOMAIN g \subseteq Int, \A i \in DOMAIN g : Point(g[i])
  PROVE  TotalOrder(DOMAIN g, ListOrder(g))
<1> DEFINE D == DOMAIN g
           kr(i) == KindRank(g[i].kind)
           no(i) == g[i].no
           lt(i, j) == kr(i) < kr(j) \/ (kr(i) = kr(j) /\ (no(i) < no(j) \/ (no(i) = no(j) /\ i < j)))
<1>1. \A i \in D : kr(i) \in Int /\ no(i) \in Int /\ Kinds[kr(i)] = g[i].kind
  BY KindRanks DEF Point
<1>2. \A i \in D : i \in Int
  OBVIOUS
<1> HIDE DEF kr
<1>3. \A i, j \in D : kr(i) = kr(j) <=> g[i].kind = g[j].kind
  BY <1>1 DEF kr
<1>4. \A i, j \in D : <<i, j>> \in ListOrder(g) <=> lt(i, j)
  <2> SUFFICES ASSUME NEW i \in D, NEW j \in D PROVE <<i, j>> \in ListOrder(g) <=> lt(i, j)
    OBVIOUS
  <2>1. <<i, j>> \in ListOrder(g) <=>
          \/ kr(i) < kr(j) \/ (g[i].kind = g[j].kind /\ no(i) < no(j))
          \/ g[i].kind = g[j].kind /\ no(i) = no(j) /\ i < j
    BY InListOrder DEF Listed, kr
  <2> QED BY <2>1, <1>3
<1> HIDE DEF no, D
<1>5. \A i \in D : ~lt(i, i)
  BY <1>1, <1>2
<1>6. \A i, j \in D : i = j \/ lt(i, j) \/ lt(j, i)
  BY <1>1, <1>2
<1>7. \A i, j, k \in D : lt(i, j) /\ lt(j, k) => lt(i, k)
  BY <1>1, <1>2
<1> HIDE DEF lt
<1>8. TotalOrder(D, ListOrder(g))
  BY <1>4, <1>5, <1>6, <1>7 DEF TotalOrder
<1> QED BY <1>8 DEF D

\* GetFileChunks.
LEMMA FileIs ==
  ASSUME store \in Versions, NEW g, AllOfStore(g), Len(g) = Cardinality(store), g # <<>>,
         read.offset \in Nat, read.limit \in Nat
  PROVE  LET t == GetFileChunks(g) IN
         /\ Len(t) = Least(read.limit, IF Cardinality(store) < read.offset THEN 0
                                       ELSE Cardinality(store) - read.offset)
         /\ \A i \in DOMAIN t :
              Cardinality({p \in store : Listed(p.kind, p.no, t[i][1], t[i][2])})
                = read.offset + i - 1
<1> DEFINE N == Len(g)
           R == ListOrder(g)
           r == Ranked(DOMAIN g, R)
           all == ByKindNo(g)
           o == read.offset
           b == Least(o, N)
           e == Least(b + read.limit, N)
           s == SubSeq(all, b + 1, e)
           t == GetFileChunks(g)
<1>1. SomeOfStore(g) /\ Version(store) /\ N \in Nat /\ DOMAIN g = 1..N /\ \A p \in store : \E i \in DOMAIN g : g[i] = p
  BY VersionsAre DEF AllOfStore, SomeOfStore
<1>2. IsFiniteSet(1..N) /\ Cardinality(1..N) = N
  BY <1>1, UpTo
<1>3. \A i \in 1..N : g[i] \in store /\ Point(g[i])
  BY <1>1 DEF SomeOfStore, Version
<1>4. TotalOrder(1..N, R)
  <2>1. TotalOrder(DOMAIN g, R)
    BY <1>1, <1>3, ListOrderIsOrder
  <2> QED BY <2>1, <1>1
<1>5. Enumerates(r, 1..N, R)
  BY <1>1, <1>2, <1>4, RankedEnumerates
<1>6. Lists(all, N, g, r)
  BY <1>1, <1>2, <1>4, ArrangedIs DEF ByKindNo
<1> HIDE DEF all
<1>7. /\ IsSequence(all) /\ Len(all) = N /\ DOMAIN all = 1..N
      /\ \A k \in 1..N : all[k] = g[r[k]]
  BY <1>6 DEF Lists
<1>8. t = Numbers(s)
  BY <1>7 DEF GetFileChunks, all
<1>9. b \in 0..N /\ e \in b..N
  BY <1>1 DEF Least
<1>10. DOMAIN s = 1..e - b /\ Len(s) = e - b /\ \A k \in 1..e - b : b + k \in 1..N /\ s[k] = all[b + k]
  <2>1. all \in Seq(Range(all))
    BY <1>7 DEF IsSequence
  <2>2. b + 1 \in 1..Len(all) + 1 /\ e \in (b + 1) - 1..Len(all)
    BY <1>7, <1>9, <1>1
  <2> HIDE DEF b, e
  <2> DEFINE m == b + 1
             T == Range(all)
  <2>3. m \in Int /\ e \in Int /\ (IF m <= e THEN e - m + 1 ELSE 0) = e - m + 1 /\ s = SubSeq(all, m, e)
    BY <1>1, <1>9
  <2>4. \A k \in m..e : all[k] \in T
    BY <2>1, <1>1, <1>7, <1>9
  <2> HIDE DEF m, T, s
  <2>5. /\ s \in Seq(T) /\ Len(s) = e - m + 1
        /\ \A k \in 1..e - m + 1 : s[k] = all[m + k - 1]
    BY <2>3, <2>4, SubSeqProperties
  <2>6. e - (b + 1) + 1 = e - b /\ \A k \in 1..e - b : (b + 1) + k - 1 = b + k /\ b + k \in 1..N
    BY <1>1, <1>9
  <2> QED BY <2>5, <2>6 DEF m
<1> HIDE DEF s, e, b
<1>11. /\ DOMAIN t = 1..e - b
       /\ \A k \in 1..e - b : t[k] = <<all[b + k].kind, all[b + k].no>>
  BY <1>8, <1>10, NumbersIs
<1>12. Len(t) = e - b
  <2>1. t = [k \in 1..e - b |-> t[k]]
    BY <1>8, <1>10 DEF Numbers
  <2>2. e - b \in Nat
    BY <1>1, <1>9
  <2> HIDE DEF t
  <2> QED BY <2>1, <2>2, SequenceOf
<1>13. e - b = Least(read.limit, IF N < o THEN 0 ELSE N - o)
  BY <1>1 DEF Least, b, e
<1>14. \A k \in 1..e - b : b = o
  BY <1>1, <1>9 DEF b, e, Least
<1> HIDE DEF t
<1>15. ASSUME NEW i \in 1..e - b
       PROVE  Cardinality({p \in store : Listed(p.kind, p.no, t[i][1], t[i][2])}) = o + i - 1
  <2> DEFINE k == b + i
             y == r[k]
             T == {p \in store : Listed(p.kind, p.no, t[i][1], t[i][2])}
             D == {j \in 1..N : <<j, y>> \in R}
  <2>1. k \in 1..N /\ k = o + i
    BY <1>10, <1>14, <1>15
  <2>2. y \in 1..N
    BY <2>1, <1>2, <1>5 DEF Enumerates
  <2>3. t[i][1] = g[y].kind /\ t[i][2] = g[y].no
    BY <2>1, <1>7, <1>11
  <2>4. Cardinality(D) = k - 1
    BY <2>1, <1>2, <1>4, <1>5, CountedBefore
  <2> HIDE DEF y
  <2>5. \A j \in 1..N : <<j, y>> \in R <=> Listed(g[j].kind, g[j].no, g[y].kind, g[y].no)
    <3> SUFFICES ASSUME NEW j \in 1..N
                 PROVE  <<j, y>> \in R <=> Listed(g[j].kind, g[j].no, g[y].kind, g[y].no)
      OBVIOUS
    <3>1. g[j].kind = g[y].kind /\ g[j].no = g[y].no => j = y
      BY <2>2, <1>1, <1>3 DEF Version, SomeOfStore
    <3>2. ~(j = y /\ j < y)
      BY <2>2, <1>1
    <3> QED BY <3>1, <3>2, <2>2, <1>1, InListOrder
  <2>6. \A p : p \in T <=> p \in store /\ Listed(p.kind, p.no, g[y].kind, g[y].no)
    BY <2>3
  <2>7. D \subseteq DOMAIN g
    BY <1>1
  <2> HIDE DEF T
  <2>8. \A j \in D : g[j] \in T
    BY <2>5, <2>6, <1>3
  <2>9. \A p \in T : \E j \in D : g[j] = p
    BY <2>5, <2>6, <1>1
  <2> HIDE DEF D
  <2>10. Cardinality(T) = Cardinality(D)
    BY <2>7, <2>8, <2>9, <1>1, AsManyPoints
  <2> QED BY <2>1, <2>4, <2>10 DEF T
<1> QED BY <1>11, <1>12, <1>13, <1>15 DEF t

(***************************************************************************)
(* The text of a document.                                                 *)
(***************************************************************************)

\* The characters in a text whose offsets are known.
Chars(s) == {x \in Range(s) : x > 0}
\* They are in order.
InOrder(s) == \A i, j \in DOMAIN s : i < j /\ s[i] > 0 /\ s[j] > 0 => s[i] < s[j]

\* Texts whose characters follow one another make a text in order.
LEMMA JoinedTexts ==
  ASSUME NEW s \in Seq(Int), NEW t \in Seq(Int), InOrder(s), InOrder(t),
         \A x \in Chars(s), y \in Chars(t) : x < y
  PROVE  s \o t \in Seq(Int) /\ InOrder(s \o t) /\ Chars(s \o t) = Chars(s) \cup Chars(t)
<1> DEFINE q == s \o t
           a == Len(s)
           b == Len(t)
<1>1. /\ a \in Nat /\ b \in Nat /\ DOMAIN s = 1..a /\ DOMAIN t = 1..b
      /\ \A k \in 1..a : s[k] \in Int
      /\ \A k \in 1..b : t[k] \in Int
  OBVIOUS
<1>2. q \in Seq(Int) /\ Len(q) = a + b
  OBVIOUS
<1>3. DOMAIN q = 1..a + b
  BY <1>1, <1>2
<1>4. \A k \in 1..a : q[k] = s[k]
  BY <1>1
<1>5. \A k \in 1..b : q[a + k] = t[k]
  BY <1>1
<1> HIDE DEF q, a, b
<1>6. \A k \in 1..a + b : k \in 1..a \/ (k - a \in 1..b /\ k = a + (k - a))
  BY <1>1
<1>7. \A k \in 1..b : a + k \in 1..a + b
  BY <1>1
<1>8. \A k \in 1..a : k \in 1..a + b
  BY <1>1
<1>9. \A k \in 1..a : s[k] > 0 => s[k] \in Chars(s)
  BY <1>1 DEF Chars, Range
<1>10. \A k \in 1..b : t[k] > 0 => t[k] \in Chars(t)
  BY <1>1 DEF Chars, Range
<1>11. ASSUME NEW i \in 1..a + b, NEW j \in 1..a + b, i < j, q[i] > 0, q[j] > 0
       PROVE  q[i] < q[j]
  <2>1. CASE j \in 1..a
    <3>1. i \in 1..a
      BY <2>1, <1>1, <1>11
    <3>2. s[i] < s[j]
      BY <3>1, <2>1, <1>1, <1>4, <1>11 DEF InOrder
    <3> QED BY <3>1, <3>2, <2>1, <1>4
  <2>2. CASE i \in 1..a /\ j - a \in 1..b
    <3>1. q[i] = s[i] /\ q[j] = t[j - a]
      BY <2>2, <1>4, <1>5, <1>6, <1>1
    <3>2. s[i] \in Chars(s) /\ t[j - a] \in Chars(t)
      BY <3>1, <2>2, <1>9, <1>10, <1>11
    <3> QED BY <3>1, <3>2
  <2>3. CASE i - a \in 1..b /\ j - a \in 1..b
    <3>1. i = a + (i - a) /\ j = a + (j - a) /\ i - a < j - a
      BY <1>1, <1>11
    <3> DEFINE k == i - a
               l == j - a
    <3>2. q[i] = t[k] /\ q[j] = t[l]
      BY <2>3, <3>1, <1>5
    <3>3. k \in 1..b /\ l \in 1..b /\ k < l
      BY <2>3, <3>1
    <3> HIDE DEF k, l
    <3>4. t[k] > 0 /\ t[l] > 0
      BY <3>2, <1>11
    <3>5. t[k] < t[l]
      BY <3>3, <3>4, <1>1 DEF InOrder
    <3> QED BY <3>2, <3>5
  <2>4. i \in 1..a \/ i - a \in 1..b
    BY <1>6
  <2>5. j \in 1..a \/ j - a \in 1..b
    BY <1>6
  <2>6. j \in 1..a => i \in 1..a
    BY <1>1, <1>11
  <2> QED BY <2>1, <2>2, <2>3, <2>4, <2>5
<1>12. InOrder(q)
  BY <1>3, <1>11 DEF InOrder
<1>13. \A x : x \in Range(q) <=> x \in Range(s) \/ x \in Range(t)
  <2>1. ASSUME NEW k \in 1..a + b PROVE q[k] \in Range(s) \/ q[k] \in Range(t)
    <3>1. CASE k \in 1..a
      BY <3>1, <1>1, <1>4 DEF Range
    <3>2. CASE k - a \in 1..b /\ k = a + (k - a)
      <4> DEFINE l == k - a
      <4>1. l \in 1..b /\ q[k] = t[l]
        BY <3>2, <1>5
      <4> HIDE DEF l
      <4> QED BY <4>1, <1>1 DEF Range
    <3> QED BY <3>1, <3>2, <1>6
  <2>2. ASSUME NEW k \in 1..a PROVE s[k] \in Range(q)
    BY <1>3, <1>4, <1>8 DEF Range
  <2>3. ASSUME NEW k \in 1..b PROVE t[k] \in Range(q)
    BY <1>3, <1>5, <1>7 DEF Range
  <2>4. /\ Range(q) = {q[k] : k \in 1..a + b}
        /\ Range(s) = {s[k] : k \in 1..a}
        /\ Range(t) = {t[k] : k \in 1..b}
    BY <1>1, <1>3 DEF Range
  <2> QED BY <2>1, <2>2, <2>3, <2>4
<1>14. Chars(q) = Chars(s) \cup Chars(t)
  BY <1>13 DEF Chars
<1> QED BY <1>2, <1>12, <1>14 DEF q

\* A page marker is no character.
LEMMA TurnIs ==
  ASSUME NEW acc, NEW c, Point(c)
  PROVE  PageTurn(acc, c) \in Seq(Int) /\ InOrder(PageTurn(acc, c)) /\ Chars(PageTurn(acc, c)) = {}
<1> DEFINE q == PageTurn(acc, c)
<1>1. CASE c.page # NoPage /\ c.page # acc.page
  <2>1. c.page \in Nat
    BY <1>1 DEF Point
  <2> DEFINE m == -c.page
  <2>2. q = <<m>>
    BY <1>1 DEF PageTurn, Marker
  <2>3. m \in Int /\ ~(m > 0)
    BY <2>1
  <2> HIDE DEF m, q
  <2>4. q \in Seq(Int) /\ DOMAIN q = {1} /\ q[1] = m
    BY <2>2, <2>3
  <2>5. InOrder(q) /\ Chars(q) = {}
    BY <2>3, <2>4 DEF InOrder, Chars, Range
  <2> QED BY <2>4, <2>5 DEF q
<1>2. CASE ~(c.page # NoPage /\ c.page # acc.page)
  <2>1. q = <<>>
    BY <1>2 DEF PageTurn
  <2> HIDE DEF q
  <2>2. q \in Seq(Int) /\ InOrder(q) /\ Chars(q) = {}
    BY <2>1 DEF InOrder, Chars, Range
  <2> QED BY <2>2 DEF q
<1> QED BY <1>1, <1>2

\* Of a chunk, what lies beyond the cursor is its characters after it, in order.
LEMMA BeyondIs ==
  ASSUME NEW acc, acc.cursor \in Nat, NEW c, Point(c)
  PROVE  /\ Beyond(acc, c) \in Seq(Int) /\ InOrder(Beyond(acc, c))
         /\ Chars(Beyond(acc, c)) = {x \in Chars(c.text) : x > acc.cursor}
<1> DEFINE q == Beyond(acc, c)
           s == c.text
           N == Len(s)
           u == acc.cursor
<1>1. s \in Seq(Int) /\ N \in Nat /\ DOMAIN s = 1..N /\ \A i \in 1..N : s[i] \in Int
  BY DEF Point
<1>2. CASE c.from = NoOffset
  <2>1. \A i \in 1..N : s[i] <= 0
    BY <1>1, <1>2 DEF Point, NoOffset
  <2>2. q = Append(s, Newline)
    BY <1>2 DEF Beyond
  <2> HIDE DEF s
  <2>3. q \in Seq(Int) /\ Len(q) = N + 1 /\ \A i \in 1..N : q[i] = s[i]
    BY <1>1, <2>2 DEF Newline
  <2>4. q[N + 1] = 0
    BY <1>1, <2>2 DEF Newline
  <2> HIDE DEF q, N
  <2>5. DOMAIN q = 1..N + 1 /\ \A i \in 1..N + 1 : i \in 1..N \/ i = N + 1
    BY <1>1, <2>3
  <2>6. \A i \in DOMAIN q : ~(q[i] > 0)
    BY <1>1, <2>1, <2>3, <2>4, <2>5
  <2>7. \A i \in DOMAIN s : ~(s[i] > 0)
    BY <1>1, <2>1
  <2>8. InOrder(q) /\ Chars(q) = {} /\ Chars(s) = {}
    BY <2>6, <2>7 DEF InOrder, Chars, Range
  <2> QED BY <2>3, <2>8 DEF q, s
<1>3. CASE c.from # NoOffset
  <2> DEFINE f == c.from
             skip == IF f < u THEN u - f ELSE 0
  <2>1. f \in Nat /\ \A i \in 1..N : s[i] = f + i
    BY <1>1, <1>3 DEF Point
  <2>2. q = SubSeq(s, 1 + skip, N)
    BY <1>3 DEF Beyond
  <2>3. skip \in Nat /\ (f + skip >= u) /\ (skip > 0 => f + skip = u) /\ u \in Nat
    BY <2>1
  <2> HIDE DEF skip, s, q, N, f, u
  <2>4. CASE skip <= N
    <3> DEFINE M == N - skip
    <3>1. 1 + skip \in 1..N + 1 /\ N \in (1 + skip) - 1..N
      BY <2>3, <2>4, <1>1
    <3>2. /\ q \in Seq(Int) /\ Len(q) = N - (1 + skip) + 1
          /\ \A i \in 1..N - (1 + skip) + 1 : q[i] = s[(1 + skip) + i - 1]
      <4> DEFINE m == 1 + skip
      <4>1. m \in Int /\ N \in Int /\ m <= N + 1 /\ 1 <= m
        BY <2>3, <2>4, <1>1
      <4>2. \A i \in m..N : s[i] \in Int
        BY <4>1, <1>1
      <4>3. q = SubSeq(s, m, N)
        BY <2>2
      <4> HIDE DEF m
      <4>4. /\ q \in Seq(Int) /\ Len(q) = IF m <= N THEN N - m + 1 ELSE 0
            /\ \A i \in 1..N - m + 1 : q[i] = s[m + i - 1]
        BY <4>1, <4>2, <4>3, SubSeqProperties
      <4>5. Len(q) = N - m + 1
        BY <4>1, <4>4
      <4> QED BY <4>4, <4>5 DEF m
    <3>3. N - (1 + skip) + 1 = M /\ M \in Nat /\ \A i \in 1..M : (1 + skip) + i - 1 = skip + i /\ skip + i \in 1..N
      BY <1>1, <2>3, <2>4
    <3>4. q \in Seq(Int) /\ Len(q) = M
      BY <3>2, <3>3
    <3>5. DOMAIN q = 1..M
      BY <3>4, <3>3
    <3>6. \A i \in 1..M : q[i] = f + skip + i
      BY <3>2, <3>3, <2>1, <2>3
    <3>7. \A i \in 1..M : q[i] = s[skip + i] /\ skip + i \in 1..N /\ q[i] > u /\ q[i] > 0
      BY <3>2, <3>3, <3>6, <2>1, <2>3
    <3>8. \A i \in 1..N : s[i] > u => i - skip \in 1..M /\ skip + (i - skip) = i /\ s[i] > 0
      BY <2>1, <2>3, <3>3, <1>1 DEF skip
    <3> HIDE DEF M
    <3>9. InOrder(q)
      BY <3>5, <3>6, <3>3, <2>1, <2>3 DEF InOrder
    <3>10. ASSUME NEW x \in Chars(q) PROVE x \in Chars(s) /\ x > u
      <4>1. PICK i \in 1..M : x = q[i]
        BY <3>5, <3>10 DEF Chars, Range
      <4>2. x = s[skip + i] /\ skip + i \in DOMAIN s /\ x > u /\ x > 0
        BY <4>1, <3>7, <1>1
      <4> QED BY <4>2 DEF Chars, Range
    <3>11. ASSUME NEW x \in Chars(s), x > u PROVE x \in Chars(q)
      <4>1. PICK i \in 1..N : x = s[i]
        BY <1>1 DEF Chars, Range
      <4> DEFINE k == i - skip
      <4>2. k \in 1..M /\ skip + k = i /\ x > 0
        BY <4>1, <3>8, <3>11
      <4> HIDE DEF k
      <4>3. x = q[k] /\ k \in DOMAIN q
        BY <4>1, <4>2, <3>7, <3>5
      <4> QED BY <4>2, <4>3 DEF Chars, Range
    <3>12. Chars(q) = {x \in Chars(s) : x > u}
      BY <3>10, <3>11
    <3> QED BY <3>4, <3>9, <3>12 DEF q, s, u
  <2>5. CASE skip > N
    <3>1. q = <<>>
      BY <2>2, <2>5, <2>3, <1>1, SubSeqEmpty
    <3>2. \A i \in 1..N : ~(s[i] > u)
      BY <2>1, <2>3, <2>5, <1>1
    <3>3. {x \in Chars(s) : x > u} = {}
      BY <3>2, <1>1 DEF Chars, Range
    <3>4. q \in Seq(Int) /\ InOrder(q) /\ Chars(q) = {}
      BY <3>1 DEF InOrder, Chars, Range
    <3> QED BY <3>3, <3>4 DEF q, s, u
  <2> QED BY <2>3, <2>4, <2>5, <1>1
<1> QED BY <1>2, <1>3

\* A text so far.
IsText(acc) == acc.text \in Seq(Int) /\ acc.cursor \in Nat

\* A chunk more leaves a text.
LEMMA StitchIs ==
  ASSUME NEW acc, IsText(acc), NEW c, Point(c)
  PROVE  IsText(Stitch(acc, c))
<1>1. /\ Stitch(acc, c).text = acc.text \o PageTurn(acc, c) \o Beyond(acc, c)
      /\ Stitch(acc, c).cursor = IF c.from = NoOffset \/ c.to <= acc.cursor THEN acc.cursor ELSE c.to
  BY DEF Stitch
<1>2. PageTurn(acc, c) \in Seq(Int) /\ Beyond(acc, c) \in Seq(Int)
  BY TurnIs, BeyondIs DEF IsText
<1>3. c.from # NoOffset => c.to \in Nat
  BY DEF Point
<1>4. acc.text \in Seq(Int) /\ acc.cursor \in Nat
  BY DEF IsText
<1>5. acc.text \o PageTurn(acc, c) \o Beyond(acc, c) \in Seq(Int)
  BY <1>2, <1>4
<1>6. (IF c.from = NoOffset \/ c.to <= acc.cursor THEN acc.cursor ELSE c.to) \in Nat
  BY <1>3, <1>4
<1> QED BY <1>1, <1>5, <1>6 DEF IsText

\* acc is what becomes of the first n chunks of cs.
Tells(acc, n, cs) ==
  /\ IsText(acc) /\ InOrder(acc.text)
  /\ \A x \in Chars(acc.text) : x <= acc.cursor
  /\ \A x : x \in Chars(acc.text) <=> \E k \in 1..n : x \in Chars(cs[k].text)
  /\ \A x \in 1..acc.cursor : (\A k \in 1..n : cs[k].from < x) => x \in Chars(acc.text)

\* The characters of a chunk are the places from its first offset to its last.
LEMMA CharsOf ==
  ASSUME NEW c, Point(c)
  PROVE  /\ c.from \in Int
         /\ \A x \in Chars(c.text) : c.from # NoOffset /\ x \in Int /\ c.from < x /\ x <= c.to
         /\ c.from # NoOffset => /\ c.to \in Nat /\ c.from \in Nat
                                 /\ \A x \in Int : c.from < x /\ x <= c.to => x \in Chars(c.text)
<1> DEFINE s == c.text
           N == Len(s)
           f == c.from
<1>1. N \in Nat /\ DOMAIN s = 1..N
  BY DEF Point
<1>2. CASE f = NoOffset
  <2>1. \A i \in 1..N : s[i] <= 0 /\ s[i] \in Int
    BY <1>1, <1>2 DEF Point, NoOffset
  <2>2. Chars(s) = {}
    BY <2>1, <1>1 DEF Chars, Range
  <2> QED BY <1>2, <2>2 DEF NoOffset
<1>3. CASE f # NoOffset
  <2>1. f \in Nat /\ c.to = f + N /\ \A i \in 1..N : s[i] = f + i
    BY <1>1, <1>3 DEF Point
  <2> HIDE DEF s, f, N
  <2>2. \A x \in Chars(s) : x \in Int /\ f < x /\ x <= c.to
    BY <2>1, <1>1 DEF Chars, Range
  <2>3. ASSUME NEW x \in Int, f < x, x <= c.to PROVE x \in Chars(s)
    <3> DEFINE i == x - f
    <3>1. i \in 1..N /\ x = f + i /\ x > 0
      BY <2>1, <2>3, <1>1
    <3> HIDE DEF i
    <3>2. s[i] = x /\ i \in DOMAIN s
      BY <3>1, <2>1, <1>1
    <3> QED BY <3>1, <3>2 DEF Chars, Range
  <2>4. c.to \in Nat /\ f \in Int
    BY <2>1, <1>1
  <2> QED BY <2>1, <2>2, <2>3, <2>4, <1>3 DEF s, f
<1> QED BY <1>2, <1>3

\* A chunk that begins no earlier than those before it adds the characters that they lack, and
\* only those: what it repeats lies between its start and the cursor, and chunks cover that.
LEMMA TellsOneMore ==
  ASSUME NEW acc, NEW n \in Nat, NEW cs, Tells(acc, n, cs), Point(cs[n + 1]),
         \A k \in 1..n : cs[k].from \in Int /\ cs[k].from <= cs[n + 1].from
  PROVE  Tells(Stitch(acc, cs[n + 1]), n + 1, cs)
<1> DEFINE c == cs[n + 1]
           new == Stitch(acc, c)
           t == PageTurn(acc, c)
           b == Beyond(acc, c)
           u == acc.cursor
           v == new.cursor
<1>1. IsText(acc) /\ acc.text \in Seq(Int) /\ InOrder(acc.text) /\ u \in Nat
  BY DEF Tells, IsText
<1>2. t \in Seq(Int) /\ InOrder(t) /\ Chars(t) = {}
  BY TurnIs
<1>3. b \in Seq(Int) /\ InOrder(b) /\ Chars(b) = {x \in Chars(c.text) : x > u}
  BY <1>1, BeyondIs
<1>4. new.text = (acc.text \o t) \o b /\ v = IF c.from = NoOffset \/ c.to <= u THEN u ELSE c.to
  BY DEF Stitch
<1>5. /\ c.from \in Int
      /\ \A x \in Chars(c.text) : c.from # NoOffset /\ x \in Int /\ c.from < x /\ x <= c.to
      /\ c.from # NoOffset => /\ c.to \in Nat /\ c.from \in Nat
                              /\ \A x \in Int : c.from < x /\ x <= c.to => x \in Chars(c.text)
  BY CharsOf
<1>6. IsText(new)
  BY <1>1, StitchIs
<1>7. /\ \A x \in Chars(acc.text) : x <= u
      /\ \A x : x \in Chars(acc.text) <=> \E k \in 1..n : x \in Chars(cs[k].text)
      /\ \A x \in 1..u : (\A k \in 1..n : cs[k].from < x) => x \in Chars(acc.text)
  BY DEF Tells
<1>8. 1..n + 1 = 1..n \cup {n + 1}
  OBVIOUS
<1>9. \A k \in 1..n : cs[k].from \in Int /\ cs[k].from <= c.from
  OBVIOUS
<1>10. \A x \in Chars(acc.text) : x \in Int
  BY <1>1 DEF Chars, Range
<1>11. c = cs[n + 1]
  OBVIOUS
<1> HIDE DEF c, new, t, b, u, v
<1>12. /\ acc.text \o t \in Seq(Int) /\ InOrder(acc.text \o t)
       /\ Chars(acc.text \o t) = Chars(acc.text)
  <2> DEFINE s == acc.text
  <2>1. \A x \in Chars(s), y \in Chars(t) : x < y
    BY <1>2
  <2>2. s \in Seq(Int) /\ InOrder(s)
    BY <1>1
  <2> HIDE DEF s
  <2>3. s \o t \in Seq(Int) /\ InOrder(s \o t) /\ Chars(s \o t) = Chars(s) \cup Chars(t)
    BY <2>1, <2>2, <1>2, JoinedTexts
  <2>4. Chars(s) \cup Chars(t) = Chars(s)
    BY <1>2
  <2> QED BY <2>3, <2>4 DEF s
<1>13. \A x \in Chars(acc.text), y \in Chars(b) : x < y
  BY <1>1, <1>3, <1>5, <1>7, <1>10
<1>14. InOrder(new.text) /\ Chars(new.text) = Chars(acc.text) \cup Chars(b)
  BY <1>3, <1>4, <1>12, <1>13, JoinedTexts
<1>15. v \in Nat /\ u <= v /\ (c.from # NoOffset => c.to <= v)
  BY <1>1, <1>4, <1>5
<1>16. \A x \in Chars(new.text) : x <= v
  BY <1>1, <1>3, <1>5, <1>7, <1>10, <1>14, <1>15
<1>17. ASSUME NEW x \in 1..v, \A k \in 1..n + 1 : cs[k].from < x
       PROVE  x \in Chars(new.text)
  <2>1. CASE x <= u
    <3>1. x \in 1..u
      BY <2>1, <1>1, <1>15
    <3>2. \A k \in 1..n : cs[k].from < x
      BY <1>8, <1>17
    <3> QED BY <3>1, <3>2, <1>7, <1>14
  <2>2. CASE x > u
    <3>1. c.from # NoOffset /\ v = c.to
      BY <2>2, <1>1, <1>4, <1>15
    <3>2. n + 1 \in 1..n + 1
      OBVIOUS
    <3>3. c.from < x
      BY <3>2, <1>11, <1>17
    <3>4. x \in Chars(c.text)
      BY <3>1, <3>3, <1>5, <1>15
    <3>5. x \in Chars(b)
      BY <2>2, <3>4, <1>3
    <3> QED BY <3>5, <1>14
  <2>3. x \in Int /\ u \in Int
    BY <1>1, <1>15
  <2> QED BY <2>1, <2>2, <2>3
<1>18. ASSUME NEW x \in Chars(c.text) PROVE x \in Chars(new.text)
  <2>1. x \in Int /\ c.from # NoOffset /\ c.from < x /\ x <= c.to /\ c.from \in Nat
    BY <1>5, <1>18
  <2>2. x \in 1..v
    BY <2>1, <1>5, <1>15
  <2>3. \A k \in 1..n + 1 : cs[k].from < x
    BY <2>1, <1>8, <1>9, <1>11
  <2> QED BY <2>2, <2>3, <1>17
<1>19. ASSUME NEW x PROVE x \in Chars(new.text) <=> \E k \in 1..n + 1 : x \in Chars(cs[k].text)
  <2>1. (\E k \in 1..n + 1 : x \in Chars(cs[k].text)) <=> x \in Chars(acc.text) \/ x \in Chars(c.text)
    BY <1>7, <1>8, <1>11
  <2>2. x \in Chars(b) => x \in Chars(c.text)
    BY <1>3
  <2> QED BY <2>1, <2>2, <1>14, <1>18
<1>20. \A x \in 1..v : (\A k \in 1..n + 1 : cs[k].from < x) => x \in Chars(new.text)
  BY <1>17
<1>21. Tells(new, n + 1, cs)
  BY <1>6, <1>14, <1>16, <1>19, <1>20 DEF Tells, v
<1> QED BY <1>21 DEF new, c

\* g[n] is the text of the first n chunks of cs.
Upto(g, N, cs) == g = [n \in 0..N |-> IF n = 0 THEN Blank ELSE Stitch(g[n - 1], cs[n])]

\* Such a function exists, so the recursive definition in Stitched is one.
LEMMA TextIsDefined ==
  ASSUME NEW cs, NEW N \in Nat
  PROVE  \E g : Upto(g, N, cs)
<1> DEFINE S == {n \in Nat : \E g : Upto(g, n, cs)}
<1>1. 0 \in S
  <2> DEFINE g == [n \in 0..0 |-> Blank]
  <2>1. Upto(g, 0, cs)
    BY DEF Upto
  <2> QED BY <2>1
<1>2. ASSUME NEW n \in Nat, n \in S
      PROVE  n + 1 \in S
  <2>1. PICK g : Upto(g, n, cs)
    BY <1>2
  <2> DEFINE h == [k \in 0..n + 1 |-> IF k = n + 1 THEN Stitch(g[n], cs[n + 1]) ELSE g[k]]
             w == [k \in 0..n + 1 |-> IF k = 0 THEN Blank ELSE Stitch(h[k - 1], cs[k])]
  <2>2. \A k \in 0..n + 1 : h[k] = w[k]
    <3> SUFFICES ASSUME NEW k \in 0..n + 1 PROVE h[k] = w[k]
      OBVIOUS
    <3>1. CASE k = n + 1
      <4>1. h[n] = g[n]
        OBVIOUS
      <4> QED BY <3>1, <4>1
    <3>2. CASE k # n + 1
      <4>1. k \in 0..n
        BY <3>2
      <4>2. h[k] = g[k]
        BY <3>2
      <4>3. g[k] = IF k = 0 THEN Blank ELSE Stitch(g[k - 1], cs[k])
        BY <2>1, <4>1 DEF Upto
      <4>4. k # 0 => h[k - 1] = g[k - 1]
        BY <4>1
      <4> HIDE DEF h
      <4> QED BY <4>2, <4>3, <4>4
    <3> QED BY <3>1, <3>2
  <2>3. h = w
    <3> HIDE DEF h
    <3>1. DOMAIN h = 0..n + 1 /\ h = [k \in 0..n + 1 |-> h[k]]
      BY DEF h
    <3> QED BY <2>2, <3>1
  <2>4. Upto(h, n + 1, cs)
    BY <2>3 DEF Upto
  <2> HIDE DEF h
  <2> QED BY <2>4
<1> HIDE DEF S
<1>3. Nat \subseteq S
  BY <1>1, <1>2, Induction
<1> QED BY <1>3 DEF S

\* Stitched is the text of all of cs.
LEMMA StitchedIs ==
  ASSUME NEW cs, Len(cs) \in Nat
  PROVE  \E g : Upto(g, Len(cs), cs) /\ Stitched(cs) = g[Len(cs)].text
<1> DEFINE N == Len(cs)
<1> DEFINE f == CHOOSE g : g = [n \in 0..N |-> IF n = 0 THEN Blank ELSE Stitch(g[n - 1], cs[n])]
<1>1. \E g : g = [n \in 0..N |-> IF n = 0 THEN Blank ELSE Stitch(g[n - 1], cs[n])]
  BY TextIsDefined DEF Upto
<1>2. f = [n \in 0..N |-> IF n = 0 THEN Blank ELSE Stitch(f[n - 1], cs[n])]
  BY <1>1
<1>3. Stitched(cs) = f[N].text
  BY DEF Stitched
<1> HIDE DEF f
<1>4. Upto(f, N, cs)
  BY <1>2 DEF Upto
<1> QED BY <1>3, <1>4

\* Whatever the chunks, the result is a text.
LEMMA StitchedIsText ==
  ASSUME NEW cs, Len(cs) \in Nat, \A k \in 1..Len(cs) : Point(cs[k])
  PROVE  Stitched(cs) \in Seq(Int)
<1> DEFINE N == Len(cs)
<1>1. PICK g : Upto(g, N, cs) /\ Stitched(cs) = g[N].text
  BY StitchedIs
<1>2. \A n \in 0..N : g[n] = IF n = 0 THEN Blank ELSE Stitch(g[n - 1], cs[n])
  BY <1>1 DEF Upto
<1> DEFINE S == {n \in Nat : n <= N => IsText(g[n])}
<1> HIDE DEF N
<1>3. 0 \in S
  <2>1. g[0] = Blank
    BY <1>2 DEF N
  <2>2. IsText(Blank)
    BY DEF IsText, Blank
  <2> QED BY <2>1, <2>2
<1>4. ASSUME NEW n \in Nat, n \in S PROVE n + 1 \in S
  <2>1. CASE n + 1 <= N
    <3>1. n <= N /\ n + 1 \in 0..N /\ n + 1 # 0 /\ (n + 1) - 1 = n /\ n + 1 \in 1..N
      BY <2>1 DEF N
    <3>2. IsText(g[n])
      BY <1>4, <3>1
    <3>3. g[n + 1] = Stitch(g[n], cs[n + 1])
      BY <1>2, <3>1
    <3>4. Point(cs[n + 1])
      BY <3>1 DEF N
    <3>5. IsText(g[n + 1])
      BY <3>2, <3>3, <3>4, StitchIs
    <3> QED BY <3>5
  <2>2. CASE ~(n + 1 <= N)
    BY <2>2
  <2> QED BY <2>1, <2>2
<1> HIDE DEF S
<1>5. Nat \subseteq S
  BY <1>3, <1>4, Induction
<1>6. IsText(g[N])
  BY <1>5 DEF S, N
<1> QED BY <1>1, <1>6 DEF IsText, N

\* If the chunks begin one after the other, it has every character once, in order.
LEMMA StitchedTells ==
  ASSUME NEW cs, Len(cs) \in Nat, \A k \in 1..Len(cs) : Point(cs[k]),
         \A k, l \in 1..Len(cs) : k < l => cs[k].from <= cs[l].from
  PROVE  /\ InOrder(Stitched(cs))
         /\ \A x : x \in Chars(Stitched(cs)) <=> \E k \in 1..Len(cs) : x \in Chars(cs[k].text)
<1> DEFINE N == Len(cs)
<1>1. PICK g : Upto(g, N, cs) /\ Stitched(cs) = g[N].text
  BY StitchedIs
<1>2. \A n \in 0..N : g[n] = IF n = 0 THEN Blank ELSE Stitch(g[n - 1], cs[n])
  BY <1>1 DEF Upto
<1>3. \A k \in 1..N : cs[k].from \in Int
  BY CharsOf
<1> DEFINE S == {n \in Nat : n <= N => Tells(g[n], n, cs)}
<1> HIDE DEF N
<1>4. 0 \in S
  <2>1. g[0] = Blank
    BY <1>2 DEF N
  <2>2. IsText(Blank) /\ InOrder(Blank.text) /\ Chars(Blank.text) = {} /\ Blank.cursor = 0
    BY DEF IsText, Blank, InOrder, Chars, Range
  <2>3. 1..0 = {}
    OBVIOUS
  <2>4. Tells(Blank, 0, cs)
    BY <2>2, <2>3 DEF Tells
  <2> QED BY <2>1, <2>4
<1>5. ASSUME NEW n \in Nat, n \in S PROVE n + 1 \in S
  <2>1. CASE n + 1 <= N
    <3>1. n <= N /\ n + 1 \in 0..N /\ n + 1 # 0 /\ (n + 1) - 1 = n /\ n + 1 \in 1..N
      BY <2>1 DEF N
    <3>2. Tells(g[n], n, cs)
      BY <1>5, <3>1
    <3>3. g[n + 1] = Stitch(g[n], cs[n + 1])
      BY <1>2, <3>1
    <3>4. Point(cs[n + 1])
      BY <3>1 DEF N
    <3>5. \A k \in 1..n : k \in 1..N /\ k < n + 1
      BY <3>1 DEF N
    <3>6. \A k \in 1..n : cs[k].from \in Int /\ cs[k].from <= cs[n + 1].from
      BY <3>1, <3>5, <1>3 DEF N
    <3>7. Tells(g[n + 1], n + 1, cs)
      BY <3>2, <3>3, <3>4, <3>6, TellsOneMore
    <3> QED BY <3>7
  <2>2. CASE ~(n + 1 <= N)
    BY <2>2
  <2> QED BY <2>1, <2>2
<1> HIDE DEF S
<1>6. Nat \subseteq S
  BY <1>4, <1>5, Induction
<1>7. Tells(g[N], N, cs)
  BY <1>6 DEF S, N
<1> QED BY <1>1, <1>7 DEF Tells, N

\* The hits are points, of whatever version of the file.
Points(g) == IsSequence(g) /\ Len(g) \in Nat /\ DOMAIN g = 1..Len(g) /\ \A k \in DOMAIN g : Point(g[k])

\* Any hits make a text.
LEMMA FullTextIsText ==
  ASSUME NEW g, Points(g)
  PROVE  FullText(g) \in Seq(Int)
<1> DEFINE I == {i \in DOMAIN g : g[i].kind = "body"}
           q == ByNo(g, I)
<1>1. I \subseteq 1..Len(g) /\ Len(g) \in Nat /\ \A i \in I : Point(g[i])
  BY DEF Points
<1>2. \A i \in I : g[i].no \in Int
  BY <1>1 DEF Point
<1>3. FullText(g) = Stitched(q)
  BY DEF FullText
<1> HIDE DEF I
<1>4. Sorted(q, g, I)
  BY <1>1, <1>2, ByNoSorts
<1> HIDE DEF q
<1>5. Len(q) \in Nat /\ \A k \in 1..Len(q) : Point(q[k])
  BY <1>4, <1>1 DEF Sorted
<1> QED BY <1>3, <1>5, StitchedIsText

\* The text of all points has every character of the document once, in order.
LEMMA DocumentIs ==
  ASSUME store \in Versions, Monotone, NEW g, AllOfStore(g)
  PROVE  LET chars == {x \in UNION {Range(p.text) : p \in Chunks("body", LAMBDA p : TRUE)} : x > 0}
             text == FullText(g)
         IN InOrder(text) /\ Chars(text) = chars
<1> DEFINE I == {i \in DOMAIN g : g[i].kind = "body"}
           q == ByNo(g, I)
           B == {p \in store : p.kind = "body"}
           chars == {x \in UNION {Range(p.text) : p \in Chunks("body", LAMBDA p : TRUE)} : x > 0}
<1>1. /\ DOMAIN g = 1..Len(g) /\ \A i \in DOMAIN g : g[i] \in store
      /\ \A p \in store : \E i \in DOMAIN g : g[i] = p
      /\ SomeOfStore(g)
  BY DEF AllOfStore, SomeOfStore
<1>2. \A p \in store : Point(p)
  BY VersionsAre DEF Version
<1>3. FullText(g) = Stitched(q)
  BY DEF FullText
<1>4. I \subseteq DOMAIN g /\ \A i \in I : g[i].kind = "body"
  OBVIOUS
<1>5. \A p : p \in B <=> \E i \in I : g[i] = p
  BY <1>1
<1> HIDE DEF I
<1>6. /\ Sorted(q, g, I)
      /\ \A k, l \in DOMAIN q : k < l => q[k].no < q[l].no
  BY <1>1, <1>4, OneKindAscends
<1> HIDE DEF q
<1>7. /\ Len(q) \in Nat /\ DOMAIN q = 1..Len(q)
      /\ \A k \in DOMAIN q : q[k] \in B
      /\ \A p \in B : \E k \in DOMAIN q : q[k] = p
  <2> HIDE DEF B
  <2>1. /\ Len(q) \in Nat /\ DOMAIN q = 1..Len(q)
        /\ \A k \in DOMAIN q : \E i \in I : q[k] = g[i]
        /\ \A i \in I : \E k \in DOMAIN q : q[k] = g[i]
    BY <1>6 DEF Sorted
  <2>2. ASSUME NEW k \in DOMAIN q PROVE q[k] \in B
    <3>1. PICK i \in I : q[k] = g[i]
      BY <2>1
    <3> QED BY <3>1, <1>5
  <2>3. ASSUME NEW p \in B PROVE \E k \in DOMAIN q : q[k] = p
    <3>1. PICK i \in I : g[i] = p
      BY <1>5
    <3> QED BY <3>1, <2>1
  <2> QED BY <2>1, <2>2, <2>3
<1>8. \A k \in 1..Len(q) : Point(q[k])
  BY <1>2, <1>7
<1>9. \A k, l \in 1..Len(q) : k < l => q[k].from <= q[l].from
  BY <1>6, <1>7 DEF Monotone
<1>10. /\ InOrder(Stitched(q))
       /\ \A x : x \in Chars(Stitched(q)) <=> \E k \in 1..Len(q) : x \in Chars(q[k].text)
  BY <1>7, <1>8, <1>9, StitchedTells
<1>11. Chunks("body", LAMBDA p : TRUE) = B
  BY DEF Chunks
<1>12. \A x : x \in chars <=> \E p \in B : x \in Chars(p.text)
  BY <1>11 DEF Chars
<1> HIDE DEF chars, B
<1>13. \A x : x \in chars <=> \E k \in 1..Len(q) : x \in Chars(q[k].text)
  BY <1>7, <1>12
<1>14. Chars(Stitched(q)) = chars
  BY <1>10, <1>13
<1> QED BY <1>3, <1>10, <1>14 DEF chars

(***************************************************************************)
(* The turns of a document.                                                *)
(***************************************************************************)

\* A turn begins and ends within the text, and the next begins where it ends.
LEMMA TurnBounds ==
  ASSUME NEW N \in Nat, read.offset \in Int, read.max \in Int
  PROVE  /\ Start(N) \in 0..N /\ End(N) \in Start(N)..N /\ NextOffset(N) \in Nat
         /\ NextOffset(N) # 0 => Start(N) < End(N) /\ NextOffset(N) = End(N)
         /\ NextOffset(N) = 0 => End(N) = N
<1> DEFINE s == Start(N)
           e == End(N)
           o == read.offset
           m == read.max
<1>1. s \in 0..N
  BY DEF Start, Least
<1>2. e = IF m <= 0 THEN N ELSE IF s + m < N THEN s + m ELSE N
  BY DEF End, Least
<1>3. NextOffset(N) = IF e < N THEN e ELSE 0
  BY DEF NextOffset
<1>4. m \in Int
  OBVIOUS
<1> HIDE DEF s, e, m
<1>5. e \in s..N /\ (e < N => s < e)
  BY <1>1, <1>2, <1>4
<1> QED BY <1>1, <1>3, <1>5 DEF s, e

\* A turn continues the text up to it.
LEMMA TurnFollows ==
  ASSUME NEW T \in Seq(Int), NEW s \in 0..Len(T), NEW e \in s..Len(T)
  PROVE  /\ SubSeq(T, 1, s) \o SubSeq(T, s + 1, e) = SubSeq(T, 1, e)
         /\ SubSeq(T, s + 1, e) \in Seq(Int)
         /\ s < e => SubSeq(T, s + 1, e) # <<>>
<1> DEFINE N == Len(T)
           p == SubSeq(T, 1, s)
           q == SubSeq(T, s + 1, e)
           r == SubSeq(T, 1, e)
           t == p \o q
<1>1. N \in Nat /\ DOMAIN T = 1..N /\ \A i \in 1..N : T[i] \in Int
  OBVIOUS
<1>2. s \in Nat /\ e \in Nat /\ s <= e /\ e <= N
  BY <1>1
<1> HIDE DEF N
<1>3. p \in Seq(Int) /\ Len(p) = s /\ \A i \in 1..s : p[i] = T[i]
  <2>1. \A i \in 1..s : T[i] \in Int
    BY <1>1, <1>2
  <2>2. s - 1 + 1 = s /\ (IF 1 <= s THEN s - 1 + 1 ELSE 0) = s
    BY <1>2
  <2>3. \A i \in 1..s : 1 + i - 1 = i
    OBVIOUS
  <2>4. p \in Seq(Int) /\ Len(p) = (IF 1 <= s THEN s - 1 + 1 ELSE 0)
        /\ \A i \in 1..s - 1 + 1 : p[i] = T[1 + i - 1]
    BY <2>1, <1>2, SubSeqProperties
  <2> QED BY <2>2, <2>3, <2>4
<1>4. r \in Seq(Int) /\ Len(r) = e /\ \A i \in 1..e : r[i] = T[i]
  <2>1. \A i \in 1..e : T[i] \in Int
    BY <1>1, <1>2
  <2>2. e - 1 + 1 = e /\ (IF 1 <= e THEN e - 1 + 1 ELSE 0) = e
    BY <1>2
  <2>3. \A i \in 1..e : 1 + i - 1 = i
    OBVIOUS
  <2>4. r \in Seq(Int) /\ Len(r) = (IF 1 <= e THEN e - 1 + 1 ELSE 0)
        /\ \A i \in 1..e - 1 + 1 : r[i] = T[1 + i - 1]
    BY <2>1, <1>2, SubSeqProperties
  <2> QED BY <2>2, <2>3, <2>4
<1>5. q \in Seq(Int) /\ Len(q) = e - s /\ \A i \in 1..e - s : q[i] = T[s + i]
  <2>1. \A i \in s + 1..e : T[i] \in Int
    BY <1>1, <1>2
  <2>2. e - (s + 1) + 1 = e - s /\ (IF s + 1 <= e THEN e - (s + 1) + 1 ELSE 0) = e - s
    BY <1>2
  <2>3. \A i \in 1..e - s : (s + 1) + i - 1 = s + i
    BY <1>2
  <2>4. s + 1 \in Int /\ e \in Int
    BY <1>2
  <2>5. q \in Seq(Int) /\ Len(q) = (IF s + 1 <= e THEN e - (s + 1) + 1 ELSE 0)
        /\ \A i \in 1..e - (s + 1) + 1 : q[i] = T[(s + 1) + i - 1]
    BY <2>1, <2>4, SubSeqProperties
  <2> QED BY <2>2, <2>3, <2>5
<1> HIDE DEF p, q, r
<1>6. /\ t \in Seq(Int) /\ Len(t) = s + (e - s)
      /\ \A i \in 1..s + (e - s) : t[i] = IF i <= s THEN p[i] ELSE q[i - s]
  <2>1. p \in Seq(Int) /\ q \in Seq(Int)
    BY <1>3, <1>5
  <2>2. /\ p \o q \in Seq(Int) /\ Len(p \o q) = Len(p) + Len(q)
        /\ \A i \in 1..Len(p) + Len(q) :
             (p \o q)[i] = IF i <= Len(p) THEN p[i] ELSE q[i - Len(p)]
    BY <2>1, ConcatProperties
  <2> HIDE DEF t
  <2>3. /\ t \in Seq(Int) /\ Len(t) = Len(p) + Len(q)
        /\ \A i \in 1..Len(p) + Len(q) : t[i] = IF i <= Len(p) THEN p[i] ELSE q[i - Len(p)]
    BY <2>2 DEF t
  <2>4. Len(p) = s /\ Len(q) = e - s
    BY <1>3, <1>5
  <2> QED BY <2>3, <2>4
<1>7. Len(t) = e /\ s + (e - s) = e
  BY <1>2, <1>6
<1> HIDE DEF t
<1>8. \A i \in 1..s : i \in 1..e /\ i <= s
  BY <1>2
<1>9. \A i \in 1..e : i \in 1..s \/ (i - s \in 1..e - s /\ s + (i - s) = i /\ ~(i <= s))
  BY <1>2
<1>10. ASSUME NEW i \in 1..e PROVE t[i] = T[i]
  <2>1. t[i] = IF i <= s THEN p[i] ELSE q[i - s]
    BY <1>6, <1>7
  <2>2. CASE i \in 1..s
    BY <2>1, <2>2, <1>3, <1>8
  <2>3. CASE i - s \in 1..e - s /\ s + (i - s) = i /\ ~(i <= s)
    <3> DEFINE k == i - s
    <3>1. t[i] = q[k] /\ k \in 1..e - s /\ s + k = i
      BY <2>1, <2>3
    <3> HIDE DEF k
    <3> QED BY <3>1, <1>5
  <2> QED BY <2>2, <2>3, <1>9
<1>11. t = r
  BY <1>4, <1>6, <1>7, <1>10, SeqEqual
<1>12. s < e => q # <<>>
  BY <1>2, <1>5
<1> QED BY <1>5, <1>11, <1>12 DEF t, p, q, r

\* The first turn has nothing before it, and the last one ends with the text.
LEMMA WholeText ==
  ASSUME NEW T \in Seq(Int)
  PROVE  SubSeq(T, 1, 0) = <<>> /\ SubSeq(T, 1, Len(T)) = T
<1>1. SubSeq(T, 1, 0) = <<>>
  BY SubSeqEmpty
<1>2. SubSeq(T, 1, Len(T)) = T
  BY SubSeqFull
<1> QED BY <1>1, <1>2

\* Nothing is listed before the first page.
LEMMA NothingBelow ==
  ASSUME store \in Versions
  PROVE  ById(Below(0)) = <<>>
<1>1. Version(store) /\ \A p \in store : p.id \in Nat \ {0}
  BY VersionsAre DEF Version, Point
<1>2. Below(0) = {}
  BY <1>1 DEF Below
<1>3. Version({})
  BY <1>1, PartOfVersion
<1>4. Cardinality({}) = 0
  BY FS_EmptySet
<1> DEFINE g == ById({})
<1>5. IsSequence(g) /\ Len(g) = 0
  BY <1>3, <1>4, ByIdLists DEF Listing
<1> HIDE DEF g
<1>6. g = <<>>
  BY <1>5 DEF IsSequence
<1> QED BY <1>2, <1>6 DEF g

(***************************************************************************)
(* The invariant.                                                          *)
(***************************************************************************)

\* The call in progress is one that the code accepts.
Request ==
  /\ read.kind \in {"file", "window", "parent", "document"}
  /\ {"kind", "anchor", "window", "offset", "limit", "max"} = DOMAIN read
  /\ read.anchor.no \in Int /\ read.window \in Int
  /\ read.offset \in Int /\ read.limit \in Nat /\ read.max \in Int

\* Whatever the file becomes, what is held are points of it.
Held ==
  /\ store \in Versions /\ Request
  /\ phase \in {"idle", "scroll", "build", "answer"}
  /\ off \in Nat /\ changes \in 0..MaxReindex /\ steady \in BOOLEAN
  /\ Points(got)
  /\ phase = "idle" => got = <<>>

\* While the file stays, the hits are a prefix of its listing.
Scrolled == steady =>
  /\ phase = "scroll" => got = ById(Below(off)) /\ (read.kind = "window" => off = 0)
  /\ phase \in {"build", "answer"} =>
       got = IF read.kind = "window" THEN First(ById(store), WindowLimit) ELSE ById(store)

\* An answer is made of the hits.
Made ==
  /\ next \in Nat /\ (next # 0 => phase = "answer" /\ answer # <<>> /\ read.kind = "document")
  /\ phase = "answer" =>
       /\ read.kind = "file" => answer = GetFileChunks(got) /\ ~SlicePanics
       /\ read.kind = "window" => answer = GetChunkWindow(got)
       /\ read.kind = "parent" => answer = GetParentChunks(got)

\* The turns so far are the text up to the offset of the next.
ReadSoFar == steady /\ read.kind = "document" =>
  LET text == FullText(ById(store))
  IN /\ phase \in {"scroll", "build"} => joined = SubSeq(text, 1, Start(Len(text)))
     /\ phase = "answer" => /\ joined = SubSeq(text, 1, End(Len(text)))
                            /\ next = NextOffset(Len(text))

\* The invariant.
ReadInv == Held /\ Scrolled /\ Made /\ ReadSoFar

\* A page may hold a point.
LEMMA LimitIs == Limit \in Nat \ {0}
BY ReadsAssumption DEF Limit

\* What is left is part of the version.
LEMMA LeftIs ==
  ASSUME store \in Versions
  PROVE  Version(Left) /\ Left \subseteq store
<1>1. Left \subseteq store
  BY DEF Left
<1> QED BY <1>1, VersionsAre, PartOfVersion

\* A page are points of the file.
LEMMA PageIs ==
  ASSUME store \in Versions
  PROVE  Points(Page)
<1> DEFINE g == ById(Left)
           m == Least(Limit, Len(g))
<1>1. Listing(g, Left)
  BY LeftIs, ByIdLists
<1> HIDE DEF g
<1>2. IsSequence(g) /\ \A k \in DOMAIN g : g[k] \in Left
  BY <1>1 DEF Listing
<1>3. Page = First(g, Limit)
  BY DEF Page, g
<1> HIDE DEF m
<1>4. /\ IsSequence(Page) /\ Len(Page) = m /\ DOMAIN Page = 1..m /\ m \in 0..Len(g)
      /\ \A k \in 1..m : k \in DOMAIN g /\ Page[k] = g[k]
  BY <1>2, <1>3, LimitIs, FirstIs DEF m
<1>5. \A p \in Left : Point(p)
  BY LeftIs DEF Version
<1>6. Len(Page) \in Nat
  BY <1>4 DEF IsSequence
<1> QED BY <1>2, <1>4, <1>5, <1>6 DEF Points

\* Pages joined are points.
LEMMA PointsJoined ==
  ASSUME NEW g, Points(g), NEW q, Points(q)
  PROVE  Points(g \o q)
<1> DEFINE t == g \o q
           a == Len(g)
           b == Len(q)
<1>1. a \in Nat /\ b \in Nat /\ DOMAIN g = 1..a /\ DOMAIN q = 1..b /\ IsSequence(g) /\ IsSequence(q)
  BY DEF Points
<1>2. /\ IsSequence(t) /\ Len(t) = a + b /\ DOMAIN t = 1..a + b
      /\ \A k \in 1..a : t[k] = g[k]
      /\ \A k \in a + 1..a + b : t[k] = q[k - a]
  BY <1>1, Joined
<1> HIDE DEF t, a, b
<1>3. ASSUME NEW k \in 1..a + b PROVE Point(t[k])
  <2>1. CASE k \in 1..a
    BY <2>1, <1>1, <1>2 DEF Points
  <2>2. CASE k \in a + 1..a + b
    <3> DEFINE l == k - a
    <3>1. l \in 1..b /\ t[k] = q[l]
      BY <2>2, <1>1, <1>2
    <3> HIDE DEF l
    <3> QED BY <3>1, <1>1 DEF Points
  <2> QED BY <2>1, <2>2, <1>1
<1>4. Len(t) \in Nat
  BY <1>1, <1>2
<1> QED BY <1>2, <1>3, <1>4 DEF Points, t

\* The next page begins where this one ends.
LEMMA ScrollContinues ==
  ASSUME store \in Versions, off \in Nat
  PROVE  /\ Following(Page) \in Nat
         /\ Following(Page) = 0 => ById(Below(off)) \o Page = ById(store)
         /\ Following(Page) # 0 => ById(Below(off)) \o Page = ById(Below(Following(Page)))
<1> DEFINE rest == Left \ Range(Page)
           x == ById(rest)[1].id
<1>1. /\ rest = {} => ById(Below(off)) \o Page = ById(store)
      /\ rest # {} => x \in Nat \ {0} /\ ById(Below(off)) \o Page = ById(Below(x))
  <2> DEFINE n == Limit
             page == First(ById(Left), n)
  <2>1. n \in Nat \ {0}
    BY LimitIs
  <2>2. Page = page
    BY DEF Page
  <2> HIDE DEF n
  <2>3. /\ (Left \ Range(page) = {}) => ById(Below(off)) \o page = ById(store)
        /\ (Left \ Range(page) # {}) =>
             /\ ById(Left \ Range(page))[1].id \in Nat \ {0}
             /\ ById(Below(off)) \o page = ById(Below(ById(Left \ Range(page))[1].id))
    BY <2>1, PageContinues
  <2> QED BY <2>2, <2>3
<1>2. Following(Page) = IF rest = {} THEN 0 ELSE x
  BY DEF Following
<1> HIDE DEF rest, x
<1> QED BY <1>1, <1>2

\* A window reads one page, the first.
LEMMA WindowPage ==
  ASSUME store \in Versions, off = 0, read.kind = "window"
  PROVE  ById(Below(off)) \o Page = First(ById(store), WindowLimit)
<1>1. Left = store
  <2>1. \A p \in store : p.id >= 0
    BY VersionsAre DEF Version, Point
  <2> QED BY <2>1 DEF Left
<1>2. Page = First(ById(store), WindowLimit)
  BY <1>1 DEF Page, Limit
<1>3. Page \in Seq(Range(Page))
  BY PageIs DEF Points, IsSequence
<1>4. <<>> \o Page = Page
  BY <1>3, ConcatEmptySeq
<1> QED BY <1>2, <1>4, NothingBelow

\* No hits are points.
LEMMA NoPoints == Points(<<>>)
BY DEF Points, IsSequence, Range

\* The file has a text.
LEMMA TextOfStore ==
  ASSUME store \in Versions
  PROVE  FullText(ById(store)) \in Seq(Int)
<1> DEFINE g == ById(store)
<1>1. Listing(g, store) /\ Version(store)
  BY VersionsAre, ByIdLists
<1>2. Cardinality(store) \in Nat
  BY <1>1, SizeIsNat DEF Version
<1> HIDE DEF g
<1>3. Points(g)
  BY <1>1, <1>2 DEF Points, Listing, Version
<1>4. FullText(g) \in Seq(Int)
  BY <1>3, FullTextIsText
<1> QED BY <1>4 DEF g

\* Nothing is held when the program starts.
LEMMA Init_Inv == Init => ReadInv
<1> SUFFICES ASSUME Init PROVE ReadInv
  OBVIOUS
<1>1. Request /\ read.kind \in {"file", "window", "parent", "document"}
  BY ReadsAssumption DEF Init, Request
<1>2. Held
  BY <1>1, NoPoints, ReadsAssumption DEF Init, Held
<1>3. Scrolled /\ Made /\ ReadSoFar
  BY DEF Init, Scrolled, Made, ReadSoFar
<1> QED BY <1>2, <1>3 DEF ReadInv

\* A call begins with no hits.
LEMMA CallStep ==
  ASSUME store \in Versions, store' = store, phase' = "scroll", got' = <<>>, off' = 0,
         next' = 0, Request', changes' \in 0..MaxReindex, steady' \in BOOLEAN
  PROVE  Held' /\ Scrolled' /\ Made'
<1>1. Points(got')
  BY NoPoints
<1>2. Held'
  BY <1>1 DEF Held
<1>3. Scrolled'
  <2>1. ById(Below(0)) = <<>>
    BY NothingBelow
  <2>2. Below(off)' = Below(0)
    BY DEF Below
  <2>3. got' = ById(Below(off)')
    BY <2>1, <2>2
  <2> QED BY <2>3 DEF Scrolled
<1>4. Made'
  BY DEF Made
<1> QED BY <1>2, <1>3, <1>4

\* The first turn begins at the start of the text.
LEMMA BeginStep == ASSUME ReadInv, Begin PROVE ReadInv'
<1>1. Held
  BY DEF ReadInv
<1>2. PICK r \in Reads : Call(r)
  BY DEF Begin
<1>3. /\ read' = r /\ phase' = "scroll" /\ got' = <<>> /\ off' = 0 /\ next' = 0 /\ answer' = <<>>
      /\ joined' = <<>> /\ steady' = TRUE /\ store' = store /\ changes' = changes
  BY <1>2 DEF Begin, Call
<1>4. Request' /\ (r.kind = "document" => r.offset <= 0 /\ r.offset \in Int)
  BY <1>3, ReadsAssumption DEF Request
<1>5. Held' /\ Scrolled' /\ Made'
  BY <1>1, <1>3, <1>4, CallStep DEF Held
<1>6. ReadSoFar'
  <2> SUFFICES ASSUME read.kind' = "document" PROVE ReadSoFar'
    BY DEF ReadSoFar
  <2> DEFINE text == FullText(ById(store))
             n == Len(text)
  <2>1. text \in Seq(Int) /\ n \in Nat
    <3>1. text \in Seq(Int)
      BY <1>1, TextOfStore DEF Held
    <3> HIDE DEF text
    <3> QED BY <3>1
  <2>2. text' = text
    BY <1>3
  <2>3. SubSeq(text, 1, 0) = <<>>
    BY <2>1, WholeText
  <2> HIDE DEF text
  <2>4. Start(n)' = 0
    <3>1. n' = n
      BY <2>2
    <3>2. read'.offset <= 0 /\ read'.offset \in Int
      BY <1>3, <1>4
    <3> HIDE DEF n
    <3>3. Start(n)' = Least(IF read'.offset < 0 THEN 0 ELSE read'.offset, n)
      BY <3>1 DEF Start
    <3> QED BY <3>2, <3>3, <2>1 DEF Least
  <2>5. joined' = SubSeq(text', 1, Start(n)')
    BY <1>3, <2>2, <2>3, <2>4
  <2>6. phase' = "scroll"
    BY <1>3
  <2> QED BY <2>5, <2>6 DEF ReadSoFar, text
<1> QED BY <1>5, <1>6 DEF ReadInv

\* A page more.
LEMMA ScrollStep == ASSUME ReadInv, Scroll PROVE ReadInv'
<1>1. Held /\ Scrolled /\ Made /\ ReadSoFar
  BY DEF ReadInv
<1>2. /\ phase = "scroll" /\ got' = got \o Page
      /\ off' = (IF read.kind = "window" THEN 0 ELSE Following(Page))
      /\ phase' = (IF off' = 0 THEN "build" ELSE "scroll")
      /\ store' = store /\ read' = read /\ answer' = answer /\ next' = next /\ joined' = joined
      /\ changes' = changes /\ steady' = steady
  BY DEF Scroll
<1>3. Following(Page) \in Nat
  BY <1>1, ScrollContinues DEF Held
<1>4. off' \in Nat
  BY <1>2, <1>3
<1>5. Points(got')
  BY <1>1, <1>2, PageIs, PointsJoined DEF Held
<1>6. Request'
  BY <1>1, <1>2 DEF Held, Request
<1>7. Held'
  BY <1>1, <1>2, <1>4, <1>5, <1>6 DEF Held
<1>8. Scrolled'
  <2> SUFFICES ASSUME steady PROVE Scrolled'
    BY <1>2 DEF Scrolled
  <2>1. got = ById(Below(off)) /\ (read.kind = "window" => off = 0)
    BY <1>1, <1>2 DEF Scrolled
  <2>2. store \in Versions /\ off \in Nat
    BY <1>1 DEF Held
  <2>3. CASE read.kind = "window"
    <3>1. got' = First(ById(store), WindowLimit)
      BY <1>2, <2>1, <2>2, <2>3, WindowPage
    <3>2. phase' = "build"
      BY <1>2, <2>3
    <3> QED BY <1>2, <2>3, <3>1, <3>2 DEF Scrolled
  <2>4. CASE read.kind # "window" /\ Following(Page) = 0
    <3>1. got' = ById(store)
      BY <1>2, <2>1, <2>2, <2>4, ScrollContinues
    <3>2. phase' = "build"
      BY <1>2, <2>4
    <3> QED BY <1>2, <2>4, <3>1, <3>2 DEF Scrolled
  <2>5. CASE read.kind # "window" /\ Following(Page) # 0
    <3>1. got' = ById(Below(Following(Page)))
      BY <1>2, <2>1, <2>2, <2>5, ScrollContinues
    <3>2. phase' = "scroll" /\ off' = Following(Page)
      BY <1>2, <2>5
    <3>3. Below(off)' = Below(Following(Page))
      BY <1>2, <3>2 DEF Below
    <3>4. got' = ById(Below(off)')
      BY <3>1, <3>3
    <3> QED BY <1>2, <2>5, <3>2, <3>4 DEF Scrolled
  <2> QED BY <2>3, <2>4, <2>5
<1>9. Made'
  <2>1. next = 0
    BY <1>1, <1>2 DEF Made
  <2>2. phase' # "answer"
    BY <1>2
  <2> QED BY <1>2, <2>1, <2>2 DEF Made
<1>10. ReadSoFar'
  <2> SUFFICES ASSUME steady, read.kind = "document" PROVE ReadSoFar'
    BY <1>2 DEF ReadSoFar
  <2> DEFINE text == FullText(ById(store))
             s == Start(Len(text))
  <2>1. joined = SubSeq(text, 1, s)
    BY <1>1, <1>2 DEF ReadSoFar
  <2>2. text' = text /\ s' = s
    BY <1>2 DEF Start
  <2>3. phase' # "answer"
    BY <1>2
  <2>4. joined' = SubSeq(text', 1, s')
    BY <1>2, <2>1, <2>2
  <2> QED BY <2>3, <2>4 DEF ReadSoFar
<1> QED BY <1>7, <1>8, <1>9, <1>10 DEF ReadInv

\* The answer, and the turn it adds.
LEMMA BuildStep == ASSUME ReadInv, Build PROVE ReadInv'
<1>1. Held /\ Scrolled /\ Made /\ ReadSoFar
  BY DEF ReadInv
<1>2. /\ phase = "build" /\ phase' = "answer" /\ joined' = joined \o answer'
      /\ store' = store /\ read' = read /\ got' = got /\ off' = off
      /\ changes' = changes /\ steady' = steady
  BY DEF Build
<1>a. ~SlicePanics /\ SlicePanics' = SlicePanics
  <2>1. ~SlicePanics
    BY DEF Build
  <2> QED BY <1>2, <2>1 DEF SlicePanics
<1>3. Request /\ Request' /\ Points(got)
  BY <1>1, <1>2 DEF Held, Request
<1>4. Held'
  BY <1>1, <1>2, <1>3 DEF Held
<1>5. Scrolled'
  BY <1>1, <1>2 DEF Scrolled
<1>6. CASE read.kind = "document"
  <2> DEFINE full == FullText(got)
             n == Len(full)
             s == Start(n)
             e == End(n)
  <2>1. answer' = SubSeq(full, s + 1, e) /\ next' = NextOffset(n)
    BY <1>6 DEF Build
  <2>2. full \in Seq(Int)
    BY <1>3, FullTextIsText
  <2> HIDE DEF full
  <2>3. n \in Nat
    BY <2>2
  <2>4. /\ s \in 0..n /\ e \in s..n /\ NextOffset(n) \in Nat
        /\ NextOffset(n) # 0 => s < e
    BY <2>3, <1>3, TurnBounds DEF Request
  <2> HIDE DEF s, e
  <2>5. /\ SubSeq(full, 1, s) \o SubSeq(full, s + 1, e) = SubSeq(full, 1, e)
        /\ s < e => SubSeq(full, s + 1, e) # <<>>
    BY <2>2, <2>4, TurnFollows
  <2>6. Made'
    <3>1. next' \in Nat /\ (next' # 0 => answer' # <<>>)
      BY <2>1, <2>4, <2>5
    <3>2. read'.kind = "document"
      BY <1>2, <1>6
    <3> QED BY <1>2, <3>1, <3>2 DEF Made
  <2>7. ReadSoFar'
    <3> SUFFICES ASSUME steady PROVE ReadSoFar'
      BY <1>2 DEF ReadSoFar
    <3> DEFINE text == FullText(ById(store))
               m == Len(text)
    <3>1. full = text
      BY <1>1, <1>2, <1>6 DEF Scrolled, full
    <3>2. joined = SubSeq(full, 1, s)
      BY <1>1, <1>2, <1>6, <3>1 DEF ReadSoFar, s
    <3>3. joined' = SubSeq(full, 1, e)
      BY <1>2, <2>1, <2>5, <3>2
    <3>4. text' = text
      BY <1>2
    <3> HIDE DEF text
    <3>5. m' = m /\ m = n
      BY <3>1, <3>4
    <3> HIDE DEF m
    <3>6. End(m)' = End(m) /\ NextOffset(m)' = NextOffset(m)
      BY <3>5, <1>2 DEF End, NextOffset, Start
    <3>7. End(m) = e /\ NextOffset(m) = next'
      BY <3>5, <2>1 DEF e
    <3>8. joined' = SubSeq(text', 1, End(m)') /\ next' = NextOffset(m)'
      BY <3>1, <3>3, <3>4, <3>6, <3>7
    <3> QED BY <1>2, <3>8 DEF ReadSoFar, text, m
  <2> QED BY <1>4, <1>5, <2>6, <2>7 DEF ReadInv
<1>7. CASE read.kind # "document"
  <2>1. /\ answer' = CASE read.kind = "file" -> GetFileChunks(got)
                       [] read.kind = "window" -> GetChunkWindow(got)
                       [] read.kind = "parent" -> GetParentChunks(got)
        /\ next' = 0
    BY <1>7 DEF Build
  <2>2. /\ read.kind = "file" => answer' = GetFileChunks(got)
        /\ read.kind = "window" => answer' = GetChunkWindow(got)
        /\ read.kind = "parent" => answer' = GetParentChunks(got)
    BY <2>1
  <2>3. /\ GetFileChunks(got)' = GetFileChunks(got)
        /\ GetChunkWindow(got)' = GetChunkWindow(got)
        /\ GetParentChunks(got)' = GetParentChunks(got)
    BY <1>2 DEF GetFileChunks, GetChunkWindow, GetParentChunks, Anchor, IsAnchor
  <2>4. Made'
    BY <1>2, <1>a, <2>1, <2>2, <2>3 DEF Made
  <2>5. ReadSoFar'
    BY <1>2, <1>7 DEF ReadSoFar
  <2> QED BY <1>4, <1>5, <2>4, <2>5 DEF ReadInv
<1> QED BY <1>6, <1>7

\* The next turn begins where the last one ended.
LEMMA NextTurnStep == ASSUME ReadInv, NextTurn PROVE ReadInv'
<1>1. Held /\ Scrolled /\ Made /\ ReadSoFar
  BY DEF ReadInv
<1>2. /\ phase = "answer" /\ next # 0
      /\ read' = [read EXCEPT !.offset = next] /\ phase' = "scroll" /\ got' = <<>> /\ off' = 0
      /\ answer' = <<>> /\ next' = 0
      /\ store' = store /\ joined' = joined /\ changes' = changes /\ steady' = steady
  BY DEF NextTurn, Call
<1>3. read.kind = "document" /\ next \in Nat
  BY <1>1, <1>2 DEF Made
<1>4. /\ Request /\ store \in Versions /\ changes \in 0..MaxReindex /\ steady \in BOOLEAN
      /\ DOMAIN read = {"kind", "anchor", "window", "offset", "limit", "max"}
  BY <1>1 DEF Held, Request
<1>5. /\ DOMAIN read' = DOMAIN read /\ read'.offset = next /\ read'.kind = read.kind
      /\ read'.anchor = read.anchor /\ read'.window = read.window
      /\ read'.limit = read.limit /\ read'.max = read.max
  BY <1>2, <1>4
<1>6. Request'
  BY <1>3, <1>4, <1>5 DEF Request
<1>7. Held' /\ Scrolled' /\ Made'
  BY <1>2, <1>4, <1>6, CallStep
<1>8. ReadSoFar'
  <2> SUFFICES ASSUME steady PROVE ReadSoFar'
    BY <1>2 DEF ReadSoFar
  <2> DEFINE text == FullText(ById(store))
             n == Len(text)
             s == Start(n)
  <2>1. text \in Seq(Int)
    BY <1>4, TextOfStore
  <2>2. joined = SubSeq(text, 1, End(n)) /\ next = NextOffset(n)
    BY <1>1, <1>2, <1>3 DEF ReadSoFar
  <2>3. text' = text
    BY <1>2
  <2> HIDE DEF text
  <2>4. n \in Nat /\ n' = n
    BY <2>1, <2>3
  <2>5. NextOffset(n) = End(n) /\ End(n) \in 0..n
    BY <1>2, <1>4, <2>2, <2>4, TurnBounds DEF Request
  <2>6. s' = next
    <3> HIDE DEF n
    <3>1. s' = Least(IF read'.offset < 0 THEN 0 ELSE read'.offset, n)
      BY <2>4 DEF Start
    <3> HIDE DEF s
    <3> QED BY <3>1, <1>3, <1>5, <2>2, <2>4, <2>5 DEF Least
  <2>7. joined' = SubSeq(text', 1, s')
    BY <1>2, <2>2, <2>3, <2>5, <2>6
  <2>8. phase' = "scroll"
    BY <1>2
  <2> QED BY <2>7, <2>8 DEF ReadSoFar, text
<1> QED BY <1>7, <1>8 DEF ReadInv

\* An error, the end of a call and a change of the file leave nothing to be said of the hits.
LEMMA OtherSteps == ASSUME ReadInv, ScrollError \/ Panic \/ Close \/ Reindex \/ UNCHANGED vars PROVE ReadInv'
<1>1. Held /\ Scrolled /\ Made /\ ReadSoFar
  BY DEF ReadInv
<1>2. CASE ScrollError \/ Panic
  <2>1. /\ phase \in {"scroll", "build"} /\ phase' = "idle" /\ got' = <<>> /\ off' \in {0, off}
        /\ store' = store /\ read' = read
        /\ answer' = answer /\ next' = next /\ changes' = changes /\ steady' = steady
    BY <1>2 DEF ScrollError, Panic
  <2>2. Held'
    BY <1>1, <2>1, NoPoints DEF Held, Request
  <2>3. Made'
    BY <1>1, <2>1 DEF Made
  <2>4. Scrolled' /\ ReadSoFar'
    BY <2>1 DEF Scrolled, ReadSoFar
  <2> QED BY <2>2, <2>3, <2>4 DEF ReadInv
<1>3. CASE Close
  <2>1. /\ phase' = "idle" /\ got' = <<>> /\ next = 0 /\ off' = off /\ store' = store /\ read' = read
        /\ next' = next /\ changes' = changes /\ steady' = steady
    BY <1>3 DEF Close
  <2>2. Held'
    BY <1>1, <2>1, NoPoints DEF Held, Request
  <2>3. Made'
    BY <1>1, <2>1 DEF Made
  <2>4. Scrolled' /\ ReadSoFar'
    BY <2>1 DEF Scrolled, ReadSoFar
  <2> QED BY <2>2, <2>3, <2>4 DEF ReadInv
<1>4. CASE Reindex
  <2>1. /\ changes < MaxReindex /\ changes' = changes + 1 /\ store' \in Versions /\ steady' = FALSE
        /\ read' = read /\ phase' = phase /\ got' = got /\ off' = off /\ answer' = answer
        /\ next' = next /\ joined' = joined
    BY <1>4 DEF Reindex
  <2>2. changes' \in 0..MaxReindex
    BY <1>1, <2>1, ReadsAssumption DEF Held
  <2>3. Held'
    BY <1>1, <2>1, <2>2 DEF Held, Request
  <2>4. /\ GetFileChunks(got)' = GetFileChunks(got)
        /\ GetChunkWindow(got)' = GetChunkWindow(got)
        /\ GetParentChunks(got)' = GetParentChunks(got) /\ SlicePanics' = SlicePanics
    BY <2>1 DEF GetFileChunks, GetChunkWindow, GetParentChunks, Anchor, IsAnchor, SlicePanics
  <2>5. Made'
    BY <1>1, <2>1, <2>4 DEF Made
  <2>6. Scrolled' /\ ReadSoFar'
    BY <2>1 DEF Scrolled, ReadSoFar
  <2> QED BY <2>3, <2>5, <2>6 DEF ReadInv
<1>5. CASE UNCHANGED vars
  <2>1. /\ store' = store /\ read' = read /\ phase' = phase /\ got' = got /\ off' = off
        /\ answer' = answer /\ next' = next /\ joined' = joined /\ changes' = changes /\ steady' = steady
    BY <1>5 DEF vars
  <2>2. Held'
    BY <1>1, <2>1 DEF Held, Request
  <2>3. /\ GetFileChunks(got)' = GetFileChunks(got)
        /\ GetChunkWindow(got)' = GetChunkWindow(got)
        /\ GetParentChunks(got)' = GetParentChunks(got) /\ SlicePanics' = SlicePanics
    BY <2>1 DEF GetFileChunks, GetChunkWindow, GetParentChunks, Anchor, IsAnchor, SlicePanics
  <2>4. Made'
    BY <1>1, <2>1, <2>3 DEF Made
  <2>5. Scrolled'
    <3>1. Below(off)' = Below(off)
      BY <2>1 DEF Below
    <3> QED BY <1>1, <2>1, <3>1 DEF Scrolled
  <2>6. ReadSoFar'
    <3> DEFINE text == FullText(ById(store))
               n == Len(text)
    <3>1. text' = text
      BY <2>1
    <3> HIDE DEF text
    <3>2. n' = n
      BY <3>1
    <3> HIDE DEF n
    <3>3. Start(n)' = Start(n) /\ End(n)' = End(n) /\ NextOffset(n)' = NextOffset(n)
      BY <2>1, <3>2 DEF Start, End, NextOffset
    <3>4. steady /\ read.kind = "document" =>
             /\ phase \in {"scroll", "build"} => joined = SubSeq(text, 1, Start(n))
             /\ phase = "answer" => joined = SubSeq(text, 1, End(n)) /\ next = NextOffset(n)
      BY <1>1 DEF ReadSoFar, text, n
    <3>5. steady' /\ read'.kind = "document" =>
             /\ phase' \in {"scroll", "build"} => joined' = SubSeq(text', 1, Start(n)')
             /\ phase' = "answer" => joined' = SubSeq(text', 1, End(n)') /\ next' = NextOffset(n)'
      BY <2>1, <3>1, <3>3, <3>4
    <3> QED BY <3>5 DEF ReadSoFar, text, n
  <2> QED BY <2>2, <2>4, <2>5, <2>6 DEF ReadInv
<1> QED BY <1>2, <1>3, <1>4, <1>5

\* Across pages, turns, errors and changes of the file, what was collected is a prefix of the
\* listing of the file, and what was read is a prefix of its text, while the file stays.
THEOREM ReadInvariance == Spec => []ReadInv
<1>1. ASSUME ReadInv, [Next]_vars PROVE ReadInv'
  <2>1. CASE Begin
    BY <1>1, <2>1, BeginStep
  <2>2. CASE Scroll
    BY <1>1, <2>2, ScrollStep
  <2>3. CASE Build
    BY <1>1, <2>3, BuildStep
  <2>4. CASE NextTurn
    BY <1>1, <2>4, NextTurnStep
  <2>5. CASE ScrollError \/ Panic \/ Close \/ Reindex \/ UNCHANGED vars
    BY <1>1, <2>5, OtherSteps
  <2> QED BY <1>1, <2>1, <2>2, <2>3, <2>4, <2>5 DEF Next, Handle
<1> QED BY Init_Inv, <1>1, PTL DEF Spec

(***************************************************************************)
(* A file that changes while it is read, and the properties.               *)
(***************************************************************************)

\* A page has the points from its first id on, up to the id that the next begins at, in order.
LEMMA PageBetween ==
  ASSUME store \in Versions, off \in Nat
  PROVE  LET x == Following(Page)
         IN /\ x \in Nat /\ (x # 0 => off <= x)
            /\ \A k \in DOMAIN Page : /\ Page[k] \in store /\ off <= Page[k].id
                                      /\ x # 0 => Page[k].id < x
            /\ \A k, l \in DOMAIN Page : k < l => Page[k].id < Page[l].id
            /\ \A p \in store : off <= p.id /\ (x = 0 \/ p.id < x) => p \in Range(Page)
<1> DEFINE x == Following(Page)
           T == IF x = 0 THEN store ELSE Below(x)
           g == ById(Below(off))
           b == Len(g)
           m == Len(Page)
           c == Cardinality(T)
           q == g \o Page
<1>1. Version(store) /\ Version(Left) /\ Version(T) /\ Version(Below(off)) /\ T \subseteq store
  <2>1. Version(store)
    BY VersionsAre
  <2>2. T \subseteq store /\ Below(off) \subseteq store
    BY DEF Below
  <2> HIDE DEF T
  <2> QED BY <2>1, <2>2, LeftIs, PartOfVersion
<1>2. \A p \in store : p.id \in Nat \ {0}
  BY <1>1 DEF Version, Point
<1>3. x \in Nat /\ q = ById(T)
  BY ScrollContinues
<1>4. x # 0 => off <= x
  <2> SUFFICES ASSUME x # 0 PROVE off <= x
    OBVIOUS
  <2> DEFINE rest == Left \ Range(Page)
             h == ById(rest)
             n == Cardinality(rest)
  <2>1. rest # {} /\ x = h[1].id
    BY DEF Following
  <2>2. Version(rest)
    BY <1>1, PartOfVersion
  <2>3. Listing(h, rest)
    BY <2>2, ByIdLists
  <2>4. n \in Nat /\ n # 0
    BY <2>1, <2>2, SizeIsNat, FS_EmptySet DEF Version
  <2> HIDE DEF rest, h
  <2>5. \A k \in 1..n : h[k] \in rest
    BY <2>3 DEF Listing
  <2> HIDE DEF n
  <2>6. h[1] \in rest
    BY <2>4, <2>5
  <2>7. \A p \in rest : p.id >= off /\ p.id \in Nat
    BY <1>2 DEF rest, Left
  <2> QED BY <2>1, <2>6, <2>7
<1>5. \A k \in DOMAIN Page : Page[k] \in Left
  <2> DEFINE w == ById(Left)
  <2>1. Listing(w, Left)
    BY <1>1, ByIdLists
  <2>2. Page = First(w, Limit)
    BY DEF Page
  <2> HIDE DEF w
  <2>3. IsSequence(w) /\ \A k \in DOMAIN w : w[k] \in Left
    BY <2>1 DEF Listing
  <2>4. Limit \in Nat
    BY LimitIs
  <2>5. \A k \in DOMAIN First(w, Limit) : k \in DOMAIN w /\ First(w, Limit)[k] = w[k]
    BY <2>3, <2>4, FirstIs
  <2> QED BY <2>2, <2>3, <2>5
<1>6. Listing(q, T) /\ Listing(g, Below(off))
  BY <1>1, <1>3, ByIdLists
<1>7. IsSequence(Page) /\ m \in Nat /\ DOMAIN Page = 1..m
  BY PageIs DEF Points
<1> HIDE DEF g
<1>8. IsSequence(g) /\ b \in Nat /\ DOMAIN g = 1..b
  BY <1>6 DEF Listing, IsSequence
<1>9. \A k \in 1..b : g[k] \in Below(off)
  BY <1>6, <1>8 DEF Listing
<1> HIDE DEF x, T
<1>10. /\ Len(q) = b + m /\ DOMAIN q = 1..b + m
       /\ \A k \in 1..b : q[k] = g[k]
       /\ \A k \in b + 1..b + m : q[k] = Page[k - b]
  BY <1>7, <1>8, Joined
<1> HIDE DEF q, b, m
<1>11. /\ \A k \in DOMAIN q : q[k] \in T
       /\ \A p \in T : \E k \in DOMAIN q : q[k] = p
       /\ \A k, l \in DOMAIN q : k < l => q[k].id < q[l].id
  BY <1>6 DEF Listing
<1>12. \A k \in 1..m : b + k \in DOMAIN q /\ q[b + k] = Page[k]
  <2> SUFFICES ASSUME NEW k \in 1..m PROVE b + k \in DOMAIN q /\ q[b + k] = Page[k]
    OBVIOUS
  <2>1. b + k \in b + 1..b + m /\ b + k \in 1..b + m /\ (b + k) - b = k
    BY <1>7, <1>8
  <2> QED BY <2>1, <1>10
<1>13. ASSUME NEW k \in DOMAIN Page
       PROVE  Page[k] \in store /\ off <= Page[k].id /\ (x # 0 => Page[k].id < x)
  <2>1. Page[k] \in T
    BY <1>7, <1>11, <1>12
  <2>2. Page[k] \in store /\ off <= Page[k].id
    BY <1>2, <1>5 DEF Left
  <2>3. x # 0 => Page[k].id < x
    BY <2>1 DEF T, Below
  <2> QED BY <2>2, <2>3
<1>14. ASSUME NEW k \in DOMAIN Page, NEW l \in DOMAIN Page, k < l
       PROVE  Page[k].id < Page[l].id
  <2>1. k \in 1..m /\ l \in 1..m /\ b + k < b + l
    BY <1>7, <1>8, <1>14
  <2> QED BY <2>1, <1>11, <1>12
<1>15. ASSUME NEW p \in store, off <= p.id, x = 0 \/ p.id < x
       PROVE  p \in Range(Page)
  <2>1. p \in T
    BY <1>15 DEF T, Below
  <2>2. PICK k \in 1..b + m : q[k] = p
    BY <2>1, <1>10, <1>11
  <2>3. p \notin Below(off)
    <3>1. p.id \in Nat
      BY <1>2
    <3> QED BY <3>1, <1>15 DEF Below
  <2>4. k \notin 1..b
    BY <2>2, <2>3, <1>9, <1>10
  <2>5. k \in b + 1..b + m /\ k - b \in 1..m
    BY <2>4, <1>7, <1>8
  <2>6. p = Page[k - b] /\ k - b \in DOMAIN Page
    BY <2>2, <2>5, <1>7, <1>10
  <2> QED BY <2>6 DEF Range
<1> QED BY <1>3, <1>4, <1>13, <1>14, <1>15 DEF x

\* Hits in the order of their ids.
Ascending(s) == \A i, j \in DOMAIN s : i < j => s[i].id < s[j].id

\* Whatever becomes of the file, the hits ascend, lie below the id that the next page begins at,
\* and include every point below it that stays.
Passed ==
  /\ Ascending(got)
  /\ phase = "scroll" =>
       /\ \A i \in DOMAIN got : got[i].id < off
       /\ \A x \in stays : x < off => x \in Ids(Range(got))
       /\ read.kind = "window" => off = 0
  /\ StayingAreRead

\* The invariant of a scroll across changes of the file.
StayInv == Held /\ stays \subseteq Ids(store) /\ Passed

\* It holds when nothing was scrolled yet, and when no call is in progress.
LEMMA NoHits ==
  ASSUME got' = <<>>, stays' \subseteq Ids(store'), store' \in Versions,
         phase' = "idle" \/ (phase' = "scroll" /\ off' = 0)
  PROVE  Passed'
<1>1. DOMAIN got' = {}
  OBVIOUS
<1>2. \A x \in stays' : x \in Nat
  BY VersionsAre DEF Ids, Version, Point
<1>3. \A x \in stays' : ~(x < 0)
  BY <1>2
<1> QED BY <1>1, <1>3 DEF Passed, Ascending, StayingAreRead

\* Hits with greater ids put after others.
LEMMA HitsOnTop ==
  ASSUME NEW g, Points(g), NEW q, Points(q), NEW x \in Nat, Ascending(g), Ascending(q),
         \A i \in DOMAIN g : g[i].id < x, \A i \in DOMAIN q : x <= q[i].id
  PROVE  /\ Ascending(g \o q)
         /\ Range(g \o q) = Range(g) \cup Range(q)
<1> DEFINE t == g \o q
           a == Len(g)
           b == Len(q)
<1>1. a \in Nat /\ b \in Nat /\ DOMAIN g = 1..a /\ DOMAIN q = 1..b /\ IsSequence(g) /\ IsSequence(q)
  BY DEF Points
<1>2. /\ DOMAIN t = 1..a + b
      /\ \A k \in 1..a : t[k] = g[k]
      /\ \A k \in a + 1..a + b : t[k] = q[k - a]
  BY <1>1, Joined
<1>3. /\ \A k \in DOMAIN g : g[k].id \in Nat
      /\ \A k \in DOMAIN q : q[k].id \in Nat
  BY DEF Points, Point
<1> HIDE DEF t, a, b
<1>4. \A k \in 1..a + b : k \in 1..a \/ (k \in a + 1..a + b /\ k - a \in 1..b)
  BY <1>1
<1>5. ASSUME NEW k \in 1..a + b, NEW l \in 1..a + b, k < l PROVE t[k].id < t[l].id
  <2>1. CASE l \in 1..a
    <3>1. k \in 1..a
      BY <2>1, <1>1, <1>5
    <3> QED BY <2>1, <3>1, <1>1, <1>2, <1>5 DEF Ascending
  <2>2. CASE k \in 1..a /\ l \in a + 1..a + b
    <3>1. l - a \in DOMAIN q /\ t[l] = q[l - a] /\ k \in DOMAIN g /\ t[k] = g[k]
      BY <2>2, <1>1, <1>2
    <3>2. t[k].id < x /\ x <= t[l].id /\ t[k].id \in Nat /\ t[l].id \in Nat
      BY <3>1, <1>3
    <3> QED BY <3>2
  <2>3. CASE k \in a + 1..a + b /\ l \in a + 1..a + b
    <3>1. /\ l - a \in DOMAIN q /\ t[l] = q[l - a]
          /\ k - a \in DOMAIN q /\ t[k] = q[k - a] /\ k - a < l - a
      BY <2>3, <1>1, <1>2, <1>5
    <3> QED BY <3>1 DEF Ascending
  <2>4. k \in 1..a \/ l \in a + 1..a + b
    BY <1>1, <1>5
  <2> QED BY <2>1, <2>2, <2>3, <2>4, <1>4
<1>6. \A p : p \in Range(t) <=> p \in Range(g) \/ p \in Range(q)
  <2> SUFFICES ASSUME NEW p PROVE p \in Range(t) <=> p \in Range(g) \/ p \in Range(q)
    OBVIOUS
  <2>1. ASSUME p \in Range(t) PROVE p \in Range(g) \/ p \in Range(q)
    <3>1. PICK k \in 1..a + b : p = t[k]
      BY <2>1, <1>2 DEF Range
    <3>2. CASE k \in 1..a
      BY <3>1, <3>2, <1>1, <1>2 DEF Range
    <3>3. CASE k \in a + 1..a + b /\ k - a \in 1..b
      BY <3>1, <3>3, <1>1, <1>2 DEF Range
    <3> QED BY <3>2, <3>3, <1>4
  <2>2. ASSUME p \in Range(g) PROVE p \in Range(t)
    <3>1. PICK k \in 1..a : p = g[k]
      BY <2>2, <1>1 DEF Range
    <3>2. k \in 1..a + b
      BY <1>1
    <3> QED BY <3>1, <3>2, <1>2 DEF Range
  <2>3. ASSUME p \in Range(q) PROVE p \in Range(t)
    <3>1. PICK k \in 1..b : p = q[k]
      BY <2>3, <1>1 DEF Range
    <3>2. a + k \in a + 1..a + b /\ a + k \in 1..a + b /\ (a + k) - a = k
      BY <1>1
    <3> QED BY <3>1, <3>2, <1>2 DEF Range
  <2> QED BY <2>1, <2>2, <2>3
<1>7. Range(t) = Range(g) \cup Range(q)
  BY <1>6
<1>8. Ascending(t)
  BY <1>2, <1>5 DEF Ascending
<1> QED BY <1>7, <1>8 DEF t

\* A page more, perhaps of another version than the one before.
LEMMA StayScroll == ASSUME StayInv, Scroll, Held' PROVE StayInv'
<1>1. Held /\ Passed /\ stays \subseteq Ids(store) /\ store \in Versions /\ off \in Nat
      /\ Points(got)
  BY DEF StayInv, Held
<1>2. /\ phase = "scroll" /\ got' = got \o Page
      /\ off' = (IF read.kind = "window" THEN 0 ELSE Following(Page))
      /\ phase' = (IF off' = 0 THEN "build" ELSE "scroll")
      /\ store' = store /\ read' = read /\ stays' = stays
  BY DEF Scroll
<1>3. /\ Ascending(got)
      /\ \A i \in DOMAIN got : got[i].id < off
      /\ \A x \in stays : x < off => x \in Ids(Range(got))
  BY <1>1, <1>2 DEF Passed
<1> DEFINE y == Following(Page)
<1>4. /\ y \in Nat /\ (y # 0 => off <= y)
      /\ \A k \in DOMAIN Page : off <= Page[k].id /\ (y # 0 => Page[k].id < y)
      /\ Ascending(Page)
      /\ \A p \in store : off <= p.id /\ (y = 0 \/ p.id < y) => p \in Range(Page)
  BY <1>1, PageBetween DEF Ascending
<1>5. Points(Page)
  BY <1>1, PageIs
<1> HIDE DEF y
<1>6. Ascending(got') /\ Range(got') = Range(got) \cup Range(Page)
  BY <1>1, <1>2, <1>3, <1>4, <1>5, HitsOnTop
<1>7. \A p \in store : p.id \in Nat
  BY <1>1, VersionsAre DEF Version, Point
<1>8. ASSUME NEW x \in stays, y = 0 \/ x < y PROVE x \in Ids(Range(got'))
  <2>1. PICK p \in store : x = p.id
    BY <1>1 DEF Ids
  <2>2. x < off \/ off <= x
    BY <2>1, <1>1, <1>7
  <2>3. CASE x < off
    BY <2>3, <1>3, <1>6 DEF Ids
  <2>4. CASE off <= x
    BY <2>1, <2>4, <1>4, <1>6, <1>8 DEF Ids
  <2> QED BY <2>2, <2>3, <2>4
<1>9. ASSUME y # 0 PROVE \A p \in Range(got') : p.id < y
  <2> SUFFICES ASSUME NEW p \in Range(got') PROVE p.id < y
    OBVIOUS
  <2>1. CASE p \in Range(got)
    <3>1. PICK k \in DOMAIN got : p = got[k]
      BY <2>1 DEF Range
    <3>2. p.id < off /\ p.id \in Nat
      BY <3>1, <1>1, <1>3 DEF Points, Point
    <3> QED BY <3>2, <1>1, <1>4, <1>9
  <2>2. CASE p \in Range(Page)
    BY <2>2, <1>4, <1>9 DEF Range
  <2> QED BY <2>1, <2>2, <1>6
<1>10. Passed'
  <2>1. ASSUME phase' = "scroll"
        PROVE  /\ \A i \in DOMAIN got' : got'[i].id < off'
               /\ \A x \in stays' : x < off' => x \in Ids(Range(got'))
               /\ read'.kind # "window"
    <3>1. y # 0 /\ off' = y /\ read.kind # "window"
      BY <2>1, <1>2 DEF y
    <3>2. \A i \in DOMAIN got' : got'[i] \in Range(got')
      BY DEF Range
    <3> QED BY <3>1, <3>2, <1>2, <1>8, <1>9
  <2>2. ASSUME phase' \in {"build", "answer"}, read'.kind # "window"
        PROVE  stays' \subseteq Ids(Range(got'))
    <3>1. y = 0
      BY <2>2, <1>2 DEF y
    <3> QED BY <3>1, <1>2, <1>8
  <2>3. Range(got)' = Range(got') /\ Ids(Range(got))' = Ids(Range(got'))
    BY DEF Range, Ids
  <2>4. Ascending(got)' = Ascending(got')
    BY DEF Ascending
  <2>5. StayingAreRead'
    BY <2>2, <2>3 DEF StayingAreRead
  <2> QED BY <2>1, <2>3, <2>4, <2>5, <1>6 DEF Passed
<1>11. stays' \subseteq Ids(store)'
  BY <1>1, <1>2 DEF Ids
<1> QED BY <1>10, <1>11 DEF StayInv

\* The other steps scroll nothing; a change of the file only takes ids from those that stay.
LEMMA StayOthers ==
  ASSUME StayInv, Begin \/ NextTurn \/ Build \/ Panic \/ ScrollError \/ Close \/ Reindex \/ UNCHANGED vars,
         Held'
  PROVE  StayInv'
<1>1. Held /\ Passed /\ stays \subseteq Ids(store) /\ store \in Versions
  BY DEF StayInv, Held
<1>2. store' \in Versions
  BY DEF Held
<1>3. CASE Begin \/ NextTurn
  <2>1. phase' = "scroll" /\ got' = <<>> /\ off' = 0 /\ stays' = Ids(store) /\ store' = store
    BY <1>3 DEF Begin, NextTurn, Call
  <2>2. stays' \subseteq Ids(store)'
    BY <2>1 DEF Ids
  <2>3. Passed'
    BY <2>1, <2>2, <1>2, NoHits DEF Ids
  <2> QED BY <2>2, <2>3 DEF StayInv
<1>4. CASE ScrollError \/ Panic \/ Close
  <2>1. phase' = "idle" /\ got' = <<>> /\ stays' = stays /\ store' = store
    BY <1>4 DEF ScrollError, Panic, Close
  <2>2. stays' \subseteq Ids(store)'
    BY <1>1, <2>1 DEF Ids
  <2>3. Passed'
    BY <2>1, <2>2, <1>2, NoHits DEF Ids
  <2> QED BY <2>2, <2>3 DEF StayInv
<1>5. CASE Build \/ UNCHANGED vars
  <2>1. /\ got' = got /\ off' = off /\ stays' = stays /\ store' = store /\ read' = read
        /\ phase' = phase \/ (phase = "build" /\ phase' = "answer")
    BY <1>5 DEF Build, vars
  <2>2. stays' \subseteq Ids(store)'
    BY <1>1, <2>1 DEF Ids
  <2>3. Range(got)' = Range(got) /\ Ids(Range(got))' = Ids(Range(got))
    BY <2>1 DEF Range, Ids
  <2>4. Ascending(got)'
    BY <1>1, <2>1 DEF Passed, Ascending
  <2>5. StayingAreRead'
    BY <1>1, <2>1, <2>3 DEF Passed, StayingAreRead
  <2>6. phase' = "scroll" =>
          /\ \A i \in DOMAIN got' : got'[i].id < off'
          /\ \A x \in stays' : x < off' => x \in Ids(Range(got))'
          /\ read'.kind = "window" => off' = 0
    BY <1>1, <2>1, <2>3 DEF Passed
  <2>7. Passed'
    BY <2>4, <2>5, <2>6 DEF Passed
  <2> QED BY <2>2, <2>7 DEF StayInv
<1>6. CASE Reindex
  <2>1. /\ got' = got /\ off' = off /\ read' = read /\ phase' = phase
        /\ stays' = stays \cap Ids(store')
    BY <1>6 DEF Reindex
  <2>2. stays' \subseteq stays /\ stays' \subseteq Ids(store)'
    BY <2>1 DEF Ids
  <2>3. Range(got)' = Range(got) /\ Ids(Range(got))' = Ids(Range(got))
    BY <2>1 DEF Range, Ids
  <2>4. Ascending(got)'
    BY <1>1, <2>1 DEF Passed, Ascending
  <2>5. StayingAreRead'
    BY <1>1, <2>1, <2>2, <2>3 DEF Passed, StayingAreRead
  <2>6. phase' = "scroll" =>
          /\ \A i \in DOMAIN got' : got'[i].id < off'
          /\ \A x \in stays' : x < off' => x \in Ids(Range(got))'
          /\ read'.kind = "window" => off' = 0
    BY <1>1, <2>1, <2>2, <2>3 DEF Passed
  <2>7. Passed'
    BY <2>4, <2>5, <2>6 DEF Passed
  <2> QED BY <2>2, <2>7 DEF StayInv
<1> QED BY <1>3, <1>4, <1>5, <1>6

\* A scroll passes each id once, and whole pages of them, across any number of changes of the file.
THEOREM StayInvariance == Spec => []StayInv
<1>1. ASSUME Init, Held PROVE StayInv
  <2>1. stays = {} /\ got = <<>> /\ phase = "idle"
    BY <1>1 DEF Init
  <2>2. DOMAIN got = {}
    BY <2>1
  <2>3. Passed
    BY <2>1, <2>2 DEF Passed, Ascending, StayingAreRead
  <2> QED BY <1>1, <2>1, <2>3 DEF StayInv
<1>2. ASSUME StayInv, Held', [Next]_vars PROVE StayInv'
  BY <1>2, StayScroll, StayOthers DEF Next, Handle
<1>3. ReadInv => Held
  BY DEF ReadInv
<1> QED BY <1>1, <1>2, <1>3, ReadInvariance, PTL DEF Spec

\* ScrollByFileID returns every point that stays in the file during the call.
THEOREM StayingRead == Spec => []StayingAreRead
<1>1. StayInv => StayingAreRead
  BY DEF StayInv, Passed
<1> QED BY <1>1, StayInvariance, PTL

\* A call is in one of its phases, has no hit twice even if the file is indexed anew between two
\* pages, and announces a next turn only with an answer that is not empty: an agent that follows
\* next_offset gets on.
THEOREM TypeCorrect == Spec => []TypeOK
<1>1. ASSUME ReadInv, StayInv PROVE TypeOK
  <2>1. Held /\ Made /\ Request /\ Ascending(got)
    BY <1>1 DEF ReadInv, Held, StayInv, Passed
  <2>2. ASSUME NEW i \in DOMAIN got, NEW j \in DOMAIN got, i # j PROVE got[i].id # got[j].id
    <3>1. i \in Nat /\ j \in Nat /\ got[i].id \in Nat /\ got[j].id \in Nat
      BY <2>1 DEF Held, Points, Point
    <3>2. i < j \/ j < i
      BY <3>1, <2>2
    <3>3. got[i].id < got[j].id \/ got[j].id < got[i].id
      BY <2>1, <3>2 DEF Ascending
    <3> QED BY <3>1, <3>3
  <2>3. /\ store \in Versions
        /\ read.kind \in {"file", "window", "parent", "document"}
        /\ phase \in {"idle", "scroll", "build", "answer"}
        /\ off \in Nat /\ next \in Nat /\ changes \in 0..MaxReindex
        /\ next # 0 => phase = "answer" /\ answer # <<>>
    BY <2>1 DEF Held, Request, Made
  <2> QED BY <2>2, <2>3 DEF TypeOK
<1> QED BY <1>1, ReadInvariance, StayInvariance, PTL

\* A finished call that was not a window has all points of the file.
LEMMA HasAll ==
  ASSUME ReadInv, Answered, read.kind # "window"
  PROVE  store \in Versions /\ AllOfStore(got) /\ Len(got) = Cardinality(store)
<1>1. got = ById(store) /\ store \in Versions
  BY DEF ReadInv, Held, Scrolled, Answered
<1> QED BY <1>1, ListingIsAll

\* The pages of GetFileChunks are the slices of one order of all chunks, for any number of scrolls
\* and for any offset that is not negative; with a negative one nothing is listed.
THEOREM FilePages == Spec => []FilePage
<1>1. ASSUME ReadInv PROVE FilePage
  <2> SUFFICES ASSUME Answered, read.kind = "file" PROVE FilePage
    BY DEF FilePage
  <2>1. store \in Versions /\ AllOfStore(got) /\ Len(got) = Cardinality(store)
    BY <1>1, HasAll
  <2>2. read.offset \in Int /\ read.limit \in Nat
    BY <1>1 DEF ReadInv, Held, Request
  <2>3. answer = GetFileChunks(got) /\ ~SlicePanics
    BY <1>1 DEF ReadInv, Made, Answered
  <2> DEFINE t == GetFileChunks(got)
  <2>4. CASE got = <<>>
    <3>1. answer = <<>>
      BY <2>3, <2>4 DEF GetFileChunks
    <3>2. Cardinality(store) = 0 /\ store = {}
      <4>1. DOMAIN got = {}
        BY <2>4
      <4>2. store = {}
        BY <2>1, <4>1 DEF AllOfStore
      <4> QED BY <4>2, FS_EmptySet
    <3>3. Len(answer) = 0 /\ DOMAIN answer = {}
      BY <3>1
    <3>4. read.offset >= 0 =>
            Len(answer) = Least(read.limit, IF Cardinality(store) < read.offset THEN 0
                                            ELSE Cardinality(store) - read.offset)
      BY <2>2, <3>2, <3>3 DEF Least
    <3> QED BY <2>2, <3>1, <3>2, <3>3, <3>4 DEF FilePage
  <2>5. CASE got # <<>>
    <3>1. read.offset \in Nat
      BY <2>2, <2>3, <2>5 DEF SlicePanics
    <3>2. /\ Len(t) = Least(read.limit, IF Cardinality(store) < read.offset THEN 0
                                        ELSE Cardinality(store) - read.offset)
          /\ \A i \in DOMAIN t :
               Cardinality({p \in store : Listed(p.kind, p.no, t[i][1], t[i][2])})
                 = read.offset + i - 1
      BY <2>1, <2>2, <2>5, <3>1, FileIs
    <3> HIDE DEF t
    <3>3. answer = t /\ read.offset >= 0
      BY <2>3, <3>1 DEF t
    <3> QED BY <3>2, <3>3 DEF FilePage
  <2> QED BY <2>4, <2>5
<1> QED BY <1>1, ReadInvariance, PTL

\* GetParentChunks returns the section of its anchor and nothing else, in order: all of it, or the
\* first parentMaxChunks chunks of it.
THEOREM WholeSections == Spec => []WholeSection
<1>1. ASSUME ReadInv PROVE WholeSection
  <2> SUFFICES ASSUME Answered, read.kind = "parent" PROVE WholeSection
    BY DEF WholeSection
  <2>1. store \in Versions /\ AllOfStore(got)
    BY <1>1, HasAll
  <2>2. answer = GetParentChunks(got)
    BY <1>1 DEF ReadInv, Made, Answered
  <2> QED BY <2>1, <2>2, ParentIs DEF WholeSection
<1> QED BY <1>1, ReadInvariance, PTL

\* GetChunkWindow shows neighbours only, in order, and all of them if one page holds the file.
THEOREM Windows == Spec => []WindowShowsNeighbours
<1>1. ASSUME ReadInv PROVE WindowShowsNeighbours
  <2> SUFFICES ASSUME Answered, read.kind = "window" PROVE WindowShowsNeighbours
    BY DEF WindowShowsNeighbours
  <2>1. store \in Versions /\ got = First(ById(store), WindowLimit) /\ Request
    BY <1>1 DEF ReadInv, Held, Scrolled, Answered
  <2>2. WindowLimit \in Nat
    BY ReadsAssumption
  <2>3. SomeOfStore(got) /\ (Cardinality(store) <= WindowLimit => AllOfStore(got))
    BY <2>1, <2>2, PageIsSome
  <2>4. answer = GetChunkWindow(got)
    BY <1>1 DEF ReadInv, Made, Answered
  <2>5. read.anchor.no \in Int /\ read.window \in Int
    BY <2>1 DEF Request
  <2> QED BY <2>1, <2>3, <2>4, <2>5, WindowIs DEF WindowShowsNeighbours
<1> QED BY <1>1, ReadInvariance, PTL

\* The turns of GetDocumentText, put together, have every character of the document once and in
\* order, however its chunks overlap and wherever the turns are cut.
THEOREM DocumentTurns == Spec => []TurnsMakeTheDocument
<1>1. ASSUME ReadInv PROVE TurnsMakeTheDocument
  <2> DEFINE chars == {x \in UNION {Range(p.text) : p \in Chunks("body", LAMBDA p : TRUE)} : x > 0}
  <2> SUFFICES ASSUME Answered, read.kind = "document", next = 0, Monotone
               PROVE  /\ {x \in Range(joined) : x > 0} = chars
                      /\ \A i, j \in DOMAIN joined :
                           i < j /\ joined[i] > 0 /\ joined[j] > 0 => joined[i] < joined[j]
    BY DEF TurnsMakeTheDocument
  <2> DEFINE g == ById(store)
             text == FullText(g)
             n == Len(text)
  <2>1. store \in Versions /\ read.offset \in Int /\ read.max \in Int
    BY <1>1 DEF ReadInv, Held, Request
  <2>2. joined = SubSeq(text, 1, End(n)) /\ NextOffset(n) = 0
    BY <1>1 DEF ReadInv, ReadSoFar, Answered
  <2>3. text \in Seq(Int)
    BY <2>1, TextOfStore
  <2>4. AllOfStore(g)
    BY <2>1, ListingIsAll
  <2>5. InOrder(text) /\ Chars(text) = chars
    BY <2>1, <2>4, DocumentIs
  <2> HIDE DEF text, chars
  <2>6. End(n) = n
    BY <2>1, <2>2, <2>3, TurnBounds
  <2>7. joined = text
    BY <2>2, <2>3, <2>6, WholeText
  <2> QED BY <2>5, <2>7 DEF InOrder, Chars
<1> QED BY <1>1, ReadInvariance, PTL

=============================================================================
