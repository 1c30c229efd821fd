------------------------- MODULE SearchQuery_proofs -------------------------
(***************************************************************************)
(* What holds of the two caches in front of a semantic search for any      *)
(* number of searches, queries and mimes, any size of the cache and any    *)
(* times to live.                                                          *)
(***************************************************************************)
EXTENDS SearchQuery, FiniteSetTheorems, TLAPS

Entry == [key : Queries, val : Embeddings, exp : Nat]

Typed ==
  /\ now \in Times
  /\ appeared \in [Mimes -> Times \cup {None}]
  /\ facet = None \/ facet \in [values : SUBSET Mimes, exp : Nat]
  /\ asking = None \/ asking \in [by : Searches, saw : SUBSET Mimes]
  /\ flight \in [Queries -> Searches \cup {None}]
  /\ pc \in [Searches -> Labels]
  /\ body \in [Searches -> Bodies \cup {None}] /\ began \in [Searches -> Times]
  /\ mimeIn \in [Searches -> SUBSET (Mimes \cup MimePrefixes)]
  /\ emb \in [Searches -> Embeddings \cup {None}]
  /\ answer \in [Searches -> SUBSET Points]

Unique(seq) == \A i, j \in 1..Len(seq) : seq[i].key = seq[j].key => i = j

\* An entry lives for a TTL from the time its embedding was given, and is no failure.
LruOK ==
  /\ lru \in Seq(Entry) /\ Len(lru) <= Size /\ Unique(lru)
  /\ \A i \in 1..Len(lru) : lru[i].exp = lru[i].val.at + TTL /\ lru[i].val.ok

\* The mutex and the flights belong to the searches that are in them.
OwnersOK ==
  /\ \A s \in Searches : pc[s] = "facet" <=> asking # None /\ asking.by = s
  /\ \A s \in Searches : Busy(s) <=> body[s] # None
  /\ \A s \in Searches : Loading(s) => flight[query(s)] = s
  /\ \A q \in Queries : flight[q] # None => Loading(flight[q]) /\ query(flight[q]) = q

\* A mime that the facet lacks appeared too late to be known while it is fresh.
FacetOK ==
  /\ facet # None => /\ facet.exp <= now + MimeTTL
                     /\ \A m \in Mimes \ facet.values :
                          appeared[m] # None => appeared[m] + MimeTTL >= facet.exp
  /\ asking # None => \A m \in Mimes \ asking.saw : appeared[m] # None => appeared[m] >= now

MimeOK(s) ==
  /\ pc[s] \in {"mime", "facet"} => hasMimePrefixEntries(body[s].mimes)
  /\ pc[s] \notin {"idle", "mime", "facet"} /\ ~hasMimePrefixEntries(mimeIn[s]) =>
       \A m \in expandMimePrefixes(body[s].mimes, Mimes) :
         appeared[m] # None /\ appeared[m] + MimeTTL <= began[s] => m \in mimeIn[s]
  /\ pc[s] \notin {"idle", "mime", "facet", "done", "failed"} =>
       /\ mimeIn[s] = {} <=> body[s].mimes = {}
       /\ mimeIn[s] \cap Mimes \subseteq expandMimePrefixes(body[s].mimes, Mimes)

\* What a flight brings is fresh when it lands.
EmbOK(s) ==
  /\ began[s] <= now
  /\ pc[s] = "idle" => emb[s] = None
  /\ pc[s] = "land" => /\ emb[s] # None /\ now <= emb[s].at + TTL
                       /\ ~emb[s].ok => emb[s].at = now
  /\ emb[s] # None => began[s] <= emb[s].at + TTL
  /\ emb[s] # None /\ ~emb[s].ok => began[s] <= emb[s].at

IInv ==
  /\ Typed
  /\ LruOK
  /\ OwnersOK
  /\ FacetOK
  /\ \A s \in Searches : MimeOK(s) /\ EmbOK(s)
  /\ \A s \in Searches : pc[s] = "load" => ~Fresh(query(s))

-----------------------------------------------------------------------------
(***************************************************************************)
(* The helpers of the LRU.                                                 *)
(***************************************************************************)
LEMMA Constants ==
  /\ \A b \in Bodies : b.query \in Queries /\ b.mimes \subseteq Mimes \cup MimePrefixes
  /\ Limit \in Nat /\ Size \in Nat /\ Size > 0 /\ TTL \in Nat /\ MimeTTL \in Nat /\ MimeTTL > 0
  /\ MaxTime \in Nat /\ None \notin Bodies /\ None \notin Searches
  BY SearchQueryAssumption

LEMMA NoneIsNothing ==
  None \notin Int /\ None \notin [by : Searches, saw : SUBSET Mimes] /\ None \notin Embeddings
<1>1. None \notin [ok : BOOLEAN, at : Int] /\ Embeddings \subseteq [ok : BOOLEAN, at : Int]
  <2>1. Times \subseteq Int
    BY SearchQueryAssumption DEF Times
  <2> QED BY <2>1, Zenon, SearchQueryAssumption DEF Embeddings
<1> QED BY <1>1, Zenon, SearchQueryAssumption

\* Each entry of a sequence is one of another.
Within(new, old) == \A j \in 1..Len(new) : \E i \in 1..Len(old) : new[j] = old[i]

LEMMA RemoveFacts ==
  ASSUME NEW S, NEW seq \in Seq(S), NEW i \in 1..Len(seq)
  PROVE  /\ RemoveAt(seq, i) \in Seq(S)
         /\ Len(RemoveAt(seq, i)) = Len(seq) - 1
         /\ \A j \in 1..(Len(seq) - 1) : RemoveAt(seq, i)[j] = IF j < i THEN seq[j] ELSE seq[j + 1]
<1> DEFINE left == SubSeq(seq, 1, i - 1)
           right == SubSeq(seq, i + 1, Len(seq))
<1>1. /\ left \in Seq(S) /\ Len(left) = i - 1
      /\ \A j \in 1..(i - 1) : left[j] = seq[j]
  OBVIOUS
<1>2. i + 1 \in 1..(Len(seq) + 1) /\ Len(seq) \in Nat /\ i \in Nat
  OBVIOUS
<1>3. /\ right \in Seq(S) /\ Len(right) = Len(seq) - i
      /\ \A j \in 1..(Len(seq) - i) : right[j] = seq[i + j]
  <2>1. CASE i = Len(seq)
    BY <2>1
  <2>2. CASE i < Len(seq)
    BY <1>2, <2>2
  <2> QED BY <1>2, <2>1, <2>2
<1>4. RemoveAt(seq, i) = left \o right
  BY DEF RemoveAt
<1> HIDE DEF left, right
<1>5. left \o right \in Seq(S) /\ Len(left \o right) = Len(left) + Len(right)
  <2>1. left \in Seq(S) /\ right \in Seq(S)
    BY <1>1, <1>3
  <2> QED BY <2>1
<1>6. \A j \in 1..(Len(left) + Len(right)) :
        (left \o right)[j] = IF j <= Len(left) THEN left[j] ELSE right[j - Len(left)]
  BY <1>1, <1>3
<1>7. Len(left) + Len(right) = Len(seq) - 1
  BY <1>1, <1>2, <1>3
<1>8. ASSUME NEW j \in 1..(Len(seq) - 1)
      PROVE  (left \o right)[j] = IF j < i THEN seq[j] ELSE seq[j + 1]
  <2>1. CASE j < i
    BY <1>1, <1>2, <1>6, <1>7, <2>1
  <2>2. CASE ~(j < i)
    <3>1. j - (i - 1) \in 1..(Len(seq) - i) /\ i + (j - (i - 1)) = j + 1
      BY <1>2, <2>2
    <3>2. (left \o right)[j] = right[j - (i - 1)]
      BY <1>1, <1>2, <1>6, <1>7, <2>2
    <3> QED BY <1>3, <2>2, <3>1, <3>2
  <2> QED BY <2>1, <2>2
<1> QED BY <1>4, <1>5, <1>7, <1>8

\* Without(q) is the rest, in its order.
LEMMA WithoutFacts ==
  ASSUME lru \in Seq(Entry), Unique(lru), NEW q
  PROVE  /\ Without(q) \in Seq(Entry) /\ Unique(Without(q)) /\ Within(Without(q), lru)
         /\ \A j \in 1..Len(Without(q)) : Without(q)[j].key # q
         /\ Len(Without(q)) = IF At(q) = {} THEN Len(lru) ELSE Len(lru) - 1
<1>1. CASE At(q) = {}
  <2>1. Without(q) = lru
    BY <1>1 DEF Without
  <2> QED BY <1>1, <2>1 DEF At, Within
<1>2. CASE At(q) # {}
  <2> DEFINE c == CHOOSE i \in At(q) : TRUE
  <2>1. c \in At(q)
    BY <1>2
  <2>2. c \in 1..Len(lru) /\ lru[c].key = q
    BY <2>1 DEF At
  <2>3. Without(q) = RemoveAt(lru, c)
    BY <1>2 DEF Without
  <2> HIDE DEF c
  <2>4. /\ Without(q) \in Seq(Entry) /\ Len(Without(q)) = Len(lru) - 1
        /\ \A j \in 1..(Len(lru) - 1) : Without(q)[j] = IF j < c THEN lru[j] ELSE lru[j + 1]
    BY <2>2, <2>3, RemoveFacts
  <2>5. \A j \in 1..Len(Without(q)) : \E i \in 1..Len(lru) \ {c} :
           Without(q)[j] = lru[i] /\ i = IF j < c THEN j ELSE j + 1
    BY <2>2, <2>4
  <2>6. Unique(Without(q))
    BY <2>2, <2>4, <2>5 DEF Unique
  <2>7. \A j \in 1..Len(Without(q)) : Without(q)[j].key # q
    BY <2>2, <2>5 DEF Unique
  <2>8. Within(Without(q), lru)
    BY <2>5 DEF Within
  <2> QED BY <1>2, <2>4, <2>6, <2>7, <2>8
<1> QED BY <1>1, <1>2

\* A Get rearranges the entries.
LEMMA TouchFacts ==
  ASSUME lru \in Seq(Entry), Unique(lru), NEW q
  PROVE  /\ Touch(q) \in Seq(Entry) /\ Unique(Touch(q)) /\ Within(Touch(q), lru)
         /\ Len(Touch(q)) = Len(lru)
<1>1. CASE At(q) = {}
  BY <1>1 DEF Touch, Within
<1>2. CASE At(q) # {}
  <2> DEFINE c == CHOOSE i \in At(q) : TRUE
  <2>1. c \in At(q)
    BY <1>2
  <2>2. c \in 1..Len(lru) /\ lru[c].key = q /\ lru[c] \in Entry
    BY <2>1 DEF At
  <2>3. Touch(q) = Append(Without(q), lru[c])
    BY <1>2 DEF Touch
  <2> HIDE DEF c
  <2> DEFINE w == Without(q)
  <2>4. /\ w \in Seq(Entry) /\ Unique(w) /\ Within(w, lru) /\ Len(w) = Len(lru) - 1
        /\ \A j \in 1..Len(w) : w[j].key # q
    BY <1>2, WithoutFacts
  <2> HIDE DEF w
  <2>5. Touch(q) = Append(w, lru[c])
    BY <2>3 DEF w
  <2>6. /\ Touch(q) \in Seq(Entry) /\ Len(Touch(q)) = Len(w) + 1
        /\ \A j \in 1..Len(w) : Touch(q)[j] = w[j]
        /\ Touch(q)[Len(w) + 1] = lru[c]
    BY <2>2, <2>4, <2>5
  <2>7. Unique(Touch(q))
    <3> SUFFICES ASSUME NEW i \in 1..(Len(w) + 1), NEW j \in 1..(Len(w) + 1),
                        Touch(q)[i].key = Touch(q)[j].key
                 PROVE  i = j
      BY <2>6 DEF Unique
    <3>1. \A k \in 1..Len(w) : Touch(q)[k].key # q
      BY <2>4, <2>6
    <3>2. Len(w) \in Nat /\ Touch(q)[Len(w) + 1].key = q
      BY <2>2, <2>4, <2>6
    <3>3. CASE i \in 1..Len(w) /\ j \in 1..Len(w)
      BY <2>4, <2>6, <3>3 DEF Unique
    <3> QED BY <3>1, <3>2, <3>3
  <2>8. Within(Touch(q), lru)
    <3> SUFFICES ASSUME NEW j \in 1..(Len(w) + 1)
                 PROVE  \E i \in 1..Len(lru) : Touch(q)[j] = lru[i]
      BY <2>6 DEF Within
    <3>1. CASE j \in 1..Len(w)
      <4>1. Touch(q)[j] = w[j]
        BY <2>6, <3>1
      <4> QED BY <2>4, <3>1, <4>1 DEF Within
    <3>2. CASE j = Len(w) + 1
      BY <2>2, <2>6, <3>2
    <3>3. Len(w) \in Nat
      BY <2>4
    <3> QED BY <3>1, <3>2, <3>3
  <2> QED BY <2>4, <2>6, <2>7, <2>8
<1> QED BY <1>1, <1>2

\* A hit is the last entry then, and has not expired.
LEMMA TouchHit ==
  ASSUME lru \in Seq(Entry), Unique(lru), NEW q, Fresh(q)
  PROVE  \E i \in 1..Len(lru) : Last(Touch(q)) = lru[i] /\ now <= lru[i].exp
<1> DEFINE c == CHOOSE i \in At(q) : TRUE
<1>1. PICK i \in At(q) : now <= lru[i].exp
  BY DEF Fresh
<1>2. c \in At(q)
  BY <1>1
<1>3. i \in 1..Len(lru) /\ c = i
  BY <1>1, <1>2 DEF At, Unique
<1>4. Touch(q) = Append(Without(q), lru[c])
  BY <1>1 DEF Touch
<1> HIDE DEF c
<1>5. Last(Touch(q)) = lru[i]
  BY <1>3, <1>4, WithoutFacts DEF Last
<1> QED BY <1>1, <1>3, <1>5

\* A Put adds its entry to some of those that were there.
LEMMA PutFacts ==
  ASSUME lru \in Seq(Entry), Unique(lru), Len(lru) <= Size, now \in Nat,
         NEW q \in Queries, NEW v \in Embeddings
  PROVE  /\ Put(q, v) \in Seq(Entry) /\ Unique(Put(q, v)) /\ Len(Put(q, v)) <= Size
         /\ \A j \in 1..Len(Put(q, v)) :
              \/ Put(q, v)[j] = [key |-> q, val |-> v, exp |-> now + TTL]
              \/ \E i \in 1..Len(lru) : Put(q, v)[j] = lru[i]
<1> DEFINE w == Without(q)
           e == [key |-> q, val |-> v, exp |-> now + TTL]
           added == Append(w, e)
<1>1. /\ w \in Seq(Entry) /\ Unique(w) /\ Within(w, lru) /\ Len(w) <= Len(lru)
      /\ \A j \in 1..Len(w) : w[j].key # q
  BY WithoutFacts
<1>2. e \in Entry /\ e.key = q
  BY Constants DEF Entry
<1>3. Put(q, v) = IF Len(added) > Size THEN Tail(added) ELSE added
  BY DEF Put
<1> HIDE DEF w, e
<1>4. /\ added \in Seq(Entry) /\ Len(added) = Len(w) + 1 /\ added[Len(w) + 1] = e
      /\ \A j \in 1..Len(w) : added[j] = w[j]
  BY <1>1, <1>2
<1> HIDE DEF added
<1>5. Unique(added)
  BY <1>1, <1>2, <1>4 DEF Unique
<1>6. \A j \in 1..Len(added) : added[j] = e \/ \E i \in 1..Len(lru) : added[j] = lru[i]
  BY <1>1, <1>4 DEF Within
<1>7. CASE Len(added) > Size
  <2>1. /\ Tail(added) \in Seq(Entry) /\ Len(Tail(added)) = Len(w)
        /\ \A j \in 1..Len(w) : Tail(added)[j] = added[j + 1]
    BY <1>1, <1>4
  <2>2. Unique(Tail(added))
    BY <1>1, <1>4, <1>5, <2>1 DEF Unique
  <2>3. Put(q, v) = Tail(added) /\ Len(w) <= Size
    <3>1. Len(w) \in Nat /\ Len(lru) \in Nat /\ Size \in Nat
      BY <1>1, Constants
    <3> QED BY <1>1, <1>3, <1>7, <3>1
  <2>4. \A j \in 1..Len(w) : added[j + 1] = e \/ \E i \in 1..Len(lru) : added[j + 1] = lru[i]
    BY <1>1, <1>4, <1>6
  <2>5. \A j \in 1..Len(w) : Tail(added)[j] = e \/ \E i \in 1..Len(lru) : Tail(added)[j] = lru[i]
    BY <2>1, <2>4
  <2> QED BY <2>1, <2>2, <2>3, <2>5 DEF e
<1>8. CASE ~(Len(added) > Size)
  BY <1>1, <1>3, <1>4, <1>5, <1>6, <1>8, Constants DEF e
<1> QED BY <1>7, <1>8

-----------------------------------------------------------------------------
(***************************************************************************)
(* What a step that leaves some variables alone keeps.                     *)
(***************************************************************************)
NotFreshOK == \A s \in Searches : pc[s] = "load" => ~Fresh(query(s))

\* s goes on from one line to another.
Moves(s, label) == pc[s] # "idle" /\ label \in Labels \ {"idle"} /\ Goto(s, label)

LEMMA LruKept ==
  ASSUME LruOK, UNCHANGED lru
  PROVE  LruOK'
  BY DEF LruOK, Unique

LEMMA FacetKept ==
  ASSUME FacetOK, UNCHANGED <<now, appeared, facet, asking>>
  PROVE  FacetOK'
  BY DEF FacetOK

LEMMA OwnersKept ==
  ASSUME Typed, OwnersOK, NEW s \in Searches, NEW label, Moves(s, label),
         label = "facet" <=> pc[s] = "facet",
         label \in {"check", "load", "land"} <=> Loading(s),
         UNCHANGED <<asking, flight, body>>
  PROVE  OwnersOK'
<1>1. \A r \in Searches : (Loading(r)' <=> Loading(r)) /\ query(r)' = query(r) /\ (Busy(r)' <=> Busy(r))
  BY DEF Typed, Moves, Goto, Loading, query, Busy
<1>2. \A r \in Searches : pc'[r] = "facet" <=> pc[r] = "facet"
  BY DEF Typed, Moves, Goto
<1>3. \A q \in Queries : flight[q] # None => flight[q] \in Searches
  BY DEF Typed
<1> QED BY <1>1, <1>2, <1>3 DEF OwnersOK

LEMMA MimeKept ==
  ASSUME \A s \in Searches : MimeOK(s), UNCHANGED <<appeared, body, began, mimeIn>>,
         \A s \in Searches : pc'[s] = pc[s] \/ (/\ pc[s] \notin {"idle", "mime", "facet", "done", "failed"}
                                                /\ pc'[s] \notin {"mime", "facet"})
  PROVE  \A s \in Searches : MimeOK(s)'
  BY DEF MimeOK

LEMMA EmbKept ==
  ASSUME \A r \in Searches : EmbOK(r), Typed, NEW s \in Searches, NEW label, Moves(s, label),
         label # "land", UNCHANGED <<now, began, emb>>
  PROVE  \A r \in Searches : EmbOK(r)'
  BY DEF EmbOK, Typed, Moves, Goto

LEMMA NotFreshKept ==
  ASSUME NotFreshOK, Typed, NEW s \in Searches, NEW label, Moves(s, label), label # "load",
         UNCHANGED <<now, lru, body>>
  PROVE  NotFreshOK'
<1>1. \A q : Fresh(q)' <=> Fresh(q)
  BY DEF Fresh, At
<1> QED BY <1>1 DEF NotFreshOK, Typed, Moves, Goto, query

-----------------------------------------------------------------------------
(***************************************************************************)
(* The invariant is inductive: one lemma per action.                       *)
(***************************************************************************)
LEMMA InitInv == Init => IInv
<1> SUFFICES ASSUME Init PROVE IInv
  OBVIOUS
<1>1. Typed
  BY Constants DEF Init, Typed, Labels, Times
<1>2. LruOK
  BY Constants DEF Init, LruOK, Unique
<1>3. OwnersOK
  BY DEF Init, OwnersOK, Loading, Busy
<1>4. FacetOK
  BY DEF Init, FacetOK
<1>5. \A s \in Searches : MimeOK(s) /\ EmbOK(s)
  BY DEF Init, MimeOK, EmbOK
<1>6. NotFreshOK
  BY DEF Init, NotFreshOK
<1> QED BY <1>1, <1>2, <1>3, <1>4, <1>5, <1>6 DEF IInv, NotFreshOK

\* A filter that came of known mimes has all of those that appeared long enough ago.
LEMMA ExpandKnown ==
  ASSUME Typed, NEW s \in Searches, pc[s] \in {"mime", "facet"}, MimeOK(s), NEW known \in SUBSET Mimes,
         began[s] <= now, Expand(s, known), UNCHANGED <<appeared, body, began>>,
         \A m \in Mimes \ known : appeared[m] # None => appeared[m] + MimeTTL > now
  PROVE  /\ \E label \in {"embed", "done"} : Moves(s, label)
         /\ mimeIn' \in [Searches -> SUBSET (Mimes \cup MimePrefixes)]
         /\ MimeOK(s)'
<1> DEFINE mimes == expandMimePrefixes(body[s].mimes, known)
<1>1. \E label \in {"embed", "done"} : Moves(s, label)
  BY DEF Expand, Moves, Goto, Labels
<1>2. mimes \in SUBSET Mimes
  BY DEF expandMimePrefixes
<1>3. mimeIn' = [mimeIn EXCEPT ![s] = mimes]
  BY DEF Expand
<1>4. pc'[s] \in {"embed", "done"}
  BY <1>1 DEF Moves, Goto, Typed
<1>5. ASSUME NEW m \in expandMimePrefixes(body[s].mimes, Mimes),
             appeared[m] # None, appeared[m] + MimeTTL <= began[s]
      PROVE  m \in mimes
  <2>1. m \in Mimes
    BY DEF expandMimePrefixes
  <2>2. appeared[m] \in Times /\ began[s] \in Times /\ now \in Times
    BY <1>5, <2>1 DEF Typed
  <2>3. m \in known
    BY <1>5, <2>1, <2>2, Constants DEF Times
  <2> QED BY <2>3 DEF expandMimePrefixes
<1>8. body[s].mimes # {} /\ mimes \subseteq expandMimePrefixes(body[s].mimes, Mimes)
  BY DEF MimeOK, hasMimePrefixEntries, expandMimePrefixes
<1>9. pc'[s] = "embed" => mimes # {}
  BY DEF Expand, Goto, Typed
<1> HIDE DEF mimes
<1>6. mimeIn' \in [Searches -> SUBSET (Mimes \cup MimePrefixes)] /\ mimeIn'[s] = mimes
  BY <1>2, <1>3 DEF Typed
<1>7. MimeOK(s)'
  BY <1>4, <1>5, <1>6, <1>8, <1>9 DEF MimeOK
<1> QED BY <1>1, <1>6, <1>7

LEMMA KnownCachedInv ==
  ASSUME IInv, NEW s \in Searches, KnownCached(s)
  PROVE  IInv'
<1> USE DEF IInv
<1>1. /\ facet \in [values : SUBSET Mimes, exp : Nat] /\ now < facet.exp
      /\ Expand(s, facet.values) /\ pc[s] = "mime" /\ asking = None
  BY DEF KnownCached, FacetFresh, Typed
<1>2. \A m \in Mimes \ facet.values : appeared[m] # None => appeared[m] + MimeTTL > now
  <2> SUFFICES ASSUME NEW m \in Mimes \ facet.values, appeared[m] # None
               PROVE  appeared[m] + MimeTTL > now
    OBVIOUS
  <2>1. appeared[m] + MimeTTL >= facet.exp /\ appeared[m] \in Times /\ now \in Times
    BY <1>1, NoneIsNothing DEF FacetOK, Typed, KnownCached, FacetFresh
  <2> QED BY <1>1, <2>1, Constants DEF Times
<1>3. /\ \E label \in {"embed", "done"} : Moves(s, label)
      /\ mimeIn' \in [Searches -> SUBSET (Mimes \cup MimePrefixes)]
      /\ MimeOK(s)'
  BY <1>1, <1>2, ExpandKnown DEF KnownCached, EmbOK
<1>4. PICK label \in {"embed", "done"} : Moves(s, label)
  BY <1>3
<1>5. Typed'
  BY <1>3, <1>4 DEF Typed, KnownCached, cache, Moves, Goto, Labels
<1>6. LruOK' /\ FacetOK'
  BY LruKept, FacetKept DEF KnownCached, cache
<1>7. OwnersOK'
  BY <1>1, <1>4, OwnersKept DEF KnownCached, cache, Loading
<1>8. \A r \in Searches \ {s} : MimeOK(r)'
  BY <1>4 DEF MimeOK, Typed, KnownCached, Expand, Moves, Goto
<1>9. (\A r \in Searches : EmbOK(r)') /\ NotFreshOK'
  BY <1>4, EmbKept, NotFreshKept DEF KnownCached, cache, NotFreshOK
<1> QED BY <1>3, <1>5, <1>6, <1>7, <1>8, <1>9 DEF NotFreshOK


LEMMA AskFacetInv ==
  ASSUME IInv, NEW s \in Searches, AskFacet(s)
  PROVE  IInv'
<1> USE DEF IInv
<1>1. /\ Moves(s, "facet") /\ pc[s] = "mime" /\ asking = None
      /\ asking' = [by |-> s, saw |-> collection]
      /\ UNCHANGED <<now, appeared, facet, lru, flight, own>>
  BY DEF AskFacet, Moves, Labels
<1>2. collection \in SUBSET Mimes
  BY DEF collection
<1>3. asking' \in [by : Searches, saw : SUBSET Mimes] /\ asking' # None
  BY <1>1, <1>2, NoneIsNothing
<1>4. Typed'
  BY <1>1, <1>3 DEF Typed, own, Moves, Goto
<1>5. LruOK'
  BY <1>1, LruKept
<1>6. OwnersOK'
  <2>1. \A r \in Searches : (Loading(r)' <=> Loading(r)) /\ query(r)' = query(r) /\ (Busy(r)' <=> Busy(r))
    BY <1>1 DEF Typed, Moves, Goto, Loading, query, Busy, own
  <2>2. \A r \in Searches : pc'[r] = "facet" <=> r = s
    BY <1>1 DEF Typed, Moves, Goto, OwnersOK
  <2>3. \A q \in Queries : flight[q] # None => flight[q] \in Searches
    BY DEF Typed
  <2> QED BY <1>1, <1>3, <2>1, <2>2, <2>3 DEF OwnersOK, own
<1>7. FacetOK'
  BY <1>1 DEF FacetOK, collection
<1>8. (\A r \in Searches : EmbOK(r)') /\ NotFreshOK'
  BY <1>1, EmbKept, NotFreshKept DEF own, NotFreshOK
<1>9. \A r \in Searches : MimeOK(r)'
  BY <1>1 DEF MimeOK, Typed, Moves, Goto, own
<1> QED BY <1>4, <1>5, <1>6, <1>7, <1>8, <1>9 DEF NotFreshOK

\* The mutex is unlocked and the search goes on, with or without an answer.
LEMMA UnlockOwners ==
  ASSUME Typed, OwnersOK, NEW s \in Searches, NEW label \in {"embed", "done"}, Moves(s, label),
         pc[s] = "facet", asking' = None, UNCHANGED <<flight, body>>
  PROVE  OwnersOK'
<1>1. \A r \in Searches : (Loading(r)' <=> Loading(r)) /\ query(r)' = query(r) /\ (Busy(r)' <=> Busy(r))
  BY DEF Typed, Moves, Goto, Loading, query, Busy
<1>2. \A r \in Searches : pc'[r] # "facet"
  BY DEF Typed, Moves, Goto, OwnersOK
<1>3. \A q \in Queries : flight[q] # None => flight[q] \in Searches
  BY DEF Typed
<1> QED BY <1>1, <1>2, <1>3 DEF OwnersOK

LEMMA FacetAnswerInv ==
  ASSUME IInv, NEW s \in Searches, FacetAnswer(s)
  PROVE  IInv'
<1> USE DEF IInv
<1>1. /\ pc[s] = "facet" /\ asking # None /\ asking \in [by : Searches, saw : SUBSET Mimes]
      /\ facet' = [values |-> asking.saw, exp |-> now + MimeTTL] /\ asking' = None
      /\ Expand(s, asking.saw)
      /\ UNCHANGED <<now, appeared, lru, flight, body, began, emb, answer>>
  BY DEF FacetAnswer, OwnersOK, Typed
<1>2. \A m \in Mimes \ asking.saw :
        appeared[m] # None => appeared[m] >= now /\ appeared[m] + MimeTTL >= now + MimeTTL
                              /\ appeared[m] + MimeTTL > now
  <2> SUFFICES ASSUME NEW m \in Mimes \ asking.saw, appeared[m] # None
               PROVE  appeared[m] >= now /\ appeared[m] + MimeTTL >= now + MimeTTL
                      /\ appeared[m] + MimeTTL > now
    OBVIOUS
  <2>1. appeared[m] >= now /\ appeared[m] \in Times /\ now \in Times
    BY <1>1 DEF FacetOK, Typed
  <2> QED BY <2>1, Constants DEF Times
<1>3. /\ \E label \in {"embed", "done"} : Moves(s, label)
      /\ mimeIn' \in [Searches -> SUBSET (Mimes \cup MimePrefixes)]
      /\ MimeOK(s)'
  BY <1>1, <1>2, ExpandKnown DEF EmbOK
<1>4. PICK label \in {"embed", "done"} : Moves(s, label)
  BY <1>3
<1>5. now + MimeTTL \in Nat
  BY Constants DEF Typed, Times
<1>6. facet' \in [values : SUBSET Mimes, exp : Nat]
  BY <1>1, <1>5
<1>7. Typed'
  BY <1>1, <1>3, <1>4, <1>6 DEF Typed, Moves, Goto
<1>8. LruOK' /\ OwnersOK'
  BY <1>1, <1>4, LruKept, UnlockOwners
<1>9. FacetOK'
  BY <1>1, <1>2, <1>5 DEF FacetOK
<1>10. \A r \in Searches \ {s} : MimeOK(r)'
  BY <1>1, <1>4 DEF MimeOK, Typed, Expand, Moves, Goto
<1>11. (\A r \in Searches : EmbOK(r)') /\ NotFreshOK'
  BY <1>1, <1>4, EmbKept, NotFreshKept DEF NotFreshOK
<1> QED BY <1>3, <1>7, <1>8, <1>9, <1>10, <1>11 DEF NotFreshOK

LEMMA FacetErrorInv ==
  ASSUME IInv, NEW s \in Searches, FacetError(s)
  PROVE  IInv'
<1> USE DEF IInv
<1>1. /\ pc[s] = "facet" /\ asking' = None /\ Moves(s, "embed")
      /\ mimeIn' = [mimeIn EXCEPT ![s] = body[s].mimes]
      /\ UNCHANGED <<now, appeared, facet, lru, flight, body, began, emb, answer>>
  BY DEF FacetError, Moves, Labels
<1>2. hasMimePrefixEntries(body[s].mimes) /\ body[s] \in Bodies
  BY <1>1 DEF MimeOK, OwnersOK, Busy, Typed
<1>3. body[s].mimes \in SUBSET (Mimes \cup MimePrefixes)
  BY <1>2, Constants
<1>4. mimeIn' \in [Searches -> SUBSET (Mimes \cup MimePrefixes)] /\ mimeIn'[s] = body[s].mimes
  BY <1>1, <1>3 DEF Typed
<1>5. Typed'
  BY <1>1, <1>4 DEF Typed, Moves, Goto
<1>6. LruOK' /\ OwnersOK'
  BY <1>1, LruKept, UnlockOwners
<1>7. FacetOK'
  BY <1>1 DEF FacetOK
<1>8. MimeOK(s)'
  <2>1. body[s].mimes # {} /\ body[s].mimes \cap Mimes \subseteq expandMimePrefixes(body[s].mimes, Mimes)
    BY <1>2 DEF hasMimePrefixEntries, expandMimePrefixes
  <2> QED BY <1>1, <1>2, <1>4, <2>1 DEF MimeOK, Typed, Moves, Goto
<1>9. \A r \in Searches \ {s} : MimeOK(r)'
  BY <1>1 DEF MimeOK, Typed, Moves, Goto
<1>10. (\A r \in Searches : EmbOK(r)') /\ NotFreshOK'
  BY <1>1, EmbKept, NotFreshKept DEF NotFreshOK
<1> QED BY <1>5, <1>6, <1>7, <1>8, <1>9, <1>10 DEF NotFreshOK

\* Join, the two outcomes of Qdrant: the search goes on and nothing else happens, but that an
\* answer is kept.
LEMMA PassInv ==
  ASSUME IInv, NEW s \in Searches, NEW label \in {"wait", "done", "failed"}, Moves(s, label),
         pc[s] \in {"do", "query"}, answer' \in [Searches -> SUBSET Points],
         UNCHANGED <<now, appeared, cache, body, began, mimeIn, emb>>
  PROVE  IInv'
<1> USE DEF IInv
<1>1. Typed'
  BY DEF Typed, Moves, Goto, cache
<1>2. LruOK' /\ FacetOK'
  BY LruKept, FacetKept DEF cache
<1>3. OwnersOK'
  BY OwnersKept DEF cache, Loading
<1>4. \A r \in Searches : MimeOK(r)'
  BY MimeKept DEF Typed, Moves, Goto
<1>5. (\A r \in Searches : EmbOK(r)') /\ NotFreshOK'
  BY EmbKept, NotFreshKept DEF NotFreshOK, cache
<1> QED BY <1>1, <1>2, <1>3, <1>4, <1>5 DEF NotFreshOK

\* A Get makes nothing fresh, and a hit is no failure and young.
LEMMA TryFacts ==
  ASSUME IInv, NEW s \in Searches, NEW hit \in Labels \ {"idle"}, NEW miss \in Labels \ {"idle"},
         pc[s] # "idle", TryCache(s, hit, miss), UNCHANGED now
  PROVE  /\ LruOK' /\ \A q : Fresh(q)' => Fresh(q)
         /\ emb' \in [Searches -> Embeddings \cup {None}]
         /\ \/ /\ Moves(s, hit) /\ emb' = [emb EXCEPT ![s] = emb'[s]] /\ emb'[s] \in Embeddings
               /\ emb'[s].ok /\ now <= emb'[s].at + TTL
            \/ Moves(s, miss) /\ emb' = emb /\ ~Fresh(query(s))
<1> USE DEF IInv
<1> DEFINE q == query(s)
<1>1. lru \in Seq(Entry) /\ Unique(lru) /\ lru' = Touch(q)
  BY DEF LruOK, TryCache
<1>2. lru' \in Seq(Entry) /\ Unique(lru') /\ Within(lru', lru) /\ Len(lru') = Len(lru)
  BY <1>1, TouchFacts
<1>3. LruOK'
  BY <1>2 DEF LruOK, Within, Unique
<1>4. ASSUME NEW r, Fresh(r)' PROVE Fresh(r)
  <2>1. PICK j \in 1..Len(lru') : lru'[j].key = r /\ now <= lru'[j].exp
    BY <1>4 DEF Fresh, At
  <2>2. PICK k \in 1..Len(lru) : lru'[j] = lru[k]
    BY <1>2, <2>1 DEF Within
  <2> QED BY <2>1, <2>2 DEF Fresh, At
<1>5. CASE Fresh(q)
  <2>1. PICK k \in 1..Len(lru) : Last(Touch(q)) = lru[k] /\ now <= lru[k].exp
    BY <1>1, <1>5, TouchHit
  <2>2. emb' = [emb EXCEPT ![s] = lru[k].val] /\ Moves(s, hit)
    BY <1>1, <1>5, <2>1 DEF TryCache, Moves
  <2>3. lru[k] \in Entry /\ lru[k].exp = lru[k].val.at + TTL /\ lru[k].val.ok
    BY <2>1 DEF LruOK
  <2>4. lru[k].val \in Embeddings
    BY <2>3 DEF Entry
  <2>5. emb'[s] = lru[k].val /\ emb' \in [Searches -> Embeddings \cup {None}]
    BY <2>2, <2>4 DEF Typed
  <2> QED BY <1>3, <1>4, <2>1, <2>2, <2>3, <2>4, <2>5
<1>6. CASE ~Fresh(q)
  BY <1>3, <1>4, <1>6 DEF TryCache, Moves, Typed
<1> QED BY <1>5, <1>6

LEMMA GetInv ==
  ASSUME IInv, NEW s \in Searches, Get(s)
  PROVE  IInv'
<1> USE DEF IInv
<1>1. /\ pc[s] = "embed" /\ TryCache(s, "query", "do")
      /\ UNCHANGED <<now, appeared, facet, asking, flight, body, began, mimeIn, answer>>
  BY DEF Get
<1>2. /\ LruOK' /\ \A q : Fresh(q)' => Fresh(q)
      /\ emb' \in [Searches -> Embeddings \cup {None}]
      /\ \/ /\ Moves(s, "query") /\ emb' = [emb EXCEPT ![s] = emb'[s]] /\ emb'[s] \in Embeddings
            /\ emb'[s].ok /\ now <= emb'[s].at + TTL
         \/ Moves(s, "do") /\ emb' = emb
  BY <1>1, TryFacts DEF Labels
<1>3. PICK label \in {"query", "do"} : Moves(s, label)
  BY <1>2
<1>4. Typed'
  BY <1>1, <1>2, <1>3 DEF Typed, Moves, Goto
<1>5. OwnersOK' /\ FacetOK'
  BY <1>1, <1>3, OwnersKept, FacetKept DEF Loading
<1>6. \A r \in Searches : MimeOK(r)'
  BY <1>1, <1>3, MimeKept DEF Typed, Moves, Goto
<1>7. ASSUME emb' = emb
      PROVE  \A r \in Searches : EmbOK(r)'
  BY <1>1, <1>3, <1>7, EmbKept
<1>8. ASSUME emb' = [emb EXCEPT ![s] = emb'[s]], emb'[s] \in Embeddings,
             emb'[s].ok, now <= emb'[s].at + TTL
      PROVE  \A r \in Searches : EmbOK(r)'
  <2>1. pc' = [pc EXCEPT ![s] = label] /\ label \notin {"idle", "land"}
    BY <1>3 DEF Moves, Goto
  <2>2. \A r \in Searches \ {s} : EmbOK(r)'
    BY <1>1, <1>8, <2>1 DEF EmbOK, Typed
  <2>3. began[s] \in Int /\ now \in Int /\ emb'[s].at \in Int /\ began[s] <= now
    BY <1>8, Constants DEF Typed, EmbOK, Embeddings, Times
  <2>4. began[s] <= emb'[s].at + TTL
    BY <1>8, <2>3, Constants
  <2>5. EmbOK(s)'
    BY <1>1, <1>8, <2>1, <2>3, <2>4 DEF EmbOK, Typed
  <2> QED BY <2>2, <2>5
<1>9. \A r \in Searches : EmbOK(r)'
  BY <1>2, <1>7, <1>8
<1>10. NotFreshOK'
  BY <1>1, <1>2, <1>3 DEF NotFreshOK, Typed, Moves, Goto, query
<1> QED BY <1>2, <1>4, <1>5, <1>6, <1>9, <1>10 DEF NotFreshOK

LEMMA CheckInv ==
  ASSUME IInv, NEW s \in Searches, Check(s)
  PROVE  IInv'
<1> USE DEF IInv
<1>1. /\ pc[s] = "check" /\ TryCache(s, "land", "load")
      /\ UNCHANGED <<now, appeared, facet, asking, flight, body, began, mimeIn, answer>>
  BY DEF Check
<1>2. /\ LruOK' /\ \A q : Fresh(q)' => Fresh(q)
      /\ emb' \in [Searches -> Embeddings \cup {None}]
      /\ \/ /\ Moves(s, "land") /\ emb' = [emb EXCEPT ![s] = emb'[s]] /\ emb'[s] \in Embeddings
            /\ emb'[s].ok /\ now <= emb'[s].at + TTL
         \/ Moves(s, "load") /\ emb' = emb /\ ~Fresh(query(s))
  BY <1>1, TryFacts DEF Labels
<1>3. PICK label \in {"land", "load"} : Moves(s, label) /\ (label = "load" => ~Fresh(query(s)))
  BY <1>2
<1>4. Typed'
  BY <1>1, <1>2, <1>3 DEF Typed, Moves, Goto
<1>5. OwnersOK' /\ FacetOK'
  BY <1>1, <1>3, OwnersKept, FacetKept DEF Loading
<1>6. \A r \in Searches : MimeOK(r)'
  BY <1>1, <1>3, MimeKept DEF Typed, Moves, Goto
<1>7. ASSUME Moves(s, "load"), emb' = emb
      PROVE  \A r \in Searches : EmbOK(r)'
  BY <1>1, <1>7, EmbKept
<1>8. ASSUME Moves(s, "land"), emb' = [emb EXCEPT ![s] = emb'[s]], emb'[s] \in Embeddings,
             emb'[s].ok, now <= emb'[s].at + TTL
      PROVE  \A r \in Searches : EmbOK(r)'
  <2>1. pc' = [pc EXCEPT ![s] = "land"]
    BY <1>8 DEF Moves, Goto
  <2>2. \A r \in Searches \ {s} : EmbOK(r)'
    BY <1>1, <1>8, <2>1 DEF EmbOK, Typed
  <2>3. began[s] \in Int /\ now \in Int /\ emb'[s].at \in Int /\ began[s] <= now
    BY <1>8, Constants DEF Typed, EmbOK, Embeddings, Times
  <2>4. began[s] <= emb'[s].at + TTL
    BY <1>8, <2>3, Constants
  <2>5. EmbOK(s)'
    BY <1>1, <1>8, <2>1, <2>3, <2>4, NoneIsNothing DEF EmbOK, Typed
  <2> QED BY <2>2, <2>5
<1>9. \A r \in Searches : EmbOK(r)'
  BY <1>2, <1>7, <1>8
<1>10. NotFreshOK'
  BY <1>1, <1>2, <1>3 DEF NotFreshOK, Typed, Moves, Goto, query
<1> QED BY <1>2, <1>4, <1>5, <1>6, <1>9, <1>10 DEF NotFreshOK

LEMMA LeadInv ==
  ASSUME IInv, NEW s \in Searches, Lead(s)
  PROVE  IInv'
<1> USE DEF IInv
<1>1. /\ pc[s] = "do" /\ flight[query(s)] = None /\ Moves(s, "check")
      /\ flight' = [flight EXCEPT ![query(s)] = s]
      /\ UNCHANGED <<now, appeared, facet, asking, lru, own>>
  BY DEF Lead, Moves, Labels
<1>2. body[s] \in Bodies /\ query(s) \in Queries
  BY <1>1, Constants DEF OwnersOK, Busy, Typed, query
<1>3. Typed'
  BY <1>1, <1>2 DEF Typed, own, Moves, Goto
<1>4. LruOK' /\ FacetOK'
  BY <1>1, LruKept, FacetKept
<1>5. OwnersOK'
  <2>1. \A r \in Searches : /\ Loading(r)' <=> (Loading(r) \/ r = s)
                            /\ query(r)' = query(r) /\ (Busy(r)' <=> Busy(r))
                            /\ pc'[r] = "facet" <=> pc[r] = "facet"
    BY <1>1 DEF Typed, Moves, Goto, Loading, query, Busy, own
  <2>2. \A q \in Queries : flight'[q] = IF q = query(s) THEN s ELSE flight[q]
    BY <1>1, <1>2 DEF Typed
  <2>3. \A q \in Queries : flight[q] # None => flight[q] \in Searches
    BY DEF Typed
  <2>4. \A r \in Searches : Loading(r) => query(r) \in Queries /\ query(r) # query(s)
    BY <1>1, <1>2, Constants DEF OwnersOK, Typed, query, Busy, Loading
  <2>5. \A r \in Searches : Loading(r)' => flight'[query(r)'] = r
    BY <1>2, <2>1, <2>2, <2>4 DEF OwnersOK
  <2>6. ASSUME NEW q \in Queries, flight'[q] # None
        PROVE  pc'[flight'[q]] \in {"check", "load", "land"} /\ body'[flight'[q]].query = q
    <3>1. CASE q = query(s)
      <4>1. pc'[s] = "check" /\ body'[s].query = q /\ flight'[q] = s
        BY <1>1, <2>2, <3>1 DEF Typed, Moves, Goto, query, own
      <4> QED BY <4>1
    <3>2. CASE q # query(s)
      <4>1. flight[q] \in Searches /\ flight'[q] = flight[q]
        BY <2>2, <2>3, <2>6, <3>2
      <4>2. Loading(flight[q]) /\ query(flight[q]) = q
        BY <2>6, <4>1 DEF OwnersOK
      <4> QED BY <1>1, <4>1, <4>2 DEF Loading, query, Typed, Moves, Goto, own
    <3> QED BY <3>1, <3>2
  <2>7. \A r \in Searches : pc'[r] = "facet" <=> asking' # None /\ asking'.by = r
    BY <1>1, <2>1 DEF OwnersOK
  <2>8. \A r \in Searches : (Busy(r) <=> body[r] # None)'
    BY <1>1, <2>1 DEF OwnersOK, own
  <2> QED BY <2>5, <2>6, <2>7, <2>8 DEF OwnersOK, Loading, query
<1>6. \A r \in Searches : MimeOK(r)'
  BY <1>1, MimeKept DEF Typed, Moves, Goto, own
<1>7. (\A r \in Searches : EmbOK(r)') /\ NotFreshOK'
  BY <1>1, EmbKept, NotFreshKept DEF NotFreshOK, own
<1> QED BY <1>3, <1>4, <1>5, <1>6, <1>7 DEF NotFreshOK

\* Two searches that load have different queries: each leads the flight of its own.
LEMMA OneLoader ==
  ASSUME Typed, OwnersOK, NEW r \in Searches, NEW s \in Searches, Loading(r), Loading(s),
         query(r) = query(s)
  PROVE  r = s
  BY DEF OwnersOK

LEMMA GivenNow ==
  ASSUME Typed, NEW b \in BOOLEAN
  PROVE  [ok |-> b, at |-> now] \in Embeddings /\ [ok |-> b, at |-> now] # None /\ now \in Nat
<1>1. [ok |-> b, at |-> now] \in Embeddings
  BY DEF Typed, Embeddings
<1>2. now \in Nat
  BY Constants DEF Typed, Times
<1> QED BY <1>1, <1>2, NoneIsNothing

LEMMA LoadedInv ==
  ASSUME IInv, NEW s \in Searches, Loaded(s)
  PROVE  IInv'
<1> USE DEF IInv
<1> DEFINE v == [ok |-> TRUE, at |-> now]
           q == query(s)
<1>1. /\ pc[s] = "load" /\ Moves(s, "land") /\ emb' = [emb EXCEPT ![s] = v]
      /\ UNCHANGED <<now, appeared, facet, asking, flight, body, began, mimeIn, answer>>
  BY DEF Loaded, Moves, Labels
<1>2. v \in Embeddings /\ v # None /\ now \in Nat
  BY GivenNow
<1>3. emb'[s] = v /\ lru' = Put(q, v)
  BY <1>1 DEF Loaded, Typed
<1>4. q \in Queries
  BY <1>1, Constants DEF OwnersOK, Busy, Typed, query
<1>5. /\ lru' \in Seq(Entry) /\ Unique(lru') /\ Len(lru') <= Size
      /\ \A j \in 1..Len(lru') : \/ lru'[j] = [key |-> q, val |-> v, exp |-> now + TTL]
                                 \/ \E i \in 1..Len(lru) : lru'[j] = lru[i]
  <2>1. lru \in Seq(Entry) /\ Unique(lru) /\ Len(lru) <= Size
    BY DEF LruOK
  <2> HIDE DEF v, q, IInv
  <2> QED BY <1>2, <1>3, <1>4, <2>1, PutFacts
<1>6. LruOK'
  BY <1>5 DEF LruOK, Unique
<1>7. Typed'
  BY <1>1, <1>2 DEF Typed, Moves, Goto
<1>8. OwnersOK' /\ FacetOK'
  BY <1>1, OwnersKept, FacetKept DEF Loading
<1>9. \A r \in Searches : MimeOK(r)'
  BY <1>1, MimeKept DEF Typed, Moves, Goto
<1>10. \A r \in Searches \ {s} : EmbOK(r)'
  BY <1>1 DEF EmbOK, Typed, Moves, Goto
<1>11. EmbOK(s)'
  <2>1. began[s] <= now /\ now <= now + TTL /\ began[s] <= now + TTL
    BY <1>2, Constants DEF EmbOK, Typed, Times
  <2> QED BY <1>1, <1>2, <1>3, <2>1 DEF EmbOK, Typed, Moves, Goto
<1>12. ASSUME NEW r \in Searches, pc'[r] = "load"
       PROVE  ~Fresh(query(r))'
  <2>1. r # s /\ pc[r] = "load" /\ query(r)' = query(r)
    BY <1>1, <1>12 DEF Typed, Moves, Goto, query
  <2>2. query(r) # q /\ ~Fresh(query(r))
    BY <1>1, <2>1, OneLoader DEF Loading
  <2>3. \A j \in 1..Len(lru') : lru'[j].key = query(r) => ~(now <= lru'[j].exp)
    BY <1>5, <2>2 DEF Fresh, At
  <2> QED BY <1>1, <2>1, <2>3 DEF Fresh, At
<1> QED BY <1>6, <1>7, <1>8, <1>9, <1>10, <1>11, <1>12 DEF NotFreshOK

LEMMA LoadErrorInv ==
  ASSUME IInv, NEW s \in Searches, LoadError(s)
  PROVE  IInv'
<1> USE DEF IInv
<1> DEFINE v == [ok |-> FALSE, at |-> now]
<1>1. /\ pc[s] = "load" /\ Moves(s, "land") /\ emb' = [emb EXCEPT ![s] = v]
      /\ UNCHANGED <<now, appeared, cache, body, began, mimeIn, answer>>
  BY DEF LoadError, Moves, Labels
<1>2. v \in Embeddings /\ v # None /\ now \in Nat
  BY GivenNow
<1>3. emb'[s] = v
  BY <1>1 DEF Typed
<1>4. Typed'
  BY <1>1, <1>2 DEF Typed, Moves, Goto, cache
<1>5. LruOK' /\ OwnersOK' /\ FacetOK'
  BY <1>1, LruKept, OwnersKept, FacetKept DEF Loading, cache
<1>6. \A r \in Searches : MimeOK(r)'
  BY <1>1, MimeKept DEF Typed, Moves, Goto
<1>7. \A r \in Searches \ {s} : EmbOK(r)'
  BY <1>1 DEF EmbOK, Typed, Moves, Goto
<1>8. EmbOK(s)'
  <2>1. began[s] <= now /\ now <= now + TTL /\ began[s] <= now + TTL
    BY <1>2, Constants DEF EmbOK, Typed, Times
  <2> QED BY <1>1, <1>2, <1>3, <2>1 DEF EmbOK, Typed, Moves, Goto
<1>9. NotFreshOK'
  BY <1>1, NotFreshKept DEF NotFreshOK, cache
<1> QED BY <1>4, <1>5, <1>6, <1>7, <1>8, <1>9 DEF NotFreshOK

LEMMA LandInv ==
  ASSUME IInv, NEW s \in Searches, Land(s)
  PROVE  IInv'
<1> USE DEF IInv
<1> DEFINE aboard(r) == r = s \/ (pc[r] = "wait" /\ query(r) = query(s))
<1>1. /\ pc[s] = "land" /\ flight' = [flight EXCEPT ![query(s)] = None]
      /\ emb' = [r \in Searches |-> IF aboard(r) THEN emb[s] ELSE emb[r]]
      /\ pc' = [r \in Searches |->
                  IF aboard(r) THEN IF emb[s].ok THEN "query" ELSE "failed" ELSE pc[r]]
      /\ UNCHANGED <<now, appeared, facet, asking, lru, body, began, mimeIn, answer>>
  BY DEF Land
<1>2. body[s] \in Bodies /\ query(s) \in Queries
  BY <1>1, Constants DEF OwnersOK, Busy, Typed, query
<1>3. \A r \in Searches : aboard(r) => /\ pc[r] \in {"land", "wait"} /\ pc'[r] \in {"query", "failed"}
                                       /\ emb'[r] = emb[s]
  BY <1>1
<1>4. \A r \in Searches : ~aboard(r) => pc'[r] = pc[r] /\ emb'[r] = emb[r]
  BY <1>1
<1> HIDE DEF aboard
<1>5. Typed'
  <2>1. pc' \in [Searches -> Labels]
    BY <1>1, <1>3, <1>4 DEF Typed, Labels
  <2>2. emb' \in [Searches -> Embeddings \cup {None}]
    BY <1>1, <1>3, <1>4 DEF Typed
  <2>3. flight' \in [Queries -> Searches \cup {None}]
    BY <1>1 DEF Typed
  <2> QED BY <1>1, <2>1, <2>2, <2>3 DEF Typed
<1>6. LruOK' /\ FacetOK'
  BY <1>1, LruKept, FacetKept
<1>7. OwnersOK'
  <2>1. \A r \in Searches : /\ Loading(r)' <=> (Loading(r) /\ r # s)
                            /\ query(r)' = query(r) /\ (Busy(r)' <=> Busy(r))
                            /\ pc'[r] = "facet" <=> pc[r] = "facet"
    <3> SUFFICES ASSUME NEW r \in Searches
                 PROVE  /\ Loading(r)' <=> (Loading(r) /\ r # s)
                        /\ query(r)' = query(r) /\ (Busy(r)' <=> Busy(r))
                        /\ pc'[r] = "facet" <=> pc[r] = "facet"
      OBVIOUS
    <3>1. CASE aboard(r)
      BY <1>1, <1>3, <3>1 DEF Loading, query, Busy, aboard
    <3>2. CASE ~aboard(r)
      BY <1>1, <1>4, <3>2 DEF Loading, query, Busy, aboard
    <3> QED BY <3>1, <3>2
  <2>2. \A q \in Queries : flight'[q] = IF q = query(s) THEN None ELSE flight[q]
    BY <1>1, <1>2 DEF Typed
  <2>3. \A r \in Searches : Loading(r) /\ r # s => query(r) \in Queries /\ query(r) # query(s)
    BY <1>1, OneLoader, Constants DEF OwnersOK, Typed, query, Busy, Loading
  <2>4. \A r \in Searches : Loading(r)' => flight'[query(r)'] = r
    BY <1>2, <2>1, <2>2, <2>3 DEF OwnersOK
  <2>5. ASSUME NEW q \in Queries, flight'[q] # None
        PROVE  pc'[flight'[q]] \in {"check", "load", "land"} /\ body'[flight'[q]].query = q
    <3>1. flight'[q] = flight[q] /\ q # query(s) /\ flight[q] \in Searches
      BY <2>2, <2>5 DEF Typed
    <3>2. Loading(flight[q]) /\ query(flight[q]) = q
      BY <2>5, <3>1 DEF OwnersOK
    <3>3. ~aboard(flight[q])
      BY <3>1, <3>2 DEF aboard
    <3> QED BY <1>1, <1>4, <3>1, <3>2, <3>3 DEF Loading, query
  <2>6. \A r \in Searches : pc'[r] = "facet" <=> asking' # None /\ asking'.by = r
    BY <1>1, <2>1 DEF OwnersOK
  <2>7. \A r \in Searches : (Busy(r) <=> body[r] # None)'
    BY <1>1, <2>1 DEF OwnersOK
  <2> QED BY <2>4, <2>5, <2>6, <2>7 DEF OwnersOK, Loading, query
<1>8. \A r \in Searches : MimeOK(r)'
  BY <1>1, <1>3, <1>4, MimeKept
<1>9. ASSUME NEW r \in Searches PROVE EmbOK(r)'
  <2>1. CASE ~aboard(r)
    BY <1>1, <1>4, <2>1 DEF EmbOK
  <2>2. CASE aboard(r)
    <3>1. /\ emb[s] # None /\ now <= emb[s].at + TTL /\ (~emb[s].ok => emb[s].at = now)
          /\ began[r] <= now
      BY <1>1 DEF EmbOK
    <3>2. emb[s] \in Embeddings /\ now \in Int /\ began[r] \in Int
      BY <3>1, Constants DEF Typed, Times
    <3>3. emb[s].at \in Int
      BY <3>2, Constants DEF Embeddings, Times
    <3>4. began[r] <= emb[s].at + TTL
      BY <3>1, <3>2, <3>3, Constants
    <3> QED BY <1>1, <1>3, <2>2, <3>1, <3>4 DEF EmbOK
  <2> QED BY <2>1, <2>2
<1>10. NotFreshOK'
  <2>1. \A q : Fresh(q)' <=> Fresh(q)
    BY <1>1 DEF Fresh, At
  <2>2. \A r \in Searches : pc'[r] = "load" => pc[r] = "load"
    BY <1>3, <1>4
  <2> QED BY <1>1, <2>1, <2>2 DEF NotFreshOK, query
<1> QED BY <1>5, <1>6, <1>7, <1>8, <1>9, <1>10 DEF NotFreshOK

LEMMA BeginInv ==
  ASSUME IInv, NEW s \in Searches, Begin(s)
  PROVE  IInv'
<1> USE DEF IInv
<1>1. PICK b \in Bodies :
        /\ body' = [body EXCEPT ![s] = b]
        /\ \/ hasMimePrefixEntries(b.mimes) /\ Goto(s, "mime") /\ mimeIn' = mimeIn
           \/ /\ ~hasMimePrefixEntries(b.mimes) /\ Goto(s, "embed")
              /\ mimeIn' = [mimeIn EXCEPT ![s] = b.mimes]
  BY DEF Begin
<1>2. /\ pc[s] = "idle" /\ began' = [began EXCEPT ![s] = now]
      /\ UNCHANGED <<now, appeared, facet, asking, lru, flight, emb, answer>>
  BY DEF Begin, Busy, cache
<1>3. PICK label \in {"mime", "embed"} : pc' = [pc EXCEPT ![s] = label]
  BY <1>1 DEF Goto
<1>4. b.mimes \in SUBSET (Mimes \cup MimePrefixes) /\ b # None
  BY Constants
<1>5. Typed'
  <2>1. mimeIn' \in [Searches -> SUBSET (Mimes \cup MimePrefixes)]
    BY <1>1, <1>4 DEF Typed
  <2> QED BY <1>1, <1>2, <1>3, <2>1 DEF Typed, Labels
<1>6. LruOK' /\ FacetOK'
  BY <1>2, LruKept, FacetKept
<1>7. OwnersOK'
  <2>1. \A r \in Searches : Loading(r) => r # s
    BY <1>2 DEF Loading
  <2>2. \A r \in Searches \ {s} : pc'[r] = pc[r] /\ body'[r] = body[r]
    BY <1>1, <1>3 DEF Typed
  <2>3. pc'[s] \in {"mime", "embed"} /\ body'[s] = b
    BY <1>1, <1>3 DEF Typed
  <2>4. \A r \in Searches : (pc[r] = "facet" <=> asking # None /\ asking.by = r)'
    BY <1>2, <2>2, <2>3 DEF OwnersOK
  <2>5. \A r \in Searches : (Busy(r) <=> body[r] # None)'
    BY <1>4, <2>2, <2>3 DEF OwnersOK, Busy
  <2>6. \A r \in Searches : (Loading(r) => flight[query(r)] = r)'
    BY <1>2, <2>2, <2>3 DEF OwnersOK, Loading, query
  <2>7. ASSUME NEW q \in Queries, flight[q] # None
        PROVE  pc'[flight[q]] \in {"check", "load", "land"} /\ body'[flight[q]].query = q
    BY <2>1, <2>2, <2>7 DEF OwnersOK, Typed, Loading, query
  <2> QED BY <1>2, <2>4, <2>5, <2>6, <2>7 DEF OwnersOK, Loading, query
<1>8. MimeOK(s)'
  <2>1. CASE hasMimePrefixEntries(b.mimes) /\ Goto(s, "mime")
    BY <1>1, <2>1 DEF MimeOK, Goto, Typed
  <2>2. CASE ~hasMimePrefixEntries(b.mimes) /\ Goto(s, "embed") /\ mimeIn' = [mimeIn EXCEPT ![s] = b.mimes]
    <3>1. mimeIn'[s] = b.mimes /\ pc'[s] = "embed" /\ body'[s] = b
      BY <1>1, <2>2 DEF Goto, Typed
    <3>2. expandMimePrefixes(b.mimes, Mimes) = b.mimes \cap Mimes
      BY <2>2 DEF expandMimePrefixes, hasMimePrefixEntries
    <3> QED BY <3>1, <3>2 DEF MimeOK
  <2> QED BY <1>1, <2>1, <2>2
<1>9. \A r \in Searches \ {s} : MimeOK(r)'
  BY <1>1, <1>2, <1>3 DEF MimeOK, Typed
<1>10. \A r \in Searches \ {s} : EmbOK(r)'
  BY <1>2, <1>3 DEF EmbOK, Typed
<1>11. EmbOK(s)'
  <2>1. now <= now
    BY Constants DEF Typed, Times
  <2> QED BY <1>2, <1>3, <2>1 DEF EmbOK, Typed
<1>12. NotFreshOK'
  <2>1. \A q : Fresh(q)' <=> Fresh(q)
    BY <1>2 DEF Fresh, At
  <2>2. \A r \in Searches : pc'[r] = "load" => pc[r] = "load" /\ body'[r] = body[r]
    BY <1>1, <1>3 DEF Typed
  <2> QED BY <2>1, <2>2 DEF NotFreshOK, query
<1> QED BY <1>5, <1>6, <1>7, <1>8, <1>9, <1>10, <1>11, <1>12 DEF NotFreshOK

LEMMA EndInv ==
  ASSUME IInv, NEW s \in Searches, End(s)
  PROVE  IInv'
<1> USE DEF IInv
<1>1. /\ pc[s] \in {"done", "failed"} /\ pc' = [pc EXCEPT ![s] = "idle"]
      /\ body' = [body EXCEPT ![s] = None] /\ began' = [began EXCEPT ![s] = 0]
      /\ mimeIn' = [mimeIn EXCEPT ![s] = {}] /\ emb' = [emb EXCEPT ![s] = None]
      /\ answer' = [answer EXCEPT ![s] = {}]
      /\ UNCHANGED <<now, appeared, facet, asking, lru, flight>>
  BY DEF End, Goto, cache
<1>2. Typed'
  BY <1>1, Constants DEF Typed, Labels, Times
<1>3. LruOK' /\ FacetOK'
  BY <1>1, LruKept, FacetKept
<1>4. \A r \in Searches \ {s} : pc'[r] = pc[r] /\ body'[r] = body[r]
  BY <1>1 DEF Typed
<1>5. pc'[s] = "idle" /\ body'[s] = None /\ emb'[s] = None
  BY <1>1 DEF Typed
<1>6. OwnersOK'
  <2>1. \A r \in Searches : Loading(r) => r # s
    BY <1>1 DEF Loading
  <2>2. \A r \in Searches : (pc[r] = "facet" <=> asking # None /\ asking.by = r)'
    BY <1>1, <1>4, <1>5 DEF OwnersOK
  <2>3. \A r \in Searches : (Busy(r) <=> body[r] # None)'
    BY <1>4, <1>5 DEF OwnersOK, Busy
  <2>4. \A r \in Searches : (Loading(r) => flight[query(r)] = r)'
    BY <1>1, <1>4, <1>5 DEF OwnersOK, Loading, query
  <2>5. ASSUME NEW q \in Queries, flight[q] # None
        PROVE  pc'[flight[q]] \in {"check", "load", "land"} /\ body'[flight[q]].query = q
    BY <1>4, <2>1, <2>5 DEF OwnersOK, Typed, Loading, query
  <2> QED BY <1>1, <2>2, <2>3, <2>4, <2>5 DEF OwnersOK, Loading, query
<1>7. \A r \in Searches : MimeOK(r)'
  BY <1>1 DEF MimeOK, Typed
<1>8. \A r \in Searches \ {s} : EmbOK(r)'
  BY <1>1 DEF EmbOK, Typed
<1>9. EmbOK(s)'
  <2>1. began'[s] = 0 /\ 0 <= now
    BY <1>1, Constants DEF Typed, Times
  <2> QED BY <1>1, <1>5, <2>1 DEF EmbOK
<1>10. NotFreshOK'
  <2>1. \A q : Fresh(q)' <=> Fresh(q)
    BY <1>1 DEF Fresh, At
  <2> QED BY <1>4, <1>5, <2>1 DEF NotFreshOK, query
<1> QED BY <1>2, <1>3, <1>6, <1>7, <1>8, <1>9, <1>10 DEF NotFreshOK

LEMMA AppearInv ==
  ASSUME IInv, NEW m \in Mimes, Appear(m)
  PROVE  IInv'
<1> USE DEF IInv
<1>1. /\ appeared[m] = None /\ appeared' = [appeared EXCEPT ![m] = now]
      /\ UNCHANGED <<now, facet, asking, lru, flight, pc, body, began, mimeIn, emb, answer>>
  BY DEF Appear, cache, own
<1>2. \A x \in Mimes : appeared'[x] = IF x = m THEN now ELSE appeared[x]
  BY <1>1 DEF Typed
<1>3. now \in Nat /\ now >= now /\ (\A s \in Searches : began[s] \in Nat)
  BY Constants DEF Typed, Times
<1>4. Typed'
  BY <1>1 DEF Typed
<1>5. LruOK' /\ OwnersOK'
  BY <1>1, LruKept DEF OwnersOK, Loading, query, Busy
<1>6. FacetOK'
  BY <1>1, <1>2, <1>3 DEF FacetOK
<1>7. \A s \in Searches : MimeOK(s)'
  <2> SUFFICES ASSUME NEW s \in Searches PROVE MimeOK(s)'
    OBVIOUS
  <2>1. ~(now + MimeTTL <= began[s])
    BY <1>3, Constants DEF EmbOK
  <2>2. expandMimePrefixes(body[s].mimes, Mimes) \subseteq Mimes
    BY DEF expandMimePrefixes
  <2> QED BY <1>1, <1>2, <2>1, <2>2 DEF MimeOK
<1>8. \A s \in Searches : EmbOK(s)'
  BY <1>1 DEF EmbOK
<1>9. NotFreshOK'
  BY <1>1 DEF NotFreshOK, Fresh, At, query
<1> QED BY <1>4, <1>5, <1>6, <1>7, <1>8, <1>9 DEF NotFreshOK

LEMMA TickInv ==
  ASSUME IInv, Tick
  PROVE  IInv'
<1> USE DEF IInv
<1>1. /\ now < MaxTime /\ now' = now + 1 /\ (\A s \in Searches : pc[s] \notin {"facet", "land"})
      /\ UNCHANGED <<appeared, facet, asking, lru, flight, pc, body, began, mimeIn, emb, answer>>
  BY DEF Tick, cache, own
<1>2. now \in Nat /\ now' \in Times /\ (\A s \in Searches : began[s] \in Nat)
  BY <1>1, Constants DEF Typed, Times
<1>3. Typed'
  BY <1>1, <1>2 DEF Typed
<1>4. LruOK' /\ OwnersOK'
  BY <1>1, LruKept DEF OwnersOK, Loading, query, Busy
<1>5. FacetOK'
  <2>1. asking = None
    BY <1>1 DEF OwnersOK, Typed
  <2>2. facet # None => facet.exp <= now + 1 + MimeTTL
    BY <1>2, Constants DEF FacetOK, Typed
  <2> QED BY <1>1, <2>1, <2>2 DEF FacetOK
<1>6. \A s \in Searches : MimeOK(s)'
  BY <1>1 DEF MimeOK
<1>7. \A s \in Searches : EmbOK(s)'
  BY <1>1, <1>2 DEF EmbOK
<1>8. NotFreshOK'
  <2>1. ASSUME NEW q, Fresh(q)' PROVE Fresh(q)
    <3>1. PICK i \in At(q) : now + 1 <= lru[i].exp
      BY <1>1, <2>1 DEF Fresh, At
    <3>2. lru[i] \in Entry
      BY DEF LruOK, At
    <3>3. lru[i].exp \in Nat
      BY <3>2 DEF Entry
    <3>4. now <= lru[i].exp
      BY <1>2, <3>1, <3>3
    <3> QED BY <3>4 DEF Fresh
  <2> QED BY <1>1, <2>1 DEF NotFreshOK, query
<1> QED BY <1>3, <1>4, <1>5, <1>6, <1>7, <1>8 DEF NotFreshOK

\* What Qdrant returns matches the filter, on whichever leg it was found.
LEMMA CandidatesMatch ==
  ASSUME NEW s \in Searches, NEW sparse \in BOOLEAN, NEW c \in Candidates(s, sparse)
  PROVE  c \subseteq Matching(s)
<1>1. \A rank, n : Leg(rank, Matching(s), n) \subseteq Matching(s)
  BY DEF Leg
<1>2. \A ranked : c \in Best(ranked) => c \subseteq ranked
  BY DEF Best, kSubset
<1> QED BY <1>1, <1>2 DEF Candidates

LEMMA SearchTextHybridInv ==
  ASSUME IInv, NEW s \in Searches, SearchTextHybrid(s)
  PROVE  IInv'
<1>1. PICK sparse \in BOOLEAN :
        \E c \in Candidates(s, sparse) : answer' = [answer EXCEPT ![s] = c]
  BY DEF SearchTextHybrid
<1>2. \A c \in Candidates(s, sparse) : c \subseteq Points
  BY CandidatesMatch DEF Matching
<1>3. answer' \in [Searches -> SUBSET Points]
  BY <1>1, <1>2 DEF IInv, Typed
<1>4. Moves(s, "done") /\ pc[s] = "query" /\ UNCHANGED <<now, appeared, cache, body, began, mimeIn, emb>>
  BY DEF SearchTextHybrid, Moves, Labels
<1> QED BY <1>3, <1>4, PassInv

LEMMA SearchErrorInv ==
  ASSUME IInv, NEW s \in Searches, SearchError(s)
  PROVE  IInv'
<1>1. Moves(s, "failed") /\ pc[s] = "query" /\ UNCHANGED <<now, appeared, cache, own>>
  BY DEF SearchError, Moves, Labels
<1>2. answer' \in [Searches -> SUBSET Points]
  BY <1>1 DEF IInv, Typed, own
<1> QED BY <1>1, <1>2, PassInv DEF own

LEMMA JoinInv ==
  ASSUME IInv, NEW s \in Searches, Join(s)
  PROVE  IInv'
<1>1. Moves(s, "wait") /\ pc[s] = "do" /\ UNCHANGED <<now, appeared, cache, own>>
  BY DEF Join, Moves, Labels
<1>2. answer' \in [Searches -> SUBSET Points]
  BY <1>1 DEF IInv, Typed, own
<1> QED BY <1>1, <1>2, PassInv DEF own

LEMMA NextInv == IInv /\ [Next]_vars => IInv'
<1> SUFFICES ASSUME IInv, [Next]_vars PROVE IInv'
  OBVIOUS
<1>1. CASE Tick
  BY <1>1, TickInv
<1>2. ASSUME NEW m \in Mimes, Appear(m) PROVE IInv'
  BY <1>2, AppearInv
<1>3. ASSUME NEW s \in Searches, Begin(s) PROVE IInv'
  BY <1>3, BeginInv
<1>4. ASSUME NEW s \in Searches, Step(s) PROVE IInv'
  BY <1>4, KnownCachedInv, AskFacetInv, FacetAnswerInv, FacetErrorInv, GetInv, JoinInv, LeadInv,
     CheckInv, LoadedInv, LoadErrorInv, LandInv, SearchTextHybridInv, SearchErrorInv, EndInv
     DEF Step
<1>5. CASE UNCHANGED vars
  <2>1. UNCHANGED <<now, appeared, facet, asking, lru, flight, pc, body, began, mimeIn, emb, answer>>
    BY <1>5 DEF vars, cache, own
  <2>2. Typed' /\ LruOK' /\ FacetOK'
    BY <2>1, LruKept, FacetKept DEF IInv, Typed
  <2>3. OwnersOK'
    BY <2>1 DEF IInv, OwnersOK, Loading, query, Busy
  <2>4. \A s \in Searches : MimeOK(s)' /\ EmbOK(s)'
    BY <2>1 DEF IInv, MimeOK, EmbOK
  <2>5. NotFreshOK'
    BY <2>1 DEF IInv, NotFreshOK, Fresh, At, query
  <2> QED BY <2>2, <2>3, <2>4, <2>5 DEF IInv, NotFreshOK
<1> QED BY <1>1, <1>2, <1>3, <1>4, <1>5 DEF Next

-----------------------------------------------------------------------------
(***************************************************************************)
(* The theorems.                                                           *)
(***************************************************************************)
\* The two caches, the mutex and the flights are at all times as IInv says.
THEOREM QueryInvariance == Spec => []IInv
  BY InitInv, NextInv, PTL DEF Spec

\* The cache never exceeds its size nor holds a key twice, and mutex and flights have the owners
\* that are in them.
THEOREM QueryTypeCorrect == Spec => []TypeOK
<1>1. IInv => TypeOK
  BY DEF IInv, Typed, LruOK, OwnersOK, TypeOK, Unique, Entry
<1> QED BY <1>1, QueryInvariance, PTL

\* GetOrLoad: any number of concurrent searches for a query embed it once.
THEOREM LoadsOnce == Spec => []ColdCacheLoadsOnce
<1>1. IInv => ColdCacheLoadsOnce
  BY OneLoader DEF IInv, ColdCacheLoadsOnce, Loading
<1> QED BY <1>1, QueryInvariance, PTL

\* Neither a shared flight nor a wait for the mutex gives a search something older than the
\* times to live.
THEOREM Fresher == Spec => []NothingStale
<1>1. IInv => NothingStale
  BY DEF IInv, NothingStale, MimeOK, EmbOK
<1> QED BY <1>1, QueryInvariance, PTL

\* The leader's failure reaches those who fly with it and nobody later.
THEOREM FailuresPass == Spec => []FailureIsRecent
<1>1. IInv => FailureIsRecent
  BY DEF IInv, FailureIsRecent, LruOK, EmbOK
<1> QED BY <1>1, QueryInvariance, PTL

\* Only Qdrant's answer takes a search from its query to its end.
LEMMA OnlyQdrantAnswers ==
  ASSUME IInv, [Next]_vars, NEW s \in Searches, pc[s] = "query", pc'[s] = "done"
  PROVE  SearchTextHybrid(s)
<1> USE DEF IInv, Typed
<1>1. CASE Tick \/ (\E m \in Mimes : Appear(m)) \/ UNCHANGED vars
  BY <1>1 DEF Tick, Appear, vars
<1>2. ASSUME NEW r \in Searches, Begin(r) PROVE FALSE
  BY <1>2 DEF Begin, Goto, Busy
<1>3. ASSUME NEW r \in Searches, Step(r) PROVE SearchTextHybrid(s)
  <2>1. CASE KnownCached(r) \/ AskFacet(r) \/ FacetAnswer(r) \/ FacetError(r)
    BY <2>1 DEF KnownCached, AskFacet, FacetAnswer, FacetError, Expand, Goto
  <2>2. CASE Get(r) \/ Join(r) \/ Lead(r) \/ Check(r) \/ Loaded(r) \/ LoadError(r)
    BY <2>2 DEF Get, Join, Lead, Check, Loaded, LoadError, TryCache, Goto
  <2>3. CASE Land(r) \/ SearchError(r) \/ End(r)
    BY <2>3 DEF Land, SearchError, End, Goto
  <2>4. CASE SearchTextHybrid(r)
    BY <2>4 DEF SearchTextHybrid, Goto
  <2> QED BY <1>3, <2>1, <2>2, <2>3, <2>4 DEF Step
<1> QED BY <1>1, <1>2, <1>3 DEF Next

\* No search gets a candidate it did not ask for or outside the scope it was granted, whatever
\* the facet said or did not.
THEOREM OnlyWhatWasAsked == Spec => CandidatesAreThoseAsked
<1>1. ASSUME IInv, [Next]_vars, NEW s \in Searches, pc[s] = "query", pc'[s] = "done"
      PROVE  answer'[s] \subseteq Asked(s)
  <2>1. PICK sparse \in BOOLEAN :
          \E c \in Candidates(s, sparse) : answer' = [answer EXCEPT ![s] = c]
    BY <1>1, OnlyQdrantAnswers DEF SearchTextHybrid
  <2>2. answer'[s] \subseteq Matching(s)
    BY <1>1, <2>1, CandidatesMatch DEF IInv, Typed
  <2>3. body[s] \in Bodies
    BY <1>1 DEF IInv, OwnersOK, Typed, Busy
  <2>4. body[s].scope # {}
    BY <2>3, SearchQueryAssumption
  <2>5. /\ mimeIn[s] = {} <=> body[s].mimes = {}
        /\ mimeIn[s] \cap Mimes \subseteq expandMimePrefixes(body[s].mimes, Mimes)
    BY <1>1 DEF IInv, MimeOK
  <2>6. MimeOf \in [Points -> Mimes]
    BY SearchQueryAssumption
  <2> QED BY <2>2, <2>4, <2>5, <2>6 DEF Matching, Passes, Asked
<1>2. IInv /\ [Next]_vars =>
        [\A s \in Searches : pc[s] = "query" /\ pc'[s] = "done" => answer'[s] \subseteq Asked(s)]_vars
  BY <1>1
<1> QED BY <1>2, QueryInvariance, PTL DEF Spec, CandidatesAreThoseAsked

-----------------------------------------------------------------------------
(***************************************************************************)
(* That a filter costs nothing.                                            *)
(***************************************************************************)
\* A set of natural numbers has a least one.
LEMMA LeastOne ==
  ASSUME NEW S, S \subseteq Nat, S # {}
  PROVE  \E x \in S : \A y \in S : x <= y
<1>1. \E x \in S : \A y \in S : ~ (<<y, x>> \in OpToRel(<, Nat))
  <2>1. IsWellFoundedOn(OpToRel(<, Nat), Nat)
    BY NatLessThanWellFounded
  <2> QED BY WFMin, <2>1
<1>2. PICK x \in S : \A y \in S : ~ (<<y, x>> \in OpToRel(<, Nat))
  BY <1>1, Zenon
<1>3. \A y \in S : ~ (y < x)
  BY <1>2 DEF OpToRel
<1>4. \A y \in S : y \in Nat
  OBVIOUS
<1>5. \A y \in S : x <= y
  BY <1>3, <1>4
<1> QED BY <1>5

\* A leg that brings fewer than its limit brings all that match: the best of those it left out
\* would have had its place among the first n.
LEMMA ShortLegIsAll ==
  ASSUME NEW q \in Queries, NEW S, S \subseteq Points, NEW n \in Nat,
         Cardinality(Leg(DenseRank[q], S, n)) < n
  PROVE  Leg(DenseRank[q], S, n) = S
<1> DEFINE rank == DenseRank[q]
           L == Leg(rank, S, n)
           Upto(p) == {r \in S : rank[r] <= rank[p]}
           Left == S \ L
           ranks == {rank[p] : p \in Left}
<1>1. /\ rank \in [Points -> Nat] /\ IsFiniteSet(Points)
      /\ \A p, r \in Points : rank[p] = rank[r] => p = r
  BY SearchQueryAssumption
<1>2. IsFiniteSet(S)
  BY <1>1, FS_Subset
<1>3. L = {p \in S : Cardinality(Upto(p)) <= n}
  <2>1. S \cap DOMAIN rank = S
    BY <1>1
  <2> HIDE DEF rank
  <2> QED BY <2>1 DEF Leg
<1> HIDE DEF rank, L
<1>4. SUFFICES ASSUME Left # {} PROVE FALSE
  BY <1>3 DEF rank, L
<1>5. \A p \in S : p \in Points /\ rank[p] \in Nat
  BY <1>1
<1>6. PICK x \in ranks : \A y \in ranks : x <= y
  <2>1. ranks \subseteq Nat /\ ranks # {}
    BY <1>4, <1>5
  <2> HIDE DEF ranks
  <2> QED BY <2>1, LeastOne
<1>7. PICK p \in Left : rank[p] = x
  BY <1>6
<1>8. \A r \in Left : rank[p] <= rank[r]
  BY <1>6, <1>7
<1>9. p \in S /\ p \notin L
  BY <1>7
<1>10. Upto(p) \subseteq L \cup {p}
  <2> SUFFICES ASSUME NEW r \in Upto(p), r \notin L PROVE r = p
    OBVIOUS
  <2>1. r \in S /\ rank[r] <= rank[p] /\ r \in Left
    OBVIOUS
  <2>2. rank[p] <= rank[r] /\ rank[p] \in Nat /\ rank[r] \in Nat /\ r \in Points /\ p \in Points
    BY <2>1, <1>5, <1>8, <1>9
  <2>3. rank[r] = rank[p]
    BY <2>1, <2>2
  <2> QED BY <2>2, <2>3, <1>1
<1>11. IsFiniteSet(L) /\ Cardinality(L) \in Nat
  <2>1. L \subseteq S
    BY <1>3
  <2> QED BY <2>1, <1>2, FS_Subset, FS_CardinalityType
<1>12. IsFiniteSet(L \cup {p}) /\ Cardinality(L \cup {p}) = Cardinality(L) + 1
  BY <1>9, <1>11, FS_AddElement
<1>13. Cardinality(Upto(p)) <= Cardinality(L) + 1
  BY <1>10, <1>12, FS_Subset
<1>14. Cardinality(L) < n
  BY DEF L, rank
<1>15. Cardinality(Upto(p)) \in Nat
  <2>1. Upto(p) \subseteq S
    OBVIOUS
  <2> HIDE DEF Upto
  <2> QED BY <2>1, <1>2, FS_Subset, FS_CardinalityType
<1>16. Cardinality(Upto(p)) <= n
  BY <1>11, <1>13, <1>14, <1>15
<1> QED BY <1>3, <1>9, <1>16

\* Best takes all of what the legs bring, or as many as the limit.
LEMMA BestIs ==
  ASSUME NEW ranked, IsFiniteSet(ranked), NEW c \in Best(ranked)
  PROVE  Cardinality(c) = Limit \/ (Cardinality(ranked) < Limit /\ c = ranked)
<1> DEFINE N == Cardinality(ranked)
           m == Min({N, Limit})
<1>1. N \in Nat /\ Limit \in Nat
  BY FS_CardinalityType, SearchQueryAssumption
<1>2. c \subseteq ranked /\ Cardinality(c) = m
  BY DEF Best, kSubset
<1>3. m \in {N, Limit} /\ \A y \in {N, Limit} : m <= y
  <2> HIDE DEF N
  <2>1. \E x \in {N, Limit} : \A y \in {N, Limit} : x <= y
    <3>1. CASE N <= Limit
      BY <1>1, <3>1
    <3>2. CASE Limit <= N
      BY <1>1, <3>2
    <3> QED BY <1>1, <3>1, <3>2
  <2> QED BY <2>1 DEF Min
<1> HIDE DEF m
<1>4. CASE m = Limit
  BY <1>2, <1>4
<1>5. CASE m # Limit
  <2>1. m = N /\ N < Limit
    BY <1>1, <1>3, <1>5
  <2>2. c = ranked
    BY <1>2, <2>1, FS_Subset
  <2> QED BY <2>1, <2>2
<1> QED BY <1>4, <1>5

LEMMA LegsReachAll ==
  ASSUME NEW s \in Searches, body[s] \in Bodies, NEW sparse \in BOOLEAN, NEW c \in Candidates(s, sparse)
  PROVE  Cardinality(c) >= Limit \/ Matching(s) \subseteq c
<1> DEFINE q == query(s)
           M == Matching(s)
           D(n) == Leg(DenseRank[q], M, n)
           S == Leg(SparseRank[q], M, LegLimit)
           ranked == IF sparse THEN D(LegLimit) \cup S ELSE D(Limit)
           n == IF sparse THEN LegLimit ELSE Limit
<1>1. q \in Queries
  BY SearchQueryAssumption DEF query
<1>2. M \subseteq Points /\ IsFiniteSet(Points)
  BY SearchQueryAssumption DEF Matching
<1>3. Limit \in Nat /\ n \in Nat /\ Limit <= n
  BY SearchQueryAssumption DEF LegLimit
<1>4. c \in Best(ranked)
  BY DEF Candidates
<1> HIDE DEF q, M
<1>5. D(n) \subseteq ranked /\ ranked \subseteq M
  <2>1. \A k : D(k) \subseteq M
    BY DEF Leg
  <2>2. S \subseteq M
    BY DEF Leg
  <2> HIDE DEF D, S
  <2>3. D(n) \subseteq ranked
    OBVIOUS
  <2> QED BY <2>1, <2>2, <2>3
<1> HIDE DEF ranked, n, D
<1>6. IsFiniteSet(M)
  BY <1>2, FS_Subset
<1>7. IsFiniteSet(ranked)
  BY <1>5, <1>6, FS_Subset
<1>8. Cardinality(c) = Limit \/ (Cardinality(ranked) < Limit /\ c = ranked)
  BY <1>4, <1>7, BestIs
<1>9. CASE Cardinality(c) = Limit
  BY <1>3, <1>9
<1>10. CASE Cardinality(ranked) < Limit /\ c = ranked
  <2>1. Cardinality(D(n)) <= Cardinality(ranked) /\ Cardinality(D(n)) \in Nat /\ Cardinality(ranked) \in Nat
    BY <1>5, <1>7, FS_Subset, FS_CardinalityType
  <2>2. Cardinality(D(n)) < n
    BY <1>3, <1>10, <2>1
  <2>3. D(n) = M
    <3>1. Cardinality(Leg(DenseRank[q], M, n)) < n
      BY <2>2 DEF D
    <3>2. Leg(DenseRank[q], M, n) = M
      BY <3>1, <1>1, <1>2, <1>3, ShortLegIsAll
    <3> QED BY <3>2 DEF D
  <2> QED BY <1>5, <1>10, <2>3 DEF M
<1> QED BY <1>8, <1>9, <1>10

\* A filter costs no candidates: whatever else is in the collection and however it ranks, a search
\* gets as many as the limit, or all that there are.
THEOREM FiltersCostNothing == Spec => FilterCostsNothing
<1>1. ASSUME IInv, [Next]_vars, NEW s \in Searches, pc[s] = "query", pc'[s] = "done"
      PROVE  Cardinality(answer'[s]) >= Limit \/ Known(s) \subseteq answer'[s]
  <2>1. PICK sparse \in BOOLEAN : \E c \in Candidates(s, sparse) : answer' = [answer EXCEPT ![s] = c]
    BY <1>1, OnlyQdrantAnswers DEF SearchTextHybrid
  <2>2. PICK c \in Candidates(s, sparse) : answer' = [answer EXCEPT ![s] = c]
    BY <2>1
  <2>3. answer'[s] = c
    BY <1>1, <2>2 DEF IInv, Typed
  <2>4. body[s] \in Bodies
    BY <1>1 DEF IInv, OwnersOK, Typed, Busy
  <2>5. Cardinality(c) >= Limit \/ Matching(s) \subseteq c
    BY <2>4, LegsReachAll
  <2>6. mimeIn[s] = {} <=> body[s].mimes = {}
    BY <1>1 DEF IInv, MimeOK
  <2>7. Known(s) \subseteq Matching(s)
    BY <2>6 DEF Known, Asked, Matching, Passes
  <2> QED BY <2>3, <2>5, <2>7
<1>2. IInv /\ [Next]_vars =>
        [\A s \in Searches : pc[s] = "query" /\ pc'[s] = "done" =>
           Cardinality(answer'[s]) >= Limit \/ Known(s) \subseteq answer'[s]]_vars
  BY <1>1
<1> QED BY <1>2, QueryInvariance, PTL DEF Spec, FilterCostsNothing

=============================================================================
