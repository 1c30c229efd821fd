----------------------------- MODULE SearchQuery -----------------------------
(***************************************************************************)
(* What a semantic search does before it has candidates: the mime prefixes *)
(* are expanded with a facet of the collection (service/mime_prefix.go),   *)
(* the query is embedded through a cache (service/cache.go), and Qdrant is *)
(* asked (service/qdrant_client.go); steps 0 to 2 of SearchText.           *)
(*                                                                         *)
(* Searches run concurrently and share the two caches: the facet under a   *)
(* mutex that is held while Qdrant answers, the embeddings in an LRU whose *)
(* misses are coalesced, one flight per key, under the context of the      *)
(* search that leads it.  A call of Parser or Qdrant may fail at any time, *)
(* be it that the backend fails or that the client of the search, and with *)
(* it the call's context, goes away.                                       *)
(*                                                                         *)
(* The unit of the clock is longer than a facet call may take (5 seconds,  *)
(* QdrantClient.hc), so what is said of time is exact to one such call.    *)
(* An embedding is the time Parser gave it at; a query is its hash.        *)
(***************************************************************************)
EXTENDS Integers, Sequences, FiniteSets, FiniteSetsExt, SequencesExt

CONSTANTS
  Searches,    \* the calls of SearchText that can be under way at once
  Bodies,      \* [query, mimes, scope]: what they ask; scope is ApplyScope's, never empty
  Queries,
  Mimes, MimePrefixes,
  Late,        \* the mimes of which no file is indexed at first
  Covers,      \* Covers[x]: the mimes that begin with the prefix x
  Points, MimeOf, RootOf,     \* the points there are or will be in text_chunks
  DenseRank,                  \* DenseRank[q][p]: the place of p among all points for q
  SparseRank,                 \* the same, of the points that share a term with q
  Limit,                      \* the candidates SearchText asks for
  Size, TTL, MimeTTL,         \* EmbedCacheSize, EmbedCacheTTLSec, mimeFacetTTL
  MaxTime,                    \* bounds the clock
  None

ASSUME SearchQueryAssumption ==
  /\ \A b \in Bodies : b.query \in Queries /\ b.mimes \subseteq Mimes \cup MimePrefixes /\ b.scope # {}
  /\ Covers \in [MimePrefixes -> SUBSET Mimes] /\ Mimes \cap MimePrefixes = {}
  /\ MimeOf \in [Points -> Mimes]
  /\ Limit \in Nat \ {0} /\ Size \in Nat \ {0} /\ TTL \in Nat /\ MimeTTL \in Nat \ {0}
  /\ IsFiniteSet(Points)
  /\ DenseRank \in [Queries -> [Points -> Nat]] /\ DOMAIN SparseRank = Queries
  /\ \A q \in Queries : \A p, r \in Points : DenseRank[q][p] = DenseRank[q][r] => p = r
  /\ MaxTime \in Nat
  /\ None \notin Bodies \cup Searches /\ None \notin Int
  /\ None \notin [by : Searches, saw : SUBSET Mimes] \cup [ok : BOOLEAN, at : Int]

VARIABLES
  now,         \* the clock
  appeared,    \* appeared[m]: when the first point of mime m was indexed, or None
  facet,       \* mimeCache: [values, exp], or None before the first answer
  asking,      \* the search that holds mimeCache.mu, .by, and what Qdrant found for it in the
               \* collection, .saw; or None
  lru,         \* the embedding cache, [key, val, exp], the least recently used first
  flight,      \* flight[q]: the search that leads the load of q, or None
  pc,          \* where each search is
  body,        \* body[s]: what s asks, or None
  began,       \* when it began
  mimeIn,      \* the mimes of its filter
  emb,         \* its embedding: [ok, at], or None before it has one
  answer       \* the candidates Qdrant gave it

cache  == <<facet, asking, lru, flight>>
own    == <<body, began, mimeIn, emb, answer>>
vars   == <<now, appeared, cache, pc, own>>

Busy(s)        == pc[s] # "idle"
Goto(s, label) == pc' = [pc EXCEPT ![s] = label]
query(s)       == body[s].query

-----------------------------------------------------------------------------
(***************************************************************************)
(* The mime facet.                                                         *)
(***************************************************************************)
hasMimePrefixEntries(entries) == entries \cap MimePrefixes # {}

\* Exact entries pass, prefixes become the known mimes that start with them.
expandMimePrefixes(entries, known) ==
  (entries \cap Mimes) \cup {m \in known : \E x \in entries \cap MimePrefixes : m \in Covers[x]}

collection == {m \in Mimes : appeared[m] # None}

FacetFresh == facet # None /\ now < facet.exp

\* Mutant: a list that no known mime matches goes on as it is, empty.
Expand_GoesOn(s, known) ==
  /\ mimeIn' = [mimeIn EXCEPT ![s] = expandMimePrefixes(body[s].mimes, known)]
  /\ Goto(s, "embed")

\* With nothing to match, SearchText returns no hits at once.
Expand(s, known) ==
  LET mimes == expandMimePrefixes(body[s].mimes, known)
  IN /\ mimeIn' = [mimeIn EXCEPT ![s] = mimes]
     /\ Goto(s, IF mimes = {} THEN "done" ELSE "embed")

\* knownMimes finds the facet fresh: locked, read and unlocked in one go.
KnownCached(s) ==
  /\ pc[s] = "mime" /\ asking = None /\ FacetFresh
  /\ Expand(s, facet.values)
  /\ UNCHANGED <<now, appeared, cache, body, began, emb, answer>>

\* ... or asks Qdrant, the mutex held.
AskFacet(s) ==
  /\ pc[s] = "mime" /\ asking = None /\ ~FacetFresh
  /\ asking' = [by |-> s, saw |-> collection]
  /\ Goto(s, "facet")
  /\ UNCHANGED <<now, appeared, facet, lru, flight, own>>

\* Mutant: the mimes are kept for as long as answers come.
FacetAnswer_KeepsValues(s) ==
  /\ pc[s] = "facet"
  /\ facet' = [values |-> IF facet = None THEN asking.saw ELSE facet.values, exp |-> now + MimeTTL]
  /\ asking' = None
  /\ Expand(s, facet'.values)
  /\ UNCHANGED <<now, appeared, lru, flight, body, began, emb, answer>>

FacetAnswer(s) ==
  /\ pc[s] = "facet"
  /\ facet' = [values |-> asking.saw, exp |-> now + MimeTTL]
  /\ asking' = None
  /\ Expand(s, asking.saw)
  /\ UNCHANGED <<now, appeared, lru, flight, body, began, emb, answer>>

\* Mutant: a search whose facet fails asks again, until there is an answer.
FacetError_Retries(s) ==
  /\ pc[s] = "facet"
  /\ asking' = None
  /\ Goto(s, "mime")
  /\ UNCHANGED <<now, appeared, facet, lru, flight, own>>

\* The facet fails: the list is used as it was given, which "mime_facet_unavailable" says.
FacetError(s) ==
  /\ pc[s] = "facet"
  /\ asking' = None
  /\ mimeIn' = [mimeIn EXCEPT ![s] = body[s].mimes]
  /\ Goto(s, "embed")
  /\ UNCHANGED <<now, appeared, facet, lru, flight, body, began, emb, answer>>

-----------------------------------------------------------------------------
(***************************************************************************)
(* The embedding cache.                                                    *)
(***************************************************************************)
At(q)     == {i \in 1..Len(lru) : lru[i].key = q}
Fresh(q)  == \E i \in At(q) : now <= lru[i].exp
Without(q) == IF At(q) = {} THEN lru ELSE RemoveAt(lru, CHOOSE i \in At(q) : TRUE)

\* A Get makes its key the most recent one, expired or not.
Touch(q) == IF At(q) = {} THEN lru ELSE Append(Without(q), lru[CHOOSE i \in At(q) : TRUE])

\* Mutant: the cache grows without a limit.
Put_All(q, v) == Append(Without(q), [key |-> q, val |-> v, exp |-> now + TTL])

\* A Put evicts the key that was not used for longest.
Put(q, v) ==
  LET added == Append(Without(q), [key |-> q, val |-> v, exp |-> now + TTL])
  IN IF Len(added) > Size THEN Tail(added) ELSE added

\* Get: a hit gives s the embedding.
TryCache(s, hit, miss) ==
  /\ lru' = Touch(query(s))
  /\ IF Fresh(query(s))
     THEN emb' = [emb EXCEPT ![s] = Last(lru').val] /\ Goto(s, hit)
     ELSE Goto(s, miss) /\ UNCHANGED emb

\* GetOrLoad's first Get
Get(s) ==
  /\ pc[s] = "embed"
  /\ TryCache(s, "query", "do")
  /\ UNCHANGED <<now, appeared, facet, asking, flight, body, began, mimeIn, answer>>

\* singleflight's Do: wait for the flight that is under way, or lead one.
Join(s) ==
  /\ pc[s] = "do" /\ flight[query(s)] # None
  /\ Goto(s, "wait")
  /\ UNCHANGED <<now, appeared, cache, own>>

Lead(s) ==
  /\ pc[s] = "do" /\ flight[query(s)] = None
  /\ flight' = [flight EXCEPT ![query(s)] = s]
  /\ Goto(s, "check")
  /\ UNCHANGED <<now, appeared, facet, asking, lru, own>>

\* Mutant: the leader loads without looking again.
Check_Not(s) ==
  /\ pc[s] = "check"
  /\ Goto(s, "load")
  /\ UNCHANGED <<now, appeared, cache, own>>

\* "Double-check in case another goroutine populated cache mid-flight."
Check(s) ==
  /\ pc[s] = "check"
  /\ TryCache(s, "land", "load")
  /\ UNCHANGED <<now, appeared, facet, asking, flight, body, began, mimeIn, answer>>

\* Parser answers the loader, and the embedding is stored.
Loaded(s) ==
  /\ pc[s] = "load"
  /\ emb' = [emb EXCEPT ![s] = [ok |-> TRUE, at |-> now]]
  /\ lru' = Put(query(s), emb'[s])
  /\ Goto(s, "land")
  /\ UNCHANGED <<now, appeared, facet, asking, flight, body, began, mimeIn, answer>>

\* Mutant: the failure is stored like a result.
LoadError_Stored(s) ==
  /\ pc[s] = "load"
  /\ emb' = [emb EXCEPT ![s] = [ok |-> FALSE, at |-> now]]
  /\ lru' = Put(query(s), emb'[s])
  /\ Goto(s, "land")
  /\ UNCHANGED <<now, appeared, facet, asking, flight, body, began, mimeIn, answer>>

\* Parser fails, or the client of the leader has gone: nothing is stored.
LoadError(s) ==
  /\ pc[s] = "load"
  /\ emb' = [emb EXCEPT ![s] = [ok |-> FALSE, at |-> now]]
  /\ Goto(s, "land")
  /\ UNCHANGED <<now, appeared, cache, body, began, mimeIn, answer>>

\* The flight ends, and all who wait for it get what it brought.
Land(s) ==
  LET aboard(r) == r = s \/ (pc[r] = "wait" /\ query(r) = query(s))
  IN /\ pc[s] = "land"
     /\ flight' = [flight EXCEPT ![query(s)] = None]
     /\ emb' = [r \in Searches |-> IF aboard(r) THEN emb[s] ELSE emb[r]]
     /\ pc' = [r \in Searches |->
                 IF aboard(r) THEN IF emb[s].ok THEN "query" ELSE "failed" ELSE pc[r]]
     /\ UNCHANGED <<now, appeared, facet, asking, lru, body, began, mimeIn, answer>>

-----------------------------------------------------------------------------
(***************************************************************************)
(* Qdrant.                                                                 *)
(***************************************************************************)
\* buildPBFilter: a list that is empty adds no condition.
Passes(p, scope, mimes) ==
  /\ scope # {} => RootOf[p] \in scope
  /\ mimes # {} => MimeOf[p] \in mimes

Present(p) == appeared[MimeOf[p]] # None

\* The points of the collection that pass s's filter
Matching(s) == {p \in Points : Present(p) /\ Passes(p, body[s].scope, mimeIn[s])}

\* hybridPrefetchFactor
LegLimit == 3 * Limit

\* A leg of the fusion, or a plain dense query: the best n of those that match.
Leg(rank, matching, n) ==
  LET found == matching \cap DOMAIN rank
  IN {p \in found : Cardinality({r \in found : rank[r] <= rank[p]}) <= n}

\* What Qdrant may return of what the legs bring
Best(ranked) == kSubset(Min({Cardinality(ranked), Limit}), ranked)

\* Mutant: the legs are not filtered, only what they bring together.
Candidates_LateFilter(s, sparse) ==
  LET all == {p \in Points : Present(p)}
  IN Best(Matching(s) \cap
          IF sparse THEN Leg(DenseRank[query(s)], all, LegLimit)
                         \cup Leg(SparseRank[query(s)], all, LegLimit)
          ELSE Leg(DenseRank[query(s)], all, Limit))

\* buildHybridQuery: with a sparse vector two filtered legs are fused, in an order that is
\* Qdrant's own; without, the dense one is all.
Candidates(s, sparse) ==
  Best(IF sparse THEN Leg(DenseRank[query(s)], Matching(s), LegLimit)
                      \cup Leg(SparseRank[query(s)], Matching(s), LegLimit)
       ELSE Leg(DenseRank[query(s)], Matching(s), Limit))

SearchTextHybrid(s) ==
  /\ pc[s] = "query"
  /\ \E sparse \in BOOLEAN : \E c \in Candidates(s, sparse) : answer' = [answer EXCEPT ![s] = c]
  /\ Goto(s, "done")
  /\ UNCHANGED <<now, appeared, cache, body, began, mimeIn, emb>>

SearchError(s) ==
  /\ pc[s] = "query"
  /\ Goto(s, "failed")
  /\ UNCHANGED <<now, appeared, cache, own>>

-----------------------------------------------------------------------------
(***************************************************************************)
(* The life of a search, and the world around it.                          *)
(***************************************************************************)
Begin(s) ==
  /\ ~Busy(s)
  /\ \E b \in Bodies :
       /\ body' = [body EXCEPT ![s] = b]
       /\ IF hasMimePrefixEntries(b.mimes)
          THEN Goto(s, "mime") /\ UNCHANGED mimeIn
          ELSE Goto(s, "embed") /\ mimeIn' = [mimeIn EXCEPT ![s] = b.mimes]
  /\ began' = [began EXCEPT ![s] = now]
  /\ UNCHANGED <<now, appeared, cache, emb, answer>>

\* The search returns, with hits or an error; what it held is forgotten.
End(s) ==
  /\ pc[s] \in {"done", "failed"}
  /\ Goto(s, "idle")
  /\ body' = [body EXCEPT ![s] = None]
  /\ began' = [began EXCEPT ![s] = 0]
  /\ mimeIn' = [mimeIn EXCEPT ![s] = {}]
  /\ emb' = [emb EXCEPT ![s] = None]
  /\ answer' = [answer EXCEPT ![s] = {}]
  /\ UNCHANGED <<now, appeared, cache>>

\* Parser indexes the first file of a format.
Appear(m) ==
  /\ appeared[m] = None
  /\ appeared' = [appeared EXCEPT ![m] = now]
  /\ UNCHANGED <<now, cache, pc, own>>

\* Time passes while searches wait for one another or for Parser, but not during a facet, nor
\* between the last two statements of a flight.
Tick ==
  /\ now < MaxTime
  /\ \A s \in Searches : pc[s] \notin {"facet", "land"}
  /\ now' = now + 1
  /\ UNCHANGED <<appeared, cache, pc, own>>

Init ==
  /\ now = 0
  /\ appeared = [m \in Mimes |-> IF m \in Late THEN None ELSE 0]
  /\ facet = None /\ asking = None
  /\ lru = <<>>
  /\ flight = [q \in Queries |-> None]
  /\ pc = [s \in Searches |-> "idle"]
  /\ body = [s \in Searches |-> None]
  /\ began = [s \in Searches |-> 0]
  /\ mimeIn = [s \in Searches |-> {}]
  /\ emb = [s \in Searches |-> None]
  /\ answer = [s \in Searches |-> {}]

\* What a search does of itself, its backends included.
Step(s) == \/ KnownCached(s) \/ AskFacet(s) \/ FacetAnswer(s) \/ FacetError(s)
           \/ Get(s) \/ Join(s) \/ Lead(s) \/ Check(s) \/ Loaded(s) \/ LoadError(s) \/ Land(s)
           \/ SearchTextHybrid(s) \/ SearchError(s) \/ End(s)

Next == \/ Tick
        \/ \E m \in Mimes : Appear(m)
        \/ \E s \in Searches : Begin(s) \/ Step(s)

Spec == Init /\ [][Next]_vars

\* Goroutines run, the HTTP clients of Parser and of the facet have timeouts, Qdrant's gRPC call
\* ends at the latest with the request it serves, and a sync.Mutex is not withheld for ever from
\* one that waits for it.
FairSpec ==
  Spec /\ \A s \in Searches : WF_vars(Step(s)) /\ SF_vars(KnownCached(s) \/ AskFacet(s))

(***************************************************************************)
(* Properties.                                                             *)
(***************************************************************************)
Labels == {"idle", "mime", "facet", "embed", "do", "wait", "check", "load", "land", "query", "done",
           "failed"}
Times  == 0..MaxTime
Loading(s) == pc[s] \in {"check", "load", "land"}
Embeddings == [ok : BOOLEAN, at : Times]

\* Every variable keeps its type, the cache its size and one entry per key, and the mutex and the
\* flights belong to the searches that are in them.
TypeOK ==
  /\ now \in Times
  /\ appeared \in [Mimes -> Times \cup {None}]
  /\ facet = None \/ facet \in [values : SUBSET Mimes, exp : Nat]
  /\ asking = None \/ asking \in [by : Searches, saw : SUBSET Mimes]
  /\ lru \in Seq([key : Queries, val : Embeddings, exp : Nat]) /\ Len(lru) <= Size
  /\ \A i, j \in 1..Len(lru) : lru[i].key = lru[j].key => i = j
  /\ flight \in [Queries -> Searches \cup {None}]
  /\ pc \in [Searches -> Labels]
  /\ body \in [Searches -> Bodies \cup {None}] /\ began \in [Searches -> Times]
  /\ mimeIn \in [Searches -> SUBSET (Mimes \cup MimePrefixes)]
  /\ emb \in [Searches -> Embeddings \cup {None}]
  /\ answer \in [Searches -> SUBSET Points]
  /\ \A s \in Searches : pc[s] = "facet" <=> asking # None /\ asking.by = s
  /\ \A s \in Searches : Busy(s) <=> body[s] # None
  /\ \A s \in Searches : Loading(s) => flight[query(s)] = s
  /\ \A q \in Queries : flight[q] # None => Loading(flight[q]) /\ query(flight[q]) = q

\* "a cold cache + N concurrent queries hits the loader only once": a query is never embedded
\* twice at once, nor while the cache holds its embedding, however the searches for it cross.
ColdCacheLoadsOnce ==
  \A s \in Searches : pc[s] = "load" =>
    /\ ~Fresh(query(s))
    /\ \A r \in Searches \ {s} : Loading(r) => query(r) # query(s)

\* What a search uses is not older than the caches promise, whether it found it itself, was
\* given it by the leader of a flight, or waited for the mutex: Parser gave the embedding at most
\* a TTL before the search began, and a mime is known that has been in the collection for its
\* TTL, unless the facet failed and the prefixes went through as they were.
NothingStale ==
  \A s \in Searches :
    /\ emb[s] # None => began[s] <= emb[s].at + TTL
    /\ pc[s] \notin {"idle", "mime", "facet"} /\ ~hasMimePrefixEntries(mimeIn[s]) =>
         \A m \in expandMimePrefixes(body[s].mimes, Mimes) :
           appeared[m] # None /\ appeared[m] + MimeTTL <= began[s] => m \in mimeIn[s]

\* A search shares the failure of a load, be it because the client of the leader went away, only
\* if that load failed after the search began: no failure is kept for later ones.
FailureIsRecent ==
  /\ \A i \in 1..Len(lru) : lru[i].val.ok
  /\ \A s \in Searches : emb[s] # None /\ ~emb[s].ok => began[s] <= emb[s].at

Asked(s) == {p \in Points :
               /\ Present(p) /\ RootOf[p] \in body[s].scope
               /\ body[s].mimes # {} => MimeOf[p] \in expandMimePrefixes(body[s].mimes, Mimes)}
Known(s) == {p \in Asked(s) : body[s].mimes # {} => MimeOf[p] \in mimeIn[s]}

\* The candidates are among what was asked for, in the scope that was granted: no list that an
\* expansion or its failure leaves empty turns into no condition.
CandidatesAreThoseAsked ==
  [][\A s \in Searches : pc[s] = "query" /\ pc'[s] = "done" => answer'[s] \subseteq Asked(s)]_vars

\* A filter costs no candidates: there are as many as the limit lets through, where scoped
\* queries had "came back empty far too often".
FilterCostsNothing ==
  [][\A s \in Searches : pc[s] = "query" /\ pc'[s] = "done" =>
       Cardinality(answer'[s]) >= Limit \/ Known(s) \subseteq answer'[s]]_vars

\* Every search returns, whatever fails and whoever goes away.
EveryoneReturns == \A s \in Searches : Busy(s) ~> ~Busy(s)

=============================================================================
