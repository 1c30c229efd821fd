----------------------------- MODULE Retrieval ------------------------------
(***************************************************************************)
(* One semantic search, SearchText of service/search.go: resolve the mime  *)
(* prefixes, embed the query, query Qdrant, rerank the top of the answer,  *)
(* fold the chunks of a section, group or truncate, and look up the paths. *)
(* The backends are external: each answers what it likes, or fails.        *)
(*                                                                         *)
(* A chunk is its point in Qdrant.  Its section stands for (file_id, kind, *)
(* parent_id); None is the empty parent_id of old payloads.                *)
(***************************************************************************)
EXTENDS Rankings, SequencesExt

CONSTANTS
  Chunks,           \* the points of the collection that pass the filter
  FileOf,           \* FileOf[c]: file_id
  SectionOf,        \* SectionOf[c]: the section of c, or None
  ChunkNo,          \* ChunkNo[c]: chunk_no
  Length,           \* Length[c]: the length of c's text
  PhotoIDs,         \* the file ids that begin with "photos:"
  VectorScores,     \* the scores of Qdrant's answer, descending
  CrossScores,      \* the scores the reranker can give
  Requests,         \* [topK, rerank, group, maxChunks, mime]
  DefaultTopK, MaxTopK, RerankerCandidates,         \* config
  RerankerDisabled, ParentMergeDisabled,            \* config
  ParentMergeMaxChars,                              \* 6000 unless configured
  DefaultMaxChunks, MaxMaxChunks, MaxGroupWant,     \* 5, 20 and 100
  PhotoLookupConcurrency,                           \* 4
  None

ASSUME RetrievalAssumption ==
  /\ DOMAIN FileOf = Chunks /\ DOMAIN SectionOf = Chunks
  /\ \A c, d \in Chunks : SectionOf[c] = SectionOf[d] /\ SectionOf[c] # None => FileOf[c] = FileOf[d]
  /\ ChunkNo \in [Chunks -> Nat] /\ Length \in [Chunks -> Nat]
  /\ IsFiniteSet(Chunks)
  /\ VectorScores \in Seq(Int) /\ Len(VectorScores) >= Cardinality(Chunks)
  /\ CrossScores \subseteq Int
  /\ \A r \in Requests : r.topK \in Int /\ r.maxChunks \in Int
  /\ DefaultTopK \in Nat /\ MaxTopK \in Int /\ RerankerCandidates \in Int
  /\ DefaultMaxChunks \in Nat \ {0} /\ MaxMaxChunks \in Nat /\ MaxGroupWant \in Nat
  /\ ParentMergeMaxChars \in Nat \ {0}
  /\ PhotoLookupConcurrency \in Nat \ {0}

VARIABLES
  stage,      \* the step SearchText is at
  req,        \* the request
  warnings,   \* the warnings so far
  vec,        \* qhits: the chunks Qdrant returned, best first
  cross,      \* scoreByID, empty if nothing was reranked
  hits,       \* the hits, best first
  lookup,     \* lookup[f]: the goroutine that looks photo f up
  paths       \* the files whose path is known

vars == <<stage, req, warnings, vec, cross, hits, lookup, paths>>

-----------------------------------------------------------------------------
(***************************************************************************)
(* The limits of a request.                                                *)
(***************************************************************************)
Clamp(n, default, max) == IF n <= 0 THEN default ELSE IF max > 0 /\ n > max THEN max ELSE n
Least(i, j)    == IF i < j THEN i ELSE j
Greatest(i, j) == IF i > j THEN i ELSE j

\* The default is not exempt from the cap.
topK == LET n == Clamp(req.topK, DefaultTopK, 0) IN Clamp(n, n, MaxTopK)
maxChunks == Clamp(req.maxChunks, DefaultMaxChunks, MaxMaxChunks)

candidates ==
  LET n == Greatest(topK, RerankerCandidates)
  IN IF req.group THEN Greatest(n, Least(topK * maxChunks, MaxGroupWant)) ELSE n

Budget(n) == IF RerankerCandidates <= 0 THEN n ELSE Least(RerankerCandidates, n)

(***************************************************************************)
(* The passes over the hits.                                               *)
(***************************************************************************)
buildHit(c, score) ==
  [chunk |-> c, score |-> score, raw |-> score, cite |-> c, text |-> <<c>>, merged |-> 1]

\* The reranker's scores in place of the vector's.
Scored(hs, scores)   == {i \in DOMAIN hs : hs[i].chunk \in DOMAIN scores}
Rescored(hs, scores) == [i \in DOMAIN hs |->
  IF i \in Scored(hs, scores) THEN [hs[i] EXCEPT !.score = scores[hs[i].chunk]] ELSE hs[i]]

\* Mutant: the scored and the other hits are sorted together.
RerankHits_OneSort(hs, scores) ==
  LET all == DOMAIN hs
  IN Arranged(Rescored(hs, scores), all, ByKey(all, [i \in all |-> -Rescored(hs, scores)[i].score]))

\* The hits with a score of the reranker, best first, then the others in vector order.
RerankHits(hs, scores) ==
  LET ranked == Scored(hs, scores)
  IN Arranged(Rescored(hs, scores), ranked, ByKey(ranked, [i \in ranked |-> -scores[hs[i].chunk]]))
     \o Picked(hs, DOMAIN hs \ ranked)

SameSection(g, h) ==
  SectionOf[g.chunk] # None /\ SectionOf[g.chunk] = SectionOf[h.chunk]

\* The members of the section of the hit at i, and the places at which a section begins.
Members(hs, i) == {j \in DOMAIN hs : SameSection(hs[i], hs[j])}
Leads(hs)      == {i \in DOMAIN hs : \A j \in 1..i - 1 : ~SameSection(hs[i], hs[j])}

\* The text of a section: chunks in chunk order, one that does not fit is passed over.
NoText == [parts |-> <<>>, len |-> 0]

\* Mutant: the line feeds between chunks are not counted.
AddText_NoSeparators(acc, c) ==
  IF Length[c] = 0 \/ acc.len + Length[c] > ParentMergeMaxChars THEN acc
  ELSE [parts |-> Append(acc.parts, c), len |-> acc.len + Length[c]]

AddText(acc, c) ==
  LET len == acc.len + Length[c] + (IF acc.parts = <<>> THEN 0 ELSE 1)
  IN IF Length[c] = 0 \/ len > ParentMergeMaxChars THEN acc
     ELSE [parts |-> Append(acc.parts, c), len |-> len]

SectionText(chunks) ==
  LET upto[n \in 0..Len(chunks)] ==
        IF n = 0 THEN NoText ELSE AddText(upto[n - 1], chunks[n])
  IN upto[Len(chunks)].parts

\* The hit at i, the first of its section in rank order; the scores are the greatest of any
\* member.
Section(hs, i) ==
  LET all     == Members(hs, i)
      inOrder == Arranged([j \in DOMAIN hs |-> hs[j].chunk], all,
                          ByKey(all, [j \in all |-> ChunkNo[hs[j].chunk]]))
      top(S)  == CHOOSE n \in S : \A m \in S : m <= n
  IN [chunk  |-> hs[i].chunk,
      score  |-> top({hs[j].score : j \in all}),
      raw    |-> top({hs[j].raw : j \in all}),
      cite   |-> inOrder[1],
      text   |-> SectionText(inOrder),
      merged |-> Cardinality(all)]

Folded(hs, i) == IF Cardinality(Members(hs, i)) < 2 THEN hs[i] ELSE Section(hs, i)

\* Mutant: a section takes the place of the last of its chunks.
mergeParents_Last(hs) ==
  LET lasts == {i \in DOMAIN hs : \A j \in i + 1..Len(hs) : ~SameSection(hs[i], hs[j])}
  IN Picked([i \in DOMAIN hs |-> Folded(hs, i)], lasts)

\* Mutant: the text of a section is in rank order.
mergeParents_RankOrder(hs) ==
  Picked([i \in DOMAIN hs |->
            IF Cardinality(Members(hs, i)) < 2 THEN hs[i]
            ELSE [Folded(hs, i) EXCEPT !.text = SectionText(Picked([j \in DOMAIN hs |-> hs[j].chunk], Members(hs, i)))]],
         Leads(hs))

\* A section appears where the first, best ranked of its chunks was.
mergeParents(hs) == Picked([i \in DOMAIN hs |-> Folded(hs, i)], Leads(hs))

FileOfHit(h) == FileOf[h.chunk]
Files(hs) == {FileOfHit(hs[i]) : i \in DOMAIN hs}

\* The places at which a file begins, and the place at which the file of the hit at i does.
FileLeads(hs)    == {i \in DOMAIN hs : \A j \in 1..i - 1 : FileOfHit(hs[j]) # FileOfHit(hs[i])}
FileLead(hs, i)  == CHOOSE j \in FileLeads(hs) : FileOfHit(hs[j]) = FileOfHit(hs[i])
FilePlaces(hs, i) == {j \in DOMAIN hs : FileOfHit(hs[j]) = FileOfHit(hs[i])}

Before(I, i) == {j \in I : j < i}

Prefix(s, n) == SubSeq(s, 1, Least(n, Len(s)))

\* Mutant: the hits of a file stay where they were, between those of others.
ByFile_Scattered(hs) ==
  Picked(hs, {i \in DOMAIN hs : /\ Cardinality(Before(FileLeads(hs), FileLead(hs, i))) < topK
                                /\ Cardinality(Before(FilePlaces(hs, i), i)) < maxChunks})

\* The first files in rank order, and of each the first chunks.
ByFile(hs) ==
  LET kept == {i \in DOMAIN hs : /\ Cardinality(Before(FileLeads(hs), FileLead(hs, i))) < topK
                                 /\ Cardinality(Before(FilePlaces(hs, i), i)) < maxChunks}
  IN Arranged(hs, kept, ByKey(kept, [i \in kept |-> FileLead(hs, i)]))

(***************************************************************************)
(* The steps of SearchText.                                                *)
(***************************************************************************)
Warn(w)     == warnings' = warnings \cup {w}
GoTo(label) == stage' = label

Init ==
  /\ stage = "mime"
  /\ req \in Requests
  /\ warnings = {}
  /\ vec = <<>> /\ cross = <<>> /\ hits = <<>>
  /\ lookup = [f \in PhotoIDs |-> "none"]
  /\ paths = {}

\* A facet that cannot be had leaves the prefixes as they are; prefixes without any known
\* type end the search.
ResolveMime ==
  /\ stage = "mime"
  /\ \/ req.mime # "prefix" /\ GoTo("embed") /\ UNCHANGED warnings
     \/ /\ req.mime = "prefix"
        /\ \/ GoTo("embed") /\ (UNCHANGED warnings \/ Warn("mime_facet_unavailable"))
           \/ GoTo("done") /\ UNCHANGED warnings
  /\ UNCHANGED <<req, vec, cross, hits, lookup, paths>>

Embed ==
  /\ stage = "embed"
  /\ GoTo("query") \/ GoTo("failed")
  /\ UNCHANGED <<req, warnings, vec, cross, hits, lookup, paths>>

SearchTextHybrid ==
  /\ stage = "query"
  /\ \/ /\ GoTo("failed") /\ UNCHANGED <<vec, hits>>
     \/ /\ \E S \in SUBSET Chunks :
             Cardinality(S) <= candidates /\ vec' \in SetToSeqs(S)
        /\ hits' = [i \in DOMAIN vec' |-> buildHit(vec'[i], VectorScores[i])]
        /\ GoTo("rerank")
  /\ UNCHANGED <<req, warnings, cross, lookup, paths>>

\* The reranker gets the first Budget hits and scores some of them, or fails.
Rerank ==
  /\ stage = "rerank"
  /\ IF req.rerank /\ ~RerankerDisabled /\ hits # <<>>
     THEN \/ /\ \E S \in SUBSET {vec[i] : i \in 1..Budget(Len(hits))} :
                  cross' \in [S -> CrossScores]
             /\ hits' = RerankHits(hits, cross')
             /\ UNCHANGED warnings
          \/ Warn("rerank_unavailable") /\ UNCHANGED <<cross, hits>>
     ELSE /\ UNCHANGED <<cross, hits>>
          /\ IF req.rerank /\ RerankerDisabled THEN Warn("rerank_disabled")
                                               ELSE UNCHANGED warnings
  /\ GoTo("merge")
  /\ UNCHANGED <<req, vec, lookup, paths>>

Merge ==
  /\ stage = "merge"
  /\ hits' = IF ParentMergeDisabled THEN hits ELSE mergeParents(hits)
  /\ GoTo("cut")
  /\ UNCHANGED <<req, warnings, vec, cross, lookup, paths>>

\* Group, or truncate; without a hit there is nothing to look up.
Cut ==
  /\ stage = "cut"
  /\ hits' = IF req.group THEN ByFile(hits) ELSE Prefix(hits, topK)
  /\ GoTo(IF hits' = <<>> THEN "done"
          ELSE IF Files(hits') \subseteq PhotoIDs THEN "photos" ELSE "docs")
  /\ UNCHANGED <<req, warnings, vec, cross, lookup, paths>>

\* Parser knows the paths of some of the documents, or fails.
ExpandFiles ==
  /\ stage = "docs"
  /\ \/ Warn("path_expand_unavailable") /\ UNCHANGED paths
     \/ /\ \E known \in SUBSET (Files(hits) \ PhotoIDs) : paths' = paths \cup known
        /\ UNCHANGED warnings
  /\ GoTo("photos")
  /\ UNCHANGED <<req, vec, cross, hits, lookup>>

Photos == Files(hits) \cap PhotoIDs
InFlight == {f \in PhotoIDs : lookup[f] = "flight"}

\* Mutant: no semaphore.
GetAsset_All(f) ==
  /\ stage = "photos" /\ f \in Photos /\ lookup[f] = "none"
  /\ lookup' = [lookup EXCEPT ![f] = "flight"]
  /\ UNCHANGED <<stage, req, warnings, vec, cross, hits, paths>>

\* Mutant: a goroutine whose photo is gone returns without giving its turn back.
GetAsset_GoneKeepsTurn(f) ==
  /\ stage = "photos" /\ f \in Photos /\ lookup[f] = "none"
  /\ Cardinality({g \in Photos : lookup[g] \in {"flight", "gone"}}) < PhotoLookupConcurrency
  /\ lookup' = [lookup EXCEPT ![f] = "flight"]
  /\ UNCHANGED <<stage, req, warnings, vec, cross, hits, paths>>

\* The goroutine of a photo passes the semaphore and asks Photos.
GetAsset(f) ==
  /\ stage = "photos" /\ f \in Photos /\ lookup[f] = "none"
  /\ Cardinality(InFlight) < PhotoLookupConcurrency
  /\ lookup' = [lookup EXCEPT ![f] = "flight"]
  /\ UNCHANGED <<stage, req, warnings, vec, cross, hits, paths>>

\* The asset, its absence, or an error (the 2 s timeout is one).
GotAsset(f) ==
  /\ lookup[f] = "flight"
  /\ \E answer \in {"found", "gone", "failed"} : lookup' = [lookup EXCEPT ![f] = answer]
  /\ UNCHANGED <<stage, req, warnings, vec, cross, hits, paths>>

\* Mutant: the first error ends the wait.
ExpandedPhotos_FirstError ==
  /\ stage = "photos"
  /\ \/ \E f \in Photos : lookup[f] = "failed"
     \/ \A f \in Photos : lookup[f] \in {"found", "gone", "failed"}
  /\ paths' = paths \cup {f \in Photos : lookup[f] = "found"}
  /\ IF \E f \in Photos : lookup[f] = "failed" THEN Warn("photo_expand_unavailable")
                                               ELSE UNCHANGED warnings
  /\ GoTo("done")
  /\ UNCHANGED <<req, vec, cross, hits, lookup>>

\* Mutant: an asset that is gone counts as a failure.
ExpandedPhotos_GoneWarns ==
  /\ stage = "photos"
  /\ \A f \in Photos : lookup[f] \in {"found", "gone", "failed"}
  /\ paths' = paths \cup {f \in Photos : lookup[f] = "found"}
  /\ IF \E f \in Photos : lookup[f] # "found" THEN Warn("photo_expand_unavailable")
                                               ELSE UNCHANGED warnings
  /\ GoTo("done")
  /\ UNCHANGED <<req, vec, cross, hits, lookup>>

\* wg.Wait
ExpandedPhotos ==
  /\ stage = "photos"
  /\ \A f \in Photos : lookup[f] \in {"found", "gone", "failed"}
  /\ paths' = paths \cup {f \in Photos : lookup[f] = "found"}
  /\ IF \E f \in Photos : lookup[f] = "failed" THEN Warn("photo_expand_unavailable")
                                               ELSE UNCHANGED warnings
  /\ GoTo("done")
  /\ UNCHANGED <<req, vec, cross, hits, lookup>>

Lookups == ExpandedPhotos \/ \E f \in PhotoIDs : GetAsset(f) \/ GotAsset(f)

Next ==
  \/ ResolveMime \/ Embed \/ SearchTextHybrid \/ Rerank \/ Merge \/ Cut
  \/ ExpandFiles \/ Lookups

Spec == Init /\ [][Next]_vars

\* A lookup has a timeout of 2 s, so it returns; nothing is asked of the calls before it.
FairSpec == Spec /\ WF_vars(Lookups)

\* FileGroup: a file with its chunks, when the request groups.
GroupOf(f) == Picked(hits, {i \in DOMAIN hits : FileOfHit(hits[i]) = f})

(***************************************************************************)
(* Properties.  The ranking is stated once more, of chunks and without a   *)
(* sequence of passes.                                                     *)
(***************************************************************************)
Pos(c) == CHOOSE i \in DOMAIN vec : vec[i] = c
Reranked(c) == c \in DOMAIN cross

\* The reranker's order comes first, the vector order behind it and between equal scores.
Precedes(c, d) ==
  IF Reranked(c) /\ Reranked(d) /\ cross[c] # cross[d] THEN cross[c] > cross[d]
  ELSE IF Reranked(c) # Reranked(d) THEN Reranked(c)
  ELSE Pos(c) < Pos(d)

Found == {vec[i] : i \in DOMAIN vec}
Siblings(c) == {d \in Found : d = c \/ (~ParentMergeDisabled /\ SectionOf[c] # None
                                                            /\ SectionOf[d] = SectionOf[c])}
\* The chunks that speak for their section.
Bests == {c \in Found : \A d \in Siblings(c) \ {c} : Precedes(c, d)}

\* The length of the chunks t with a line feed between them
TextLength(t) ==
  LET upto[n \in 0..Len(t)] ==
        IF n = 0 THEN 0 ELSE upto[n - 1] + Length[t[n]] + (IF n = 1 THEN 0 ELSE 1)
  IN upto[Len(t)]

Shown == {hits[i].chunk : i \in DOMAIN hits}
Served == stage \in {"docs", "photos", "done"}

\* The limits hold, warnings are the known ones, hits are chunks Qdrant returned.
TypeOK ==
  /\ stage \in {"mime", "embed", "query", "rerank", "merge", "cut", "docs", "photos", "done", "failed"}
  /\ req \in Requests
  /\ warnings \subseteq {"mime_facet_unavailable", "rerank_unavailable", "rerank_disabled",
                         "path_expand_unavailable", "photo_expand_unavailable"}
  /\ Shown \subseteq Found
  /\ \A i \in DOMAIN hits : hits[i].cite \in Found /\ hits[i].merged \in 1..Len(vec)
  /\ lookup \in [PhotoIDs -> {"none", "flight", "found", "gone", "failed"}]
  /\ Cardinality(InFlight) <= PhotoLookupConcurrency
  /\ paths \subseteq Files(hits)

\* The answer is the best topK sections, best first, each once and in the place of its best
\* chunk: cross-encoder scores and vector scores are never interleaved, folding does not
\* reorder, and the cut takes nothing that ranks before something it leaves.
BestSectionsFirst ==
  Served /\ ~req.group =>
    /\ \A i, j \in DOMAIN hits : i < j => Precedes(hits[i].chunk, hits[j].chunk)
    /\ Shown \subseteq Bests
    /\ Len(hits) = Least(topK, Cardinality(Bests))
    /\ \A c \in Bests \ Shown, d \in Shown : Precedes(d, c)

\* Grouped, the answer is the topK files that have the best chunks, in that order, each with
\* the best of its sections; so the first hit is the same whether the request groups or not.
BestFilesFirst ==
  Served /\ req.group =>
    LET bests == Bests
        files == {FileOf[c] : c \in Found}
        own   == [f \in files |-> {c \in bests : FileOf[c] = f}]
        lead  == [f \in files |-> CHOOSE c \in bests :
                    FileOf[c] = f /\ \A d \in bests \ {c} : FileOf[d] = f => Precedes(c, d)]
    IN /\ Cardinality(Files(hits)) = Least(topK, Cardinality(files))
       /\ \A f \in files \ Files(hits), g \in Files(hits) : Precedes(lead[g], lead[f])
       /\ \A i, j \in DOMAIN hits : i < j /\ FileOfHit(hits[i]) # FileOfHit(hits[j]) =>
            Precedes(lead[FileOfHit(hits[i])], lead[FileOfHit(hits[j])])
       /\ \A f \in Files(hits) :
            /\ Len(GroupOf(f)) = Least(maxChunks, Cardinality(own[f]))
            /\ GroupOf(f)[1].chunk = lead[f]
            /\ \A c \in own[f] \ Shown, d \in own[f] \cap Shown : Precedes(d, c)

\* A folded hit reads in document order, holds text of its own section only, within the cap,
\* and accounts for every chunk of the section that was found; text is left out only where it
\* has no room.
SectionsReadInOrder ==
  Served => \A i \in DOMAIN hits :
    LET h == hits[i] IN
    /\ h.merged = Cardinality(Siblings(h.chunk))
    /\ \A c \in Siblings(h.chunk) : ChunkNo[h.cite] <= ChunkNo[c]
    /\ \A m, n \in DOMAIN h.text : m < n => ChunkNo[h.text[m]] <= ChunkNo[h.text[n]]
                                             /\ h.text[m] # h.text[n]
    /\ \A n \in DOMAIN h.text : h.text[n] \in Siblings(h.chunk)
    /\ h.merged > 1 => TextLength(h.text) <= ParentMergeMaxChars
    /\ \A c \in Siblings(h.chunk) :
         \/ Length[c] = 0 \/ \E n \in DOMAIN h.text : h.text[n] = c
         \/ TextLength(Append(h.text, c)) > ParentMergeMaxChars

\* Looking paths up is cosmetic: one asset that is missing or fails takes no path from another,
\* and the warning tells failures from absences: it is given when a lookup failed, and only then.
LookupsIndependent ==
  stage = "done" =>
    /\ \A f \in Photos : /\ lookup[f] \in {"found", "gone", "failed"}
                         /\ f \in paths <=> lookup[f] = "found"
    /\ "photo_expand_unavailable" \in warnings <=> \E f \in Photos : lookup[f] = "failed"

\* A search that looks photos up is answered: a lookup that fails or finds nothing gives its turn
\* back to those that wait for one.
Answered == stage = "photos" ~> stage = "done"

=============================================================================
