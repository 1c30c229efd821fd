---------------------------- MODULE MCRetrieval -----------------------------
(***************************************************************************)
(* A document and two photos.  The document has a chunk without a parent   *)
(* and a section of three chunks, of which the first and the last fit      *)
(* together and the middle one fits with neither.                          *)
(***************************************************************************)
EXTENDS Retrieval, TLC

CONSTANTS a1, a2, a3, a4, p1, p2, doc_a, photo_1, photo_2, sec

MCFileOf    == a1 :> doc_a @@ a2 :> doc_a @@ a3 :> doc_a @@ a4 :> doc_a @@ p1 :> photo_1 @@ p2 :> photo_2
MCSectionOf == [c \in Chunks |-> IF c \in {a1, a2, a3} THEN sec ELSE None]
MCChunkNo   == a1 :> 1 @@ a2 :> 2 @@ a3 :> 3 @@ a4 :> 4 @@ p1 :> 0 @@ p2 :> 0
MCLength    == a1 :> 2 @@ a2 :> 3 @@ a3 :> 2 @@ a4 :> 2 @@ p1 :> 1 @@ p2 :> 1
MCVectorScores == <<9, 8, 7, 6, 5, 4, 3>>

Request(k, r, g, n, m) == [topK |-> k, rerank |-> r, group |-> g, maxChunks |-> n, mime |-> m]
MCRequests ==
  {Request(k, r, FALSE, 0, "none") : k \in {1, 9}, r \in BOOLEAN}
  \cup {Request(0, TRUE, TRUE, 1, "none"), Request(2, TRUE, TRUE, 9, "none")}
  \cup {Request(1, TRUE, TRUE, 0, "prefix")}

=============================================================================
