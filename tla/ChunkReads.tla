----------------------------- MODULE ChunkReads -----------------------------
(***************************************************************************)
(* Reading a file back from its chunks (service/authz.go): a list of the   *)
(* chunks, a window around one, a whole section, and the text of the       *)
(* document, which an agent reads in turns of max_chars.  Qdrant hands out *)
(* the points of a file in the order of their ids, a page at a time, and   *)
(* may be given another version of the file between two pages.             *)
(*                                                                         *)
(* The text of a chunk is a sequence of symbols; where offsets are known   *)
(* the symbol of a character is its place in the document; the others are  *)
(* not positive.  A page marker is one symbol.  allowedRoots only          *)
(* restricts the points: Versions are what a caller is shown.              *)
(***************************************************************************)
EXTENDS Rankings, SequencesExt

CONSTANTS
  Versions,         \* the sets of points that a file can consist of
  Reads,            \* [kind, anchor, window, offset, limit, max]
  ScrollLimit,      \* 500
  WindowLimit,      \* 1000, of which GetChunkWindow reads one page
  parentMaxChunks,  \* 50
  MaxReindex,       \* bounds the changes of the file
  NoParent, NoPage

Newline == 0
NoOffset == -1

\* The kinds of chunks, as strings compare.
Kinds == <<"body", "caption", "ocr", "summary", "transcript">>

\* The points of a file, each with the place of its id in the order of ids.
Point(p) ==
  /\ {"id", "kind", "no", "parent", "page", "from", "to", "text"} = DOMAIN p
  /\ p.id \in Nat \ {0} /\ p.kind \in Range(Kinds) /\ p.no \in Nat
  /\ p.page \in Nat \cup {NoPage}
  /\ p.text \in Seq(Int)
  /\ \/ /\ p.from = NoOffset /\ p.to = NoOffset
        /\ \A i \in DOMAIN p.text : p.text[i] <= 0
     \/ /\ p.from \in Nat /\ p.to = p.from + Len(p.text)
        /\ \A i \in DOMAIN p.text : p.text[i] = p.from + i

\* Parser numbers the chunks of each kind; a document is read from its start.
ASSUME ReadsAssumption ==
  /\ \A v \in Versions :
       /\ IsFiniteSet(v) /\ \A p \in v : Point(p)
       /\ \A p, q \in v : p.id = q.id \/ (p.kind = q.kind /\ p.no = q.no) => p = q
  /\ \A r \in Reads :
       /\ r.kind \in {"file", "window", "parent", "document"}
       /\ {"kind", "anchor", "window", "offset", "limit", "max"} = DOMAIN r
       /\ r.anchor.no \in Int /\ r.window \in Int
       /\ r.offset \in Int /\ r.limit \in Nat /\ r.max \in Int
       /\ r.kind = "document" => r.offset <= 0
  /\ ScrollLimit \in Nat \ {0} /\ WindowLimit \in Nat \ {0} /\ parentMaxChunks \in Nat
  /\ MaxReindex \in Nat

VARIABLES
  store,     \* the points of the file in Qdrant
  read,      \* the call in progress
  phase,     \* "idle", "scroll", "build", "answer"
  got,       \* the hits scrolled so far
  off,       \* the id the next page begins at
  answer,    \* what the call returns: a sequence, of chunk numbers or of symbols
  next,      \* next_offset, 0 when the text was not truncated
  joined,    \* the turns of a document that the agent has read so far
  changes,   \* the number of changes of the file so far
  steady,    \* history: the file has not changed since the agent's first turn
  stays      \* history: the ids in every version of the file since the call began

vars == <<store, read, phase, got, off, answer, next, joined, changes, steady, stays>>

-----------------------------------------------------------------------------
Marker(page) == -page

KindRank(k) == CHOOSE i \in DOMAIN Kinds : Kinds[i] = k

\* The order of a list of chunks: by kind, then by number.
Listed(k, n, l, m) == KindRank(k) < KindRank(l) \/ (k = l /\ n < m)

IdOrder(S) == {e \in S \X S : e[1].id < e[2].id}
ById(S)    == Ranked(S, IdOrder(S))

\* The hits at the places I by number, and all hits by kind and number.
ByNo(s, I) == Arranged(s, I, ByKey(I, [i \in I |-> s[i].no]))
ListOrder(s) ==
  {e \in (DOMAIN s) \X (DOMAIN s) :
     LET p == s[e[1]]  q == s[e[2]]
     IN Listed(p.kind, p.no, q.kind, q.no) \/ (p.kind = q.kind /\ p.no = q.no /\ e[1] < e[2])}
ByKindNo(s) == Arranged(s, DOMAIN s, ListOrder(s))

Least(i, j) == IF i < j THEN i ELSE j
First(s, n) == SubSeq(s, 1, Least(n, Len(s)))
Numbers(s)  == [i \in DOMAIN s |-> <<s[i].kind, s[i].no>>]

Limit == IF read.kind = "window" THEN WindowLimit ELSE ScrollLimit

Ids(S) == {p.id : p \in S}

\* Mutant: a page begins at the point that was announced, and nowhere if it is gone.
Left_Exact ==
  IF off = 0 \/ off \in Ids(store) THEN {p \in store : p.id >= off} ELSE {}

\* ScrollByFileID: a page, and the id that the next one begins at, or 0.
Left == {p \in store : p.id >= off}
Page == First(ById(Left), Limit)

\* Mutant: the next page begins with the last point of this one.
Following_Last(page) ==
  IF Left = Range(page) THEN 0 ELSE page[Len(page)].id

Following(page) ==
  LET rest == Left \ Range(page)
  IN IF rest = {} THEN 0 ELSE ById(rest)[1].id

(***************************************************************************)
(* What each call makes of its hits.                                       *)
(***************************************************************************)
\* Mutant: the end of the page is an index, and the start is not.
GetFileChunks_End(hits) ==
  LET all == ByKindNo(hits)
  IN IF hits = <<>> THEN <<>>
     ELSE Numbers(SubSeq(all, Least(read.offset, Len(all)) + 1, Least(read.limit, Len(all))))

GetFileChunks(hits) ==
  LET all   == ByKindNo(hits)
      start == Least(read.offset, Len(all))
  IN IF hits = <<>> THEN <<>>
     ELSE Numbers(SubSeq(all, start + 1, Least(start + read.limit, Len(all))))

\* Mutant: neighbours of any kind.
GetChunkWindow_AnyKind(hits) ==
  Numbers(ByNo(hits, {i \in DOMAIN hits :
    hits[i].no \in read.anchor.no - read.window..read.anchor.no + read.window}))

GetChunkWindow(hits) ==
  Numbers(ByNo(hits, {i \in DOMAIN hits :
    /\ hits[i].kind = read.anchor.kind
    /\ hits[i].no \in read.anchor.no - read.window..read.anchor.no + read.window}))

IsAnchor(p) == p.kind = read.anchor.kind /\ p.no = read.anchor.no

\* The first hit that is the anchor.
Anchor(hits) ==
  LET anchors == {i \in DOMAIN hits : IsAnchor(hits[i])}
  IN hits[CHOOSE i \in anchors : \A j \in anchors : i <= j]

\* Mutant: an anchor without a parent gets all the chunks that have none.
GetParentChunks_NoParent(hits) ==
  IF ~\E i \in DOMAIN hits : IsAnchor(hits[i]) THEN <<>>
  ELSE Numbers(First(ByNo(hits, {i \in DOMAIN hits :
         hits[i].kind = read.anchor.kind /\ hits[i].parent = Anchor(hits).parent}),
       parentMaxChunks))

\* Mutant: the limit is applied before the hits are sorted.
GetParentChunks_CutFirst(hits) ==
  LET members == {i \in DOMAIN hits :
        /\ hits[i].kind = read.anchor.kind
        /\ IF Anchor(hits).parent = NoParent THEN hits[i].no = read.anchor.no
           ELSE hits[i].parent = Anchor(hits).parent}
  IN IF ~\E i \in DOMAIN hits : IsAnchor(hits[i]) THEN <<>>
     ELSE Numbers(ByNo(hits, {i \in members :
                         Cardinality({j \in members : j < i}) < parentMaxChunks}))

\* Of a long section the first chunks, with the anchor or without.
GetParentChunks(hits) ==
  IF ~\E i \in DOMAIN hits : IsAnchor(hits[i]) THEN <<>>
  ELSE Numbers(First(ByNo(hits, {i \in DOMAIN hits :
         /\ hits[i].kind = read.anchor.kind
         /\ IF Anchor(hits).parent = NoParent THEN hits[i].no = read.anchor.no
            ELSE hits[i].parent = Anchor(hits).parent}),
       parentMaxChunks))

\* A marker when the page changes, and what of a chunk lies beyond the cursor.
PageTurn(acc, c) ==
  IF c.page # NoPage /\ c.page # acc.page THEN <<Marker(c.page)>> ELSE <<>>

Beyond(acc, c) ==
  IF c.from = NoOffset THEN Append(c.text, Newline)
  ELSE LET skip == IF c.from < acc.cursor THEN acc.cursor - c.from ELSE 0
       IN SubSeq(c.text, 1 + skip, Len(c.text))

\* Mutant: the cursor follows the last chunk, also backwards.
Stitch_Last(acc, c) ==
  [text   |-> acc.text \o PageTurn(acc, c) \o Beyond(acc, c),
   cursor |-> IF c.from = NoOffset THEN acc.cursor ELSE c.to,
   page   |-> IF c.page = NoPage THEN acc.page ELSE c.page]

\* One more chunk.
Stitch(acc, c) ==
  [text   |-> acc.text \o PageTurn(acc, c) \o Beyond(acc, c),
   cursor |-> IF c.from = NoOffset \/ c.to <= acc.cursor THEN acc.cursor ELSE c.to,
   page   |-> IF c.page = NoPage THEN acc.page ELSE c.page]

Blank == [text |-> <<>>, cursor |-> 0, page |-> NoPage]

Stitched(body) ==
  LET upto[n \in 0..Len(body)] == IF n = 0 THEN Blank ELSE Stitch(upto[n - 1], body[n])
  IN upto[Len(body)].text

FullText(hits) == Stitched(ByNo(hits, {i \in DOMAIN hits : hits[i].kind = "body"}))

Start(total) == Least(IF read.offset < 0 THEN 0 ELSE read.offset, total)
End(total) ==
  IF read.max <= 0 THEN total ELSE Least(Start(total) + read.max, total)

NextOffset(total) == IF End(total) < total THEN End(total) ELSE 0

(***************************************************************************)
(* The calls.                                                              *)
(***************************************************************************)
Call(r) ==
  /\ read' = r
  /\ phase' = "scroll"
  /\ got' = <<>> /\ off' = 0
  /\ answer' = <<>> /\ next' = 0
  /\ stays' = Ids(store)

Begin ==
  /\ phase = "idle"
  /\ \E r \in Reads : Call(r)
  /\ joined' = <<>>
  /\ steady' = TRUE
  /\ UNCHANGED <<store, changes>>

\* The agent calls again "with offset=next_offset".
NextTurn ==
  /\ phase = "answer" /\ next # 0
  /\ Call([read EXCEPT !.offset = next])
  /\ UNCHANGED <<store, joined, changes, steady>>

Scroll ==
  /\ phase = "scroll"
  /\ got' = got \o Page
  /\ off' = IF read.kind = "window" THEN 0 ELSE Following(Page)
  /\ phase' = IF off' = 0 THEN "build" ELSE "scroll"
  /\ UNCHANGED <<store, read, answer, next, joined, changes, steady, stays>>

\* The route passes a negative offset on, and all[start:end] panics: net/http drops the
\* connection, and the caller gets no answer.
SlicePanics == read.kind = "file" /\ read.offset < 0 /\ got # <<>>

Panic ==
  /\ phase = "build" /\ SlicePanics
  /\ phase' = "idle"
  /\ got' = <<>>
  /\ UNCHANGED <<store, read, off, answer, next, joined, changes, steady, stays>>

\* Nothing found is ErrFileNotInScope, a 404.
Build ==
  /\ phase = "build" /\ ~SlicePanics
  /\ phase' = "answer"
  /\ IF read.kind = "document"
     THEN LET full == FullText(got) IN
          /\ answer' = SubSeq(full, Start(Len(full)) + 1, End(Len(full)))
          /\ next' = NextOffset(Len(full))
     ELSE /\ answer' = CASE read.kind = "file" -> GetFileChunks(got)
                         [] read.kind = "window" -> GetChunkWindow(got)
                         [] read.kind = "parent" -> GetParentChunks(got)
          /\ next' = 0
  /\ joined' = joined \o answer'
  /\ UNCHANGED <<store, read, got, off, changes, steady, stays>>

\* Qdrant fails: 500, and what was collected is lost.
ScrollError ==
  /\ phase = "scroll"
  /\ phase' = "idle"
  /\ got' = <<>> /\ off' = 0
  /\ UNCHANGED <<store, read, answer, next, joined, changes, steady, stays>>

Close ==
  /\ phase = "answer" /\ next = 0
  /\ phase' = "idle"
  /\ got' = <<>> /\ answer' = <<>> /\ joined' = <<>>
  /\ UNCHANGED <<store, read, off, next, changes, steady, stays>>

\* Parser indexes a new version of the file.
Reindex ==
  /\ changes < MaxReindex
  /\ changes' = changes + 1
  /\ store' \in Versions \ {store}
  /\ steady' = FALSE
  /\ stays' = stays \cap Ids(store')
  /\ UNCHANGED <<read, phase, got, off, answer, next, joined>>

Init ==
  /\ store \in Versions
  /\ read \in Reads
  /\ phase = "idle"
  /\ got = <<>> /\ off = 0 /\ answer = <<>> /\ next = 0 /\ joined = <<>>
  /\ changes = 0
  /\ steady = TRUE
  /\ stays = {}

Handle == Scroll \/ Build \/ Panic \/ ScrollError \/ NextTurn \/ Close

Next == Begin \/ Handle \/ Reindex

Spec == Init /\ [][Next]_vars

(***************************************************************************)
(* Properties.                                                             *)
(***************************************************************************)
Answered == phase = "answer" /\ steady
Chunks(kind, test(_)) == {p \in store : p.kind = kind /\ test(p)}
Keys(S) == {<<p.kind, p.no>> : p \in S}
Increasing(s) == \A i, j \in DOMAIN s : i < j => s[i][2] < s[j][2]

\* A call is in one of its phases, and never holds a hit twice, whatever becomes of the file.
TypeOK ==
  /\ store \in Versions
  /\ read.kind \in {"file", "window", "parent", "document"}
  /\ phase \in {"idle", "scroll", "build", "answer"}
  /\ \A i, j \in DOMAIN got : i # j => got[i].id # got[j].id
  /\ off \in Nat /\ next \in Nat /\ changes \in 0..MaxReindex
  /\ next # 0 => phase = "answer" /\ answer # <<>>

\* A file that changes between two pages is read in parts of several versions; but a point that
\* stays in it is not passed over, whatever becomes of the points around it.
StayingAreRead ==
  phase \in {"build", "answer"} /\ read.kind # "window" => stays \subseteq Ids(Range(got))

\* The pages of a chunk list are the slices of one order: every chunk is on one of them.  A
\* negative offset, which the route lets through, has no page: it is answered only when there is
\* nothing to list.
FilePage ==
  Answered /\ read.kind = "file" =>
    \/ read.offset < 0 /\ store = {} /\ answer = <<>>
    \/ /\ read.offset >= 0
       /\ Len(answer) = Least(read.limit, IF Cardinality(store) < read.offset THEN 0
                                          ELSE Cardinality(store) - read.offset)
       /\ \A i \in DOMAIN answer :
            Cardinality({p \in store : Listed(p.kind, p.no, answer[i][1], answer[i][2])})
              = read.offset + i - 1

\* A section is read alone and in order, from any of its chunks, wherever its points are in the
\* order of ids: whole if it has at most parentMaxChunks chunks, else the first of them, among
\* which the anchor need not be; a chunk without a section is read by itself.
WholeSection ==
  Answered /\ read.kind = "parent" =>
    LET anchor == {p \in store : IsAnchor(p)}
        section == {p \in store : \E a \in anchor : p = a \/ /\ a.parent # NoParent
                                                             /\ p.kind = a.kind
                                                             /\ p.parent = a.parent}
    IN /\ Increasing(answer) /\ Range(answer) \subseteq Keys(section)
       /\ Len(answer) = Least(parentMaxChunks, Cardinality(section))
       /\ \A p \in section : \/ <<p.kind, p.no>> \in Range(answer)
                             \/ \A i \in DOMAIN answer : answer[i][2] < p.no

\* A window shows the neighbours of the anchor and no other chunk; it shows them all if the
\* file has no more chunks than one page.
WindowShowsNeighbours ==
  Answered /\ read.kind = "window" =>
    LET near(p) == p.no - read.anchor.no \in -read.window..read.window
        all == Keys(Chunks(read.anchor.kind, near))
    IN /\ Increasing(answer) /\ Range(answer) \subseteq all
       /\ Cardinality(store) <= WindowLimit => Range(answer) = all

Monotone == \A p, q \in store :
  p.kind = "body" /\ q.kind = "body" /\ p.no < q.no => p.from <= q.from

\* Overlapping chunks repeat no character and lose none: the turns that an agent reads, put
\* together, have every indexed character of the document once, in order.
TurnsMakeTheDocument ==
  Answered /\ read.kind = "document" /\ next = 0 /\ Monotone =>
    LET chars == {x \in UNION {Range(p.text) : p \in Chunks("body", LAMBDA p : TRUE)} : x > 0}
    IN /\ {x \in Range(joined) : x > 0} = chars
       /\ \A i, j \in DOMAIN joined : i < j /\ joined[i] > 0 /\ joined[j] > 0 => joined[i] < joined[j]

=============================================================================
