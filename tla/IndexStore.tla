----------------------------- MODULE IndexStore -----------------------------
(***************************************************************************)
(* The tables of the filename index (service/fileindex/index.go): the rows *)
(* of file_index and the FTS5 table that search joins them with.  Nothing  *)
(* but the code of Upsert, DeletePrefix and PurgeOutside keeps the two in  *)
(* step, and each of these is a series of SQL statements without a         *)
(* transaction.  The handle has one connection, so a statement is one      *)
(* action, and a search, which keeps the connection until its rows are     *)
(* read, sees one state.  What can come between two statements is another  *)
(* writer (the watcher, a reconcile, a rescan), an error, or a crash.      *)
(*                                                                         *)
(* A path is the sequence of its names.  LIKE does not compare names with  *)
(* "=": it ignores the case of ASCII letters, and an underscore in the     *)
(* pattern stands for any character.                                       *)
(***************************************************************************)
EXTENDS Integers, Sequences, FiniteSets

CONSTANTS
  Writers,    \* the goroutines that write to the index
  Names,      \* the names of files and directories
  Like,       \* the pairs <<n, m>> where n, as a LIKE pattern, matches m
  Paths,      \* the paths that get indexed
  RootSets,   \* the root lists PurgeOutside is called with
  MaxFaults   \* bounds the statements that fail and the crashes

ASSUME StoreAssumption ==
  /\ IsFiniteSet(Writers)
  /\ Paths \subseteq Seq(Names) \ {<<>>}
  /\ Like \subseteq Names \X Names /\ \A n \in Names : <<n, n>> \in Like
  /\ RootSets \subseteq SUBSET Seq(Names)
  /\ MaxFaults \in Nat

VARIABLES
  ftsOK,    \* Index.ftsOK: this SQLite has the trigram tokenizer
  rows,     \* the paths in file_index
  fts,      \* fts[p]: the number of rows that file_name_fts has for p
  op,       \* op[w]: the operation of writer w
  faults,   \* the failed statements and crashes so far
  solo,     \* history: solo[w], the paths of op[w] that no other operation met meanwhile
  settled   \* history: the paths that the last operation on them had to itself, to the end

vars == <<ftsOK, rows, fts, op, faults, solo, settled>>

NoOp == [kind |-> "none", on |-> {}, step |-> 0]

IsBelow(q, p) == Len(q) > Len(p) /\ \A i \in DOMAIN p : q[i] = p[i]

\* WHERE path=? OR path LIKE ?||'/%'
Matches(p) ==
  {q \in Paths : \/ q = p
                 \/ Len(q) > Len(p) /\ \A i \in DOMAIN p : <<p[i], q[i]>> \in Like}

\* WHERE NOT (path = ? OR substr(path, 1, length(?)) = ? OR ...); with no root, all of them
Outside(roots) == {q \in Paths : \A r \in roots : q # r /\ ~IsBelow(q, r)}

Init ==
  /\ ftsOK \in BOOLEAN
  /\ rows = {}
  /\ fts = [p \in Paths |-> 0]
  /\ op = [w \in Writers |-> NoOp]
  /\ faults = 0
  /\ solo = [w \in Writers |-> {}]
  /\ settled = Paths

-----------------------------------------------------------------------------
Begin(w, kind, on) ==
  /\ op[w] = NoOp
  /\ op' = [op EXCEPT ![w] = [kind |-> kind, on |-> on, step |-> 1]]
  /\ solo' = [v \in Writers |-> IF v = w THEN on \ UNION {op[u].on : u \in Writers}
                                         ELSE solo[v] \ on]
  /\ settled' = settled \ on
  /\ UNCHANGED <<ftsOK, rows, fts, faults>>

Upsert(w, p)           == Begin(w, "upsert", {p})
DeletePrefix(w, p)     == Begin(w, "delete", Matches(p))
PurgeOutside(w, roots) == Begin(w, "delete", Outside(roots))

Finish(w, done) ==
  /\ op' = [op EXCEPT ![w] = NoOp]
  /\ solo' = [solo EXCEPT ![w] = {}]
  /\ settled' = settled \cup done

Continue(w) ==
  /\ op' = [op EXCEPT ![w].step = @ + 1]
  /\ UNCHANGED <<solo, settled>>

\* The statement on file_index; without FTS it is the only one.
WriteRows(w) ==
  /\ op[w].step = 1
  /\ rows' = IF op[w].kind = "upsert" THEN rows \cup op[w].on ELSE rows \ op[w].on
  /\ IF ftsOK THEN Continue(w) ELSE Finish(w, solo[w])
  /\ UNCHANGED <<ftsOK, fts, faults>>

\* Mutant: an Upsert inserts the FTS row without deleting the old one.
DeleteFts_NotOnUpsert(w) ==
  /\ op[w].step = 2
  /\ fts' = IF op[w].kind = "upsert" THEN fts
            ELSE [p \in Paths |-> IF p \in op[w].on THEN 0 ELSE fts[p]]
  /\ IF op[w].kind = "upsert" THEN Continue(w) ELSE Finish(w, solo[w])
  /\ UNCHANGED <<ftsOK, rows, faults>>

\* Mutant: the delete takes one of the FTS rows of a path.
DeleteFts_One(w) ==
  /\ op[w].step = 2
  /\ fts' = [p \in Paths |-> IF p \in op[w].on THEN fts[p] - 1 ELSE fts[p]]
  /\ IF op[w].kind = "upsert" THEN Continue(w) ELSE Finish(w, solo[w])
  /\ UNCHANGED <<ftsOK, rows, faults>>

DeleteFts(w) ==
  /\ op[w].step = 2
  /\ fts' = [p \in Paths |-> IF p \in op[w].on THEN 0 ELSE fts[p]]
  /\ IF op[w].kind = "upsert" THEN Continue(w) ELSE Finish(w, solo[w])
  /\ UNCHANGED <<ftsOK, rows, faults>>

\* Mutant: the old FTS row is deleted after the new one is inserted.
InsertFts_First(w) ==
  /\ op[w].step = 3
  /\ fts' = [p \in Paths |-> IF p \in op[w].on THEN 0 ELSE fts[p]]
  /\ Finish(w, solo[w])
  /\ UNCHANGED <<ftsOK, rows, faults>>

InsertFts(w) ==
  /\ op[w].step = 3
  /\ fts' = [p \in Paths |-> IF p \in op[w].on THEN fts[p] + 1 ELSE fts[p]]
  /\ Finish(w, solo[w])
  /\ UNCHANGED <<ftsOK, rows, faults>>

\* A statement returns an error.  That of the FTS delete is ignored; the others are returned,
\* and what the statements before them did stays.
Fail(w) ==
  /\ faults < MaxFaults
  /\ faults' = faults + 1
  /\ op[w] # NoOp
  /\ IF op[w].step = 2 /\ op[w].kind = "upsert"
     THEN /\ op' = [op EXCEPT ![w].step = 3]
          /\ solo' = [solo EXCEPT ![w] = {}]
          /\ UNCHANGED settled
     ELSE Finish(w, {})
  /\ UNCHANGED <<ftsOK, rows, fts>>

\* The process dies and is started again; statements that ran are in the WAL.
Crash ==
  /\ faults < MaxFaults
  /\ faults' = faults + 1
  /\ op' = [w \in Writers |-> NoOp]
  /\ solo' = [w \in Writers |-> {}]
  /\ UNCHANGED <<ftsOK, rows, fts, settled>>

Next ==
  \/ \E w \in Writers :
       \/ \E p \in Paths : Upsert(w, p) \/ DeletePrefix(w, p)
       \/ \E roots \in RootSets : PurgeOutside(w, roots)
       \/ WriteRows(w) \/ DeleteFts(w) \/ InsertFts(w) \/ Fail(w)
  \/ Crash

Spec == Init /\ [][Next]_vars

\* How often a search that p matches lists p: candidateRows joins the two tables, or reads
\* file_index alone.
Listed(p) == IF p \notin rows THEN 0 ELSE IF ftsOK THEN fts[p] ELSE 1

(***************************************************************************)
(* Properties.                                                             *)
(***************************************************************************)
\* The tables hold indexed paths, and an operation is at one of its statements.
TypeOK ==
  /\ ftsOK \in BOOLEAN
  /\ rows \in SUBSET Paths
  /\ fts \in [Paths -> Nat]
  /\ op \in [Writers -> [kind : {"none", "upsert", "delete"}, on : SUBSET Paths, step : 0..3]]
  /\ faults \in 0..MaxFaults
  /\ solo \in [Writers -> SUBSET Paths]
  /\ settled \in SUBSET Paths

\* An operation that has a path to itself leaves it right, whatever errors, crashes and
\* crossed operations went before: exactly the indexed paths are found, and once each.
LastWriterRepairs ==
  \A p \in settled : /\ Listed(p) = (IF p \in rows THEN 1 ELSE 0)
                     /\ ftsOK => fts[p] = Listed(p)

\* However upserts of one path cross, they leave no more than one row each in the FTS table:
\* duplicates do not pile up from one pass to the next.
DuplicatesBounded == \A p \in Paths : fts[p] <= Cardinality(Writers) + faults

\* "The FTS shadow table is synced manually" (PurgeOutside): when no operation is under way
\* and none has failed, the two tables have the same paths.
ShadowInSync ==
  faults = 0 /\ ftsOK /\ (\A w \in Writers : op[w] = NoOp) =>
    \A p \in Paths : fts[p] = (IF p \in rows THEN 1 ELSE 0)

=============================================================================
