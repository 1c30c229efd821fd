-------------------------- MODULE IndexStore_proofs --------------------------
(***************************************************************************)
(* What holds of the two tables of the filename index for any number of    *)
(* writers, paths, errors and crashes, whatever LIKE matches.              *)
(***************************************************************************)
EXTENDS IndexStore, FiniteSetTheorems, TLAPS

\* An operation is at one of its statements; without FTS it has one, and only an upsert has
\* three.
OpInv == \A w \in Writers :
  \/ op[w] = NoOp
  \/ /\ op[w].kind \in {"upsert", "delete"} /\ op[w].step \in 1..3
     /\ op[w].step = 3 => op[w].kind = "upsert"
     /\ ~ftsOK => op[w].step = 1

\* A path that an operation has to itself is in no other operation, and one that is settled
\* is in none.
SoloInv ==
  /\ \A w \in Writers : solo[w] \subseteq op[w].on /\ settled \cap op[w].on = {}
  /\ \A v, w \in Writers : v # w => solo[w] \cap op[v].on = {}

\* What an operation has done so far to the paths it has to itself.
ProgressInv == \A w \in Writers : \A p \in solo[w] :
  /\ op[w].step = 2 => (p \in rows <=> op[w].kind = "upsert")
  /\ op[w].step = 3 => p \in rows /\ fts[p] = 0

Right(p) == ftsOK => fts[p] = (IF p \in rows THEN 1 ELSE 0)

RightInv == \A p \in settled : Right(p)

Inv == TypeOK /\ OpInv /\ SoloInv /\ ProgressInv /\ RightInv

-----------------------------------------------------------------------------
\* Every operation writes to indexed paths.
LEMMA Regions ==
  /\ \A p \in Paths : {p} \subseteq Paths /\ Matches(p) \subseteq Paths
  /\ \A roots \in RootSets : Outside(roots) \subseteq Paths
BY DEF Matches, Outside

\* The actions that start an operation are Begin with a kind and some indexed paths.
LEMMA Begins ==
  ASSUME NEW w \in Writers,
         \/ \E p \in Paths : Upsert(w, p) \/ DeletePrefix(w, p)
         \/ \E roots \in RootSets : PurgeOutside(w, roots)
  PROVE  \E kind \in {"upsert", "delete"}, on \in SUBSET Paths : Begin(w, kind, on)
<1>1. CASE \E p \in Paths : Upsert(w, p)
  BY <1>1, Regions DEF Upsert
<1>2. CASE \E p \in Paths : DeletePrefix(w, p)
  BY <1>2, Regions DEF DeletePrefix
<1>3. CASE \E roots \in RootSets : PurgeOutside(w, roots)
  BY <1>3, Regions DEF PurgeOutside
<1>4. QED
  BY <1>1, <1>2, <1>3

Ops == [kind : {"none", "upsert", "delete"}, on : SUBSET Paths, step : 0..3]

\* An operation that ends, or goes on to another statement, changes its own entries only.
LEMMA FinishOp ==
  ASSUME TypeOK, OpInv, NEW w \in Writers, NEW done \in SUBSET Paths, Finish(w, done), ftsOK' = ftsOK
  PROVE  /\ op' \in [Writers -> Ops] /\ solo' \in [Writers -> SUBSET Paths]
         /\ settled' \in SUBSET Paths
         /\ op'[w] = NoOp /\ solo'[w] = {} /\ settled' = settled \cup done
         /\ \A v \in Writers \ {w} : op'[v] = op[v] /\ solo'[v] = solo[v]
         /\ OpInv'
<1>1. NoOp \in Ops
  BY DEF NoOp, Ops
<1>2. op \in [Writers -> Ops] /\ solo \in [Writers -> SUBSET Paths] /\ settled \in SUBSET Paths
  BY DEF TypeOK, Ops
<1>3. /\ op' \in [Writers -> Ops] /\ solo' \in [Writers -> SUBSET Paths]
      /\ settled' \in SUBSET Paths
      /\ op'[w] = NoOp /\ solo'[w] = {} /\ settled' = settled \cup done
      /\ \A v \in Writers \ {w} : op'[v] = op[v] /\ solo'[v] = solo[v]
  BY <1>1, <1>2 DEF Finish
<1>4. OpInv'
  BY <1>3 DEF OpInv, NoOp
<1>5. QED
  BY <1>3, <1>4

LEMMA ContinueOp ==
  ASSUME TypeOK, OpInv, NEW w \in Writers, NEW s \in {2, 3}, op[w] # NoOp, ftsOK, ftsOK' = ftsOK,
         op' = [op EXCEPT ![w].step = s], s = 3 => op[w].kind = "upsert"
  PROVE  /\ op' \in [Writers -> Ops]
         /\ op'[w].step = s /\ op'[w].on = op[w].on /\ op'[w].kind = op[w].kind
         /\ \A v \in Writers \ {w} : op'[v] = op[v]
         /\ OpInv'
<1>1. op \in [Writers -> Ops] /\ op[w] \in Ops
  BY DEF TypeOK, Ops
<1>2. op' = [op EXCEPT ![w] = [op[w] EXCEPT !.step = s]]
  OBVIOUS
<1>3. [op[w] EXCEPT !.step = s] \in Ops
  BY <1>1 DEF Ops
<1>4. op'[w] = [op[w] EXCEPT !.step = s] /\ \A v \in Writers \ {w} : op'[v] = op[v]
  BY <1>1, <1>2
<1>5. op'[w].step = s /\ op'[w].on = op[w].on /\ op'[w].kind = op[w].kind
  BY <1>1, <1>4 DEF Ops
<1>6. op' \in [Writers -> Ops]
  BY <1>1, <1>2, <1>3
<1>7. OpInv'
  <2> SUFFICES ASSUME NEW v \in Writers
               PROVE  (\/ op[v] = NoOp
                       \/ /\ op[v].kind \in {"upsert", "delete"} /\ op[v].step \in 1..3
                          /\ op[v].step = 3 => op[v].kind = "upsert"
                          /\ ~ftsOK => op[v].step = 1)'
    BY DEF OpInv
  <2>1. CASE v = w
    BY <1>5, <2>1 DEF OpInv
  <2>2. CASE v # w
    BY <1>4, <2>2 DEF OpInv, NoOp
  <2>3. QED
    BY <2>1, <2>2
<1>8. QED
  BY <1>4, <1>5, <1>6, <1>7

LEMMA InitInv == Init => Inv
<1> SUFFICES ASSUME Init PROVE Inv
  OBVIOUS
<1> USE StoreAssumption DEF Init, NoOp
<1>1. TypeOK
  BY DEF TypeOK
<1>2. OpInv /\ SoloInv /\ ProgressInv
  BY DEF OpInv, SoloInv, ProgressInv
<1>3. RightInv
  BY DEF RightInv, Right
<1>4. QED
  BY <1>1, <1>2, <1>3 DEF Inv

LEMMA StepBegin ==
  ASSUME Inv, NEW w \in Writers, NEW kind \in {"upsert", "delete"}, NEW on \in SUBSET Paths,
         Begin(w, kind, on)
  PROVE  Inv'
<1> DEFINE new == [kind |-> kind, on |-> on, step |-> 1]
<1>1. new \in Ops /\ new.kind = kind /\ new.on = on /\ new.step = 1
  BY DEF Ops
<1>2. op \in [Writers -> Ops] /\ solo \in [Writers -> SUBSET Paths] /\ settled \in SUBSET Paths
  BY DEF Inv, TypeOK, Ops
<1> HIDE DEF new
<1>3. op' = [op EXCEPT ![w] = new]
  BY DEF Begin, new
<1>4. op'[w] = new /\ \A v \in Writers \ {w} : op'[v] = op[v]
  BY <1>2, <1>3
<1>5. /\ solo'[w] = on \ UNION {op[u].on : u \in Writers}
      /\ \A v \in Writers \ {w} : solo'[v] = solo[v] \ on
  BY <1>2 DEF Begin
<1>6. UNCHANGED <<ftsOK, rows, fts, faults>> /\ settled' = settled \ on /\ op[w] = NoOp
  BY DEF Begin
<1>7. TypeOK'
  <2>1. op' \in [Writers -> Ops]
    BY <1>1, <1>2, <1>3
  <2>2. solo' \in [Writers -> SUBSET Paths]
    BY <1>2 DEF Begin
  <2>3. QED
    BY <1>6, <2>1, <2>2 DEF Inv, TypeOK, Ops
<1>8. OpInv'
  BY <1>1, <1>4, <1>6 DEF Inv, OpInv, NoOp
<1>9. SoloInv'
  BY <1>1, <1>4, <1>5, <1>6 DEF Inv, SoloInv
<1>10. ProgressInv'
  BY <1>1, <1>4, <1>5, <1>6 DEF Inv, ProgressInv
<1>11. RightInv'
  BY <1>6 DEF Inv, RightInv, Right
<1>12. QED
  BY <1>7, <1>8, <1>9, <1>10, <1>11 DEF Inv

LEMMA StepWriteRows ==
  ASSUME Inv, NEW w \in Writers, WriteRows(w)
  PROVE  Inv'
<1>0. /\ op[w].step = 1 /\ op[w] # NoOp /\ op[w].kind \in {"upsert", "delete"}
      /\ op[w].on \in SUBSET Paths /\ solo[w] \in SUBSET Paths
      /\ UNCHANGED <<ftsOK, fts, faults>>
      /\ rows' = IF op[w].kind = "upsert" THEN rows \cup op[w].on ELSE rows \ op[w].on
  BY DEF Inv, TypeOK, OpInv, WriteRows, NoOp
<1>1. CASE ftsOK
  <2>1. op' = [op EXCEPT ![w].step = 2] /\ solo' = solo /\ settled' = settled
    BY <1>0, <1>1 DEF WriteRows, Continue
  <2>2. /\ op' \in [Writers -> Ops] /\ OpInv'
        /\ op'[w].step = 2 /\ op'[w].on = op[w].on /\ op'[w].kind = op[w].kind
        /\ \A v \in Writers \ {w} : op'[v] = op[v]
    <3>1. 2 \in {2, 3} /\ (2 = 3 => op[w].kind = "upsert") /\ ftsOK' = ftsOK /\ TypeOK /\ OpInv
      BY <1>0 DEF Inv
    <3>2. QED
      BY <1>0, <1>1, <2>1, <3>1, ContinueOp
  <2>3. TypeOK'
    BY <1>0, <2>1, <2>2 DEF Inv, TypeOK, Ops
  <2>4. SoloInv'
    BY <2>1, <2>2 DEF Inv, SoloInv
  <2>5. ProgressInv'
    BY <1>0, <2>1, <2>2 DEF Inv, ProgressInv, SoloInv
  <2>6. RightInv'
    BY <1>0, <2>1 DEF Inv, RightInv, Right, SoloInv
  <2>7. QED
    BY <2>2, <2>3, <2>4, <2>5, <2>6 DEF Inv
<1>2. CASE ~ftsOK
  <2>1. Finish(w, solo[w])
    BY <1>2 DEF WriteRows
  <2>2. /\ op' \in [Writers -> Ops] /\ solo' \in [Writers -> SUBSET Paths]
        /\ settled' \in SUBSET Paths /\ OpInv'
        /\ op'[w] = NoOp /\ solo'[w] = {} /\ settled' = settled \cup solo[w]
        /\ \A v \in Writers \ {w} : op'[v] = op[v] /\ solo'[v] = solo[v]
    BY <1>0, <2>1, FinishOp DEF Inv
  <2>3. TypeOK'
    BY <1>0, <2>2 DEF Inv, TypeOK, Ops
  <2>4. SoloInv'
    BY <2>2 DEF Inv, SoloInv, NoOp
  <2>5. ProgressInv'
    BY <1>0, <1>2, <2>2 DEF Inv, ProgressInv, OpInv, NoOp
  <2>6. RightInv'
    BY <1>0, <1>2 DEF RightInv, Right
  <2>7. QED
    BY <2>2, <2>3, <2>4, <2>5, <2>6 DEF Inv
<1>3. QED
  BY <1>1, <1>2

LEMMA StepDeleteFts ==
  ASSUME Inv, NEW w \in Writers, DeleteFts(w)
  PROVE  Inv'
<1>0. /\ op[w].step = 2 /\ op[w] # NoOp /\ op[w].kind \in {"upsert", "delete"} /\ ftsOK
      /\ op[w].on \in SUBSET Paths /\ solo[w] \in SUBSET Paths
      /\ UNCHANGED <<ftsOK, rows, faults>>
  BY DEF Inv, TypeOK, OpInv, DeleteFts, NoOp
<1>1. /\ fts' \in [Paths -> Nat]
      /\ \A p \in Paths : fts'[p] = IF p \in op[w].on THEN 0 ELSE fts[p]
  BY DEF Inv, TypeOK, DeleteFts
<1>2. CASE op[w].kind = "upsert"
  <2>1. op' = [op EXCEPT ![w].step = 3] /\ solo' = solo /\ settled' = settled
    BY <1>0, <1>2 DEF DeleteFts, Continue
  <2>2. /\ op' \in [Writers -> Ops] /\ OpInv'
        /\ op'[w].step = 3 /\ op'[w].on = op[w].on /\ op'[w].kind = op[w].kind
        /\ \A v \in Writers \ {w} : op'[v] = op[v]
    BY <1>0, <1>2, <2>1, ContinueOp DEF Inv
  <2>3. TypeOK'
    BY <1>0, <1>1, <2>1, <2>2 DEF Inv, TypeOK, Ops
  <2>4. SoloInv'
    BY <2>1, <2>2 DEF Inv, SoloInv
  <2>5. ProgressInv'
    <3>1. \A p \in solo[w] : p \in rows /\ fts'[p] = 0
      BY <1>0, <1>1, <1>2 DEF Inv, ProgressInv, SoloInv
    <3>2. \A v \in Writers \ {w} : \A p \in solo[v] : fts'[p] = fts[p]
      BY <1>1 DEF Inv, TypeOK, SoloInv
    <3>3. QED
      BY <1>0, <2>1, <2>2, <3>1, <3>2 DEF Inv, ProgressInv
  <2>6. RightInv'
    <3>1. \A p \in settled : fts'[p] = fts[p]
      BY <1>1 DEF Inv, TypeOK, SoloInv
    <3>2. QED
      BY <1>0, <2>1, <3>1 DEF Inv, RightInv, Right
  <2>7. QED
    BY <2>2, <2>3, <2>4, <2>5, <2>6 DEF Inv
<1>3. CASE op[w].kind = "delete"
  <2>1. Finish(w, solo[w])
    BY <1>3 DEF DeleteFts
  <2>2. /\ op' \in [Writers -> Ops] /\ solo' \in [Writers -> SUBSET Paths]
        /\ settled' \in SUBSET Paths /\ OpInv'
        /\ op'[w] = NoOp /\ solo'[w] = {} /\ settled' = settled \cup solo[w]
        /\ \A v \in Writers \ {w} : op'[v] = op[v] /\ solo'[v] = solo[v]
    BY <1>0, <2>1, FinishOp DEF Inv
  <2>3. TypeOK'
    BY <1>0, <1>1, <2>2 DEF Inv, TypeOK, Ops
  <2>4. SoloInv'
    BY <2>2 DEF Inv, SoloInv, NoOp
  <2>5. ProgressInv'
    <3>1. \A v \in Writers \ {w} : \A p \in solo[v] : fts'[p] = fts[p]
      BY <1>1 DEF Inv, TypeOK, SoloInv
    <3>2. QED
      BY <1>0, <2>2, <3>1 DEF Inv, ProgressInv
  <2>6. RightInv'
    <3>1. \A p \in solo[w] : p \notin rows /\ fts'[p] = 0
      BY <1>0, <1>1, <1>3 DEF Inv, ProgressInv, SoloInv
    <3>2. \A p \in settled : fts'[p] = fts[p]
      BY <1>1 DEF Inv, TypeOK, SoloInv
    <3>3. QED
      BY <1>0, <2>2, <3>1, <3>2 DEF Inv, RightInv, Right
  <2>7. QED
    BY <2>2, <2>3, <2>4, <2>5, <2>6 DEF Inv
<1>4. QED
  BY <1>0, <1>2, <1>3

LEMMA StepInsertFts ==
  ASSUME Inv, NEW w \in Writers, InsertFts(w)
  PROVE  Inv'
<1>0. /\ op[w].step = 3 /\ op[w].on \in SUBSET Paths /\ solo[w] \in SUBSET Paths
      /\ UNCHANGED <<ftsOK, rows, faults>>
  BY DEF Inv, TypeOK, InsertFts
<1>1. /\ fts' \in [Paths -> Nat]
      /\ \A p \in Paths : fts'[p] = IF p \in op[w].on THEN fts[p] + 1 ELSE fts[p]
  BY DEF Inv, TypeOK, InsertFts
<1>2. /\ op' \in [Writers -> Ops] /\ solo' \in [Writers -> SUBSET Paths]
      /\ settled' \in SUBSET Paths /\ OpInv'
      /\ op'[w] = NoOp /\ solo'[w] = {} /\ settled' = settled \cup solo[w]
      /\ \A v \in Writers \ {w} : op'[v] = op[v] /\ solo'[v] = solo[v]
  <2>1. Finish(w, solo[w])
    BY DEF InsertFts
  <2>2. QED
    BY <1>0, <2>1, FinishOp DEF Inv
<1>3. TypeOK'
  BY <1>0, <1>1, <1>2 DEF Inv, TypeOK, Ops
<1>4. SoloInv'
  BY <1>2 DEF Inv, SoloInv, NoOp
<1>5. ProgressInv'
  <2>1. \A v \in Writers \ {w} : \A p \in solo[v] : fts'[p] = fts[p]
    BY <1>1 DEF Inv, TypeOK, SoloInv
  <2>2. QED
    BY <1>0, <1>2, <2>1 DEF Inv, ProgressInv
<1>6. RightInv'
  <2>1. \A p \in solo[w] : p \in rows /\ fts'[p] = 1
    BY <1>0, <1>1 DEF Inv, ProgressInv, SoloInv
  <2>2. \A p \in settled : fts'[p] = fts[p]
    BY <1>1 DEF Inv, TypeOK, SoloInv
  <2>3. QED
    BY <1>0, <1>2, <2>1, <2>2 DEF Inv, RightInv, Right
<1>7. QED
  BY <1>2, <1>3, <1>4, <1>5, <1>6 DEF Inv

LEMMA StepFail ==
  ASSUME Inv, NEW w \in Writers, Fail(w)
  PROVE  Inv'
<1>0. UNCHANGED <<ftsOK, rows, fts>> /\ op[w] # NoOp /\ faults' \in 0..MaxFaults
  BY StoreAssumption DEF Inv, TypeOK, Fail
<1>1. CASE op[w].step = 2 /\ op[w].kind = "upsert"
  <2>1. op' = [op EXCEPT ![w].step = 3] /\ solo' = [solo EXCEPT ![w] = {}] /\ settled' = settled
    BY <1>1 DEF Fail
  <2>2. ftsOK
    BY <1>1, <1>0 DEF Inv, OpInv
  <2>3. /\ op' \in [Writers -> Ops] /\ OpInv'
        /\ op'[w].step = 3 /\ op'[w].on = op[w].on /\ op'[w].kind = op[w].kind
        /\ \A v \in Writers \ {w} : op'[v] = op[v]
    BY <1>0, <1>1, <2>1, <2>2, ContinueOp DEF Inv
  <2>4. /\ solo' \in [Writers -> SUBSET Paths] /\ solo'[w] = {}
        /\ \A v \in Writers \ {w} : solo'[v] = solo[v]
    BY <2>1 DEF Inv, TypeOK
  <2>5. TypeOK'
    BY <1>0, <2>1, <2>3, <2>4 DEF Inv, TypeOK, Ops
  <2>6. SoloInv'
    BY <2>1, <2>3, <2>4 DEF Inv, SoloInv
  <2>7. ProgressInv'
    BY <1>0, <2>3, <2>4 DEF Inv, ProgressInv
  <2>8. RightInv'
    BY <1>0, <2>1 DEF Inv, RightInv, Right
  <2>9. QED
    BY <2>3, <2>5, <2>6, <2>7, <2>8 DEF Inv
<1>2. CASE ~(op[w].step = 2 /\ op[w].kind = "upsert")
  <2>1. Finish(w, {})
    BY <1>2 DEF Fail
  <2>2. /\ op' \in [Writers -> Ops] /\ solo' \in [Writers -> SUBSET Paths]
        /\ settled' \in SUBSET Paths /\ OpInv'
        /\ op'[w] = NoOp /\ solo'[w] = {} /\ settled' = settled \cup {}
        /\ \A v \in Writers \ {w} : op'[v] = op[v] /\ solo'[v] = solo[v]
    <3>1. {} \in SUBSET Paths /\ ftsOK' = ftsOK /\ TypeOK /\ OpInv
      BY <1>0 DEF Inv
    <3>2. QED
      BY <2>1, <3>1, FinishOp, Zenon
  <2>3. TypeOK'
    BY <1>0, <2>2 DEF Inv, TypeOK, Ops
  <2>4. SoloInv'
    BY <2>2 DEF Inv, SoloInv, NoOp
  <2>5. ProgressInv'
    BY <1>0, <2>2 DEF Inv, ProgressInv
  <2>6. RightInv'
    BY <1>0, <2>2 DEF Inv, RightInv, Right
  <2>7. QED
    BY <2>2, <2>3, <2>4, <2>5, <2>6 DEF Inv
<1>3. QED
  BY <1>1, <1>2

LEMMA StepCrash ==
  ASSUME Inv, Crash
  PROVE  Inv'
<1> USE StoreAssumption DEF Inv, TypeOK, Crash, NoOp
<1>1. TypeOK' /\ OpInv'
  BY DEF OpInv
<1>2. SoloInv' /\ ProgressInv' /\ RightInv'
  BY DEF SoloInv, ProgressInv, RightInv, Right
<1>3. QED
  BY <1>1, <1>2

LEMMA StepInv == Inv /\ [Next]_vars => Inv'
<1> SUFFICES ASSUME Inv, [Next]_vars PROVE Inv'
  OBVIOUS
<1>1. ASSUME NEW w \in Writers,
             \/ \E p \in Paths : Upsert(w, p) \/ DeletePrefix(w, p)
             \/ \E roots \in RootSets : PurgeOutside(w, roots)
      PROVE  Inv'
  BY <1>1, Begins, StepBegin
<1>2. CASE \E w \in Writers : WriteRows(w) \/ DeleteFts(w) \/ InsertFts(w) \/ Fail(w)
  BY <1>2, StepWriteRows, StepDeleteFts, StepInsertFts, StepFail
<1>3. CASE Crash
  BY <1>3, StepCrash
<1>4. CASE UNCHANGED vars
  BY <1>4 DEF vars, Inv, TypeOK, OpInv, SoloInv, ProgressInv, RightInv, Right
<1>5. QED
  BY <1>1, <1>2, <1>3, <1>4 DEF Next

\* Inv is an invariant of the two tables and their writers.
THEOREM StoreInvariance == Spec => []Inv
<1>1. QED
  BY InitInv, StepInv, PTL DEF Spec

\* The tables hold indexed paths, and an operation is at one of its statements.
THEOREM StoreTypeCorrect == Spec => []TypeOK
<1>1. Inv => TypeOK
  BY DEF Inv
<1>2. QED
  BY <1>1, StoreInvariance, PTL

\* An operation that has a path to itself leaves it right: it is found exactly if it is
\* indexed, and once, whatever errors, crashes and crossed operations went before.
THEOREM SoloRepairs == Spec => []LastWriterRepairs
<1>1. Inv => LastWriterRepairs
  BY DEF Inv, TypeOK, RightInv, Right, LastWriterRepairs, Listed
<1>2. QED
  BY <1>1, StoreInvariance, PTL

-----------------------------------------------------------------------------
(***************************************************************************)
(* Duplicates.  The rows that upserts are about to insert for p count      *)
(* already: a delete of FTS rows leaves none, and then each writer has at  *)
(* most one to insert; a delete that fails adds one to faults.             *)
(***************************************************************************)
Inserting(p) == {w \in Writers : op[w].step = 3 /\ p \in op[w].on}

DupInv == \A p \in Paths : fts[p] + Cardinality(Inserting(p)) <= Cardinality(Writers) + faults

LEMMA InsertingFinite ==
  ASSUME NEW p
  PROVE  /\ IsFiniteSet(Inserting(p)) /\ Cardinality(Inserting(p)) \in Nat
         /\ Cardinality(Writers) \in Nat
         /\ Cardinality(Inserting(p)) <= Cardinality(Writers)
BY StoreAssumption, FS_Subset, FS_CardinalityType DEF Inserting

\* A step that makes the inserting writers of a path no more keeps the bound, if it adds no
\* row for it either.
LEMMA Fewer ==
  ASSUME NEW p, Inserting(p)' \subseteq Inserting(p)
  PROVE  Cardinality(Inserting(p)') <= Cardinality(Inserting(p)) /\ Cardinality(Inserting(p)') \in Nat
BY InsertingFinite, FS_Subset, FS_CardinalityType

LEMMA StepDup == Inv /\ DupInv /\ [Next]_vars => DupInv'
<1> SUFFICES ASSUME Inv, DupInv, [Next]_vars, NEW p \in Paths
             PROVE  (fts[p] + Cardinality(Inserting(p)) <= Cardinality(Writers) + faults)'
  BY DEF DupInv
<1> DEFINE Bound == Cardinality(Writers) + faults
<1>0. /\ fts[p] \in Nat /\ faults \in Nat /\ faults' \in Nat
      /\ fts[p] + Cardinality(Inserting(p)) <= Bound
      /\ Cardinality(Writers) \in Nat /\ Cardinality(Inserting(p)) \in Nat
      /\ IsFiniteSet(Inserting(p))
  <2>1. Inv'
    BY StepInv
  <2>2. QED
    BY <2>1, InsertingFinite, StoreAssumption DEF Inv, TypeOK, DupInv
<1>1. CASE Inserting(p)' \subseteq Inserting(p) /\ fts'[p] <= fts[p] /\ fts'[p] \in Nat /\ faults' >= faults
  BY <1>0, <1>1, Fewer
<1>2. ASSUME NEW w \in Writers, NEW kind \in {"upsert", "delete"}, NEW on \in SUBSET Paths,
             Begin(w, kind, on)
      PROVE  (fts[p] + Cardinality(Inserting(p)) <= Cardinality(Writers) + faults)'
  <2>1. Inserting(p)' \subseteq Inserting(p)
    BY <1>2 DEF Inserting, Begin, Inv, TypeOK
  <2>2. QED
    BY <1>0, <1>1, <1>2, <2>1 DEF Begin
<1>3. ASSUME NEW w \in Writers, WriteRows(w)
      PROVE  (fts[p] + Cardinality(Inserting(p)) <= Cardinality(Writers) + faults)'
  <2>1. Inserting(p)' \subseteq Inserting(p)
    BY <1>3 DEF Inserting, WriteRows, Continue, Finish, NoOp, Inv, TypeOK
  <2>2. QED
    BY <1>0, <1>1, <1>3, <2>1 DEF WriteRows
<1>4. ASSUME NEW w \in Writers, DeleteFts(w)
      PROVE  (fts[p] + Cardinality(Inserting(p)) <= Cardinality(Writers) + faults)'
  <2>1. CASE p \in op[w].on
    <3>1. fts'[p] = 0 /\ faults' = faults
      BY <1>4, <2>1 DEF DeleteFts
    <3>2. Inserting(p)' \subseteq Writers
      BY DEF Inserting
    <3>3. Cardinality(Inserting(p)') <= Cardinality(Writers) /\ Cardinality(Inserting(p)') \in Nat
      BY <3>2, StoreAssumption, FS_Subset, FS_CardinalityType
    <3>4. QED
      BY <1>0, <3>1, <3>3
  <2>2. CASE p \notin op[w].on
    <3>1. Inserting(p)' \subseteq Inserting(p)
      BY <1>4, <2>2 DEF Inserting, DeleteFts, Continue, Finish, NoOp, Inv, TypeOK
    <3>2. QED
      BY <1>0, <1>1, <1>4, <2>2, <3>1 DEF DeleteFts
  <2>3. QED
    BY <2>1, <2>2
<1>5. ASSUME NEW w \in Writers, InsertFts(w)
      PROVE  (fts[p] + Cardinality(Inserting(p)) <= Cardinality(Writers) + faults)'
  <2>1. CASE p \in op[w].on
    <3>1. w \in Inserting(p) /\ fts'[p] = fts[p] + 1 /\ faults' = faults
      BY <1>5, <2>1 DEF Inserting, InsertFts
    <3>2. Inserting(p)' = Inserting(p) \ {w}
      BY <1>5, ZenonT(60) DEF Inserting, InsertFts, Finish, NoOp, Inv, TypeOK
    <3>3. Cardinality(Inserting(p)') = Cardinality(Inserting(p)) - 1
      BY <1>0, <3>1, <3>2, FS_RemoveElement
    <3>4. QED
      BY <1>0, <3>1, <3>3
  <2>2. CASE p \notin op[w].on
    <3>1. Inserting(p)' \subseteq Inserting(p)
      BY <1>5, <2>2 DEF Inserting, InsertFts, Finish, NoOp, Inv, TypeOK
    <3>2. QED
      BY <1>0, <1>1, <1>5, <2>2, <3>1 DEF InsertFts
  <2>3. QED
    BY <2>1, <2>2
<1>6. ASSUME NEW w \in Writers, Fail(w)
      PROVE  (fts[p] + Cardinality(Inserting(p)) <= Cardinality(Writers) + faults)'
  <2>1. Inserting(p)' \subseteq Inserting(p) \cup {w}
    BY <1>6 DEF Inserting, Fail, Finish, NoOp, Inv, TypeOK
  <2>2. /\ Cardinality(Inserting(p) \cup {w}) <= Cardinality(Inserting(p)) + 1
        /\ Cardinality(Inserting(p) \cup {w}) \in Nat /\ IsFiniteSet(Inserting(p) \cup {w})
    <3>1. /\ IsFiniteSet(Inserting(p) \cup {w})
          /\ Cardinality(Inserting(p) \cup {w}) =
               IF w \in Inserting(p) THEN Cardinality(Inserting(p)) ELSE Cardinality(Inserting(p)) + 1
      BY <1>0, FS_AddElement
    <3>2. QED
      BY <1>0, <3>1
  <2>3. Cardinality(Inserting(p)') <= Cardinality(Inserting(p)) + 1 /\ Cardinality(Inserting(p)') \in Nat
    BY <1>0, <2>1, <2>2, FS_Subset, FS_CardinalityType
  <2>4. fts' = fts /\ faults' = faults + 1
    BY <1>6 DEF Fail
  <2>5. QED
    BY <1>0, <2>3, <2>4
<1>7. CASE Crash
  <2>1. Inserting(p)' \subseteq Inserting(p)
    BY <1>7 DEF Inserting, Crash, NoOp
  <2>2. QED
    BY <1>0, <1>1, <1>7, <2>1 DEF Crash
<1>8. CASE UNCHANGED vars
  <2>1. Inserting(p)' = Inserting(p)
    BY <1>8 DEF Inserting, vars
  <2>2. QED
    BY <1>0, <1>1, <1>8, <2>1 DEF vars
<1>9. QED
  BY <1>2, <1>3, <1>4, <1>5, <1>6, <1>7, <1>8, Begins DEF Next

\* However upserts of one path cross, they leave no more than one FTS row each, and one for
\* each ignored error: duplicates do not pile up from one pass to the next.
THEOREM FewDuplicates == Spec => []DuplicatesBounded
<1>1. Init => DupInv
  <2> SUFFICES ASSUME Init, NEW p \in Paths
               PROVE  fts[p] + Cardinality(Inserting(p)) <= Cardinality(Writers) + faults
    BY DEF DupInv
  <2>1. fts[p] = 0 /\ faults = 0
    BY DEF Init
  <2>2. QED
    BY <2>1, InsertingFinite
<1>2. Inv /\ DupInv => DuplicatesBounded
  BY InsertingFinite, StoreAssumption DEF DupInv, DuplicatesBounded, Inv, TypeOK
<1>3. QED
  BY <1>1, <1>2, StepDup, StoreInvariance, PTL DEF Spec

=============================================================================
