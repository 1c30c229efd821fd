------------------------ MODULE IndexSubsystem_proofs -----------------------
(***************************************************************************)
(* What holds of the index runtime for any number of generations, rescans, *)
(* roots and paths, with any nesting of roots, any patterns and any        *)
(* contents of the disk.  Inv is inductive; the safety properties of IndexSubsystem follow *)
(* from it.                                                                *)
(***************************************************************************)
EXTENDS IndexSubsystem, TLAPS

\* Subsystem.stop is the channel of the latest generation, whose roots are the active ones.
StopInv ==
  /\ OnlyLatestUnstopped
  /\ stop # None => pc[stop] # "unborn" /\ roots[stop] = active
  /\ ~index => stop = None
  /\ \A g \in Gens : pc[g] = "unborn" => g \notin stopped /\ watch[g] = "off"

\* workMu is held by the one generation between its Lock and its Unlock.
LockInv == \A g \in Gens : Working(g) <=> workMu = g

\* Walks belong to a generation at work or to a rescan, and stay below the root being walked.
JobInv ==
  /\ \A g \in Gens : job[g].phase # "idle" => pc[g] \in {"scan", "reconcile"}
  /\ \A g \in Gens : /\ job[g].left \subseteq roots[g]
                     /\ job[g].phase = "walk" => job[g].root \in roots[g]
                     /\ pc[g] = "scan" => job[g].phase # "delete"
  /\ \A w \in Walkers : /\ job[w].phase = "idle" => job[w].left = {}
                        /\ job[w].phase = "walk" =>
                             /\ job[w].root \in Roots
                             /\ job[w].todo \subseteq Under[job[w].root]

\* A watcher handles events below its own roots.
EventInv == \A g \in Gens : watch[g] = "busy" => event[g] \in Inside(roots[g])

\* How far the boot scan of the latest generation has come with root r.
Covered(g, r) ==
  \/ pc[g] = "scan" /\ job[g].phase \in {"next", "walk"} /\ r \in job[g].left
  \/ /\ pc[g] = "scan" /\ job[g].phase = "walk" /\ job[g].root = r
     /\ Under[r] \cap Disk \subseteq rows \cup missed \cup job[g].todo
  \/ Under[r] \cap Disk \subseteq rows \cup missed

ScanInv ==
  index => \A g \in Gens : g \notin stopped /\ (pc[g] = "scan" \/ Settled(g))
                             => \A r \in roots[g] \cap Mounted : Covered(g, r)

Inv == TypeOK /\ StopInv /\ LockInv /\ JobInv /\ EventInv /\ ScanInv

-----------------------------------------------------------------------------
\* What roots hold, and their rows, are paths.
LEMMA InsideSub ==
  ASSUME NEW rs \in SUBSET Roots
  PROVE  Below(rs) \subseteq Paths /\ Inside(rs) \subseteq Paths
BY SubsystemAssumption DEF Below, Inside

\* A walk that has just been given its roots, and one that is over, are well typed.
LEMMA FreshJob ==
  ASSUME NEW rs \in SUBSET Roots
  PROVE  /\ Idle \in Jobs
         /\ [Idle EXCEPT !.phase = "next", !.left = rs] \in Jobs
BY DEF Idle, Jobs, Phases

\* Changing one field of a job within its type.
LEMMA JobEdit ==
  ASSUME NEW j \in Jobs
  PROVE  /\ \A ph \in Phases : [j EXCEPT !.phase = ph] \in Jobs
         /\ \A rs \in SUBSET Roots : [j EXCEPT !.left = rs] \in Jobs
         /\ \A r \in Roots : [j EXCEPT !.root = r] \in Jobs
         /\ \A ps \in SUBSET Paths : [j EXCEPT !.todo = ps] \in Jobs
BY DEF Jobs

\* Giving walker w a well-typed job keeps all jobs well typed.
LEMMA JobUpdate ==
  ASSUME job \in [Walkers -> Jobs], NEW w \in Walkers, NEW j \in Jobs,
         job' = [job EXCEPT ![w] = j]
  PROVE  job' \in [Walkers -> Jobs]
OBVIOUS

\* TypeOK is not inductive alone: a watcher that is busy has an event to handle.
TypeInv == TypeOK /\ \A g \in Gens : watch[g] = "busy" => event[g] \in Paths

LEMMA InitType == Init => TypeInv
<1> SUFFICES ASSUME Init PROVE TypeInv
  OBVIOUS
<1>1. job \in [Walkers -> Jobs]
  BY FreshJob DEF Init
<1>2. QED
  BY <1>1, SubsystemAssumption DEF Init, TypeInv, TypeOK, PCs

LEMMA StepType == TypeInv /\ [Next]_vars => TypeInv'
<1> SUFFICES ASSUME TypeInv, [Next]_vars
             PROVE  TypeInv'
  OBVIOUS
<1> USE SubsystemAssumption DEF TypeInv, TypeOK, PCs, fields, watcher
<1>1. ASSUME NEW rs \in RootSets, ReloadRoots(rs) PROVE TypeInv'
  BY <1>1 DEF ReloadRoots, startIndexing, CloseStop
<1>2. ASSUME NEW rs \in RootSets, RecordRoots(rs) PROVE TypeInv'
  BY <1>2 DEF RecordRoots
<1>3. CASE Close
  BY <1>3 DEF Close, CloseStop
<1>4. ASSUME NEW w \in Rescans, RescanActiveRoots(w) PROVE TypeInv'
  <2>1. job' \in [Walkers -> Jobs]
    BY <1>4, FreshJob DEF RescanActiveRoots, Walkers
  <2>2. QED
    BY <1>4, <2>1 DEF RescanActiveRoots
<1>5. ASSUME NEW g \in Gens, Step(g) PROVE TypeInv'
  <2> g \in Walkers
    BY DEF Walkers
  <2>1. CASE Lock(g)
    BY <2>1 DEF Lock
  <2>2. ASSUME NEW from \in PCs, NEW to \in PCs, Check(g, from, to) PROVE TypeInv'
    <3>1. job' \in [Walkers -> Jobs]
      <4>1. CASE job' = job
        BY <4>1
      <4>2. CASE job' = [job EXCEPT ![g] =
                           IF to = "scan"
                           THEN [Idle EXCEPT !.phase = "next", !.left = roots[g]] ELSE Idle]
        BY <4>2, FreshJob
      <4>3. QED
        BY <2>2, <4>1, <4>2 DEF Check
    <3>2. QED
      BY <2>2, <3>1 DEF Check, Return
  <2>3. CASE PurgeOutside(g)
    BY <2>3 DEF PurgeOutside
  <2>4. CASE SetReady(g)
    BY <2>4 DEF SetReady
  <2>5. CASE StartWatcher(g)
    BY <2>5 DEF StartWatcher
  <2>6. CASE Wake(g)
    <3>1. job' \in [Walkers -> Jobs]
      BY <2>6, FreshJob DEF Wake
    <3>2. QED
      BY <2>6, <3>1 DEF Wake
  <2>7. CASE SleepAgain(g)
    BY <2>7 DEF SleepAgain
  <2>8. CASE Leave(g)
    BY <2>8 DEF Leave, Return
  <2>9. QED
    BY <1>5, <2>1, <2>2, <2>3, <2>4, <2>5, <2>6, <2>7, <2>8 DEF Step
<1>6. ASSUME NEW g \in Gens, Loop(g) PROVE TypeInv'
  <2>1. CASE Receive(g)
    <3>1. Below(roots[g] \cap Mounted) \subseteq Paths
      BY InsideSub
    <3>2. QED
      BY <2>1, <3>1 DEF Receive
  <2>2. CASE HandleEvent(g)
    BY <2>2 DEF HandleEvent
  <2>3. CASE StopWatcher(g)
    BY <2>3 DEF StopWatcher
  <2>4. QED
    BY <1>6, <2>1, <2>2, <2>3 DEF Loop
<1>7. ASSUME NEW w \in Walkers, Walk(w) PROVE TypeInv'
  <2>1. job' \in [Walkers -> Jobs] /\ rows' \in SUBSET Paths /\ missed' \in SUBSET Paths
    <3>1. CASE NextRoot(w)
      <4>1. PICK r \in job[w].left :
              LET rest == [job[w] EXCEPT !.left = @ \ {r}] IN
              job' = [job EXCEPT ![w] =
                        IF r \in Mounted
                        THEN [rest EXCEPT !.phase = "walk", !.root = r,
                                          !.todo = Under[r] \cap Disk]
                        ELSE rest]
        BY <3>1 DEF NextRoot
      <4> DEFINE rest == [job[w] EXCEPT !.left = @ \ {r}]
                 walk == [rest EXCEPT !.phase = "walk", !.root = r, !.todo = Under[r] \cap Disk]
      <4>2. /\ r \in Roots
            /\ job[w].left \ {r} \in SUBSET Roots
            /\ Under[r] \cap Disk \in SUBSET Paths
        BY DEF Jobs
      <4>3. rest \in Jobs
        BY <4>2, JobEdit
      <4>4. [rest EXCEPT !.phase = "walk"] \in Jobs
        BY <4>3, JobEdit DEF Phases
      <4>5. [[rest EXCEPT !.phase = "walk"] EXCEPT !.root = r] \in Jobs
        BY <4>2, <4>4, JobEdit
      <4>6. [[[rest EXCEPT !.phase = "walk"] EXCEPT !.root = r]
                   EXCEPT !.todo = Under[r] \cap Disk] \in Jobs
        BY <4>2, <4>5, JobEdit
      <4>7. walk \in Jobs
        BY <4>6
      <4>8. job' = [job EXCEPT ![w] = IF r \in Mounted THEN walk ELSE rest]
        BY <4>1
      <4>9. QED
        BY <3>1, <4>3, <4>7, <4>8 DEF NextRoot
    <3>2. CASE NoMoreRoots(w)
      BY <3>2, FreshJob DEF NoMoreRoots
    <3>3. CASE Visit(w)
      <4>1. PICK p \in job[w].todo :
              /\ rows' = rows \cup {p} /\ missed' = missed \ {p}
              /\ job' = [job EXCEPT ![w].todo = @ \ {p}]
        BY <3>3 DEF Visit
      <4>2. job[w].todo \in SUBSET Paths
        BY DEF Jobs
      <4>3. [job[w] EXCEPT !.todo = job[w].todo \ {p}] \in Jobs
        BY <4>2, JobEdit
      <4>4. job' = [job EXCEPT ![w] = [job[w] EXCEPT !.todo = job[w].todo \ {p}]]
        BY <4>1
      <4>5. rows' \in SUBSET Paths /\ missed' \in SUBSET Paths
        BY <4>1, <4>2
      <4>6. QED
        BY <4>3, <4>4, <4>5
    <3>4. CASE EndWalk(w)
      <4> DEFINE gone == (rows \cap Matches[job[w].root]) \ (Under[job[w].root] \cap Disk)
      <4>a. gone \in SUBSET Paths
        OBVIOUS
      <4>b. [job[w] EXCEPT !.phase = "next"] \in Jobs /\ [job[w] EXCEPT !.phase = "delete"] \in Jobs
        BY JobEdit DEF Phases
      <4>c. [[job[w] EXCEPT !.phase = "delete"] EXCEPT !.todo = gone] \in Jobs
        BY <4>a, <4>b, JobEdit
      <4>1. [job[w] EXCEPT !.phase = "delete", !.todo = gone] \in Jobs
        BY <4>c
      <4>2. QED
        BY <3>4, <4>b, <4>1 DEF EndWalk
    <3>5. CASE DeleteGone(w)
      <4>1. PICK p \in job[w].todo :
              /\ rows' = rows \ Matches[p]
              /\ missed' = missed \cup (rows \cap Matches[p] \cap Disk)
              /\ job' = [job EXCEPT ![w].todo = @ \ {p}]
        BY <3>5 DEF DeleteGone
      <4>2. job[w].todo \in SUBSET Paths
        BY DEF Jobs
      <4>3. [job[w] EXCEPT !.todo = job[w].todo \ {p}] \in Jobs
        BY <4>2, JobEdit
      <4>4. job' = [job EXCEPT ![w] = [job[w] EXCEPT !.todo = job[w].todo \ {p}]]
        BY <4>1
      <4>5. rows' \in SUBSET Paths /\ missed' \in SUBSET Paths
        BY <4>1, <4>2
      <4>6. QED
        BY <4>3, <4>4, <4>5
    <3>6. CASE EndDelete(w)
      BY <3>6, JobEdit DEF EndDelete, Phases
    <3>7. CASE Abort(w)
      <4>1. [job[w] EXCEPT !.phase = "next"] \in Jobs
        BY JobEdit DEF Phases
      <4>2. [[job[w] EXCEPT !.phase = "next"] EXCEPT !.todo = {}] \in Jobs
        BY <4>1, JobEdit
      <4>3. job[w].left \cap Mounted \in SUBSET Roots /\ job[w].todo \in SUBSET Paths
        BY DEF Jobs
      <4>4. Ahead(w) \ rows \in SUBSET Paths
        BY <4>3, InsideSub DEF Ahead
      <4>5. missed' \in SUBSET Paths /\ rows' = rows
        BY <3>7, <4>4 DEF Abort
      <4>6. [job[w] EXCEPT !.phase = "next", !.todo = {}] \in Jobs
        BY <4>2
      <4>7. job' \in [Walkers -> Jobs]
        BY <3>7, <4>6, FreshJob DEF Abort
      <4>8. QED
        BY <4>5, <4>7
    <3>8. QED
      BY <1>7, <3>1, <3>2, <3>3, <3>4, <3>5, <3>6, <3>7 DEF Walk
  <2>2. UNCHANGED <<fields, pc, workMu, ready, watcher>>
    BY <1>7 DEF Walk, NextRoot, NoMoreRoots, Visit, EndWalk, DeleteGone, EndDelete, Abort
  <2>3. QED
    BY <2>1, <2>2
<1>8. CASE UNCHANGED vars
  BY <1>8 DEF vars
<1>9. QED
  BY <1>1, <1>2, <1>3, <1>4, <1>5, <1>6, <1>7, <1>8 DEF Next

\* In every reachable state the variables have the types of TypeOK.
THEOREM TypeCorrect == Spec => []TypeOK
<1>1. TypeInv => TypeOK
  BY DEF TypeInv
<1>2. QED
  BY <1>1, InitType, StepType, PTL DEF Spec

-----------------------------------------------------------------------------
\* Stops: a reload or Close closes the channel of the latest generation, which is open.
LEMMA StopStep == TypeInv /\ StopInv /\ [Next]_vars => StopInv'
<1> SUFFICES ASSUME TypeInv, StopInv, [Next]_vars
             PROVE  StopInv'
  OBVIOUS
<1> USE SubsystemAssumption
    DEF TypeInv, TypeOK, StopInv, OnlyLatestUnstopped, fields, watcher
<1>1. ASSUME NEW rs \in RootSets, ReloadRoots(rs) PROVE StopInv'
  BY <1>1 DEF ReloadRoots, startIndexing, CloseStop
<1>2. ASSUME NEW rs \in RootSets, RecordRoots(rs) PROVE StopInv'
  BY <1>2 DEF RecordRoots
<1>3. CASE Close
  BY <1>3 DEF Close, CloseStop
<1>4. ASSUME NEW w \in Rescans, RescanActiveRoots(w) PROVE StopInv'
  BY <1>4 DEF RescanActiveRoots
<1>5. ASSUME NEW g \in Gens, Step(g) PROVE StopInv'
  <2>1. UNCHANGED fields /\ pc[g] # "unborn" /\ \E to \in PCs \ {"unborn"} : pc' = [pc EXCEPT ![g] = to]
    BY <1>5 DEF Step, Lock, Check, Return, PurgeOutside, SetReady, StartWatcher, Wake,
                SleepAgain, Leave, PCs
  <2>2. watch' = watch \/ \E s \in {"on", "off"} : watch' = [watch EXCEPT ![g] = s]
    BY <1>5 DEF Step, Lock, Check, Return, PurgeOutside, SetReady, StartWatcher, Wake,
                SleepAgain, Leave
  <2>3. QED
    BY <2>1, <2>2
<1>6. ASSUME NEW g \in Gens, Loop(g) PROVE StopInv'
  BY <1>6 DEF Loop, Receive, HandleEvent, StopWatcher
<1>7. ASSUME NEW w \in Walkers, Walk(w) PROVE StopInv'
  BY <1>7 DEF Walk, NextRoot, NoMoreRoots, Visit, EndWalk, DeleteGone, EndDelete, Abort
<1>8. CASE UNCHANGED vars
  BY <1>8 DEF vars
<1>9. QED
  BY <1>1, <1>2, <1>3, <1>4, <1>5, <1>6, <1>7, <1>8 DEF Next

\* workMu: a generation enters only when nobody holds it, and every way out releases it.
LEMMA LockStep == TypeInv /\ LockInv /\ [Next]_vars => LockInv'
<1> SUFFICES ASSUME TypeInv, LockInv, [Next]_vars
             PROVE  LockInv'
  OBVIOUS
<1> USE SubsystemAssumption DEF TypeInv, TypeOK, LockInv, Working, fields, watcher
<1>1. ASSUME NEW rs \in RootSets, ReloadRoots(rs) PROVE LockInv'
  BY <1>1 DEF ReloadRoots, startIndexing
<1>2. ASSUME NEW g \in Gens, Lock(g) PROVE LockInv'
  BY <1>2 DEF Lock
<1>3. ASSUME NEW g \in Gens, NEW from, NEW to, Check(g, from, to),
             from \in {"check", "recheck", "lastcheck"}, to \in {"purge", "scan", "start"}
      PROVE  LockInv'
  BY <1>3 DEF Check, Return
<1>4. ASSUME NEW g \in Gens, Leave(g) PROVE LockInv'
  BY <1>4 DEF Leave, Return
<1>5. ASSUME NEW g \in Gens,
             PurgeOutside(g) \/ SetReady(g) \/ StartWatcher(g) \/ Wake(g) \/ SleepAgain(g)
      PROVE  LockInv'
  BY <1>5 DEF PurgeOutside, SetReady, StartWatcher, Wake, SleepAgain
<1>6. CASE UNCHANGED <<pc, workMu>>
  BY <1>6
<1>7. ASSUME NEW g \in Gens, Loop(g) PROVE UNCHANGED <<pc, workMu>>
  BY <1>7 DEF Loop, Receive, HandleEvent, StopWatcher
<1>8. ASSUME NEW w \in Walkers, Walk(w) PROVE UNCHANGED <<pc, workMu>>
  BY <1>8 DEF Walk, NextRoot, NoMoreRoots, Visit, EndWalk, DeleteGone, EndDelete, Abort
<1>9. QED
  BY <1>1, <1>2, <1>3, <1>4, <1>5, <1>6, <1>7, <1>8
  DEF Next, vars, Step, RecordRoots, Close, RescanActiveRoots

\* A busy watcher's event lies below that watcher's own roots.
LEMMA EventStep == TypeInv /\ StopInv /\ EventInv /\ [Next]_vars => EventInv'
<1> SUFFICES ASSUME TypeInv, StopInv, EventInv, [Next]_vars
             PROVE  EventInv'
  OBVIOUS
<1> USE SubsystemAssumption DEF TypeInv, TypeOK, EventInv, fields, watcher
<1>1. ASSUME NEW rs \in RootSets, ReloadRoots(rs) PROVE EventInv'
  BY <1>1 DEF ReloadRoots, startIndexing, StopInv
<1>2. ASSUME NEW g \in Gens, StartWatcher(g) PROVE EventInv'
  BY <1>2 DEF StartWatcher
<1>3. ASSUME NEW g \in Gens, Receive(g) PROVE EventInv'
  <2>1. \A p : p \in Below(roots[g] \cap Mounted) => p \in Inside(roots[g])
    BY DEF Below, Inside
  <2>2. QED
    BY <1>3, <2>1, ZenonT(60) DEF Receive
<1>4. ASSUME NEW g \in Gens, HandleEvent(g) \/ StopWatcher(g) PROVE EventInv'
  BY <1>4 DEF HandleEvent, StopWatcher
<1>5. CASE UNCHANGED <<roots, watch, event>>
  BY <1>5
<1>6. ASSUME NEW w \in Walkers, Walk(w) PROVE UNCHANGED <<roots, watch, event>>
  BY <1>6 DEF Walk, NextRoot, NoMoreRoots, Visit, EndWalk, DeleteGone, EndDelete, Abort
<1>7. ASSUME NEW g \in Gens, Step(g), ~StartWatcher(g) PROVE UNCHANGED <<roots, watch, event>>
  BY <1>7 DEF Step, Lock, Check, Return, PurgeOutside, SetReady, Wake, SleepAgain, Leave
<1>8. QED
  BY <1>1, <1>2, <1>3, <1>4, <1>5, <1>6, <1>7
  DEF Next, vars, Loop, RecordRoots, Close, RescanActiveRoots

\* Walks: only their own walker moves them, and only while it is in its walking states.
LEMMA JobStep == TypeInv /\ StopInv /\ JobInv /\ [Next]_vars => JobInv'
<1> SUFFICES ASSUME TypeInv, StopInv, JobInv, [Next]_vars
             PROVE  JobInv'
  OBVIOUS
<1> USE SubsystemAssumption DEF TypeInv, TypeOK, JobInv, Walkers, Jobs, fields, watcher
<1>1. ASSUME NEW rs \in RootSets, ReloadRoots(rs) PROVE JobInv'
  BY <1>1 DEF ReloadRoots, startIndexing
<1>2. ASSUME NEW w \in Rescans, RescanActiveRoots(w) PROVE JobInv'
  BY <1>2 DEF RescanActiveRoots, Idle
<1>3. ASSUME NEW g \in Gens, NEW from, NEW to, Check(g, from, to),
             from \in {"check", "recheck", "lastcheck"}, to \in {"purge", "scan", "start"}
      PROVE  JobInv'
  <2>1. CASE Return(g) /\ UNCHANGED job
    BY <1>3, <2>1 DEF Check, Return
  <2>2. CASE to = "scan" /\ ~(Return(g) /\ UNCHANGED job)
    <3>1. /\ job' = [job EXCEPT ![g] = [Idle EXCEPT !.phase = "next", !.left = roots[g]]]
          /\ pc' = [pc EXCEPT ![g] = "scan"] /\ UNCHANGED roots
      BY <1>3, <2>2 DEF Check
    <3>2. QED
      BY <3>1 DEF Idle
  <2>3. CASE to # "scan" /\ ~(Return(g) /\ UNCHANGED job)
    <3>1. /\ job' = [job EXCEPT ![g] = Idle]
          /\ pc' = [pc EXCEPT ![g] = to] /\ UNCHANGED roots
      BY <1>3, <2>3 DEF Check
    <3>2. QED
      BY <1>3, <3>1 DEF Idle
  <2>4. QED
    BY <2>1, <2>2, <2>3
<1>4. ASSUME NEW g \in Gens,
             Lock(g) \/ PurgeOutside(g) \/ SetReady(g) \/ StartWatcher(g) \/ SleepAgain(g) \/ Leave(g)
      PROVE  JobInv'
  BY <1>4 DEF Lock, PurgeOutside, SetReady, StartWatcher, SleepAgain, Leave, Return
<1>5. ASSUME NEW g \in Gens, Wake(g) PROVE JobInv'
  BY <1>5 DEF Wake, Idle
<1>6. ASSUME NEW w \in Walkers, Walk(w) PROVE JobInv'
  <2>1. CASE NextRoot(w)
    BY <2>1 DEF NextRoot
  <2>2. CASE NoMoreRoots(w)
    BY <2>2 DEF NoMoreRoots, Idle
  <2>3. CASE Visit(w)
    BY <2>3 DEF Visit
  <2>4. CASE EndWalk(w)
    BY <2>4 DEF EndWalk, Scanning
  <2>5. CASE DeleteGone(w)
    BY <2>5 DEF DeleteGone
  <2>6. CASE EndDelete(w)
    BY <2>6 DEF EndDelete
  <2>7. CASE Abort(w)
    BY <2>7 DEF Abort, Scanning, Idle
  <2>8. QED
    BY <1>6, <2>1, <2>2, <2>3, <2>4, <2>5, <2>6, <2>7 DEF Walk
<1>7. CASE UNCHANGED <<roots, pc, job>>
  BY <1>7
<1>8. ASSUME NEW g \in Gens, Step(g) PROVE JobInv'
  BY <1>3, <1>4, <1>5, <1>8 DEF Step
<1>9. ASSUME NEW g \in Gens, Loop(g) PROVE JobInv'
  BY <1>7, <1>9 DEF Loop, Receive, HandleEvent, StopWatcher
<1>10. CASE Close \/ \E rs \in RootSets : RecordRoots(rs)
  BY <1>7, <1>10 DEF RecordRoots, Close
<1>11. CASE UNCHANGED vars
  BY <1>7, <1>11 DEF vars
<1>12. QED
  BY <1>1, <1>2, <1>6, <1>8, <1>9, <1>10, <1>11, Zenon DEF Next

\* No two generations are at work.
LEMMA OneWorker ==
  ASSUME TypeInv, LockInv, NEW g \in Gens, NEW h \in Gens, Working(g), Working(h)
  PROVE  g = h
BY DEF LockInv

\* What the latest generation has covered stays covered, but for what is missed: no purge, no
\* deletion and no abort of anyone else can undo it.
LEMMA ScanStep ==
  TypeInv /\ StopInv /\ LockInv /\ JobInv /\ ScanInv /\ [Next]_vars => ScanInv'
<1> SUFFICES ASSUME TypeInv, StopInv, LockInv, JobInv, ScanInv, [Next]_vars,
                    index', NEW g \in Gens, g \notin stopped',
                    pc'[g] = "scan" \/ Settled(g)',
                    NEW r \in (roots[g])' \cap Mounted
             PROVE  Covered(g, r)'
  BY DEF ScanInv
<1> USE SubsystemAssumption DEF TypeInv, TypeOK, fields, watcher
<1> DEFINE Progress(x) == pc[x] = "scan" \/ Settled(x)
\* A generation that was already scanning and is untouched keeps what it has if every row of an
\* existing file that is removed counts as missed.
<1>a. ASSUME Progress(g), g \notin stopped, index, roots'[g] = roots[g],
             pc'[g] = pc[g] \/ pc[g] # "scan", job'[g] = job[g],
             (rows \cup missed) \cap Disk \subseteq rows' \cup missed'
      PROVE  Covered(g, r)'
  <2>1. Covered(g, r)
    BY <1>a DEF ScanInv
  <2>2. Under[r] \cap Disk \subseteq rows \cup missed \cup job[g].todo
           => Under[r] \cap Disk \subseteq rows' \cup missed' \cup job[g].todo
    BY <1>a
  <2>3. Under[r] \cap Disk \subseteq rows \cup missed
           => Under[r] \cap Disk \subseteq rows' \cup missed'
    BY <1>a
  <2>4. QED
    BY <1>a, <2>1, <2>2, <2>3 DEF Covered
<1>1. ASSUME NEW rs \in RootSets, ReloadRoots(rs) PROVE Covered(g, r)'
  <2>1. PICK h \in Gens : startIndexing(h, rs)
    BY <1>1 DEF ReloadRoots
  <2>2. g # h
    BY <2>1, <1>1 DEF startIndexing, Settled
  <2>3. QED
    BY <1>1, <2>1, <2>2, <1>a DEF ReloadRoots, startIndexing, CloseStop, Settled
<1>2. ASSUME NEW h \in Gens, Step(h) PROVE Covered(g, r)'
  <2>0. UNCHANGED fields /\ pc' = [pc EXCEPT ![h] = pc'[h]]
    BY <1>2, ZenonT(60) DEF Step, Lock, Check, Return, PurgeOutside, SetReady, StartWatcher, Wake,
                SleepAgain, Leave
  <2>1. CASE PurgeOutside(h)
    <3>1. Working(h) /\ pc[h] = "purge"
      BY <2>1 DEF PurgeOutside, Working
    <3>2. pc'[h] = "recheck" /\ g # h
      BY <2>1 DEF PurgeOutside, Settled
    <3>3. Working(g)
      BY <2>0, <3>2 DEF Working, Settled
    <3>4. QED
      BY <3>1, <3>2, <3>3, OneWorker
  <2>2. CASE g # h /\ ~PurgeOutside(h)
    <3>1. rows' = rows /\ missed' = missed /\ job'[g] = job[g]
      BY <1>2, <2>2, ZenonT(60) DEF Step, Lock, Check, Return, SetReady, StartWatcher, Wake,
                        SleepAgain, Leave, Walkers
    <3>2. pc'[g] = pc[g] /\ g \notin stopped /\ index /\ roots'[g] = roots[g]
      BY <2>0, <2>2
    <3>3. Progress(g)
      BY <3>2 DEF Settled
    <3>4. QED
      BY <3>1, <3>2, <3>3, <1>a
  <2>3. CASE g = h /\ Check(h, "recheck", "scan")
    <3>1. job' = [job EXCEPT ![g] = [Idle EXCEPT !.phase = "next", !.left = roots[g]]]
      BY <2>3, <2>0 DEF Check, Return
    <3>a. (job[g].left)' = roots[g] /\ (job[g].phase)' = "next" /\ pc'[g] = "scan"
      BY <2>3, <2>0, <3>1 DEF Idle, Walkers, Check, Return, Settled
    <3>2. QED
      BY <2>0, <3>a DEF Covered
  <2>4. CASE g = h /\ (Wake(h) \/ StartWatcher(h) \/ SleepAgain(h))
    <3>1. Progress(g) /\ pc[g] # "scan" /\ rows' = rows /\ missed' = missed
      BY <2>4 DEF Wake, StartWatcher, SleepAgain, Settled
    <3>2. QED
      <4>1. Under[r] \cap Disk \subseteq rows \cup missed
        BY <2>0, <3>1 DEF Covered, ScanInv
      <4>2. QED
        BY <3>1, <4>1 DEF Covered
  <2>5. CASE g = h /\ Check(h, "lastcheck", "start")
    <3>1. pc[g] = "lastcheck" /\ job[g].phase = "idle" /\ job[g].left = {}
      BY <2>5 DEF Check, JobInv, Walkers
    <3>2. Under[r] \cap Disk \subseteq rows \cup missed
      BY <2>0, <2>5, <3>1 DEF ScanInv, Settled, Covered
    <3>3. QED
      BY <2>5, <3>2 DEF Check, Covered
  <2>6. CASE g = h /\ SetReady(h)
    <3>1. pc[g] = "scan" /\ job[g].phase = "idle" /\ job[g].left = {}
          /\ rows' = rows /\ missed' = missed
      BY <2>6 DEF SetReady, JobInv, Walkers
    <3>2. QED
      BY <2>0, <3>1 DEF ScanInv, Covered
  <2>7. CASE g = h /\ (Lock(h) \/ Check(h, "check", "purge") \/ Leave(h))
    BY <2>7, ZenonT(60) DEF Lock, Check, Leave, Return, Settled
  <2>8. QED
    BY <1>2, <2>1, <2>2, <2>3, <2>4, <2>5, <2>6, <2>7 DEF Step
<1>3. ASSUME NEW w \in Walkers, Walk(w) PROVE Covered(g, r)'
  <2>0. /\ UNCHANGED <<index, active, stop, stopped, roots, pc>>
        /\ Progress(g)
    BY <1>3 DEF Walk, NextRoot, NoMoreRoots, Visit, EndWalk, DeleteGone, EndDelete, Abort, Settled
  <2>1. Covered(g, r)
    BY <2>0 DEF ScanInv
  <2>2. (rows \cup missed) \cap Disk \subseteq rows' \cup missed'
    <3>1. CASE DeleteGone(w)
      BY <3>1 DEF DeleteGone
    <3>2. CASE Visit(w)
      BY <3>2 DEF Visit
    <3>3. CASE Abort(w)
      BY <3>3 DEF Abort
    <3>4. QED
      BY <1>3, <3>1, <3>2, <3>3 DEF Walk, NextRoot, NoMoreRoots, EndWalk, EndDelete
  <2>3. CASE w # g
    <3>1. job'[g] = job[g]
      BY <1>3, <2>3, ZenonT(60) DEF Walk, NextRoot, NoMoreRoots, Visit, EndWalk, DeleteGone, EndDelete,
                        Abort, Walkers
    <3>2. QED
      BY <2>0, <2>2, <3>1, <1>a
  <2>4. CASE w = g
    <3> g \in Walkers
      BY DEF Walkers
    <3>1. CASE NextRoot(g)
      BY <2>0, <2>1, <3>1 DEF NextRoot, Covered, Jobs
    <3>2. CASE NoMoreRoots(g)
      BY <2>0, <2>1, <3>2 DEF NoMoreRoots, Covered
    <3>3. CASE Visit(g)
      BY <2>0, <2>1, <3>3 DEF Visit, Covered, Jobs
    <3>4. CASE EndWalk(g)
      <4>1. rows' = rows /\ missed' = missed /\ job[g].phase = "walk" /\ job[g].todo = {}
        BY <3>4 DEF EndWalk
      <4>2. CASE pc[g] = "scan"
        <5>1. job' = [job EXCEPT ![g] = [@ EXCEPT !.phase = "next"]]
          BY <3>4, <4>2 DEF EndWalk, Scanning
        <5>2. (job[g].left)' = job[g].left /\ (job[g].phase)' = "next"
          BY <5>1 DEF Jobs
        <5>3. QED
          BY <2>0, <2>1, <4>1, <5>2 DEF Covered
      <4>3. CASE pc[g] # "scan"
        BY <2>1, <4>1, <4>3 DEF Covered
      <4>4. QED
        BY <4>2, <4>3
    <3>5. CASE DeleteGone(g)
      BY <2>0, <2>1, <2>2, <3>5 DEF DeleteGone, Covered, Jobs
    <3>6. CASE EndDelete(g)
      BY <2>0, <2>1, <3>6 DEF EndDelete, Covered, Jobs
    <3>7. CASE Abort(g)
      <4>1. CASE pc[g] = "scan"
        <5>1. missed' = missed \cup (Ahead(g) \ rows) /\ rows' = rows
          BY <3>7, <4>1 DEF Abort, Scanning
        <5>2. r \in job[g].left => Under[r] \cap Disk \subseteq Ahead(g)
          BY DEF Ahead, Below
        <5>3. job[g].todo \subseteq Ahead(g)
          BY DEF Ahead
        <5>4. Under[r] \cap Disk \subseteq rows \cup missed \cup Ahead(g)
          BY <2>1, <5>2, <5>3 DEF Covered
        <5>5. QED
          BY <5>1, <5>4 DEF Covered
      <4>2. CASE pc[g] # "scan"
        <5>1. Under[r] \cap Disk \subseteq rows \cup missed
          BY <2>1, <4>2 DEF Covered
        <5>2. rows' = rows /\ missed' = missed
          BY <3>7, <4>2 DEF Abort, Scanning
        <5>3. QED
          BY <5>1, <5>2 DEF Covered
      <4>3. QED
        BY <4>1, <4>2
    <3>8. QED
      BY <1>3, <2>4, <3>1, <3>2, <3>3, <3>4, <3>5, <3>6, <3>7 DEF Walk
  <2>5. QED
    BY <2>3, <2>4
<1>4. CASE Close
  BY <1>4 DEF Close
<1>5. ASSUME NEW rs \in RootSets, RecordRoots(rs) PROVE Covered(g, r)'
  BY <1>5 DEF RecordRoots
<1>6. ASSUME NEW w \in Rescans, RescanActiveRoots(w) PROVE Covered(g, r)'
  BY <1>6, <1>a DEF RescanActiveRoots, Walkers, Settled
<1>7. ASSUME NEW h \in Gens, Loop(h) PROVE Covered(g, r)'
  BY <1>7, <1>a DEF Loop, Receive, HandleEvent, StopWatcher, Settled
<1>8. CASE UNCHANGED vars
  BY <1>8, <1>a DEF vars, Settled
<1>9. QED
  BY <1>1, <1>2, <1>3, <1>4, <1>5, <1>6, <1>7, <1>8 DEF Next

-----------------------------------------------------------------------------
LEMMA InitInv == Init => Inv
<1> SUFFICES ASSUME Init PROVE Inv
  OBVIOUS
<1>1. TypeOK
  BY InitType DEF TypeInv
<1>2. StopInv /\ LockInv /\ EventInv /\ ScanInv
  BY SubsystemAssumption
  DEF Init, StopInv, OnlyLatestUnstopped, LockInv, Working, EventInv, ScanInv, Settled
<1>3. JobInv
  BY DEF Init, JobInv, Idle, Walkers
<1>4. QED
  BY <1>1, <1>2, <1>3 DEF Inv

LEMMA InvType == Inv => TypeInv
<1> SUFFICES ASSUME Inv, NEW g \in Gens, watch[g] = "busy" PROVE event[g] \in Paths
  BY DEF Inv, TypeInv
<1>1. Inside(roots[g]) \subseteq Paths
  BY InsideSub DEF Inv, TypeOK
<1>2. QED
  BY <1>1 DEF Inv, EventInv

\* Inv holds in every reachable state.
THEOREM Invariance == Spec => []Inv
<1>1. Inv /\ [Next]_vars => Inv'
  BY InvType, StepType, StopStep, LockStep, JobStep, EventStep, ScanStep DEF Inv, TypeInv
<1>2. QED
  BY InitInv, <1>1, PTL DEF Spec

\* At most one generation is between its Lock and its Unlock: two passes over the table by
\* two generations never overlap, however reloads fall.
MutualExclusion == \A g, h \in Gens : Working(g) /\ Working(h) => g = h

THEOREM ScanSerialized == Spec => []MutualExclusion
<1>1. Inv => MutualExclusion
  BY InvType, OneWorker DEF Inv, MutualExclusion
<1>2. QED
  BY <1>1, Invariance, PTL

\* The channel a reload or Close closes is always still open.
THEOREM NoDoubleClose == Spec => []OnlyLatestUnstopped
<1>1. Inv => OnlyLatestUnstopped
  BY DEF Inv, StopInv
<1>2. QED
  BY <1>1, Invariance, PTL

\* After the latest generation's boot scan the index holds everything on disk below the
\* mounted active roots, whatever older generations, rescans and watchers still do, but for
\* what a scan that gave up did not come to and a deletion's pattern took.
THEOREM ScanCompleteAlways == Spec => []ScanComplete
<1>1. Inv => ScanComplete
  <2> SUFFICES ASSUME Inv, NEW g \in Gens, Settled(g), index,
                      NEW p \in Below(active \cap Mounted) \cap Disk
               PROVE  p \in rows \cup missed
    BY DEF ScanComplete
  <2>1. g \notin stopped /\ pc[g] # "scan" /\ pc[g] # "unborn"
    BY DEF Settled
  <2>2. stop = g /\ roots[g] = active
    BY <2>1, SubsystemAssumption DEF Inv, StopInv, OnlyLatestUnstopped
  <2>3. PICK r \in active \cap Mounted : p \in Under[r]
    BY DEF Below
  <2>4. Covered(g, r)
    BY <2>1, <2>2 DEF Inv, ScanInv
  <2>5. QED
    BY <2>1, <2>3, <2>4 DEF Covered
<1>2. QED
  BY <1>1, Invariance, PTL

\* The step form of OnlyStragglersAddOutside.
LEMMA StragglerLemma == Inv /\ [Next]_vars => StragglerStep
<1> SUFFICES ASSUME Inv, [Next]_vars,
                    NEW p \in rows' \ rows, p \notin Inside(active),
                    NEW h \in Gens, Purged(h)
             PROVE  \/ \E w \in Rescans : job[w].phase = "walk" /\ job[w].root \notin active
                    \/ \E g \in stopped : watch[g] = "busy" /\ event[g] = p
  BY DEF StragglerStep
<1> USE SubsystemAssumption DEF fields, watcher
<1>1. /\ h \notin stopped /\ Working(h) /\ stop = h /\ roots[h] = active
  BY DEF Purged, Working, Inv, StopInv, OnlyLatestUnstopped
<1>2. ASSUME NEW w \in Walkers, Walk(w) PROVE \E v \in Rescans : job[v].phase = "walk" /\ job[v].root \notin active
  <2>0. job[w].phase = "walk" /\ p \in job[w].todo
    BY <1>2 DEF Walk, NextRoot, NoMoreRoots, Visit, EndWalk, DeleteGone, EndDelete, Abort
  <2>1. job[w].phase = "walk" /\ p \in Under[job[w].root] /\ job[w].root \in Roots
    BY <2>0 DEF Inv, JobInv
  <2>2. job[w].root \notin active
    BY <2>1 DEF Inside, Below
  <2>3. w \notin Gens
    <3> SUFFICES ASSUME w \in Gens PROVE FALSE
      OBVIOUS
    <3>1. Working(w) /\ job[w].root \in roots[w]
      BY <2>1 DEF Inv, JobInv, Working
    <3>2. w = h
      BY <1>1, <3>1, OneWorker, InvType DEF Inv
    <3>3. QED
      BY <1>1, <2>2, <3>1, <3>2
  <2>4. QED
    BY <2>1, <2>2, <2>3 DEF Walkers
<1>3. ASSUME NEW g \in Gens, Loop(g) PROVE \E k \in stopped : watch[k] = "busy" /\ event[k] = p
  <2>1. watch[g] = "busy" /\ p = event[g]
    BY <1>3 DEF Loop, Receive, HandleEvent, StopWatcher
  <2>2. p \in Inside(roots[g])
    BY <2>1 DEF Inv, EventInv
  <2>3. g \in stopped
    <3>1. g # h
      BY <1>1, <2>2
    <3>2. pc[g] # "unborn"
      BY <2>1 DEF Inv, StopInv
    <3>3. QED
      BY <1>1, <3>1, <3>2 DEF Inv, StopInv, OnlyLatestUnstopped
  <2>4. QED
    BY <2>1, <2>3
<1>4. ASSUME NEW g \in Gens, Step(g) PROVE FALSE
  BY <1>4 DEF Step, Lock, Check, Return, PurgeOutside, SetReady, StartWatcher, Wake,
              SleepAgain, Leave
<1>5. QED
  BY <1>2, <1>3, <1>4
  DEF Next, vars, ReloadRoots, RecordRoots, Close, RescanActiveRoots

\* The only writers that can bring a path outside the active roots back, once the latest
\* generation has purged, are a rescan of older roots and a superseded generation's watcher.
THEOREM OnlyStragglers == Spec => OnlyStragglersAddOutside
<1>1. Inv /\ [Next]_vars => [StragglerStep]_vars
  BY StragglerLemma
<1>2. QED
  BY <1>1, Invariance, PTL DEF Spec, OnlyStragglersAddOutside

=============================================================================
