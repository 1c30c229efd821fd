--------------------------- MODULE IndexSubsystem ---------------------------
(***************************************************************************)
(* The runtime of the filename index (service/fileindex/subsystem.go): one *)
(* long-lived table of indexed paths and a restartable "purge, scan,       *)
(* watch, reconcile" goroutine whose root set is swapped live.             *)
(*                                                                         *)
(* Every start or reload launches a new generation of that goroutine,      *)
(* closing the stop channel of the one before it.  Generations serialise   *)
(* on workMu.  Two other kinds of actor write to the same table and hold   *)
(* no lock: the receive loop of a watcher, which notices its closed stop   *)
(* channel only when select happens to pick it, and a manual rescan, which *)
(* works on the roots it copied when it was asked for.                     *)
(*                                                                         *)
(* The methods of Subsystem hold s.mu from entry to return, so each is one *)
(* action.  An SQL statement is one action: the handle has one connection. *)
(* What is on the disk does not change here (IndexSync is about a disk     *)
(* that changes under the walk), and a row is its path.  Rows are selected  *)
(* and deleted with LIKE, so by a pattern (Matches) that reaches further   *)
(* than the directory it is made from; a root can itself have a row, as an *)
(* entry of another root.                                                  *)
(***************************************************************************)
EXTENDS FiniteSets

CONSTANTS
  Gens,      \* the generations of the indexing goroutine; bounds the reloads
  Rescans,   \* the manual rescans that can be running at once
  Roots,     \* the directories an administrator can name as roots
  RootSets,  \* the root lists a start or a reload is called with
  Paths,     \* the paths a row can have
  Under,     \* Under[r]: the paths below root r that are neither hidden nor excluded
  Matches,   \* Matches[p]: the paths of "path = p OR path LIKE p/%", for a root or a path p
  Leftovers, \* the tables that an earlier run of the process can have left
  Disk,      \* the paths that exist
  Mounted,   \* the roots that os.Stat finds
  CanFail,   \* may a statement on the open database fail?
  None       \* no generation, no root

ASSUME SubsystemAssumption ==
  /\ Gens \cap Rescans = {}
  /\ None \notin Gens \cup Roots
  /\ RootSets \subseteq SUBSET Roots
  /\ Under \in [Roots -> SUBSET Paths]
  /\ Matches \in [Roots \cup Paths -> SUBSET Paths]
  /\ \A r \in Roots : Under[r] \cup ({r} \cap Paths) \subseteq Matches[r]
  /\ \A p \in Paths : p \in Matches[p]
  /\ Leftovers \subseteq SUBSET Paths
  /\ CanFail \in BOOLEAN
  /\ Disk \subseteq Paths
  /\ Mounted \subseteq Roots

VARIABLES
  index,    \* is Subsystem.Index non-nil (and its database open)?
  active,   \* Subsystem.Roots
  stop,     \* the generation whose channel Subsystem.stop is, or None
  stopped,  \* the generations whose stop channel is closed
  roots,    \* roots[g]: the roots generation g was started with
  pc,       \* pc[g]: where generation g is
  workMu,   \* the generation that holds workMu, or None
  ready,    \* Index.ready
  rows,     \* the paths in file_index
  watch,    \* watch[g]: the receive loop of generation g's watcher
  event,    \* event[g]: the path of the event that loop is handling
  job,      \* job[w]: the walk in progress of generation or rescan w
  missed    \* history: the existing entries whose row a deletion took, or that a boot scan which
            \* gave up did not get to, and that nobody has upserted since

vars == <<index, active, stop, stopped, roots, pc, workMu, ready, rows,
          watch, event, job, missed>>

fields  == <<index, active, stop, stopped, roots>>
watcher == <<watch, event>>

Walkers == Gens \cup Rescans
Idle    == [phase |-> "idle", left |-> {}, root |-> None, todo |-> {}]

\* What roots hold, and what PurgeOutside leaves of the table for them: their own rows too.
Below(rs)  == UNION {Under[r] : r \in rs}
Inside(rs) == Below(rs) \cup (rs \cap Paths)

(***************************************************************************)
(* Initial state: the table that an earlier run of the process left, and   *)
(* no goroutine yet.                                                       *)
(***************************************************************************)
Init ==
  /\ index = TRUE
  /\ active = {}
  /\ stop = None
  /\ stopped = {}
  /\ roots = [g \in Gens |-> {}]
  /\ pc = [g \in Gens |-> "unborn"]
  /\ workMu = None
  /\ ready = FALSE
  /\ rows \in Leftovers
  /\ watch = [g \in Gens |-> "off"]
  /\ event = [g \in Gens |-> None]
  /\ job = [w \in Walkers |-> Idle]
  /\ missed = {}

(***************************************************************************)
(* The operations of Subsystem.                                            *)
(***************************************************************************)

\* Mutant: closes s.stop without the nil check.
CloseStop_Unchecked == stopped' = stopped \cup {stop}

\* close(s.stop) where s.stop is not nil
CloseStop == stopped' = stopped \cup ({stop} \ {None})

startIndexing(g, rs) ==
  /\ pc[g] = "unborn"
  /\ pc' = [pc EXCEPT ![g] = "lock"]
  /\ roots' = [roots EXCEPT ![g] = rs]
  /\ stop' = g
  /\ active' = rs

\* StartInitial and ReloadRoots of an enabled index do the same.
ReloadRoots(rs) ==
  /\ index
  /\ CloseStop
  /\ \E g \in Gens : startIndexing(g, rs)
  /\ UNCHANGED <<index, workMu, ready, rows, watcher, job, missed>>

\* With no index, ReloadRoots only records the roots.
RecordRoots(rs) ==
  /\ ~index
  /\ active' = rs
  /\ UNCHANGED <<index, stop, stopped, roots, pc, workMu, ready, rows, watcher, job, missed>>

\* Mutant: Close leaves the closed channel in s.stop.
Close_KeepsStop ==
  /\ CloseStop
  /\ index' = FALSE
  /\ UNCHANGED <<active, stop, roots, pc, workMu, ready, rows, watcher, job, missed>>

Close ==
  /\ CloseStop
  /\ stop' = None
  /\ index' = FALSE
  /\ UNCHANGED <<active, roots, pc, workMu, ready, rows, watcher, job, missed>>

\* The background goroutine of a manual rescan starts with a copy of Roots.
RescanActiveRoots(w) ==
  /\ index
  /\ job[w].phase = "idle"
  /\ job' = [job EXCEPT ![w] = [Idle EXCEPT !.phase = "next", !.left = active]]
  /\ UNCHANGED <<fields, pc, workMu, ready, rows, watcher, missed>>

(***************************************************************************)
(* A generation: acquire workMu, purge, scan, mark ready, watch, and       *)
(* reconcile until told to stop.                                           *)
(***************************************************************************)
\* Mutant: a generation does not wait for the one before it.
Lock_NotHeld(g) ==
  /\ pc[g] = "lock"
  /\ workMu' = g
  /\ pc' = [pc EXCEPT ![g] = "check"]
  /\ UNCHANGED <<fields, ready, rows, watcher, job, missed>>

Lock(g) ==
  /\ pc[g] = "lock"
  /\ workMu = None
  /\ workMu' = g
  /\ pc' = [pc EXCEPT ![g] = "check"]
  /\ UNCHANGED <<fields, ready, rows, watcher, job, missed>>

\* Mutant: an early return without the unlock.
Return_KeepsLock(g) ==
  /\ g \in stopped
  /\ pc' = [pc EXCEPT ![g] = "done"]
  /\ UNCHANGED workMu

\* return, with the deferred workMu.Unlock
Return(g) ==
  /\ g \in stopped
  /\ pc' = [pc EXCEPT ![g] = "done"]
  /\ workMu' = None

\* select { case <-stop: return; default: }
Check(g, from, to) ==
  /\ pc[g] = from
  /\ \/ Return(g) /\ UNCHANGED job
     \/ /\ g \notin stopped
        /\ pc' = [pc EXCEPT ![g] = to]
        /\ job' = [job EXCEPT ![g] =
                     IF to = "scan" THEN [Idle EXCEPT !.phase = "next", !.left = roots[g]]
                                    ELSE Idle]
        /\ UNCHANGED workMu
  /\ UNCHANGED <<fields, ready, rows, watcher, missed>>

\* A statement that fails, on a closed database or on an open one, is only logged.
PurgeOutside(g) ==
  /\ pc[g] = "purge"
  /\ \/ index /\ rows' = rows \cap Inside(roots[g])
     \/ (~index \/ CanFail) /\ rows' = rows
  /\ pc' = [pc EXCEPT ![g] = "recheck"]
  /\ UNCHANGED <<fields, workMu, ready, watcher, job, missed>>

\* After BootScan, whether or not it returned an error.
SetReady(g) ==
  /\ pc[g] = "scan"
  /\ job[g].phase = "idle"
  /\ ready' = TRUE
  /\ pc' = [pc EXCEPT ![g] = "lastcheck"]
  /\ UNCHANGED <<fields, workMu, rows, watcher, job, missed>>

\* The error of fsnotify.NewWatcher is dropped: the generation then only reconciles.
StartWatcher(g) ==
  /\ pc[g] = "start"
  /\ \E s \in {"on", "off"} : watch' = [watch EXCEPT ![g] = s]
  /\ pc' = [pc EXCEPT ![g] = "sleep"]
  /\ UNCHANGED <<fields, workMu, ready, rows, event, job, missed>>

\* case <-time.After(interval); the interval is not modelled
Wake(g) ==
  /\ pc[g] = "sleep"
  /\ pc' = [pc EXCEPT ![g] = "reconcile"]
  /\ job' = [job EXCEPT ![g] = [Idle EXCEPT !.phase = "next", !.left = roots[g]]]
  /\ UNCHANGED <<fields, workMu, ready, rows, watcher, missed>>

SleepAgain(g) ==
  /\ pc[g] = "reconcile"
  /\ job[g].phase = "idle"
  /\ pc' = [pc EXCEPT ![g] = "sleep"]
  /\ UNCHANGED <<fields, workMu, ready, rows, watcher, job, missed>>

Leave(g) ==
  /\ pc[g] = "sleep"
  /\ Return(g)
  /\ UNCHANGED <<fields, ready, rows, watcher, job, missed>>

(***************************************************************************)
(* The walks: BootScan of a generation (walk only) and Reconcile of a      *)
(* generation or a rescan (walk, then delete what the walk did not see).   *)
(***************************************************************************)
Scanning(w) == w \in Gens /\ pc[w] = "scan"

\* for _, r := range roots: one that os.Stat does not find is skipped
NextRoot(w) ==
  /\ job[w].phase = "next"
  /\ \E r \in job[w].left :
       LET rest == [job[w] EXCEPT !.left = @ \ {r}] IN
       job' = [job EXCEPT ![w] =
                 IF r \in Mounted
                 THEN [rest EXCEPT !.phase = "walk", !.root = r, !.todo = Under[r] \cap Disk]
                 ELSE rest]
  /\ UNCHANGED <<fields, pc, workMu, ready, rows, watcher, missed>>

NoMoreRoots(w) ==
  /\ job[w].phase = "next"
  /\ job[w].left = {}
  /\ job' = [job EXCEPT ![w] = Idle]
  /\ UNCHANGED <<fields, pc, workMu, ready, rows, watcher, missed>>

\* WalkDir's callback for one entry: Upsert
Visit(w) ==
  /\ job[w].phase = "walk"
  /\ index
  /\ \E p \in job[w].todo :
       /\ rows' = rows \cup {p}
       /\ missed' = missed \ {p}
       /\ job' = [job EXCEPT ![w].todo = @ \ {p}]
  /\ UNCHANGED <<fields, pc, workMu, ready, watcher>>

\* Mutant: the periodic pass only upserts.
EndWalk_NoDelete(w) ==
  /\ job[w].phase = "walk"
  /\ job[w].todo = {}
  /\ job' = [job EXCEPT ![w].phase = IF Scanning(w) THEN "next" ELSE "delete"]
  /\ UNCHANGED <<fields, pc, workMu, ready, rows, watcher, missed>>

\* ScanInto is over; Reconcile goes on to select the rows of entries that it did not see, also
\* where its pattern matches what another root holds, or the root itself.
EndWalk(w) ==
  /\ job[w].phase = "walk"
  /\ job[w].todo = {}
  /\ Scanning(w) \/ index
  /\ job' = [job EXCEPT ![w] =
               IF Scanning(w)
               THEN [@ EXCEPT !.phase = "next"]
               ELSE [@ EXCEPT !.phase = "delete",
                              !.todo = (rows \cap Matches[job[w].root])
                                         \ (Under[job[w].root] \cap Disk)]]
  /\ UNCHANGED <<fields, pc, workMu, ready, rows, watcher, missed>>

\* DeletePrefix takes all rows that its pattern matches.
DeleteGone(w) ==
  /\ job[w].phase = "delete"
  /\ index
  /\ \E p \in job[w].todo :
       /\ rows' = rows \ Matches[p]
       /\ missed' = missed \cup (rows \cap Matches[p] \cap Disk)
       /\ job' = [job EXCEPT ![w].todo = @ \ {p}]
  /\ UNCHANGED <<fields, pc, workMu, ready, watcher>>

EndDelete(w) ==
  /\ job[w].phase = "delete"
  /\ job[w].todo = {}
  /\ job' = [job EXCEPT ![w].phase = "next"]
  /\ UNCHANGED <<fields, pc, workMu, ready, rows, watcher, missed>>

\* What the walk of w has not visited yet, in this root and in the roots after it.
Ahead(w) == job[w].todo \cup (Below(job[w].left \cap Mounted) \cap Disk)

\* An error: the context of a stopped generation is cancelled (when the bridging goroutine
\* has run and the throttle's select sees it), the database is closed, or a statement fails.
\* BootScan gives up and its error is logged; Reconcile's is dropped and the loop takes the
\* next root.
Interrupted(w) == w \in stopped \/ ~index

Abort(w) ==
  /\ job[w].phase = "walk" \/ (job[w].phase = "delete" /\ job[w].todo # {})
  /\ Interrupted(w) \/ CanFail
  /\ job' = [job EXCEPT ![w] =
               IF Scanning(w) THEN Idle ELSE [@ EXCEPT !.phase = "next", !.todo = {}]]
  /\ missed' = IF Scanning(w) THEN missed \cup (Ahead(w) \ rows) ELSE missed
  /\ UNCHANGED <<fields, pc, workMu, ready, rows, watcher>>

(***************************************************************************)
(* The receive loop of a watcher: a write to an existing file under one of *)
(* its roots is upserted.  select picks at random among what is ready, so  *)
(* a stopped loop may still take events.                                   *)
(***************************************************************************)
Receive(g) ==
  /\ watch[g] = "on"
  /\ \E p \in Below(roots[g] \cap Mounted) \cap Disk : event' = [event EXCEPT ![g] = p]
  /\ watch' = [watch EXCEPT ![g] = "busy"]
  /\ UNCHANGED <<fields, pc, workMu, ready, rows, job, missed>>

HandleEvent(g) ==
  /\ watch[g] = "busy"
  /\ \/ index /\ rows' = rows \cup {event[g]} /\ missed' = missed \ {event[g]}
     \/ (~index \/ CanFail) /\ UNCHANGED <<rows, missed>>
  /\ watch' = [watch EXCEPT ![g] = "on"]
  /\ event' = [event EXCEPT ![g] = None]
  /\ UNCHANGED <<fields, pc, workMu, ready, job>>

\* Mutant: the loop watches the channel in the field, which a reload replaces.
StopWatcher_Field(g) ==
  /\ watch[g] = "on"
  /\ g \in stopped
  /\ g = stop
  /\ watch' = [watch EXCEPT ![g] = "closed"]
  /\ UNCHANGED <<fields, pc, workMu, ready, rows, event, job, missed>>

StopWatcher(g) ==
  /\ watch[g] = "on"
  /\ g \in stopped
  /\ watch' = [watch EXCEPT ![g] = "closed"]
  /\ UNCHANGED <<fields, pc, workMu, ready, rows, event, job, missed>>

Walk(w) == \/ NextRoot(w) \/ NoMoreRoots(w) \/ Visit(w) \/ EndWalk(w)
           \/ DeleteGone(w) \/ EndDelete(w) \/ Abort(w)

Step(g) == \/ Lock(g)
           \/ Check(g, "check", "purge")
           \/ PurgeOutside(g)
           \/ Check(g, "recheck", "scan")
           \/ SetReady(g)
           \/ Check(g, "lastcheck", "start")
           \/ StartWatcher(g)
           \/ Wake(g) \/ SleepAgain(g) \/ Leave(g)

Loop(g) == Receive(g) \/ HandleEvent(g) \/ StopWatcher(g)

Next ==
  \/ \E rs \in RootSets : ReloadRoots(rs) \/ RecordRoots(rs)
  \/ Close
  \/ \E w \in Rescans : RescanActiveRoots(w)
  \/ \E g \in Gens : Step(g) \/ Loop(g)
  \/ \E w \in Walkers : Walk(w)

\* Goroutines that can run do run; a select that is offered the closed stop channel again
\* and again takes it (Go picks uniformly among the ready cases).
Fairness ==
  /\ \A g \in Gens : /\ WF_vars(Step(g))
                     /\ WF_vars(HandleEvent(g))
                     /\ SF_vars(Leave(g))
                     /\ SF_vars(StopWatcher(g))
  /\ \A w \in Walkers : WF_vars(Walk(w))

Spec == Init /\ [][Next]_vars
FairSpec == Spec /\ Fairness

(***************************************************************************)
(* Properties.                                                             *)
(***************************************************************************)
Phases == {"idle", "next", "walk", "delete"}
PCs == {"unborn", "lock", "check", "purge", "recheck", "scan", "lastcheck", "start",
        "sleep", "reconcile", "done"}
Jobs == [phase : Phases, left : SUBSET Roots, root : Roots \cup {None}, todo : SUBSET Paths]

\* Every variable keeps the type of the field or local it stands for.
TypeOK ==
  /\ index \in BOOLEAN
  /\ active \in SUBSET Roots
  /\ stop \in Gens \cup {None}
  /\ stopped \in SUBSET Gens
  /\ roots \in [Gens -> SUBSET Roots]
  /\ pc \in [Gens -> PCs]
  /\ workMu \in Gens \cup {None}
  /\ ready \in BOOLEAN
  /\ rows \in SUBSET Paths
  /\ watch \in [Gens -> {"off", "on", "busy", "closed"}]
  /\ event \in [Gens -> Paths \cup {None}]
  /\ job \in [Walkers -> Jobs]
  /\ missed \in SUBSET Paths

\* The generations between workMu.Lock and the deferred Unlock.
Working(g) == pc[g] \in {"check", "purge", "recheck", "scan", "lastcheck", "start",
                         "sleep", "reconcile"}

\* Only the latest generation is running free of a stop: every other launched generation has
\* had its channel closed, exactly once, since the channel in Subsystem.stop is still open
\* when Close or a reload closes it (closing it twice would panic the process).
OnlyLatestUnstopped ==
  \A g \in Gens : pc[g] # "unborn" => (g \in stopped <=> g # stop)

\* A generation that got past its boot scan without being stopped.
Settled(g) == g \notin stopped /\ pc[g] \in {"lastcheck", "start", "sleep", "reconcile"}

\* Once the latest generation has finished its boot scan, an entry on disk below a mounted
\* active root is indexed, and stays so, for all that superseded generations, rescans and
\* watchers still do, with two exceptions that the code makes: the scan gave up on an error
\* before it came to the entry ("ready" is set all the same), or a later deletion's pattern
\* matched its row.  Either lasts until a walk or an event gets to the entry.
ScanComplete ==
  \A g \in Gens : Settled(g) /\ index =>
    Below(active \cap Mounted) \cap Disk \subseteq rows \cup missed

\* A generation, still the latest, that has purged.
Purged(g) == g \notin stopped /\ pc[g] \in {"recheck", "scan", "lastcheck", "start",
                                            "sleep", "reconcile"}

\* A path outside the active roots can enter the index, once the latest generation has
\* purged, only through the two writers the purge is not serialised with: a rescan that
\* copied older roots, or the watcher of a superseded generation.
StragglerStep ==
  \A p \in rows' \ rows :
    p \notin Inside(active) /\ (\E g \in Gens : Purged(g)) =>
      \/ \E w \in Rescans : job[w].phase = "walk" /\ job[w].root \notin active
      \/ \E g \in stopped : watch[g] = "busy" /\ event[g] = p

OnlyStragglersAddOutside == [][StragglerStep]_vars

\* Once the latest generation has purged, the index holds nothing outside the active roots
\* ("old index entries get cleared", OVERVIEW.md).
NothingOutside ==
  \A g \in Gens : Purged(g) /\ index => rows \subseteq Inside(active)

\* A superseded generation gives workMu up and its watcher's loop ends, whatever they were
\* doing, and so the latest one always gets to work: no chain of reloads leaks a goroutine
\* holding workMu, which would "wedge all future indexing" (StartInitial).
SupersededReleases ==
  \A g \in Gens : /\ g \in stopped /\ Working(g) ~> pc[g] = "done"
                  /\ g \in stopped /\ watch[g] # "off" ~> watch[g] = "closed"
                  /\ pc[g] = "lock" ~> Working(g) \/ g \in stopped

\* No active root's pattern matches what another one holds.
Apart == \A r, s \in active : r # s => Matches[r] \cap Under[s] = {}

StatementErrorsEnd == <>[][\A w \in Walkers : Abort(w) => Interrupted(w)]_vars

\* Unless the index is closed, it becomes ready, and once statements no longer fail it agrees
\* with the disk on everything below the mounted active roots and stays so: stale rows of
\* earlier runs are found, and what scans left out and deletions took comes back.
EventuallySynced ==
  StatementErrorsEnd =>
    <>[](\/ ~index
         \/ stop = None
         \/ ~Apart
         \/ /\ ready
            /\ rows \cap Below(active \cap Mounted) = Disk \cap Below(active \cap Mounted))

=============================================================================
