------------------------------ MODULE IndexSync ------------------------------
(***************************************************************************)
(* One generation of the filename index under a disk that changes while it *)
(* works (service/fileindex/scan.go, watch.go): the indexing goroutine     *)
(* scans, adds the inotify watches and then reconciles from time to time;  *)
(* the receive loop of the watcher handles one event after another.  The   *)
(* two share the table and no lock.                                        *)
(*                                                                         *)
(* A file on the disk has a version, the change that last wrote it; a row  *)
(* holds the version the program saw when it looked.  Hidden and excluded  *)
(* entries are left out: no walk lists them.                               *)
(***************************************************************************)
EXTENDS Integers, Sequences, FiniteSets

CONSTANTS
  Top,         \* the root directory
  Dirs,        \* the directories that can exist below it
  Files,       \* the files that can exist below it
  Parent,      \* Parent[p]: the directory that p is an entry of
  Matches,     \* Matches[p]: p and the paths that match LIKE p/%, live siblings' entries included
  QueueCap,    \* fs.inotify.max_queued_events
  MaxChanges,  \* bounds the changes of the disk
  None

Paths == Dirs \cup Files

VARIABLES
  disk,      \* disk[p]: the version of p, or Gone
  rows,      \* rows[p]: the version in p's row, or Gone if there is none
  watched,   \* the directories that have an inotify watch
  queue,     \* the events not yet received
  degraded,  \* Watcher.degraded
  pc,        \* where the two goroutines are
  look,      \* look[w]: the walk in progress of goroutine w
  seen,      \* Reconcile's onDisk
  clock,     \* the number of changes of the disk so far
  blind,     \* history: may a change have escaped the watcher since the last clean pass?
  lost       \* history: the paths whose row another path's deletion took, and none wrote since

vars == <<disk, rows, watched, queue, degraded, pc, look, seen, clock, blind, lost>>

Gone == -1
Workers == {"loop", "handler"}

Kids(q)  == {p \in Paths : Parent[p] = q}
Closed(S) == \A q \in S : Kids(q) \subseteq S
\* The least set that has p's entries and is closed
Below(p) == {q \in Paths : \A S \in SUBSET Paths : Kids(p) \subseteq S /\ Closed(S) => q \in S}
Tree(p)  == {p} \cup Below(p)

ASSUME SyncAssumption ==
  /\ Top \notin Paths /\ Dirs \cap Files = {}
  /\ Parent \in [Paths -> Dirs \cup {Top}]
  /\ QueueCap \in Nat \ {0} /\ MaxChanges \in Nat
  /\ None \notin Paths \cup {Top}
  /\ Matches \in [Paths -> SUBSET Paths]
  /\ \A p \in Paths : Tree(p) \subseteq Matches[p]
  /\ Below(Top) = Paths

OnDisk(S) == {p \in S : disk[p] # Gone}

\* A walk: the entries listed and not yet visited, and the one between stat and Upsert.
NoLook == [pend |-> {}, cur |-> None, val |-> Gone]

(***************************************************************************)
(* The disk.  A change in a watched directory queues an event; when the    *)
(* queue is full the kernel drops it and reports an overflow, which the    *)
(* receive loop takes from fsw.Errors and ignores.                         *)
(***************************************************************************)

\* What is added to q is seen later: q is watched, or will be watched and then read, itself or
\* with a directory above it.
Covered(q) ==
  \/ q \in watched
  \/ \E i \in DOMAIN queue : queue[i].op = "create" /\ q \in Tree(queue[i].name)
  \/ pc["handler"] = "watch" /\ \E r \in look["handler"].pend : q \in Tree(r)

Walking == pc["loop"] \in {"boot", "watch", "walk", "delete"}

Change(op, p) ==
  /\ clock < MaxChanges
  /\ clock' = clock + 1
  /\ IF Parent[p] \in watched /\ Len(queue) < QueueCap
     THEN /\ queue' = Append(queue, [op |-> op, name |-> p])
          /\ blind' = (blind \/ Walking)
     ELSE /\ queue' = queue
          /\ blind' = \/ blind \/ Walking
                      \/ Parent[p] \in watched  \* overflow
                      \/ op = "remove" \/ ~Covered(Parent[p])
  /\ UNCHANGED <<rows, degraded, pc, look, seen, lost>>

Exists(q) == q \in OnDisk(Paths) \cup {Top}

CreateFile(p) ==
  /\ disk[p] = Gone /\ Exists(Parent[p])
  /\ disk' = [disk EXCEPT ![p] = clock + 1]
  /\ Change("create", p)
  /\ UNCHANGED watched

WriteFile(p) ==
  /\ disk[p] # Gone
  /\ disk' = [disk EXCEPT ![p] = clock + 1]
  /\ Change("write", p)
  /\ UNCHANGED watched

\* mkdir, or a directory moved in with what it holds; a directory has no version
MoveIn(d, S) ==
  /\ disk[d] = Gone /\ Exists(Parent[d])
  /\ \A p \in S : Parent[p] \in S \cup {d}
  /\ disk' = [p \in Paths |-> IF p \notin S \cup {d} THEN disk[p]
                               ELSE IF p \in Dirs THEN 0 ELSE clock + 1]
  /\ Change("create", d)
  /\ UNCHANGED watched

\* rm, rm -r or a move out of the tree; the kernel drops the watches below p
Remove(p) ==
  /\ disk[p] # Gone
  /\ disk' = [q \in Paths |-> IF q \in Tree(p) THEN Gone ELSE disk[q]]
  /\ Change("remove", p)
  /\ watched' = watched \ Tree(p)

(***************************************************************************)
(* Walks.  WalkDir lists a directory, then visits its entries: each is     *)
(* stat'ed and upserted, and a directory is listed in turn.                *)
(***************************************************************************)

\* recordFor: a directory has no version, and a file that is gone by now gets none either,
\* but is upserted all the same.
Stat(w) ==
  /\ look[w].cur = None
  /\ \E p \in look[w].pend :
       look' = [look EXCEPT ![w] = [pend |-> @.pend \ {p}, cur |-> p,
                                    val |-> IF disk[p] = Gone THEN 0 ELSE disk[p]]]
  /\ UNCHANGED <<disk, rows, watched, queue, degraded, pc, seen, clock, blind, lost>>

Upsert(w) ==
  /\ look[w].cur # None
  /\ rows' = [rows EXCEPT ![look[w].cur] = look[w].val]
  /\ look' = [look EXCEPT ![w] = [NoLook EXCEPT !.pend =
                look[w].pend \cup OnDisk(Kids(look[w].cur))]]
  /\ seen' = IF w = "loop" THEN seen \cup {look[w].cur} ELSE seen
  /\ lost' = lost \ {look[w].cur}
  /\ UNCHANGED <<disk, watched, queue, degraded, pc, clock, blind>>

Visit(w) == /\ pc[w] \in {"boot", "walk", "scan"}
            /\ Stat(w) \/ Upsert(w)

\* addWatchRecursive: watch a directory, then list it.  fs.inotify.max_user_watches is shared
\* by all of the user's programs, so any Add can meet the limit; the watcher then degrades and
\* adds no watch any more.
AddWatch(w) ==
  /\ pc[w] = "watch"
  /\ \E q \in look[w].pend :
       \/ /\ degraded \/ Exists(q)
          /\ degraded' = TRUE
          /\ blind' = TRUE
          /\ look' = [look EXCEPT ![w].pend = {}]
          /\ UNCHANGED watched
       \/ /\ ~degraded
          /\ watched' = watched \cup ({q} \cap (OnDisk(Paths) \cup {Top}))
          /\ look' = [look EXCEPT ![w].pend = (@ \ {q}) \cup OnDisk(Kids(q) \cap Dirs)]
          /\ UNCHANGED <<degraded, blind>>
  /\ UNCHANGED <<disk, rows, queue, pc, seen, clock, lost>>

(***************************************************************************)
(* The indexing goroutine.                                                 *)
(***************************************************************************)
Goto(w, label) == pc' = [pc EXCEPT ![w] = label]
Rested(w) == look[w] = NoLook

BootScanned ==
  /\ pc["loop"] = "boot" /\ Rested("loop")
  /\ Goto("loop", "watch")
  /\ look' = [look EXCEPT !["loop"].pend = {Top}]
  /\ UNCHANGED <<disk, rows, watched, queue, degraded, seen, clock, blind, lost>>

Started ==
  /\ pc["loop"] = "watch" /\ Rested("loop")
  /\ Goto("loop", "sleep")
  /\ UNCHANGED <<disk, rows, watched, queue, degraded, look, seen, clock, blind, lost>>

\* Reconcile begins to walk.  The pass makes up for what was missed if it starts with no
\* backlog of events, all directories are watched, and no change overlaps with it.
Reconcile ==
  /\ pc["loop"] = "sleep"
  /\ Goto("loop", "walk")
  /\ look' = [look EXCEPT !["loop"].pend = OnDisk(Kids(Top))]
  /\ seen' = {}
  /\ blind' = \/ degraded \/ \E q \in OnDisk(Dirs) \cup {Top} : ~Covered(q)
              \/ blind /\ (queue # <<>> \/ pc["handler"] # "idle")
  /\ UNCHANGED <<disk, rows, watched, queue, degraded, clock, lost>>

\* Mutant: no row is ever found to be gone.
SelectGone_None ==
  /\ pc["loop"] = "walk" /\ Rested("loop")
  /\ Goto("loop", "delete")
  /\ UNCHANGED <<disk, rows, watched, queue, degraded, look, seen, clock, blind, lost>>

\* The SELECT of the rows that the walk did not see; look.pend now holds the gone ones.
SelectGone ==
  /\ pc["loop"] = "walk" /\ Rested("loop")
  /\ Goto("loop", "delete")
  /\ look' = [look EXCEPT !["loop"].pend = {p \in Paths : rows[p] # Gone} \ seen]
  /\ UNCHANGED <<disk, rows, watched, queue, degraded, seen, clock, blind, lost>>

\* p's row and all that match its pattern, of which the tree of p is only a part
DeletePrefix(p) ==
  /\ rows' = [q \in Paths |-> IF q \in Matches[p] THEN Gone ELSE rows[q]]
  /\ lost' = lost \cup {q \in Matches[p] \ Tree(p) : rows[q] # Gone}

DeleteGone ==
  /\ pc["loop"] = "delete"
  /\ \E p \in look["loop"].pend :
       /\ DeletePrefix(p)
       /\ look' = [look EXCEPT !["loop"].pend = @ \ {p}]
  /\ UNCHANGED <<disk, watched, queue, degraded, pc, seen, clock, blind>>

Reconciled ==
  /\ pc["loop"] = "delete" /\ Rested("loop")
  /\ Goto("loop", "sleep")
  /\ seen' = {}
  /\ UNCHANGED <<disk, rows, watched, queue, degraded, look, clock, blind, lost>>

(***************************************************************************)
(* The receive loop: handleEvent, one event at a time.                     *)
(***************************************************************************)
Take == /\ pc["handler"] = "idle"
        /\ pc["loop"] \notin {"boot", "watch"}  \* the loop is spawned at the end of Start
        /\ queue # <<>>
        /\ queue' = Tail(queue)
        /\ UNCHANGED <<disk, watched, degraded, seen, clock, blind>>

Event == Head(queue)

\* Mutant: a created file is taken for a directory.
HandleCreateDir_NoStat ==
  /\ Take
  /\ Event.op = "create" /\ disk[Event.name] # Gone
  /\ Goto("handler", "watch")
  /\ look' = [look EXCEPT !["handler"] = [pend |-> {Event.name}, cur |-> Event.name, val |-> 0]]
  /\ UNCHANGED <<rows, lost>>

\* A new directory is watched, upserted and scanned, in this order.
HandleCreateDir ==
  /\ Take
  /\ Event.op = "create" /\ Event.name \in OnDisk(Dirs)
  /\ Goto("handler", "watch")
  /\ look' = [look EXCEPT !["handler"] = [pend |-> {Event.name}, cur |-> Event.name, val |-> 0]]
  /\ UNCHANGED <<rows, lost>>

\* upsertPath looks at the file now, whatever the event was about.
HandleFile ==
  /\ Take
  /\ Event.op \in {"create", "write"} /\ Event.name \in OnDisk(Files)
  /\ Goto("handler", "scan")
  /\ look' = [look EXCEPT !["handler"] = [pend |-> {}, cur |-> Event.name,
                                          val |-> disk[Event.name]]]
  /\ UNCHANGED <<rows, lost>>

HandleVanished ==
  /\ Take
  /\ Event.op \in {"create", "write"} /\ disk[Event.name] = Gone
  /\ UNCHANGED <<rows, pc, look, lost>>

HandleRemove ==
  /\ Take
  /\ Event.op = "remove"
  /\ DeletePrefix(Event.name)
  /\ UNCHANGED <<pc, look>>

\* Mutant: the new directory's own row only, and no backfill of what it came with.
HandlerWatched_NoBackfill ==
  /\ pc["handler"] = "watch" /\ look["handler"].pend = {}
  /\ Goto("handler", "idle")
  /\ rows' = [rows EXCEPT ![look["handler"].cur] = 0]
  /\ look' = [look EXCEPT !["handler"] = NoLook]
  /\ lost' = lost \ {look["handler"].cur}
  /\ UNCHANGED <<disk, watched, queue, degraded, seen, clock, blind>>

HandlerWatched ==
  /\ pc["handler"] = "watch" /\ look["handler"].pend = {}
  /\ Goto("handler", "scan")
  /\ UNCHANGED <<disk, rows, watched, queue, degraded, look, seen, clock, blind, lost>>

Handled ==
  /\ pc["handler"] = "scan" /\ Rested("handler")
  /\ Goto("handler", "idle")
  /\ UNCHANGED <<disk, rows, watched, queue, degraded, look, seen, clock, blind, lost>>

-----------------------------------------------------------------------------
Init ==
  /\ disk \in {[p \in Paths |-> IF p \in S THEN 0 ELSE Gone] :
                 S \in {T \in SUBSET Paths : \A p \in T : Parent[p] \in T \cup {Top}}}
  /\ rows \in {[p \in Paths |-> Gone], [p \in Paths |-> 0]}
  /\ watched = {}
  /\ queue = <<>>
  /\ degraded = FALSE
  /\ pc = [w \in Workers |-> IF w = "loop" THEN "boot" ELSE "idle"]
  /\ look = [w \in Workers |->
               IF w = "loop" THEN [NoLook EXCEPT !.pend = OnDisk(Kids(Top))] ELSE NoLook]
  /\ seen = {}
  /\ clock = 0
  /\ blind = TRUE
  /\ lost = {}

Environment ==
  \/ \E f \in Files : CreateFile(f) \/ WriteFile(f)
  \/ \E d \in Dirs : \E S \in SUBSET Below(d) : MoveIn(d, S)
  \/ \E p \in Paths : Remove(p)

Loop == \/ Visit("loop") \/ AddWatch("loop") \/ BootScanned \/ Started
        \/ Reconcile \/ SelectGone \/ DeleteGone \/ Reconciled

Handler == \/ HandleCreateDir \/ HandleFile \/ HandleVanished \/ HandleRemove
           \/ AddWatch("handler") \/ HandlerWatched \/ Visit("handler") \/ Handled

Next == Environment \/ Loop \/ Handler

Spec == Init /\ [][Next]_vars

\* The goroutines run, and the reconcile timer fires; nothing is asked of the disk.
FairSpec == Spec /\ WF_vars(Loop) /\ WF_vars(Handler)

(***************************************************************************)
(* Properties.                                                             *)
(***************************************************************************)
Versions == Gone..MaxChanges

\* Rows and files carry versions; walks and events name paths of the tree.
TypeOK ==
  /\ disk \in [Paths -> Versions] /\ rows \in [Paths -> Versions]
  /\ watched \subseteq Dirs \cup {Top}
  /\ Len(queue) <= QueueCap
  /\ \A i \in DOMAIN queue : queue[i] \in [op : {"create", "write", "remove"}, name : Paths]
  /\ degraded \in BOOLEAN /\ blind \in BOOLEAN
  /\ pc["loop"] \in {"boot", "watch", "sleep", "walk", "delete"}
  /\ pc["handler"] \in {"idle", "watch", "scan"}
  /\ \A w \in Workers : look[w] \in [pend : SUBSET (Paths \cup {Top}), cur : Paths \cup {None},
                                     val : Versions]
  /\ seen \subseteq Paths /\ lost \subseteq Paths
  /\ clock \in 0..MaxChanges

Quiet == queue = <<>> /\ pc["handler"] = "idle" /\ pc["loop"] = "sleep"

\* Once a reconcile that no change overlapped has seen every directory watched, events alone
\* keep the index equal to the disk: when the receive loop has caught up, nothing is stale or
\* left over, and nothing is missing, new directories and what they came with included, but the
\* rows that the deletion of another path took by its pattern and nothing wrote again.
InSync ==
  Quiet /\ ~blind => rows = [p \in Paths |-> IF p \in lost THEN Gone ELSE disk[p]]

\* When the disk stops changing, the index comes to agree with it and stays so, whatever was
\* missed: events dropped on overflow or for want of a watch, walks crossed by changes, and rows
\* that another path's deletion took.
EventuallySynced == <>[](rows = disk)

=============================================================================
