--------------------------- MODULE IndexSync_proofs ---------------------------
(***************************************************************************)
(* That events and clean passes keep the index equal to the disk, for any  *)
(* tree of any depth, any number of changes and any length of the queue.   *)
(***************************************************************************)
EXTENDS IndexSync, TLAPS

Events == [op : {"create", "write", "remove"}, name : Paths]
Labels == {"boot", "watch", "sleep", "walk", "delete", "idle", "scan"}
Looks  == [pend : SUBSET (Paths \cup {Top}), cur : Paths \cup {None}, val : Versions]

Typed == /\ TypeOK
         /\ queue \in Seq(Events)
         /\ pc \in [Workers -> Labels]
         /\ look \in [Workers -> Looks]

\* The disk is a tree, in which directories have no versions, and only what exists is watched.
DiskOK ==
  /\ \A p \in Paths : disk[p] # Gone => Exists(Parent[p])
  /\ \A d \in Dirs : disk[d] \in {Gone, 0}
  /\ watched \subseteq OnDisk(Paths) \cup {Top}

LookOK ==
  /\ \A w \in Workers : IF pc[w] = "watch" THEN look[w].pend \subseteq Dirs \cup {Top}
                        ELSE look[w].pend \subseteq Paths
  /\ pc["handler"] = "idle" => look["handler"] = NoLook
  /\ pc["handler"] = "watch" =>
       /\ look["handler"].cur \in Dirs /\ look["handler"].val = 0
       /\ look["handler"].pend \subseteq Tree(look["handler"].cur)
  /\ pc["loop"] \in {"watch", "sleep", "delete"} => look["loop"].cur = None
  /\ pc["loop"] = "sleep" => look["loop"] = NoLook

-----------------------------------------------------------------------------
(***************************************************************************)
(* What holds while nothing has escaped the watcher.                       *)
(***************************************************************************)
Removal(i, p)  == queue[i].op = "remove" /\ p \in Tree(queue[i].name)
NoRemoval(p)   == \A i \in 1..Len(queue) : ~Removal(i, p)

\* An event is queued whose handler indexes p, and none behind it that removes p.
Queued(p) ==
  \E i \in 1..Len(queue) : /\ queue[i].op # "remove" /\ p \in Tree(queue[i].name)
                           /\ \A j \in (i + 1)..Len(queue) : ~Removal(j, p)

\* w's walk is still to come to p.
Visits(w, p) == \/ \E q \in look[w].pend : p \in Tree(q)
                \/ look[w].cur # None /\ p \in Below(look[w].cur)

\* The handler is to index p as it is.
Handles(p) ==
  \/ pc["handler"] = "watch" /\ p \in Tree(look["handler"].cur)
  \/ /\ pc["handler"] = "scan"
     /\ Visits("handler", p) \/ (look["handler"].cur = p /\ look["handler"].val = disk[p])

\* The loop's walk is still to see p.
Comes(p) == Visits("loop", p) \/ look["loop"].cur = p

\* A pass that makes up for what was missed has the index to itself.
Alone     == queue = <<>> /\ pc["handler"] = "idle"
Sweeps(p) == pc["loop"] = "walk" /\ Alone /\ Comes(p)

\* Its row is what the disk has, or another path's deletion took it.
Fresh(p) == rows[p] = disk[p] \/ p \in lost

\* A path that exists is in order, or is about to be.
Present(p) ==
  \/ Fresh(p) /\ NoRemoval(p) /\ (look["handler"].cur = p => look["handler"].val = disk[p])
  \/ Queued(p)
  \/ NoRemoval(p) /\ Handles(p)
  \/ Sweeps(p)

\* So is one that does not.
Absent(p) ==
  \/ /\ rows[p] = Gone /\ look["handler"].cur # p
     /\ pc["handler"] = "scan" => p \notin look["handler"].pend
  \/ \E i \in 1..Len(queue) : Removal(i, p)
  \/ Alone /\ (pc["loop"] = "walk" \/ (pc["loop"] = "delete" /\ p \in look["loop"].pend))

\* The loop's walk sees the disk as it is, all of it, and deletes only what is gone.
LoopOK ==
  /\ pc["loop"] \in {"sleep", "walk", "delete"}
  /\ pc["loop"] = "walk" =>
       /\ look["loop"].pend \subseteq OnDisk(Paths) /\ seen \subseteq OnDisk(Paths)
       /\ look["loop"].cur # None =>
            disk[look["loop"].cur] # Gone /\ look["loop"].val = disk[look["loop"].cur]
       /\ \A p \in OnDisk(Paths) : p \in seen \/ Comes(p)
  /\ pc["loop"] = "delete" => look["loop"].pend \cap OnDisk(Paths) = {}

\* When p was removed and r above it is not watched any more, with nothing watched between the
\* two, then r was removed after p.
RemovalsOK ==
  \A i \in 1..Len(queue) : queue[i].op = "remove" =>
    \A r \in Paths :
      /\ queue[i].name \in Below(r)
      /\ \A s \in Tree(r) : queue[i].name \in Below(s) => s \notin watched
      => \E j \in (i + 1)..Len(queue) : Removal(j, r)

InOrder(p) == IF disk[p] # Gone THEN Present(p) ELSE Absent(p)

Calm ==
  /\ ~degraded
  /\ LoopOK
  /\ RemovalsOK
  /\ \A p \in Paths : InOrder(p)

\* A row that a deletion took is not there until something is written for it.
LostOK == \A p \in lost : rows[p] = Gone

IInv == Typed /\ DiskOK /\ LookOK /\ LostOK /\ (~blind => Calm)

-----------------------------------------------------------------------------
(***************************************************************************)
(* Trees.                                                                  *)
(***************************************************************************)
LEMMA Constants ==
  /\ Top \notin Paths /\ None \notin Paths /\ Dirs \subseteq Paths /\ Files \subseteq Paths
  /\ Dirs \cap Files = {} /\ \A p \in Paths : Parent[p] \in Dirs \cup {Top}
  /\ QueueCap \in Nat /\ MaxChanges \in Nat /\ Below(Top) = Paths
  /\ \A p \in Paths : Tree(p) \subseteq Matches[p] /\ Matches[p] \subseteq Paths
  BY SyncAssumption DEF Paths

LEMMA BelowPaths ==
  ASSUME NEW p
  PROVE  Below(p) \subseteq Paths /\ Kids(p) \subseteq Below(p) /\ Kids(p) \subseteq Paths
  BY DEF Below, Kids

\* What is closed and has p's entries has all below p.
LEMMA BelowLeast ==
  ASSUME NEW p, NEW S, S \subseteq Paths, Kids(p) \subseteq S, Closed(S)
  PROVE  Below(p) \subseteq S
  BY DEF Below

LEMMA BelowClosed ==
  ASSUME NEW p, NEW q \in Below(p)
  PROVE  Kids(q) \subseteq Below(p)
<1> SUFFICES ASSUME NEW k \in Kids(q), NEW S \in SUBSET Paths, Kids(p) \subseteq S, Closed(S)
             PROVE  k \in S
  BY DEF Below, Kids
<1>1. q \in S
  BY DEF Below
<1> QED BY <1>1 DEF Closed

LEMMA BelowTransitive ==
  ASSUME NEW p, NEW q \in Below(p)
  PROVE  Tree(q) \subseteq Below(p)
<1>1. Closed(Below(p)) /\ Below(p) \subseteq Paths
  BY BelowClosed, BelowPaths DEF Closed
<1>2. Below(q) \subseteq Below(p)
  BY <1>1, BelowClosed, BelowLeast
<1> QED BY <1>2 DEF Tree

LEMMA TreeTransitive ==
  ASSUME NEW p, NEW q \in Tree(p)
  PROVE  Tree(q) \subseteq Tree(p)
  BY BelowTransitive DEF Tree

LEMMA TreePaths ==
  ASSUME NEW p \in Paths
  PROVE  Tree(p) \subseteq Paths /\ p \in Tree(p)
  BY BelowPaths DEF Tree

\* The way down to q leads through an entry of p.
LEMMA WayDown ==
  ASSUME NEW p, NEW q \in Below(p)
  PROVE  \E k \in Kids(p) : q \in Tree(k)
<1> DEFINE S == {x \in Paths : \E k \in Kids(p) : x \in Tree(k)}
<1>1. Kids(p) \subseteq S
  BY BelowPaths DEF Tree
<1>2. Closed(S)
  <2> SUFFICES ASSUME NEW x \in S, NEW y \in Kids(x)
               PROVE  y \in S
    BY DEF Closed
  <2>1. PICK k \in Kids(p) : x \in Tree(k)
    OBVIOUS
  <2>2. y \in Tree(k) /\ y \in Paths
    BY <2>1, BelowClosed, BelowPaths DEF Tree
  <2> QED BY <2>2
<1> QED BY <1>1, <1>2, BelowLeast

\* The way up from q leads through its parent.
LEMMA WayUp ==
  ASSUME NEW p, NEW q \in Below(p)
  PROVE  Parent[q] \in Tree(p)
<1> DEFINE S == {x \in Below(p) : Parent[x] \in Tree(p)}
<1>1. Kids(p) \subseteq S
  BY BelowPaths DEF Kids, Tree
<1>2. Closed(S)
  <2> SUFFICES ASSUME NEW x \in S, NEW y \in Kids(x)
               PROVE  y \in S
    BY DEF Closed
  <2>1. y \in Below(p) /\ Parent[y] = x
    BY BelowClosed DEF Kids
  <2> QED BY <2>1 DEF Tree
<1>3. S \subseteq Paths
  BY BelowPaths
<1> QED BY <1>1, <1>2, <1>3, BelowLeast

LEMMA Acyclic ==
  ASSUME NEW p \in Paths
  PROVE  p \notin Below(p)
<1> DEFINE S == {x \in Paths : x \notin Below(x)}
<1>1. Kids(Top) \subseteq S
  <2> SUFFICES ASSUME NEW k \in Kids(Top), k \in Below(k)
               PROVE  FALSE
    BY BelowPaths
  <2>1. Parent[k] = Top /\ k \in Paths
    BY DEF Kids
  <2>2. Top \in Tree(k)
    BY <2>1, WayUp
  <2> QED BY <2>1, <2>2, TreePaths, Constants
<1>2. Closed(S)
  <2> SUFFICES ASSUME NEW x \in S, NEW y \in Kids(x), y \in Below(y)
               PROVE  FALSE
    BY BelowPaths DEF Closed
  <2>1. x \in Tree(y) /\ y \in Below(x)
    BY WayUp, BelowPaths DEF Kids
  <2> QED BY <2>1, BelowTransitive DEF Tree
<1> QED BY <1>1, <1>2, BelowLeast, Constants

\* Of two directories above a path one is above the other.
LEMMA Linear ==
  ASSUME NEW d, NEW f \in Tree(d), NEW x, f \in Below(x)
  PROVE  x \in Tree(d) \/ d \in Below(x)
<1> DEFINE S == {y \in Below(d) : y \in Below(x) => x \in Tree(d) \/ d \in Below(x)}
<1>1. Kids(d) \subseteq S
  <2> SUFFICES ASSUME NEW y \in Kids(d), y \in Below(x)
               PROVE  x \in Tree(d) \/ d \in Below(x)
    BY BelowPaths
  <2>1. Parent[y] = d /\ Parent[y] \in Tree(x)
    BY WayUp DEF Kids
  <2> QED BY <2>1 DEF Tree
<1>2. Closed(S)
  <2> SUFFICES ASSUME NEW z \in S, NEW y \in Kids(z), y \in Below(x)
               PROVE  y \in Below(d) /\ (x \in Tree(d) \/ d \in Below(x))
    BY BelowClosed DEF Closed
  <2>1. y \in Below(d)
    BY BelowClosed
  <2>2. z \in Tree(x)
    BY WayUp DEF Kids
  <2> QED BY <2>1, <2>2 DEF Tree
<1>3. S \subseteq Paths
  BY BelowPaths
<1>4. Below(d) \subseteq S
  BY <1>1, <1>2, <1>3, BelowLeast
<1> QED BY <1>4 DEF Tree

\* Nothing is below a file.
LEMMA FileTree ==
  ASSUME NEW f \in Files
  PROVE  Tree(f) = {f}
<1>1. Kids(f) = {}
  BY Constants DEF Kids
<1>2. Below(f) \subseteq {}
  BY <1>1, BelowLeast DEF Closed
<1> QED BY <1>2 DEF Tree

\* Nothing is below what is gone.
LEMMA GoneBelow ==
  ASSUME DiskOK, NEW p \in Paths, disk[p] = Gone, NEW q \in Tree(p)
  PROVE  disk[q] = Gone
<1> DEFINE S == {x \in Below(p) : disk[x] = Gone}
<1>1. \A x \in Paths : \A y \in Kids(x) : disk[x] = Gone => disk[y] = Gone
  BY Constants DEF DiskOK, Exists, OnDisk, Kids
<1>2. Kids(p) \subseteq S
  BY <1>1, BelowPaths
<1>3. S \subseteq Paths
  BY BelowPaths
<1>4. Closed(S)
  BY <1>1, <1>3, BelowClosed DEF Closed
<1>5. Below(p) \subseteq S
  BY <1>2, <1>3, <1>4, BelowLeast
<1> QED BY <1>5 DEF Tree

-----------------------------------------------------------------------------
(***************************************************************************)
(* Types, the shape of the disk, and that of the walks.                    *)
(***************************************************************************)
Shape == Typed /\ DiskOK /\ LookOK

LEMMA InitShape == Init => Shape
<1> SUFFICES ASSUME Init
             PROVE  Shape
  OBVIOUS
<1>1. PICK S \in SUBSET Paths : /\ \A p \in S : Parent[p] \in S \cup {Top}
                                /\ disk = [p \in Paths |-> IF p \in S THEN 0 ELSE Gone]
  BY DEF Init
<1>2. DiskOK
  BY <1>1, Constants DEF Init, DiskOK, Exists, OnDisk, Gone
<1>3. LookOK
  BY Constants DEF Init, LookOK, NoLook, Workers, OnDisk, Kids
<1>4. disk \in [Paths -> Versions] /\ rows \in [Paths -> Versions]
  BY <1>1, Constants DEF Init, Versions, Gone
<1>5. pc \in [Workers -> Labels] /\ pc["loop"] = "boot" /\ pc["handler"] = "idle"
  BY DEF Init, Workers, Labels
<1>6. look \in [Workers -> Looks]
  BY Constants DEF Init, Looks, NoLook, Workers, OnDisk, Kids, Versions, Gone
<1>7. TypeOK
  <2>1. watched = {} /\ queue = <<>> /\ degraded = FALSE /\ seen = {} /\ clock = 0 /\ blind = TRUE
        /\ lost = {}
    BY DEF Init
  <2>2. Len(queue) <= QueueCap /\ DOMAIN queue = {}
    BY <2>1, Constants
  <2>3. clock \in 0..MaxChanges
    BY <2>1, Constants
  <2> QED BY <1>4, <1>5, <1>6, <2>1, <2>2, <2>3 DEF TypeOK, Looks
<1> QED BY <1>2, <1>3, <1>4, <1>5, <1>6, <1>7 DEF Shape, Typed, Init

\* What a change of the disk has to do for all to keep its shape.
LEMMA ChangeShape ==
  ASSUME Shape, NEW op \in {"create", "write", "remove"}, NEW p \in Paths, Change(op, p),
         disk' \in [Paths -> Versions], DiskOK', watched' \subseteq watched
  PROVE  Shape'
<1>1. queue' \in Seq(Events) /\ Len(queue') <= QueueCap
  <2>1. [op |-> op, name |-> p] \in Events
    BY DEF Events
  <2>2. queue \in Seq(Events) /\ Len(queue) <= QueueCap /\ QueueCap \in Nat
    BY Constants DEF Shape, Typed, TypeOK
  <2>3. queue' = queue \/ (Len(queue) < QueueCap /\ queue' = Append(queue, [op |-> op, name |-> p]))
    BY DEF Change
  <2> QED BY <2>1, <2>2, <2>3
<1>2. blind' \in BOOLEAN
  BY Zenon DEF Change
<1>3. clock' \in 0..MaxChanges
  BY Constants DEF Shape, Typed, TypeOK, Change
<1>4. UNCHANGED <<rows, degraded, pc, look, seen, lost>>
  BY DEF Change
<1>5. LookOK'
  BY <1>4 DEF Shape, LookOK
<1>6. \A i \in DOMAIN queue' : queue'[i] \in Events
  BY <1>1
<1>7. TypeOK'
  <2>1. watched' \subseteq Dirs \cup {Top}
    BY DEF Shape, Typed, TypeOK
  <2>2. /\ rows' \in [Paths -> Versions]
        /\ pc'["loop"] \in {"boot", "watch", "sleep", "walk", "delete"}
        /\ pc'["handler"] \in {"idle", "watch", "scan"}
        /\ \A w \in Workers : look'[w] \in [pend : SUBSET (Paths \cup {Top}), cur : Paths \cup {None},
                                            val : Versions]
        /\ seen' \subseteq Paths /\ lost' \subseteq Paths
    BY <1>4 DEF Shape, Typed, TypeOK
  <2>3. degraded' \in BOOLEAN
    BY <1>4 DEF Shape, Typed, TypeOK
  <2> QED BY <1>1, <1>2, <1>3, <1>6, <2>1, <2>2, <2>3, Zenon DEF TypeOK, Events, Versions
<1>8. Typed'
  BY <1>1, <1>4, <1>7 DEF Shape, Typed, Looks, Versions
<1> QED BY <1>5, <1>8 DEF Shape

LEMMA CreateFileShape ==
  ASSUME Shape, NEW f \in Files, CreateFile(f)
  PROVE  Shape'
<1>1. disk' \in [Paths -> Versions]
  BY Constants DEF CreateFile, Change, Shape, Typed, TypeOK, Versions, Gone
<1>2. DiskOK'
  BY Constants DEF CreateFile, Change, Shape, Typed, TypeOK, DiskOK, Exists, OnDisk, Gone
<1> QED BY <1>1, <1>2, Constants, ChangeShape DEF CreateFile

LEMMA WriteFileShape ==
  ASSUME Shape, NEW f \in Files, WriteFile(f)
  PROVE  Shape'
<1>1. disk' \in [Paths -> Versions]
  BY Constants DEF WriteFile, Change, Shape, Typed, TypeOK, Versions, Gone
<1>2. DiskOK'
  BY Constants DEF WriteFile, Change, Shape, Typed, TypeOK, DiskOK, Exists, OnDisk, Gone
<1> QED BY <1>1, <1>2, Constants, ChangeShape DEF WriteFile

LEMMA MoveInShape ==
  ASSUME Shape, NEW d \in Dirs, NEW S \in SUBSET Below(d), MoveIn(d, S)
  PROVE  Shape'
<1>1. d \in Paths /\ S \subseteq Paths
  BY Constants, BelowPaths
<1>2. disk' \in [Paths -> Versions]
  BY <1>1, Constants DEF MoveIn, Change, Shape, Typed, TypeOK, Versions, Gone
<1>3. \A p \in Paths : disk[p] # Gone => disk'[p] # Gone
  BY <1>1, Constants DEF MoveIn, Change, Shape, Typed, TypeOK, Gone
<1>4. \A p \in Paths : disk'[p] # Gone => disk[p] # Gone \/ p \in S \cup {d}
  BY DEF MoveIn
<1>5. \A p \in S \cup {d} : disk'[p] # Gone
  BY <1>1, Constants DEF MoveIn, Change, Shape, Typed, TypeOK, Gone
<1>6. \A p \in Paths : disk'[p] # Gone => Exists(Parent[p])'
  BY <1>1, <1>3, <1>4, <1>5, Constants DEF Shape, DiskOK, Exists, OnDisk, MoveIn
<1>7. \A e \in Dirs : disk'[e] \in {Gone, 0}
  BY <1>1, Constants DEF Shape, DiskOK, MoveIn
<1>8. DiskOK'
  BY <1>3, <1>6, <1>7 DEF Shape, DiskOK, OnDisk, MoveIn
<1> QED BY <1>1, <1>2, <1>8, ChangeShape DEF MoveIn

LEMMA RemoveShape ==
  ASSUME Shape, NEW p \in Paths, Remove(p)
  PROVE  Shape'
<1>1. disk' \in [Paths -> Versions]
  BY Constants DEF Remove, Shape, Typed, TypeOK, Versions, Gone
<1>2. \A q \in Paths : disk'[q] # Gone => disk[q] # Gone /\ q \notin Tree(p)
  BY DEF Remove
<1>3. \A q \in Paths : disk[q] # Gone /\ q \notin Tree(p) => disk'[q] # Gone
  BY DEF Remove
<1>4. \A q \in Paths : Parent[q] \in Tree(p) => q \in Tree(p)
  BY BelowClosed, BelowPaths DEF Tree, Kids
<1>5. \A q \in Paths : disk'[q] # Gone => Exists(Parent[q])'
  BY <1>2, <1>3, <1>4, Constants DEF Shape, DiskOK, Exists, OnDisk
<1>6. DiskOK'
  BY <1>3, <1>5, Constants DEF Shape, DiskOK, OnDisk, Remove
<1> QED BY <1>1, <1>6, ChangeShape DEF Remove

LEMMA TailFacts ==
  ASSUME NEW S, NEW q \in Seq(S), q # <<>>
  PROVE  /\ Len(q) \in Nat /\ Len(q) >= 1 /\ Head(q) = q[1] /\ Head(q) \in S
         /\ Tail(q) \in Seq(S) /\ Len(Tail(q)) = Len(q) - 1
         /\ \A i \in 1..(Len(q) - 1) : Tail(q)[i] = q[i + 1]
  OBVIOUS

LEMMA AppendFacts ==
  ASSUME NEW S, NEW q \in Seq(S), NEW e \in S
  PROVE  /\ Len(q) \in Nat /\ Append(q, e) \in Seq(S) /\ Len(Append(q, e)) = Len(q) + 1
         /\ Append(q, e)[Len(q) + 1] = e
         /\ \A i \in 1..Len(q) : Append(q, e)[i] = q[i]
  OBVIOUS

LEMMA WorkerNames == "loop" \in Workers /\ "handler" \in Workers /\ Workers = {"loop", "handler"}
  BY DEF Workers

\* What a step of a goroutine has to do for all to keep its shape.
LEMMA StepShape ==
  ASSUME Shape, UNCHANGED <<disk, clock>>, rows' \in [Paths -> Versions],
         watched' \subseteq (OnDisk(Paths) \cap Dirs) \cup {Top},
         queue' = queue \/ (queue # <<>> /\ queue' = Tail(queue)),
         degraded' \in BOOLEAN, blind' \in BOOLEAN,
         pc' \in [Workers -> Labels], pc'["loop"] \in {"boot", "watch", "sleep", "walk", "delete"},
         pc'["handler"] \in {"idle", "watch", "scan"},
         look' \in [Workers -> Looks], seen' \subseteq Paths, lost' \subseteq Paths, LookOK'
  PROVE  Shape'
<1>1. queue' \in Seq(Events) /\ Len(queue') <= QueueCap
  <2>1. queue \in Seq(Events) /\ Len(queue) \in Nat /\ Len(queue) <= QueueCap /\ QueueCap \in Nat
    BY Constants DEF Shape, Typed, TypeOK
  <2>2. CASE queue' = queue
    BY <2>1, <2>2
  <2>3. CASE queue # <<>> /\ queue' = Tail(queue)
    BY <2>1, <2>3, TailFacts
  <2> QED BY <2>2, <2>3
<1>2. \A k \in DOMAIN queue' : queue'[k] \in Events
  BY <1>1
<1>3. DiskOK'
  BY DEF Shape, DiskOK, Exists, OnDisk
<1>4. /\ watched' \subseteq Dirs \cup {Top} /\ disk' \in [Paths -> Versions]
      /\ clock' \in 0..MaxChanges
  BY DEF OnDisk, Shape, Typed, TypeOK
<1>5. \A w \in Workers : look'[w] \in Looks
  BY WorkerNames
<1>6. TypeOK'
  BY <1>1, <1>2, <1>4, <1>5, Zenon DEF TypeOK, Events, Looks, Versions
<1>7. Typed'
  BY <1>1, <1>6 DEF Typed, Looks, Versions
<1> QED BY <1>3, <1>7 DEF Shape

\* What is so of all that a step leaves alone.
LEMMA ShapeFacts ==
  ASSUME Shape
  PROVE  /\ rows \in [Paths -> Versions] /\ disk \in [Paths -> Versions]
         /\ watched \subseteq (OnDisk(Paths) \cap Dirs) \cup {Top}
         /\ queue \in Seq(Events) /\ degraded \in BOOLEAN /\ blind \in BOOLEAN
         /\ pc \in [Workers -> Labels] /\ look \in [Workers -> Looks] /\ seen \subseteq Paths
         /\ lost \subseteq Paths
         /\ pc["loop"] \in {"boot", "watch", "sleep", "walk", "delete"}
         /\ pc["handler"] \in {"idle", "watch", "scan"}
         /\ look["loop"] \in Looks /\ look["handler"] \in Looks
         /\ Gone \in Versions /\ 0 \in Versions /\ LookOK
<1>1. Gone \in Versions /\ 0 \in Versions
  BY Constants DEF Versions, Gone
<1>2. look["loop"] \in Looks /\ look["handler"] \in Looks
  BY WorkerNames DEF Shape, Typed
<1>3. watched \subseteq (OnDisk(Paths) \cap Dirs) \cup {Top}
  BY DEF Shape, Typed, TypeOK, DiskOK
<1> QED BY <1>1, <1>2, <1>3 DEF Shape, Typed, TypeOK

LEMMA StatShape ==
  ASSUME Shape, NEW w \in Workers, pc[w] \in {"boot", "walk", "scan"}, Stat(w)
  PROVE  Shape'
<1> USE ShapeFacts, WorkerNames
<1>1. PICK p \in look[w].pend :
        look' = [look EXCEPT ![w] = [pend |-> look[w].pend \ {p}, cur |-> p,
                                     val |-> IF disk[p] = Gone THEN 0 ELSE disk[p]]]
  BY DEF Stat
<1>2. look[w] \in Looks /\ look[w].pend \subseteq Paths /\ p \in Paths
  BY DEF LookOK
<1>3. [pend |-> look[w].pend \ {p}, cur |-> p, val |-> IF disk[p] = Gone THEN 0 ELSE disk[p]] \in Looks
  BY <1>2 DEF Looks
<1>4. look' \in [Workers -> Looks]
  BY <1>1, <1>3
<1>5. LookOK'
  BY <1>1, <1>2 DEF LookOK, Stat
<1> QED BY <1>4, <1>5, StepShape DEF Stat

LEMMA UpsertShape ==
  ASSUME Shape, NEW w \in Workers, pc[w] \in {"boot", "walk", "scan"}, Upsert(w)
  PROVE  Shape'
<1> USE ShapeFacts, WorkerNames
<1> DEFINE new == [NoLook EXCEPT !.pend = look[w].pend \cup OnDisk(Kids(look[w].cur))]
<1>1. look[w] \in Looks /\ look[w].pend \subseteq Paths /\ look[w].cur \in Paths
  BY DEF LookOK, Upsert, Looks
<1>2. OnDisk(Kids(look[w].cur)) \subseteq Paths
  BY BelowPaths DEF OnDisk
<1>3. new \in Looks /\ new.pend \subseteq Paths /\ new.cur = None
  BY <1>1, <1>2 DEF Looks, NoLook
<1>4. look' = [look EXCEPT ![w] = new]
  BY DEF Upsert
<1> HIDE DEF new
<1>5. look' \in [Workers -> Looks]
  BY <1>3, <1>4
<1>6. LookOK'
  <2>1. look'[w] = new /\ pc' = pc /\ \A x \in Workers \ {w} : look'[x] = look[x]
    BY <1>4 DEF Upsert
  <2> QED BY <1>3, <2>1 DEF LookOK
<1>7. rows' \in [Paths -> Versions] /\ seen' \subseteq Paths /\ lost' \subseteq Paths
  BY <1>1 DEF Upsert, Looks
<1> QED BY <1>5, <1>6, <1>7, StepShape DEF Upsert

LEMMA VisitShape ==
  ASSUME Shape, NEW w \in Workers, Visit(w)
  PROVE  Shape'
  BY StatShape, UpsertShape DEF Visit

LEMMA AddWatchShape ==
  ASSUME Shape, NEW w \in Workers, AddWatch(w)
  PROVE  Shape'
<1> USE ShapeFacts, WorkerNames
<1>1. PICK q \in look[w].pend :
        \/ /\ degraded' = TRUE /\ blind' = TRUE /\ UNCHANGED watched
           /\ look' = [look EXCEPT ![w].pend = {}]
        \/ /\ watched' = watched \cup ({q} \cap (OnDisk(Paths) \cup {Top}))
           /\ look' = [look EXCEPT ![w].pend = (look[w].pend \ {q}) \cup OnDisk(Kids(q) \cap Dirs)]
           /\ UNCHANGED <<degraded, blind>>
  BY DEF AddWatch
<1>2. pc[w] = "watch" /\ look[w].pend \subseteq Dirs \cup {Top} /\ look[w] \in Looks
  BY DEF AddWatch, LookOK
<1>3. watched' \subseteq (OnDisk(Paths) \cap Dirs) \cup {Top}
  BY <1>1, <1>2
<1> DEFINE left == (look[w].pend \ {q}) \cup OnDisk(Kids(q) \cap Dirs)
<1>4. left \subseteq Dirs \cup {Top}
  BY <1>2 DEF OnDisk
<1>5. w = "handler" => left \subseteq Tree(look[w].cur)
  <2> SUFFICES ASSUME w = "handler"
               PROVE  left \subseteq Tree(look[w].cur)
    OBVIOUS
  <2>1. look[w].pend \subseteq Tree(look[w].cur)
    BY <1>2 DEF LookOK
  <2>2. q \in Tree(look[w].cur) /\ Kids(q) \subseteq Tree(q)
    BY <2>1, BelowPaths DEF Tree
  <2>3. Kids(q) \subseteq Tree(look[w].cur)
    BY <2>2, TreeTransitive
  <2> QED BY <2>1, <2>3 DEF OnDisk
<1> DEFINE new == look'[w]
<1>6. /\ new \in Looks /\ new.cur = look[w].cur /\ new.val = look[w].val
      /\ new.pend = {} \/ new.pend = left
      /\ \A x \in Workers \ {w} : look'[x] = look[x]
      /\ look' \in [Workers -> Looks]
  <2> HIDE DEF left
  <2>1. CASE look' = [look EXCEPT ![w].pend = {}]
    BY <1>2, <2>1 DEF Looks
  <2>2. CASE look' = [look EXCEPT ![w].pend = left]
    <3>1. left \in SUBSET (Paths \cup {Top})
      BY <1>4, Constants
    <3> QED BY <1>2, <2>2, <3>1 DEF Looks
  <2> QED BY <1>1, <2>1, <2>2 DEF left
<1> HIDE DEF left, new
<1>7. LookOK'
  BY <1>2, <1>4, <1>5, <1>6 DEF LookOK, AddWatch, new
<1>8. degraded' \in BOOLEAN /\ blind' \in BOOLEAN
  BY <1>1, Zenon
<1> QED BY <1>3, <1>6, <1>7, <1>8, StepShape DEF AddWatch

LEMMA LoopShape ==
  ASSUME Shape, BootScanned \/ Started \/ Reconcile \/ SelectGone \/ DeleteGone \/ Reconciled
  PROVE  Shape'
<1> USE ShapeFacts, WorkerNames
<1>1. CASE BootScanned
  <2>1. look'["loop"] = [look["loop"] EXCEPT !.pend = {Top}] /\ look'["handler"] = look["handler"]
        /\ pc'["loop"] = "watch" /\ pc'["handler"] = pc["handler"]
    BY <1>1 DEF BootScanned, Goto
  <2>2. look' \in [Workers -> Looks] /\ pc' \in [Workers -> Labels]
    BY <1>1 DEF BootScanned, Goto, Looks, Labels
  <2>3. LookOK'
    BY <1>1, <2>1 DEF LookOK, BootScanned, Rested, NoLook
  <2> QED BY <1>1, <2>1, <2>2, <2>3, StepShape DEF BootScanned
<1>2. CASE Started
  <2>1. pc'["loop"] = "sleep" /\ pc'["handler"] = pc["handler"] /\ pc' \in [Workers -> Labels]
    BY <1>2 DEF Started, Goto, Labels
  <2>2. LookOK'
    BY <1>2, <2>1 DEF LookOK, Started, Rested, NoLook
  <2> QED BY <1>2, <2>1, <2>2, StepShape DEF Started
<1>3. CASE Reconcile
  <2>1. pc'["loop"] = "walk" /\ pc'["handler"] = pc["handler"] /\ pc' \in [Workers -> Labels]
    BY <1>3 DEF Reconcile, Goto, Labels
  <2>2. OnDisk(Kids(Top)) \subseteq Paths
    BY BelowPaths DEF OnDisk
  <2>3. /\ look' \in [Workers -> Looks] /\ look'["loop"].pend = OnDisk(Kids(Top))
        /\ look'["loop"].cur = None /\ look'["handler"] = look["handler"]
    BY <1>3, <2>2 DEF Reconcile, Looks, LookOK, NoLook
  <2>4. LookOK'
    BY <1>3, <2>1, <2>2, <2>3 DEF LookOK, Reconcile
  <2>5. blind' \in BOOLEAN
    BY <1>3, Zenon DEF Reconcile
  <2> QED BY <1>3, <2>1, <2>3, <2>4, <2>5, StepShape DEF Reconcile
<1>4. CASE SelectGone
  <2>1. pc'["loop"] = "delete" /\ pc'["handler"] = pc["handler"] /\ pc' \in [Workers -> Labels]
    BY <1>4 DEF SelectGone, Goto, Labels
  <2>2. /\ look' \in [Workers -> Looks] /\ look'["loop"].pend \subseteq Paths
        /\ look'["loop"].cur = None /\ look'["handler"] = look["handler"]
    BY <1>4 DEF SelectGone, Looks, Rested, NoLook
  <2>3. LookOK'
    BY <1>4, <2>1, <2>2 DEF LookOK, SelectGone
  <2> QED BY <1>4, <2>1, <2>2, <2>3, StepShape DEF SelectGone
<1>5. CASE DeleteGone
  <2>1. PICK p \in look["loop"].pend :
          /\ DeletePrefix(p)
          /\ look' = [look EXCEPT !["loop"].pend = look["loop"].pend \ {p}]
    BY <1>5 DEF DeleteGone
  <2>2. /\ look' \in [Workers -> Looks] /\ look'["loop"].pend \subseteq look["loop"].pend
        /\ look'["loop"].cur = look["loop"].cur /\ look'["handler"] = look["handler"]
    BY <2>1 DEF Looks
  <2>3. LookOK'
    BY <1>5, <2>2 DEF LookOK, DeleteGone
  <2>4. rows' \in [Paths -> Versions] /\ lost' \subseteq Paths
    <3>1. p \in Paths
      BY <1>5 DEF LookOK, DeleteGone
    <3> QED BY <2>1, <3>1, Constants DEF DeletePrefix
  <2> QED BY <1>5, <2>2, <2>3, <2>4, StepShape DEF DeleteGone
<1>6. CASE Reconciled
  <2>1. pc'["loop"] = "sleep" /\ pc'["handler"] = pc["handler"] /\ pc' \in [Workers -> Labels]
    BY <1>6 DEF Reconciled, Goto, Labels
  <2>2. LookOK'
    BY <1>6, <2>1 DEF LookOK, Reconciled, Rested, NoLook
  <2> QED BY <1>6, <2>1, <2>2, StepShape DEF Reconciled
<1> QED BY <1>1, <1>2, <1>3, <1>4, <1>5, <1>6

LEMMA HandlerShape ==
  ASSUME Shape, \/ HandleCreateDir \/ HandleFile \/ HandleVanished \/ HandleRemove
                \/ HandlerWatched \/ Handled
  PROVE  Shape'
<1> USE ShapeFacts, WorkerNames
<1>1. ASSUME Take
      PROVE  /\ queue # <<>> /\ queue' = Tail(queue) /\ Event \in Events /\ Event.name \in Paths
             /\ pc["handler"] = "idle" /\ look["handler"] = NoLook
             /\ UNCHANGED <<disk, watched, degraded, seen, clock, blind>>
  <2>1. queue # <<>> /\ queue' = Tail(queue) /\ pc["handler"] = "idle"
    BY <1>1 DEF Take
  <2>2. Event \in Events
    BY <2>1, TailFacts DEF Event
  <2> QED BY <1>1, <2>1, <2>2 DEF Take, Events, LookOK
<1>2. CASE HandleCreateDir
  <2>1. Take /\ Event.name \in Dirs
    BY <1>2 DEF HandleCreateDir, OnDisk
  <2>2. pc'["handler"] = "watch" /\ pc'["loop"] = pc["loop"] /\ pc' \in [Workers -> Labels]
    BY <1>2 DEF HandleCreateDir, Goto, Labels
  <2>3. /\ look'["handler"] = [pend |-> {Event.name}, cur |-> Event.name, val |-> 0]
        /\ look'["loop"] = look["loop"]
    BY <1>2 DEF HandleCreateDir
  <2>4. look' \in [Workers -> Looks]
    BY <1>1, <1>2, <2>1 DEF HandleCreateDir, Looks
  <2>5. LookOK'
    BY <2>1, <2>2, <2>3 DEF LookOK, Tree
  <2> QED BY <1>1, <1>2, <2>1, <2>2, <2>4, <2>5, StepShape DEF HandleCreateDir
<1>3. CASE HandleFile
  <2>1. Take /\ Event.name \in Files
    BY <1>3 DEF HandleFile, OnDisk
  <2>2. pc'["handler"] = "scan" /\ pc'["loop"] = pc["loop"] /\ pc' \in [Workers -> Labels]
    BY <1>3 DEF HandleFile, Goto, Labels
  <2>3. /\ look'["handler"] = [pend |-> {}, cur |-> Event.name, val |-> disk[Event.name]]
        /\ look'["loop"] = look["loop"]
    BY <1>3 DEF HandleFile
  <2>4. look' \in [Workers -> Looks]
    BY <1>1, <1>3, <2>1 DEF HandleFile, Looks
  <2>5. LookOK'
    BY <2>1, <2>2, <2>3 DEF LookOK
  <2> QED BY <1>1, <1>3, <2>1, <2>2, <2>4, <2>5, StepShape DEF HandleFile
<1>4. CASE HandleVanished
  <2>1. Take /\ UNCHANGED <<rows, pc, look, lost>>
    BY <1>4 DEF HandleVanished
  <2>2. LookOK'
    BY <2>1 DEF LookOK
  <2> QED BY <1>1, <2>1, <2>2, StepShape
<1>5. CASE HandleRemove
  <2>1. Take /\ UNCHANGED <<pc, look>> /\ rows' \in [Paths -> Versions]
    BY <1>5 DEF HandleRemove, DeletePrefix
  <2>3. lost' \subseteq Paths
    BY <1>1, <1>5, <2>1, Constants DEF HandleRemove, DeletePrefix
  <2>2. LookOK'
    BY <2>1 DEF LookOK
  <2> QED BY <1>1, <2>1, <2>2, <2>3, StepShape
<1>6. CASE HandlerWatched
  <2>1. pc'["handler"] = "scan" /\ pc'["loop"] = pc["loop"] /\ pc' \in [Workers -> Labels]
    BY <1>6 DEF HandlerWatched, Goto, Labels
  <2>2. LookOK'
    BY <1>6, <2>1 DEF LookOK, HandlerWatched
  <2> QED BY <1>6, <2>1, <2>2, StepShape DEF HandlerWatched
<1>7. CASE Handled
  <2>1. pc'["handler"] = "idle" /\ pc'["loop"] = pc["loop"] /\ pc' \in [Workers -> Labels]
    BY <1>7 DEF Handled, Goto, Labels
  <2>2. LookOK'
    BY <1>7, <2>1 DEF LookOK, Handled, Rested, NoLook
  <2> QED BY <1>7, <2>1, <2>2, StepShape DEF Handled
<1> QED BY <1>2, <1>3, <1>4, <1>5, <1>6, <1>7

LEMMA NextShape ==
  ASSUME Shape, [Next]_vars
  PROVE  Shape'
<1>1. CASE UNCHANGED vars
  BY <1>1 DEF vars, Shape, Typed, TypeOK, DiskOK, Exists, OnDisk, LookOK
<1>2. CASE Environment
  BY <1>2, CreateFileShape, WriteFileShape, MoveInShape, RemoveShape DEF Environment
<1>3. CASE Loop
  BY <1>3, WorkerNames, VisitShape, AddWatchShape, LoopShape DEF Loop
<1>4. CASE Handler
  BY <1>4, WorkerNames, VisitShape, AddWatchShape, HandlerShape DEF Handler
<1> QED BY <1>1, <1>2, <1>3, <1>4 DEF Next

-----------------------------------------------------------------------------
(***************************************************************************)
(* Changes of the disk.                                                    *)
(***************************************************************************)
QueueLen == /\ Len(queue) \in Nat /\ queue \in Seq(Events) /\ DOMAIN queue = 1..Len(queue)
            /\ \A i \in 1..Len(queue) : queue[i] \in Events /\ queue[i].name \in Paths

LEMMA QueueFacts ==
  ASSUME Shape
  PROVE  QueueLen
<1>1. queue \in Seq(Events)
  BY DEF Shape, Typed
<1>2. Len(queue) \in Nat /\ DOMAIN queue = 1..Len(queue) /\ \A i \in 1..Len(queue) : queue[i] \in Events
  BY <1>1
<1>3. \A e \in Events : e.name \in Paths
  BY DEF Events
<1> QED BY <1>1, <1>2, <1>3 DEF QueueLen

\* A change that does not escape is queued, or is made where it will be seen.
LEMMA ChangeFacts ==
  ASSUME Shape, ~blind => Calm, NEW op \in {"create", "write", "remove"}, NEW p \in Paths,
         Change(op, p), ~blind'
  PROVE  /\ Calm /\ pc["loop"] = "sleep" /\ UNCHANGED <<rows, degraded, pc, look, seen, lost>>
         /\ \/ Parent[p] \in watched /\ queue' = Append(queue, [op |-> op, name |-> p])
            \/ /\ Parent[p] \notin watched /\ queue' = queue
               /\ op # "remove" /\ Covered(Parent[p])
<1>0. UNCHANGED <<rows, degraded, pc, look, seen, lost>>
  BY DEF Change
<1>1. CASE Parent[p] \in watched /\ Len(queue) < QueueCap
  <2>1. /\ queue' = Append(queue, [op |-> op, name |-> p])
        /\ blind' = (blind \/ Walking)
    BY <1>1, Zenon DEF Change
  <2>2. ~blind /\ ~Walking
    BY <2>1, Zenon
  <2> QED BY <1>0, <1>1, <2>1, <2>2 DEF Calm, LoopOK, Walking
<1>2. CASE ~(Parent[p] \in watched /\ Len(queue) < QueueCap)
  <2>1. /\ queue' = queue
        /\ blind' = \/ blind \/ Walking
                    \/ Parent[p] \in watched
                    \/ op = "remove" \/ ~Covered(Parent[p])
    BY <1>2, Zenon DEF Change
  <2>2. ~blind /\ ~Walking /\ Parent[p] \notin watched /\ op # "remove" /\ Covered(Parent[p])
    BY <2>1, Zenon
  <2> QED BY <1>0, <2>1, <2>2 DEF Calm, LoopOK, Walking
<1> QED BY <1>1, <1>2

\* x is below q, which is not watched yet but will be: then the handler comes to x.
LEMMA Reach ==
  ASSUME Shape, Calm, pc["loop"] = "sleep", NEW q \in Paths, disk[q] # Gone, q \notin watched,
         Covered(q), NEW x \in Below(q), \A r \in Tree(q) : x \in Below(r) => r \notin watched
  PROVE  \/ Queued(x)
         \/ NoRemoval(x) /\ pc["handler"] = "watch" /\ x \in Tree(look["handler"].cur)
<1>0. QueueLen
  BY QueueFacts
<1>1. ASSUME NEW j \in 1..Len(queue), Removal(j, x)
      PROVE  Removal(j, q) \/ \E k \in (j + 1)..Len(queue) : Removal(k, q)
  <2> DEFINE n == queue[j].name
  <2>1. queue[j].op = "remove" /\ x \in Tree(n) /\ n \in Paths
    BY <1>0, <1>1 DEF Removal, QueueLen
  <2>2. CASE q \in Tree(n)
    BY <2>1, <2>2 DEF Removal
  <2>3. CASE q \notin Tree(n)
    <3>1. n \in Below(q)
      <4>1. CASE x = n
        BY <4>1
      <4>2. CASE x \in Below(n)
        BY <2>3, <4>2, Linear DEF Tree
      <4> QED BY <2>1, <4>1, <4>2 DEF Tree
    <3>2. \A s \in Tree(q) : n \in Below(s) => s \notin watched
      <4> SUFFICES ASSUME NEW s \in Tree(q), n \in Below(s)
                   PROVE  x \in Below(s)
        OBVIOUS
      <4> QED BY <2>1, BelowTransitive
    <3> QED BY <2>1, <3>1, <3>2 DEF Calm, RemovalsOK
  <2> QED BY <2>2, <2>3
<1>2. Queued(q) \/ NoRemoval(q)
  BY DEF Calm, InOrder, Present, Sweeps
<1>3. \A p : q \in Tree(p) => x \in Tree(p)
  BY BelowTransitive DEF Tree
<1>4. CASE Queued(q)
  <2>1. PICK i \in 1..Len(queue) : /\ queue[i].op # "remove" /\ q \in Tree(queue[i].name)
                                   /\ \A j \in (i + 1)..Len(queue) : ~Removal(j, q)
    BY <1>4 DEF Queued
  <2>2. x \in Tree(queue[i].name)
    BY <1>3, <2>1
  <2>3. \A j \in (i + 1)..Len(queue) : ~Removal(j, x)
    <3> SUFFICES ASSUME NEW j \in (i + 1)..Len(queue), Removal(j, x)
                 PROVE  FALSE
      OBVIOUS
    <3>1. j \in 1..Len(queue) /\ \A k \in (j + 1)..Len(queue) : k \in (i + 1)..Len(queue)
      BY <1>0 DEF QueueLen
    <3> QED BY <1>1, <2>1, <3>1
  <2> QED BY <2>1, <2>2, <2>3 DEF Queued
<1>5. CASE NoRemoval(q)
  <2>1. NoRemoval(x)
    <3> SUFFICES ASSUME NEW j \in 1..Len(queue), Removal(j, x)
                 PROVE  FALSE
      BY DEF NoRemoval
    <3>1. \A k \in (j + 1)..Len(queue) : k \in 1..Len(queue)
      BY <1>0 DEF QueueLen
    <3> QED BY <1>1, <1>5, <3>1 DEF NoRemoval
  <2>2. CASE \E i \in DOMAIN queue : queue[i].op = "create" /\ q \in Tree(queue[i].name)
    <3>1. PICK i \in 1..Len(queue) : queue[i].op = "create" /\ q \in Tree(queue[i].name)
      BY <1>0, <2>2 DEF QueueLen
    <3>2. \A j \in (i + 1)..Len(queue) : j \in 1..Len(queue)
      BY <1>0 DEF QueueLen
    <3> QED BY <1>3, <2>1, <3>1, <3>2 DEF NoRemoval, Queued
  <2>3. CASE pc["handler"] = "watch" /\ \E r \in look["handler"].pend : q \in Tree(r)
    <3>1. PICK r \in look["handler"].pend : q \in Tree(r)
      BY <2>3
    <3>2. r \in Tree(look["handler"].cur)
      BY <2>3, <3>1 DEF Shape, LookOK
    <3>3. x \in Tree(look["handler"].cur)
      BY <1>3, <3>1, <3>2, TreeTransitive
    <3> QED BY <2>1, <2>3, <3>3
  <2> QED BY <2>2, <2>3 DEF Covered
<1> QED BY <1>2, <1>4, <1>5

\* What is covered but not watched is below the root.
LEMMA CoveredPath ==
  ASSUME Shape, NEW q, Covered(q), q \notin watched
  PROVE  q \in Paths
<1>1. CASE \E i \in DOMAIN queue : q \in Tree(queue[i].name)
  <2>1. PICK i \in DOMAIN queue : q \in Tree(queue[i].name)
    BY <1>1
  <2>2. queue[i].name \in Paths
    BY <2>1, QueueFacts DEF QueueLen
  <2> QED BY <2>1, <2>2, TreePaths
<1>2. CASE pc["handler"] = "watch" /\ \E r \in look["handler"].pend : q \in Tree(r)
  <2>1. PICK r \in look["handler"].pend : q \in Tree(r)
    BY <1>2
  <2>2. r \in Tree(look["handler"].cur) /\ look["handler"].cur \in Paths
    BY <1>2, <2>1, Constants DEF Shape, LookOK
  <2> QED BY <2>1, <2>2, TreePaths
<1> QED BY <1>1, <1>2 DEF Covered

\* Only p is an entry of its parent on the way from there.
LEMMA OneAbove ==
  ASSUME NEW p \in Paths, Parent[p] \in Paths, NEW r \in Tree(Parent[p]), p \in Below(r)
  PROVE  r = Parent[p]
<1>1. Parent[p] \in Tree(r)
  BY WayUp
<1> QED BY <1>1, Acyclic, BelowTransitive DEF Tree

\* p, with what it holds, is made or written.
LEMMA AddedCalm ==
  ASSUME Shape, ~blind => Calm, NEW op \in {"create", "write"}, NEW p \in Paths, Change(op, p),
         ~blind', UNCHANGED watched, Exists(Parent[p]), NEW C, C \subseteq Tree(p),
         \A x \in Paths \ C : disk'[x] = disk[x],
         \A x \in C : disk'[x] # Gone,
         \A x \in C : \A r \in Tree(p) : x \in Below(r) => r \notin watched
  PROVE  Calm'
<1> DEFINE e == [op |-> op, name |-> p]
           n == Len(queue)
<1>1. /\ Calm /\ pc["loop"] = "sleep" /\ UNCHANGED <<rows, degraded, pc, look, seen, lost>>
      /\ \/ Parent[p] \in watched /\ queue' = Append(queue, e)
         \/ Parent[p] \notin watched /\ queue' = queue /\ Covered(Parent[p])
  BY ChangeFacts
<1>2. n \in Nat /\ e \in Events /\ queue \in Seq(Events)
  BY QueueFacts DEF QueueLen, Events
<1>3. /\ Len(queue') \in {n, n + 1} /\ \A j \in 1..n : queue'[j] = queue[j]
      /\ \A j \in 1..Len(queue') : j \notin 1..n => j = n + 1 /\ queue'[j] = e
  <2>1. CASE queue' = Append(queue, e)
    BY <1>2, <2>1, AppendFacts
  <2>2. CASE queue' = queue
    BY <1>2, <2>2
  <2> QED BY <1>1, <2>1, <2>2
<1> HIDE DEF n
<1>4. \A x : \A j \in 1..Len(queue') : Removal(j, x)' => j \in 1..n /\ Removal(j, x)
  BY <1>3 DEF Removal
<1>5. \A x : \A j \in 1..n : Removal(j, x) => j \in 1..Len(queue') /\ Removal(j, x)'
  BY <1>2, <1>3 DEF Removal
<1>6. \A x : NoRemoval(x) => NoRemoval(x)'
  BY <1>4 DEF NoRemoval, n
<1>7. \A x : Queued(x) => Queued(x)'
  <2> SUFFICES ASSUME NEW x, Queued(x)
               PROVE  Queued(x)'
    OBVIOUS
  <2>1. PICK j \in 1..n : /\ queue[j].op # "remove" /\ x \in Tree(queue[j].name)
                          /\ \A k \in (j + 1)..n : ~Removal(k, x)
    BY DEF Queued, n
  <2>2. j \in 1..Len(queue') /\ queue'[j] = queue[j]
    BY <1>2, <1>3
  <2>3. \A k \in (j + 1)..Len(queue') : ~Removal(k, x)'
    <3> SUFFICES ASSUME NEW k \in (j + 1)..Len(queue'), Removal(k, x)'
                 PROVE  FALSE
      OBVIOUS
    <3>1. k \in 1..Len(queue')
      BY <1>2, <1>3
    <3>2. k \in 1..n /\ Removal(k, x)
      BY <1>4, <3>1
    <3>3. k \in (j + 1)..n
      BY <1>2, <3>2
    <3> QED BY <2>1, <3>2, <3>3
  <2> QED BY <2>1, <2>2, <2>3 DEF Queued
<1>8. RemovalsOK'
  <2> SUFFICES ASSUME NEW j \in 1..Len(queue'), queue'[j].op = "remove", NEW r \in Paths,
                      queue'[j].name \in Below(r),
                      \A s \in Tree(r) : queue'[j].name \in Below(s) => s \notin watched
               PROVE  \E k \in (j + 1)..Len(queue') : Removal(k, r)'
    BY DEF RemovalsOK
  <2>1. j \in 1..n /\ queue'[j] = queue[j]
    BY <1>3
  <2>2. PICK k \in (j + 1)..n : Removal(k, r)
    BY <1>1, <2>1 DEF Calm, RemovalsOK, n
  <2>3. k \in 1..n /\ k \in (j + 1)..Len(queue')
    BY <1>2, <1>3, <2>1
  <2> QED BY <1>5, <2>2, <2>3
<1>9. ASSUME NEW x \in Paths \ C
      PROVE  InOrder(x)'
  <2>1. InOrder(x) /\ disk'[x] = disk[x]
    BY <1>1 DEF Calm
  <2>2. CASE disk[x] # Gone
    <3>1. \/ Fresh(x) /\ NoRemoval(x) /\ (look["handler"].cur = x => look["handler"].val = disk[x])
          \/ Queued(x)
          \/ NoRemoval(x) /\ Handles(x)
      BY <1>1, <2>1, <2>2 DEF InOrder, Present, Fresh, Sweeps
    <3>2. Handles(x) => Handles(x)'
      BY <1>1, <2>1 DEF Handles, Visits
    <3>3. Present(x)'
      BY <1>1, <1>6, <1>7, <2>1, <3>1, <3>2 DEF Present, Fresh
    <3> QED BY <2>1, <2>2, <3>3 DEF InOrder
  <2>3. CASE disk[x] = Gone
    <3>1. \/ /\ rows[x] = Gone /\ look["handler"].cur # x
             /\ pc["handler"] = "scan" => x \notin look["handler"].pend
          \/ \E j \in 1..n : Removal(j, x)
      BY <1>1, <2>1, <2>3 DEF InOrder, Absent, n
    <3>2. Absent(x)'
      BY <1>1, <1>5, <3>1 DEF Absent
    <3> QED BY <2>1, <2>3, <3>2 DEF InOrder
  <2> QED BY <2>2, <2>3
<1>10. ASSUME NEW x \in C
       PROVE  InOrder(x)'
  <2>1. CASE queue' = Append(queue, e)
    <3>1. Len(queue') = n + 1 /\ queue'[n + 1] = e
      BY <1>2, <2>1, AppendFacts DEF n
    <3>2. n + 1 \in 1..Len(queue') /\ (n + 1 + 1)..Len(queue') = {}
      BY <1>2, <3>1
    <3>3. Queued(x)'
      BY <3>1, <3>2 DEF Queued
    <3> QED BY <3>3 DEF InOrder, Present
  <2>2. CASE Parent[p] \notin watched /\ queue' = queue /\ Covered(Parent[p])
    <3> DEFINE q == Parent[p]
    <3>1. q \in Paths /\ disk[q] # Gone
      BY <2>2, CoveredPath, Constants DEF Exists, OnDisk
    <3>2. x \in Below(q) /\ p \in Below(q)
      BY BelowPaths, BelowTransitive DEF Kids
    <3>3. \A r \in Tree(q) : x \in Below(r) => r \notin watched
      <4> SUFFICES ASSUME NEW r \in Tree(q), x \in Below(r)
                   PROVE  r \notin watched
        OBVIOUS
      <4>1. r \in Tree(p) \/ p \in Below(r)
        BY Linear
      <4> QED BY <2>2, <3>1, <4>1, OneAbove
    <3>4. \/ Queued(x)
          \/ NoRemoval(x) /\ pc["handler"] = "watch" /\ x \in Tree(look["handler"].cur)
      BY <1>1, <2>2, <3>1, <3>2, <3>3, Reach
    <3>5. Present(x)'
      BY <1>1, <1>6, <1>7, <3>4 DEF Present, Handles
    <3> QED BY <3>5 DEF InOrder
  <2> QED BY <1>1, <2>1, <2>2
<1>11. LoopOK' /\ ~degraded'
  BY <1>1 DEF Calm, LoopOK
<1> QED BY <1>8, <1>9, <1>10, <1>11 DEF Calm

LEMMA CreateFileCalm ==
  ASSUME Shape, ~blind => Calm, NEW f \in Files, CreateFile(f), ~blind'
  PROVE  Calm'
<1>1. f \in Paths /\ Tree(f) = {f} /\ Gone # clock + 1
  BY Constants, FileTree DEF Shape, Typed, TypeOK, Gone
<1>2. /\ \A x \in Paths \ {f} : disk'[x] = disk[x]
      /\ disk'[f] # Gone
  BY <1>1 DEF CreateFile, Shape, Typed, TypeOK
<1>3. \A x \in {f} : \A r \in Tree(f) : x \notin Below(r)
  BY <1>1, Acyclic
<1> QED BY <1>1, <1>2, <1>3, AddedCalm DEF CreateFile

LEMMA WriteFileCalm ==
  ASSUME Shape, ~blind => Calm, NEW f \in Files, WriteFile(f), ~blind'
  PROVE  Calm'
<1>1. f \in Paths /\ Tree(f) = {f} /\ Gone # clock + 1
  BY Constants, FileTree DEF Shape, Typed, TypeOK, Gone
<1>2. /\ \A x \in Paths \ {f} : disk'[x] = disk[x]
      /\ disk'[f] # Gone /\ Exists(Parent[f])
  BY <1>1 DEF WriteFile, Shape, Typed, TypeOK, DiskOK
<1>3. \A x \in {f} : \A r \in Tree(f) : x \notin Below(r)
  BY <1>1, Acyclic
<1> QED BY <1>1, <1>2, <1>3, AddedCalm DEF WriteFile

LEMMA MoveInCalm ==
  ASSUME Shape, ~blind => Calm, NEW d \in Dirs, NEW S \in SUBSET Below(d), MoveIn(d, S), ~blind'
  PROVE  Calm'
<1>1. d \in Paths /\ Gone # clock + 1 /\ Gone # 0 /\ S \cup {d} \subseteq Tree(d) /\ S \subseteq Paths
  BY Constants, BelowPaths DEF Shape, Typed, TypeOK, Gone, Tree
<1>2. /\ \A x \in Paths \ (S \cup {d}) : disk'[x] = disk[x]
      /\ \A x \in S \cup {d} : disk'[x] # Gone
  BY <1>1 DEF MoveIn
<1>3. \A r \in Tree(d) : r \notin watched
  <2> SUFFICES ASSUME NEW r \in Tree(d)
               PROVE  r \notin watched
    OBVIOUS
  <2>1. disk[r] = Gone /\ r \in Paths
    BY <1>1, GoneBelow, TreePaths DEF MoveIn, Shape
  <2> QED BY <2>1, Constants DEF Shape, DiskOK, OnDisk
<1> QED BY <1>1, <1>2, <1>3, AddedCalm DEF MoveIn

LEMMA RemoveCalm ==
  ASSUME Shape, ~blind => Calm, NEW p \in Paths, Remove(p), ~blind'
  PROVE  Calm'
<1> DEFINE e == [op |-> "remove", name |-> p]
<1>0. PICK n \in Nat : n = Len(queue)
  BY QueueFacts DEF QueueLen
<1>1. /\ Calm /\ pc["loop"] = "sleep" /\ UNCHANGED <<rows, degraded, pc, look, seen, lost>>
      /\ Parent[p] \in watched /\ queue' = Append(queue, e)
  BY ChangeFacts DEF Remove
<1>2. n \in Nat /\ e \in Events /\ queue \in Seq(Events)
  BY QueueFacts DEF QueueLen, Events
<1>3. /\ Len(queue') = n + 1 /\ \A j \in 1..n : queue'[j] = queue[j]
      /\ queue'[n + 1] = e
  BY <1>0, <1>1, <1>2, AppendFacts
<1>4. /\ \A x \in Tree(p) \cap Paths : disk'[x] = Gone
      /\ \A x \in Paths \ Tree(p) : disk'[x] = disk[x]
      /\ watched' = watched \ Tree(p)
  BY DEF Remove
<1>5. Parent[p] \notin Tree(p)
  <2>1. p \in Below(Parent[p])
    BY BelowPaths DEF Kids
  <2> QED BY <2>1, Acyclic, BelowTransitive DEF Tree
<1>6. \A x : /\ \A j \in 1..n : Removal(j, x)' <=> Removal(j, x)
             /\ Removal(n + 1, x)' <=> x \in Tree(p)
  BY <1>3 DEF Removal
<1>7. RemovalsOK'
  <2> SUFFICES ASSUME NEW j \in 1..(n + 1), queue'[j].op = "remove", NEW r \in Paths,
                      queue'[j].name \in Below(r),
                      \A s \in Tree(r) : queue'[j].name \in Below(s) => s \notin watched'
               PROVE  \E k \in (j + 1)..(n + 1) : Removal(k, r)'
    BY <1>3 DEF RemovalsOK
  <2> DEFINE m == queue'[j].name
  <2>1. ASSUME p \in Below(r), m \in Tree(p)
        PROVE  FALSE
    <3>1. Parent[p] \in Tree(r)
      BY <2>1, WayUp
    <3>2. m \in Below(Parent[p])
      BY <2>1, BelowPaths, BelowTransitive DEF Kids
    <3> QED BY <1>1, <1>4, <1>5, <3>1, <3>2
  <2>2. CASE r \in Tree(p)
    <3>1. j # n + 1
      BY <1>3, <2>2, Acyclic, BelowTransitive DEF Tree
    <3>2. n + 1 \in (j + 1)..(n + 1)
      BY <1>2, <3>1
    <3> QED BY <1>6, <2>2, <3>2
  <2>3. CASE r \notin Tree(p)
    <3>1. j # n + 1
      BY <1>3, <2>1 DEF Tree
    <3>2. j \in 1..n /\ queue'[j] = queue[j]
      BY <1>2, <1>3, <3>1
    <3>3. ASSUME NEW s \in Tree(r), m \in Below(s), s \in watched
          PROVE  FALSE
      <4>1. s \in Tree(p)
        BY <1>4, <3>3
      <4>2. p \in Below(r)
        BY <2>3, <4>1, Linear DEF Tree
      <4>3. m \in Tree(p)
        BY <3>3, <4>1, TreeTransitive DEF Tree
      <4> QED BY <2>1, <4>2, <4>3
    <3>4. PICK k \in (j + 1)..n : Removal(k, r)
      BY <1>0, <1>1, <3>2, <3>3 DEF Calm, RemovalsOK
    <3>5. k \in 1..n /\ k \in (j + 1)..(n + 1)
      BY <1>2, <3>2
    <3> QED BY <1>6, <3>4, <3>5
  <2> QED BY <2>2, <2>3
<1>8. ASSUME NEW x \in Tree(p), x \in Paths
      PROVE  InOrder(x)'
  <2>1. n + 1 \in 1..Len(queue')
    BY <1>2, <1>3
  <2> QED BY <1>4, <1>6, <1>8, <2>1 DEF InOrder, Absent
<1>9. ASSUME NEW x \in Paths \ Tree(p)
      PROVE  InOrder(x)'
  <2>1. InOrder(x) /\ disk'[x] = disk[x]
    BY <1>1, <1>4 DEF Calm
  <2>2. \A j \in 1..(n + 1) : Removal(j, x)' => j \in 1..n /\ Removal(j, x)
    BY <1>2, <1>6
  <2>3. NoRemoval(x) => NoRemoval(x)'
    BY <1>0, <1>3, <2>2 DEF NoRemoval
  <2>4. Queued(x) => Queued(x)'
    <3> SUFFICES ASSUME Queued(x)
                 PROVE  Queued(x)'
      OBVIOUS
    <3>1. PICK j \in 1..n : /\ queue[j].op # "remove" /\ x \in Tree(queue[j].name)
                            /\ \A k \in (j + 1)..n : ~Removal(k, x)
      BY <1>0 DEF Queued
    <3>2. j \in 1..Len(queue') /\ queue'[j] = queue[j]
      BY <1>2, <1>3
    <3>3. \A k \in (j + 1)..Len(queue') : ~Removal(k, x)'
      <4> SUFFICES ASSUME NEW k \in (j + 1)..(n + 1), Removal(k, x)'
                   PROVE  FALSE
        BY <1>3
      <4>1. k \in 1..(n + 1)
        BY <1>2
      <4>2. k \in 1..n /\ Removal(k, x)
        BY <2>2, <4>1
      <4>3. k \in (j + 1)..n
        BY <1>2, <4>2
      <4> QED BY <3>1, <4>2, <4>3
    <3> QED BY <3>1, <3>2, <3>3 DEF Queued
  <2>5. Handles(x) => Handles(x)'
    BY <1>1, <2>1 DEF Handles, Visits
  <2>6. CASE disk[x] # Gone
    <3>1. \/ Fresh(x) /\ NoRemoval(x) /\ (look["handler"].cur = x => look["handler"].val = disk[x])
          \/ Queued(x)
          \/ NoRemoval(x) /\ Handles(x)
      BY <1>1, <2>1, <2>6 DEF InOrder, Present, Sweeps
    <3>2. Present(x)'
      BY <1>1, <2>1, <2>3, <2>4, <2>5, <3>1 DEF Present, Fresh
    <3> QED BY <2>1, <2>6, <3>2 DEF InOrder
  <2>7. CASE disk[x] = Gone
    <3>1. \/ /\ rows[x] = Gone /\ look["handler"].cur # x
             /\ pc["handler"] = "scan" => x \notin look["handler"].pend
          \/ \E j \in 1..n : Removal(j, x)
      BY <1>0, <1>1, <2>1, <2>7 DEF InOrder, Absent
    <3>2. \A j \in 1..n : j \in 1..Len(queue')
      BY <1>2, <1>3
    <3>3. Absent(x)'
      BY <1>1, <1>6, <3>1, <3>2 DEF Absent
    <3> QED BY <2>1, <2>7, <3>3 DEF InOrder
  <2> QED BY <2>6, <2>7
<1>10. LoopOK' /\ ~degraded'
  BY <1>1 DEF Calm, LoopOK
<1> QED BY <1>7, <1>8, <1>9, <1>10 DEF Calm

-----------------------------------------------------------------------------
(***************************************************************************)
(* The indexing goroutine.                                                 *)
(***************************************************************************)
LEMMA LoopStatCalm ==
  ASSUME Shape, Calm, pc["loop"] \in {"boot", "walk", "scan"}, Stat("loop")
  PROVE  Calm'
<1>0. pc["loop"] = "walk" /\ look["loop"].pend \subseteq OnDisk(Paths) /\ look["loop"].cur = None
  BY DEF Calm, LoopOK, Stat
<1>1. PICK p \in look["loop"].pend :
        look' = [look EXCEPT !["loop"] = [pend |-> look["loop"].pend \ {p}, cur |-> p,
                                          val |-> IF disk[p] = Gone THEN 0 ELSE disk[p]]]
  BY DEF Stat
<1>2. /\ UNCHANGED <<disk, rows, watched, queue, degraded, pc, seen, lost>>
      /\ look'["loop"] = [pend |-> look["loop"].pend \ {p}, cur |-> p, val |-> disk[p]]
      /\ look'["handler"] = look["handler"]
      /\ p \in Paths /\ disk[p] # Gone /\ p # None
  BY <1>0, <1>1, ShapeFacts, WorkerNames, Constants DEF Stat, OnDisk
<1>3. \A x : Comes(x) /\ x # None => Comes(x)'
  BY <1>0, <1>2 DEF Comes, Visits, Tree
<1>4. LoopOK'
  BY <1>0, <1>2, <1>3, Constants DEF Calm, LoopOK, OnDisk
<1>5. RemovalsOK'
  BY <1>2 DEF Calm, RemovalsOK, Removal
<1>6. ASSUME NEW x \in Paths
      PROVE  InOrder(x)'
  <2>1. InOrder(x) /\ x # None
    BY Constants DEF Calm
  <2>2. /\ NoRemoval(x) => NoRemoval(x)'
        /\ Queued(x) => Queued(x)'
        /\ Handles(x) => Handles(x)'
    BY <1>2 DEF NoRemoval, Queued, Handles, Visits, Removal
  <2>3. Sweeps(x) => Sweeps(x)'
    BY <1>0, <1>2, <1>3, <2>1 DEF Sweeps, Alone
  <2>4. Present(x) => Present(x)'
    BY <1>2, <2>2, <2>3 DEF Present, Fresh
  <2>5. Absent(x) => Absent(x)'
    BY <1>0, <1>2 DEF Absent, Alone, Removal
  <2> QED BY <1>2, <2>1, <2>4, <2>5 DEF InOrder
<1> QED BY <1>2, <1>4, <1>5, <1>6 DEF Calm

LEMMA LoopUpsertCalm ==
  ASSUME Shape, Calm, pc["loop"] \in {"boot", "walk", "scan"}, Upsert("loop")
  PROVE  Calm'
<1> DEFINE c == look["loop"].cur
<1>0. /\ pc["loop"] = "walk" /\ look["loop"].pend \subseteq OnDisk(Paths) /\ c # None
      /\ disk[c] # Gone /\ look["loop"].val = disk[c] /\ c \in Paths
  BY ShapeFacts DEF Calm, LoopOK, Upsert, Looks
<1>1. /\ UNCHANGED <<disk, watched, queue, degraded, pc>>
      /\ look'["loop"] = [pend |-> look["loop"].pend \cup OnDisk(Kids(c)), cur |-> None, val |-> Gone]
      /\ look'["handler"] = look["handler"] /\ seen' = seen \cup {c}
      /\ \A x \in Paths : rows'[x] = IF x = c THEN disk[c] ELSE rows[x]
      /\ lost' = lost \ {c}
  BY <1>0, ShapeFacts, WorkerNames DEF Upsert, NoLook
<1> HIDE DEF c
<1>2. \A x \in OnDisk(Paths) : Comes(x) => x = c \/ Comes(x)'
  <2> SUFFICES ASSUME NEW x \in Paths, disk[x] # Gone, Comes(x), x # c
               PROVE  Comes(x)'
    BY DEF OnDisk
  <2>1. CASE \E q \in look["loop"].pend : x \in Tree(q)
    BY <1>1, <2>1 DEF Comes, Visits
  <2>2. CASE x \in Below(c)
    <3>1. PICK k \in Kids(c) : x \in Tree(k)
      BY <2>2, WayDown
    <3>2. k \in Paths /\ disk[k] # Gone
      BY <3>1, GoneBelow, BelowPaths DEF Shape
    <3>3. k \in look'["loop"].pend
      BY <1>1, <3>1, <3>2 DEF OnDisk
    <3> QED BY <3>1, <3>3 DEF Comes, Visits
  <2> QED BY <2>1, <2>2 DEF Comes, Visits, c
<1>3. LoopOK'
  <2>1. OnDisk(Kids(c)) \subseteq OnDisk(Paths)
    BY BelowPaths DEF OnDisk
  <2>2. OnDisk(Paths)' = OnDisk(Paths) /\ c \in OnDisk(Paths)
    BY <1>0, <1>1 DEF OnDisk
  <2>3. \A x \in OnDisk(Paths) : x \in seen' \/ Comes(x)'
    BY <1>0, <1>1, <1>2 DEF Calm, LoopOK
  <2> QED BY <1>0, <1>1, <2>1, <2>2, <2>3 DEF Calm, LoopOK
<1>4. RemovalsOK'
  BY <1>1 DEF Calm, RemovalsOK, Removal
<1>5. ASSUME NEW x \in Paths
      PROVE  InOrder(x)'
  <2>1. InOrder(x) /\ x # None
    BY Constants DEF Calm
  <2>2. /\ NoRemoval(x) => NoRemoval(x)'
        /\ Queued(x) => Queued(x)'
        /\ Handles(x) => Handles(x)'
    BY <1>1 DEF NoRemoval, Queued, Handles, Visits, Removal
  <2>3. CASE disk[x] # Gone
    <3>1. ASSUME Sweeps(x), x = c
          PROVE  Present(x)'
      <4>1. queue = <<>> /\ look["handler"] = NoLook
        BY <3>1 DEF Sweeps, Alone, Shape, LookOK
      <4>2. NoRemoval(x)
        BY <4>1 DEF NoRemoval
      <4> QED BY <1>1, <2>1, <2>2, <3>1, <4>1, <4>2 DEF Present, Fresh, NoLook
    <3>2. Sweeps(x) /\ x # c => Sweeps(x)'
      BY <1>1, <1>2, <2>3 DEF Sweeps, Alone, OnDisk
    <3>3. Present(x)'
      BY <1>1, <2>1, <2>2, <2>3, <3>1, <3>2 DEF InOrder, Present, Fresh
    <3> QED BY <1>1, <2>3, <3>3 DEF InOrder
  <2>4. CASE disk[x] = Gone
    <3>1. x # c
      BY <1>0, <2>4
    <3>2. Absent(x)'
      BY <1>0, <1>1, <2>1, <2>4, <3>1 DEF InOrder, Absent, Alone, Removal
    <3> QED BY <1>1, <2>4, <3>2 DEF InOrder
  <2> QED BY <2>3, <2>4
<1> QED BY <1>1, <1>3, <1>4, <1>5 DEF Calm

\* A pass begins: if something had escaped, it will see everything and has the index to itself.
LEMMA ReconcileCalm ==
  ASSUME Shape, ~blind => Calm, Reconcile, ~blind'
  PROVE  Calm'
<1>1. /\ UNCHANGED <<disk, rows, watched, queue, degraded, lost>> /\ pc["loop"] = "sleep"
      /\ pc'["loop"] = "walk" /\ pc'["handler"] = pc["handler"]
      /\ look'["loop"].pend = OnDisk(Kids(Top)) /\ look'["loop"].cur = None
      /\ look'["handler"] = look["handler"] /\ seen' = {}
  BY ShapeFacts, WorkerNames DEF Reconcile, Goto, LookOK, NoLook, Looks
<1>2. ~degraded /\ (blind => Alone)
  <2>1. blind' = \/ degraded \/ \E q \in OnDisk(Dirs) \cup {Top} : ~Covered(q)
                 \/ blind /\ (queue # <<>> \/ pc["handler"] # "idle")
    BY Zenon DEF Reconcile
  <2> QED BY <2>1, Zenon DEF Alone
<1>3. \A x \in OnDisk(Paths) : Comes(x)'
  <2> SUFFICES ASSUME NEW x \in Paths, disk[x] # Gone
               PROVE  Comes(x)'
    BY DEF OnDisk
  <2>1. PICK k \in Kids(Top) : x \in Tree(k)
    BY WayDown, Constants
  <2>2. k \in Paths /\ disk[k] # Gone
    BY <2>1, GoneBelow, BelowPaths DEF Shape
  <2>3. k \in look'["loop"].pend
    BY <1>1, <2>1, <2>2 DEF OnDisk
  <2> QED BY <2>1, <2>3 DEF Comes, Visits
<1>4. LoopOK'
  <2>1. OnDisk(Kids(Top)) \subseteq OnDisk(Paths) /\ OnDisk(Paths)' = OnDisk(Paths)
    BY <1>1, BelowPaths DEF OnDisk
  <2> QED BY <1>1, <1>3, <2>1 DEF LoopOK
<1>5. RemovalsOK'
  <2>1. CASE ~blind
    BY <1>1, <2>1 DEF Calm, RemovalsOK, Removal
  <2>2. CASE blind
    <3>1. Len(queue') = 0
      BY <1>1, <1>2, <2>2 DEF Alone
    <3> QED BY <3>1 DEF RemovalsOK
  <2> QED BY <2>1, <2>2
<1>6. ASSUME NEW x \in Paths
      PROVE  InOrder(x)'
  <2>1. CASE blind
    <3>1. Alone'
      BY <1>1, <1>2, <2>1 DEF Alone
    <3>2. disk[x] # Gone => Sweeps(x)'
      BY <1>1, <1>3, <3>1 DEF Sweeps, OnDisk
    <3>3. Absent(x)'
      BY <1>1, <3>1 DEF Absent
    <3> QED BY <1>1, <3>2, <3>3 DEF InOrder, Present
  <2>2. CASE ~blind
    <3>1. InOrder(x)
      BY <2>2 DEF Calm
    <3>2. /\ NoRemoval(x) => NoRemoval(x)'
          /\ Queued(x) => Queued(x)'
          /\ Handles(x) => Handles(x)'
      BY <1>1 DEF NoRemoval, Queued, Handles, Visits, Removal
    <3>3. disk[x] # Gone => Present(x)'
      BY <1>1, <3>1, <3>2 DEF InOrder, Present, Fresh, Sweeps
    <3>4. disk[x] = Gone => Absent(x)'
      BY <1>1, <3>1 DEF InOrder, Absent, Removal
    <3> QED BY <1>1, <3>3, <3>4 DEF InOrder
  <2> QED BY <2>1, <2>2
<1> QED BY <1>1, <1>2, <1>4, <1>5, <1>6 DEF Calm

LEMMA SelectGoneCalm ==
  ASSUME Shape, Calm, SelectGone
  PROVE  Calm'
<1>1. /\ UNCHANGED <<disk, rows, watched, queue, degraded, seen, lost>> /\ pc["loop"] = "walk"
      /\ pc'["loop"] = "delete" /\ pc'["handler"] = pc["handler"]
      /\ look'["loop"].pend = {p \in Paths : rows[p] # Gone} \ seen /\ look'["loop"].cur = None
      /\ look'["handler"] = look["handler"]
      /\ look["loop"].pend = {} /\ look["loop"].cur = None
  BY ShapeFacts, WorkerNames DEF SelectGone, Goto, Rested, NoLook, Looks
<1>2. \A x : ~Comes(x) \/ x = None
  BY <1>1 DEF Comes, Visits
<1>3. OnDisk(Paths) = seen
  BY <1>1, <1>2, Constants DEF Calm, LoopOK, OnDisk
<1>4. LoopOK'
  BY <1>1, <1>3 DEF LoopOK, OnDisk
<1>5. RemovalsOK'
  BY <1>1 DEF Calm, RemovalsOK, Removal
<1>6. ASSUME NEW x \in Paths
      PROVE  InOrder(x)'
  <2>1. InOrder(x) /\ x # None
    BY Constants DEF Calm
  <2>2. /\ NoRemoval(x) => NoRemoval(x)'
        /\ Queued(x) => Queued(x)'
        /\ Handles(x) => Handles(x)'
    BY <1>1 DEF NoRemoval, Queued, Handles, Visits, Removal
  <2>3. disk[x] # Gone => Present(x)'
    BY <1>1, <1>2, <2>1, <2>2 DEF InOrder, Present, Fresh, Sweeps
  <2>4. CASE disk[x] = Gone
    <3>1. CASE \/ /\ rows[x] = Gone /\ look["handler"].cur # x
                  /\ pc["handler"] = "scan" => x \notin look["handler"].pend
               \/ \E i \in 1..Len(queue) : Removal(i, x)
      BY <1>1, <2>4, <3>1 DEF InOrder, Absent, Removal
    <3>2. CASE Alone
      <4>1. look["handler"] = NoLook /\ pc["handler"] = "idle"
        BY <3>2 DEF Alone, Shape, LookOK
      <4>2. CASE rows[x] = Gone
        BY <1>1, <2>1, <2>4, <4>1, <4>2 DEF InOrder, Absent, NoLook
      <4>3. CASE rows[x] # Gone
        <5>1. x \in look'["loop"].pend
          BY <1>1, <1>3, <2>4, <4>3 DEF OnDisk
        <5> QED BY <1>1, <2>4, <3>2, <5>1 DEF InOrder, Absent, Alone
      <4> QED BY <4>2, <4>3
    <3> QED BY <2>1, <2>4, <3>1, <3>2 DEF InOrder, Absent
  <2> QED BY <1>1, <2>3, <2>4 DEF InOrder
<1> QED BY <1>1, <1>4, <1>5, <1>6 DEF Calm

LEMMA DeleteGoneCalm ==
  ASSUME Shape, Calm, DeleteGone
  PROVE  Calm'
<1>1. PICK p \in look["loop"].pend :
        /\ DeletePrefix(p)
        /\ look' = [look EXCEPT !["loop"].pend = look["loop"].pend \ {p}]
  BY DEF DeleteGone
<1>2. /\ UNCHANGED <<disk, watched, queue, degraded, pc, seen>> /\ pc["loop"] = "delete"
      /\ look'["loop"].pend = look["loop"].pend \ {p} /\ look'["handler"] = look["handler"]
  BY <1>1, ShapeFacts, WorkerNames DEF DeleteGone, Looks
<1>3. p \in Paths /\ disk[p] = Gone
  BY <1>2, WorkerNames DEF Shape, LookOK, Calm, LoopOK, OnDisk
<1>4. \A x \in Paths : /\ rows'[x] = rows[x] \/ rows'[x] = Gone
                       /\ IF x \in Tree(p) THEN rows'[x] = Gone /\ disk[x] = Gone
                          ELSE Fresh(x) => Fresh(x)'
  <2>1. \A x \in Tree(p) : disk[x] = Gone
    BY <1>3, GoneBelow DEF Shape
  <2>2. \A x \in Paths : rows'[x] = IF x \in Matches[p] THEN Gone ELSE rows[x]
    BY <1>1 DEF DeletePrefix
  <2>3. lost' = lost \cup {x \in Matches[p] \ Tree(p) : rows[x] # Gone}
    BY <1>1 DEF DeletePrefix
  <2>4. Tree(p) \subseteq Matches[p]
    BY <1>3, Constants
  <2> QED BY <1>2, <2>1, <2>2, <2>3, <2>4 DEF Fresh
<1>5. LoopOK'
  BY <1>2 DEF Calm, LoopOK, OnDisk
<1>6. RemovalsOK'
  BY <1>2 DEF Calm, RemovalsOK, Removal
<1>7. ASSUME NEW x \in Paths
      PROVE  InOrder(x)'
  <2>1. InOrder(x) /\ x # None
    BY Constants DEF Calm
  <2>2. /\ NoRemoval(x) => NoRemoval(x)'
        /\ Queued(x) => Queued(x)'
        /\ Handles(x) => Handles(x)'
    BY <1>2 DEF NoRemoval, Queued, Handles, Visits, Removal
  <2>3. disk[x] # Gone => Present(x)'
    BY <1>2, <1>4, <2>1, <2>2 DEF InOrder, Present, Sweeps
  <2>4. CASE disk[x] = Gone
    <3>1. CASE \/ /\ rows[x] = Gone /\ look["handler"].cur # x
                  /\ pc["handler"] = "scan" => x \notin look["handler"].pend
               \/ \E i \in 1..Len(queue) : Removal(i, x)
      BY <1>2, <1>4, <2>4, <3>1 DEF InOrder, Absent, Removal
    <3>2. CASE Alone /\ x \in look["loop"].pend
      <4>1. CASE x = p
        <5>1. look["handler"] = NoLook /\ pc["handler"] = "idle"
          BY <3>2 DEF Alone, Shape, LookOK
        <5> QED BY <1>2, <1>4, <2>1, <2>4, <4>1, <5>1 DEF InOrder, Absent, NoLook, Tree
      <4>2. CASE x # p
        BY <1>2, <2>4, <3>2, <4>2 DEF InOrder, Absent, Alone
      <4> QED BY <4>1, <4>2
    <3> QED BY <1>2, <2>1, <2>4, <3>1, <3>2 DEF InOrder, Absent
  <2> QED BY <1>2, <2>3, <2>4 DEF InOrder
<1> QED BY <1>2, <1>5, <1>6, <1>7 DEF Calm

LEMMA ReconciledCalm ==
  ASSUME Shape, Calm, Reconciled
  PROVE  Calm'
<1>1. /\ UNCHANGED <<disk, rows, watched, queue, degraded, look, lost>> /\ pc["loop"] = "delete"
      /\ pc'["loop"] = "sleep" /\ pc'["handler"] = pc["handler"] /\ look["loop"].pend = {}
  BY ShapeFacts, WorkerNames DEF Reconciled, Goto, Rested, NoLook
<1>2. LoopOK'
  BY <1>1 DEF LoopOK
<1>3. RemovalsOK'
  BY <1>1 DEF Calm, RemovalsOK, Removal
<1>4. ASSUME NEW x \in Paths
      PROVE  InOrder(x)'
  <2>1. InOrder(x)
    BY DEF Calm
  <2>2. /\ NoRemoval(x) => NoRemoval(x)'
        /\ Queued(x) => Queued(x)'
        /\ Handles(x) => Handles(x)'
    BY <1>1 DEF NoRemoval, Queued, Handles, Visits, Removal
  <2>3. disk[x] # Gone => Present(x)'
    BY <1>1, <2>1, <2>2 DEF InOrder, Present, Fresh, Sweeps
  <2>4. disk[x] = Gone => Absent(x)'
    BY <1>1, <2>1 DEF InOrder, Absent, Removal
  <2> QED BY <1>1, <2>3, <2>4 DEF InOrder
<1> QED BY <1>1, <1>2, <1>3, <1>4 DEF Calm

-----------------------------------------------------------------------------
(***************************************************************************)
(* The receive loop.                                                       *)
(***************************************************************************)
LEMMA LoopKept ==
  ASSUME LoopOK, UNCHANGED <<disk, seen>>, look'["loop"] = look["loop"], pc'["loop"] = pc["loop"]
  PROVE  LoopOK'
  BY DEF LoopOK, OnDisk, Comes, Visits

\* When the handler is at work, no pass has the index to itself.
LEMMA NotAlone ==
  ASSUME Calm, pc["handler"] # "idle" \/ queue # <<>>, NEW x \in Paths
  PROVE  /\ disk[x] # Gone =>
              \/ /\ Fresh(x) /\ NoRemoval(x)
                 /\ look["handler"].cur = x => look["handler"].val = disk[x]
              \/ Queued(x)
              \/ NoRemoval(x) /\ Handles(x)
         /\ disk[x] = Gone =>
              \/ /\ rows[x] = Gone /\ look["handler"].cur # x
                 /\ pc["handler"] = "scan" => x \notin look["handler"].pend
              \/ \E i \in 1..Len(queue) : Removal(i, x)
  BY DEF Calm, InOrder, Present, Absent, Sweeps, Alone

LEMMA QueueKept ==
  ASSUME UNCHANGED queue
  PROVE  \A x : /\ NoRemoval(x) => NoRemoval(x)'
                /\ Queued(x) => Queued(x)'
                /\ \A i : Removal(i, x) => Removal(i, x)'
  BY DEF NoRemoval, Queued, Removal

\* The handler goes on with what it has taken.
LEMMA GoesOnCalm ==
  ASSUME Calm, UNCHANGED <<disk, queue, degraded, seen>>, watched \subseteq watched',
         look'["loop"] = look["loop"], pc'["loop"] = pc["loop"], pc["handler"] # "idle",
         \A x \in Paths : disk[x] # Gone /\ Fresh(x) /\ NoRemoval(x)
             /\ (look["handler"].cur = x => look["handler"].val = disk[x]) => Present(x)',
         \A x \in Paths : disk[x] # Gone /\ NoRemoval(x) /\ Handles(x) => Present(x)',
         \A x \in Paths : disk[x] = Gone /\ rows[x] = Gone /\ look["handler"].cur # x
             /\ (pc["handler"] = "scan" => x \notin look["handler"].pend) => Absent(x)'
  PROVE  Calm'
<1>1. LoopOK'
  BY LoopKept DEF Calm
<1>2. RemovalsOK'
  BY DEF Calm, RemovalsOK, Removal
<1>3. ASSUME NEW x \in Paths
      PROVE  InOrder(x)'
  <2>1. disk[x] # Gone => Present(x)'
    BY NotAlone, QueueKept DEF Present
  <2>2. disk[x] = Gone => Absent(x)'
    BY NotAlone, QueueKept DEF Absent
  <2> QED BY <2>1, <2>2 DEF InOrder
<1> QED BY <1>1, <1>2, <1>3 DEF Calm

LEMMA HandlerStatCalm ==
  ASSUME Shape, Calm, pc["handler"] = "scan", Stat("handler")
  PROVE  Calm'
<1>1. PICK p \in look["handler"].pend :
        look' = [look EXCEPT !["handler"] = [pend |-> look["handler"].pend \ {p}, cur |-> p,
                                             val |-> IF disk[p] = Gone THEN 0 ELSE disk[p]]]
  BY DEF Stat
<1>2. /\ UNCHANGED <<disk, rows, watched, queue, degraded, pc, seen, lost>>
      /\ look["handler"].cur = None
      /\ look'["handler"].pend = look["handler"].pend \ {p} /\ look'["handler"].cur = p
      /\ disk[p] # Gone => look'["handler"].val = disk[p]
      /\ look'["loop"] = look["loop"]
      /\ p # None
  BY <1>1, ShapeFacts, WorkerNames, Constants DEF Stat, LookOK
<1>3. \A x \in Paths : disk[x] # Gone /\ Handles(x) => Handles(x)'
  BY <1>2, Constants DEF Handles, Visits, Tree
<1> QED BY <1>2, <1>3, QueueKept, GoesOnCalm DEF Present, Fresh, Absent

LEMMA HandlerUpsertCalm ==
  ASSUME Shape, Calm, pc["handler"] = "scan", Upsert("handler")
  PROVE  Calm'
<1> DEFINE c == look["handler"].cur
<1>1. c \in Paths /\ c # None
  BY ShapeFacts, Constants DEF Upsert, Looks
<1>2. /\ UNCHANGED <<disk, watched, queue, degraded, pc, seen>>
      /\ look'["handler"].pend = look["handler"].pend \cup OnDisk(Kids(c))
      /\ look'["handler"].cur = None /\ look'["loop"] = look["loop"]
      /\ \A x \in Paths : rows'[x] = IF x = c THEN look["handler"].val ELSE rows[x]
      /\ lost' = lost \ {c}
  BY <1>1, ShapeFacts, WorkerNames DEF Upsert, NoLook
<1> HIDE DEF c
<1>3. ASSUME NEW x \in Paths, disk[x] # Gone, Fresh(x), NoRemoval(x),
             c = x => look["handler"].val = disk[x]
      PROVE  Present(x)'
  BY <1>2, <1>3, QueueKept, Constants DEF Present, Fresh
<1>4. ASSUME NEW x \in Paths, disk[x] # Gone, NoRemoval(x), Handles(x)
      PROVE  Present(x)'
  <2>1. CASE \E q \in look["handler"].pend : x \in Tree(q)
    BY <1>2, <1>4, <2>1, QueueKept DEF Present, Handles, Visits
  <2>2. CASE x \in Below(c)
    <3>1. PICK k \in Kids(c) : x \in Tree(k)
      BY <2>2, WayDown
    <3>2. k \in Paths /\ disk[k] # Gone
      BY <1>4, <3>1, GoneBelow, BelowPaths DEF Shape
    <3>3. k \in look'["handler"].pend
      BY <1>2, <3>1, <3>2 DEF OnDisk
    <3> QED BY <1>2, <1>4, <3>1, <3>3, QueueKept DEF Present, Handles, Visits
  <2>3. CASE c = x /\ look["handler"].val = disk[x]
    BY <1>2, <1>4, <2>3, QueueKept, Constants DEF Present, Fresh
  <2> QED BY <1>4, <2>1, <2>2, <2>3 DEF Handles, Visits, c
<1>5. ASSUME NEW x \in Paths, disk[x] = Gone, rows[x] = Gone, c # x, x \notin look["handler"].pend
      PROVE  Absent(x)'
  BY <1>2, <1>5, Constants DEF Absent, OnDisk
<1> QED BY <1>2, <1>3, <1>4, <1>5, GoesOnCalm DEF c

LEMMA AddWatchCalm ==
  ASSUME Shape, ~blind => Calm, NEW w \in Workers, AddWatch(w), ~blind'
  PROVE  Calm'
<1>1. PICK q \in look[w].pend :
        \/ blind' = TRUE
        \/ /\ watched' = watched \cup ({q} \cap (OnDisk(Paths) \cup {Top}))
           /\ look' = [look EXCEPT ![w].pend = (look[w].pend \ {q}) \cup OnDisk(Kids(q) \cap Dirs)]
           /\ UNCHANGED <<degraded, blind>>
  BY DEF AddWatch
<1>2. /\ watched' = watched \cup ({q} \cap (OnDisk(Paths) \cup {Top}))
      /\ look' = [look EXCEPT ![w].pend = (look[w].pend \ {q}) \cup OnDisk(Kids(q) \cap Dirs)]
      /\ UNCHANGED <<degraded, blind>>
  BY <1>1
<1>3. Calm /\ w = "handler" /\ pc["handler"] = "watch"
  BY <1>2, WorkerNames DEF AddWatch, Calm, LoopOK
<1>4. /\ UNCHANGED <<disk, rows, queue, pc, seen, lost>> /\ look'["loop"] = look["loop"]
      /\ look'["handler"].cur = look["handler"].cur /\ look'["handler"].val = look["handler"].val
  BY <1>2, <1>3, ShapeFacts, WorkerNames DEF AddWatch, Looks
<1>5. \A x \in Paths : Handles(x) => Handles(x)'
  BY <1>3, <1>4 DEF Handles
<1>6. watched \subseteq watched'
  BY <1>2
<1> QED BY <1>2, <1>3, <1>4, <1>5, <1>6, QueueKept, GoesOnCalm DEF Present, Fresh, Absent

LEMMA HandlerWatchedCalm ==
  ASSUME Shape, Calm, HandlerWatched
  PROVE  Calm'
<1> DEFINE d == look["handler"].cur
<1>1. /\ UNCHANGED <<disk, rows, watched, queue, degraded, look, seen, lost>>
      /\ pc["handler"] = "watch" /\ pc'["handler"] = "scan" /\ pc'["loop"] = pc["loop"]
      /\ look["handler"].pend = {} /\ d \in Dirs /\ look["handler"].val = 0 /\ d # None
  BY ShapeFacts, WorkerNames, Constants DEF HandlerWatched, Goto, LookOK
<1>2. ASSUME NEW x \in Paths, disk[x] # Gone, Handles(x)
      PROVE  Handles(x)'
  <2>1. x = d \/ x \in Below(d)
    BY <1>1, <1>2 DEF Handles, Tree
  <2>2. x = d => disk[x] = 0
    BY <1>1, <1>2 DEF Shape, DiskOK
  <2> QED BY <1>1, <2>1, <2>2 DEF Handles, Visits
<1> QED BY <1>1, <1>2, QueueKept, GoesOnCalm DEF Present, Fresh, Absent

LEMMA HandledCalm ==
  ASSUME Shape, Calm, Handled
  PROVE  Calm'
<1>1. /\ UNCHANGED <<disk, rows, watched, queue, degraded, look, seen, lost>>
      /\ pc["handler"] = "scan" /\ pc'["handler"] = "idle" /\ pc'["loop"] = pc["loop"]
      /\ look["handler"].pend = {} /\ look["handler"].cur = None
  BY ShapeFacts, WorkerNames DEF Handled, Goto, Rested, NoLook
<1>2. \A x \in Paths : ~Handles(x)
  BY <1>1, Constants DEF Handles, Visits
<1> QED BY <1>1, <1>2, QueueKept, GoesOnCalm DEF Present, Fresh, Absent

\* What taking an event does to the rest of the queue.
LEMMA TakeFacts ==
  ASSUME Shape, Calm, Take
  PROVE  /\ RemovalsOK'
         /\ \A x : NoRemoval(x) => NoRemoval(x)' /\ ~(Event.op = "remove" /\ x \in Tree(Event.name))
         /\ \A x : Queued(x) => \/ Queued(x)'
                                \/ Event.op # "remove" /\ x \in Tree(Event.name) /\ NoRemoval(x)'
         /\ \A x : (\E i \in 1..Len(queue) : Removal(i, x)) =>
                     \/ \E i \in 1..Len(queue') : Removal(i, x)'
                     \/ Event.op = "remove" /\ x \in Tree(Event.name)
         /\ Event \in Events /\ Event.name \in Paths /\ queue # <<>> /\ pc["handler"] = "idle"
         /\ look["handler"] = NoLook
         /\ UNCHANGED <<disk, watched, degraded, seen, clock, blind>>
<1>0. PICK n \in Nat : n = Len(queue)
  BY QueueFacts DEF QueueLen
<1>1. queue # <<>> /\ queue' = Tail(queue) /\ queue \in Seq(Events)
  BY QueueFacts DEF Take, QueueLen
<1>2. /\ n >= 1 /\ Len(queue') = n - 1 /\ Event = queue[1] /\ Event \in Events
      /\ \A i \in 1..(n - 1) : queue'[i] = queue[i + 1]
  BY <1>0, <1>1, TailFacts DEF Event
<1>3. \A x : \A i \in 1..(n - 1) : Removal(i, x)' <=> Removal(i + 1, x)
  BY <1>2 DEF Removal
<1>4. \A x : Removal(1, x) <=> Event.op = "remove" /\ x \in Tree(Event.name)
  BY <1>2 DEF Removal
<1>5. RemovalsOK'
  <2> SUFFICES ASSUME NEW i \in 1..(n - 1), queue'[i].op = "remove", NEW r \in Paths,
                      queue'[i].name \in Below(r),
                      \A s \in Tree(r) : queue'[i].name \in Below(s) => s \notin watched'
               PROVE  \E j \in (i + 1)..(n - 1) : Removal(j, r)'
    BY <1>2 DEF RemovalsOK
  <2>1. i + 1 \in 1..n /\ queue'[i] = queue[i + 1] /\ watched' = watched
    BY <1>0, <1>2 DEF Take
  <2>2. PICK j \in (i + 1 + 1)..n : Removal(j, r)
    BY <1>0, <2>1 DEF Calm, RemovalsOK
  <2>3. j - 1 \in (i + 1)..(n - 1) /\ j - 1 \in 1..(n - 1) /\ (j - 1) + 1 = j
    BY <1>0, <2>1
  <2> QED BY <1>3, <2>2, <2>3
<1>6. ASSUME NEW x, NoRemoval(x)
      PROVE  NoRemoval(x)' /\ ~(Event.op = "remove" /\ x \in Tree(Event.name))
  <2>1. 1 \in 1..n /\ \A i \in 1..(n - 1) : i + 1 \in 1..n
    BY <1>2
  <2>2. ~Removal(1, x) /\ \A i \in 1..(n - 1) : ~Removal(i, x)'
    BY <1>0, <1>3, <1>6, <2>1 DEF NoRemoval
  <2> QED BY <1>2, <1>4, <2>2 DEF NoRemoval
<1>7. ASSUME NEW x, Queued(x)
      PROVE  \/ Queued(x)'
             \/ Event.op # "remove" /\ x \in Tree(Event.name) /\ NoRemoval(x)'
  <2>1. PICK i \in 1..n : /\ queue[i].op # "remove" /\ x \in Tree(queue[i].name)
                          /\ \A j \in (i + 1)..n : ~Removal(j, x)
    BY <1>0, <1>7 DEF Queued
  <2>2. CASE i = 1
    <3>1. \A j \in 1..(n - 1) : j + 1 \in (i + 1)..n
      BY <2>2
    <3>2. \A j \in 1..(n - 1) : ~Removal(j, x)'
      BY <1>3, <2>1, <3>1
    <3> QED BY <1>2, <2>1, <2>2, <3>2 DEF NoRemoval
  <2>3. CASE i # 1
    <3>1. i - 1 \in 1..(n - 1) /\ (i - 1) + 1 = i
      BY <2>3
    <3>2. queue'[i - 1] = queue[i]
      BY <1>2, <3>1
    <3>3. \A j \in ((i - 1) + 1)..(n - 1) : j \in 1..(n - 1) /\ j + 1 \in (i + 1)..n
      BY <3>1
    <3>4. \A j \in ((i - 1) + 1)..(n - 1) : ~Removal(j, x)'
      BY <1>3, <2>1, <3>3
    <3> QED BY <1>2, <2>1, <3>1, <3>2, <3>4 DEF Queued
  <2> QED BY <2>2, <2>3
<1>8. ASSUME NEW x, NEW i \in 1..n, Removal(i, x)
      PROVE  \/ \E j \in 1..(n - 1) : Removal(j, x)'
             \/ Event.op = "remove" /\ x \in Tree(Event.name)
  <2>1. CASE i = 1
    BY <1>4, <1>8, <2>1
  <2>2. CASE i # 1
    <3>1. i - 1 \in 1..(n - 1) /\ (i - 1) + 1 = i
      BY <2>2
    <3> QED BY <1>3, <1>8, <3>1
  <2> QED BY <2>1, <2>2
<1>9. /\ Event.name \in Paths /\ pc["handler"] = "idle" /\ look["handler"] = NoLook
      /\ UNCHANGED <<disk, watched, degraded, seen, clock, blind>>
  BY <1>2 DEF Take, Events, Shape, LookOK
<1> QED BY <1>0, <1>1, <1>2, <1>5, <1>6, <1>7, <1>8, <1>9

\* What an action that takes an event has to do.
LEMMA TakesCalm ==
  ASSUME Shape, Calm, Take, look'["loop"] = look["loop"], pc'["loop"] = pc["loop"],
         \A x \in Paths : disk[x] # Gone /\ Fresh(x) /\ NoRemoval(x) =>
             Fresh(x)' /\ (look'["handler"].cur = x => look'["handler"].val = disk[x]),
         \A x \in Paths : disk[x] # Gone /\ Event.op # "remove" /\ x \in Tree(Event.name) => Handles(x)',
         \A x \in Paths : disk[x] = Gone =>
           /\ look'["handler"].cur # x /\ (pc'["handler"] = "scan" => x \notin look'["handler"].pend)
           /\ rows'[x] = rows[x] \/ rows'[x] = Gone
           /\ Event.op = "remove" /\ x \in Tree(Event.name) => rows'[x] = Gone
  PROVE  Calm'
<1>1. LoopOK' /\ RemovalsOK' /\ ~degraded'
  BY LoopKept, TakeFacts DEF Calm
<1>2. ASSUME NEW x \in Paths
      PROVE  InOrder(x)'
  <2>1. disk' = disk /\ ~Handles(x)
    BY TakeFacts DEF Handles
  <2>2. CASE disk[x] # Gone
    <3>1. \/ Fresh(x) /\ NoRemoval(x)
          \/ Queued(x)
      BY <2>1, <2>2, TakeFacts, NotAlone
    <3>2. CASE Fresh(x) /\ NoRemoval(x)
      BY <2>1, <2>2, <3>2, TakeFacts DEF InOrder, Present
    <3>3. CASE Queued(x)
      BY <2>1, <2>2, <3>3, TakeFacts DEF InOrder, Present
    <3> QED BY <3>1, <3>2, <3>3
  <2>3. CASE disk[x] = Gone
    <3>1. rows[x] = Gone \/ \E i \in 1..Len(queue) : Removal(i, x)
      BY <2>3, TakeFacts, NotAlone
    <3>2. CASE rows[x] = Gone
      BY <2>1, <2>3, <3>2 DEF InOrder, Absent
    <3>3. CASE \E i \in 1..Len(queue) : Removal(i, x)
      BY <2>1, <2>3, <3>3, TakeFacts DEF InOrder, Absent
    <3> QED BY <3>1, <3>2, <3>3
  <2> QED BY <2>2, <2>3
<1> QED BY <1>1, <1>2 DEF Calm

LEMMA HandleCreateDirCalm ==
  ASSUME Shape, Calm, HandleCreateDir
  PROVE  Calm'
<1> DEFINE d == Event.name
<1>1. Take /\ d \in Dirs /\ disk[d] # Gone /\ disk[d] = 0
  BY DEF HandleCreateDir, OnDisk, Shape, DiskOK
<1>2. /\ pc'["handler"] = "watch" /\ pc'["loop"] = pc["loop"] /\ UNCHANGED <<disk, rows, lost>>
      /\ look'["handler"].cur = d /\ look'["handler"].val = 0 /\ look'["loop"] = look["loop"]
  BY ShapeFacts, WorkerNames DEF HandleCreateDir, Goto, Take
<1>3. \A x \in Tree(d) : Handles(x)'
  BY <1>2 DEF Handles
<1>4. Event.op # "remove"
  BY DEF HandleCreateDir
<1> QED BY <1>1, <1>2, <1>3, <1>4, TakesCalm DEF Fresh

LEMMA HandleFileCalm ==
  ASSUME Shape, Calm, HandleFile
  PROVE  Calm'
<1> DEFINE f == Event.name
<1>1. Take /\ f \in Files /\ disk[f] # Gone /\ Event.op # "remove" /\ Tree(f) = {f}
  BY FileTree DEF HandleFile, OnDisk
<1>2. /\ pc'["handler"] = "scan" /\ pc'["loop"] = pc["loop"] /\ UNCHANGED <<disk, rows, lost>>
      /\ look'["handler"].cur = f /\ look'["handler"].val = disk[f]
      /\ look'["handler"].pend = {} /\ look'["loop"] = look["loop"]
  BY ShapeFacts, WorkerNames DEF HandleFile, Goto, Take
<1>3. \A x \in Tree(f) : Handles(x)'
  BY <1>1, <1>2 DEF Handles
<1> QED BY <1>1, <1>2, <1>3, TakesCalm DEF Fresh

\* A path whose event finds it gone was removed after it.
LEMMA HandleVanishedCalm ==
  ASSUME Shape, Calm, HandleVanished
  PROVE  Calm'
<1>1. Take /\ disk[Event.name] = Gone /\ Event.op # "remove" /\ UNCHANGED <<rows, pc, look, lost>>
  BY DEF HandleVanished
<1>2. Event.name \in Paths /\ look["handler"] = NoLook /\ pc["handler"] = "idle" /\ disk' = disk
  BY <1>1, TakeFacts
<1>3. \A x \in Tree(Event.name) : disk[x] = Gone
  BY <1>1, <1>2, GoneBelow DEF Shape
<1>4. \A x \in Paths : look'["handler"].cur # x /\ pc'["handler"] # "scan"
  BY <1>1, <1>2, Constants DEF NoLook
<1> QED BY <1>1, <1>2, <1>3, <1>4, TakesCalm DEF Fresh

LEMMA HandleRemoveCalm ==
  ASSUME Shape, Calm, HandleRemove
  PROVE  Calm'
<1>1. Take /\ Event.op = "remove" /\ DeletePrefix(Event.name) /\ UNCHANGED <<pc, look>>
  BY DEF HandleRemove
<1>2. look["handler"] = NoLook /\ pc["handler"] = "idle"
  BY <1>1, TakeFacts
<1>3. \A x \in Paths : /\ rows'[x] = rows[x] \/ rows'[x] = Gone
                       /\ IF x \in Tree(Event.name) THEN rows'[x] = Gone
                          ELSE Fresh(x) => Fresh(x)'
  <2>1. \A x \in Paths : rows'[x] = IF x \in Matches[Event.name] THEN Gone ELSE rows[x]
    BY <1>1 DEF DeletePrefix
  <2>2. lost' = lost \cup {x \in Matches[Event.name] \ Tree(Event.name) : rows[x] # Gone}
    BY <1>1 DEF DeletePrefix
  <2>3. Tree(Event.name) \subseteq Matches[Event.name] /\ disk' = disk
    BY <1>1, TakeFacts, Constants
  <2> QED BY <2>1, <2>2, <2>3 DEF Fresh
<1>4. \A x \in Paths : NoRemoval(x) => x \notin Tree(Event.name)
  BY <1>1, TakeFacts
<1>5. \A x \in Paths : look'["handler"].cur # x /\ pc'["handler"] # "scan"
  BY <1>1, <1>2, Constants DEF NoLook
<1> QED BY <1>1, <1>3, <1>4, <1>5, TakesCalm

\* Only a deletion adds to what is lost, and it takes those rows.
LEMMA NextLost ==
  ASSUME Shape, LostOK, [Next]_vars
  PROVE  LostOK'
<1>1. CASE UNCHANGED <<rows, lost>>
  BY <1>1 DEF LostOK
<1>2. ASSUME NEW w \in Workers, Upsert(w)
      PROVE  LostOK'
  <2>1. \A x \in Paths \ {look[w].cur} : rows'[x] = rows[x]
    BY <1>2, ShapeFacts DEF Upsert
  <2>2. lost' = lost \ {look[w].cur} /\ lost \subseteq Paths
    BY <1>2, ShapeFacts DEF Upsert
  <2> QED BY <2>1, <2>2 DEF LostOK
<1>3. ASSUME NEW p, DeletePrefix(p)
      PROVE  LostOK'
  <2>1. \A x \in Paths : rows'[x] = IF x \in Matches[p] THEN Gone ELSE rows[x]
    BY <1>3 DEF DeletePrefix
  <2>2. lost' \subseteq lost \cup Matches[p]
    BY <1>3 DEF DeletePrefix
  <2>3. lost' \subseteq Paths
    BY NextShape DEF Shape, Typed, TypeOK
  <2> QED BY <2>1, <2>2, <2>3 DEF LostOK
<1>4. CASE Environment
  <2>1. UNCHANGED <<rows, lost>>
    BY <1>4 DEF Environment, CreateFile, WriteFile, MoveIn, Remove, Change
  <2> QED BY <1>1, <2>1
<1>5. CASE Loop
  <2>1. CASE Visit("loop")
    BY <1>1, <1>2, <2>1, WorkerNames DEF Visit, Stat
  <2>2. CASE DeleteGone
    BY <1>3, <2>2 DEF DeleteGone
  <2>3. CASE AddWatch("loop") \/ BootScanned \/ Started \/ Reconcile \/ SelectGone \/ Reconciled
    BY <1>1, <2>3 DEF AddWatch, BootScanned, Started, Reconcile, SelectGone, Reconciled
  <2> QED BY <1>5, <2>1, <2>2, <2>3 DEF Loop
<1>6. CASE Handler
  <2>1. CASE Visit("handler")
    BY <1>1, <1>2, <2>1, WorkerNames DEF Visit, Stat
  <2>2. CASE HandleRemove
    BY <1>3, <2>2 DEF HandleRemove
  <2>3. CASE \/ HandleCreateDir \/ HandleFile \/ HandleVanished
             \/ AddWatch("handler") \/ HandlerWatched \/ Handled
    BY <1>1, <2>3 DEF AddWatch, HandleCreateDir, HandleFile, HandleVanished, HandlerWatched, Handled
  <2> QED BY <1>6, <2>1, <2>2, <2>3 DEF Handler
<1>7. CASE UNCHANGED vars
  BY <1>1, <1>7 DEF vars
<1> QED BY <1>4, <1>5, <1>6, <1>7 DEF Next

\* Every step keeps what holds while nothing has escaped the watcher.
LEMMA NextCalm ==
  ASSUME IInv, [Next]_vars, ~blind'
  PROVE  Calm'
<1>0. Shape /\ (~blind => Calm)
  BY DEF IInv, Shape
<1>1. CASE UNCHANGED vars
  <2>1. Calm
    BY <1>0, <1>1 DEF vars
  <2>2. /\ UNCHANGED <<disk, rows, watched, queue, degraded, pc, look, seen, lost>>
    BY <1>1 DEF vars
  <2> QED BY <2>1, <2>2 DEF Calm, LoopOK, OnDisk, Comes, Visits, RemovalsOK, Removal, InOrder, Present,
             Fresh, Absent, NoRemoval, Queued, Handles, Sweeps, Alone
<1>2. CASE Environment
  BY <1>0, <1>2, CreateFileCalm, WriteFileCalm, MoveInCalm, RemoveCalm DEF Environment
<1>3. CASE Loop
  <2>1. CASE AddWatch("loop")
    BY <1>0, <2>1, WorkerNames, AddWatchCalm
  <2>2. CASE Reconcile
    BY <1>0, <2>2, ReconcileCalm
  <2>3. CASE Visit("loop") \/ BootScanned \/ Started \/ SelectGone \/ DeleteGone \/ Reconciled
    <3>1. Calm
      BY <1>0, <2>3 DEF Visit, Stat, Upsert, BootScanned, Started, SelectGone, DeleteGone, Reconciled
    <3>2. ~BootScanned /\ ~Started
      BY <3>1 DEF Calm, LoopOK, BootScanned, Started
    <3> QED BY <1>0, <2>3, <3>1, <3>2, LoopStatCalm, LoopUpsertCalm, SelectGoneCalm, DeleteGoneCalm,
               ReconciledCalm DEF Visit
  <2> QED BY <1>3, <2>1, <2>2, <2>3 DEF Loop
<1>4. CASE Handler
  <2>1. CASE AddWatch("handler")
    BY <1>0, <2>1, WorkerNames, AddWatchCalm
  <2>2. CASE Visit("handler")
    <3>1. Calm /\ pc["handler"] = "scan"
      BY <1>0, <2>2, ShapeFacts DEF Visit, Stat, Upsert
    <3> QED BY <1>0, <2>2, <3>1, HandlerStatCalm, HandlerUpsertCalm DEF Visit
  <2>3. CASE HandleCreateDir \/ HandleFile \/ HandleVanished \/ HandleRemove
    <3>1. Calm
      BY <1>0, <2>3 DEF HandleCreateDir, HandleFile, HandleVanished, HandleRemove, Take
    <3> QED BY <1>0, <2>3, <3>1, HandleCreateDirCalm, HandleFileCalm, HandleVanishedCalm, HandleRemoveCalm
  <2>4. CASE HandlerWatched \/ Handled
    <3>1. Calm
      BY <1>0, <2>4 DEF HandlerWatched, Handled
    <3> QED BY <1>0, <2>4, <3>1, HandlerWatchedCalm, HandledCalm
  <2> QED BY <1>4, <2>1, <2>2, <2>3, <2>4 DEF Handler
<1> QED BY <1>1, <1>2, <1>3, <1>4 DEF Next

-----------------------------------------------------------------------------
(***************************************************************************)
(* The theorems.                                                           *)
(***************************************************************************)

\* All that is said above holds at every moment of every run.
THEOREM SyncInvariance == Spec => []IInv
<1>1. Init => IInv
  <2>1. Init => blind /\ lost = {}
    BY Zenon DEF Init
  <2> QED BY <2>1, InitShape DEF IInv, Shape, LostOK
<1>2. IInv /\ [Next]_vars => IInv'
  BY NextShape, NextLost, NextCalm DEF IInv, Shape
<1> QED BY <1>1, <1>2, PTL DEF Spec

\* Walks, events and rows keep their types: of the paths of the tree and the versions there were.
THEOREM SyncTypeCorrect == Spec => []TypeOK
<1>1. IInv => TypeOK
  BY DEF IInv, Typed
<1> QED BY <1>1, SyncInvariance, PTL

\* Events and clean passes keep the index equal to the disk: handleEvent, addWatchRecursive and
\* Reconcile, with no lock between them, neither miss nor keep anything, for any tree, as long as
\* no event was dropped and no directory went unwatched; but for the rows that the deletion of
\* another path took by its pattern, which matches entries of live siblings too.
THEOREM EventsSuffice == Spec => []InSync
<1>1. IInv => InSync
  <2> SUFFICES ASSUME IInv, Quiet, ~blind
               PROVE  rows = [p \in Paths |-> IF p \in lost THEN Gone ELSE disk[p]]
    BY DEF InSync
  <2>1. Calm /\ Shape
    BY DEF IInv, Shape
  <2>2. queue = <<>> /\ pc["handler"] = "idle" /\ pc["loop"] = "sleep"
    BY DEF Quiet
  <2>3. \A i \in 1..Len(queue) : FALSE
    BY <2>2
  <2>4. \A x \in Paths : rows[x] = disk[x] \/ x \in lost
    BY <2>1, <2>2, <2>3 DEF Calm, InOrder, Present, Fresh, Absent, Queued, Handles, Sweeps
  <2>5. \A x \in lost : rows[x] = Gone
    BY DEF IInv, LostOK
  <2> QED BY <2>1, <2>4, <2>5, ShapeFacts
<1> QED BY <1>1, SyncInvariance, PTL

=============================================================================
