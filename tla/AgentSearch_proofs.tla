------------------------- MODULE AgentSearch_proofs -------------------------
(***************************************************************************)
(* What holds of searches for any number of requests, roots, ports, faults *)
(* and restarts, and for any lifetime of the cache.                        *)
(***************************************************************************)
EXTENDS AgentSearch, TLAPS

Calls    == {"lookup", "sent", "reply"}
Lists    == Seq(Roots \cup {None})
Found    == [Sources -> Lists]
Groups   == {<<>>} \cup Found \cup [{"semantic"} -> Lists]
Entries  == [roots : SUBSET Roots, known : BOOLEAN, left : 0..CacheTTL]
Warnings == {"no_accessible_roots", "semantic_unavailable", "filenames_scope_unavailable",
             "filenames_unavailable", "images_unavailable", "notes_unavailable"}
Results  == [Sources -> [hits : Lists, warning : Warnings \cup {None}]]

Records ==
  [pc : {"idle", "search"} \cup Calls \cup Statuses, body : Bodies \cup {None},
   lookup : {"roots", "paths"}, base : Ports \cup {None, Fallback}, tries : Nat, due : Int,
   reply : [roots : SUBSET Roots, known : BOOLEAN],
   roots : SUBSET Roots, paths : SUBSET Roots, late : SUBSET Roots,
   told : {<<>>} \cup Results, groups : Groups, warnings : SUBSET Warnings, max : Int,
   calm : BOOLEAN]

Typed ==
  /\ grants \in SUBSET Roots /\ lost \in [Roots -> Nat] /\ old \in BOOLEAN
  /\ core \in Ports \cup {None} /\ urlFile \in Ports \cup {None} /\ cached \in Ports \cup {None}
  /\ cache # None => cache \in Entries
  /\ req \in [Requests -> Records]

\* A call is made once or twice, and is given up in time.
CallOK(r) == InCall(r) => req[r].tries \in 1..2 /\ req[r].due \in 0..Timeout

\* What a response may be behind the grants: the time it has been under way.  So nothing that a
\* request takes is late.
StaleOK(r) ==
  /\ req[r].late = {}
  /\ req[r].pc = "reply" =>
       \A g \in req[r].reply.roots \ grants : lost[g] + req[r].due <= Timeout

\* A calm request finds core where the file says, at the second call if not at the first.
CalmOK(r) == req[r].calm =>
  /\ req[r].pc \in Calls => core # None /\ urlFile = core
  /\ InCall(r) /\ req[r].tries = 2 => req[r].base = core
  /\ req[r].pc # "503"

\* What the cap promises of the hits that were found.
Fair(found, groups, max) ==
  /\ Total(found) <= max => groups = found
  /\ \A s \in Sources : /\ found[s] # <<>> => groups[s] # <<>>
                        /\ groups[s] = Prefix(found[s], Len(groups[s]))
  /\ max >= 4 => Total(groups) <= max

\* What a fan-out does with what the sources told.
Heeds(told, groups, warnings, max) ==
  /\ Fair([s \in Sources |-> told[s].hits], groups, max)
  /\ warnings = {told[s].warning : s \in Sources} \ {None}

HeardOK(r) ==
  req[r].pc = "200" /\ DOMAIN req[r].groups = Sources =>
    Heeds(req[r].told, req[r].groups, req[r].warnings, req[r].max)

\* What the entry of the cache may be behind, as long as it is used.
CacheOK == cache # None /\ cache.left > 0 =>
  \A g \in cache.roots \ grants : lost[g] + cache.left <= CacheTTL + Timeout

Good(r) == CallOK(r) /\ StaleOK(r) /\ CalmOK(r) /\ HeardOK(r)

Inv == Typed /\ CacheOK /\ \A r \in Requests : Good(r)

-----------------------------------------------------------------------------
(***************************************************************************)
(* The request that a step moves, and the others.                          *)
(***************************************************************************)
Others(r) == \A v \in Requests \ {r} : req'[v] = req[v]

LEMMA Update ==
  ASSUME Typed, NEW r \in Requests, NEW q \in Records, req' = [req EXCEPT ![r] = q]
  PROVE  req' \in [Requests -> Records] /\ req'[r] = q /\ Others(r)
BY DEF Typed, Others

LEMMA IdleRecord == Idle \in Records
BY DEF Idle, NoReply, Records, Groups

LEMMA GotBase == \A c \in Ports \cup {None} : Got(c) \in Ports \cup {Fallback}
BY DEF Got

LEMMA SendRow ==
  ASSUME Typed, NEW r \in Requests, NEW c \in Ports \cup {None}, NEW n \in Nat,
         NEW calm \in BOOLEAN, Send(r, c, n, calm)
  PROVE  /\ req' \in [Requests -> Records] /\ Others(r)
         /\ req'[r].pc = "sent" /\ req'[r].base = Got(c) /\ req'[r].tries = n
         /\ req'[r].due = Timeout /\ req'[r].calm = calm /\ req'[r].late = req[r].late
<1> DEFINE q == [req[r] EXCEPT !.pc = "sent", !.base = Got(c), !.tries = n,
                              !.due = Timeout, !.reply = NoReply, !.calm = calm]
<1>1. req[r] \in Records
  BY DEF Typed
<1>2. /\ "sent" \in {"idle", "search"} \cup Calls \cup Statuses /\ Timeout \in Int
      /\ NoReply \in [roots : SUBSET Roots, known : BOOLEAN]
      /\ Got(c) \in Ports \cup {None, Fallback}
  BY GotBase DEF Calls, Timeout, NoReply
<1>3. q \in Records
  BY <1>1, <1>2 DEF Records
<1>4. /\ q.pc = "sent" /\ q.base = Got(c) /\ q.tries = n /\ q.due = Timeout
      /\ q.calm = calm /\ q.late = req[r].late
  BY <1>1 DEF Records
<1>5. req' = [req EXCEPT ![r] = q]
  BY DEF Send
<1> HIDE DEF q
<1>6. QED
  BY <1>3, <1>4, <1>5, Update

LEMMA AnswerRow ==
  ASSUME Typed, NEW r \in Requests, NEW status \in Statuses, NEW calm \in BOOLEAN,
         Answer(r, status, calm)
  PROVE  /\ req' \in [Requests -> Records] /\ Others(r)
         /\ req'[r].pc = status /\ req'[r].calm = calm /\ req'[r].late = {}
<1> DEFINE q == [Idle EXCEPT !.pc = status, !.calm = calm]
<1>1. q \in Records
  BY IdleRecord DEF Records
<1>2. q.pc = status /\ q.calm = calm /\ q.late = {}
  BY DEF Idle
<1>3. req' = [req EXCEPT ![r] = q]
  BY DEF Answer
<1> HIDE DEF q
<1>4. QED
  BY <1>1, <1>2, <1>3, Update

\* e is a cache entry or a response.
LEMMA TakeRow ==
  ASSUME Typed, NEW r \in Requests, NEW e, e.roots \in SUBSET Roots, Take(r, e)
  PROVE  /\ req' \in [Requests -> Records] /\ Others(r)
         /\ req'[r].pc \in {"lookup", "search"}
         /\ req'[r].pc = "lookup" => req'[r].calm = req[r].calm
         /\ \/ req'[r].late = req[r].late
            \/ req'[r].late = {g \in e.roots \ grants : lost[g] > CacheTTL + Timeout}
<1> DEFINE q0 == [Idle EXCEPT !.body = req[r].body, !.calm = req[r].calm, !.roots = req[r].roots,
                             !.late = req[r].late]
           late == {g \in e.roots \ grants : lost[g] > CacheTTL + Timeout}
           p1 == IF q0.body.tool = "agent" THEN "lookup" ELSE "search"
           q1 == [q0 EXCEPT !.roots = e.roots, !.late = late, !.lookup = "paths", !.pc = p1]
           q2 == [q0 EXCEPT !.paths = IF e.known THEN e.roots ELSE {}, !.pc = "search",
                            !.calm = TRUE]
<1>1. req[r] \in Records
  BY DEF Typed
<1>2. q0 \in Records
  BY <1>1, IdleRecord DEF Records
<1>3. q0.calm = req[r].calm /\ q0.late = req[r].late
  BY <1>1 DEF Idle
<1>4. late \in SUBSET Roots /\ p1 \in {"lookup", "search"}
  OBVIOUS
<1>5. req' = [req EXCEPT ![r] = IF req[r].lookup = "roots" THEN q1 ELSE q2]
  BY DEF Take
<1> HIDE DEF q0, late, p1
<1>6. q1 \in Records /\ q1.pc = p1 /\ q1.calm = q0.calm /\ q1.late = late
  <2>1. q1 \in Records
    BY <1>2, <1>4 DEF Records, Calls
  <2>2. q1.pc = p1 /\ q1.calm = q0.calm /\ q1.late = late
    BY <1>2 DEF Records
  <2>3. QED
    BY <2>1, <2>2
<1>7. q2 \in Records /\ q2.pc = "search" /\ q2.late = q0.late
  <2>1. q2 \in Records
    BY <1>2 DEF Records
  <2>2. q2.pc = "search" /\ q2.late = q0.late
    BY <1>2 DEF Records
  <2>3. QED
    BY <2>1, <2>2
<1> HIDE DEF q1, q2
<1>8. CASE req[r].lookup = "roots"
  <2>1. req' = [req EXCEPT ![r] = q1]
    BY <1>5, <1>8
  <2>2. req' \in [Requests -> Records] /\ req'[r] = q1 /\ Others(r)
    BY <1>6, <2>1, Update
  <2>3. QED
    BY <1>3, <1>4, <1>6, <2>2 DEF late
<1>9. CASE req[r].lookup # "roots"
  <2>1. req' = [req EXCEPT ![r] = q2]
    BY <1>5, <1>9
  <2>2. req' \in [Requests -> Records] /\ req'[r] = q2 /\ Others(r)
    BY <1>7, <2>1, Update
  <2>3. QED
    BY <1>3, <1>7, <2>2
<1>10. QED
  BY <1>8, <1>9

LEMMA DisturbRows ==
  ASSUME Typed, Disturb
  PROVE  /\ req' \in [Requests -> Records]
         /\ \A r \in Requests :
              /\ req'[r].pc = req[r].pc /\ req'[r].tries = req[r].tries /\ req'[r].due = req[r].due
              /\ req'[r].base = req[r].base /\ req'[r].reply = req[r].reply
              /\ req'[r].paths = req[r].paths /\ req'[r].late = req[r].late
              /\ req'[r].told = req[r].told /\ req'[r].groups = req[r].groups
              /\ req'[r].warnings = req[r].warnings /\ req'[r].max = req[r].max
              /\ req'[r].calm => req[r].calm /\ req[r].pc \notin Calls
<1> DEFINE Calmed(q) == [q EXCEPT !.calm = FALSE]
<1>1. ASSUME NEW q \in Records
      PROVE  /\ Calmed(q) \in Records /\ Calmed(q).pc = q.pc /\ Calmed(q).tries = q.tries
             /\ Calmed(q).due = q.due /\ Calmed(q).base = q.base /\ Calmed(q).reply = q.reply
             /\ Calmed(q).paths = q.paths /\ Calmed(q).late = q.late /\ Calmed(q).told = q.told
             /\ Calmed(q).groups = q.groups /\ Calmed(q).warnings = q.warnings
             /\ Calmed(q).max = q.max
  BY DEF Records
<1>0. ASSUME NEW q \in Records PROVE ~Calmed(q).calm
  BY DEF Records
<1>2. \A r \in Requests :
        /\ req[r] \in Records
        /\ req'[r] = IF req[r].pc \in Calls THEN Calmed(req[r]) ELSE req[r]
  BY DEF Typed, Disturb, InCall, Calls
<1> HIDE DEF Calmed
<1>3. req' = [r \in Requests |-> req'[r]]
  BY DEF Disturb
<1>4. req' \in [Requests -> Records]
  <2>1. \A r \in Requests : req'[r] \in Records
    BY <1>1, <1>2
  <2>2. QED
    BY <1>3, <2>1
<1>5. ASSUME NEW r \in Requests
      PROVE  /\ req'[r].pc = req[r].pc /\ req'[r].tries = req[r].tries /\ req'[r].due = req[r].due
             /\ req'[r].base = req[r].base /\ req'[r].reply = req[r].reply
             /\ req'[r].paths = req[r].paths /\ req'[r].late = req[r].late
             /\ req'[r].told = req[r].told /\ req'[r].groups = req[r].groups
             /\ req'[r].warnings = req[r].warnings /\ req'[r].max = req[r].max
             /\ req'[r].calm => req[r].calm /\ req[r].pc \notin Calls
  <2>1. CASE req[r].pc \in Calls
    <3>1. req[r] \in Records /\ req'[r] = Calmed(req[r])
      BY <1>2, <2>1
    <3>2. /\ req'[r].pc = req[r].pc /\ req'[r].tries = req[r].tries /\ req'[r].due = req[r].due
          /\ req'[r].base = req[r].base /\ req'[r].reply = req[r].reply
          /\ req'[r].paths = req[r].paths /\ req'[r].late = req[r].late
          /\ req'[r].told = req[r].told /\ req'[r].groups = req[r].groups
          /\ req'[r].warnings = req[r].warnings /\ req'[r].max = req[r].max
      BY <1>1, <3>1
    <3>3. ~req'[r].calm
      BY <1>0, <3>1
    <3>4. QED
      BY <3>2, <3>3
  <2>2. CASE req[r].pc \notin Calls
    BY <1>2, <2>2
  <2>3. QED
    BY <2>1, <2>2
<1>6. QED
  BY <1>4, <1>5

LEMMA TickRows ==
  ASSUME Typed, Tick
  PROVE  /\ req' \in [Requests -> Records]
         /\ \A r \in Requests :
              /\ req'[r].pc = req[r].pc /\ req'[r].tries = req[r].tries
              /\ req'[r].due = IF InCall(r) THEN req[r].due - 1 ELSE req[r].due
              /\ req'[r].base = req[r].base /\ req'[r].reply = req[r].reply
              /\ req'[r].paths = req[r].paths /\ req'[r].late = req[r].late
              /\ req'[r].told = req[r].told /\ req'[r].groups = req[r].groups
              /\ req'[r].warnings = req[r].warnings /\ req'[r].max = req[r].max
              /\ req'[r].calm = req[r].calm
<1> DEFINE Older(q) == [q EXCEPT !.due = q.due - 1]
<1>1. ASSUME NEW q \in Records
      PROVE  /\ Older(q) \in Records /\ Older(q).pc = q.pc /\ Older(q).tries = q.tries
             /\ Older(q).due = q.due - 1 /\ Older(q).base = q.base /\ Older(q).reply = q.reply
             /\ Older(q).paths = q.paths /\ Older(q).late = q.late /\ Older(q).told = q.told
             /\ Older(q).groups = q.groups /\ Older(q).warnings = q.warnings
             /\ Older(q).max = q.max /\ Older(q).calm = q.calm
  BY DEF Records
<1>2. \A r \in Requests :
        /\ req[r] \in Records
        /\ req'[r] = IF InCall(r) THEN Older(req[r]) ELSE req[r]
  BY DEF Typed, Tick
<1> HIDE DEF Older
<1>3. req' = [r \in Requests |-> req'[r]]
  BY DEF Tick
<1>4. req' \in [Requests -> Records]
  <2>1. \A r \in Requests : req'[r] \in Records
    BY <1>1, <1>2
  <2>2. QED
    BY <1>3, <2>1
<1>5. QED
  BY <1>1, <1>2, <1>4

LEMMA CoreRepliesRow ==
  ASSUME Typed, NEW r \in Requests, CoreReplies(r)
  PROVE  /\ req' \in [Requests -> Records] /\ Others(r)
         /\ req'[r].pc = "reply" /\ req'[r].reply.roots = grants
         /\ req'[r].tries = req[r].tries /\ req'[r].due = req[r].due /\ req'[r].base = req[r].base
         /\ req'[r].calm = req[r].calm /\ req'[r].late = req[r].late
<1> DEFINE rep == [roots |-> grants, known |-> ~old]
           q == [req[r] EXCEPT !.pc = "reply", !.reply = rep]
<1>1. rep \in [roots : SUBSET Roots, known : BOOLEAN] /\ rep.roots = grants
  BY DEF Typed
<1>2. req[r] \in Records
  BY DEF Typed
<1>3. req' = [req EXCEPT ![r] = q]
  BY DEF CoreReplies
<1> HIDE DEF rep
<1>4. q \in Records
  BY <1>1, <1>2 DEF Records, Calls
<1>5. /\ q.pc = "reply" /\ q.reply = rep /\ q.tries = req[r].tries /\ q.due = req[r].due
      /\ q.base = req[r].base /\ q.calm = req[r].calm /\ q.late = req[r].late
  BY <1>2 DEF Records
<1> HIDE DEF q
<1>6. QED
  BY <1>1, <1>3, <1>4, <1>5, Update

LEMMA BeginRow ==
  ASSUME Typed, NEW r \in Requests, Begin(r)
  PROVE  /\ req' \in [Requests -> Records] /\ Others(r)
         /\ req'[r].pc = "lookup" /\ req'[r].late = {}
         /\ req'[r].calm = (core # None /\ urlFile = core)
<1>1. PICK b \in Bodies :
        req' = [req EXCEPT ![r] = [Idle EXCEPT !.pc = "lookup", !.body = b,
                                               !.calm = (core # None /\ urlFile = core)]]
  BY DEF Begin
<1> DEFINE q == [Idle EXCEPT !.pc = "lookup", !.body = b, !.calm = (core # None /\ urlFile = core)]
<1>2. q \in Records
  BY IdleRecord DEF Records, Calls
<1>3. q.pc = "lookup" /\ q.late = {} /\ q.calm = (core # None /\ urlFile = core)
  BY DEF Idle
<1>4. req' = [req EXCEPT ![r] = q]
  BY <1>1
<1> HIDE DEF q
<1>5. QED
  BY <1>2, <1>3, <1>4, Update

LEMMA EndRow ==
  ASSUME Typed, NEW r \in Requests, End(r)
  PROVE  /\ req' \in [Requests -> Records] /\ Others(r)
         /\ req'[r].pc = "idle" /\ req'[r].late = {}
<1>1. req' = [req EXCEPT ![r] = Idle]
  BY DEF End
<1>2. Idle.pc = "idle" /\ Idle.late = {}
  BY DEF Idle
<1>3. QED
  BY <1>1, <1>2, IdleRecord, Update

LEMMA ServeRow ==
  ASSUME Typed, NEW r \in Requests, NEW told \in {<<>>} \cup Results, NEW groups \in Groups,
         NEW warnings \in SUBSET Warnings, NEW max \in Int,
         Serve(r, told, groups, warnings, max)
  PROVE  /\ req' \in [Requests -> Records] /\ Others(r)
         /\ req'[r].pc = "200" /\ req'[r].late = req[r].late
         /\ req'[r].told = told /\ req'[r].groups = groups
         /\ req'[r].warnings = warnings /\ req'[r].max = max
<1> DEFINE q == [Idle EXCEPT !.pc = "200", !.late = req[r].late, !.told = told,
                             !.groups = groups, !.warnings = warnings, !.max = max]
<1>1. req[r] \in Records
  BY DEF Typed
<1>2. req[r].late \in SUBSET Roots
  BY <1>1 DEF Records
<1>3. q \in Records
  BY <1>2, IdleRecord DEF Records, Statuses
<1>4. /\ q.pc = "200" /\ q.late = req[r].late /\ q.told = told /\ q.groups = groups
      /\ q.warnings = warnings /\ q.max = max
  BY DEF Idle
<1>5. req' = [req EXCEPT ![r] = q]
  BY DEF Serve
<1> HIDE DEF q
<1>6. QED
  BY <1>3, <1>4, <1>5, Update

-----------------------------------------------------------------------------
(***************************************************************************)
(* The fan-out and its cap.                                                *)
(***************************************************************************)
LEMMA PrefixFacts ==
  ASSUME NEW S, NEW s \in Seq(S), NEW n \in Nat
  PROVE  /\ Prefix(s, n) \in Seq(S)
         /\ Len(Prefix(s, n)) = Least(n, Len(s))
         /\ Prefix(s, n) = Prefix(s, Len(Prefix(s, n)))
         /\ Prefix(s, Len(s)) = s
BY DEF Prefix, Least

LEMMA HitsAreLists ==
  ASSUME NEW S \in SUBSET (Roots \cup {None})
  PROVE  Hits(S) \subseteq Lists
<1>2. \A n \in GroupSizes, g \in S : [i \in 1..n |-> g] \in Lists
  BY AgentAssumption DEF Lists
<1>3. ASSUME NEW x \in Hits(S) PROVE x \in Lists
  <2>1. \E n \in GroupSizes, g \in S : x = [i \in 1..n |-> g]
    BY DEF Hits
  <2>2. QED
    BY <1>2, <2>1
<1>4. QED
  BY <1>3

LEMMA OutcomeTypes ==
  ASSUME Typed, NEW r \in Requests, NEW s \in Sources, NEW did \in Outcomes(r, s)
  PROVE  /\ did.hits \in Lists /\ did.warning \in Warnings \cup {None}
         /\ did = [hits |-> did.hits, warning |-> did.warning]
<1> DEFINE scope == IntersectRoots(req[r].body.filter, req[r].roots)
<1>1. req[r].roots \in SUBSET Roots /\ req[r].paths \in SUBSET Roots
  BY DEF Typed, Records
<1>2. scope \in SUBSET (Roots \cup {None})
  BY <1>1 DEF IntersectRoots
<1> HIDE DEF scope
<1>3. \/ \E S \in SUBSET (Roots \cup {None}) : did \in Reply(S)
      \/ \E w \in Warnings \cup {None} : did \in Warned(w)
  <2>1. CASE s \notin Configured \/ s \notin req[r].body.sources
    BY <2>1 DEF Outcomes, Nothing, Warned
  <2>2. CASE ~(s \notin Configured \/ s \notin req[r].body.sources) /\ s = "semantic"
    BY <1>2, <2>2 DEF Outcomes, Warnings, scope
  <2>3. CASE ~(s \notin Configured \/ s \notin req[r].body.sources) /\ s = "filenames"
    BY <1>1, <2>3 DEF Outcomes, Warnings
  <2>4. CASE ~(s \notin Configured \/ s \notin req[r].body.sources) /\ s = "images"
    BY <2>4 DEF Outcomes, Warnings
  <2>5. CASE ~(s \notin Configured \/ s \notin req[r].body.sources) /\ s = "notes"
    BY <2>5 DEF Outcomes, Warnings
  <2>6. QED
    BY <2>1, <2>2, <2>3, <2>4, <2>5 DEF Sources
<1>4. ASSUME NEW S \in SUBSET (Roots \cup {None}), did \in Reply(S)
      PROVE  /\ did.hits \in Lists /\ did.warning = None
             /\ did = [hits |-> did.hits, warning |-> did.warning]
  BY <1>4, HitsAreLists DEF Reply
<1>5. ASSUME NEW w, did \in Warned(w)
      PROVE  /\ did.hits \in Lists /\ did.warning = w
             /\ did = [hits |-> did.hits, warning |-> did.warning]
  <2>1. did = [hits |-> <<>>, warning |-> w]
    BY <1>5 DEF Warned
  <2>2. <<>> \in Lists
    BY DEF Lists
  <2>3. QED
    BY <2>1, <2>2
<1>6. QED
  BY <1>3, <1>4, <1>5

LEMMA CapFacts ==
  ASSUME NEW found \in Found, NEW max \in Totals
  PROVE  applyTotalCap(found, max) \in Found /\ Fair(found, applyTotalCap(found, max), max)
<1> DEFINE per == IF max \div 4 < 1 THEN 1 ELSE max \div 4
           cut == [s \in Sources |-> Prefix(found[s], per)]
<1>1. per \in Nat \ {0} /\ (max >= 4 => 4 * per <= max) /\ max \in Int
  BY AgentAssumption
<1>2. \A s \in Sources : found[s] \in Lists
  BY DEF Found
<1> HIDE DEF per
<1>3. CASE Total(found) <= max
  <2>1. applyTotalCap(found, max) = found
    BY <1>3 DEF applyTotalCap
  <2>2. \A s \in Sources : found[s] = Prefix(found[s], Len(found[s]))
    BY <1>2, PrefixFacts DEF Lists
  <2>3. QED
    BY <1>3, <2>1, <2>2 DEF Fair
<1>4. CASE ~(Total(found) <= max)
  <2>1. applyTotalCap(found, max) = cut
    BY <1>4 DEF applyTotalCap, per
  <2>2. ASSUME NEW s \in Sources
        PROVE  /\ cut[s] \in Lists /\ cut[s] = Prefix(found[s], Len(cut[s]))
               /\ Len(cut[s]) \in Nat /\ Len(cut[s]) <= per
               /\ found[s] # <<>> => cut[s] # <<>>
    <3>1. cut[s] = Prefix(found[s], per) /\ found[s] \in Seq(Roots \cup {None})
      BY <1>2 DEF Lists
    <3>2. /\ cut[s] \in Seq(Roots \cup {None}) /\ Len(cut[s]) = Least(per, Len(found[s]))
          /\ cut[s] = Prefix(found[s], Len(cut[s]))
      BY <1>1, <3>1, PrefixFacts, ZenonT(60)
    <3>3. Len(found[s]) \in Nat /\ (found[s] # <<>> => Len(found[s]) > 0)
      BY <3>1
    <3>4. Len(cut[s]) <= per /\ Len(cut[s]) \in Nat /\ (found[s] # <<>> => Len(cut[s]) > 0)
      BY <1>1, <3>2, <3>3 DEF Least
    <3>5. found[s] # <<>> => cut[s] # <<>>
      BY <3>2, <3>4
    <3>6. QED
      BY <3>2, <3>4, <3>5 DEF Lists
  <2>3. cut \in Found
    BY <2>2 DEF Found
  <2> HIDE DEF cut
  <2>4. Total(cut) <= 4 * per /\ Total(cut) \in Nat
    <3> DEFINE size(s) == Len(cut[s])
               sum == size("semantic") + size("filenames") + size("images") + size("notes")
    <3>1. /\ size("semantic") \in 0..per /\ size("filenames") \in 0..per
          /\ size("images") \in 0..per /\ size("notes") \in 0..per
      BY <1>1, <2>2 DEF Sources
    <3>2. Total(cut) = sum
      BY DEF Total
    <3> HIDE DEF size
    <3>3. sum <= 4 * per /\ sum \in Nat
      BY <1>1, <3>1
    <3> HIDE DEF sum
    <3>4. QED
      BY <3>2, <3>3
  <2>5. max >= 4 => Total(cut) <= max
    BY <1>1, <2>4
  <2>6. QED
    BY <1>4, <2>1, <2>2, <2>3, <2>5 DEF Fair
<1>5. QED
  BY <1>3, <1>4

\* Whatever the order in which the sources return, each has its own result.
LEMMA FanOutIs ==
  ASSUME NEW did, did = [s \in Sources |-> did[s]], NEW o \in Orders
  PROVE  FanOut(did, o) = did
<1> DEFINE r0 == [s \in Sources |-> Nothing]
           r1 == [r0 EXCEPT ![o[1]] = did[o[1]]]
           r2 == [r1 EXCEPT ![o[2]] = did[o[2]]]
           r3 == [r2 EXCEPT ![o[3]] = did[o[3]]]
           r4 == [r3 EXCEPT ![o[4]] = did[o[4]]]
<1>1. /\ o[1] \in Sources /\ o[2] \in Sources /\ o[3] \in Sources /\ o[4] \in Sources
      /\ o[1] # o[2] /\ o[1] # o[3] /\ o[1] # o[4] /\ o[2] # o[3] /\ o[2] # o[4] /\ o[3] # o[4]
  <2>1. o \in [1..4 -> Sources] /\ \A i, j \in 1..4 : o[i] = o[j] => i = j
    BY AgentAssumption
  <2>2. 1 \in 1..4 /\ 2 \in 1..4 /\ 3 \in 1..4 /\ 4 \in 1..4
    OBVIOUS
  <2>3. QED
    BY <2>1, <2>2
<1>2. \A s \in Sources : s = o[1] \/ s = o[2] \/ s = o[3] \/ s = o[4]
  <2> DEFINE w == o[1]
             x == o[2]
             y == o[3]
             z == o[4]
  <2>1. /\ w \in Sources /\ x \in Sources /\ y \in Sources /\ z \in Sources
        /\ w # x /\ w # y /\ w # z /\ x # y /\ x # z /\ y # z
    BY <1>1
  <2> HIDE DEF w, x, y, z
  <2>2. \A s \in Sources : s = w \/ s = x \/ s = y \/ s = z
    BY <2>1, SMT DEF Sources
  <2>3. QED
    BY <2>2 DEF w, x, y, z
<1>3. FanOut(did, o) = r4
  BY DEF FanOut, Return
<1>4. /\ DOMAIN r4 = Sources /\ r4 = [s \in Sources |-> r4[s]]
      /\ r4[o[1]] = did[o[1]] /\ r4[o[2]] = did[o[2]] /\ r4[o[3]] = did[o[3]]
      /\ r4[o[4]] = did[o[4]]
  BY <1>1
<1> HIDE DEF r4
<1>5. \A s \in Sources : r4[s] = did[s]
  BY <1>2, <1>4
<1>6. QED
  BY <1>3, <1>4, <1>5

LEMMA AggregateRow ==
  ASSUME Typed, NEW r \in Requests, Aggregate(r)
  PROVE  /\ req' \in [Requests -> Records] /\ Others(r)
         /\ req'[r].pc = "200" /\ req'[r].late = req[r].late
         /\ Heeds(req'[r].told, req'[r].groups, req'[r].warnings, req'[r].max)
<1>1. PICK sem \in Outcomes(r, "semantic"), fil \in Outcomes(r, "filenames"),
           img \in Outcomes(r, "images"), nts \in Outcomes(r, "notes"), o \in Orders,
           max \in Totals :
        LET did == [semantic |-> sem, filenames |-> fil, images |-> img, notes |-> nts]
            results == FanOut(did, o)
        IN Serve(r, did, applyTotalCap([s \in Sources |-> results[s].hits], max),
                 {results[s].warning : s \in Sources} \ {None}, max)
  BY DEF Aggregate
<1> DEFINE did == [semantic |-> sem, filenames |-> fil, images |-> img, notes |-> nts]
           results == FanOut(did, o)
           found == [s \in Sources |-> did[s].hits]
           warnings == {did[s].warning : s \in Sources} \ {None}
           groups == applyTotalCap(found, max)
<1>2. \A s \in Sources : did[s].hits \in Lists /\ did[s].warning \in Warnings \cup {None}
                         /\ did[s] = [hits |-> did[s].hits, warning |-> did[s].warning]
  <2>1. /\ sem.hits \in Lists /\ sem.warning \in Warnings \cup {None}
        /\ fil.hits \in Lists /\ fil.warning \in Warnings \cup {None}
        /\ img.hits \in Lists /\ img.warning \in Warnings \cup {None}
        /\ nts.hits \in Lists /\ nts.warning \in Warnings \cup {None}
        /\ sem = [hits |-> sem.hits, warning |-> sem.warning]
        /\ fil = [hits |-> fil.hits, warning |-> fil.warning]
        /\ img = [hits |-> img.hits, warning |-> img.warning]
        /\ nts = [hits |-> nts.hits, warning |-> nts.warning]
    BY OutcomeTypes DEF Sources
  <2>2. QED
    BY <2>1 DEF Sources
<1>3. did = [s \in Sources |-> did[s]]
  BY DEF Sources
<1>a. Serve(r, did, applyTotalCap([s \in Sources |-> results[s].hits], max),
            {results[s].warning : s \in Sources} \ {None}, max)
  BY <1>1
<1> HIDE DEF did
<1>4. results = did
  BY <1>3, FanOutIs
<1>5. Serve(r, did, groups, warnings, max)
  BY <1>a, <1>4
<1>6. found \in Found /\ warnings \in SUBSET Warnings /\ did \in Results /\ max \in Int
  <2>1. did \in Results
    BY <1>2, <1>3 DEF Results
  <2>2. max \in Int
    BY AgentAssumption
  <2>3. QED
    BY <1>2, <2>1, <2>2 DEF Found
<1>7. groups \in Found /\ Fair(found, groups, max)
  <2> HIDE DEF found
  <2>1. QED
    BY <1>6, CapFacts
<1>8. Heeds(did, groups, warnings, max)
  <2> HIDE DEF groups
  <2>1. QED
    BY <1>7 DEF Heeds
<1> HIDE DEF found, warnings, groups, results
<1>9. QED
  BY <1>5, <1>6, <1>7, <1>8, ServeRow DEF Groups

LEMMA SearchTextRow ==
  ASSUME Typed, NEW r \in Requests, SearchText(r)
  PROVE  /\ req' \in [Requests -> Records] /\ Others(r)
         /\ \/ req'[r].pc = "500" /\ req'[r].late = {}
            \/ /\ req'[r].pc = "200" /\ req'[r].late = req[r].late
               /\ DOMAIN req'[r].groups # Sources
<1>1. PICK did \in Outcomes(r, "semantic") :
        IF did.warning \in Unavailable THEN Answer(r, "500", req[r].calm)
        ELSE Serve(r, <<>>, [s \in {"semantic"} |-> did.hits], {did.warning} \ {None}, 0)
  BY DEF SearchText
<1>2. did.hits \in Lists /\ did.warning \in Warnings \cup {None}
  BY OutcomeTypes DEF Sources
<1>3. CASE did.warning \in Unavailable
  <2>1. Answer(r, "500", req[r].calm)
    BY <1>1, <1>3
  <2>2. req[r].calm \in BOOLEAN /\ "500" \in Statuses
    BY DEF Typed, Records, Statuses
  <2>3. QED
    BY <2>1, <2>2, AnswerRow
<1>4. CASE did.warning \notin Unavailable
  <2> DEFINE found == [s \in {"semantic"} |-> did.hits]
             warnings == {did.warning} \ {None}
  <2>1. Serve(r, <<>>, found, warnings, 0)
    BY <1>1, <1>4
  <2>2. found \in Groups /\ DOMAIN found = {"semantic"}
    BY <1>2 DEF Groups
  <2>3. {"semantic"} # Sources
    BY DEF Sources
  <2>4. warnings \in SUBSET Warnings /\ <<>> \in {<<>>} \cup Results /\ 0 \in Int
    BY <1>2
  <2> HIDE DEF found, warnings
  <2>5. QED
    BY <2>1, <2>2, <2>3, <2>4, ServeRow
<1>5. QED
  BY <1>3, <1>4

-----------------------------------------------------------------------------
(***************************************************************************)
(* The steps.  One that moves a request leaves core and time alone.        *)
(***************************************************************************)
LEMMA OneRequest ==
  ASSUME Inv, NEW r \in Requests, req' \in [Requests -> Records], Others(r), UNCHANGED theCore,
         cached' \in Ports \cup {None}, cache' # None => cache' \in Entries, CacheOK', Good(r)'
  PROVE  Inv'
<1>1. Typed'
  BY DEF Inv, Typed, theCore
<1>2. ASSUME NEW v \in Requests, v # r PROVE Good(v)'
  <2>1. req'[v] = req[v] /\ Good(v) /\ UNCHANGED <<grants, lost, core, urlFile>>
    BY <1>2 DEF Others, Inv, theCore
  <2>2. CallOK(v)' /\ HeardOK(v)'
    BY <2>1 DEF Good, CallOK, HeardOK, InCall
  <2>3. StaleOK(v)' /\ CalmOK(v)'
    BY <2>1 DEF Good, StaleOK, CalmOK, InCall
  <2>4. QED
    BY <2>2, <2>3 DEF Good
<1>3. QED
  BY <1>1, <1>2 DEF Inv

\* The cache stays as it is.
LEMMA SameCache ==
  ASSUME Inv, UNCHANGED <<theCore, cache>>
  PROVE  (cache' # None => cache' \in Entries) /\ CacheOK'
BY DEF Inv, Typed, CacheOK, theCore

LEMMA StepCacheHit ==
  ASSUME Inv, NEW r \in Requests, CacheHit(r)
  PROVE  Inv'
<1>1. Typed /\ cache # None /\ cache \in Entries /\ cache.left > 0 /\ Good(r) /\ req[r].pc = "lookup"
  BY DEF Inv, Typed, CacheHit, Fresh
<1>2. cache.roots \in SUBSET Roots /\ cache.left \in Nat
  BY <1>1 DEF Entries
<1>3. /\ req' \in [Requests -> Records] /\ Others(r) /\ req'[r].pc \in {"lookup", "search"}
      /\ req'[r].pc = "lookup" => req'[r].calm = req[r].calm
      /\ \/ req'[r].late = req[r].late
         \/ req'[r].late = {g \in cache.roots \ grants : lost[g] > CacheTTL + Timeout}
  BY <1>1, <1>2, TakeRow DEF CacheHit
<1>4. {g \in cache.roots \ grants : lost[g] > CacheTTL + Timeout} = {}
  <2>1. ASSUME NEW g \in cache.roots \ grants PROVE ~(lost[g] > CacheTTL + Timeout)
    <3>1. lost[g] + cache.left <= CacheTTL + Timeout /\ lost[g] \in Nat
      BY <1>1, <1>2 DEF Inv, CacheOK, Typed
    <3>2. QED
      BY <1>1, <1>2, <3>1, AgentAssumption DEF Timeout
  <2>2. QED
    BY <2>1
<1>5. UNCHANGED <<theCore, cached, cache>>
  BY DEF CacheHit
<1>6. Good(r)'
  BY <1>1, <1>3, <1>4, <1>5 DEF Good, CallOK, StaleOK, CalmOK, HeardOK, InCall, Calls, theCore
<1>7. QED
  BY <1>3, <1>5, <1>6, OneRequest, SameCache DEF Inv, Typed

LEMMA StepCacheMiss ==
  ASSUME Inv, NEW r \in Requests, CacheMiss(r)
  PROVE  Inv'
<1>1. Typed /\ Good(r) /\ req[r].pc = "lookup" /\ UNCHANGED <<theCore, cache>> /\ cached' = Get
  BY DEF Inv, CacheMiss, Send
<1>2. Get \in Ports \cup {None} /\ req[r].calm \in BOOLEAN /\ 1 \in Nat
  BY <1>1 DEF Get, Typed, Records
<1>3. /\ req' \in [Requests -> Records] /\ Others(r)
      /\ req'[r].pc = "sent" /\ req'[r].tries = 1
      /\ req'[r].due = Timeout /\ req'[r].calm = req[r].calm /\ req'[r].late = req[r].late
  BY <1>1, <1>2, SendRow DEF CacheMiss
<1>4. Good(r)'
  BY <1>1, <1>3
  DEF Good, CallOK, StaleOK, CalmOK, HeardOK, InCall, Calls, Timeout, theCore
<1>5. QED
  BY <1>1, <1>2, <1>3, <1>4, OneRequest, SameCache

LEMMA StepCoreReplies ==
  ASSUME Inv, NEW r \in Requests, CoreReplies(r)
  PROVE  Inv'
<1>1. /\ Typed /\ Good(r) /\ req[r].pc = "sent" /\ req[r].base = core
      /\ UNCHANGED <<theCore, cached, cache>>
  BY DEF Inv, CoreReplies
<1>2. /\ req' \in [Requests -> Records] /\ Others(r)
      /\ req'[r].pc = "reply" /\ req'[r].reply.roots = grants
      /\ req'[r].tries = req[r].tries /\ req'[r].due = req[r].due /\ req'[r].base = req[r].base
      /\ req'[r].calm = req[r].calm /\ req'[r].late = req[r].late
  BY <1>1, CoreRepliesRow
<1>3. Good(r)'
  BY <1>1, <1>2 DEF Good, CallOK, StaleOK, CalmOK, HeardOK, InCall, Calls, theCore
<1>4. QED
  BY <1>1, <1>2, <1>3, OneRequest, SameCache DEF Typed

LEMMA StepReceive ==
  ASSUME Inv, NEW r \in Requests, Receive(r)
  PROVE  Inv'
<1> DEFINE e == req[r].reply
<1>1. Typed /\ Good(r) /\ req[r].pc = "reply" /\ UNCHANGED <<theCore, cached>> /\ Take(r, e)
  BY DEF Inv, Receive
<1>2. e.roots \in SUBSET Roots /\ e.known \in BOOLEAN /\ req[r].due \in 0..Timeout
  BY <1>1 DEF Typed, Records, Good, CallOK, InCall
<1>3. \A g \in e.roots \ grants : lost[g] \in Nat /\ lost[g] <= Timeout
  BY <1>1, <1>2 DEF Good, StaleOK, Typed, Timeout
<1>4. /\ req' \in [Requests -> Records] /\ Others(r) /\ req'[r].pc \in {"lookup", "search"}
      /\ req'[r].pc = "lookup" => req'[r].calm = req[r].calm
      /\ \/ req'[r].late = req[r].late
         \/ req'[r].late = {g \in e.roots \ grants : lost[g] > CacheTTL + Timeout}
  BY <1>1, <1>2, TakeRow
<1>5. {g \in e.roots \ grants : lost[g] > CacheTTL + Timeout} = {}
  BY <1>3, AgentAssumption DEF Timeout
<1>6. Good(r)'
  BY <1>1, <1>4, <1>5 DEF Good, CallOK, StaleOK, CalmOK, HeardOK, InCall, Calls, theCore
<1>7. cache' = [roots |-> e.roots, known |-> e.known, left |-> CacheTTL]
  BY DEF Receive
<1> HIDE DEF e
<1>8. cache' \in Entries
  BY <1>2, <1>7, AgentAssumption DEF Entries
<1>9. CacheOK'
  BY <1>1, <1>3, <1>7, AgentAssumption DEF CacheOK, Timeout, theCore
<1>10. QED
  BY <1>1, <1>4, <1>6, <1>8, <1>9, OneRequest DEF Typed

LEMMA StepTransportError ==
  ASSUME Inv, NEW r \in Requests, TransportError(r)
  PROVE  Inv'
<1> DEFINE calm == req[r].calm /\ req[r].base # core
<1>1. Typed /\ Good(r) /\ InCall(r) /\ UNCHANGED <<theCore, cache>>
  BY DEF Inv, TransportError
<1>2. calm \in BOOLEAN /\ Refresh \in Ports \cup {None} /\ 2 \in Nat /\ "503" \in Statuses
  BY <1>1 DEF Typed, Refresh, Statuses
<1>3. CASE req[r].tries = 1
  <2>1. Send(r, Refresh, 2, calm) /\ cached' = Refresh
    BY <1>3 DEF TransportError, Send
  <2>2. /\ req' \in [Requests -> Records] /\ Others(r)
        /\ req'[r].pc = "sent" /\ req'[r].base = Got(Refresh) /\ req'[r].tries = 2
        /\ req'[r].due = Timeout /\ req'[r].calm = calm /\ req'[r].late = req[r].late
    BY <1>1, <1>2, <2>1, SendRow
  <2>3. calm => core # None /\ urlFile = core /\ Got(Refresh) = core
    BY <1>1 DEF Good, CalmOK, InCall, Calls, Got, Refresh
  <2> HIDE DEF calm
  <2>4. CallOK(r)' /\ StaleOK(r)' /\ HeardOK(r)'
    BY <1>1, <2>2 DEF Good, CallOK, StaleOK, HeardOK, Timeout
  <2>5. CalmOK(r)'
    BY <1>1, <2>2, <2>3 DEF CalmOK, theCore
  <2>6. QED
    BY <1>1, <1>2, <2>1, <2>2, <2>4, <2>5, OneRequest, SameCache DEF Good
<1>4. CASE req[r].tries # 1
  <2>1. Answer(r, "503", calm) /\ UNCHANGED cached
    BY <1>4 DEF TransportError
  <2>2. ~calm
    BY <1>1, <1>4 DEF Good, CallOK, CalmOK
  <2>3. /\ req' \in [Requests -> Records] /\ Others(r)
        /\ req'[r].pc = "503" /\ ~req'[r].calm /\ req'[r].late = {}
    BY <1>1, <1>2, <2>1, <2>2, AnswerRow
  <2>4. Good(r)'
    BY <2>3 DEF Good, CallOK, StaleOK, CalmOK, HeardOK, InCall
  <2>5. QED
    BY <1>1, <2>1, <2>3, <2>4, OneRequest, SameCache DEF Typed
<1>5. QED
  BY <1>3, <1>4

LEMMA StepReplyFails ==
  ASSUME Inv, NEW r \in Requests, ReplyFails(r)
  PROVE  Inv'
<1>1. Typed /\ UNCHANGED <<theCore, cached, cache>> /\ Answer(r, "503", FALSE) /\ "503" \in Statuses
  BY DEF Inv, ReplyFails, Statuses
<1>2. /\ req' \in [Requests -> Records] /\ Others(r)
      /\ req'[r].pc = "503" /\ ~req'[r].calm /\ req'[r].late = {}
  BY <1>1, AnswerRow
<1>3. Good(r)'
  BY <1>2 DEF Good, CallOK, StaleOK, CalmOK, HeardOK, InCall
<1>4. QED
  BY <1>1, <1>2, <1>3, OneRequest, SameCache DEF Typed

LEMMA StepAnswers ==
  ASSUME Inv, NEW r \in Requests, Aggregate(r) \/ SearchText(r)
  PROVE  Inv'
<1>1. Typed /\ Good(r) /\ UNCHANGED <<theCore, cached, cache>>
  BY DEF Inv, Aggregate, SearchText
<1>2. CASE Aggregate(r)
  <2>1. /\ req' \in [Requests -> Records] /\ Others(r)
        /\ req'[r].pc = "200" /\ req'[r].late = req[r].late
        /\ Heeds(req'[r].told, req'[r].groups, req'[r].warnings, req'[r].max)
    BY <1>1, <1>2, AggregateRow
  <2>2. CallOK(r)' /\ StaleOK(r)' /\ CalmOK(r)'
    BY <1>1, <2>1 DEF Good, CallOK, StaleOK, CalmOK, InCall, Calls
  <2>3. HeardOK(r)'
    BY <2>1 DEF HeardOK, Heeds, Fair, Total, Prefix
  <2>4. QED
    BY <1>1, <2>1, <2>2, <2>3, OneRequest, SameCache DEF Good, Typed
<1>3. CASE SearchText(r)
  <2>1. /\ req' \in [Requests -> Records] /\ Others(r)
        /\ \/ req'[r].pc = "500" /\ req'[r].late = {}
           \/ /\ req'[r].pc = "200" /\ req'[r].late = req[r].late
              /\ DOMAIN req'[r].groups # Sources
    BY <1>1, <1>3, SearchTextRow
  <2>2. Good(r)'
    BY <1>1, <2>1 DEF Good, CallOK, StaleOK, CalmOK, HeardOK, InCall, Calls
  <2>3. QED
    BY <1>1, <2>1, <2>2, OneRequest, SameCache DEF Typed
<1>4. QED
  BY <1>2, <1>3

LEMMA StepBeginEnd ==
  ASSUME Inv, NEW r \in Requests, Begin(r) \/ End(r)
  PROVE  Inv'
<1>1. Typed /\ UNCHANGED <<theCore, cached, cache>>
  BY DEF Inv, Begin, End
<1>2. CASE Begin(r)
  <2>1. /\ req' \in [Requests -> Records] /\ Others(r)
        /\ req'[r].pc = "lookup" /\ req'[r].late = {}
        /\ req'[r].calm = (core # None /\ urlFile = core)
    BY <1>1, <1>2, BeginRow
  <2>2. Good(r)'
    BY <1>1, <2>1 DEF Good, CallOK, StaleOK, CalmOK, HeardOK, InCall, theCore
  <2>3. QED
    BY <1>1, <2>1, <2>2, OneRequest, SameCache DEF Typed
<1>3. CASE End(r)
  <2>1. /\ req' \in [Requests -> Records] /\ Others(r)
        /\ req'[r].pc = "idle" /\ req'[r].late = {}
    BY <1>1, <1>3, EndRow
  <2>2. Good(r)'
    BY <2>1 DEF Good, CallOK, StaleOK, CalmOK, HeardOK, InCall, Calls
  <2>3. QED
    BY <1>1, <2>1, <2>2, OneRequest, SameCache DEF Typed
<1>4. QED
  BY <1>2, <1>3

\* Steps of core and of time.
LEMMA StepGrants ==
  ASSUME Inv, NEW h \in Roots, Grant(h) \/ Revoke(h)
  PROVE  Inv'
<1>1. /\ UNCHANGED <<old, core, urlFile, cached, cache, req>> /\ Typed
      /\ \A r \in Requests : Good(r) /\ req[r] \in Records
  BY DEF Grant, Revoke, Inv, Typed
<1>2. \/ grants' = grants \cup {h} /\ lost' = lost
      \/ grants' = grants \ {h} /\ lost' = [lost EXCEPT ![h] = 0]
  BY DEF Grant, Revoke
<1>3. /\ grants' \in SUBSET Roots /\ lost' \in [Roots -> Nat]
      /\ \A g \in Roots \ grants' : lost'[g] = 0 \/ (g \notin grants /\ lost'[g] = lost[g])
  BY <1>1, <1>2 DEF Typed
<1>4. Typed'
  BY <1>1, <1>3 DEF Typed
<1>5. CacheOK'
  <2>1. cache # None => cache.roots \in SUBSET Roots /\ cache.left \in 0..CacheTTL
    BY <1>1 DEF Typed, Entries
  <2>2. QED
    BY <1>1, <1>3, <2>1, AgentAssumption DEF Inv, CacheOK, Timeout
<1>6. ASSUME NEW r \in Requests PROVE Good(r)'
  <2>1. CallOK(r)' /\ CalmOK(r)' /\ HeardOK(r)'
    BY <1>1 DEF Good, CallOK, CalmOK, HeardOK, InCall
  <2>2. req[r].reply.roots \in SUBSET Roots
    BY <1>1 DEF Records
  <2>3. StaleOK(r)'
    BY <1>1, <1>3, <2>2 DEF Good, StaleOK, CallOK, InCall, Timeout
  <2>4. QED
    BY <2>1, <2>3 DEF Good
<1>7. QED
  BY <1>4, <1>5, <1>6 DEF Inv

LEMMA StepCore ==
  ASSUME Inv, CoreStops \/ CorePublishes \/ \E p \in Ports : CoreStarts(p)
  PROVE  Inv'
<1>1. /\ Typed /\ Disturb /\ UNCHANGED <<grants, lost, old, cached, cache>>
      /\ core' \in Ports \cup {None} /\ urlFile' \in Ports \cup {None}
      /\ \A r \in Requests : Good(r)
  BY DEF Inv, Typed, CoreStops, CorePublishes, CoreStarts
<1>2. /\ req' \in [Requests -> Records]
      /\ \A r \in Requests :
           /\ req'[r].pc = req[r].pc /\ req'[r].tries = req[r].tries /\ req'[r].due = req[r].due
           /\ req'[r].base = req[r].base /\ req'[r].reply = req[r].reply
           /\ req'[r].paths = req[r].paths /\ req'[r].late = req[r].late
           /\ req'[r].told = req[r].told /\ req'[r].groups = req[r].groups
           /\ req'[r].warnings = req[r].warnings /\ req'[r].max = req[r].max
           /\ req'[r].calm => req[r].calm /\ req[r].pc \notin Calls
  BY <1>1, DisturbRows
<1>3. Typed' /\ CacheOK'
  BY <1>1, <1>2 DEF Typed, Inv, CacheOK
<1>4. ASSUME NEW r \in Requests PROVE Good(r)'
  <2>1. CallOK(r)' /\ StaleOK(r)'
    BY <1>1, <1>2 DEF Good, CallOK, StaleOK, InCall
  <2>2. CalmOK(r)'
    BY <1>1, <1>2 DEF Good, CalmOK, InCall, Calls
  <2>3. HeardOK(r)'
    BY <1>1, <1>2 DEF Good, HeardOK
  <2>4. QED
    BY <2>1, <2>2, <2>3 DEF Good
<1>5. QED
  BY <1>3, <1>4 DEF Inv

LEMMA StepTick ==
  ASSUME Inv, Tick
  PROVE  Inv'
<1>1. /\ Typed /\ UNCHANGED <<grants, old, core, urlFile, cached>>
      /\ \A r \in Requests : Good(r) /\ req[r] \in Records /\ (InCall(r) => req[r].due > 0)
  BY DEF Inv, Typed, Tick
<1>2. /\ req' \in [Requests -> Records]
      /\ \A r \in Requests :
           /\ req'[r].pc = req[r].pc /\ req'[r].tries = req[r].tries
           /\ req'[r].due = IF InCall(r) THEN req[r].due - 1 ELSE req[r].due
           /\ req'[r].base = req[r].base /\ req'[r].reply = req[r].reply
           /\ req'[r].paths = req[r].paths /\ req'[r].late = req[r].late
           /\ req'[r].told = req[r].told /\ req'[r].groups = req[r].groups
           /\ req'[r].warnings = req[r].warnings /\ req'[r].max = req[r].max
           /\ req'[r].calm = req[r].calm
  BY <1>1, TickRows DEF Inv
<1>3. lost' \in [Roots -> Nat] /\ \A g \in Roots : lost'[g] <= lost[g] + 1
  <2>1. /\ lost' = [g \in Roots |-> Least(lost[g] + 1, LongAgo)] /\ LongAgo \in Nat
        /\ \A g \in Roots : lost[g] \in Nat
    BY <1>1, AgentAssumption DEF Tick, Typed, LongAgo, Timeout
  <2>2. \A g \in Roots : Least(lost[g] + 1, LongAgo) \in Nat
                         /\ Least(lost[g] + 1, LongAgo) <= lost[g] + 1
    BY <2>1 DEF Least
  <2>3. QED
    BY <2>1, <2>2
<1>4. cache # None =>
        /\ cache \in Entries /\ cache' \in Entries /\ cache'.roots = cache.roots
        /\ cache'.left > 0 => cache'.left = cache.left - 1
  <2> SUFFICES ASSUME cache # None
               PROVE  /\ cache \in Entries /\ cache' \in Entries /\ cache'.roots = cache.roots
                      /\ cache'.left > 0 => cache'.left = cache.left - 1
    OBVIOUS
  <2> DEFINE left == IF cache.left > 0 THEN cache.left - 1 ELSE 0
  <2>1. cache \in Entries
    BY <1>1 DEF Typed
  <2>2. left \in 0..CacheTTL /\ (left > 0 => left = cache.left - 1)
    BY <2>1, AgentAssumption DEF Entries
  <2>3. cache' = [cache EXCEPT !.left = left]
    BY DEF Tick
  <2> HIDE DEF left
  <2>4. cache' \in Entries /\ cache'.roots = cache.roots /\ cache'.left = left
    BY <2>1, <2>2, <2>3 DEF Entries
  <2>5. QED
    BY <2>1, <2>2, <2>4
<1>5. cache = None => cache' = None
  BY DEF Tick
<1>6. Typed'
  BY <1>1, <1>2, <1>3, <1>4, <1>5 DEF Typed
<1>7. CacheOK'
  <2> SUFFICES ASSUME cache' # None, cache'.left > 0, NEW g \in cache'.roots \ grants'
               PROVE  lost'[g] + cache'.left <= CacheTTL + Timeout
    BY DEF CacheOK
  <2>1. /\ cache # None /\ g \in cache.roots \ grants /\ g \in Roots
        /\ cache.left \in Nat /\ cache'.left = cache.left - 1
    BY <1>1, <1>4, <1>5 DEF Entries
  <2>2. lost[g] + cache.left <= CacheTTL + Timeout
    BY <2>1 DEF Inv, CacheOK
  <2>3. lost[g] \in Nat /\ lost'[g] \in Nat /\ lost'[g] <= lost[g] + 1
    BY <1>1, <1>3, <2>1 DEF Typed
  <2>4. QED
    BY <2>1, <2>2, <2>3, AgentAssumption DEF Timeout
<1>8. ASSUME NEW r \in Requests PROVE Good(r)'
  <2>1. CalmOK(r)' /\ HeardOK(r)'
    BY <1>1, <1>2 DEF Good, CalmOK, HeardOK, InCall
  <2>2. CallOK(r)'
    BY <1>1, <1>2 DEF Good, CallOK, InCall, Timeout
  <2>3. StaleOK(r)'
    <3> SUFFICES ASSUME req'[r].pc = "reply", NEW g \in req'[r].reply.roots \ grants'
                 PROVE  lost'[g] + req'[r].due <= Timeout
      BY <1>1, <1>2 DEF Good, StaleOK
    <3>1. req[r].reply.roots \in SUBSET Roots /\ req[r].due \in Int
      BY <1>1 DEF Records
    <3>2. /\ g \in req[r].reply.roots \ grants /\ g \in Roots /\ req[r].pc = "reply"
          /\ req'[r].due = req[r].due - 1
      BY <1>1, <1>2, <3>1 DEF InCall
    <3>3. lost[g] + req[r].due <= Timeout
      BY <1>1, <3>2 DEF Good, StaleOK
    <3>4. lost[g] \in Nat /\ lost'[g] \in Nat /\ lost'[g] <= lost[g] + 1
      BY <1>1, <1>3, <3>2 DEF Typed
    <3>5. QED
      BY <3>1, <3>2, <3>3, <3>4 DEF Timeout
  <2>4. QED
    BY <2>1, <2>2, <2>3 DEF Good
<1>9. QED
  BY <1>6, <1>7, <1>8 DEF Inv

-----------------------------------------------------------------------------
LEMMA InitInv == Init => Inv
<1> SUFFICES ASSUME Init PROVE Inv
  OBVIOUS
<1>1. \A r \in Requests : req[r] = Idle
  BY DEF Init
<1>2. Typed
  <2>1. LongAgo \in Nat
    BY AgentAssumption DEF LongAgo, Timeout
  <2>2. QED
    BY <2>1, IdleRecord DEF Init, Typed
<1>3. CacheOK
  BY DEF Init, CacheOK
<1>4. ASSUME NEW r \in Requests PROVE Good(r)
  BY <1>1, <1>4 DEF Idle, Good, CallOK, StaleOK, CalmOK, HeardOK, InCall, Calls
<1>5. QED
  BY <1>2, <1>3, <1>4 DEF Inv

LEMMA StepInv == Inv /\ [Next]_vars => Inv'
<1> SUFFICES ASSUME Inv, [Next]_vars PROVE Inv'
  OBVIOUS
<1>1. CASE World
  BY <1>1, StepGrants, StepCore, StepTick DEF World
<1>2. ASSUME NEW r \in Requests, Begin(r) \/ Step(r) PROVE Inv'
  BY <1>2, StepCacheHit, StepCacheMiss, StepCoreReplies, StepReceive, StepTransportError,
     StepReplyFails, StepAnswers, StepBeginEnd DEF Step
<1>3. CASE UNCHANGED vars
  <2>1. Typed' /\ CacheOK'
    BY <1>3 DEF vars, Inv, Typed, CacheOK
  <2>2. \A r \in Requests : Good(r)'
    BY <1>3 DEF vars, Inv, Good, CallOK, StaleOK, CalmOK, HeardOK, InCall
  <2>3. QED
    BY <2>1, <2>2 DEF Inv
<1>4. QED
  BY <1>1, <1>2, <1>3 DEF Next

\* Inv is an invariant of searches.
THEOREM SearchInvariance == Spec => []Inv
BY InitInv, StepInv, PTL DEF Spec

\* Every variable keeps its type, a call is made once or twice, and an entry lives CacheTTL.
THEOREM SearchTypeCorrect == Spec => []TypeOK
<1>1. Inv => TypeOK
  <2> SUFFICES ASSUME Inv PROVE TypeOK
    OBVIOUS
  <2>1. cache # None => cache.roots \subseteq Roots /\ cache.left \in 0..CacheTTL
    BY DEF Inv, Typed, Entries
  <2>2. ASSUME NEW r \in Requests
        PROVE  /\ req[r].pc \in {"idle", "lookup", "sent", "reply", "search"} \cup Statuses
               /\ InCall(r) => req[r].tries \in 1..2 /\ req[r].due \in 0..Timeout
               /\ req[r].paths \subseteq Roots
    <3>1. req[r] \in Records /\ CallOK(r)
      BY DEF Inv, Typed, Good
    <3>2. QED
      BY <3>1 DEF Records, Calls, CallOK
  <2>3. QED
    BY <2>1, <2>2 DEF Inv, Typed, TypeOK
<1>2. QED
  BY <1>1, SearchInvariance, PTL

\* A root that is revoked is out of every search that looks its grants up the lifetime of the
\* cache and the timeout of a call later, for any lifetime and any number of requests whose
\* responses overtake each other.
THEOREM Revocation == Spec => []RevocationTakesEffect
<1>1. Inv => RevocationTakesEffect
  BY DEF Inv, Good, StaleOK, RevocationTakesEffect
<1>2. QED
  BY <1>1, SearchInvariance, PTL

\* A search is not refused for want of core while core is up where its discovery file says,
\* wherever core was before and however often it moved.
THEOREM Rediscovery == Spec => []NeverStranded
<1>1. Inv => NeverStranded
  BY DEF Inv, Good, CalmOK, NeverStranded
<1>2. QED
  BY <1>1, SearchInvariance, PTL

\* No source is shut out and no failure passed over, in whatever order the sources return and
\* whatever the others do, for any number of hits; and the cap cuts nothing without need.
THEOREM Heard == Spec => []EverySourceIsHeard
<1>1. Inv => EverySourceIsHeard
  BY DEF Inv, Good, HeardOK, Heeds, Fair, EverySourceIsHeard
<1>2. QED
  BY <1>1, SearchInvariance, PTL

=============================================================================
