---------------------------- MODULE AgentSearch -----------------------------
(***************************************************************************)
(* A search from the request to the grouped answer: the handlers look up   *)
(* what core grants the user (route/v1/agent.go, route/v1/text.go;         *)
(* service/nimoos_client.go, with a cache), find core by its discovery     *)
(* file (service/discovery.go) and fan out to the sources                  *)
(* (service/aggregate.go), of which Retrieval is one.                      *)
(*                                                                         *)
(* Requests of one user run concurrently, share the cache and the base URL *)
(* and hold no lock across a call.  Core is external: it changes grants,   *)
(* restarts on another port and publishes the port afterwards.  Time is    *)
(* discrete, in units of the timeout of a call to core; a deadline is      *)
(* stated as the time that is left until it.  A fan-out touches nothing    *)
(* that others touch, so it is one action, which takes the results in the  *)
(* order in which the sources return.  A hit is the root that its file is  *)
(* under.                                                                  *)
(***************************************************************************)
EXTENDS Integers, Sequences, FiniteSets, SequencesExt

CONSTANTS
  Requests,     \* the requests that can be in progress at once
  Bodies,       \* [tool, filter, sources]: what they ask
  Roots,        \* the root ids core can grant
  Ports,        \* the base URLs that core can have
  Fallback,     \* NewBaseURLSource's fallback
  CacheTTL,     \* cacheTTL
  Configured,   \* the sources whose backend is there
  GroupSizes,   \* the numbers of hits a source returns
  Orders,       \* the orders in which the sources of a fan-out return
  Totals,       \* the values of the setting MaxTotalResults
  MaxGrants, MaxRestarts, MaxFaults,  \* bounds of what core does and of failing calls
  None

Sources == {"semantic", "filenames", "images", "notes"}
Timeout == 1
LongAgo == CacheTTL + Timeout + 1

ASSUME AgentAssumption ==
  /\ None \notin Ports \cup Roots
  /\ Configured \subseteq Sources
  /\ CacheTTL \in Nat /\ Totals \subseteq 1..60 /\ GroupSizes \subseteq Nat
  /\ Orders \subseteq {o \in [1..4 -> Sources] : \A i, j \in 1..4 : o[i] = o[j] => i = j}
  /\ \A b \in Bodies : b.tool \in {"agent", "text"} /\ b.filter \subseteq Roots
                       /\ b.sources \subseteq Sources

VARIABLES
  grants,    \* what core grants the user
  lost,      \* history: lost[g], the time since root g was last revoked, up to LongAgo
  changes,   \* the number of changes of the grants
  old,       \* does core predate the "roots" field?
  core,      \* core's base URL, or None while it is down
  urlFile,   \* what the discovery file says, or None
  restarts,  \* core's restarts
  faults,    \* the calls that failed without a reason of their own
  cached,    \* BaseURLSource.cached
  cache,     \* the user's entry of NimoOSClient.cache, or None
  req        \* req[r]: the state of request r, and whether it is calm, the roots it took (late)
             \* that had been revoked long before, and what its sources did (told)

vars == <<grants, lost, changes, old, core, urlFile, restarts, faults, cached, cache, req>>
theCore == <<grants, lost, changes, old, core, urlFile, restarts>>

NoReply == [roots |-> {}, known |-> FALSE]
Idle == [pc |-> "idle", body |-> None, lookup |-> "roots", base |-> None, tries |-> 0,
         due |-> 0, reply |-> NoReply, roots |-> {}, paths |-> {}, late |-> {},
         told |-> <<>>, groups |-> <<>>, warnings |-> {}, max |-> 0, calm |-> TRUE]

InCall(r) == req[r].pc \in {"sent", "reply"}

Least(i, j) == IF i < j THEN i ELSE j
Prefix(s, n) == SubSeq(s, 1, Least(n, Len(s)))

-----------------------------------------------------------------------------
(***************************************************************************)
(* Core, and time.  A request is calm while core and its file stay put and *)
(* no call fails.                                                          *)
(***************************************************************************)
Disturb ==
  req' = [r \in Requests |-> IF req[r].pc = "lookup" \/ InCall(r)
                             THEN [req[r] EXCEPT !.calm = FALSE] ELSE req[r]]

Grant(g) ==
  /\ changes < MaxGrants /\ changes' = changes + 1
  /\ grants' = grants \cup {g}
  /\ g \notin grants
  /\ UNCHANGED <<lost, old, core, urlFile, restarts, faults, cached, cache, req>>

Revoke(g) ==
  /\ changes < MaxGrants /\ changes' = changes + 1
  /\ g \in grants
  /\ grants' = grants \ {g}
  /\ lost' = [lost EXCEPT ![g] = 0]
  /\ UNCHANGED <<old, core, urlFile, restarts, faults, cached, cache, req>>

CoreStops ==
  /\ core # None /\ restarts < MaxRestarts
  /\ core' = None
  /\ restarts' = restarts + 1
  /\ Disturb
  /\ UNCHANGED <<grants, lost, changes, old, urlFile, faults, cached, cache>>

CoreStarts(p) ==
  /\ core = None
  /\ core' = p
  /\ Disturb
  /\ UNCHANGED <<grants, lost, changes, old, urlFile, restarts, faults, cached, cache>>

CorePublishes ==
  /\ core # None /\ urlFile # core
  /\ urlFile' = core
  /\ Disturb
  /\ UNCHANGED <<grants, lost, changes, old, core, restarts, faults, cached, cache>>

Tick ==
  /\ \A r \in Requests : InCall(r) => req[r].due > 0
  /\ req' = [r \in Requests |-> IF InCall(r) THEN [req[r] EXCEPT !.due = @ - 1] ELSE req[r]]
  /\ cache' = IF cache = None THEN None ELSE [cache EXCEPT !.left = IF @ > 0 THEN @ - 1 ELSE 0]
  /\ lost' = [g \in Roots |-> Least(lost[g] + 1, LongAgo)]
  /\ UNCHANGED <<grants, changes, old, core, urlFile, restarts, faults, cached>>

(***************************************************************************)
(* BaseURLSource and doWithRediscover.                                     *)
(***************************************************************************)
Got(c) == IF c = None THEN Fallback ELSE c

\* Get reads the file only as long as it has never had a value.
Get == IF cached = None THEN urlFile ELSE cached

\* Mutant: the retry goes where the first call went.
Refresh_Keeps == cached

Refresh == IF urlFile # None THEN urlFile ELSE cached

Send(r, c, tries, calm) ==
  /\ cached' = c
  /\ req' = [req EXCEPT ![r].pc = "sent", ![r].base = Got(c), ![r].tries = tries,
                        ![r].due = Timeout, ![r].reply = NoReply, ![r].calm = calm]

\* An error status; the handler has nothing else to say.
Answer(r, status, calm) ==
  req' = [req EXCEPT ![r] = [Idle EXCEPT !.pc = status, !.calm = calm]]

(***************************************************************************)
(* NimoOSClient.entry, for SearchRoots and again for SearchRootPaths.      *)
(***************************************************************************)
\* What the handler makes of an entry.  With no path to report the slice is nil, as it is when
\* core did not report any (every root has a path here).
Take(r, e) ==
  LET got == [Idle EXCEPT !.body = req[r].body, !.calm = req[r].calm, !.roots = req[r].roots,
                          !.late = req[r].late]
  IN req' = [req EXCEPT ![r] =
       IF req[r].lookup = "roots"
       THEN [got EXCEPT !.roots = e.roots,
                        !.late = {g \in e.roots \ grants : lost[g] > CacheTTL + Timeout},
                        !.lookup = "paths",
                        !.pc = IF got.body.tool = "agent" THEN "lookup" ELSE "search"]
       ELSE [got EXCEPT !.paths = IF e.known THEN e.roots ELSE {}, !.pc = "search",
                        !.calm = TRUE]]

Fresh == cache # None /\ cache.left > 0

\* Mutant: a hit prolongs the entry.
CacheHit_Prolongs(r) ==
  /\ req[r].pc = "lookup" /\ Fresh
  /\ Take(r, cache)
  /\ cache' = [cache EXCEPT !.left = CacheTTL]
  /\ UNCHANGED <<theCore, faults, cached>>

CacheHit(r) ==
  /\ req[r].pc = "lookup" /\ Fresh
  /\ Take(r, cache)
  /\ UNCHANGED <<theCore, faults, cached, cache>>

CacheMiss(r) ==
  /\ req[r].pc = "lookup" /\ ~Fresh
  /\ Send(r, Get, 1, req[r].calm)
  /\ UNCHANGED <<theCore, faults, cache>>

\* The call reaches core, which answers with the grants of this moment.
CoreReplies(r) ==
  /\ req[r].pc = "sent" /\ req[r].base = core
  /\ req' = [req EXCEPT ![r].pc = "reply", ![r].reply = [roots |-> grants, known |-> ~old]]
  /\ UNCHANGED <<theCore, faults, cached, cache>>

\* The entry is stored when the response has been read, over one that may be newer.
Receive(r) ==
  /\ req[r].pc = "reply"
  /\ cache' = [roots |-> req[r].reply.roots, known |-> req[r].reply.known, left |-> CacheTTL]
  /\ Take(r, req[r].reply)
  /\ UNCHANGED <<theCore, faults, cached>>

\* Mutant: a call that cannot connect is tried again and again.
TransportError_NoLimit(r) ==
  /\ InCall(r)
  /\ \/ req[r].base # core /\ UNCHANGED faults
     \/ /\ req[r].base = core
        /\ faults < MaxFaults
        /\ faults' = faults + 1
  /\ Send(r, Refresh, req[r].tries + 1, req[r].calm /\ req[r].base # core)
  /\ UNCHANGED <<theCore, cache>>

\* Nothing listens there, the connection breaks, or the time is over.  The first time,
\* doWithRediscover reads the file and tries again.
TransportError(r) ==
  /\ InCall(r)
  /\ \/ req[r].base # core /\ UNCHANGED faults
     \/ /\ req[r].base = core
        /\ faults < MaxFaults
        /\ faults' = faults + 1
  /\ IF req[r].tries = 1
     THEN Send(r, Refresh, 2, req[r].calm /\ req[r].base # core)
     ELSE Answer(r, "503", req[r].calm /\ req[r].base # core) /\ UNCHANGED cached
  /\ UNCHANGED <<theCore, cache>>

\* Core answers with another status, or the body breaks off: there is no second try.
ReplyFails(r) ==
  /\ InCall(r)
  /\ \/ req[r].pc = "reply" /\ req[r].base # core /\ UNCHANGED faults
     \/ /\ req[r].base = core
        /\ faults < MaxFaults
        /\ faults' = faults + 1
  /\ Answer(r, "503", FALSE)
  /\ UNCHANGED <<theCore, cached, cache>>

(***************************************************************************)
(* The fan-out.  What a source does is [hits, warning].                    *)
(***************************************************************************)
Hits(S) == {[i \in 1..n |-> g] : n \in GroupSizes, g \in S}
Reply(S) == [hits : Hits(S), warning : {None}]
Warned(w) == {[hits |-> <<>>, warning |-> w]}
Nothing == [hits |-> <<>>, warning |-> None]

Unavailable == {"semantic_unavailable", "filenames_unavailable", "images_unavailable",
                "notes_unavailable"}

\* Each of F fails.
Fail(F) == faults' = faults + Cardinality(F) /\ faults' <= MaxFaults

IntersectRoots(asked, allowed) == IF asked = {} THEN allowed ELSE asked \cap allowed

\* What a source can do; one that is not wanted or not there does nothing.
Outcomes(r, s) ==
  LET b == req[r].body
      scope == IntersectRoots(b.filter, req[r].roots)
  IN IF s \notin Configured \/ s \notin b.sources THEN {Nothing}
     ELSE CASE s = "semantic" ->
                 IF scope = {} THEN Warned("no_accessible_roots")
                 ELSE Reply(scope) \cup Warned("semantic_unavailable")
            [] s = "filenames" ->
                 IF req[r].paths = {} THEN Warned("filenames_scope_unavailable")
                 ELSE Reply(req[r].paths) \cup Warned("filenames_unavailable")
            [] s = "images" -> Reply({None}) \cup Warned("images_unavailable")
            [] s = "notes" -> Reply({None}) \cup Warned("notes_unavailable")

Total(g) == Len(g["semantic"]) + Len(g["filenames"]) + Len(g["images"]) + Len(g["notes"])

\* Mutant: a quarter of the total, which may be none.
applyTotalCap_Quarter(g, max) ==
  IF Total(g) <= max THEN g ELSE [s \in Sources |-> Prefix(g[s], max \div 4)]

\* Mutant: a half of the total for each of four sources.
applyTotalCap_Half(g, max) ==
  LET per == IF max \div 2 < 1 THEN 1 ELSE max \div 2
  IN IF Total(g) <= max THEN g ELSE [s \in Sources |-> Prefix(g[s], per)]

applyTotalCap(g, max) ==
  LET per == IF max \div 4 < 1 THEN 1 ELSE max \div 4
  IN IF Total(g) <= max THEN g ELSE [s \in Sources |-> Prefix(g[s], per)]

Serve(r, told, groups, warnings, max) ==
  req' = [req EXCEPT ![r] = [Idle EXCEPT !.pc = "200", !.late = req[r].late, !.told = told,
                                         !.groups = groups, !.warnings = warnings, !.max = max]]

\* Mutant: errgroup.WithContext, and a failure is an error: it cancels the calls that are out.
Return_Cancels(results, s, did) ==
  IF \E t \in Sources : results[t].warning # None THEN results ELSE [results EXCEPT ![s] = did[s]]

\* A goroutine writes what its source did to variables of its own, and returns nil.
Return(results, s, did) == [results EXCEPT ![s] = did[s]]

\* g.Wait, after the sources have returned in the order o.
FanOut(did, o) ==
  LET nothing == [s \in Sources |-> Nothing]
  IN Return(Return(Return(Return(nothing, o[1], did), o[2], did), o[3], did), o[4], did)

\* nimoos_search, with req.sources or else the default sources of the settings
Aggregate(r) ==
  /\ req[r].pc = "search" /\ req[r].body.tool = "agent"
  /\ \E sem \in Outcomes(r, "semantic"), fil \in Outcomes(r, "filenames"),
        img \in Outcomes(r, "images"), nts \in Outcomes(r, "notes") :
       LET did == [semantic |-> sem, filenames |-> fil, images |-> img, notes |-> nts]
       IN /\ Fail({s \in Sources : did[s].warning \in Unavailable})
          /\ \E o \in Orders, max \in Totals :
               LET results == FanOut(did, o)
               IN Serve(r, did, applyTotalCap([s \in Sources |-> results[s].hits], max),
                        {results[s].warning : s \in Sources} \ {None}, max)
  /\ UNCHANGED <<theCore, cached, cache>>

\* /v1/search/text: an error of SearchText is a 503 if the embedder is not there, else a 500;
\* both are "500" here, so that "503" says that core could not be asked.
SearchText(r) ==
  /\ req[r].pc = "search" /\ req[r].body.tool = "text"
  /\ \E did \in Outcomes(r, "semantic") :
       /\ Fail({did.warning} \cap Unavailable)
       /\ IF did.warning \in Unavailable THEN Answer(r, "500", req[r].calm)
          ELSE Serve(r, <<>>, [s \in {"semantic"} |-> did.hits], {did.warning} \ {None}, 0)
  /\ UNCHANGED <<theCore, cached, cache>>

Begin(r) ==
  /\ req[r].pc = "idle"
  /\ \E b \in Bodies :
       req' = [req EXCEPT ![r] = [Idle EXCEPT !.pc = "lookup", !.body = b,
                                              !.calm = (core # None /\ urlFile = core)]]
  /\ UNCHANGED <<theCore, faults, cached, cache>>

End(r) ==
  /\ req[r].pc \in {"200", "500", "503"}
  /\ req' = [req EXCEPT ![r] = Idle]
  /\ UNCHANGED <<theCore, faults, cached, cache>>

\* The roots whose files a user is shown.
Shows(r) == UNION {Range(req[r].groups[s]) : s \in DOMAIN req[r].groups} \ {None}

-----------------------------------------------------------------------------
Init ==
  /\ grants \in SUBSET Roots
  /\ lost = [g \in Roots |-> LongAgo]
  /\ changes = 0
  /\ old \in BOOLEAN
  /\ core \in Ports
  /\ urlFile \in {None, core}
  /\ restarts = 0 /\ faults = 0
  /\ cached = None /\ cache = None
  /\ req = [r \in Requests |-> Idle]

World == \/ \E g \in Roots : Grant(g) \/ Revoke(g)
         \/ CoreStops \/ CorePublishes \/ \E p \in Ports : CoreStarts(p)
         \/ Tick

Step(r) == \/ CacheHit(r) \/ CacheMiss(r) \/ CoreReplies(r) \/ Receive(r) \/ TransportError(r)
           \/ ReplyFails(r) \/ Aggregate(r) \/ SearchText(r) \/ End(r)

Next == World \/ \E r \in Requests : Begin(r) \/ Step(r)

Spec == Init /\ [][Next]_vars

(***************************************************************************)
(* Properties.                                                             *)
(***************************************************************************)
Statuses == {"200", "500", "503"}

\* Every variable keeps its type, a call is made once or twice, and an entry lives CacheTTL.
TypeOK ==
  /\ grants \subseteq Roots
  /\ cached \in Ports \cup {None} /\ urlFile \in Ports \cup {None} /\ core \in Ports \cup {None}
  /\ cache # None => cache.roots \subseteq Roots /\ cache.left \in 0..CacheTTL
  /\ \A r \in Requests :
       /\ req[r].pc \in {"idle", "lookup", "sent", "reply", "search"} \cup Statuses
       /\ InCall(r) => req[r].tries \in 1..2 /\ req[r].due \in 0..Timeout
       /\ req[r].paths \subseteq Roots

\* A root that is revoked is out of every search that looks its grants up CacheTTL and the
\* timeout of a call later, however requests cross and responses overtake each other.
RevocationTakesEffect ==
  \A r \in Requests : req[r].pc = "200" => Shows(r) \cap req[r].late = {}

\* A search is not refused for want of core while core is up where its discovery file says,
\* wherever core was before: the consumer of a peer that restarted needs no restart itself.
NeverStranded == \A r \in Requests : req[r].pc = "503" => ~req[r].calm

\* No source that found something is shut out by the others or by their failures, and each
\* failure is reported: the cap cuts a group only when there is too much in all, and leaves some
\* of each.  From four up it is a cap; a smaller MaxTotalResults lets up to four hits through.
EverySourceIsHeard ==
  \A r \in Requests : req[r].pc = "200" /\ DOMAIN req[r].groups = Sources =>
    LET told   == req[r].told
        hits   == [s \in Sources |-> told[s].hits]
        groups == req[r].groups
        max    == req[r].max
    IN /\ Total(hits) <= max => groups = hits
       /\ \A s \in Sources : /\ hits[s] # <<>> => groups[s] # <<>>
                            /\ groups[s] = Prefix(hits[s], Len(groups[s]))
       /\ req[r].warnings = {told[s].warning : s \in Sources} \ {None}
       /\ max >= 4 => Total(groups) <= max

=============================================================================
