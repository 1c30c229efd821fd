# Verification of NimoOS-Search

TLA+ models of NimoOS-Search, the search service of a NAS: it answers semantic
searches over documents (embeddings from Parser, vectors in Qdrant), file name
searches over an index of its own, photo and note searches by proxy, and reads
documents back for an agent. Sources are quoted relative to `src/`.

## 1. The system

| Part | State it keeps | Operations | Talks to |
|---|---|---|---|
| Index runtime, `service/fileindex/subsystem.go` | index handle, active roots, current stop channel, `workMu`, one goroutine per start or reload | StartInitial, ReloadRoots, RescanActiveRoots, Close, Report | scan, watcher, store |
| Scan and watch, `fileindex/scan.go`, `watch.go` | a walk's progress, inotify watches, the degraded flag | BootScan, ScanInto, Reconcile, handleEvent, addWatchRecursive, receive loop | disk, kernel, store |
| Index store, `fileindex/index.go` | tables `file_index` and `file_name_fts`, `ready` | Upsert, DeletePrefix, PurgeOutside, SearchWithin | SQLite on one connection |
| Settings, `service/settings.go`, `route/v1/settings.go` | snapshot, file, temporary file, `wmu` | load and migrate, Get, Put, PUT handler | index runtime |
| Semantic search, `service/search.go`, `mime_prefix.go` | the mime facet with its expiry, a mutex around it | SearchText, knownMimes | embedding cache, Qdrant, Photos |
| Chunk reads, `service/authz.go` | none | GetFileChunks, GetChunkWindow, GetParentChunks, GetDocumentText, PhotoCaption | Qdrant |
| Aggregation, `service/aggregate.go`, `agent_tools.go`, `filters.go`, `route/v1/agent.go`, `text.go` | none | the two search handlers, Aggregate, applyTotalCap | all sources, core client |
| Core client, `service/nimoos_client.go`, `discovery.go` | per-user cache of granted roots, cached base URL | SearchRoots, SearchRootPaths, doWithRediscover | core |
| Embedding cache, `service/cache.go` | LRU with expiry, flights | GetOrLoad | Parser |
| Qdrant client, `service/qdrant_client.go` | a connection | SearchTextHybrid, Scroll, DistinctValues, buildPBFilter | Qdrant |
| The rest: backend clients, event bus, gateway registration, JWT and middleware, other routes, configuration, wiring, generated code, `eval` | little or none | I/O | |

What is hard here is concurrent, crosses calls, or composes passes:

- Generations of the indexing goroutine are replaced while they work, and two
  kinds of writers (a manual rescan, the receive loop of a superseded watcher)
  are outside the lock that serialises generations.
- The disk changes under a walk; events are dropped; watches run out; directories
  arrive with their contents.
- A change of the index is several SQL statements without a transaction.
- Settings are read, merged, written and acted on with no lock held across.
- Crashes between a temporary file, a rename and a swap.
- Grants are cached, answers cross, core restarts on another port.
- Searches share two caches: one is filled under the context of whoever came
  first, the other under a mutex held across a call.
- Ranking is a series of passes (rerank, fold, group, cut), each tested alone.
- Reads of a document go over pages, overlaps, page markers and turns.

`PROJECT.json` lists each of these as a hazard at its line, with the properties
that would catch it going wrong.

## 2. The modules

| Module | Models | Instances |
|---|---|---|
| `IndexSubsystem` | runtime of the index: generations, stop channels, `workMu`, walks, watchers, rescans | `MCIndexSubsystem` |
| `IndexSubsystem_proofs` | theorems about it | |
| `IndexSync` | one generation on a disk that changes | `MCIndexSync` |
| `IndexSync_proofs` | theorems about it | |
| `IndexStore` | the two tables, statement by statement | `MCIndexStore` |
| `IndexStore_proofs` | theorems about it | |
| `SettingsRegister` | what the settings promise, whatever the requests: the abstract specification | |
| `Settings` | store, file, PUT handler, restart; implements `SettingsRegister` | `MCSettings` |
| `Settings_proofs` | theorems about it, the refinement among them | |
| `SearchQuery` | concurrent semantic searches up to Qdrant's answer, with the caches they share | `MCSearchQuery` |
| `SearchQuery_proofs` | theorems about it | |
| `Rankings` | sorting and selecting, as functions of places | |
| `Retrieval` | one semantic search from end to end | `MCRetrieval` |
| `Retrieval_proofs` | theorems about its ranking and its lookups | |
| `ChunkReads` | reading a file back | `MCChunkReads` |
| `ChunkReads_proofs` | theorems about it | |
| `AgentSearch` | a request: grants, discovery, fan-out, cap | `MCAgentSearch` |
| `AgentSearch_proofs` | theorems about it | |

The three index modules look at one program at three grains. `IndexSubsystem`
takes the disk as fixed and a write as one step, and asks what reloads do.
`IndexSync` takes one generation and lets the disk move. `IndexStore` takes the
writers as given and looks inside a write. `AgentSearch` is the request around
`Retrieval`: there a semantic search is one outcome, here it is all its steps.
`SearchQuery` looks at its first steps again, where searches meet: in `Retrieval` a
search is alone, and its embedding and its filter are outcomes.

### IndexSubsystem

`index`, `active`, `stop` are the fields `Index`, `Roots`, `stop`; `stopped` holds
the generations whose channel is closed; `pc[g]` is the line of `startIndexing`'s
goroutine that generation g is at; `job[w]` is the walk of a generation or a
rescan. The methods hold `s.mu` from entry to return, hence one action each. The
three `select`s with a `default` are `Check`; `Leave`, `Wake` are the cases of the
loop's `select`. The receive loop may take an event although its channel is
closed (`Receive` has no guard on `stopped`), as Go's `select` may. `Abort` is
the error a walk gets when its context is cancelled, the database is closed, or,
if `CanFail`, a statement fails: a boot scan then gives up, its error is logged,
and the generation sets `ready` and goes on. `Disk`, `Mounted` and `Under` are
constants; `rows` starts with one of `Leftovers`, the tables that an earlier run
can leave. Rows are selected and deleted with LIKE, so by `Matches`, which reaches
further than the directory the pattern is made from: a deletion may take rows of
live siblings. `missed` is history: the existing entries whose row such a deletion
took, or that a boot scan which gave up did not get to, and that nobody has
upserted since.

- `OnlyLatestUnstopped`: no channel is closed twice (that panics), and exactly
  the latest generation is free of a stop.
- `ScanComplete`: once the latest boot scan is over, every entry on disk below its
  mounted roots is indexed or `missed`, whatever superseded generations and
  rescans still do. The two exceptions are the code's.
- `OnlyStragglersAddOutside`: an action property; once purged, the index gets
  rows outside the roots only from a rescan of older roots or a superseded
  watcher.
- `SupersededReleases`: a superseded goroutine gives up `workMu` and its watcher ends.
- `EventuallySynced`: once statements no longer fail, the index comes to agree with
  the disk below the active roots, what was `missed` included, provided that no
  active root's pattern matches what another one holds: two such roots delete
  each other's rows in every pass.
- `NothingOutside`: what OVERVIEW.md says of the purge, violated.

### IndexSync

`disk[p]` and `rows[p]` are versions, so a stale row differs from a fresh one.
`look[w]` is the walk of the indexing goroutine or the event handler: the entries
listed and not visited, and the one between `stat` and `Upsert`. A directory is
listed when it is visited. The tree may have any depth, and a directory may be moved
in with any of what can be below it. `AddWatch` watches and then lists, as
`addWatchRecursive` does, and can meet the kernel's limit at any time. A full
queue drops events. `blind` is history: it says whether a change may have escaped
the watcher since the last reconcile that nothing crossed. A change escapes if its
event is dropped, if its directory has no watch and is not about to get one
(`Covered`: an event or the handler's walk is still to come to it), or if a watch
cannot be added.

`DeletePrefix` deletes what its pattern matches (`Matches`); `lost` is history too:
the rows of other paths that a deletion took so, until something writes them again.

- `InSync`: when events have been handled and nothing escaped, rows equal disk, but for
  the `lost` ones. An event does not bring those back; nothing else is missing, stale
  or left over.
- `EventuallySynced`: when the disk stops changing, rows come to equal it, whatever
  was missed or lost.

### IndexStore

One action per SQL statement: `WriteRows`, then `DeleteFts`, then `InsertFts` for
an upsert. `Fail` is an error of a statement (that of the FTS delete is ignored,
as in the code), `Crash` a restart between statements. `ftsOK` is decided by the
SQLite that is linked. `Matches` is the LIKE of `DeletePrefix`, for which an
underscore in a directory's name matches any character; `Outside` is the binary
comparison of `PurgeOutside`. `solo` and `settled` are history: which operations
had a path to themselves.

- `LastWriterRepairs`: an operation that had a path to itself leaves it found
  exactly if it is indexed, and once, whatever happened before.
- `DuplicatesBounded`: duplicates of crossed upserts do not pile up.
- `ShadowInSync`: the comment in `PurgeOutside`, violated by two writers.

### Settings

A handler has five moments: read and merge (`Get`), `BeginWrite`, `EndWrite`,
`Rename`, `Swap`, and then `Reload` and `Answer`. `WriteError` and `Crash` come
anywhere. `Start` is `LoadSettingsStore`, with its migration, and `newFileIndex`.
The numeric fields are one field `rest` that is valid or not.

- `SavedSurvives`: what searches read, and what a start reads, is what the last
  successful rename wrote; the migration never brings a removed source back.
- `AloneIsCarriedOut`: a request that met no other is carried out whole.
- `EventuallyAnswered`: no failure of one request blocks the next.
- `ImplementsRegister`: the refinement. `SettingsRegister` has two variables, what a
  start would come up with and what the process works with; a save commits in one
  step, and what it made is shown before the next commits. The mapping takes
  `durable` to what `LoadSettingsStore` would make of the file on the disk, and
  `seen` to the snapshot, or `Down`. `Rename` is the commit, `Swap` the show, every
  other step of a request stutters, and so does a failed write. A reader is at
  most one save behind the disk, however many requests there are.
- `IndexFollowsSettings`: the comment on hot roots, violated by two requests.

### SearchQuery

Several calls of `SearchText` run, each at `pc[s]`; `Begin` and `End` are its call and
its return. `facet` is `mimeFacetCache` (`values`, `exp`), and `asking` is who holds
its mutex and what Qdrant found for that one; `KnownCached` takes and releases the
mutex in one step, since it calls nothing between. `lru` is the cache of
`EmbedCache`, least recently used first; `flight[q]` is the entry of
`singleflight`'s map for q. `Get`, `Join`, `Lead`, `Check`, `Loaded` and `Land` are
`GetOrLoad` in its order: a miss and the flight it leads or joins are two moments,
and so are the end of a load and that of its flight. `Candidates` is
`buildHybridQuery`: each leg with the filter of `buildPBFilter`, an empty list
being no condition. `Appear` is a format that Parser indexes for the first time.
The LRU, singleflight and what a leg of Qdrant returns are external.

Parser and Qdrant may fail in any call, for themselves or because the client of
the search whose context they run under went away; followers of a flight fail
with its leader, as in the code. The clock's unit is longer than a facet call (5
seconds), so that bounds on age are exact to one such call.

- `ColdCacheLoadsOnce`: the comment on `GetOrLoad`, for every way of crossing: a
  query is not embedded twice at once, nor while its embedding is there.
- `NothingStale`: what a search was given, by either cache, by a leader or after it
  waited for the mutex, is not older than the time to live from when it began.
- `FailureIsRecent`: a failure is shared only by those who had begun before it.
- `CandidatesAreThoseAsked`: no path through expansion, a failed facet and an empty
  list widens a search beyond its scope and mimes.
- `FilterCostsNothing`: a filter leaves as many candidates as the limit allows.
- `EveryoneReturns`: whatever fails, no search waits for ever.

### Retrieval

One action per numbered step of `SearchText`. Qdrant returns any sequence of at
most `candidates` chunks; the reranker scores any subset of its budget with any
scores, or fails. The passes are operators: `RerankHits`, `mergeParents`,
`ByFile`. Sorting and selecting come from `Rankings`, which says what a stable
sort and an appending loop of Go leave of a slice: an order is a set of pairs, a
place is the number of elements before it. The properties state the ranking again
without passes: `Precedes` orders chunks, `Bests` are the ones that lead their
section.

- `BestSectionsFirst`, `BestFilesFirst`: what is shown is the best, in order, once
  each, in the plain and in the grouped answer.
- `SectionsReadInOrder`: a folded text is in document order and within the cap, line
  feeds counted, and what it leaves out has no room.
- `LookupsIndependent`: a photo has its path exactly if its own lookup found it, and
  the warning is given exactly if one failed; an asset that is gone is no failure.
- `Answered`: a search that looks photos up is answered.

### ChunkReads

A file is a set of points; a scroll returns them by id, a page at a time, and
Parser may index the file anew between pages. A text is a sequence of the
places its characters have in the document, so that overlaps show. `NextTurn` is
the agent calling again with `next_offset`. Where a reindexing crosses a read the
code does not try to hold the versions apart; what a caller can still rely on is
`StayingAreRead`, and the properties of answers are about reads that none crosses.
Two things are assumed of the data and the callers: Parser numbers the chunks of
each kind, so kind and number name a chunk of a version; and a document is read
from its start, as the sum of its turns is what is stated. The offset of a chunk
list may be negative, since the route passes on what it parsed: `all[start:end]`
then panics (`Panic`) and net/http drops the connection, unless there is nothing to
list.

- `StayingAreRead`: what stays in a file that changes between two pages is read;
  `TypeOK` adds that nothing comes twice.
- `FilePage`, `WholeSection`, `WindowShowsNeighbours`: each read against the set
  of points it is to show. Of a section beyond `parentMaxChunks` that is the first
  chunks in the section's order, among which the anchor need not be.
- `TurnsMakeTheDocument`: the turns together hold every character once, in order.

### AgentSearch

`grants`, `core`, `urlFile` belong to core; `cached` is `BaseURLSource.cached`;
`cache` is the one user's entry in `NimoOSClient.cache`; `req[r]` is a request.
`SearchRoots` and `SearchRootPaths` are two lookups, and an agent's request makes
both. A lookup holds no lock across its call: two may be out at once, and an
older response may be stored over a newer one. Time is discrete; the unit is the
timeout of a call. A call that cannot connect is sent once more, after a fresh
read of the discovery file.

- `RevocationTakesEffect`: roots revoked for longer than the cache's lifetime and a
  call are in no answer, although responses overtake each other.
- `NeverStranded`: a request is not refused while core is where its file says.
- `EverySourceIsHeard`: what a source found is shown whatever the others do or fail
  to do, and in whatever order they return; each failure is a warning. The cap
  removes nothing when there is no excess, never a whole source, and from four up
  leaves no more than `MaxTotalResults`.

A fan-out is one action, since it touches nothing that others touch. What each
source does is chosen first (`Outcomes`), each for itself; then `Return` is applied in
the order in which they return, as the goroutines of the `errgroup` write their
results. Whether one takes hits or warnings from another is decided there.

## 3. The runs and their bounds

| Run | Instance | Shows |
|---|---|---|
| `index_subsystem` | 2 generations, 1 rescan, roots nested in one another, one not mounted, a stale row whose pattern matches a sibling, failing statements; 1.1 million states | safety of reloads |
| `index_subsystem_live` | the same without rescans; 105 thousand states | liveness of reloads |
| `index_outside` | 2 generations, 1 rescan | violation: rows outside the roots |
| `index_sync` | a file, whose pattern matches the one in the directory beside it, 3 changes, a queue of 2; 504 thousand states | events, walks and reconciling |
| `index_store` | 2 writers, 3 paths, one name a pattern of the other, 1 fault; 143 thousand states | both tables |
| `shadow_in_sync` | the same without faults | violation: the tables part |
| `settings` | 2 requests out of 4 bodies, 3 old files, 1 fault; 241 thousand states | settings, restart, and the refinement of `SettingsRegister` |
| `index_follows_settings` | the same without faults | violation: the index on other roots |
| `retrieval` | 6 chunks of 3 files, a section of three that does not fit its cap, 7 requests; 251 thousand states | ranking |
| `search_query` | 2 searches out of 3 bodies, 2 queries for a cache of one, a format that comes late, the clock up to 1; 251 thousand states | the two caches, and the filter |
| `chunk_reads` | 4 versions of a file, one of them empty, 28 reads, pages of 2, sections of up to 3 with a limit of 2, 2 changes; 8.8 thousand states | reads |
| `agent_search` | 2 requests, 1 root, 2 ports, a cache of 2 calls' time, 4 sources of 2 hits in 2 orders, totals of 3 and 5, 1 change of grants, 1 restart, 1 fault; 2.2 million states | requests |

Every bound is a constant of the module it belongs to, and says in a guard what
it stops: `Gens`, `MaxChanges`, `QueueCap`, `MaxFaults`, `MaxReindex`, `MaxGrants`,
`MaxRestarts`, `MaxTime`. Why they suffice:

- A reload concerns the generation before it and the one after it, so two
  generations show it; that any number may wait behind one another is in the
  theorems, which have no bound.
- Three changes of the disk suffice for create, remove and create again, and for
  a directory that arrives with a file, while two events fill the queue.
- Two writers, handlers or requests show each way to cross; more repeat it. One
  fault is enough for each place where it can come, and the second would come
  after a recovery, whose end state is an initial state of the first.
- In `SearchQuery` an embedding lives to the end of its unit of time and a facet
  through the next, so that each is met fresh, at its last moment and expired;
  two queries in a cache of one evict each other. The points are such that an
  unfiltered leg would not reach those asked for.
- Of the versions in `ChunkReads` one lacks the point that a second page begins with and
  has one beyond it; two changes let a file lose points and have them again.
- In `Retrieval` a document has two hits after folding, with photos between them, so
  that grouping moves hits, `maxChunks` (1 or 2) cuts, and topK cuts files and
  sections; of the section the first and the last chunk fit together and the middle
  one with neither.
- In `AgentSearch` six or eight hits meet a total of 5, which is no multiple of four,
  and of 3, which is below four; four hits meet both sides of the cap. One fault is
  one source that fails beside three that do not.
- A cache of two units makes its expiry and a call's timeout fall between one
  another in both orders.

Symmetry is used over generations and rescans, writers, and requests, in the runs
without temporal properties. `CHECK_DEADLOCK FALSE` is said where the bounds let the
system stop: generations used up (`IndexSubsystem`), changes used up
(`IndexSync`), the search answered (`Retrieval`); elsewhere deadlock is checked.

## 4. Fairness

- `IndexSubsystem`: weak fairness of each goroutine's own steps, as Go's scheduler
  is fair; strong fairness of `Leave` and `StopWatcher`, because `select` picks
  uniformly among ready cases and so does not pass over a closed channel for ever.
- `IndexSync`: weak fairness of the two goroutines; the reconcile timer fires.
  Nothing is asked of the disk.
- `Settings`: weak fairness of handlers, strong fairness of taking `wmu`, as
  `sync.Mutex` hands itself to a waiter that starves.
- `SearchQuery`: weak fairness of each search's steps: goroutines run, the clients of
  Parser and of the facet have timeouts, and a call over Qdrant's gRPC connection,
  which has none of its own, ends at the latest with the request it serves. Strong
  fairness of taking the facet's mutex, as above.
- `Retrieval`: weak fairness of the path lookups, each of which has a timeout of 2
  seconds (`search.go:421`). Nothing is asked of the calls before them: `Answered`
  begins where the lookups do.

## 5. What is proved

`tlapm` checks, for all values of the constants:

**IndexSubsystem.** `TypeCorrect` (TypeOK), `NoDoubleClose` (OnlyLatestUnstopped),
`ScanSerialized` (mutual exclusion of generations), `ScanCompleteAlways`
(ScanComplete) and `OnlyStragglers` (OnlyStragglersAddOutside), from `Inv`. None of
them is inductive alone. `StopInv` ties `stop` to the latest generation and its
roots to the active ones; `LockInv` says that `workMu` belongs to the one generation
between Lock and Unlock; `JobInv` that a walk belongs to such a generation or to a
rescan and stays below its root, and that a boot scan deletes nothing; `EventInv` that
a watcher's event is below its roots; `ScanInv` that each root of an unfinished
boot scan is still to come, half done with the rest in `todo`, or wholly indexed,
`missed` entries apart. The key step: a purge by another generation needs `workMu`,
which the settled generation holds, and an existing entry whose row any deletion
takes, or that a scan which gives up has before it, becomes `missed`.

**IndexSync.** `SyncTypeCorrect` (TypeOK) and `EventsSuffice` (InSync), from `IInv`, for
any tree, queue and number of changes. `InSync` speaks of rest; the invariant says
what is under way. While nothing escaped (`Calm`), each path is in order
(`InOrder`): its row is right, or an event is queued whose handler comes to it and
that no removal of it follows in the queue, or the handler's walk is still to come to
it, or a pass that has the index to itself is. `RemovalsOK` orders removals: if one of a
path is queued, and a directory above it has no watch any more, nor has any between
the two, then a removal of that directory is queued behind it; so the event by which a directory
that was made anew is indexed comes after the old removals of all it holds. `LoopOK` says
that what the loop's walk listed is what the disk holds, since a change that crosses a
walk makes `blind` true. `DiskOK` and `LookOK` are the shape of disk and walks.

**IndexStore.** `StoreTypeCorrect` (TypeOK), `SoloRepairs` (LastWriterRepairs) and
`FewDuplicates` (DuplicatesBounded). `LastWriterRepairs` speaks of finished
operations; to be inductive it needs what an unfinished one has done so far to the
paths it has to itself (`ProgressInv`: after the first statement the row is as the
operation wants it, before the last the FTS table has no row), and that no other
operation is on such a path (`SoloInv`). Nothing is assumed of `Like`, so the
result does not depend on which names a pattern matches. `DuplicatesBounded`
counts the inserts that are still to come beside the rows that are there
(`DupInv`): a delete of FTS rows leaves none, and then each writer has at most one
to insert.

**AgentSearch.** `SearchTypeCorrect` (TypeOK), `Revocation` (RevocationTakesEffect),
`Rediscovery` (NeverStranded) and `Heard` (EverySourceIsHeard). `StaleOK` and
`CacheOK` relate ages: of a root that is revoked, the time since then and the time
a response has left add up to at most one timeout, and for a cache entry to at
most its lifetime and one timeout. A response that is stored late moves from the
first bound to the second, and nothing moves back; hence overtaking is harmless.
`CalmOK` says that core is where the file says as long as a request is calm, and
that the second call goes there. `CapFacts` is about the cap itself: any number of
hits, any limit from 1 to 60. `FanOutIs` says that after the wait each source has its own
result, in any order of four different sources.

**Settings.** `TypeCorrect` (TypeOK), `SavedAlwaysSurvives` (SavedSurvives),
`AloneAlwaysCarriedOut` (AloneIsCarriedOut) and `RegisterImplemented`
(ImplementsRegister: `Spec => Register!Spec`). The invariant adds `LockOK` (who is
between taking and releasing `wmu`, and that the temporary file is then its merge),
`AloneOK` (of a request that met no other: what it read is still what is shown, so
its merge is its change and nothing else) and `ShownOK` (outside Rename and Swap
the snapshot is what the disk holds). `LockOK` is what makes Rename a commit of a
valid value, and `ShownOK` what makes it one that comes after a show.

**SearchQuery.** `QueryTypeCorrect` (TypeOK), `LoadsOnce` (ColdCacheLoadsOnce),
`Fresher` (NothingStale), `FailuresPass` (FailureIsRecent) and `OnlyWhatWasAsked`
(CandidatesAreThoseAsked). `LruOK` says of every entry that it is a success of the past
that expires a TTL after it was made; `OwnersOK` that a flight has one
leader; a conjunct of its own that the cache has no fresh entry for a query while
it is loaded, which the double check establishes and only the leader's own store
ends; `FacetOK` and `MimeOK`
carry the time at which Qdrant was asked from the answer to the memo and to those
who read it later; `EmbOK` does the same for embeddings.

`FiltersCostNothing` (FilterCostsNothing) is about Qdrant's legs: one that brings fewer
points than its limit has all that match, because the best of those it left out
would have had a place among the first.

**Retrieval.** `TypeCorrect` (TypeOK), `SectionsFirst` (BestSectionsFirst), `FilesFirst`
(BestFilesFirst), `SectionsInOrder` (SectionsReadInOrder) and `PhotosIndependent`
(LookupsIndependent), for any chunks, sections, scores, limits and lookups. The
properties speak of the finished answer; `RankInv` says what each pass has achieved.
Before reranking the hits are Qdrant's (`AsFound`); after it they are each chunk once, in
the ranking (`OneEach`, `InOrder`), which rests on the ranking being a strict total order
of what was found, whatever the reranker scored; folding leaves each section once, at the
place of its best chunk, with the text of its chunks in order (`SectionsRanked`); the cut
takes the first of them, and they are those that fewer than topK others precede
(`AnswerOK`, which rests on counting: lemma `FirstOnes`). A grouped answer is cut twice,
by files and within each. What a section's text leaves out has no room: the text only
grows, so a chunk that did not fit when its turn came does not fit at the end
(`TextLengthGrows`, `SectionTextFits`). `LookupInv` says that a lookup is of a photo of the
answer, begins after the cut, and that before the wait for all of them ends no photo has
a path and no warning speaks of them.

**ChunkReads.** `TypeCorrect` (TypeOK), `FilePages` (FilePage), `WholeSections`
(WholeSection), `Windows` (WindowShowsNeighbours) and `DocumentTurns`
(TurnsMakeTheDocument), for any versions of the file, limits, numbers of pages, turns and
changes. The properties speak of an answer; `ReadInv` of what is under way. `Scrolled`:
while the file stays, the hits are the listing by id of the points below the offset
of the next page, so at the end of all. `Made`: the answer is what the call makes of its
hits. `ReadSoFar`: what the agent has read is the text up to the offset of its next turn.
`Held` is what remains true when the file changes, with `StayInv`: the hits ascend, lie
below the offset of the next page and include every id below it that is in all
versions (`stays`). It rests on the next page beginning at an id and not at a count
(`StayingRead`). The step that is least obvious is in
the text (lemma `TellsOneMore`): of a chunk that overlaps those before it the code
drops what lies before its cursor; that no character is lost by this needs that chunks
begin in their order, since then what lies between the start of a chunk and the cursor
belongs to the chunk that moved the cursor there. `Monotone` in the property says just that.

The assumptions are those in the modules, which TLC evaluates on the instances.
In `SearchQuery` the places of points in a ranking are distinct, and so are, in
`ChunkReads`, their ids.

All safety and action properties of the passing runs are theorems. Liveness and
`ENABLED` are beyond the prover, and so `SupersededReleases`, both
`EventuallySynced`, `EventuallyAnswered`, `EveryoneReturns` and `Answered` are
model-checked only. So are the violations. Two things shaped the modules. The provers
cannot look into library operators that sort or select by an operator, hence
`Rankings`. They cannot instantiate induction over an operator, so induction is over a
set of natural numbers (lemma `Induction`, from the least element of its complement),
and what the recursive functions of a document's and a section's text compute is
proved with it: first that such a function exists, then what it is at n. The lemmas
about orders, places and counting are therefore in both modules that need them.

## 6. Where code and words differ

Each violation run checks what a comment or document says, and TLC shows the
steps that break it; `PROJECT.json` quotes the lines.

1. `index_outside`: a rescan or an old watcher's event adds rows outside the new
   roots after the purge, and they stay until the next change of roots.
2. `shadow_in_sync`: two writers crossing on a path leave a duplicate or a missing
   FTS row; a missing one hides the file from search until it is written again.
3. `index_follows_settings`: of two concurrent changes of the roots, one is saved and
   the other indexed.

Seen in reading, and not given a run: `ready` is set by a first scan that was cut
short (`subsystem.go:118`; OVERVIEW.md:330 speaks of completion); `DeletePrefix`
deletes siblings whose names its LIKE pattern matches (`index.go:155`), and where one
root is a directory of another, or roots are narrowed to a directory of an old one, the
purge keeps the row of the root itself, of which the first reconcile deletes the whole
tree, until the next pass (`missed` and `lost` in the models); an offset below zero for a
list of chunks panics the handler (`file.go:22`, `authz.go:84`; `Panic` in `ChunkReads`); of a
section of more than 50 chunks a read from its end does not show the chunk that was asked
about (`authz.go:170`); the score of
a section whose chunks were not all reranked may be on another scale than the
comment at `search.go:516` says (`search.go:556`), which its rank does not show; the cap
leaves up to four results for totals below four (`aggregate.go:221`, against the comment
at `aggregate.go:211`; the run has a total of three, and `EverySourceIsHeard` bounds the
count from four up); a user
without paths is warned as if core were old, since the slice stays nil
(`nimoos_client.go:102`; `aggregate.go:44`); the agent's two lookups may come
from different moments, and its root filter does not reach the file name search
(`aggregate.go:137`).

## 7. What is not modelled

- Tokenizing, scoring and SQL predicates of the file name search, payload decoding,
  argument parsing, trimming and wording: pure functions of data, which their
  unit tests reach.
- The event bus: datagrams that are sent and forgotten, and counters. Gateway
  registration: one POST at the start.
- Authentication, middleware, the other routes and the retrieval evaluation: no
  state, or not part of the service.
- Configuration and generated code: constants and glue.
- The process around it (`main.go`): listening, the discovery file it writes,
  signals and the order of closing. What a start makes of the settings is in
  `Settings`, what a close does to the index in `IndexSubsystem`.
- Backends (core, Parser, Qdrant, Photos, Notes) are external: any answer the code
  distinguishes, or an error. That another program takes core's old port is left
  out (its answer of 404 would be taken at its word).

## 8. Plan

Done, in this order: IndexSubsystem with its proofs; IndexSync; IndexStore;
Settings; Retrieval; ChunkReads; AgentSearch; the proofs of IndexStore and
AgentSearch; SettingsRegister, the refinement and the proofs of Settings;
SearchQuery with its proofs; the tree of any depth and the proofs of IndexSync;
the proofs of Retrieval, its ranking included; Rankings; the proofs of ChunkReads; the
proof that a filter costs nothing.

Next, most important first:

1. An abstract specification of the index: a set of paths that follows the roots,
   which `IndexSubsystem` implements up to stragglers.
2. A composition of `IndexStore` with the writers of `IndexSync`.
3. The process: a close while requests and a generation are at work.
