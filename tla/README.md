# skelesearch: models, checks and proofs

skelesearch indexes a source tree for search: it walks the tree, cuts files into
chunks, embeds them, and keeps chunks, symbols and edges in an index under
`.skelesearch/`. A command line (`skelesearch`), a daemon (`skelesearchd`) and
an MCP server share that index, and every one of them may be killed at any time.
This directory holds TLA+ models of the parts that decide *what is in the index
and who may change it*, model-checked with TLC and, where the claim has to hold
for every number of files, processes and runs, proved with TLAPS.

Paths below are relative to `src/crates/`.

## 1. The system

| Component | State | Operations | Interacts with |
|---|---|---|---|
| Indexing lease (`core/src/coordination.rs`) | flock on `.skelesearch.lock`, `indexing-status.json` | acquire, write status, drop; probe and read by others | every writer of the index; `clear` unlinks the lock file |
| Index run (`core/src/indexer.rs`) | walk, batches, staged files, vectors | `index_path`, `index_tier1` | manifest, backend, embedding provider, working tree |
| Manifest (`core/src/manifest.rs`) | SQLite: file hashes, metadata, embedding cache, batches | upsert, clear, begin/complete/delete batch | index run, freshness, gc |
| Storage backend (`core/src/backend/composite.rs`) | LanceDB tables, tantivy index, sparse postings in memory | initialize, upsert, delete, deduplicate, rank, search | index run, searcher, gc |
| Import graph (`core/src/backend/graph.rs`) | petgraph in memory, node index | add, remove the edges of a file, breadth-first search, roles | backend, searcher, tools |
| Daemon (`daemon/src/service.rs`) | projects; per project the active generation, cached searcher, progress | open, search, index (stage, run, promote), startup remediation | lease, generations on disk, index run |
| Daemon lifetime (`daemon/src/main.rs`, `lib.rs`, `transport/`) | singleton lock, socket, sessions | register, heartbeat, reap, shut down | clients |
| MCP server (`mcp/src/server.rs`, `main.rs`) | cached backend, refresh queue of its watcher | automatic indexing, watcher, health check | daemon, generations on disk |
| Tools (`mcp/src/server.rs`, `tools.rs`) | none | search, symbols, dependents, tests, repository map | daemon, tables of the index |
| Client of the daemon (`mcp/src/client.rs`) | connection, session | connect, start a daemon, register, heartbeat | daemon lifetime |
| Command line (`cli/src/app.rs`) | watch queue, PID sentinel | index, search, watch, clear, gc, status | lease, index in place |
| Searcher (`core/src/searcher.rs`) | caches of query vectors and of candidates | retrieve, extend, diversify, rerank, adjust, cut | backend, providers |
| Parsing (`core/src/chunker`, `symbols.rs`, `resolve`) | none | chunks, symbols, calls, import resolution | index run |
| Co-change (`core/src/cochange.rs`) | table of pairs | pairs of the files of a repository's commits | index run, searcher |
| Providers, rerankers, query expansion, configuration, protocol, telemetry, evaluation | | | |

Hard behaviours, and the properties that make each component correct:

- **Lease.** Interleaving of system calls of several processes, kills that leave a
  status file, a probe that takes the lock it asks about, and `clear`, which unlinks the
  lock file. Correct: one writer; the status file is that of the writer; the
  lock never stays behind.
- **Index run.** Everything is incremental: a file whose `(mtime, size)` matches the
  manifest is skipped. Correct: what would be skipped *is* in the index, whatever
  crashed, failed, was edited or changed provider before; a file that the manifest forgets leaves nothing;
  vectors fit the table and are those of the recorded provider.
- **Generations.** Searches read one generation while a run builds another.
  Correct: what is served is whole, is replaced in one step by something not older,
  and the cached searcher is never that of the generation before.
- **Watch.** Events arrive during passes; passes fail. Correct: at most one pass, no
  change forgotten.
- **Daemon lifetime.** Clients start daemons at once, daemons end while others start, calls
  delay heartbeats, sessions outlive their clients. Correct: the daemon that serves is the one
  clients find; who stays up is served again; a daemon without clients ends.
- **Storage backend.** A table is written first and a copy of it afterwards (documents, graph,
  postings); a kill or a failure comes between, and some failures are passed over. Correct: what the manifest takes for complete is
  found, what is found is there, no import is missing from the graph.
- **MCP server.** It shares the generations with the daemon, each under a writer lock, and talks to
  it by calls that fail. Correct: what a server has open is the active generation, a change is
  queued or its request was refused, a refresh in flight ends.
- **Search.** Its legs fail one by one, and it has two caches that searches at once share.
  Correct: candidates of the cache are the search's own, whatever ran in between; no row twice.
- **Imports and calls.** Paths stand for modules, hash sets are iterated, batches are resolved one
  after the other. Correct: an edge leads to what the import names (or, as the resolvers misread some, where the misreading says), a call to a definition of its
  name, an impact analysis misses nothing within its depth, circles included.

`PROJECT.json` lists the components with their status, the map from definitions
to source lines, and every hazard at its line.

## 2. Modules

```
IndexingLease ── IndexingLease_proof      MCIndexingLease
IndexRun      ── IndexRun_proof           MCIndexRun
Generation ── implements ── PublishedIndex      MCGeneration
           ── Generation_proof
WatchLoop     ── WatchLoop_proof
DaemonLifetime ── DaemonLifetime_proof    MCDaemonLifetime
McpServer     ── McpServer_proof          MCMcpServer

ImportGraph ──┬── CompositeBackend ── CompositeBackend_proof      MCCompositeBackend
              └──┐
Codebase ──┬── Search ──┬── Tools ── Search_proof         MCSearch
           └── Symbols ─┘
```

The models are layers of one system. What one takes as a step is what another
shows: a lease taken or refused (`IndexingLease`) is the variable `lease` of
`Generation` and the exclusion of runs in `IndexRun` and `WatchLoop`; a whole run
(`IndexRun`) is `BeginIndex`/`EndIndex` of `Generation`, `PassWalks`/
`PassSucceeds` of `WatchLoop` and `Walk`/`Promote` of `McpServer`, which see an index as the
version of the tree it reflects. The entries that `IndexRun` keeps by table are the rows whose
copies `CompositeBackend` follows; `McpServer` takes the daemon of `Generation` as its clients see it, and
`Search` an index that does not change while it is open, which is what `Generation` promises. `Tools`
composes the searcher, the graph, the symbols and the calls in one state.

### IndexingLease
`lockFile`, `inodes`, `fd`, `flock` are the file system and the kernel's lock
table: an inode at a path, the inode each process has open, the lock it has on it.
`status` is the status file, by writer. Each process performs one call at a time,
one system call per action: `try_acquire_indexing_lease` and `Drop` ("lease"),
`acquire_lock` of the command line ("cli"), `clear`, and the two readers
`read_shared_indexing_status` and `is_indexing_active_elsewhere`. `Crash` drops the
descriptor at any step. Kernel operations are marked external in the map.

### IndexRun
One index and the runs over it. `disk` holds a stamp and a content per file;
`hashes`, `provMeta`, `dimMeta`, `cache`, `pending` are the manifest's tables;
`tableDim`, `index`, `imports` the backend's. An entry of `index[t][f]` says from
which content and which provider's run the rows of file `f` in table `t` come.
Every database call of `index_path` is a step; the loops over a file's tables are
driven by `StaleOrder`, `WriteOrder`, `CallsOrder`, `ReconcileOrder` and `GcOrder`, which state
the order of the calls in the code. `Crash` is a kill or a `?` at any step. Around the runs:
edits and deletions, `search` (which calls `initialize` with its own provider's
dimension), garbage collection, and the background deduplication.
Whoever opens the backend holds tantivy's writer lock (`CanOpen`), so none of these
overlap: this is what makes `Search` and `BeginGc` atomic with respect to runs.

### Generation and PublishedIndex
`dir` is the generation directories (absent, bare, partial, whole; version),
`pointer` the file `active-generation`; per project key: `opening`, `active`, `searcher`
and its construction `build`, `progress`, and an index run's `run`, `staged`, `outcome`.
What a run does after its index is built depends on its outcome; `AfterFailedIndex`,
`AfterFailedPromotion` and `AfterPointer` are the three orders in the code. Two project
keys can share a root (with and without a logical id), hence a storage directory
and a lease. The command line opens the active generation and indexes it in place
(`OtherLocks` … `OtherEnds`); `IsOpen` is again tantivy's writer lock.
`PublishedIndex` is the promise: one published index, replaced in one step by one not
older; an open project serves one index until it turns to the published one.
`Generation` implements it under `published <- Published`, `serving <- version of the active generation`.

### WatchLoop
`run_watch`: the initial pass, the set-up of the watcher, then the loop over events
and ends of passes with the flags `refresh_in_flight` and `followup_queued`. A pass is
lock and open, walk, end; it may fail, and its error is dropped by the loop but ends
the process in the initial pass. The deduplication of a pass keeps the index open
after it (`dedup`), and other commands come and go.

### DaemonLifetime
The processes of `skelesearchd --managed` and the MCP servers that start them. `lock`,
`pidFile`, `socket` are the three files by process; `phase` runs through
`DaemonSingleton::acquire`, `UdsListener::bind`, serving, and `Drop` (`DropOrder`). `sessions` has the
age of `last_seen` by id, `reaper` and `idle` are the task of main.rs, one await per
action. A client is the loop `maintain_daemon_session` (`session`, `due`, `leaving`) over the
connection of `DaemonClient` (`conn`, the steps of `connect`); `busy` is a tool's call that
has the connection's mutex and delays the heartbeat. A broken connection is
noticed by whoever uses it next. Time is counted in heartbeat intervals: `Tick` comes when
all wait for time to pass. The reaper, every 5 s in the code, runs once per
interval, and a client's next attempt to register (1 to 30 s) comes with an interval.

### CompositeBackend and ImportGraph
`chunks`, `edges`, `sparse` are tables; `docs`, `graph`, `postings` the copies: the committed
documents of tantivy, petgraph's graph, the postings of the sparse index. A pass takes
the files of `todo` in the order of their paths, each a batch (`TakeBatch`); `call` is the call that `index_path` makes for a file,
and `After` the one that it makes next. Each call on a table has two halves, `…Table` and then
the copy, and a kill or a failure comes at any half. `hashed` and `matched` are the files that the manifest has an entry of, and an
entry of as they are; `pending` is of batches that were not completed. A file may be gone (`Gone`) or binary or unparsable
(`Skipped`): the pass leaves a skipped one as it is, with what is left of it, reconciles (`Reconcile`) the gone ones that have an entry,
and retires the batches of earlier passes in any case (`RetireBatch`). `…Blind` are the calls that pass over a table that they
cannot open. `Initialize`
reads the edges into a new graph, `SparseSearch` the sparse table into the postings, `Deduplicate` removes rows
of equal text, and the ranking of a pass (`RankBegins` … `RoleEnds`) goes on beside what comes next.
`ImportGraph` has petgraph's arrays: `slots`, where an edge's place is its id and a removal moves the last
edge, and `age`, the order in which neighbours are listed. `RemoveEdgesForFile` removes ids
collected before, as the code does; `Bfs` and `Roles` are used by the tools and the searcher. The loops over edges
are recursive functions of the number of turns, so that lemmas can be stated of a turn.

### McpServer
The servers of a project and its daemon. `holder` is tantivy's writer lock by index, `pointer` the
active generation, `built` the edits an index has seen. The daemon answers a request in a step (`Opens`,
`Remediates`: the startup remediation with its once flag; `Asked`: an index request, answered
`Started` or `AlreadyIndexing`; `Refuses`), and its run is `Walk`, `Promote` or `RunFails`. Of a server, `pc`
has the next step of its tasks: `init` is `on_initialized` (`AutoAsks` … `HealthKeeps`), `watch` is
`run_file_watcher` with `WatchRefreshQueue` (`OnChange`, `Trigger…`, `Poll…`), `tool` is any tool that opens a backend
itself. `resolve_backend` is two steps, as the code opens before an await and puts into the cache after it.

### Codebase and Symbols
Functions of a project: paths, packages, imports, pieces of files, commits. `MergeSmallChunks` and `RowsOfFile` are
the chunker's, `Resolve` the four resolvers, `EdgeSets` the edges that a run may store (Go takes whichever file
of a package a hash set lists first), `CochangePairs` the pairs of the commits. An import is what the query of its language
captures, names as they are written: `ExtractRust` keeps a renamed last name together with its `as`, drops the star of a glob and gives up on
braces; `AfterModule` takes the path of the nearest `go.mod` (`ModuleOf`) off as text, which need not end where a name ends, and `ResolveGo` looks up
what is left from the root of the project. `Names` is the reference for
resolution: what the languages say that an import names. `Misread` are the imports that the resolvers take for others, and `Leads` is where
each of those ends up. `IsProject` and `HasCode` say what every project has, of whichever
files: `walk` lists finitely many, each below the root, imports are those of a file, the words `crate`, `self` and `super` are no
package's name, the pieces of a file have numbers for their lines and sizes, commits and their files are finitely many,
and the files of an index run come in disjoint batches. `ExtractSymbols`, `ResolveCall` and `CallEdges` are
symbols, calls and their resolution batch by batch.

### Search
`searcher` is what does not change while an index is open: the project, its rows, graph, roles and pairs of co-change,
and who searches with which settings. A search is a task, `task[t].pc` the leg it waits for: `Embed`, `Retrieve`, `ExtendByGraph`,
`ExtendBySparse`, `BoostCochange`, `Keep`, `Diversify`, `Rerank`, `Adjust`, `Scope`. What each makes of the hits is a function of its own,
named after the code's (`Fuse`, `Augment`, `MmrOrder`, `Blend`, `Adjusted`, `WithinBudget`). Scores are
millionths and factors percentages, so that order and ties are decided as by the code up to rounding; hash maps
list their rows in any of `Orders`. A leg that fails ends the search or is skipped, as the code has it.
The daemon runs tasks at once on one `Searcher`; the command line one after the other, with more legs.

### Tools
One action per tool: `CallFindSymbol`, `CallSymbolInfo`, `CallFindDependents`, `CallFindTests`, `CallRepoMap`,
`CallSearchTables` and `CallSearch` (the two ways of `search_code`, by `Route`), and `Deliver` for the daemon's answer.
A tool fails, answers in part, or refuses, by the legs it has.

### What the models abstract
- A stamp is new at every edit. Two edits within one second that keep the size are
  indistinguishable for the code too.
- One row per file and table; a parsable content has one chunk. Chunk indices, text and
  scores are not needed by any property. Batches take files in any order.
- `drop_table` and `create_table` are one step; each delete or upsert of the rows of a file is one step.
- `IndexRun` leaves the copies of the tables, the sparse vectors and the ranking to
  `CompositeBackend`, and symbols and calls to `Symbols`.
- `CompositeBackend` lets a file import one that is not there; resolution does so only until that one is reconciled.
- What tree-sitter finds in a file, what git prints, the vectors of a text and the verdicts of a
  reranker are inputs. Rows have similarities, not texts.
- The servers' daemon answers a request in one step; an answer that reaches the server after another step of the
  daemon is in the model where the code goes on with it (`AutoAsks`, `PollAsks` and the steps after them).
- The command line's index in `.skelesearch` itself, used while no generation is
  active, goes through the same procedure and is not a case of its own.
- Generation ids are time stamps: `NewGen` is any directory that does not exist.

## 3. Runs

| Run | Instance | Shows |
|---|---|---|
| `lease` | 3 processes, one of which may clear, 2 lock files | `MutualExclusion` until the lock file is unlinked, `InodeExclusion` always, `LiveStatusIsOwn`, and `LockReleased` under fairness |
| `run_faults` | 2 files, 2 contents (one unparsable), 2 providers of one dimension, batches of 1, 3 runs, edits, creations, deletions, crashes | `MatchedIsIndexed`, `CacheOfProvider`, `MirrorsDisk` |
| `run_dims` | 2 files that import, 2 contents (one unparsable), 2 dimensions, batches of 1, 2 runs, deletions, searches, gc, deduplication, crashes | `FitsTable`, `ForgottenAreGone`, and `RunTerminates` under fairness |
| `gen_shared` | 2 project keys, 4 generations, 3 versions, command line, failures, kills | `ActiveIsWhole`, the refinement `PublishesWhole` |
| `gen_live` | 2 project keys, first start, failures, kills, renames that fail | `SearcherIsActive`, and `RunEnds` under fairness |
| `daemon` | 2 MCP servers, 2 places for daemons, TTL and idle timeout of 1 interval, 4 starts, calls and faults | `ServesAtSocket`, `ReapsOnlySilent`, and under fairness `ClientsAreServed`, `ManagedDaemonEnds` |
| `watch` | 5 versions, 2 starts, all faults | `NoChangeForgotten`, `OnePassAtATime`, and `EditsAreIndexed` under fairness |
| `backend` | 3 files, 2 of which are edited, deleted or become files that are skipped, 2 contents, 2 passes, kills, failed calls, tables that cannot be opened, changes of provider, duplicates | `RecordedIsFindable`, `FoundIsRecorded`, `NoEdgeLost`, `PostedIsStored` |
| `mcp` | 2 servers and their daemon, 3 generations, 2 edits, refused requests, failed runs, kills, stops | `OpenIsActive`, `NoChangeForgotten`, and `RefreshEnds` under fairness |
| `search` | 2 projects in 4 languages, 2 searches at once, 3 calls, a cache of 1 entry, any one leg failing, 3 front ends, 18 tool calls | `CachedAreOwn`, `EdgesAreImports`, `CallsFindDefinitions`, `ImpactIsWhole` |

Why these bounds. Lease: the defects of a lock need a holder, a contender and a
third party that interferes; a second inode is all that one `clear` makes.
Index runs: a fault needs a run that leaves something behind, one that acts on it, and,
for what deduplication and provider changes leave, one before; two files are the
importer and the imported, the duplicate and its representative, two batches. The
theorems of section 5 lift the bounds for the invariants. Generations: one
active, one staged, one abandoned by a kill, one staged by the other key.
Watch: an edit before, during and after a pass and its follow-up, and one over.
Daemon: one process that ends beside one that starts; two clients and two more events, such
as a kill and the call that meets it. The code's TTL is 4.5 intervals and its idle
timeout 15; one interval each keeps what matters, that a heartbeat in
time is younger than the TTL and that idleness is seen at two visits of the reaper.
Backend: a third file, which both others may import, lets the edge of one be moved by the removal of the other's; one pass leaves what
the second acts on. MCP: one server has open what the other and the daemon need; a generation to
begin with, one for a run and one for its follow-up; an edit before and one during the run. Search: the cache of one
entry is replaced by the search beside, three calls fill, replace and look up; the projects have every layout of a
package that resolvers tell apart, circles of imports, a test directory at the root, imports that are renamed, end in a star or have
braces, a Go module within another and a path that continues a module's within a name, written extensions, names that are
defined twice, and commits with more files than are counted. Of the two tasks of `search`, which
are alike, one stands for both (`SYMMETRY`; the run has no temporal property).

Deadlock is checked in all passing runs but two: in `mcp` the edits and generations run out and every
server rests, and in `search` nothing is left to do after the last call; a server and a searcher
wait for their clients then. `Rest` in `IndexRun` and `WatchLoop` says that
nobody has to start anything, so that a state without a step is one in which a
run is stuck.

### Disagreements between the code and what is said of it

These runs expect a violation, of a property that a comment states.

| Run | Property | What happens |
|---|---|---|
| `run_search` | `DroppedIsReindexed` | A search with a provider of another dimension empties the chunks table; the next run skips every file (composite.rs:272) |
| `backend_retire` | `RetiredIsWritten` | A pass is killed between rows and documents of a file; by the next pass the file is gone, or is one that a pass skips. Its batch is retired, its rows stay without documents, and nothing names it any more (indexer.rs:1002-1007) |

Further configurations replay behaviours in the same way, by hand
(`tlc -config X.cfg M`); TLC reports the property as violated by each (with `-continue`, where one configuration has several).

| Configuration | Module | Property | What happens |
|---|---|---|---|
| `lease_probe` | MCIndexingLease | `OnlyStaleRemoved` | a reader probes the lock, lets go, and removes the status that a new run wrote in between (coordination.rs:155, against the comment at 144) |
| `lease_probe` | MCIndexingLease | `DenialMeansHeld` | a writer is refused because of a reader's probe |
| `run_crash` | MCIndexRun | `CallEdgesCommitted` | a crash after the manifest row and before the call edges; the next run skips the file and retires the batch |
| `run_imports` | MCIndexRun | `ImportEdgesComplete` | the target of an import is created; the importing file is unchanged, skipped, and has no edge (indexer.rs:457) |
| `run_crash` | MCIndexRun | `DeletedAreGone` | rows written before a crash of a file that is then deleted stay for good (indexer.rs:1012, "any manifest path": the manifest has none) |
| `run_vectors` | MCIndexRun | `VectorsOfProvider` | a file that no longer parses keeps vectors of the provider before |
| `run_dedup` | MCIndexRun | `ContentIsFindable` | the representative of duplicates changes; the other copy has no chunk and is skipped |
| `gen_replace` | MCGeneration | `NeverOlder` | the fallback of `write_file_atomic` removes the pointer file first; a second failure leaves an empty index (coordination.rs:77) |
| `watch_start` | WatchLoop | `WatcherHandles` | an edit after the initial walk and before the watcher exists, while the sentinel keeps the edit hook away (app.rs:730) |
| `watch_followup` | WatchLoop | `FollowupCatchesUp` | the follow-up pass finds the index open by its predecessor's deduplication, and its error is dropped |
| `daemon_idle` | MCDaemonLifetime | `ExitsWithoutClients` | a client registers between the reaper's count and its decision to shut down |
| `backend_sync` | MCCompositeBackend | `GraphInSync` | the ids of a file's edges are collected and then removed one by one, while each removal moves the last edge: an edge stays in the graph that is gone from the table (graph.rs:65) |
| `backend_load` | MCCompositeBackend | `LoadedAtOpen` | `open` loads no edges, `initialize` does |
| `backend_load` | MCCompositeBackend | `PostedOnce` | postings pushed before the table is first read are pushed again by the read, and count twice |
| `backend_load` | MCCompositeBackend | `SparseIsRead` | `sparse_search` counts a table that it could not open as read, and never reads it again (composite.rs:1220-1241) |
| `backend_load` | MCCompositeBackend | `EntriesRemoved` | `delete_sparse_for_file` goes on without a table that it could not open, and the rows of the file stay in it (composite.rs:1202) |
| `backend_self` | MCCompositeBackend | `NoEdgeLost` | a file that imports itself: its edge is collected twice, and the second removal takes another edge |
| `backend_tier1` | MCCompositeBackend | `SecondTierStays` | `delete_tier1_chunks_for_file`, called after a pass as its comment asks, removes the documents of tier 2 too (composite.rs:437) |
| `mcp_autoindex` | MCMcpServer | `AutoIndexed` | the status request makes the daemon open a first generation; the server opens it too, to learn its provider, cannot, and asks for no run (server.rs:776) |
| `mcp_followup` | MCMcpServer | `FollowupRuns` | the queued follow-up opens the generation that the daemon has open, cannot, and is given up (server.rs:3142) |
| `mcp_serves` | MCMcpServer | `AlwaysServes` | a second server of a project cannot open the storage directory and ends before it serves (main.rs:81) |
| `mcp_daemon` | MCMcpServer | `DaemonOpens` | a server has the active generation open, and the daemon cannot |
| `search_not_so` | MCSearch | `DiverseAnswer` | the last sort goes by the scores that MMR has left as they were (searcher.rs:1114) |
| `search_not_so` | MCSearch | `PenaltyDemotes` | a fraction of a negative score of a reranker is a higher score (searcher.rs:1052) |
| `search_not_so` | MCSearch | `AffectedTestsListed` | a directory of tests at the root has no slash before its name (server.rs:2732) |
| `search_not_so` | MCSearch | `RustEdgesAreNamed` | `use crate::a::b as c` keeps the `as c`, so that its edge leads to `a.rs` although there is an `a/b.rs`; `self` and `super` in a file of its own name begin at its directory (resolve/mod.rs:145, resolve/rust.rs:360) |
| `search_not_so` | MCSearch | `GoEdgesAreNamed` | in a module below the root, and for a path that continues the module's within a name, the edge leads to a package of the root (resolve/go.rs:20-36) |

## 4. Fairness

- `IndexingLease`: weak fairness of each process's steps inside a call. The code waits for
  nothing inside a call, locks are tried and not waited for. Starting a call is not fair, crashes are
  not assumed or excluded.
- `IndexRun`: weak fairness of the run's own steps; it waits for nothing but its own calls,
  which return or fail.
- `Generation`: weak fairness of a begun run's and a begun searcher's steps. Strong
  fairness only of `InvalidateSearcher`, which waits for a write lock that searches keep taking; tokio's
  `RwLock` queues its waiters in order, so that the waiting run is served. No request, open or search has to come.
- `WatchLoop`: weak fairness of the loop's branches (`select!` takes a random ready one),
  of the debouncer and of a pass's steps. Nobody has to edit or to start.
- `DaemonLifetime`: weak fairness of each process's steps, of the end of calls and index runs, and of
  time. Of a client's steps, starting a daemon is strongly fair: the number of places for processes
  is a bound of the model, not of the system. Nobody has to start, leave, call or fail.
- `McpServer`: weak fairness of the daemon's run, of each server's tasks `on_initialized` and watcher, and of a
  tool that has opened a backend; the watcher's `select!` comes back to the poll among events that are bounded. No
  edit, start, request or answer has to come.
- `CompositeBackend`, `Search` and `Tools` state no fairness: nothing in them is about what must happen.

## 5. Proofs

The proof modules hold for all values of the constants that satisfy the named
assumptions (`LeaseAssumption`, `IndexAssumption`, `GenerationAssumption`, `WatchAssumption`,
`LifetimeAssumption`, `McpServerAssumption`, `BackendAssumption`, `SearchAssumption`, `ToolsAssumption`). Some theorems have a hypothesis of their own,
and TLC finds the statement false of the code without it:
`SkippedFilesAreIndexed` and `RunMirrorsDisk` (one dimension; `run_search`), `ImplementsPublishedIndex` with
`NeverOlderPublished` (no rename over the pointer fails; `gen_replace`), `NoEdgeIsLost` (no file imports itself;
`backend_self`), and `DeletedLeaveNoRows` (`run_crash`, and below).

**IndexingLease_proof.** `FlockInv` is inductive: whoever goes on as a holder has
the exclusive lock on the inode it opened, and an exclusive lock excludes every
other on that inode; the step a process is at determines whether it has a lock and a
descriptor. Types and `InodeExclusion` follow for any processes, crashes and
`clear`. With `InodeInv` (descriptors are on inodes created so far) an intact lock
file means one inode, hence `MutualExclusion`. `LiveStatusIsOwn` is inductive relative to these: only
a holder writes the status, and a holder that leaves has removed its own first.

**IndexRun_proof.** Four layers. `LoopInv`: where the loops stand and what is
staged; inductive with the types (`RunTypeOK`). `MetaInv`: the provider recorded in
the manifest, the hashes and the cache change in an order that is consistent
wherever a run stops: gives `CacheIsOfProvider`. `StampInv`: a file being written has the
stamp the walk saw or an older one, and its manifest row is older until it is
written. `RowInv`: the rows a loop has written so far are those of the staged content, and
what matches the disk is indexed; the lemma `Unmatched` says that a file whose rows
are about to change does not match. `SkippedFilesAreIndexed` concludes `MatchedIsIndexed`, under
`SameDim`: all providers have one dimension. Without that assumption the
statement is false of the code (`run_search`). `SeenInv` follows each file that a walk saw: it is to come, in the
batch or among the candidates, or what the manifest has of it is of the stamp that the walk saw; at the end of the run
none is to come, so that `RunMirrorsDisk` follows from `SkippedFilesAreIndexed`.
`ForgottenLeaveNothing` has no hypothesis of its own. The entry of the manifest is all that a later run can find what is left of a file by, so it must
go last: `ErasedInv` says that what the loops of the reconciliation and of the garbage collection have come past is erased, table by
table, and that nothing writes to the file again before its entry goes; it is inductive with `LoopInv`, one lemma (`ErasedStep`) for the steps
and one (`ForgetStep`) for the moment when the entry goes.
What no entry was ever written of is another matter, and each of its cases is a weakness of the code: a crash leaves rows without an entry (`run_crash`), a change
of provider clears the entries and not the rows, a garbage collection removes the entry and not the call edges, and an edge may lead to a file that
is deleted before its batch reads it, or cannot be parsed. The rows or edges stay for good. `DeletedLeaveNoRows` says that these are the cases where *rows* stay:
with one provider, and without crashes and garbage collections, no table has a row of a file that a run did not find (`RowsKnown`: the manifest
knows every file that has rows, but for the one being written).
(Replay of the others: `run_crash` with "gc" or `MCTwoProvider`; of edges, with `MCFile`, `MCImports`, `MCUnparsable`, `BatchSize = 1` and without "crash".)
`RowsFitTable`, for
any dimensions, is a separate invariant: the table changes its dimension only when nobody
has vectors in memory, because opening the backend excludes everyone else.

**Generation_proof.** `ActiveIsWhole` says nothing of the generation that a run is making, and a step of that run makes it
the active one. The strengthening says who a generation belongs to: from its making on it is that of one project
(`OwnedAlone`), in a state that the project's step tells (`OwnedState`), and the lease makes the run that writes the
pointer the only one (`LeaseIsOfRun`). With the outcome of a run (`OutcomeInv`) and what an open project has
(`ProjectInv`) this is inductive together with the types. `SearcherIsActive` needs `BuildIsActive` beside: what a build has
read of the project, and the searcher, are of the active generation except between the swap of the pointer and the end
of the invalidation that follows it. The refinement goes step by step:
each action publishes, turns a project, or is a stutter. It needs that the index published is not older than any
that is served or made from it (`VersionInv`), which is true where nobody finds the pointer gone. Proved: types,
`ActiveIsWhole`, `SearcherIsActive`, `PublishesWhole`, `NeverOlder`, for any projects and generations.

**WatchLoop_proof.** `LoopInv` strengthens the properties: nothing reaches the loop
before it begins, a pass never takes the index back, and every change is caught
from the start of the process on. Proved: types, `OnePassAtATime`, `NoChangeForgotten`.

**DaemonLifetime_proof.** `ServeInv`: the lock names a process exactly in the phases from
the flock to the unlock, and the files are written and removed in these only; so what a process removes
is its own or a dead one's. `ReapsOnlySilent` is about ages: a session that a client counts on, by the connection it
has, is younger than what the client's state allows, as time passes for all at once and waits for those that have something due, and a client that sleeps and is not due has
sent its heartbeat in this interval (`FreshInv`);
ids are given once, so that no process has a session under an id of another's. Proved: `ServesAtSocket`, types,
`ReapsOnlySilent`, for any clients, daemons, TTL and faults.

**CompositeBackend_proof.** None of the properties is inductive: within a call a table and its copy differ. `PassInv` says where
a pass stands: a file that it writes was read and has no entry of what it is, since `RecordFile` is the last call on it, and whatever is `matched` can be parsed and is
there. `SettledInv` is the two properties of text, and `TurnInv` what the tables have of the
file at each of its calls, which `After` puts in order: no rows and no documents until they are written, and the document of each row from then to the entry.
Neither says anything of files without an entry of what they are; of these rows may stay without documents (`backend_retire`).
`PostingsInv` adds or takes away what the second half of a
call is to bring; that the postings are all of the rows needs that no table was passed over (`unopened`). Proved for any files, contents, passes and faults: types, `RecordedIsFindable`, `FoundIsRecorded`,
`PostedIsStored`.
`NoEdgeLost` is about loops over sequences. That an edge is where petgraph's arrays have it (`GraphInv`) is shown of
one turn of `AddEdges` and `RemoveEdges`, and carried over all of them by an induction stated of the set of turns
whose result is right (`Induction`, from the least turn outside the set). The ids that `remove_edges_for_file` collects
before it removes any are of distinct edges, all of the file; a removal moves the last edge into the gap, so that
an edge of another file is moved or stays, and a collected id leads to an edge of the file or to none. With
`EdgesInv`, which knows the edges that the second half of a call will bring, no stored edge is missing between calls.

**McpServer_proof.** `OpenIsActive` is not inductive: that a server puts the active generation into its
cache, and closes nothing for it, needs that it has no other open. `DaemonInv`: the daemon's project is the active
generation and the daemon has its writer lock, and only a daemon with a project has a run; so nobody else has a
generation open when one is replaced. `KeepInv`: what is in a server's cache it has open, and what one of its
tasks has opened and not yet cached is the only backend of the server. With the types these are inductive (`Inv`),
one lemma per action. `NoChangeForgotten` is about a watcher at rest, and what it was told of may be known to another
server's run only: `ChangesInv` says of each watcher that counts on a refresh that the run under way has yet to walk
the tree, or has walked it after the last edit the watcher was told of, or has made an index of it. Proved: types,
`OpenIsActive` and `NoChangeForgotten`, for any servers, generations, edits and faults.

**Search_proof.** `CachedAreOwn` compares what a task took from the cache with `Candidates`, what a search may find when no
leg fails, in any order of hash maps. `Progress` says of which leg a task's hits are the outcome, so that each leg leads from one
step to the next and to candidates in the end; a key has all of a request that its candidates depend on (`SameCandidates`),
which a key without the graph has not. `CacheInv` says it of what the cache holds, `TaskInv` of every task; what moves or
replaces entries keeps theirs (`WithoutIs`, the sequence without one of its elements). This proof does not look into the legs: what
they compute is the same for the cache and for the search. `CacheStaysWithin`: the cache keeps its size and one entry for a
key, so that `put` leaves no older one behind. Both are proved of `Search` and of `Tools`, where the searches of an MCP server come
from its tools (`ToolsSteps`: a step of the tools is one of a search, the begin of one, or leaves the searches alone).

`RowsFoundOnce` (`TypeOK`) does look into them: whatever leg ran, its hits are rows of the index, none twice, with numbers for
scores (`Found`). A leg does one of four things to hits, each with its lemma: it adds rows that are not among them (`AddedFound`,
`JoinFound`, with `Unfound`), puts them into another order (`OrderFound`, from `ByScoreIs` for the sort and `PickAll` for MMR), keeps
some of them (`OnlyFound`, `TakeFound`, `BudgetFound`), or gives them other scores (`SameFound`). From these follows one lemma for each leg
(`FuseFound` and those after it). What a leg chooses, it can choose: rows and pairs of files are finitely many (`RowsFinite`, `PairsAre`), and a
finite set of numbers has a greatest (`Greatest`). `FoundInv` says it of the hits of every task at every step and of every entry of the
cache, and is inductive; a search that takes an entry goes on as one that found it (`AfterCacheFound`).

The three properties of what is indexed are theorems too. No step changes the tables, the graph or the project
(`ToolsStays`), so the properties hold if they hold of what the index has at first, and of each answer when it is given
(`ImpactInv`); what is to be proved is what the operators compute, for graphs, chains, paths and tables of any size. The loops are
recursive functions of the number of turns, and `Induction` carries a fact of one turn over all of them.
- `Sorted` lists each element of a finite set once, for any relation (`SortedElements`), so the graph that `AddEdges`
  makes of an index has its edges and no others (`GraphOf`).
- `ImpactIsWhole`: level `n` of the traversal is the set of files whose shortest chain of imports has length `n`.
  The level takes files that no earlier level has, a chain takes files that it does not have itself; they agree because the
  chains of least length never pass an earlier level (`LevelsAreNearest`, from `ChainSuffixes` and `LongerChains`). The bound that
  the code has on the depth is the only one.
- `EdgesAreImports`: for each language, the paths that a resolver tries are those that the import names
  (`RustNames`, `PythonNames`, `TypeScriptNames`, `GoNames`), or, of an import that is `Misread`, those where `Leads` says that it leads (`RustReads`, from `NoFileAsName`: no
  file has a name with an `as` in it, so that only the module around a renamed name is found), where what the resolver finds is the first of a
  list of paths that the project has.
- `CallsFindDefinitions`: the rows of a batch are those of the files up to it (`SymbolsAre`), and `ResolveCall` goes to the
  caller's own definition, then along an import, then to any definition that it sees (`CallLeads`).

Hypotheses, all of constants and none of states: `SearchAssumption` and `ToolsAssumption`, by which each project is `IsProject` and
`HasCode`, there is at least one order of hash maps, orders, depths, similarities, distances, weights, verdicts and what a request asks for are
numbers (verdicts of either sign), rankings are lists, and the cache has room for an entry (`NonZeroUsize`). TLC evaluates them
on the projects of `search`. They allow files that import themselves, cycles, calls of names that nobody defines, and names
that several files define. Three things came out of the proof: a test file that imports itself is not among the tests that `find_dependents`
names for it (`bfs_inner` marks the start as seen), which `ImpactIsWhole` now excepts; `ResolveCall` and the penalties were written with overlapping
`CASE` arms, which leave the value open where two hold, and are now in the order of the code; and
the reference for imports had taken `index` for a directory's file in Python too, and `lib` and `main` for a crate's root below any directory. `Names` now
says of each extension which files stand for a directory, and that what is named is a file of the importer's language.

Lemmas on sequences and on petgraph's arrays appear here and in `CompositeBackend_proof`: the two modules declare
different variables of the same names, and neither can extend the other.

**Only model-checked.** Liveness (`LockReleased`, `RunTerminates`, `RunEnds`, `EditsAreIndexed`,
`ClientsAreServed`, `ManagedDaemonEnds`, `RefreshEnds`) is out of the prover's reach, as is ENABLED.
Every safety property of a passing run is a theorem of the specification that the run checks, some under a hypothesis named
above.

## 6. Correspondence checks

Each property of a passing run has a mutant of a mapped definition that breaks it; they are
the operators marked "Mutant" in the modules: a dropped guard, a swapped order, a missing
reset. A property that no mutation of the code can break is not kept.

## 7. Not modelled

Providers and rerankers (calls of models and services, with the retries of one request), query expansion and
its word lists, what tree-sitter's queries match, storage layouts, configuration, protocol types,
telemetry, evaluation, output of the command line and the text of the tools' answers. Of the tools, those on a project
other than the server's own, and `get_file_context` beyond the backend it opens.
`pagerank_boost`, `dedup_by_tier` and the leg over `doc_chunks` are in the searcher and in no pipeline that a command
builds: the first is off, the rows of the others are never made.

Noted while reading, without a model or without a property:

- `count_stale` (core/src/manifest.rs:233) counts changed and deleted files but no new ones, so that freshness never
  reports a file that was added.
- No command calls `index_tier1`; `SpecTier1` of `CompositeBackend` adds it for the replay.
- Tasks that `index_path` spawns in the daemon run on a runtime that ends with the run (daemon/src/service.rs:912).
- The manifest's stamp is whole seconds and a size: an edit within the second of the walk that keeps the size is
  not seen.
- The garbage collector leaves the call edges of a file (core/src/gc.rs).
- `session_id` is an input of `search_code` that nothing reads (mcp/src/tools.rs:39, against the README of the
  repository, line 130); with a project, `intent` is ignored (mcp/src/server.rs:1819).
- Pairs of co-changed files are named from the root of the repository, hits from the root of the index; pairs that no
  longer hold stay in the table.
- `mjs` and `cjs` files have call sites but no symbols; the role "dead" has a factor and is never given.

## 8. Plan

1. **DaemonLifetime**: an abstract specification, one server at most at the socket, and the refinement.
2. **Generation**: `clear` by the command line under an open daemon; **DaemonLifetime**: tool calls that connect of
   their own accord.
