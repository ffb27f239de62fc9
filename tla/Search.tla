-------------------------------- MODULE Search --------------------------------
(***************************************************************************)
(* The read path of an index (crates/core/src/searcher.rs, and the         *)
(* searches of crates/core/src/backend/composite.rs): a query is embedded, *)
(* its candidates are retrieved, fused and extended through the imports of *)
(* their files, kept in a cache, and then diversified, reranked, adjusted  *)
(* and cut to a budget. A search is a task: the legs that wait for a       *)
(* backend or a provider are actions of their own, any of them may fail,   *)
(* and the tasks of a daemon interleave on the two caches of one Searcher. *)
(*                                                                         *)
(* Scores are millionths, factors are percentages. An index does not       *)
(* change while a searcher has it open: a pass of the daemon writes a      *)
(* generation of its own (Generation).                                     *)
(*                                                                         *)
(* Left out, because no pipeline that a command builds reaches it:         *)
(* pagerank_boost is off and is never switched on, rows of tier 1 are      *)
(* never written (dedup_by_tier takes its fast path), and the table        *)
(* doc_chunks is never made (doc_vector_search finds nothing). The         *)
(* expansion of queries changes their words only.                          *)
(***************************************************************************)
EXTENDS Codebase, ImportGraph, FiniteSets, Integers

CONSTANTS
    Projects,     \* projects (see Codebase), each with stale, the files whose
                  \* documents are still found though their rows are gone, and
                  \* testNamed, the files with a name like x_test
    Queries,      \* records: rankings fts, vec and sparse of rows, similarities
                  \* sim, verdicts of the reranker, subjects asked about
    Requests,     \* [query, topK, graph, diversity, budget, branch]
    Alike,        \* similarity of two rows, in percent
    Distance,     \* distance of two rows in the vector index, in percent
    Weight,       \* percentages of pagerank per file
    Branch,       \* the files that changed on the branch
    Fronts,       \* a subset of {"daemon", "cli", "mcp"}
    Configs,      \* settings [unified, sparse, cochange, rerank]
    Tasks,        \* searches that run at once, in the daemon
    Orders,       \* orders in which a hash map may list rows: [row -> Nat]
    CacheSize,    \* entries of candidate_cache
    MaxSearches,  \* bound: searches begun
    Faults,       \* legs that may fail, a subset of Legs
    MaxFailures   \* bound: legs that fail

Legs == {"embed", "retrieve", "graph", "neighbours", "sparse", "rows", "cochange",
         "vectors", "rerank", "roles", "branch", "symbols", "chunks", "callers", "callees",
         "start", "end", "paths"}

KeyOf(row) == [file |-> row.file, idx |-> row.idx]
KeysIn(p) == {KeyOf(row) : row \in Rows(p)}

IsList(s) == s \in Seq(ToSet(s))
IsRequest(r) == r.query \in Queries /\ r.topK \in Nat \ {0} /\ r.diversity \in Nat

ASSUME SearchAssumption ==
    /\ Fronts \subseteq {"daemon", "cli", "mcp"}
    /\ Faults \subseteq Legs
    /\ CacheSize \in Nat \ {0} /\ MaxSearches \in Nat /\ MaxFailures \in Nat
    /\ \A r \in Requests : IsRequest(r)
    /\ \A q \in Queries : IsList(q.fts) /\ IsList(q.vec) /\ IsList(q.sparse)
    /\ \A order \in Orders : \A q \in Queries :
          \A key \in ToSet(q.fts) \cup ToSet(q.vec) : order[key] \in Nat
    /\ \A p \in Projects :
          /\ IsProject(p)
          /\ \A key \in KeysIn(p) :
                /\ Weight[key.file] \in Nat
                /\ \A q \in Queries : q.sim[key] \in Int /\ q.verdict[key] \in Int
                /\ \A order \in Orders : order[key] \in Nat
                /\ \A other \in KeysIn(p) :
                      Alike[<<key, other>>] \in Int /\ Distance[<<key, other>>] \in Nat

VARIABLES
    searcher,   \* who searches, and in what: a record of what does not change
    embedded,   \* query_embed_cache: queries
    cache,      \* candidate_cache, the least recently used entry first
    task,       \* the searches
    searches,   \* searches begun
    failures    \* legs that failed

counters == <<searches, failures>>
vars == <<searcher, embedded, cache, task, counters>>

\* The project whose index is open, the rows of its table chunks, the graph of its
\* imports, symbol_roles (the role of each file of the graph), and who searches:
\* the daemon, also for an MCP server, or one process of the command line. Besides,
\* a searcher has the pairs of cochange_edges, as <<file, file, percent>>, and the
\* project's settings.
project == searcher.project
chunks == searcher.chunks
graph == searcher.graph
roles == searcher.roles
front == searcher.front

(* The daemon builds its searcher without the unified search and without a *)
(* reranker (build_searcher_for_project); the command line has them all.   *)
Pipeline(s) ==
    [s.config EXCEPT !.unified = @ /\ s.front = "cli", !.rerank = @ /\ s.front = "cli"]

Depth(s) == IF s.front = "cli" THEN 1 ELSE 2

Files == project.files
Keys(s) == {KeyOf(row) : row \in s.chunks}
RowAt(key) == CHOOSE row \in chunks : KeyOf(row) = key
KeysOfFile(s, f) == {key \in Keys(s) : key.file = f}
Edges == EdgesOf(graph)

\* The rows of a ranking that this index has; the full-text index may also
\* still have those of deleted files.
Ranked(s, ranking) == Only(ranking, Keys(s))
RankedWithStale(s, ranking) ==
    Only(ranking, {key \in ToSet(ranking) : key \in Keys(s) \/ key.file \in s.project.stale})

Take(list, n) == SubSeq(list, 1, IF n < Len(list) THEN n ELSE Len(list))
Percent(x, p) == (x * p) \div 100

\* sort_by on scores: stable, highest first.
ByScore(hits) ==
    LET ahead == {ij \in (DOMAIN hits) \X (DOMAIN hits) :
                     \/ hits[ij[1]].score > hits[ij[2]].score
                     \/ hits[ij[1]].score = hits[ij[2]].score /\ ij[1] < ij[2]}
        places == Sorted(DOMAIN hits, ahead)
    IN [k \in DOMAIN hits |-> hits[places[k]]]

\* A hash map lists its entries in any order.
Listed(keys, order) == Sorted(keys, {xy \in keys \X keys : order[xy[1]] < order[xy[2]]})

HitKeys(hits) == {hits[k].key : k \in DOMAIN hits}

\* Mutant: a leg adds what another leg has found.
UnfoundAny(keys, hits) == keys

\* The rows that a leg may add.
Unfound(keys, hits) == keys \ HitKeys(hits)

HitFiles(hits) == {hits[k].key.file : k \in DOMAIN hits}
BestScore(hits) ==
    LET scores == {0} \cup {hits[k].score : k \in DOMAIN hits}
    IN CHOOSE best \in scores : \A score \in scores : score <= best
PlaceIn(ranking, key) == CHOOSE k \in DOMAIN ranking : ranking[k] = key

---------------------------------------------------------------------------
(* Retrieval                                                               *)

Reciprocal(ranking, key) ==
    IF key \in ToSet(ranking) THEN 1000000 \div (60 + PlaceIn(ranking, key)) ELSE 0

\* rrf_fuse
Fuse(fts, vec, topK, order) ==
    LET keys == Listed(ToSet(fts) \cup ToSet(vec), order)
        why(key) == IF key \notin ToSet(fts) THEN "vector"
                    ELSE IF key \in ToSet(vec) THEN "hybrid" ELSE "fts"
    IN Take(ByScore([k \in DOMAIN keys |->
                        [key |-> keys[k], why |-> why(keys[k]),
                         score |-> Reciprocal(fts, keys[k]) + Reciprocal(vec, keys[k])]]),
            topK)

\* hybrid_search; rows that the table no longer has are dropped at the end.
Hybrid(s, query, topK, order) ==
    LET fused == Fuse(Take(RankedWithStale(s, query.fts), 3 * topK),
                      Take(Ranked(s, query.vec), 3 * topK), topK, order)
    IN Only(fused, {h \in ToSet(fused) : h.key \in Keys(s)})

\* The files that import a file of the hits, none of them among the hits.
Importers(s, hits) ==
    UNION {ToSet(Incoming(s.graph, f)) : f \in HitFiles(hits)}

\* unified_search: neighbours, pagerank, and the cut once more.
Unified(s, query, topK, wide, order) ==
    LET hybrid == Hybrid(s, query, topK, order)
        hits == [k \in DOMAIN hybrid |-> [hybrid[k] EXCEPT !.why = "hybrid"]]
        files == {e[1] : e \in Importers(s, hits)} \ HitFiles(hits)
        found == Listed(UNION {KeysOfFile(s, f) : f \in files}, order)
        more == IF wide /\ hits # <<>>
                THEN [k \in DOMAIN found |->
                         [key |-> found[k], why |-> "graph", score |-> Percent(hits[1].score, 30)]]
                ELSE <<>>
        all == hits \o more
    IN Take(ByScore([k \in DOMAIN all |->
                        [all[k] EXCEPT !.score = Percent(@, Weight[all[k].key.file])]]),
            topK)

Retrieved(s, r, order) ==
    IF Pipeline(s).unified
    THEN Unified(s, r.query, r.topK, r.graph, order)
    ELSE Hybrid(s, r.query, r.topK, order)

---------------------------------------------------------------------------
(* The legs that extend and reorder what was retrieved                     *)

\* traverse_imports from the file of every hit: the least depth of a file.
Reached(s, hits) == UNION {Bfs(s.graph, f, Depth(s), TRUE) : f \in HitFiles(hits)}
DepthOf(reached, f) ==
    LET depths == {fd[2] : fd \in {fd \in reached : fd[1] = f}}
    IN CHOOSE d \in depths : \A e \in depths : d <= e

HopDecay(d) == IF d = 1 THEN 30 ELSE 9

\* augment_with_graph. Rows of reached files that the query resembles; then rows
\* of other files that lie close to the ten first hits, if they can be read.
Augment(s, query, hits, order, neighbours) ==
    LET best == BestScore(hits)
        reached == Reached(s, hits)
        files == {fd[1] : fd \in reached}
        sim(key) == query.sim[key]
        far == Listed({key \in Unfound(Keys(s), hits) : key.file \in files /\ sim(key) >= 25}, order)
        imported == [k \in DOMAIN far |->
                     [key |-> far[k], why |-> "graph",
                      score |-> Percent(Percent(best, sim(far[k])),
                                        HopDecay(DepthOf(reached, far[k].file)))]]
        seeds == HitKeys(Take(hits, 10))
        dist(key) == LET ds == {Distance[<<key, seed>>] : seed \in seeds \ {key}}
                     IN CHOOSE d \in ds : \A e \in ds : d <= e
        close == Listed({key \in Unfound(Keys(s), hits) :
                             /\ key.file \notin files /\ sim(key) >= 25
                             /\ seeds \ {key} # {} /\ dist(key) <= 30}, order)
        near == [k \in DOMAIN close |->
                    [key |-> close[k], why |-> "hnsw_proximity",
                     score |-> Percent(Percent(best, 40), 100 - dist(close[k]))]]
        added == imported \o (IF neighbours THEN near ELSE <<>>)
    IN hits \o (IF Len(added) > 30 THEN Take(ByScore(added), 30) ELSE added)

\* Rank against rank: every score is replaced.
Rescore(hits, ranking, weight) ==
    LET rank(key) == IF key \in ToSet(ranking) THEN PlaceIn(ranking, key) ELSE 1000
    IN ByScore([k \in DOMAIN hits |->
                   [hits[k] EXCEPT !.score =
                       (10000 * (100 - weight)) \div (60 + k)
                           + (10000 * weight) \div (60 + rank(hits[k].key))]])

\* The sparse leg: rows that it alone found come last, without a score, and all
\* are fused again.
Sparsed(s, query, hits, order, rows) ==
    LET ranking == Ranked(s, query.sparse)
        missing == Listed(Unfound(ToSet(ranking), hits), order)
        all == hits \o (IF rows THEN [k \in DOMAIN missing |->
                            [key |-> missing[k], why |-> "sparse", score |-> 0]] ELSE <<>>)
    IN IF ranking = <<>> THEN hits ELSE Rescore(all, ranking, 20)

\* The first three files of the hits.
TopFiles(hits) ==
    LET before(k) == HitFiles(Take(hits, k - 1))
    IN {hits[k].key.file : k \in {k \in DOMAIN hits : Cardinality(before(k)) < 3}}

CochangeNeighbours(s, files) == {c \in s.cochange : c[1] \in files}

\* apply_cochange_boost, with a boost of a tenth
Uplift(s, hits, f) ==
    LET ups == {c[3] * 1000 : c \in {c \in CochangeNeighbours(s, TopFiles(hits)) : c[2] = f}}
    IN IF ups = {} THEN 0 ELSE CHOOSE u \in ups : \A v \in ups : v <= u

CochangeBoost(s, hits) ==
    IF CochangeNeighbours(s, TopFiles(hits)) = {}
    THEN hits
    ELSE ByScore([k \in DOMAIN hits |->
                     [hits[k] EXCEPT !.score = @ + Uplift(s, hits, hits[k].key.file)]])

WantsGraph(s, r, hits) == r.graph /\ ~Pipeline(s).unified /\ hits # <<>>

\* The leg that comes next.
AfterSparse(s, hits) == IF Pipeline(s).cochange /\ hits # <<>> THEN "cochange" ELSE "keep"
AfterGraph(s, hits) ==
    IF Pipeline(s).sparse /\ hits # <<>> THEN "sparse" ELSE AfterSparse(s, hits)
AfterRetrieval(s, r, hits) ==
    IF WantsGraph(s, r, hits) THEN "graph" ELSE AfterGraph(s, hits)

---------------------------------------------------------------------------
(* The candidate cache                                                     *)

\* Mutant: a key without the graph.
CacheKeyPlain(r) == [query |-> r.query, topK |-> r.topK]

\* retrieval_cache_key: all that the candidates depend on; the settings of the
\* searcher do not change.
CacheKey(r) == [query |-> r.query, topK |-> r.topK, graph |-> r.graph]

Entry(r) == {k \in DOMAIN cache : cache[k].key = CacheKey(r)}

Without(k) == SubSeq(cache, 1, k - 1) \o SubSeq(cache, k + 1, Len(cache))

\* get: the entry becomes the most recently used one.
Touched(k) == Append(Without(k), cache[k])

\* put: it replaces the entry of the same key, or the least recently used one.
Stored(r, entry) ==
    LET others == IF Entry(r) = {} THEN cache ELSE Without(CHOOSE k \in Entry(r) : TRUE) IN
    Append(IF Len(others) = CacheSize THEN Tail(others) ELSE others, entry)

---------------------------------------------------------------------------
(* After the cache                                                         *)

\* mmr_score, in ten-thousandths
MmrScore(r, hits, i, selected) ==
    LET reds == {Alike[<<hits[i].key, hits[s].key>>] : s \in ToSet(selected)}
        redundancy == IF reds = {} THEN 0 ELSE CHOOSE x \in reds : \A y \in reds : y <= x
    IN (100 - r.diversity) * r.query.sim[hits[i].key] - r.diversity * redundancy

\* mmr_rerank: the best of the rest, the last one if several are.
MmrOrder(r, hits) ==
    LET next(selected) ==
            LET rest == DOMAIN hits \ ToSet(selected)
                score(i) == MmrScore(r, hits, i, selected)
            IN CHOOSE i \in rest : \A j \in rest :
                   score(i) > score(j) \/ (score(i) = score(j) /\ i >= j)
        order[n \in 0..Len(hits)] ==
            IF n = 0 THEN <<>> ELSE Append(order[n - 1], next(order[n - 1]))
    IN [k \in DOMAIN hits |-> hits[order[Len(hits)][k]]]

StrongSignal(hits) ==
    /\ hits[1].score >= 16000
    /\ Len(hits) > 1 => hits[1].score - hits[2].score >= 3000

\* The reranker is skipped when the first hit is far ahead. No hits are an answer.
AfterDiversity(hits) == IF Pipeline(searcher).rerank /\ ~StrongSignal(hits) THEN "rerank" ELSE "adjust"
AfterCache(r, hits) ==
    IF hits = <<>> THEN "answered"
    ELSE IF r.diversity > 0 /\ Len(hits) > 1 THEN "diversify" ELSE AfterDiversity(hits)

FusionWeight(place) == IF place <= 3 THEN 25 ELSE IF place <= 10 THEN 40 ELSE 60

\* The verdicts set the places, and the places the weights.
Blend(r, hits) ==
    LET judged == ByScore([k \in DOMAIN hits |->
                      [hit |-> hits[k], score |-> r.query.verdict[hits[k].key]]])
        blended(k) == Percent(judged[k].hit.score, FusionWeight(k))
                        + Percent(judged[k].score, 100 - FusionWeight(k))
    IN ByScore([k \in DOMAIN judged |-> [judged[k].hit EXCEPT !.score = blended(k)]])

InDirs(f, names) == \E k \in 1..Len(f.path) - 1 : f.path[k] \in names
FileName(f) == Last(f.path)

\* is_test_file, is_readme_or_meta, is_doc_file, is_docs_directory, is_barrel_file
TestDirs == {"tests", "test", "__tests__", "spec", "specs", "testing", "testutil", "test_utils",
             "testdata"}
IsTestFile(f) == InDirs(f, TestDirs) \/ FileName(f) = "test" \/ f \in project.testNamed
IsMeta(f) == FileName(f) = "readme" /\ f.ext = "md"
IsDocFile(f) == f.ext = "md"
IsDocsDirectory(f) == Head(f.path) = "docs" /\ Len(f.path) > 1
IsBarrelFile(f) == <<FileName(f), f.ext>> \in {<<"mod", "rs">>, <<"index", "ts">>, <<"__init__", "py">>}

\* The factor of the kind of file, unless the query asks about that kind.
Penalty(r, f) ==
    LET asks(subject) == subject \in r.query.about IN
    IF IsTestFile(f) THEN IF asks("testing") THEN 85 ELSE 15
    ELSE IF IsMeta(f) THEN IF asks("docs") THEN 70 ELSE 10
    ELSE IF IsDocFile(f) THEN IF asks("docs") THEN 70 ELSE IF IsDocsDirectory(f) THEN 5 ELSE 15
    ELSE IF IsBarrelFile(f) THEN IF asks("entry") THEN 100 ELSE 40
    ELSE 100

\* The roles of a file: one, or none.
RolesOf(f) == {roles[g] : g \in DOMAIN roles \cap {f}}

\* "dead" has a factor too, but no file is given that role (Roles).
RoleFactor(f) ==
    IF "core" \in RolesOf(f) THEN 110 ELSE IF "entry" \in RolesOf(f) THEN 105 ELSE 100

\* Penalties, then the roles if they can be read; `fused` is the score before.
Adjusted(r, hits, known) ==
    ByScore([k \in DOMAIN hits |->
        LET h == hits[k]
            f == h.key.file
        IN [key |-> h.key, why |-> h.why, fused |-> h.score,
            score |-> Percent(Percent(h.score, Penalty(r, f)),
                              IF known THEN RoleFactor(f) ELSE 100)]])

\* label_match_quality, relative to the best score
Labelled(hits) ==
    LET top == hits[1].score IN
    [k \in DOMAIN hits |->
        [key |-> hits[k].key, why |-> hits[k].why, fused |-> hits[k].fused,
         score |-> hits[k].score,
         label |-> IF 10 * hits[k].score >= 8 * top THEN "high"
                   ELSE IF 10 * hits[k].score >= 5 * top THEN "moderate" ELSE "low"]]

TokensUpTo(hits, n) ==
    FoldLeft(LAMBDA total, h : total + RowAt(h.key).chars \div 4, 0, Take(hits, n))

\* Hits until one does not fit; the first one always does.
WithinBudget(hits, budget) ==
    LET fits == {n \in 0..Len(hits) : n <= 1 \/ TokensUpTo(hits, n) <= budget}
    IN Take(hits, CHOOSE n \in fits : \A m \in fits : m <= n)

---------------------------------------------------------------------------
(* Searches                                                                *)

Idle == [pc |-> "idle", hits |-> <<>>, kept |-> <<>>, whole |-> TRUE]

\* A leg fails, if it may.
Fails(leg) == leg \in Faults /\ failures < MaxFailures /\ failures' = failures + 1
Works == UNCHANGED failures

\* The task goes on with these hits.
Goes(t, pc, hits) ==
    task' = [task EXCEPT ![t].pc = pc, ![t].hits = hits]

\* Goes on without a leg that failed.
GoesWithout(t, pc, hits) ==
    task' = [task EXCEPT ![t].pc = pc, ![t].hits = hits, ![t].whole = FALSE]

Init ==
    /\ \E p \in Projects, who \in Fronts, config \in Configs :
       \E edges \in EdgeSets(p) :
       \E g \in {AddEdges(NoGraph, Sorted(edges, {}))} :
          searcher = [project |-> p, chunks |-> Rows(p), graph |-> g, roles |-> Roles(g),
                      cochange |-> CochangePairs(p), front |-> who, config |-> config]
    /\ embedded = {} /\ cache = <<>>
    /\ task = [t \in Tasks |-> Idle]
    /\ searches = 0 /\ failures = 0

Quiet(t) == task[t].pc \in {"idle", "answered", "failed"}

\* A request: handle_search_code, run_search, or a case of run_eval.
Begins(t, r) ==
    /\ Quiet(t)
    /\ searches < MaxSearches
    /\ task' = [task EXCEPT ![t] = [pc |-> "embed", req |-> r, hits |-> <<>>,
                                    kept |-> <<>>, whole |-> TRUE]]
    /\ searches' = searches + 1
    /\ UNCHANGED <<searcher, embedded, cache, failures>>

\* The command line makes one search after the other; those of an MCP server come
\* from its tools (Tools).
Begin(t) ==
    /\ front # "mcp"
    /\ front = "cli" => \A u \in Tasks : Quiet(u)
    /\ \E r \in Requests : Begins(t, r)

\* The vector of the query, from query_embed_cache or from the provider, then
\* the lookup of the candidates.
Embed(t) ==
    /\ task[t].pc = "embed"
    /\ LET r == task[t].req IN
       \/ /\ Works
          /\ embedded' = embedded \cup {r.query}
          /\ IF Entry(r) = {}
             THEN Goes(t, "retrieve", <<>>) /\ UNCHANGED cache
             ELSE \E k \in Entry(r) :
                     /\ cache' = Touched(k)
                     /\ task' = [task EXCEPT ![t] =
                            [@ EXCEPT !.pc = AfterCache(r, cache[k].hits), !.hits = cache[k].hits,
                                      !.kept = cache[k].hits, !.whole = cache[k].whole]]
       \/ /\ r.query \notin embedded
          /\ Fails("embed")
          /\ Goes(t, "failed", <<>>)
          /\ UNCHANGED <<embedded, cache>>
    /\ UNCHANGED <<searcher, searches>>

Retrieve(t) ==
    /\ task[t].pc = "retrieve"
    /\ LET r == task[t].req IN
       \/ /\ Works
          /\ \E order \in Orders :
                LET hits == Retrieved(searcher, r, order)
                IN Goes(t, AfterRetrieval(searcher, r, hits), hits)
       \/ Fails("retrieve") /\ Goes(t, "failed", <<>>)
    /\ UNCHANGED <<searcher, embedded, cache, searches>>

\* The graph leg passes its errors on, except those of the rows that lie close.
ExtendByGraph(t) ==
    /\ task[t].pc = "graph"
    /\ \E order \in Orders :
          LET hits(neighbours) ==
                  Augment(searcher, task[t].req.query, task[t].hits, order, neighbours)
          IN
          \/ Works /\ Goes(t, AfterGraph(searcher, hits(TRUE)), hits(TRUE))
          \/ Fails("neighbours") /\ GoesWithout(t, AfterGraph(searcher, hits(FALSE)), hits(FALSE))
          \/ Fails("graph") /\ Goes(t, "failed", <<>>)
    /\ UNCHANGED <<searcher, embedded, cache, searches>>

\* The sparse leg is skipped when it fails.
ExtendBySparse(t) ==
    /\ task[t].pc = "sparse"
    /\ \E order \in Orders :
          LET hits(rows) == Sparsed(searcher, task[t].req.query, task[t].hits, order, rows) IN
          \/ Works /\ Goes(t, AfterSparse(searcher, hits(TRUE)), hits(TRUE))
          \/ Fails("rows") /\ GoesWithout(t, AfterSparse(searcher, hits(FALSE)), hits(FALSE))
          \/ Fails("sparse") /\ GoesWithout(t, AfterSparse(searcher, task[t].hits), task[t].hits)
    /\ UNCHANGED <<searcher, embedded, cache, searches>>

BoostCochange(t) ==
    /\ task[t].pc = "cochange"
    /\ \/ Works /\ Goes(t, "keep", CochangeBoost(searcher, task[t].hits))
       \/ Fails("cochange") /\ GoesWithout(t, "keep", task[t].hits)
    /\ UNCHANGED <<searcher, embedded, cache, searches>>

\* What was found is kept, also when a leg was skipped.
Keep(t) ==
    /\ task[t].pc = "keep"
    /\ LET r == task[t].req
           hits == task[t].hits
       IN /\ cache' = Stored(r, [key |-> CacheKey(r), hits |-> hits, whole |-> task[t].whole])
          /\ task' = [task EXCEPT ![t].pc = AfterCache(r, hits), ![t].kept = hits]
    /\ UNCHANGED <<searcher, embedded, counters>>

\* The vectors of the hits are read, and the hits put into the order of MMR.
Diversify(t) ==
    /\ task[t].pc = "diversify"
    /\ LET hits == MmrOrder(task[t].req, task[t].hits) IN
       \/ Works /\ Goes(t, AfterDiversity(hits), hits)
       \/ Fails("vectors") /\ Goes(t, "failed", <<>>)
    /\ UNCHANGED <<searcher, embedded, cache, searches>>

Rerank(t) ==
    /\ task[t].pc = "rerank"
    /\ \/ Works /\ Goes(t, "adjust", Blend(task[t].req, task[t].hits))
       \/ Fails("rerank") /\ Goes(t, "failed", <<>>)
    /\ UNCHANGED <<searcher, embedded, cache, searches>>

\* Penalties, roles, order, labels, budget.
Adjust(t) ==
    /\ task[t].pc = "adjust"
    /\ LET r == task[t].req
           next == IF r.branch THEN "scope" ELSE "answered"
           answer(known) == WithinBudget(Labelled(Adjusted(r, task[t].hits, known)), r.budget)
       IN \/ Works /\ Goes(t, next, answer(TRUE))
          \/ Fails("roles") /\ Goes(t, next, answer(FALSE))
    /\ UNCHANGED <<searcher, embedded, cache, searches>>

\* Hits of files that changed on the branch, or all of them if none did. When git
\* fails, the daemon answers with all hits and the command line with an error.
Scope(t) ==
    /\ task[t].pc = "scope"
    /\ LET hits == task[t].hits
           scoped == Only(hits, {h \in ToSet(hits) : h.key.file \in Branch})
       IN \/ Works /\ Goes(t, "answered", IF Branch = {} THEN hits ELSE scoped)
          \/ /\ Fails("branch")
             /\ IF front = "daemon" THEN Goes(t, "answered", hits) ELSE Goes(t, "failed", <<>>)
    /\ UNCHANGED <<searcher, embedded, cache, searches>>

Step(t) ==
    \/ Embed(t) \/ Retrieve(t) \/ ExtendByGraph(t) \/ ExtendBySparse(t)
    \/ BoostCochange(t) \/ Keep(t) \/ Diversify(t) \/ Rerank(t) \/ Adjust(t) \/ Scope(t)

Next == \E t \in Tasks : Begin(t) \/ Step(t)

Spec == Init /\ [][Next]_vars

---------------------------------------------------------------------------
(* Properties                                                              *)

Hit == [key : Keys(searcher), why : {"fts", "vector", "hybrid", "graph", "hnsw_proximity", "sparse"},
        score : Int]
Answered == [key : Keys(searcher), why : {"fts", "vector", "hybrid", "graph", "hnsw_proximity", "sparse"},
             score : Int, fused : Int, label : {"high", "moderate", "low"}]

\* The cache keeps within its size, with one entry for a key.
CacheOK ==
    /\ Len(cache) <= CacheSize
    /\ \A k, l \in DOMAIN cache : cache[k].key = cache[l].key => k = l

\* Types; and no row is among the hits of a search twice, whichever legs found it.
TypeOK ==
    /\ Edges \subseteq Files \X Files
    /\ embedded \subseteq Queries
    /\ CacheOK
    /\ \A t \in Tasks :
          /\ task[t].pc \in {"idle", "embed", "retrieve", "graph", "sparse", "cochange", "keep",
                             "diversify", "rerank", "adjust", "scope", "answered", "failed"}
          /\ \A k \in DOMAIN task[t].hits :
                task[t].hits[k] \in IF task[t].pc \in {"scope", "answered"} THEN Answered ELSE Hit
          /\ Cardinality(HitKeys(task[t].hits)) = Len(task[t].hits)

\* What a search may have found, leg after leg, when none fails, whatever the order
\* of hash maps.
GraphLeg(s, r, hits, o) ==
    IF WantsGraph(s, r, hits) THEN Augment(s, r.query, hits, o, TRUE) ELSE hits
SparseLeg(s, r, hits, o) ==
    IF AfterGraph(s, hits) = "sparse" THEN Sparsed(s, r.query, hits, o, TRUE) ELSE hits
CochangeLeg(s, hits) ==
    IF AfterSparse(s, hits) = "cochange" THEN CochangeBoost(s, hits) ELSE hits

RetrievedBy(s, r) == {Retrieved(s, r, o) : o \in Orders}
ExtendedBy(s, r) == {GraphLeg(s, r, hits, o) : hits \in RetrievedBy(s, r), o \in Orders}
SparsedBy(s, r) == {SparseLeg(s, r, hits, o) : hits \in ExtendedBy(s, r), o \in Orders}
Candidates(s, r) == {CochangeLeg(s, hits) : hits \in SparsedBy(s, r)}

\* Candidates from the cache are those that the search would have found itself,
\* whatever searches ran in between, beside it, and with other settings; unless
\* a leg was skipped when they were kept.
CachedAreOwn ==
    \A t \in Tasks :
        task[t].pc \in {"diversify", "rerank", "adjust", "scope"} /\ task[t].whole =>
            task[t].kept \in Candidates(searcher, task[t].req)

\* Every edge of imports leads to the file that the import names in its language, or,
\* where the resolvers take the import for another one, to the file of that one.
EdgesAreImports ==
    \A e \in Edges :
        \E i \in project.imports[e[1]] :
            IF Misread(project, e[1], i)
            THEN Leads(project, e[1], i, e[2])
            ELSE Names(project, e[1], i, e[2])

NamedEdges(ext) ==
    \A e \in Edges :
        e[1].ext = ext => \E i \in project.imports[e[1]] : Names(project, e[1], i, e[2])

\* Not so: what is left of a `use` declaration is "the bare module/path token"
\* (resolve/mod.rs:4-5), and an edge leads to the module of that path. A renamed
\* import leads to the module around the one that it names.
RustEdgesAreNamed == NamedEdges("rs")

\* Not so: without the module path, an import of Go is "a project-relative directory"
\* (resolve/go.rs:7-8). In a module below the root it is relative to that of its go.mod.
GoEdgesAreNamed == NamedEdges("go")

\* Not so: a search that asks for diversity answers in the order of MMR, where
\* no reranker, kind or role of a file sets another order
\* (README.md:67, docs/integrations.md:263). The last sort goes by the scores of
\* retrieval, which MMR leaves as they are.
DiverseAnswer ==
    \A t \in Tasks :
        task[t].pc = "answered" /\ task[t].hits # <<>> /\ task[t].req.diversity > 0
          /\ ~Pipeline(searcher).rerank /\ Len(task[t].kept) > 1 =>
            LET r == task[t].req
                hits == task[t].hits
                mmr == MmrOrder(r, task[t].kept)
                place(h) == CHOOSE k \in DOMAIN mmr : mmr[k].key = h.key
                factor(h) == Penalty(r, h.key.file) * RoleFactor(h.key.file)
            IN \A i, j \in DOMAIN hits :
                  i < j /\ factor(hits[i]) <= factor(hits[j]) => place(hits[i]) < place(hits[j])

Penalised(f) == IsTestFile(f) \/ IsMeta(f) \/ IsDocFile(f)

\* Not so: a penalty only lowers. A hit of a penalised kind does not end above a
\* hit of no such kind, of a role at least as good, that it was not above before
\* (searcher.rs:1052-1056). A local reranker gives scores that may be negative,
\* and a fraction of a negative score is more.
PenaltyDemotes ==
    \A t \in Tasks : task[t].pc \in {"scope", "answered"} =>
        LET hits == task[t].hits
        IN \A i, j \in DOMAIN hits :
              LET f == hits[i].key.file
                  g == hits[j].key.file
              IN /\ Penalised(f) /\ ~Penalised(g) /\ ~IsBarrelFile(g)
                 /\ RoleFactor(f) <= RoleFactor(g)
                 /\ hits[i].fused < hits[j].fused
                 => j < i
=============================================================================
