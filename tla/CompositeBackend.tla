--------------------------- MODULE CompositeBackend ---------------------------
(***************************************************************************)
(* The stores behind an index (crates/core/src/backend/composite.rs): the  *)
(* LanceDB tables, the documents of the full-text index, the graph of      *)
(* imports in memory, and the postings of the sparse index in memory.      *)
(* Every operation writes a table first and then a copy of it, and nothing *)
(* spans the two: it fails or the process ends between them. The           *)
(* operations come from the passes of the indexer (index_path), in its     *)
(* order, in batches of one file (a bound). Of the manifest there is what  *)
(* decides which files a pass takes: the batches that were not completed   *)
(* and the files that it records (IndexRun has the rest of it).            *)
(*                                                                         *)
(* Files are numbers, in the order of their paths. A row stands for a      *)
(* chunk, a document or a sparse token: the token of a chunk is its text.  *)
(* Vectors and the tables of symbols, files and calls, which have no copy, *)
(* are left out, and so is the delay until searches see a commit.          *)
(***************************************************************************)
EXTENDS ImportGraph

CONSTANTS
    Files,      \* files, numbered in the order of their paths
    Changing,   \* those of them that are edited
    Contents,   \* what a file may hold: texts of its chunks, files it imports
    Blank,      \* a text of which normalization leaves nothing
    Gone,       \* the content of a file that is not there
    Skipped,    \* the content of a file that is binary or cannot be parsed
    MaxPasses,  \* bound: passes of the indexer
    Faults      \* a subset of FaultKinds

\* The process is killed; a call fails, or a table cannot be opened; chunks of equal
\* text are removed; the provider of embeddings is replaced by another; files import
\* themselves (`use crate::a` in a.rs).
FaultKinds == {"crash", "fail", "dedup", "provider", "self"}

ASSUME BackendAssumption ==
    /\ Files \subseteq Nat /\ IsFiniteSet(Files) /\ Changing \subseteq Files
    /\ \A c \in Contents : c.texts \in Seq(ToSet(c.texts)) /\ c.imports \subseteq Files
    /\ Gone \notin Contents /\ Skipped \notin Contents /\ Gone # Skipped
    /\ MaxPasses \in Nat
    /\ Faults \subseteq FaultKinds

VARIABLES
    chunks,     \* table chunks: rows [file, idx, text, tier]
    docs,       \* committed documents of the full-text index
    edges,      \* table code_edges
    sparse,     \* table sparse_index
    ranks,      \* tables pagerank_scores and symbol_roles: files with their roles
    pending,    \* manifest, index_progress: files of batches that are not complete
    hashed,     \* manifest, file_hashes: the files with an entry
    matched,    \* those of them whose entry is of the file as it is
    open,       \* a process has the backend open
    ready,      \* initialize has run in it
    graph,      \* edge_graph
    postings,   \* sparse_idx: how often a row is posted
    loaded,     \* sparse_idx.loaded
    unopened,   \* auxiliary: the tables of which the copy may not be whole, as the
                \* process could not open them and went on
    todo,       \* candidates of the pass that it has not come to
    incomplete, \* files of the batches of earlier passes that it is to retire
    call,       \* the call that the pass makes, and its file: "next" between files,
                \* "end" where there is no pass
    half,       \* the half of it that comes next
    want,       \* contents of the files as the walk found them
    task,       \* step of the ranking that a pass leaves behind
    scored,     \* the graph's roles that the ranking computed
    passes      \* passes begun

manifest == <<pending, hashed, matched>>
tables == <<chunks, docs, edges, sparse, ranks, manifest>>
memory == <<open, ready, graph, postings, loaded, unopened>>
pass == <<todo, incomplete, call, half, want, passes>>
ranking == <<task, scored>>
vars == <<tables, memory, pass, ranking>>

Found == Contents \cup {Gone, Skipped}
Texts == UNION {ToSet(c.texts) : c \in Contents}
Row == [file : Files, idx : Nat, text : Texts, tier : {1, 2}]
Ops == {"unchunk", "unlink", "unsparse", "chunk", "store", "link", "record", "complete",
        "forget", "chunk1", "untier1"}
NoPostings == [r \in {} |-> 0]
NoRoles == [f \in {} |-> "leaf"]
NoCall == [op |-> "end"]
NextFile == [op |-> "next"]

OfFile(rows, f) == {r \in rows : r.file = f}
Key(r) == <<r.file, r.idx>>

RowsOf(f, c, tier) ==
    {[file |-> f, idx |-> i - 1, text |-> c.texts[i], tier |-> tier] : i \in DOMAIN c.texts}

TypeOK ==
    /\ chunks \subseteq Row /\ docs \subseteq Row /\ sparse \subseteq Row
    /\ edges \subseteq Files \X Files
    /\ pending \subseteq Files /\ matched \subseteq hashed /\ hashed \subseteq Files
    /\ open \in BOOLEAN /\ ready \in BOOLEAN /\ loaded \in BOOLEAN
    /\ graph.nodes \subseteq Files
    /\ EdgesOf(graph) \subseteq graph.nodes \X graph.nodes
    /\ EdgesOf(graph) = ToSet(graph.age) /\ Len(graph.slots) = Len(graph.age)
    /\ DOMAIN postings \subseteq Row
    /\ unopened \subseteq {"code_edges", "sparse_index"}
    /\ todo \subseteq Files /\ incomplete \subseteq pending
    /\ call.op \in Ops \cup {"next", "end"}
    /\ call.op \in Ops => call.file \in Files
    /\ half \in {1, 2}
    /\ want \in [Files -> Found]
    /\ task \in {"none", "rank", "rankAdd", "role", "roleAdd"}
    /\ passes \in 0..MaxPasses

Init ==
    /\ chunks = {} /\ docs = {} /\ edges = {} /\ sparse = {}
    /\ ranks = [scores |-> {}, roles |-> NoRoles]
    /\ pending = {} /\ hashed = {} /\ matched = {}
    /\ open = FALSE /\ ready = FALSE
    /\ graph = NoGraph /\ postings = NoPostings /\ loaded = FALSE /\ unopened = {}
    /\ todo = {} /\ incomplete = {} /\ call = NoCall /\ half = 1
    /\ want = [f \in Files |-> Gone] /\ passes = 0
    /\ task = "none" /\ scored = NoRoles

-----------------------------------------------------------------------------
(* Opening, and the end of the process                                      *)

\* CompositeBackend::open
Open ==
    /\ ~open
    /\ open' = TRUE /\ ready' = FALSE
    /\ graph' = NoGraph
    /\ postings' = NoPostings /\ loaded' = FALSE /\ unopened' = {}
    /\ UNCHANGED <<tables, pass, ranking>>

\* Orders in which the table may give its rows (bound: one order and its
\* reverse, so that any edge may be the last).
Scans(rows) == {SetToSeq(rows), Reverse(SetToSeq(rows))}

Idle == call.op = "end"

\* initialize creates what is missing and reads the edges into a new graph
\* (reload_edge_graph).
Reload(es) == AddEdges(NoGraph, es)

Initialize ==
    /\ open /\ Idle
    /\ ready' = TRUE
    /\ \E es \in Scans(edges) : graph' = Reload(es)
    /\ unopened' = unopened \ {"code_edges"}
    /\ UNCHANGED <<tables, open, postings, loaded, pass, ranking>>

\* Where the table of edges cannot be opened, the graph stays as it is (empty, where it
\* was not read before), and nobody is told.
InitializeBlind ==
    /\ "fail" \in Faults
    /\ open /\ Idle
    /\ ready' = TRUE
    /\ unopened' = unopened \cup (IF ready THEN {} ELSE {"code_edges"})
    /\ UNCHANGED <<tables, open, graph, postings, loaded, pass, ranking>>

EndPass == todo' = {} /\ incomplete' = {} /\ call' = NoCall /\ half' = 1

\* What is not committed is lost; the tasks of the process end with it.
Exit ==
    /\ open' = FALSE /\ ready' = FALSE
    /\ graph' = NoGraph /\ postings' = NoPostings /\ loaded' = FALSE /\ unopened' = {}
    /\ EndPass
    /\ task' = "none" /\ scored' = NoRoles
    /\ UNCHANGED <<tables, want, passes>>

\* A command that is done ends, whatever is left of its ranking.
Close == open /\ Idle /\ Exit

Crash == open /\ ~Idle /\ "crash" \in Faults /\ Exit

-----------------------------------------------------------------------------
(* A pass: index_path on the files that changed, in batches of one          *)

Call(op, f) == [op |-> op, file |-> f]

This == call.file

\* The calls on a file, in order: what it had is deleted, what it has is written, the
\* manifest comes last. Calls with nothing to write return at once.
After(op, c) ==
    CASE op = "unchunk"  -> Call("unlink", This)
      [] op = "unlink"   -> Call("unsparse", This)
      [] op = "unsparse" -> Call(IF c = Gone THEN "forget"
                                 ELSE IF c.texts = <<>> THEN "link" ELSE "chunk", This)
      [] op = "chunk"    -> Call("store", This)
      [] op = "store"    -> Call("link", This)
      [] op = "link"     -> Call("record", This)
      [] op = "record"   -> Call("complete", This)
      [] op \in {"complete", "forget"} -> NextFile
      [] OTHER           -> NoCall

\* The walk. Files that were edited have another stamp than their entry. Those with
\* another stamp are candidates, and those of batches that were not completed. With
\* another provider the manifest forgets all files first (clear_file_hashes).
BeginPass ==
    /\ open /\ ready /\ Idle /\ task = "none"
    /\ passes < MaxPasses
    /\ \E edited \in SUBSET Changing, another \in {"provider" \in Faults, FALSE} :
          /\ want' \in [Files -> Found]
          /\ \A f \in Files \ edited : want'[f] = want[f]
          /\ hashed' = IF another THEN {} ELSE hashed
          /\ matched' = IF another THEN {} ELSE matched \ edited
    /\ todo' = {f \in Files : want'[f] # Gone /\ (f \in pending \/ f \notin matched')}
    /\ incomplete' = pending
    /\ call' = NextFile /\ half' = 1
    /\ passes' = passes + 1
    /\ UNCHANGED <<chunks, docs, edges, sparse, ranks, pending, memory, ranking>>

BetweenFiles == call = NextFile

\* begin_batch with the first candidate. A file whose entry matches, as far as an
\* earlier pass came with it, is left as it is, and so is one that is binary or
\* cannot be parsed, whatever is left of it.
TakeBatch ==
    /\ BetweenFiles
    /\ \E f \in todo :
          /\ \A g \in todo : f <= g
          /\ todo' = todo \ {f}
          /\ pending' = pending \cup {f}
          /\ call' = Call(IF f \in matched \/ want[f] = Skipped THEN "complete" ELSE "unchunk", f)
    /\ UNCHANGED <<chunks, docs, edges, sparse, ranks, hashed, matched, memory, incomplete,
                   half, want, passes, ranking>>

\* After the last batch: delete_batch of the batches of earlier passes.
RetireBatch ==
    /\ BetweenFiles /\ todo = {}
    /\ \E f \in incomplete :
          /\ incomplete' = incomplete \ {f}
          /\ pending' = pending \ {f}
    /\ UNCHANGED <<chunks, docs, edges, sparse, ranks, hashed, matched, memory, todo, call,
                   half, want, passes, ranking>>

\* stale_paths_against: files of the manifest that the walk did not find
Stale == {f \in hashed : want[f] = Gone}

Reconcile ==
    /\ BetweenFiles /\ todo = {} /\ incomplete = {}
    /\ \E f \in Stale :
          /\ \A g \in Stale : f <= g
          /\ call' = Call("unchunk", f)
    /\ UNCHANGED <<tables, memory, todo, incomplete, half, want, passes, ranking>>

\* The ranking starts.
CompletePass ==
    /\ BetweenFiles /\ todo = {} /\ incomplete = {} /\ Stale = {}
    /\ call' = NoCall
    /\ task' = "rank"
    /\ UNCHANGED <<tables, memory, todo, incomplete, half, want, passes, scored>>

\* index_tier1 on one file ahead of a pass; afterwards, as its comment asks,
\* delete_tier1_chunks_for_file on the files that the pass has written.
BeginTier1 ==
    /\ open /\ ready /\ Idle
    /\ \E f \in Changing, c \in Contents :
          /\ c.texts # <<>>
          /\ want' = [want EXCEPT ![f] = c]
          /\ matched' = matched \ {f}
          /\ call' = Call("chunk1", f)
    /\ UNCHANGED <<chunks, docs, edges, sparse, ranks, pending, hashed, memory, todo,
                   incomplete, half, passes, ranking>>

EndTier1 ==
    /\ open /\ ready /\ Idle
    /\ \E f \in matched : call' = Call("untier1", f)
    /\ UNCHANGED <<tables, memory, todo, incomplete, half, want, passes, ranking>>

Next1(ops) == half = 1 /\ call.op \in ops
Next2(ops) == half = 2 /\ call.op \in ops

Half == half' = 2 /\ UNCHANGED <<todo, incomplete, call, want, passes, manifest>>

\* The next call on the file, or the next file.
Done ==
    /\ half' = 1
    /\ call' = After(call.op, want[This])
    /\ UNCHANGED <<todo, incomplete, want, passes, ranking>>

\* merge_insert on (file_path, chunk_idx)
Merged(rows, new) == {r \in rows : \A n \in new : Key(n) # Key(r)} \cup new

NewRows ==
    RowsOf(This, want[This], IF call.op = "chunk1" THEN 1 ELSE 2)

\* upsert_chunks: the table, then the documents of the files it touches
UpsertChunksTable ==
    /\ Next1({"chunk", "chunk1"})
    /\ chunks' = Merged(chunks, NewRows)
    /\ Half
    /\ UNCHANGED <<docs, edges, sparse, ranks, memory, ranking>>

Documents(rows) == {r \in rows : r.text # Blank}

\* Mutant: the term finds nothing, as in a field that is not indexed.
RetractNone(f) == docs

\* delete_term on file_path: the documents of a file go.
Retract(f) == docs \ OfFile(docs, f)

\* Mutant: the documents of the file are deleted after the new ones are added.
UpsertChunksDocsSwapped ==
    /\ Next2({"chunk", "chunk1"})
    /\ docs' = (docs \cup Documents(NewRows)) \ OfFile(docs \cup NewRows, This)
    /\ Done
    /\ UNCHANGED <<chunks, edges, sparse, ranks, manifest, memory>>

UpsertChunksDocs ==
    /\ Next2({"chunk", "chunk1"})
    /\ docs' = Retract(This) \cup Documents(NewRows)
    /\ Done
    /\ UNCHANGED <<chunks, edges, sparse, ranks, manifest, memory>>

\* delete_chunks_for_file, and delete_tier1_chunks_for_file, which removes the
\* rows of tier 1 and the documents of every tier
DeleteChunksTable ==
    /\ Next1({"unchunk", "untier1"})
    /\ chunks' = chunks \ {r \in OfFile(chunks, This) :
                              call.op = "unchunk" \/ r.tier = 1}
    /\ Half
    /\ UNCHANGED <<docs, edges, sparse, ranks, memory, ranking>>

DeleteChunksDocs ==
    /\ Next2({"unchunk", "untier1"})
    /\ docs' = Retract(This)
    /\ Done
    /\ UNCHANGED <<chunks, edges, sparse, ranks, manifest, memory>>

\* upsert_edges
ImportsOf(f) == {f} \X (want[f].imports \ (IF "self" \in Faults THEN {} ELSE {f}))

UpsertEdgesTable ==
    /\ Next1({"link"})
    /\ edges' = edges \cup ImportsOf(This)
    /\ Half
    /\ UNCHANGED <<chunks, docs, sparse, ranks, memory, ranking>>

UpsertEdgesGraph ==
    /\ Next2({"link"})
    /\ graph' = AddEdges(graph, SetToSeq(ImportsOf(This)))
    /\ Done
    /\ UNCHANGED <<tables, open, ready, postings, loaded, unopened>>

\* delete_edges_for_file
DeleteEdgesTable ==
    /\ Next1({"unlink"})
    /\ edges' = {e \in edges : This \notin {e[1], e[2]}}
    /\ Half
    /\ UNCHANGED <<chunks, docs, sparse, ranks, memory, ranking>>

DeleteEdgesGraph ==
    /\ Next2({"unlink"})
    /\ graph' = RemoveEdgesForFile(graph, This)
    /\ Done
    /\ UNCHANGED <<tables, open, ready, postings, loaded, unopened>>

\* store_sparse_vectors for the chunks of a file: rows, then postings, which
\* are pushed whether or not the index has been loaded
Post(ps, rows) ==
    [r \in DOMAIN ps \cup rows |->
        (IF r \in DOMAIN ps THEN ps[r] ELSE 0) + (IF r \in rows THEN 1 ELSE 0)]

StoreSparseTable ==
    /\ Next1({"store"})
    /\ sparse' = sparse \cup NewRows
    /\ Half
    /\ UNCHANGED <<chunks, docs, edges, ranks, memory, ranking>>

StoreSparsePostings ==
    /\ Next2({"store"})
    /\ postings' = Post(postings, NewRows)
    /\ Done
    /\ UNCHANGED <<tables, open, ready, graph, loaded, unopened>>

\* A call of store_sparse_vectors that fails is logged, and the pass goes on.
StoreSparseFails ==
    /\ "fail" \in Faults
    /\ Next1({"store"})
    /\ Done
    /\ UNCHANGED <<tables, memory>>

\* delete_sparse_for_file
DeleteSparseTable ==
    /\ Next1({"unsparse"})
    /\ sparse' = sparse \ OfFile(sparse, This)
    /\ Half
    /\ UNCHANGED <<chunks, docs, edges, ranks, memory, ranking>>

\* Mutant: the postings of a file are kept.
WithoutNone(ps, f) == ps

Without(ps, f) == [r \in {q \in DOMAIN ps : q.file # f} |-> ps[r]]

DeleteSparsePostings ==
    /\ Next2({"unsparse"})
    /\ postings' = Without(postings, This)
    /\ Done
    /\ UNCHANGED <<tables, open, ready, graph, loaded, unopened>>

\* Where the table cannot be opened, the postings go alone, and the pass goes on.
DeleteSparseBlind ==
    /\ "fail" \in Faults
    /\ Next1({"unsparse"})
    /\ unopened' = unopened \cup {"sparse_index"}
    /\ Half
    /\ UNCHANGED <<chunks, docs, edges, sparse, ranks, open, ready, graph, postings, loaded,
                   ranking>>

\* upsert: the file has an entry of what it is.
RecordFile ==
    /\ Next1({"record"})
    /\ hashed' = hashed \cup {This} /\ matched' = matched \cup {This}
    /\ Done
    /\ UNCHANGED <<chunks, docs, edges, sparse, ranks, pending, memory>>

\* complete_batch, of the batch of this pass alone
CompleteBatch ==
    /\ Next1({"complete"})
    /\ pending' = pending \ ({This} \ incomplete)
    /\ Done
    /\ UNCHANGED <<chunks, docs, edges, sparse, ranks, hashed, matched, memory>>

\* remove
ForgetFile ==
    /\ Next1({"forget"})
    /\ hashed' = hashed \ {This} /\ matched' = matched \ {This}
    /\ Done
    /\ UNCHANGED <<chunks, docs, edges, sparse, ranks, pending, memory>>

\* A table or a manifest that cannot be written, a file that cannot be read, or a
\* commit of the full-text index that fails ends the pass; the process and its
\* memory live on.
CallFails ==
    /\ "fail" \in Faults
    /\ \/ Next1((Ops \ {"store"}) \cup {"next"})
       \/ Next2({"chunk", "chunk1", "unchunk", "untier1"})
    /\ EndPass
    /\ UNCHANGED <<tables, memory, want, passes, ranking>>

-----------------------------------------------------------------------------
(* Beside the passes                                                        *)

\* sparse_search reads the table once, into the postings that there are.
SparseSearch ==
    /\ open /\ ~loaded
    /\ postings' = Post(postings, sparse)
    /\ loaded' = TRUE
    /\ UNCHANGED <<tables, open, ready, graph, unopened, pass, ranking>>

\* A table that it cannot open counts as read.
SparseSearchBlind ==
    /\ "fail" \in Faults
    /\ open /\ ~loaded
    /\ loaded' = TRUE
    /\ unopened' = unopened \cup {"sparse_index"}
    /\ UNCHANGED <<tables, open, ready, graph, postings, pass, ranking>>

\* deduplicate_chunks: of the rows of equal text in several files, all but the
\* first go, from the table alone.
Before(r, s) == r.file < s.file \/ (r.file = s.file /\ r.idx < s.idx)

Duplicate(r) ==
    LET bucket == {s \in chunks : s.text = r.text} IN
    /\ \E s \in bucket : s.file # r.file
    /\ \E s \in bucket : Before(s, r)

Deduplicate ==
    /\ "dedup" \in Faults
    /\ open /\ Idle
    /\ \E r \in chunks : Duplicate(r)
    /\ chunks' = {r \in chunks : ~Duplicate(r)}
    /\ UNCHANGED <<docs, edges, sparse, ranks, manifest, memory, pass, ranking>>

\* compute_pagerank: the old rows go before the new ones come. A graph without
\* nodes leaves the table as it is.
RankBegins ==
    /\ task = "rank"
    /\ IF graph.nodes = {}
       THEN task' = "role" /\ UNCHANGED <<ranks, scored>>
       ELSE /\ scored' = Roles(graph)
            /\ ranks' = [ranks EXCEPT !.scores = {}]
            /\ task' = "rankAdd"
    /\ UNCHANGED <<chunks, docs, edges, sparse, manifest, memory, pass>>

RankEnds ==
    /\ task = "rankAdd"
    /\ ranks' = [ranks EXCEPT !.scores = DOMAIN scored]
    /\ task' = "role"
    /\ scored' = NoRoles
    /\ UNCHANGED <<chunks, docs, edges, sparse, manifest, memory, pass>>

\* compute_symbol_roles, in the same two steps
RoleBegins ==
    /\ task = "role"
    /\ IF graph.nodes = {}
       THEN task' = "none" /\ UNCHANGED <<ranks, scored>>
       ELSE /\ scored' = Roles(graph)
            /\ ranks' = [ranks EXCEPT !.roles = NoRoles]
            /\ task' = "roleAdd"
    /\ UNCHANGED <<chunks, docs, edges, sparse, manifest, memory, pass>>

RoleEnds ==
    /\ task = "roleAdd"
    /\ ranks' = [ranks EXCEPT !.roles = scored]
    /\ task' = "none"
    /\ scored' = NoRoles
    /\ UNCHANGED <<chunks, docs, edges, sparse, manifest, memory, pass>>

Next ==
    \/ Open \/ Initialize \/ InitializeBlind \/ Close \/ Crash
    \/ BeginPass \/ TakeBatch \/ RetireBatch \/ Reconcile \/ CompletePass \/ CallFails
    \/ UpsertChunksTable \/ UpsertChunksDocs
    \/ DeleteChunksTable \/ DeleteChunksDocs
    \/ UpsertEdgesTable \/ UpsertEdgesGraph
    \/ DeleteEdgesTable \/ DeleteEdgesGraph
    \/ StoreSparseTable \/ StoreSparsePostings \/ StoreSparseFails
    \/ DeleteSparseTable \/ DeleteSparseBlind \/ DeleteSparsePostings
    \/ RecordFile \/ CompleteBatch \/ ForgetFile
    \/ SparseSearch \/ SparseSearchBlind \/ Deduplicate
    \/ RankBegins \/ RankEnds \/ RoleBegins \/ RoleEnds

Spec == Init /\ [][Next]_vars

\* index_tier1 and delete_tier1_chunks_for_file are public, and no command of
\* the repository calls them.
SpecTier1 == Init /\ [][Next \/ BeginTier1 \/ EndTier1]_vars

-----------------------------------------------------------------------------
(* Properties                                                               *)

\* A file that the next pass would take as unchanged (its manifest entry is of the file
\* as it is) is found by text: each row of it in the table chunks has its document, of
\* the same text. Rows, documents and entry are written one after the other
\* (upsert_chunks, delete_chunks_for_file, upsert), and a pass may end between any two.
RecordedIsFindable ==
    \A r \in chunks : r.file \in matched /\ r.text # Blank => r \in docs

\* A search by text shows no chunk that does not match: a document whose chunk is there
\* has the text of it, at every moment of a pass and whatever earlier passes left (a
\* chunk that was removed as a duplicate leaves its document).
FoundIsRecorded ==
    \A d \in docs, r \in chunks : Key(r) = Key(d) => r = d

\* Traversals, ranks and roles miss no import that is stored: between calls the
\* graph has every row of code_edges, although remove_edges_for_file removes by
\* ids that move as it goes. Initialize passes over a table that it cannot open.
NoEdgeLost ==
    ready /\ half = 1 /\ "code_edges" \notin unopened => edges \subseteq EdgesOf(graph)

\* Between calls the sparse index in memory has no row that the table has not,
\* whatever failed in between; and once it is read it has all of them, unless a read
\* or a deletion passed over a table that it could not open.
PostedIsStored ==
    open /\ half = 1 =>
        /\ DOMAIN postings \subseteq sparse
        /\ loaded /\ "sparse_index" \notin unopened => sparse \subseteq DOMAIN postings

\* The graph is "kept in sync by upsert_edges / delete_edges_for_file" (graph.rs).
GraphInSync == ready /\ half = 1 => EdgesOf(graph) = edges

\* The graph is "loaded from LanceDB code_edges table at CompositeBackend::open
\* time" (graph.rs).
LoadedAtOpen == open /\ half = 1 => edges \subseteq EdgesOf(graph)

\* Tier 1 chunks are replaced by a pass, and delete_tier1_chunks_for_file, called
\* after it as the comment of index_tier1 asks, leaves the rows of tier 2 to be
\* found (indexer.rs:227-229).
SecondTierStays ==
    Idle =>
        \A r \in chunks : r.tier = 2 /\ r.file \in matched /\ r.text # Blank => r \in docs

\* The score of a chunk is the dot product of the query and its sparse vector
\* (schema.rs, sparse_search): no row counts twice.
PostedOnce == \A r \in DOMAIN postings : postings[r] = 1

\* When the batches of a pass that was cut short are retired, "the reindexed files are
\* committed" (indexer.rs:1002-1004): no rows without documents are left of a file that
\* no batch names.
RetiredIsWritten ==
    Idle => \A r \in chunks : r.file \notin pending /\ r.text # Blank => r \in docs

\* A search is a "dot-product search over the sparse index" (schema.rs, sparse_search),
\* over all the rows of it.
SparseIsRead == open /\ loaded /\ half = 1 => sparse \subseteq DOMAIN postings

\* delete_sparse_for_file is to "remove all sparse index entries for the given file"
\* (schema.rs): a pass goes on from it when none is left.
EntriesRemoved == call.op \in {"chunk", "forget"} /\ half = 1 => OfFile(sparse, This) = {}
=============================================================================
