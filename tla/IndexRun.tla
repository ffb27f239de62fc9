------------------------------- MODULE IndexRun -------------------------------
(***************************************************************************)
(* One index and the runs that bring it up to date: Indexer::index_path    *)
(* (crates/core/src/indexer.rs) with the SQLite manifest (manifest.rs),    *)
(* the tables of the composite backend (backend/composite.rs) and the      *)
(* garbage collector (gc.rs), while files are edited and the indexer may   *)
(* stop at any step. Whoever opens the backend holds the writer lock of    *)
(* its full-text index until it is gone: runs, garbage collections,        *)
(* searches and a deduplication exclude each other, and an attempt to open *)
(* it meanwhile fails and changes nothing.                                 *)
(*                                                                         *)
(* A file on disk is its (mtime, size) stamp and its content. A row of the *)
(* backend stands for all rows that one file has in one table: what        *)
(* content and which provider's run they come from.                        *)
(***************************************************************************)
EXTENDS Naturals, FiniteSets

CONSTANTS
    File,           \* project-relative paths
    PathOrder,      \* the place of each path in their sorting order
    Content,        \* contents of files
    Unparsable,     \* contents skipped as binary, or that the chunker rejects
    Imports,        \* the files that a content imports
    Provider,       \* embedding providers
    DimOf,          \* dimension of the vectors of a provider
    BatchSize,      \* FILE_BATCH_SIZE
    Events,         \* what happens around the runs, a subset of EventKinds
    MaxStamp,       \* bound: stamps given to files
    MaxRuns,        \* bound: runs of the indexer
    None            \* absent

EventKinds == {"modify", "create", "delete", "crash", "gc", "search", "dedup"}

ASSUME IndexAssumption ==
    /\ Unparsable \subseteq Content
    /\ PathOrder \in [File -> Nat]
    /\ \A f, g \in File : PathOrder[f] = PathOrder[g] => f = g
    /\ Imports \in [Content -> SUBSET File]
    /\ DimOf \in [Provider -> Nat \ {0}]
    /\ BatchSize \in Nat \ {0}
    /\ Events \subseteq EventKinds
    /\ MaxStamp \in Nat \ {0}
    /\ MaxRuns \in Nat
    /\ None \notin Provider \cup Content \cup File
    /\ \A files \in SUBSET File : files # None
    /\ None \notin [stamp : 1..MaxStamp, content : Content]
    /\ None \notin [content : Content, by : Provider]

VARIABLES
    disk,       \* the files: stamp and content, or None
    clock,      \* stamps given so far
    hashes,     \* manifest, file_hashes: stamp and content hash, or None
    provMeta,   \* manifest, metadata: provider
    dimMeta,    \* manifest, metadata: dim, 0 when absent
    cache,      \* manifest, embedding_cache: whose vector is stored, or None
    pending,    \* manifest, index_progress: the batches in status 'pending'
    tableDim,   \* dimension of the chunks table, 0 before there is one
    index,      \* backend: the rows of each file in each table, or None
    imports,    \* backend, code_edges: pairs <<importing, imported>>
    runs,       \* runs begun; the number is the run_id
    dups,       \* what the background deduplication is to delete: None when it
                \* is not running, {} when it has not looked yet
    pc, cur,    \* step and provider of the run
    seen,       \* stamp the walk saw on each file, 0 when not visited
    todo,       \* candidates not yet in a batch
    known,      \* all_files: the targets an import can resolve to
    staged,     \* content of each file in batch_files, or None
    vec,        \* whose vector each staged file got, or None
    left,       \* files that the current loop has still to handle
    cursor, table   \* the file that a loop is at, and the table it is at

manifest == <<hashes, provMeta, dimMeta, cache, pending>>
backend == <<tableDim, index, imports>>
batchVars == <<todo, known, staged, vec>>
loop == <<left, cursor, table>>
vars == <<disk, clock, hashes, provMeta, dimMeta, cache, pending, tableDim, index,
          imports, runs, dups, pc, cur, seen, todo, known, staged, vec, left, cursor,
          table>>

Stamp == 1..MaxStamp
OnDisk == [stamp : Stamp, content : Content]
Entry == [content : Content, by : Provider]
Tables == {"row", "chunks", "symbols", "calls"}
Dims == {DimOf[p] : p \in Provider}

\* For each loop over files, the tables it goes through for one file, in order.
StaleOrder ==
    [start |-> "chunks", chunks |-> "imports", imports |-> "symbols", symbols |-> "end"]

\* Mutant: the manifest entry is written ahead of the rows.
WriteManifestEarly ==
    [start |-> "row", row |-> "manifest", manifest |-> "chunks", chunks |-> "imports",
     imports |-> "symbols", symbols |-> "end"]
WriteOrder ==
    [start |-> "row", row |-> "chunks", chunks |-> "imports", imports |-> "symbols",
     symbols |-> "manifest", manifest |-> "end"]

CallsOrder == [start |-> "calls", calls |-> "end"]

GcOrder ==
    [start |-> "chunks", chunks |-> "imports", imports |-> "symbols", symbols |-> "row",
     row |-> "manifest", manifest |-> "end"]

\* Mutant: a stale path is reconciled as gc does, and its call edges stay.
ReconcileLikeGc == GcOrder

ReconcileOrder ==
    [start |-> "chunks", chunks |-> "imports", imports |-> "symbols", symbols |-> "calls",
     calls |-> "row", row |-> "manifest", manifest |-> "end"]

Order ==
    [delete |-> StaleOrder, write |-> WriteOrder, calls |-> CallsOrder,
     reconcile |-> ReconcileOrder, gc |-> GcOrder]

Loops == DOMAIN Order
Steps == Loops \cup
    {"idle", "check", "clearhashes", "clearcache", "setprovider", "setdim", "walk",
     "next", "read", "embed", "resolve", "complete", "retire", "done", "collected"}

TypeOK ==
    /\ disk \in [File -> OnDisk \cup {None}]
    /\ clock \in Stamp
    /\ hashes \in [File -> OnDisk \cup {None}]
    /\ provMeta \in Provider \cup {None}
    /\ dimMeta \in Dims \cup {0}
    /\ cache \in [File \X Content -> Provider \cup {None}]
    /\ pending \subseteq [run : 1..MaxRuns, files : SUBSET File]
    /\ tableDim \in Dims \cup {0}
    /\ index \in [Tables -> [File -> Entry \cup {None}]]
    /\ imports \subseteq File \X File
    /\ runs \in 0..MaxRuns
    /\ dups \in (SUBSET File) \cup {None}
    /\ pc \in Steps
    /\ cur \in Provider \cup {None}
    /\ seen \in [File -> Stamp \cup {0}]
    /\ todo \subseteq File
    /\ known \subseteq File
    /\ staged \in [File -> Content \cup {None}]
    /\ vec \in [File -> Provider \cup {None}]
    /\ left \subseteq File
    /\ cursor \in File \cup {None}
    /\ table \in Tables \cup {"imports", "manifest", "end"}

Staged == {f \in File : staged[f] # None}

\* No stamp seen, no file staged.
Unseen == [f \in File |-> 0]
Nothing == [f \in File |-> None]

Init ==
    /\ disk \in [File -> [stamp : {1}, content : Content] \cup {None}]
    /\ clock = 1
    /\ hashes = Nothing
    /\ provMeta = None
    /\ dimMeta = 0
    /\ cache = [k \in File \X Content |-> None]
    /\ pending = {}
    /\ tableDim = 0
    /\ index = [t \in Tables |-> Nothing]
    /\ imports = {}
    /\ runs = 0
    /\ dups = None
    /\ pc = "idle"
    /\ cur = None
    /\ seen = Unseen
    /\ todo = {} /\ known = {} /\ left = {}
    /\ staged = Nothing /\ vec = Nothing
    /\ cursor = None /\ table = "end"

-----------------------------------------------------------------------------
(* The working tree. Every edit gives the file a stamp it never had before. *)

Edit(f) ==
    /\ clock < MaxStamp
    /\ clock' = clock + 1
    /\ \E c \in Content :
          /\ \/ "modify" \in Events /\ disk[f] # None
             \/ "create" \in Events /\ disk[f] = None
          /\ disk' = [disk EXCEPT ![f] = [stamp |-> clock + 1, content |-> c]]
    /\ UNCHANGED <<manifest, backend, runs, dups, pc, cur, seen, batchVars, loop>>

Delete(f) ==
    /\ "delete" \in Events
    /\ disk[f] # None
    /\ disk' = [disk EXCEPT ![f] = None]
    /\ UNCHANGED <<clock, manifest, backend, runs, dups, pc, cur, seen, batchVars,
                   loop>>

-----------------------------------------------------------------------------
(* CompositeBackend::initialize, and how a process leaves a run             *)

\* A chunks table of another dimension is dropped and created again, empty.
Initialize(dim) ==
    /\ tableDim' = dim
    /\ index' = IF tableDim \in {0, dim} THEN index
                ELSE [index EXCEPT !["chunks"] = Nothing]

\* CompositeBackend::open succeeds: nobody has it open, this process included.
CanOpen == pc = "idle" /\ dups = None

\* The process is done, or gone: what it had in memory is lost.
Leave ==
    /\ pc' = "idle"
    /\ cur' = None
    /\ seen' = Unseen
    /\ todo' = {} /\ known' = {} /\ left' = {}
    /\ staged' = Nothing /\ vec' = Nothing
    /\ cursor' = None /\ table' = "end"
    /\ UNCHANGED <<disk, clock, manifest, backend, runs, dups>>

\* The process is killed, or a call to a provider or a store fails with `?`.
Crash == "crash" \in Events /\ pc # "idle" /\ Leave

\* Mutant: the index is opened while a run has it open.
SearchUnlocked(p) ==
    /\ "search" \in Events
    /\ Initialize(DimOf[p])
    /\ UNCHANGED <<disk, clock, manifest, imports, runs, dups, pc, cur, seen, batchVars,
                   loop>>

\* `skelesearch search` or `eval`, with any --provider: no indexing lease.
Search(p) ==
    /\ "search" \in Events
    /\ CanOpen
    /\ Initialize(DimOf[p])
    /\ UNCHANGED <<disk, clock, manifest, imports, runs, dups, pc, cur, seen, batchVars,
                   loop>>

-----------------------------------------------------------------------------
(* Start of a run: provider check and metadata                              *)

BeginRun(p) ==
    /\ CanOpen
    /\ runs < MaxRuns
    /\ runs' = runs + 1
    /\ cur' = p
    /\ Initialize(DimOf[p])
    /\ pc' = "check"
    /\ UNCHANGED <<disk, clock, manifest, imports, dups, seen, batchVars, loop>>

\* Mutant: only the dimension is compared.
ProviderDimChanged == provMeta # None /\ dimMeta # 0 /\ dimMeta # DimOf[cur]

ProviderChanged ==
    /\ provMeta # None
    /\ dimMeta # 0
    /\ dimMeta # DimOf[cur] \/ provMeta # cur

CheckProvider ==
    /\ pc = "check"
    /\ pc' = IF ProviderChanged THEN "clearhashes" ELSE "setprovider"
    /\ UNCHANGED <<disk, clock, manifest, backend, runs, dups, cur, seen, batchVars,
                   loop>>

ClearFileHashes ==
    /\ pc = "clearhashes"
    /\ hashes' = Nothing
    /\ pc' = "clearcache"
    /\ UNCHANGED <<disk, clock, provMeta, dimMeta, cache, pending, backend, runs, dups,
                   cur, seen, batchVars, loop>>

\* Mutant: only the file hashes are cleared.
KeepEmbeddingCache ==
    /\ pc = "clearcache"
    /\ pc' = "setprovider"
    /\ UNCHANGED <<disk, clock, manifest, backend, runs, dups, cur, seen, batchVars,
                   loop>>

ClearEmbeddingCache ==
    /\ pc = "clearcache"
    /\ cache' = [k \in File \X Content |-> None]
    /\ pc' = "setprovider"
    /\ UNCHANGED <<disk, clock, hashes, provMeta, dimMeta, pending, backend, runs, dups,
                   cur, seen, batchVars, loop>>

SetProvider ==
    /\ pc = "setprovider"
    /\ provMeta' = cur
    /\ pc' = "setdim"
    /\ UNCHANGED <<disk, clock, hashes, dimMeta, cache, pending, backend, runs, dups,
                   cur, seen, batchVars, loop>>

SetDim ==
    /\ pc = "setdim"
    /\ dimMeta' = DimOf[cur]
    /\ left' = File
    /\ pc' = "walk"
    /\ UNCHANGED <<disk, clock, hashes, provMeta, cache, pending, backend, runs, dups,
                   cur, seen, batchVars, cursor, table>>

-----------------------------------------------------------------------------
(* Phase 1: walk                                                            *)

\* find_incomplete_batches: rows that earlier runs left behind.
Incomplete == {b \in pending : b.run # runs}
Forced == UNION {b.files : b \in Incomplete}

\* mtime_size_unchanged
SameStamp(f, stamp) == hashes[f] # None /\ hashes[f].stamp = stamp

Visit(f) ==
    /\ pc = "walk"
    /\ f \in left
    /\ left' = left \ {f}
    /\ IF disk[f] = None THEN UNCHANGED <<seen, todo>>
       ELSE /\ seen' = [seen EXCEPT ![f] = disk[f].stamp]
            /\ todo' = IF f \notin Forced /\ SameStamp(f, disk[f].stamp) THEN todo
                       ELSE todo \cup {f}
    /\ UNCHANGED <<disk, clock, manifest, backend, runs, dups, pc, cur, known, staged,
                   vec, cursor, table>>

EndWalk ==
    /\ pc = "walk"
    /\ left = {}
    /\ known' = todo \cup {f \in File : index["row"][f] # None}
    /\ pc' = "next"
    /\ UNCHANGED <<disk, clock, manifest, backend, runs, dups, cur, seen, todo, staged,
                   vec, loop>>

-----------------------------------------------------------------------------
(* Phase 2: batches                                                         *)

BeginBatch ==
    /\ pc = "next"
    /\ \E b \in (SUBSET todo) \ {{}} :
          /\ \/ Cardinality(b) = BatchSize
             \/ b = todo /\ Cardinality(b) < BatchSize
          /\ pending' = pending \cup {[run |-> runs, files |-> b]}
          /\ todo' = todo \ b
          /\ left' = b
    /\ pc' = "read"
    /\ UNCHANGED <<disk, clock, hashes, provMeta, dimMeta, cache, backend, runs, dups,
                   cur, seen, known, staged, vec, cursor, table>>

\* is_unchanged, of the stamp the walk saw and the content read now
Unchanged(f) == hashes[f] = [stamp |-> seen[f], content |-> disk[f].content]

ReadFile(f) ==
    /\ pc = "read"
    /\ f \in left
    /\ disk[f] # None
    /\ left' = left \ {f}
    /\ staged' = IF Unchanged(f) \/ disk[f].content \in Unparsable THEN staged
                 ELSE [staged EXCEPT ![f] = disk[f].content]
    /\ UNCHANGED <<disk, clock, manifest, backend, runs, dups, pc, cur, seen, todo,
                   known, vec, cursor, table>>

\* The file is gone since the walk: the run ends with an error.
ReadFails(f) == pc = "read" /\ f \in left /\ disk[f] = None /\ Leave

\* complete_batch, of the only batch of this run that is still pending
CompletesBatch == pending' = {b \in pending : b.run # runs}

SkipBatch ==
    /\ pc = "read"
    /\ left = {}
    /\ Staged = {}
    /\ CompletesBatch
    /\ pc' = "next"
    /\ UNCHANGED <<disk, clock, hashes, provMeta, dimMeta, cache, backend, runs, dups,
                   cur, seen, batchVars, loop>>

\* Mutant: rows are written without their vectors.
NextLoopNoEmbed ==
    [read |-> "delete", delete |-> "write", embed |-> "write", write |-> "calls",
     calls |-> "resolve"]

\* The loops over batch_files follow each other.
NextLoop ==
    [read |-> "delete", delete |-> "embed", embed |-> "write", write |-> "calls",
     calls |-> "resolve"]

EndLoop ==
    /\ pc \in DOMAIN NextLoop
    /\ left = {}
    /\ Staged # {}
    /\ pc' = NextLoop[pc]
    /\ left' = IF pc = "calls" THEN {} ELSE Staged
    /\ UNCHANGED <<disk, clock, manifest, backend, runs, dups, cur, seen, batchVars,
                   cursor, table>>

\* Cache lookup, then embed_batch for a miss and cache_embeddings.
Embed(f) ==
    /\ pc = "embed"
    /\ f \in left
    /\ left' = left \ {f}
    /\ LET hit == cache[<<f, staged[f]>>]
           by == IF hit # None /\ DimOf[hit] = DimOf[cur] THEN hit ELSE cur
       IN  /\ vec' = [vec EXCEPT ![f] = by]
           /\ cache' = [cache EXCEPT ![<<f, staged[f]>>] = by]
    /\ UNCHANGED <<disk, clock, hashes, provMeta, dimMeta, pending, backend, runs, dups,
                   pc, cur, seen, todo, known, staged, cursor, table>>

ResolveCalls ==
    /\ pc = "resolve"
    /\ index' = [index EXCEPT !["calls"] =
          [f \in File |-> IF staged[f] = None THEN index["calls"][f]
                          ELSE [content |-> staged[f], by |-> cur]]]
    /\ pc' = "complete"
    /\ UNCHANGED <<disk, clock, manifest, tableDim, imports, runs, dups, cur, seen,
                   batchVars, loop>>

CompleteBatch ==
    /\ pc = "complete"
    /\ CompletesBatch
    /\ staged' = Nothing
    /\ vec' = Nothing
    /\ pc' = "next"
    /\ UNCHANGED <<disk, clock, hashes, provMeta, dimMeta, cache, backend, runs, dups,
                   cur, seen, todo, known, loop>>

-----------------------------------------------------------------------------
(* One file of a loop, table by table                                       *)

StartFile(f) ==
    /\ pc \in Loops
    /\ cursor = None
    /\ f \in left
    /\ pc = "gc" => disk[f] = None
    /\ cursor' = f
    /\ table' = Order[pc].start
    /\ UNCHANGED <<disk, clock, manifest, backend, runs, dups, pc, cur, seen, batchVars,
                   left>>

\* Mutant: a file that is done is handled again.
AdvanceKeeps ==
    LET next == Order[pc][table]
    IN  /\ table' = next
        /\ cursor' = IF next = "end" THEN None ELSE cursor
        /\ left' = left

\* On to the next table, or done with the file.
Advance ==
    LET next == Order[pc][table]
    IN  /\ table' = next
        /\ cursor' = IF next = "end" THEN None ELSE cursor
        /\ left' = IF next = "end" THEN left \ {cursor} ELSE left

\* delete_*_for_file; edges go in both directions.
EraseTable ==
    /\ pc \in Loops \ {"write"}
    /\ cursor # None
    /\ Advance
    /\ index' = IF table \in Tables THEN [index EXCEPT ![table][cursor] = None]
                ELSE index
    /\ imports' = IF table = "imports"
                  THEN {e \in imports : cursor \notin {e[1], e[2]}} ELSE imports
    /\ hashes' = IF table = "manifest" THEN [hashes EXCEPT ![cursor] = None] ELSE hashes
    /\ UNCHANGED <<disk, clock, provMeta, dimMeta, cache, pending, tableDim, runs, dups,
                   pc, cur, seen, batchVars>>

WriteTable ==
    /\ pc = "write"
    /\ cursor # None
    /\ Advance
    /\ LET f == cursor
           by == IF table = "chunks" THEN vec[f] ELSE cur
       IN  /\ index' = IF table \in Tables
                       THEN [index EXCEPT ![table][f] =
                               [content |-> staged[f], by |-> by]]
                       ELSE index
           /\ imports' = IF table = "imports"
                         THEN imports \cup ({f} \X (Imports[staged[f]] \cap known))
                         ELSE imports
           /\ hashes' = IF table = "manifest"
                        THEN [hashes EXCEPT ![f] =
                                [stamp |-> seen[f], content |-> staged[f]]]
                        ELSE hashes
    /\ UNCHANGED <<disk, clock, provMeta, dimMeta, cache, pending, tableDim, runs, dups,
                   pc, cur, seen, batchVars>>

-----------------------------------------------------------------------------
(* After the last batch: crash evidence, then Phase 3                       *)

EndBatches ==
    /\ pc = "next"
    /\ todo = {}
    /\ pc' = "retire"
    /\ UNCHANGED <<disk, clock, manifest, backend, runs, dups, cur, seen, batchVars,
                   loop>>

RetireBatch(b) ==
    /\ pc = "retire"
    /\ b \in Incomplete
    /\ pending' = pending \ {b}
    /\ UNCHANGED <<disk, clock, hashes, provMeta, dimMeta, cache, backend, runs, dups,
                   pc, cur, seen, batchVars, loop>>

\* stale_paths_against(visited)
EndRetire ==
    /\ pc = "retire"
    /\ Incomplete = {}
    /\ left' = {f \in File : hashes[f] # None /\ seen[f] = 0}
    /\ pc' = "reconcile"
    /\ UNCHANGED <<disk, clock, manifest, backend, runs, dups, cur, seen, batchVars,
                   cursor, table>>

\* Success: deduplicate_chunks is spawned.
EndReconcile ==
    /\ pc = "reconcile"
    /\ left = {}
    /\ pc' = "done"
    /\ dups' = IF "dedup" \in Events THEN {} ELSE None
    /\ UNCHANGED <<disk, clock, manifest, backend, runs, cur, seen, batchVars, loop>>

Finish == pc \in {"done", "collected"} /\ Leave

-----------------------------------------------------------------------------
(* deduplicate_chunks: a task that outlives the run and keeps the backend open *)

Copies(c) ==
    {f \in File : index["chunks"][f] # None /\ index["chunks"][f].content = c}

\* Reads the whole table; of chunks with one text all but the first are to go.
FindDuplicates ==
    /\ dups = {}
    /\ LET d == {f \in UNION {Copies(c) : c \in Content} :
                  \E g \in Copies(index["chunks"][f].content) :
                      PathOrder[g] < PathOrder[f]}
       IN  dups' = IF d = {} THEN None ELSE d
    /\ UNCHANGED <<disk, clock, manifest, backend, runs, pc, cur, seen, batchVars, loop>>

RemoveDuplicates ==
    /\ dups \notin {None, {}}
    /\ index' = [index EXCEPT !["chunks"] =
          [f \in File |-> IF f \in dups THEN None ELSE index["chunks"][f]]]
    /\ dups' = None
    /\ UNCHANGED <<disk, clock, manifest, tableDim, imports, runs, pc, cur, seen,
                   batchVars, loop>>

\* The process ends first.
AbandonDuplicates ==
    /\ dups # None
    /\ dups' = None
    /\ UNCHANGED <<disk, clock, manifest, backend, runs, pc, cur, seen, batchVars, loop>>

-----------------------------------------------------------------------------
(* gc.rs: collect_garbage                                                   *)

BeginGc ==
    /\ "gc" \in Events
    /\ CanOpen
    /\ left' = {f \in File : hashes[f] # None}
    /\ pc' = "gc"
    /\ UNCHANGED <<disk, clock, manifest, backend, runs, dups, cur, seen, batchVars,
                   cursor, table>>

GcKeeps(f) ==
    /\ pc = "gc"
    /\ cursor = None
    /\ f \in left
    /\ disk[f] # None
    /\ left' = left \ {f}
    /\ UNCHANGED <<disk, clock, manifest, backend, runs, dups, pc, cur, seen, batchVars,
                   cursor, table>>

EndGc ==
    /\ pc = "gc"
    /\ left = {}
    /\ pc' = "collected"
    /\ UNCHANGED <<disk, clock, manifest, backend, runs, dups, cur, seen, batchVars,
                   loop>>

-----------------------------------------------------------------------------

\* What a run, or a garbage collection, does by itself once begun.
RunStep ==
    \/ CheckProvider \/ ClearFileHashes \/ ClearEmbeddingCache \/ SetProvider \/ SetDim
    \/ EndWalk \/ BeginBatch \/ SkipBatch \/ EndLoop
    \/ EraseTable \/ WriteTable
    \/ ResolveCalls \/ CompleteBatch
    \/ EndBatches \/ EndRetire \/ EndReconcile \/ Finish \/ EndGc
    \/ \E f \in File : \/ Visit(f) \/ ReadFile(f) \/ ReadFails(f) \/ Embed(f)
                       \/ StartFile(f) \/ GcKeeps(f)
    \/ \E b \in pending : RetireBatch(b)

\* Nobody has to edit a file or to start a run.
Rest == pc = "idle" /\ UNCHANGED vars

Next ==
    \/ \E f \in File : Edit(f) \/ Delete(f)
    \/ \E p \in Provider : BeginRun(p) \/ Search(p)
    \/ BeginGc
    \/ Crash
    \/ FindDuplicates \/ RemoveDuplicates \/ AbandonDuplicates
    \/ RunStep
    \/ Rest

Spec == Init /\ [][Next]_vars

\* The indexer never waits for anything but its own calls.
FairSpec == Spec /\ WF_vars(RunStep)

-----------------------------------------------------------------------------
(* Properties                                                               *)

\* The tables that hold what a search returns for a file.
Searched == {"row", "chunks", "symbols"}

\* A table has that entry for f, unless its chunks were removed as duplicates.
Has(t, f, entry) ==
    \/ index[t][f] = entry
    \/ t = "chunks" /\ "dedup" \in Events /\ index[t][f] = None

IsIndexed(f, p) ==
    \A t \in Searched : Has(t, f, [content |-> disk[f].content, by |-> p])

\* What the walk of the next run would skip on its (mtime, size) alone really
\* is in the index, with the content on disk and vectors of the recorded
\* provider: after any edits, crashes, failed runs and provider changes.
MatchedIsIndexed ==
    \A f \in File :
        disk[f] # None /\ SameStamp(f, disk[f].stamp) => IsIndexed(f, provMeta)

\* The embedding cache never holds a vector of a provider other than the one
\* recorded in the manifest, whenever the run that changes it is stopped.
CacheOfProvider == \A k \in File \X Content : cache[k] \in {None, provMeta}

\* A run that reports success has indexed every file it saw, unless the file
\* was edited since or cannot be parsed, whatever earlier runs left behind.
MirrorsDisk ==
    pc = "done" => \A f \in File :
        /\ disk[f] # None
        /\ disk[f].stamp = seen[f]
        /\ disk[f].content \notin Unparsable
        => IsIndexed(f, cur)

\* What the manifest forgets has left nothing in the backend: when the entry of a file
\* goes, in the reconciliation of a run or in a garbage collection, no table has a row of
\* it and no edge leads to it or from it (a garbage collection leaves its call edges),
\* whatever was stopped before and whatever the files do meanwhile. The entry is all that
\* a later run could find the rest by. With another provider a run forgets all files,
\* and keeps what it has of them.
ForgottenAreGone ==
    [][\A f \in File : hashes[f] # None /\ hashes'[f] = None /\ pc # "clearhashes" =>
          /\ \A t \in IF pc = "gc" THEN Tables \ {"calls"} ELSE Tables : index[t][f] = None
          /\ \A e \in imports : f \notin {e[1], e[2]}]_vars

\* Every run and every garbage collection comes to an end.
RunTerminates == pc # "idle" ~> pc = "idle"

\* indexer.rs:1012-1014, "any manifest path not visited this run is stale (file gone or
\* moved)": after a run, a file that it did not find (and that did not appear since) has
\* left nothing in any table of the backend.
DeletedAreGone ==
    pc = "done" => \A f \in File : seen[f] = 0 /\ disk[f] = None =>
        /\ \A t \in Tables : index[t][f] = None
        /\ \A e \in imports : f \notin {e[1], e[2]}

\* indexer.rs:343-350, crash recovery "reindex[es] their files": after a run
\* that succeeded, the call edges of each file it saw are those of its content.
CallEdgesCommitted ==
    pc = "done" => \A f \in File :
        disk[f] # None /\ disk[f].stamp = seen[f] /\ disk[f].content \notin Unparsable
        => index["calls"][f] # None /\ index["calls"][f].content = disk[f].content

\* indexer.rs:457 "Edges from this file are already in the backend and remain
\* valid": after a run, every import between two files it saw is an edge.
ImportEdgesComplete ==
    pc = "done" => \A f, g \in File :
        /\ disk[f] # None /\ disk[f].stamp = seen[f] /\ seen[g] # 0
        /\ g \in Imports[disk[f].content]
        => <<f, g>> \in imports

\* indexer.rs:320-322 "keeping stale entries would silently serve the old
\* provider's embeddings": after a run no row has vectors of another provider.
VectorsOfProvider ==
    pc = "done" => \A f \in File :
        index["chunks"][f] # None => index["chunks"][f].by = cur

\* composite.rs:272 "drop and recreate it (forces re-index)": a run whose walk
\* finds a file without chunks makes that file a candidate.
DroppedIsReindexed ==
    [][EndWalk /\ tableDim = DimOf[cur] =>
        \A f \in File : seen[f] # 0 /\ index["chunks"][f] = None => f \in todo]_vars

\* indexer.rs:1091-1093, removing duplicates is "a quality boost": the content
\* of every file that a run found unchanged is still in some chunk.
ContentIsFindable ==
    pc = "done" => \A f \in File :
        disk[f] # None /\ disk[f].stamp = seen[f] /\ disk[f].content \notin Unparsable
        => Copies(disk[f].content) # {}

\* Every vector in the chunks table has the dimension of the table, and so has
\* the provider of the run that writes to it, although every search and run may
\* replace the table by one of another dimension.
FitsTable ==
    /\ \A f \in File :
          index["chunks"][f] # None => DimOf[index["chunks"][f].by] = tableDim
    /\ cur # None => DimOf[cur] = tableDim
=============================================================================
