------------------------------ MODULE Generation ------------------------------
(***************************************************************************)
(* Staged and active generations of a project in the daemon                *)
(* (crates/daemon/src/service.rs). A generation is a directory with a      *)
(* whole index; the file `active-generation` names the one to open. An     *)
(* index run copies the active generation, brings the copy up to date (see *)
(* IndexRun), points the file at it, swaps it in, and drops the cached     *)
(* searcher; a failed run removes its copy. Requests to index and searches *)
(* interleave with the run at every step.                                  *)
(*                                                                         *)
(* An instance is one ProjectState of the daemon: a root, with or without  *)
(* a logical id. Those of one root share a storage directory and its       *)
(* indexing lease (see IndexingLease). So does the command line, which     *)
(* indexes the active generation in place. Whoever opens a generation      *)
(* holds the writer lock of its full-text index (TantivyIndex::open_or_    *)
(* create); another attempt to open it fails.                              *)
(***************************************************************************)
EXTENDS Naturals

CONSTANTS
    Inst,       \* project keys of the daemon that share the storage directory
    Other,      \* the command line, indexing this root
    MaxGen,     \* bound: generation directories at a time
    MaxVersion, \* bound: versions of the working tree
    Indexed,    \* TRUE when there is a generation to begin with
    Faults,     \* a subset of FaultKinds
    None        \* absent

\* The daemon is killed; a call fails; a file cannot be renamed over another;
\* the command line indexes.
FaultKinds == {"crash", "fail", "rename", "other"}

ASSUME GenerationAssumption ==
    /\ MaxGen \in Nat \ {0}
    /\ MaxVersion \in Nat
    /\ Indexed \in BOOLEAN
    /\ Faults \subseteq FaultKinds
    /\ None \notin Inst \cup Nat
    /\ Other \notin Inst \cup {None}

VARIABLES
    tree,       \* version of the working tree
    dir,        \* generation directories: state, and version indexed
    pointer,    \* content of `active-generation`, None when there is no file
    lease,      \* who holds the indexing lease, or None
    other,      \* the generation that the command line has open, or None
    opening,    \* step of resolve_or_init_active_generation, "up" when open
    active,     \* active_generation, None before the project is open
    searcher,   \* cached_searcher: generations of its provider and its backend
    build,      \* the searcher being built under the write lock of the cache
    progress,   \* index_progress: status of the last run
    asked,      \* a request to index has found no run in progress
    run,        \* step of the index run
    staged,     \* generation being initialized or staged, or None
    outcome     \* how the run goes on after its index is built, or not

storage == <<tree, dir, pointer, lease, other>>
project == <<opening, active, searcher, build, progress, asked, run, staged, outcome>>
vars == <<storage, project>>

Gen == 1..MaxGen
Version == 0..MaxVersion

\* "bare": no database files yet; "partial": being copied or indexed.
DirStates == {"absent", "bare", "partial", "whole"}

\* What is left to do, in order, after each outcome of a run.
\* Mutant: the status of a run that failed is left as it is.
AfterFailedUnmarked ==
    [start |-> "cleanup", cleanup |-> "invalidate", invalidate |-> "release"]

AfterFailedIndex ==
    [start |-> "cleanup", cleanup |-> "mark", mark |-> "invalidate",
     invalidate |-> "release"]
AfterFailedPromotion ==
    [start |-> "mark", mark |-> "invalidate", invalidate |-> "cleanup",
     cleanup |-> "release"]

\* Mutant: the searcher is dropped before the generation is swapped.
InvalidateFirst ==
    [start |-> "invalidate", invalidate |-> "swap", swap |-> "mark", mark |-> "release"]

AfterPointer ==
    [start |-> "swap", swap |-> "mark", mark |-> "invalidate", invalidate |-> "release"]

After ==
    [indexFailed |-> AfterFailedIndex, promotionFailed |-> AfterFailedPromotion,
     promoted |-> AfterPointer]

RunSteps ==
    {"none", "stage", "copy", "start", "index", "walked", "open", "pointer", "replace",
     "swap", "mark", "invalidate", "cleanup", "release"}

TypeOK ==
    /\ tree \in Version
    /\ dir \in [Gen -> [state : DirStates, version : Version]]
    /\ pointer \in Gen \cup {None}
    /\ lease \in Inst \cup {Other, None}
    /\ other \in Gen \cup {None}
    /\ opening \in [Inst -> {"down", "make", "point", "create", "up"}]
    /\ active \in [Inst -> Gen \cup {None}]
    /\ searcher \in [Inst -> [provider : Gen, backend : Gen] \cup {None}]
    /\ build \in [Inst -> Gen \cup {None}]
    /\ progress \in [Inst -> {"none", "running", "done", "failed"}]
    /\ asked \in [Inst -> BOOLEAN]
    /\ run \in [Inst -> RunSteps]
    /\ staged \in [Inst -> Gen \cup {None}]
    /\ outcome \in [Inst -> DOMAIN After \cup {"none"}]

Init ==
    /\ tree = 0
    /\ dir = [g \in Gen |-> [state |-> IF Indexed /\ g = 1 THEN "whole" ELSE "absent",
                             version |-> 0]]
    /\ pointer = IF Indexed THEN 1 ELSE None
    /\ lease = None
    /\ other = None
    /\ opening = [i \in Inst |-> "down"]
    /\ active = [i \in Inst |-> None]
    /\ searcher = [i \in Inst |-> None]
    /\ build = [i \in Inst |-> None]
    /\ progress = [i \in Inst |-> "none"]
    /\ asked = [i \in Inst |-> FALSE]
    /\ run = [i \in Inst |-> "none"]
    /\ staged = [i \in Inst |-> None]
    /\ outcome = [i \in Inst |-> "none"]

\* Both database files exist: the generation can be opened.
HasFiles(g) == g # None /\ dir[g].state \in {"partial", "whole"}

\* Somebody holds the writer lock of the generation: a project, a searcher, a
\* run that indexes or promotes it, the command line.
IsOpen(g) ==
    \/ other = g
    \/ \E i \in Inst :
          \/ active[i] = g
          \/ searcher[i] # None /\ searcher[i].backend = g
          \/ staged[i] = g /\ run[i] \in {"index", "walked", "pointer", "replace", "swap"}

\* Generation ids are time stamps: never that of a directory there is.
Free == {g \in Gen : dir[g].state = "absent"}
NewGen == CHOOSE g \in Free : TRUE

Goto(i, step) == run' = [run EXCEPT ![i] = step]

Edit ==
    /\ tree < MaxVersion
    /\ tree' = tree + 1
    /\ UNCHANGED <<other, dir, pointer, lease, project>>

-----------------------------------------------------------------------------
(* ProjectState::open: without the lease, but under the write lock of the   *)
(* daemon's project map                                                     *)

\* Mutant: a generation that somebody has open is opened.
OpenUnlocked(i) ==
    /\ opening[i] = "down"
    /\ HasFiles(pointer)
    /\ active' = [active EXCEPT ![i] = pointer]
    /\ opening' = [opening EXCEPT ![i] = "up"]
    /\ UNCHANGED <<storage, searcher, build, progress, asked, run, staged, outcome>>

Open(i) ==
    /\ opening[i] = "down"
    /\ \A j \in Inst : opening[j] \in {"down", "up"}
    /\ IF HasFiles(pointer)
       THEN /\ ~IsOpen(pointer)
            /\ active' = [active EXCEPT ![i] = pointer]
            /\ opening' = [opening EXCEPT ![i] = "up"]
       ELSE /\ opening' = [opening EXCEPT ![i] = "make"]
            /\ UNCHANGED active
    /\ UNCHANGED <<storage, searcher, build, progress, asked, run, staged, outcome>>

MakeFirst(i) ==
    /\ opening[i] = "make"
    /\ Free # {}
    /\ dir' = [dir EXCEPT ![NewGen] = [state |-> "bare", version |-> 0]]
    /\ staged' = [staged EXCEPT ![i] = NewGen]
    /\ opening' = [opening EXCEPT ![i] = "point"]
    /\ UNCHANGED <<other, tree, pointer, lease, active, searcher, build, progress, asked, run,
                   outcome>>

PointFirst(i) ==
    /\ opening[i] = "point"
    /\ pointer' = staged[i]
    /\ opening' = [opening EXCEPT ![i] = "create"]
    /\ UNCHANGED <<other, tree, dir, lease, active, searcher, build, progress, asked, run,
                   staged, outcome>>

\* ActiveGeneration::open makes the database files: an empty index.
CreateFirst(i) ==
    /\ opening[i] = "create"
    /\ dir' = [dir EXCEPT ![staged[i]].state = "whole"]
    /\ active' = [active EXCEPT ![i] = staged[i]]
    /\ staged' = [staged EXCEPT ![i] = None]
    /\ opening' = [opening EXCEPT ![i] = "up"]
    /\ UNCHANGED <<other, tree, pointer, lease, searcher, build, progress, asked, run, outcome>>

\* The database files may have been made.
OpenFails(i) ==
    /\ "fail" \in Faults
    /\ opening[i] \in {"make", "point", "create"}
    /\ opening' = [opening EXCEPT ![i] = "down"]
    /\ staged' = [staged EXCEPT ![i] = None]
    /\ \/ UNCHANGED dir
       \/ opening[i] = "create" /\ dir' = [dir EXCEPT ![staged[i]].state = "whole"]
    /\ UNCHANGED <<other, tree, pointer, lease, active, searcher, build, progress, asked,
                   run, outcome>>

-----------------------------------------------------------------------------
(* Searches: get_or_build_searcher                                          *)

\* provider_name_for_project, under the write lock of the cache
BeginBuild(i) ==
    /\ opening[i] = "up"
    /\ searcher[i] = None
    /\ build[i] = None
    /\ build' = [build EXCEPT ![i] = active[i]]
    /\ UNCHANGED <<storage, opening, active, searcher, progress, asked, run, staged,
                   outcome>>

\* Mutant: a search ends a build that another one has begun, or not yet.
EndBuildUnlocked(i) ==
    /\ opening[i] = "up"
    /\ searcher[i] = None
    /\ searcher' =
          [searcher EXCEPT ![i] = [provider |-> build[i], backend |-> active[i]]]
    /\ build' = [build EXCEPT ![i] = None]
    /\ UNCHANGED <<storage, opening, active, progress, asked, run, staged, outcome>>

\* active_backend
EndBuild(i) ==
    /\ build[i] # None
    /\ searcher' =
          [searcher EXCEPT ![i] = [provider |-> build[i], backend |-> active[i]]]
    /\ build' = [build EXCEPT ![i] = None]
    /\ UNCHANGED <<storage, opening, active, progress, asked, run, staged, outcome>>

BuildFails(i) ==
    /\ "fail" \in Faults
    /\ build[i] # None
    /\ build' = [build EXCEPT ![i] = None]
    /\ UNCHANGED <<storage, opening, active, searcher, progress, asked, run, staged,
                   outcome>>

-----------------------------------------------------------------------------
(* Requests to index: start_indexing_run                                    *)

\* is_indexing_running, of a client's request or of the startup refresh
Ask(i) ==
    /\ opening[i] = "up"
    /\ ~asked[i]
    /\ progress[i] # "running"
    /\ asked' = [asked EXCEPT ![i] = TRUE]
    /\ UNCHANGED <<storage, opening, active, searcher, build, progress, run, staged,
                   outcome>>

\* AlreadyIndexing, by the lease
Denied(i) ==
    /\ asked[i]
    /\ lease # None
    /\ asked' = [asked EXCEPT ![i] = FALSE]
    /\ UNCHANGED <<storage, opening, active, searcher, build, progress, run, staged,
                   outcome>>

AcquireLease(i) ==
    /\ asked[i]
    /\ lease = None
    /\ Free # {}
    /\ lease' = i
    /\ asked' = [asked EXCEPT ![i] = FALSE]
    /\ Goto(i, "stage")
    /\ UNCHANGED <<other, tree, dir, pointer, opening, active, searcher, build, progress, staged,
                   outcome>>

\* prepare_staged_generation: make the directory, copy the active one into it.
StageDirectory(i) ==
    /\ run[i] = "stage"
    /\ Free # {}
    /\ dir' = [dir EXCEPT ![NewGen] = [state |-> "bare", version |-> 0]]
    /\ staged' = [staged EXCEPT ![i] = NewGen]
    /\ Goto(i, "copy")
    /\ UNCHANGED <<other, tree, pointer, lease, opening, active, searcher, build, progress,
                   asked, outcome>>

CopyActive(i) ==
    /\ run[i] = "copy"
    /\ dir' = [dir EXCEPT ![staged[i]] =
                  [state |-> "partial", version |-> dir[active[i]].version]]
    /\ Goto(i, "start")
    /\ UNCHANGED <<other, tree, pointer, lease, opening, active, searcher, build, progress,
                   asked, staged, outcome>>

\* The lease is dropped; what was copied stays behind.
PrepareFails(i) ==
    /\ "fail" \in Faults
    /\ run[i] \in {"stage", "copy"}
    /\ lease' = None
    /\ staged' = [staged EXCEPT ![i] = None]
    /\ Goto(i, "none")
    /\ UNCHANGED <<other, tree, dir, pointer, opening, active, searcher, build, progress, asked,
                   outcome>>

MarkStarted(i) ==
    /\ run[i] = "start"
    /\ progress' = [progress EXCEPT ![i] = "running"]
    /\ Goto(i, "index")
    /\ UNCHANGED <<storage, opening, active, searcher, build, asked, staged, outcome>>

-----------------------------------------------------------------------------
(* The run: index the staged generation and promote it                      *)

\* The walk finds the tree as it is; a later edit may be seen or not.
BeginIndex(i) ==
    /\ run[i] = "index"
    /\ dir' = [dir EXCEPT ![staged[i]].version = tree]
    /\ Goto(i, "walked")
    /\ UNCHANGED <<other, tree, pointer, lease, opening, active, searcher, build, progress,
                   asked, staged, outcome>>

EndIndex(i) ==
    /\ run[i] = "walked"
    /\ \E v \in dir[staged[i]].version..tree :
          dir' = [dir EXCEPT ![staged[i]] = [state |-> "whole", version |-> v]]
    /\ Goto(i, "open")
    /\ UNCHANGED <<other, tree, pointer, lease, opening, active, searcher, build, progress,
                   asked, staged, outcome>>

\* The run goes on with what follows this outcome.
Conclude(i, result) ==
    /\ outcome' = [outcome EXCEPT ![i] = result]
    /\ Goto(i, After[result].start)

IndexFails(i) ==
    /\ "fail" \in Faults
    /\ run[i] \in {"index", "walked"}
    /\ Conclude(i, "indexFailed")
    /\ UNCHANGED <<storage, opening, active, searcher, build, progress, asked, staged>>

\* promote_staged_generation: open the generation, then write_file_atomic.
OpenStaged(i) ==
    /\ run[i] = "open"
    /\ Goto(i, "pointer")
    /\ UNCHANGED <<storage, opening, active, searcher, build, progress, asked, staged,
                   outcome>>

WritePointer(i) ==
    /\ run[i] \in {"pointer", "replace"}
    /\ pointer' = staged[i]
    /\ Conclude(i, "promoted")
    /\ UNCHANGED <<other, tree, dir, lease, opening, active, searcher, build, progress, asked,
                   staged>>

\* rename failed and there is a file: it is removed before the second attempt.
RemovePointer(i) ==
    /\ "rename" \in Faults
    /\ run[i] = "pointer"
    /\ pointer # None
    /\ pointer' = None
    /\ Goto(i, "replace")
    /\ UNCHANGED <<other, tree, dir, lease, opening, active, searcher, build, progress, asked,
                   staged, outcome>>

PromotionFails(i) ==
    /\ "fail" \in Faults
    /\ run[i] \in {"open", "pointer", "replace"}
    /\ Conclude(i, "promotionFailed")
    /\ UNCHANGED <<storage, opening, active, searcher, build, progress, asked, staged>>

Advance(i) == Goto(i, After[outcome[i]][run[i]])

Swap(i) ==
    /\ run[i] = "swap"
    /\ active' = [active EXCEPT ![i] = staged[i]]
    /\ Advance(i)
    /\ UNCHANGED <<storage, opening, searcher, build, progress, asked, staged, outcome>>

\* mark_indexing_done, mark_indexing_failed
Mark(i) ==
    /\ run[i] = "mark"
    /\ progress' = [progress EXCEPT ![i] =
                       IF outcome[i] = "promoted" THEN "done" ELSE "failed"]
    /\ Advance(i)
    /\ UNCHANGED <<storage, opening, active, searcher, build, asked, staged, outcome>>

\* Waits for the write lock of the cache.
InvalidateSearcher(i) ==
    /\ run[i] = "invalidate"
    /\ build[i] = None
    /\ searcher' = [searcher EXCEPT ![i] = None]
    /\ Advance(i)
    /\ UNCHANGED <<storage, opening, active, build, progress, asked, staged, outcome>>

\* Mutant: the directory removed is that of the active generation.
CleanupActive(i) ==
    /\ run[i] = "cleanup"
    /\ dir' = [dir EXCEPT ![active[i]].state = "absent"]
    /\ Advance(i)
    /\ UNCHANGED <<other, tree, pointer, lease, opening, active, searcher, build, progress,
                   asked, staged, outcome>>

Cleanup(i) ==
    /\ run[i] = "cleanup"
    /\ dir' = [dir EXCEPT ![staged[i]].state = "absent"]
    /\ Advance(i)
    /\ UNCHANGED <<other, tree, pointer, lease, opening, active, searcher, build, progress,
                   asked, staged, outcome>>

\* The task ends and its lease is dropped.
Release(i) ==
    /\ run[i] = "release"
    /\ lease' = None
    /\ staged' = [staged EXCEPT ![i] = None]
    /\ outcome' = [outcome EXCEPT ![i] = "none"]
    /\ Goto(i, "none")
    /\ UNCHANGED <<other, tree, dir, pointer, opening, active, searcher, build, progress, asked>>

-----------------------------------------------------------------------------

\* The daemon is killed: what it had in memory, and its lock, is gone.
Crash ==
    /\ "crash" \in Faults
    /\ \E i \in Inst : opening[i] # "down"
    /\ lease' = IF lease \in Inst THEN None ELSE lease
    /\ opening' = [i \in Inst |-> "down"]
    /\ active' = [i \in Inst |-> None]
    /\ searcher' = [i \in Inst |-> None]
    /\ build' = [i \in Inst |-> None]
    /\ progress' = [i \in Inst |-> "none"]
    /\ asked' = [i \in Inst |-> FALSE]
    /\ run' = [i \in Inst |-> "none"]
    /\ staged' = [i \in Inst |-> None]
    /\ outcome' = [i \in Inst |-> "none"]
    /\ UNCHANGED <<other, tree, dir, pointer>>

\* `skelesearch index`, or a pass of `watch`: acquire_lock, then open_backend on
\* active_index_paths. It may end, or fail, at any step.
OtherLocks ==
    /\ "other" \in Faults
    /\ lease = None
    /\ lease' = Other
    /\ UNCHANGED <<other, tree, dir, pointer, project>>

OtherOpens ==
    /\ lease = Other
    /\ other = None
    /\ HasFiles(pointer)
    /\ ~IsOpen(pointer)
    /\ other' = pointer
    /\ UNCHANGED <<tree, dir, pointer, lease, project>>

OtherIndexes ==
    /\ other # None
    /\ \E v \in dir[other].version..tree :
          dir' = [dir EXCEPT ![other].version = v]
    /\ UNCHANGED <<other, tree, pointer, lease, project>>

OtherEnds ==
    /\ lease = Other
    /\ lease' = None
    /\ other' = None
    /\ UNCHANGED <<tree, dir, pointer, project>>

\* What an index run, or a search that builds a searcher, does once begun.
RunStep(i) ==
    \/ StageDirectory(i) \/ CopyActive(i) \/ PrepareFails(i) \/ MarkStarted(i)
    \/ BeginIndex(i) \/ EndIndex(i) \/ IndexFails(i)
    \/ OpenStaged(i) \/ WritePointer(i) \/ RemovePointer(i) \/ PromotionFails(i)
    \/ Swap(i) \/ Mark(i) \/ InvalidateSearcher(i) \/ Cleanup(i) \/ Release(i)
BuildStep(i) == EndBuild(i) \/ BuildFails(i)

Next ==
    \/ Edit
    \/ \E i \in Inst :
          \/ Open(i) \/ MakeFirst(i) \/ PointFirst(i) \/ CreateFirst(i) \/ OpenFails(i)
          \/ BeginBuild(i) \/ BuildStep(i)
          \/ Ask(i) \/ Denied(i) \/ AcquireLease(i)
          \/ RunStep(i)
    \/ Crash
    \/ OtherLocks \/ OtherOpens \/ OtherIndexes \/ OtherEnds

Spec == Init /\ [][Next]_vars

\* The tasks of a daemon that lives are polled, a search holds the lock of the
\* cache only while it builds, and tokio's RwLock queues its waiters in order:
\* a run that waits for the lock has it before a search that comes later.
FairSpec ==
    Spec /\ \A i \in Inst :
        WF_vars(RunStep(i)) /\ WF_vars(BuildStep(i)) /\ SF_vars(InvalidateSearcher(i))

-----------------------------------------------------------------------------
(* Properties                                                               *)

\* The generation a project reads from is whole, and its alone: no run writes to
\* it or removes it, whatever fails, the command line does not index it in
\* place, and a crash never leaves one half-copied active.
ActiveIsWhole ==
    \A i \in Inst : active[i] # None =>
        /\ dir[active[i]].state = "whole"
        /\ other # active[i]
        /\ \A j \in Inst \ {i} : active[j] # active[i]

\* Once a run is over, the cached searcher queries the active generation with
\* the provider that generation was built with, although a build may have read
\* one before and the other after the swap.
SearcherIsActive ==
    \A i \in Inst : searcher[i] # None /\ run[i] \notin {"swap", "mark", "invalidate"} =>
        searcher[i] = [provider |-> active[i], backend |-> active[i]]

\* The generation that a restarted daemon would open, and its version.
Published == IF HasFiles(pointer) THEN dir[pointer].version ELSE 0

\* service.rs tests generation_swap_preserves_reads and failed_refresh_keeps_
\* last_good: the index is replaced in one step by one that is not older, and
\* otherwise stays (see PublishedIndex).
Abstract == INSTANCE PublishedIndex WITH
    published <- Published,
    serving <- [i \in Inst |-> IF active[i] = None THEN None ELSE dir[active[i]].version],
    Down <- None
PublishesWhole == Abstract!Spec

\* README.md:142 "the last good index stays readable": no failed or interrupted
\* run makes a daemon that starts next open an older index.
NeverOlder == [][Published' >= Published]_vars

\* A client that polls index_status sees every run end: the status leaves
\* `running`, and the lease is free again.
RunEnds ==
    \A i \in Inst : (progress[i] = "running" \/ lease = i)
        ~> (progress[i] # "running" /\ lease # i)
=============================================================================
