---------------------------- MODULE IndexRun_proof ----------------------------
(***************************************************************************)
(* Proofs about IndexRun, for all files, contents, numbers of runs and     *)
(* edits, and for all providers of one dimension.                          *)
(*                                                                         *)
(* The argument for MatchedIsIndexed. Stamps only grow (StampInv), so a    *)
(* manifest entry that matches the disk has the content on disk, and a     *)
(* file that is staged, or about to be erased, does not match until its    *)
(* entry is written. When it is written, the rows before it in Order have  *)
(* been written in the same run (RowInv), with vectors of the provider     *)
(* that the manifest records (MetaInv).                                    *)
(*                                                                         *)
(* MirrorsDisk adds what a run has dealt with at each step (SeenInv).      *)
(* GoneHasNoRows adds that the manifest knows every file that has rows     *)
(* (RowsKnown), so that the last step of a run finds the files to erase,   *)
(* and ForgottenAreGone what the loop over stale files, or that of gc, has *)
(* erased when it comes to a table (ErasedInv).                            *)
(***************************************************************************)
EXTENDS IndexRun, TLAPS

SameDim == \A p, q \in Provider : DimOf[p] = DimOf[q]

\* Steps at which a batch is in memory.
BatchSteps == {"read", "delete", "embed", "write", "calls", "resolve", "complete"}

\* Where a loop stands.
LoopInv ==
    /\ dups # None => "dedup" \in Events
    /\ cursor # None => pc \in Loops /\ cursor \in left
    /\ cursor # None => table \in DOMAIN Order[pc] \ {"start"}
    /\ pc \in {"delete", "embed", "write", "calls"} => left \subseteq Staged
    /\ pc \notin {"idle", "gc", "collected"} => cur \in Provider /\ runs # 0
    /\ pc \notin BatchSteps => Staged = {}
    /\ \A f \in Staged : seen[f] # 0
    /\ \A f \in todo : seen[f] # 0
    /\ pc = "read" => \A f \in left : seen[f] # 0
    /\ pc = "embed" => \A f \in Staged \ left : vec[f] # None
    /\ pc = "write" => \A f \in Staged : vec[f] # None

NoHashes == hashes = Nothing
NoCache == \A k \in File \X Content : cache[k] = None

\* The metadata, and what the manifest holds with it.
BeforeMeta == {"idle", "check", "clearhashes", "clearcache", "setprovider", "gc",
               "collected"}
MetaInv ==
    /\ provMeta = None \/ dimMeta = 0 => (NoHashes /\ NoCache)
    /\ pc = "clearcache" => NoHashes
    /\ pc = "setprovider" => provMeta = cur \/ (NoHashes /\ NoCache)
    /\ pc \notin BeforeMeta => provMeta = cur
    /\ pc \notin BeforeMeta \cup {"setdim"} => dimMeta = DimOf[cur]
    /\ CacheOfProvider

\* The manifest entry of a file is older than the file.
Behind(f) ==
    disk[f] # None /\ hashes[f] # None => hashes[f].stamp < disk[f].stamp

\* Staged, and the manifest entry not yet written.
Uncommitted(f) ==
    /\ staged[f] # None
    /\ pc \in {"read", "delete", "embed"} \/ (pc = "write" /\ f \in left)

Visited(f) ==
    \/ pc = "walk" /\ f \notin left
    \/ pc \notin BeforeMeta \cup {"setdim", "walk"}

\* Stamps: the disk is ahead of the walk, and the walk of the manifest.
FileStamps(f) ==
    /\ disk[f] # None => disk[f].stamp <= clock /\ seen[f] <= disk[f].stamp
    /\ hashes[f] # None => hashes[f].stamp <= clock
    /\ seen[f] <= clock
    /\ disk[f] # None /\ hashes[f] # None =>
          /\ hashes[f].stamp <= disk[f].stamp
          /\ hashes[f].stamp = disk[f].stamp => hashes[f].content = disk[f].content
    /\ seen[f] # 0 /\ hashes[f] # None => hashes[f].stamp <= seen[f]
    /\ seen[f] = 0 /\ Visited(f) => Behind(f)
    /\ staged[f] # None /\ disk[f] # None /\ disk[f].stamp = seen[f]
          => disk[f].content = staged[f]
    /\ Uncommitted(f) => hashes[f] # [stamp |-> seen[f], content |-> staged[f]]

StampInv ==
    /\ \A f \in File : FileStamps(f)
    /\ pc = "reconcile" => \A f \in left : seen[f] = 0
    /\ pc = "gc" /\ cursor # None => Behind(cursor)

\* What the run has put in the index for the files of the batch.
Written(f, t) == Has(t, f, [content |-> staged[f], by |-> cur])
RowInv ==
    /\ pc = "embed" => \A f \in Staged \ left : vec[f] = cur
    /\ pc = "write" => \A f \in Staged : vec[f] = cur
    /\ pc = "write" /\ cursor # None =>
          /\ table \notin {"row"} => Written(cursor, "row")
          /\ table \notin {"row", "chunks"} => Written(cursor, "chunks")
          /\ table = "manifest" => Written(cursor, "symbols")
    /\ MatchedIsIndexed
-----------------------------------------------------------------------------
(* Types, and where the loops stand.                                        *)

USE IndexAssumption
    DEF StaleOrder, WriteOrder, CallsOrder, ReconcileOrder, GcOrder

\* Every loop goes from one of its tables to another one, or ends.
LEMMA OrderNext ==
  ASSUME NEW l \in Loops, NEW t \in DOMAIN Order[l]
  PROVE  /\ Order[l][t] \in (DOMAIN Order[l] \ {"start"}) \cup {"end"}
         /\ Order[l][t] \in Tables \cup {"imports", "manifest", "end"}
  BY DEF Loops, Order, Tables

LEMMA InitShape == Init => TypeOK /\ LoopInv
  BY DEF Init, TypeOK, LoopInv, Steps, Loops, Order, Nothing, Unseen, Stamp, OnDisk,
         Tables, Staged, BatchSteps

\* Every action keeps the types and the position of the loops.
LEMMA ShapeStep ==
  ASSUME TypeOK, LoopInv, [Next]_vars
  PROVE  (TypeOK /\ LoopInv)'
<1> USE DEF TypeOK, LoopInv, BatchSteps, Staged, Steps, Loops, Order, Stamp, OnDisk, Entry,
       Tables, Dims, manifest, backend, batchVars, loop
<1>1. CASE CheckProvider
  BY <1>1 DEF CheckProvider
<1>2. CASE ClearFileHashes
  BY <1>2 DEF ClearFileHashes, Nothing
<1>3. CASE ClearEmbeddingCache
  BY <1>3 DEF ClearEmbeddingCache
<1>4. CASE SetProvider
  BY <1>4 DEF SetProvider
<1>5. CASE SetDim
  BY <1>5 DEF SetDim
<1>6. CASE EndWalk
  BY <1>6 DEF EndWalk
<1>7. CASE BeginBatch
  BY <1>7 DEF BeginBatch
<1>8. CASE SkipBatch
  BY <1>8 DEF SkipBatch, CompletesBatch
<1>9. CASE EndLoop
  BY <1>9 DEF EndLoop, NextLoop
<1>10. CASE EraseTable
  <2>1. pc \in Loops /\ table \in DOMAIN Order[pc] \ {"start"} /\ cursor \in left
    BY <1>10 DEF EraseTable
  <2>2. /\ Order[pc][table] \in (DOMAIN Order[pc] \ {"start"}) \cup {"end"}
        /\ Order[pc][table] \in Tables \cup {"imports", "manifest", "end"}
    BY <2>1, OrderNext
  <2>3. index' \in [Tables -> [File -> Entry \cup {None}]]
    BY <1>10, <2>1 DEF EraseTable
  <2>4. TypeOK'
    BY <1>10, <2>1, <2>2, <2>3 DEF EraseTable, Advance
  <2>5. LoopInv'
    BY <1>10, <2>1, <2>2 DEF EraseTable, Advance
  <2> QED BY <2>4, <2>5
<1>11. CASE WriteTable
  BY <1>11 DEF WriteTable, Advance
<1>12. CASE ResolveCalls
  BY <1>12 DEF ResolveCalls
<1>13. CASE CompleteBatch
  BY <1>13 DEF CompleteBatch, CompletesBatch, Nothing
<1>14. CASE EndBatches
  BY <1>14 DEF EndBatches
<1>15. CASE EndRetire
  BY <1>15 DEF EndRetire
<1>16. CASE EndReconcile
  BY <1>16 DEF EndReconcile
<1>17. CASE BeginGc
  BY <1>17 DEF BeginGc, CanOpen
<1>18. CASE EndGc
  BY <1>18 DEF EndGc
<1>19. ASSUME NEW f \in File, Edit(f) PROVE (TypeOK /\ LoopInv)'
  BY <1>19 DEF Edit
<1>20. ASSUME NEW f \in File, Delete(f) PROVE (TypeOK /\ LoopInv)'
  BY <1>20 DEF Delete
<1>21. ASSUME NEW f \in File, Visit(f) PROVE (TypeOK /\ LoopInv)'
  <2>1. CASE disk[f] = None
    BY <1>21, <2>1 DEF Visit
  <2>2. CASE disk[f] # None
    <3>1. disk[f].stamp \in 1..MaxStamp
      BY <2>2
    <3>2. seen' = [seen EXCEPT ![f] = disk[f].stamp] /\ todo' \in {todo, todo \cup {f}}
      BY <1>21, <2>2 DEF Visit
    <3> QED BY <1>21, <3>1, <3>2 DEF Visit
  <2> QED BY <2>1, <2>2
<1>22. ASSUME NEW f \in File, ReadFile(f) PROVE (TypeOK /\ LoopInv)'
  BY <1>22 DEF ReadFile
<1>23. ASSUME NEW f \in File, Embed(f) PROVE (TypeOK /\ LoopInv)'
  BY <1>23 DEF Embed
<1>24. ASSUME NEW f \in File, StartFile(f) PROVE (TypeOK /\ LoopInv)'
  BY <1>24 DEF StartFile
<1>25. ASSUME NEW f \in File, GcKeeps(f) PROVE (TypeOK /\ LoopInv)'
  BY <1>25 DEF GcKeeps
<1>26. ASSUME NEW p \in Provider, BeginRun(p) PROVE (TypeOK /\ LoopInv)'
  BY <1>26 DEF BeginRun, CanOpen, Initialize, Nothing
<1>27. ASSUME NEW p \in Provider, Search(p) PROVE (TypeOK /\ LoopInv)'
  BY <1>27 DEF Search, CanOpen, Initialize, Nothing
<1>28. ASSUME NEW b, RetireBatch(b) PROVE (TypeOK /\ LoopInv)'
  BY <1>28 DEF RetireBatch, Incomplete
<1>29. CASE Leave
  BY <1>29 DEF Leave, Nothing, Unseen
<1>30. CASE UNCHANGED vars
  BY <1>30 DEF vars
<1>31. CASE FindDuplicates
  <2>1. /\ dups = {} /\ dups' \in (SUBSET File) \cup {None}
        /\ UNCHANGED <<disk, clock, manifest, backend, runs, pc, cur, seen, batchVars,
                       loop>>
    BY <1>31 DEF FindDuplicates, Copies
  <2> QED BY <2>1
<1>32. CASE RemoveDuplicates
  BY <1>32 DEF RemoveDuplicates
<1>33. CASE AbandonDuplicates
  BY <1>33 DEF AbandonDuplicates
<1> QED
  BY <1>1, <1>2, <1>3, <1>4, <1>5, <1>6, <1>7, <1>8, <1>9, <1>10, <1>11,
     <1>12, <1>13, <1>14, <1>15, <1>16, <1>17, <1>18, <1>19, <1>20, <1>21,
     <1>22, <1>23, <1>24, <1>25, <1>26, <1>27, <1>28, <1>29, <1>30,
     <1>31, <1>32, <1>33 DEF Next, RunStep, Finish, Crash, ReadFails, Rest

\* The state of a run is well-typed at every step: in particular a file that
\* is written has been read, seen by the walk and embedded in the same run.
THEOREM RunTypeOK == Spec => [](TypeOK /\ LoopInv)
  BY InitShape, ShapeStep, PTL DEF Spec

-----------------------------------------------------------------------------
(* The metadata, and the provider of what is cached.                        *)

USE DEF TypeOK, LoopInv, BatchSteps, Staged, manifest, backend, batchVars, loop

LEMMA InitMeta == Init => MetaInv
  BY DEF Init, MetaInv, NoHashes, NoCache, BeforeMeta, CacheOfProvider

\* provMeta, dimMeta, file_hashes and the cache change in an order that keeps
\* them consistent wherever a run stops.
LEMMA MetaStep ==
  ASSUME TypeOK, LoopInv, MetaInv, [Next]_vars
  PROVE  MetaInv'
<1> USE DEF MetaInv, NoHashes, NoCache, BeforeMeta, CacheOfProvider
<1>1. CASE CheckProvider
  BY <1>1 DEF CheckProvider, ProviderChanged
<1>2. CASE ClearFileHashes
  BY <1>2 DEF ClearFileHashes, Nothing
<1>3. CASE ClearEmbeddingCache
  BY <1>3 DEF ClearEmbeddingCache
<1>4. CASE SetProvider
  BY <1>4 DEF SetProvider
<1>5. CASE SetDim
  <2>1. dimMeta' # 0 /\ dimMeta' = DimOf[cur]
    BY <1>5 DEF SetDim
  <2> QED BY <1>5, <2>1 DEF SetDim
<1>6. CASE EndWalk
  BY <1>6 DEF EndWalk
<1>7. CASE BeginBatch
  BY <1>7 DEF BeginBatch
<1>8. CASE SkipBatch
  BY <1>8 DEF SkipBatch, CompletesBatch
<1>9. CASE EndLoop
  BY <1>9 DEF EndLoop, NextLoop
<1>10. CASE EraseTable
  <2>1. /\ cursor \in File /\ UNCHANGED <<provMeta, dimMeta, cache, pc, cur>>
        /\ pc \in Loops /\ hashes' \in {hashes, [hashes EXCEPT ![cursor] = None]}
    BY <1>10 DEF EraseTable
  <2>2. NoHashes => hashes' = Nothing
    BY <2>1 DEF Nothing
  <2> QED BY <2>1, <2>2 DEF Loops, Order
<1>11. CASE WriteTable
  BY <1>11 DEF WriteTable, Advance, Loops, Order
<1>12. CASE ResolveCalls
  BY <1>12 DEF ResolveCalls
<1>13. CASE CompleteBatch
  BY <1>13 DEF CompleteBatch, CompletesBatch
<1>14. CASE EndBatches
  BY <1>14 DEF EndBatches
<1>15. CASE EndRetire
  BY <1>15 DEF EndRetire
<1>16. CASE EndReconcile
  BY <1>16 DEF EndReconcile
<1>17. CASE BeginGc
  BY <1>17 DEF BeginGc, CanOpen
<1>18. CASE EndGc
  BY <1>18 DEF EndGc
<1>19. ASSUME NEW f \in File, Edit(f) PROVE MetaInv'
  BY <1>19 DEF Edit
<1>20. ASSUME NEW f \in File, Delete(f) PROVE MetaInv'
  BY <1>20 DEF Delete
<1>21. ASSUME NEW f \in File, Visit(f) PROVE MetaInv'
  BY <1>21 DEF Visit
<1>22. ASSUME NEW f \in File, ReadFile(f) PROVE MetaInv'
  BY <1>22 DEF ReadFile
<1>23. ASSUME NEW f \in File, Embed(f) PROVE MetaInv'
  BY <1>23 DEF Embed
<1>24. ASSUME NEW f \in File, StartFile(f) PROVE MetaInv'
  BY <1>24 DEF StartFile, Loops, Order
<1>25. ASSUME NEW f \in File, GcKeeps(f) PROVE MetaInv'
  BY <1>25 DEF GcKeeps
<1>26. ASSUME NEW p \in Provider, BeginRun(p) PROVE MetaInv'
  BY <1>26 DEF BeginRun, CanOpen
<1>27. ASSUME NEW p \in Provider, Search(p) PROVE MetaInv'
  BY <1>27 DEF Search, CanOpen
<1>28. ASSUME NEW b, RetireBatch(b) PROVE MetaInv'
  BY <1>28 DEF RetireBatch, Incomplete
<1>29. CASE Leave
  BY <1>29 DEF Leave
<1>30. CASE UNCHANGED vars
  BY <1>30 DEF vars
<1>31. CASE FindDuplicates
  BY <1>31 DEF FindDuplicates
<1>32. CASE RemoveDuplicates
  BY <1>32 DEF RemoveDuplicates
<1>33. CASE AbandonDuplicates
  BY <1>33 DEF AbandonDuplicates
<1> QED
  BY <1>1, <1>2, <1>3, <1>4, <1>5, <1>6, <1>7, <1>8, <1>9, <1>10, <1>11,
     <1>12, <1>13, <1>14, <1>15, <1>16, <1>17, <1>18, <1>19, <1>20, <1>21,
     <1>22, <1>23, <1>24, <1>25, <1>26, <1>27, <1>28, <1>29, <1>30,
     <1>31, <1>32, <1>33 DEF Next, RunStep, Finish, Crash, ReadFails, Rest
-----------------------------------------------------------------------------
(* Stamps.                                                                  *)

LEMMA InitStamp == Init => StampInv
  BY DEF Init, StampInv, FileStamps, Visited, Behind, Uncommitted, Nothing, Unseen,
         OnDisk, BeforeMeta, Stamp

\* Edits give new stamps, and a run handles a file at the stamp its walk saw.
LEMMA StampStep ==
  ASSUME TypeOK, LoopInv, MetaInv, StampInv, [Next]_vars
  PROVE  StampInv'
<1> USE DEF StampInv, FileStamps, Visited, Behind, Uncommitted, BeforeMeta, OnDisk, Stamp
<1>1. CASE CheckProvider
  BY <1>1 DEF CheckProvider
<1>2. CASE ClearFileHashes
  BY <1>2 DEF ClearFileHashes, Nothing
<1>3. CASE ClearEmbeddingCache
  BY <1>3 DEF ClearEmbeddingCache
<1>4. CASE SetProvider
  BY <1>4 DEF SetProvider
<1>5. CASE SetDim
  BY <1>5 DEF SetDim
<1>6. CASE EndWalk
  BY <1>6 DEF EndWalk
<1>7. CASE BeginBatch
  <2>1. /\ pc = "next" /\ pc' = "read" /\ left' \subseteq todo /\ todo' \subseteq todo
        /\ UNCHANGED <<disk, clock, hashes, seen, staged, cursor>>
    BY <1>7 DEF BeginBatch
  <2>2. Staged = {}
    BY <2>1
  <2> QED BY <2>1, <2>2
<1>8. CASE SkipBatch
  BY <1>8 DEF SkipBatch, CompletesBatch
<1>9. CASE EndLoop
  <2>1. /\ pc' \in {"delete", "embed", "write", "calls", "resolve"}
        /\ pc \in {"read", "delete", "embed", "write", "calls"}
        /\ pc = "write" => left = {}
        /\ UNCHANGED <<disk, clock, hashes, seen, staged, cursor>>
    BY <1>9 DEF EndLoop, NextLoop
  <2>2. /\ pc = "read" => pc' = "delete"
        /\ pc = "delete" => pc' = "embed"
        /\ pc = "write" => pc' = "calls"
        /\ pc = "calls" => pc' = "resolve"
    BY <1>9 DEF EndLoop, NextLoop
  <2>3. /\ pc' = "write" => pc = "embed"
        /\ pc' \in {"delete", "embed"} => pc \in {"read", "delete", "embed"}
    BY <2>1, <2>2
  <2>4. ASSUME NEW f \in File PROVE FileStamps(f)'
    <3>1. Uncommitted(f)' => Uncommitted(f)
      BY <2>1, <2>2, <2>3
    <3>2. Visited(f)' => Visited(f)
      BY <2>1
    <3> HIDE DEF TypeOK, LoopInv, Uncommitted, Visited
    <3> QED BY <2>1, <3>1, <3>2
  <2> QED BY <2>1, <2>4
<1>10. CASE EraseTable
  BY <1>10 DEF EraseTable, Advance, Loops, Order
<1>11. CASE WriteTable
  BY <1>11 DEF WriteTable, Advance, Loops, Order
<1>12. CASE ResolveCalls
  BY <1>12 DEF ResolveCalls
<1>13. CASE CompleteBatch
  BY <1>13 DEF CompleteBatch, CompletesBatch, Nothing
<1>14. CASE EndBatches
  BY <1>14 DEF EndBatches
<1>15. CASE EndRetire
  BY <1>15 DEF EndRetire
<1>16. CASE EndReconcile
  BY <1>16 DEF EndReconcile
<1>17. CASE BeginGc
  BY <1>17 DEF BeginGc, CanOpen, Loops, Order
<1>18. CASE EndGc
  BY <1>18 DEF EndGc
<1>19. ASSUME NEW f \in File, Edit(f) PROVE StampInv'
  BY <1>19 DEF Edit
<1>20. ASSUME NEW f \in File, Delete(f) PROVE StampInv'
  BY <1>20 DEF Delete
<1>21. ASSUME NEW f \in File, Visit(f) PROVE StampInv'
  <2>1. CASE disk[f] = None
    BY <1>21, <2>1 DEF Visit
  <2>2. CASE disk[f] # None
    <3>1. /\ seen' = [seen EXCEPT ![f] = disk[f].stamp]
          /\ todo' \in {todo, todo \cup {f}}
          /\ UNCHANGED <<disk, clock, hashes, staged, pc, cursor>>
          /\ left' = left \ {f} /\ pc = "walk"
      BY <1>21, <2>2 DEF Visit
    <3>2. FileStamps(f)'
      BY <2>2, <3>1
    <3>3. ASSUME NEW g \in File \ {f} PROVE FileStamps(g)'
      BY <3>1, <3>3
    <3> QED BY <3>1, <3>2, <3>3
  <2> QED BY <2>1, <2>2
<1>22. ASSUME NEW f \in File, ReadFile(f) PROVE StampInv'
  BY <1>22 DEF ReadFile, Unchanged
<1>23. ASSUME NEW f \in File, Embed(f) PROVE StampInv'
  BY <1>23 DEF Embed
<1>24. ASSUME NEW f \in File, StartFile(f) PROVE StampInv'
  BY <1>24 DEF StartFile, Loops, Order
<1>25. ASSUME NEW f \in File, GcKeeps(f) PROVE StampInv'
  BY <1>25 DEF GcKeeps
<1>26. ASSUME NEW p \in Provider, BeginRun(p) PROVE StampInv'
  BY <1>26 DEF BeginRun, CanOpen
<1>27. ASSUME NEW p \in Provider, Search(p) PROVE StampInv'
  BY <1>27 DEF Search, CanOpen
<1>28. ASSUME NEW b, RetireBatch(b) PROVE StampInv'
  BY <1>28 DEF RetireBatch, Incomplete
<1>29. CASE Leave
  BY <1>29 DEF Leave, Nothing, Unseen
<1>30. CASE UNCHANGED vars
  BY <1>30 DEF vars
<1>31. CASE FindDuplicates
  BY <1>31 DEF FindDuplicates
<1>32. CASE RemoveDuplicates
  BY <1>32 DEF RemoveDuplicates
<1>33. CASE AbandonDuplicates
  BY <1>33 DEF AbandonDuplicates
<1> QED
  BY <1>1, <1>2, <1>3, <1>4, <1>5, <1>6, <1>7, <1>8, <1>9, <1>10, <1>11,
     <1>12, <1>13, <1>14, <1>15, <1>16, <1>17, <1>18, <1>19, <1>20, <1>21,
     <1>22, <1>23, <1>24, <1>25, <1>26, <1>27, <1>28, <1>29, <1>30,
     <1>31, <1>32, <1>33 DEF Next, RunStep, Finish, Crash, ReadFails, Rest
-----------------------------------------------------------------------------
(* Rows.                                                                    *)

LEMMA InitRow == Init => RowInv
  BY DEF Init, RowInv, MatchedIsIndexed, SameStamp, Nothing

\* A file whose rows a loop is about to change does not match the disk.
MatchesDisk(f) == disk[f] # None /\ SameStamp(f, disk[f].stamp)

LEMMA Unmatched ==
  ASSUME TypeOK, LoopInv, StampInv, cursor # None, pc \in Loops, pc # "calls"
  PROVE  ~ MatchesDisk(cursor)
<1>1. cursor \in File /\ cursor \in left /\ FileStamps(cursor)
  BY DEF StampInv
<1>2. CASE pc \in {"delete", "write"}
  <2>1. Uncommitted(cursor)
    BY <1>1, <1>2 DEF Uncommitted
  <2>2. SUFFICES ASSUME MatchesDisk(cursor) PROVE FALSE
    OBVIOUS
  <2>3. hashes[cursor].stamp = seen[cursor] /\ disk[cursor].stamp = seen[cursor]
    <3>1. seen[cursor] # 0
      BY <1>1, <1>2
    <3>2. /\ disk[cursor] \in OnDisk /\ hashes[cursor] \in OnDisk
          /\ hashes[cursor].stamp = disk[cursor].stamp
      BY <1>1, <2>2 DEF MatchesDisk, SameStamp
    <3>3. hashes[cursor].stamp <= seen[cursor] /\ seen[cursor] <= disk[cursor].stamp
      BY <1>1, <2>2, <3>1 DEF MatchesDisk, SameStamp, FileStamps
    <3>4. seen[cursor] \in Nat /\ disk[cursor].stamp \in Nat
      BY <1>1, <3>2 DEF OnDisk, Stamp
    <3>5. \A a, b \in Nat : a <= b /\ b <= a => a = b
      OBVIOUS
    <3> HIDE DEF TypeOK, LoopInv, Staged
    <3> QED BY <3>2, <3>3, <3>4, <3>5
  <2>4. hashes[cursor].content = staged[cursor]
    BY <1>1, <1>2, <2>2, <2>3 DEF MatchesDisk, SameStamp, FileStamps
  <2>5. hashes[cursor] = [stamp |-> seen[cursor], content |-> staged[cursor]]
    BY <1>1, <2>2, <2>3, <2>4 DEF MatchesDisk, SameStamp, OnDisk
  <2> QED BY <1>1, <2>1, <2>5 DEF FileStamps
<1>3. CASE pc \in {"reconcile", "gc"}
  <2>1. Behind(cursor)
    BY <1>1, <1>3 DEF StampInv, FileStamps, Visited, BeforeMeta
  <2> QED BY <1>1, <2>1 DEF Behind, MatchesDisk, SameStamp, OnDisk, Stamp
<1> QED BY <1>2, <1>3 DEF Loops, Order

\* Rows are written before the manifest entry that vouches for them.
LEMMA RowStep ==
  ASSUME SameDim, TypeOK, LoopInv, MetaInv, StampInv, RowInv, [Next]_vars
  PROVE  RowInv'
<1> USE DEF RowInv, MatchedIsIndexed, IsIndexed, Searched, SameStamp, Written, Has, Tables
<1>1. CASE CheckProvider
  BY <1>1 DEF CheckProvider
<1>2. CASE ClearFileHashes
  BY <1>2 DEF ClearFileHashes, Nothing
<1>3. CASE ClearEmbeddingCache
  BY <1>3 DEF ClearEmbeddingCache
<1>4. CASE SetProvider
  BY <1>4 DEF SetProvider, MetaInv, NoHashes, Nothing
<1>5. CASE SetDim
  BY <1>5 DEF SetDim
<1>6. CASE EndWalk
  BY <1>6 DEF EndWalk
<1>7. CASE BeginBatch
  BY <1>7 DEF BeginBatch
<1>8. CASE SkipBatch
  BY <1>8 DEF SkipBatch, CompletesBatch
<1>9. CASE EndLoop
  BY <1>9 DEF EndLoop, NextLoop
<1>10. CASE EraseTable
  <2>1. cursor \in File /\ UNCHANGED <<disk, provMeta, pc, vec, staged, cur>>
    BY <1>10 DEF EraseTable
  <2>2. pc = "calls" \/ ~ MatchesDisk(cursor)
    BY <1>10, Unmatched DEF EraseTable, Loops, Order
  <2>3. /\ \A f \in File \ {cursor} : \A t \in Tables :
              index'[t][f] = index[t][f] /\ hashes'[f] = hashes[f]
        /\ hashes'[cursor] \in {None, hashes[cursor]}
        /\ pc = "calls" => \A t \in Searched : index'[t] = index[t]
    BY <1>10 DEF EraseTable, Loops, Order
  <2>4. MatchedIsIndexed'
    BY <2>1, <2>2, <2>3 DEF MatchesDisk
  <2> QED BY <1>10, <2>1, <2>4 DEF EraseTable, Loops, Order
<1>11. CASE WriteTable
  <2>1. /\ cursor \in left /\ cursor \in Staged /\ pc = "write" /\ provMeta = cur
        /\ table \in {"row", "chunks", "imports", "symbols", "manifest"}
        /\ vec[cursor] = cur
        /\ UNCHANGED <<disk, provMeta, pc, vec, staged, seen, cur>>
    BY <1>11 DEF WriteTable, Order, MetaInv, BeforeMeta
  <2>2. ~ MatchesDisk(cursor)
    BY <2>1, Unmatched
  <2>3. \A f \in File \ {cursor} : \A t \in Tables :
            index'[t][f] = index[t][f] /\ hashes'[f] = hashes[f]
    BY <1>11, <2>1 DEF WriteTable
  <2>4. CASE table = "manifest"
    <3>1. /\ hashes'[cursor] = [stamp |-> seen[cursor], content |-> staged[cursor]]
          /\ index' = index /\ cursor' = None
      BY <1>11, <2>1, <2>4 DEF WriteTable, Advance, Order
    <3>2. \A t \in Searched : Written(cursor, t)
      BY <2>1, <2>4
    <3>3. disk[cursor] # None /\ disk[cursor].stamp = seen[cursor]
              => disk[cursor].content = staged[cursor]
      BY <2>1 DEF StampInv, FileStamps
    <3>4. ASSUME NEW f \in File, MatchesDisk(f)' PROVE IsIndexed(f, provMeta)'
      <4>1. CASE f = cursor
        <5>1. disk[f].content = staged[f]
          BY <2>1, <3>1, <3>3, <3>4, <4>1 DEF MatchesDisk
        <5> QED BY <2>1, <3>1, <3>2, <4>1, <5>1
      <4>2. CASE f # cursor
        BY <2>1, <2>3, <3>4, <4>2 DEF MatchesDisk
      <4> QED BY <4>1, <4>2
    <3>5. MatchedIsIndexed'
      BY <3>4 DEF MatchesDisk
    <3> QED BY <2>1, <3>1, <3>5
  <2>5. CASE table # "manifest"
    <3>1. hashes' = hashes /\ MatchedIsIndexed'
      <4>1. hashes' = hashes
        BY <1>11, <2>5 DEF WriteTable
      <4>2. ASSUME NEW f \in File, MatchesDisk(f)'
            PROVE  IsIndexed(f, provMeta)'
        <5>1. f # cursor /\ MatchesDisk(f)
          BY <2>1, <2>2, <4>1, <4>2 DEF MatchesDisk
        <5> QED BY <2>1, <2>3, <5>1 DEF MatchesDisk
      <4> QED BY <4>1, <4>2 DEF MatchesDisk
    <3>2. /\ cursor' = cursor \/ cursor' = None
          /\ table = "row" => table' = "chunks" /\ Written(cursor, "row")'
          /\ table = "chunks" => /\ table' = "imports" /\ Written(cursor, "chunks")'
                                 /\ index'["row"] = index["row"]
          /\ table = "imports" => table' = "symbols" /\ index' = index
          /\ table = "symbols" => /\ table' = "manifest" /\ Written(cursor, "symbols")'
                                  /\ index'["row"] = index["row"]
                                  /\ index'["chunks"] = index["chunks"]
      BY <1>11, <2>1 DEF WriteTable, Advance, Order
    <3>3. (pc = "write" /\ cursor # None)' => 
             /\ table' \notin {"row"} => Written(cursor, "row")'
             /\ table' \notin {"row", "chunks"} => Written(cursor, "chunks")'
             /\ table' = "manifest" => Written(cursor, "symbols")'
      BY <2>1, <2>5, <3>2
    <3> QED BY <2>1, <3>1, <3>3
  <2> QED BY <2>4, <2>5
<1>12. CASE ResolveCalls
  BY <1>12 DEF ResolveCalls
<1>13. CASE CompleteBatch
  BY <1>13 DEF CompleteBatch, CompletesBatch, Nothing
<1>14. CASE EndBatches
  BY <1>14 DEF EndBatches
<1>15. CASE EndRetire
  BY <1>15 DEF EndRetire
<1>16. CASE EndReconcile
  BY <1>16 DEF EndReconcile
<1>17. CASE BeginGc
  BY <1>17 DEF BeginGc, CanOpen
<1>18. CASE EndGc
  BY <1>18 DEF EndGc
<1>19. ASSUME NEW f \in File, Edit(f) PROVE RowInv'
  BY <1>19 DEF Edit, StampInv, FileStamps, OnDisk, Stamp
<1>20. ASSUME NEW f \in File, Delete(f) PROVE RowInv'
  BY <1>20 DEF Delete
<1>21. ASSUME NEW f \in File, Visit(f) PROVE RowInv'
  BY <1>21 DEF Visit
<1>22. ASSUME NEW f \in File, ReadFile(f) PROVE RowInv'
  BY <1>22 DEF ReadFile
<1>23. ASSUME NEW f \in File, Embed(f) PROVE RowInv'
  <2>1. /\ pc = "embed" /\ provMeta = cur /\ staged[f] \in Content
        /\ cache[<<f, staged[f]>>] \in {None, provMeta}
    BY <1>23 DEF Embed, MetaInv, BeforeMeta, CacheOfProvider
  <2>2. vec' = [vec EXCEPT ![f] = cur]
    BY <1>23, <2>1 DEF Embed
  <2> QED BY <1>23, <2>1, <2>2 DEF Embed
<1>24. ASSUME NEW f \in File, StartFile(f) PROVE RowInv'
  BY <1>24 DEF StartFile, Loops, Order
<1>25. ASSUME NEW f \in File, GcKeeps(f) PROVE RowInv'
  BY <1>25 DEF GcKeeps
<1>26. ASSUME NEW p \in Provider, BeginRun(p) PROVE RowInv'
  BY <1>26 DEF BeginRun, CanOpen, Initialize, SameDim, Dims
<1>27. ASSUME NEW p \in Provider, Search(p) PROVE RowInv'
  BY <1>27 DEF Search, CanOpen, Initialize, SameDim, Dims
<1>28. ASSUME NEW b, RetireBatch(b) PROVE RowInv'
  BY <1>28 DEF RetireBatch, Incomplete
<1>29. CASE Leave
  BY <1>29 DEF Leave, Nothing, Unseen
<1>30. CASE UNCHANGED vars
  BY <1>30 DEF vars
<1>31. CASE FindDuplicates
  BY <1>31 DEF FindDuplicates
<1>32. CASE RemoveDuplicates
  <2>1. /\ UNCHANGED <<disk, hashes, provMeta, pc, cur, staged, vec, left, cursor, table>>
        /\ \A t \in Tables \ {"chunks"} : index'[t] = index[t]
        /\ \A f \in File : index'["chunks"][f] \in {None, index["chunks"][f]}
    BY <1>32 DEF RemoveDuplicates
  <2>2. "dedup" \in Events
    BY <1>32 DEF RemoveDuplicates
  <2> QED BY <2>1, <2>2
<1>33. CASE AbandonDuplicates
  BY <1>33 DEF AbandonDuplicates
<1> QED
  BY <1>1, <1>2, <1>3, <1>4, <1>5, <1>6, <1>7, <1>8, <1>9, <1>10, <1>11,
     <1>12, <1>13, <1>14, <1>15, <1>16, <1>17, <1>18, <1>19, <1>20, <1>21,
     <1>22, <1>23, <1>24, <1>25, <1>26, <1>27, <1>28, <1>29, <1>30,
     <1>31, <1>32, <1>33 DEF Next, RunStep, Finish, Crash, ReadFails, Rest

\* What the walk of the next run would skip on (mtime, size) alone is in the
\* index, with the content on disk and vectors of the recorded provider: after
\* any edits, crashes, failed runs, removals of duplicates and changes between
\* providers of one dimension, for every number of files, batches and runs.
THEOREM SkippedFilesAreIndexed ==
  ASSUME SameDim PROVE Spec => []MatchedIsIndexed
<1>1. Spec => []MetaInv
  BY InitMeta, MetaStep, RunTypeOK, PTL DEF Spec
<1>2. Spec => []StampInv
  BY InitStamp, StampStep, RunTypeOK, <1>1, PTL DEF Spec
<1>3. TypeOK /\ LoopInv /\ MetaInv /\ StampInv /\ RowInv /\ [Next]_vars => RowInv'
  BY RowStep
<1>4. Spec => []RowInv
  BY InitRow, <1>3, RunTypeOK, <1>1, <1>2, PTL DEF Spec
<1>5. RowInv => MatchedIsIndexed
  BY DEF RowInv
<1> QED BY <1>4, <1>5, PTL

\* Whenever a run that changes the provider is stopped, no vector of another
\* provider than the recorded one stays in the embedding cache.
THEOREM CacheIsOfProvider == Spec => []CacheOfProvider
<1>1. Spec => []MetaInv
  BY InitMeta, MetaStep, RunTypeOK, PTL DEF Spec
<1>2. MetaInv => CacheOfProvider
  BY DEF MetaInv
<1> QED BY <1>1, <1>2, PTL
-----------------------------------------------------------------------------
(* What a run that succeeds has indexed.                                    *)

\* The run has not come to the file, or has not written its manifest entry yet.
ToCome(f) == f \in todo \/ (pc = "read" /\ f \in left) \/ Uncommitted(f)

\* A file that is as the walk saw it is to come, or its manifest entry matches.
SeenInv ==
    /\ pc \in BeforeMeta \cup {"setdim"} => seen = Unseen
    /\ pc \in {"retire", "reconcile", "done"} => todo = {}
    /\ \A f \in File :
          disk[f] # None /\ disk[f].stamp = seen[f] /\ disk[f].content \notin Unparsable
          => ToCome(f) \/ SameStamp(f, seen[f])

LEMMA InitSeen == Init => SeenInv
  BY DEF Init, SeenInv, Unseen, BeforeMeta, OnDisk, Stamp

\* A file leaves one of the sets that are to come for the next one, or because its
\* entry matches; no entry that matches is removed.
LEMMA SeenStep ==
  ASSUME TypeOK, LoopInv, MetaInv, StampInv, SeenInv, [Next]_vars
  PROVE  SeenInv'
<1> USE DEF SeenInv, ToCome, Uncommitted, SameStamp, BeforeMeta
<1>1. CASE CheckProvider
  BY <1>1 DEF CheckProvider
<1>2. CASE ClearFileHashes
  BY <1>2 DEF ClearFileHashes, Unseen, OnDisk, Stamp
<1>3. CASE ClearEmbeddingCache
  BY <1>3 DEF ClearEmbeddingCache
<1>4. CASE SetProvider
  BY <1>4 DEF SetProvider
<1>5. CASE SetDim
  BY <1>5 DEF SetDim
<1>6. CASE EndWalk
  BY <1>6 DEF EndWalk
<1>7. CASE BeginBatch
  BY <1>7 DEF BeginBatch
<1>8. CASE SkipBatch
  BY <1>8 DEF SkipBatch, CompletesBatch
<1>9. CASE EndLoop
  BY <1>9 DEF EndLoop, NextLoop
<1>10. CASE EraseTable
  <2>1. /\ cursor \in File /\ pc \in {"delete", "calls", "reconcile", "gc"}
        /\ UNCHANGED <<disk, pc, seen, todo, staged>>
        /\ \A f \in File \ {cursor} : hashes'[f] = hashes[f]
        /\ pc = "calls" => hashes' = hashes
    BY <1>10 DEF EraseTable, Loops, Order
  <2>2. pc # "calls" => ~MatchesDisk(cursor)
    BY <1>10, <2>1, Unmatched DEF EraseTable, Loops, Order
  <2>3. \A f \in File : ToCome(f)' <=> ToCome(f)
    BY <2>1
  <2>4. ASSUME NEW f \in File, disk[f] # None, disk[f].stamp = seen[f],
               disk[f].content \notin Unparsable, ~ToCome(f)
        PROVE  hashes'[f] = hashes[f] /\ SameStamp(f, seen[f])
    <3>1. SameStamp(f, seen[f])
      BY <2>4
    <3>2. pc # "calls" => f # cursor
      BY <2>2, <2>4, <3>1 DEF MatchesDisk
    <3> QED BY <2>1, <3>1, <3>2
  <2> HIDE DEF ToCome, Uncommitted
  <2> QED BY <2>1, <2>3, <2>4
<1>11. CASE WriteTable
  <2>1. /\ cursor \in File /\ pc = "write" /\ pc' = pc
        /\ UNCHANGED <<disk, seen, todo, staged>>
        /\ \/ left' = left /\ hashes' = hashes
           \/ /\ left' = left \ {cursor}
              /\ hashes' = [hashes EXCEPT ![cursor] =
                               [stamp |-> seen[cursor], content |-> staged[cursor]]]
    BY <1>11 DEF WriteTable, Advance, Order
  <2>2. seen[cursor] \in Nat /\ hashes \in [File -> OnDisk \cup {None}]
    BY <2>1 DEF Stamp
  <2>3. ASSUME left' = left \ {cursor},
               hashes' = [hashes EXCEPT ![cursor] =
                            [stamp |-> seen[cursor], content |-> staged[cursor]]]
        PROVE  /\ \A f \in File \ {cursor} : hashes'[f] = hashes[f]
               /\ hashes'[cursor] # None /\ hashes'[cursor].stamp = seen[cursor]
    <3>1. cursor \in left /\ staged[cursor] \in Content /\ seen[cursor] \in Stamp
      BY <1>11, <2>1 DEF WriteTable, Loops, Order
    <3> QED BY <2>2, <2>3, <3>1, <2>1 DEF Stamp
  <2> QED BY <2>1, <2>3
<1>12. CASE ResolveCalls
  BY <1>12 DEF ResolveCalls
<1>13. CASE CompleteBatch
  BY <1>13 DEF CompleteBatch, CompletesBatch, Nothing
<1>14. CASE EndBatches
  BY <1>14 DEF EndBatches
<1>15. CASE EndRetire
  BY <1>15 DEF EndRetire
<1>16. CASE EndReconcile
  BY <1>16 DEF EndReconcile
<1>17. CASE BeginGc
  BY <1>17 DEF BeginGc, CanOpen
<1>18. CASE EndGc
  BY <1>18 DEF EndGc
<1>19. ASSUME NEW f \in File, Edit(f) PROVE SeenInv'
  BY <1>19 DEF Edit, StampInv, FileStamps, OnDisk, Stamp
<1>20. ASSUME NEW f \in File, Delete(f) PROVE SeenInv'
  BY <1>20 DEF Delete
<1>21. ASSUME NEW f \in File, Visit(f) PROVE SeenInv'
  <2>1. CASE disk[f] = None
    BY <1>21, <2>1 DEF Visit
  <2>2. CASE disk[f] # None
    <3>1. /\ seen' = [seen EXCEPT ![f] = disk[f].stamp] /\ todo \subseteq todo'
          /\ f \in todo' \/ SameStamp(f, disk[f].stamp)
          /\ UNCHANGED <<disk, hashes, staged, pc>> /\ pc = "walk"
      BY <1>21, <2>2 DEF Visit
    <3>2. seen'[f] = disk[f].stamp /\ \A g \in File \ {f} : seen'[g] = seen[g]
      BY <3>1
    <3> QED BY <3>1, <3>2
  <2> QED BY <2>1, <2>2
<1>22. ASSUME NEW f \in File, ReadFile(f) PROVE SeenInv'
  <2>1. /\ f \in left /\ left' = left \ {f} /\ pc = "read" /\ disk[f] # None
        /\ UNCHANGED <<disk, hashes, seen, todo, pc>>
        /\ \A g \in File \ {f} : staged'[g] = staged[g]
    BY <1>22 DEF ReadFile
  <2>2. CASE Unchanged(f)
    <3>1. seen[f] \in Stamp /\ disk[f].content \in Content
      BY <2>1 DEF OnDisk
    <3>2. [stamp |-> seen[f], content |-> disk[f].content] # None
      BY <3>1 DEF Stamp
    <3>3. SameStamp(f, seen[f]) /\ staged' = staged
      BY <1>22, <2>2, <3>2 DEF ReadFile, Unchanged
    <3> QED BY <2>1, <3>3
  <2>3. CASE ~Unchanged(f) /\ disk[f].content \notin Unparsable
    <3>1. staged'[f] = disk[f].content /\ disk[f].content # None
      BY <1>22, <2>3 DEF ReadFile, OnDisk
    <3> QED BY <2>1, <3>1
  <2>4. CASE disk[f].content \in Unparsable
    BY <2>1, <2>4
  <2> QED BY <2>2, <2>3, <2>4
<1>23. ASSUME NEW f \in File, Embed(f) PROVE SeenInv'
  BY <1>23 DEF Embed
<1>24. ASSUME NEW f \in File, StartFile(f) PROVE SeenInv'
  BY <1>24 DEF StartFile
<1>25. ASSUME NEW f \in File, GcKeeps(f) PROVE SeenInv'
  BY <1>25 DEF GcKeeps
<1>26. ASSUME NEW p \in Provider, BeginRun(p) PROVE SeenInv'
  BY <1>26 DEF BeginRun, CanOpen
<1>27. ASSUME NEW p \in Provider, Search(p) PROVE SeenInv'
  BY <1>27 DEF Search, CanOpen
<1>28. ASSUME NEW b, RetireBatch(b) PROVE SeenInv'
  BY <1>28 DEF RetireBatch
<1>29. CASE Leave
  BY <1>29 DEF Leave, Nothing, Unseen, OnDisk, Stamp
<1>30. CASE UNCHANGED vars
  BY <1>30 DEF vars
<1>31. CASE FindDuplicates
  BY <1>31 DEF FindDuplicates
<1>32. CASE RemoveDuplicates
  BY <1>32 DEF RemoveDuplicates
<1>33. CASE AbandonDuplicates
  BY <1>33 DEF AbandonDuplicates
<1> QED
  BY <1>1, <1>2, <1>3, <1>4, <1>5, <1>6, <1>7, <1>8, <1>9, <1>10, <1>11,
     <1>12, <1>13, <1>14, <1>15, <1>16, <1>17, <1>18, <1>19, <1>20, <1>21,
     <1>22, <1>23, <1>24, <1>25, <1>26, <1>27, <1>28, <1>29, <1>30,
     <1>31, <1>32, <1>33 DEF Next, RunStep, Finish, Crash, ReadFails, Rest

\* A run that reports success has indexed every file it saw, unless the file was
\* edited since or cannot be parsed: whatever edits, crashes, failed runs and
\* removals of duplicates came before, for every number of files, batches and runs.
THEOREM RunMirrorsDisk ==
  ASSUME SameDim PROVE Spec => []MirrorsDisk
<1>1. Spec => []MetaInv
  BY InitMeta, MetaStep, RunTypeOK, PTL DEF Spec
<1>2. Spec => []StampInv
  BY InitStamp, StampStep, RunTypeOK, <1>1, PTL DEF Spec
<1>3. Spec => []SeenInv
  BY InitSeen, SeenStep, RunTypeOK, <1>1, <1>2, PTL DEF Spec
<1>4. ASSUME LoopInv, MetaInv, SeenInv, MatchedIsIndexed PROVE MirrorsDisk
  <2> SUFFICES ASSUME pc = "done", NEW f \in File,
                      disk[f] # None, disk[f].stamp = seen[f],
                      disk[f].content \notin Unparsable
               PROVE  IsIndexed(f, cur)
    BY DEF MirrorsDisk
  <2>1. ~ToCome(f)
    BY <1>4 DEF SeenInv, ToCome, Uncommitted
  <2>2. SameStamp(f, disk[f].stamp)
    BY <1>4, <2>1 DEF SeenInv
  <2>3. provMeta = cur
    BY <1>4 DEF MetaInv, BeforeMeta
  <2> QED BY <1>4, <2>2, <2>3 DEF MatchedIsIndexed
<1>5. SameDim => (Spec => []MatchedIsIndexed)
  BY SkippedFilesAreIndexed
<1> QED BY <1>1, <1>3, <1>4, <1>5, RunTypeOK, PTL
-----------------------------------------------------------------------------
(* What a file that is gone has left.                                       *)

\* One provider, no crashes and no garbage collections: a run that has begun to
\* write or to erase goes through, and the manifest loses no file but by erasing it.
Calm ==
    /\ \A p, q \in Provider : p = q
    /\ Events \cap {"crash", "gc"} = {}

EdgesOfFile(f) == {e \in imports : f \in {e[1], e[2]}}

\* The tables that a loop erases before it comes to t
ErasedBefore(t) ==
    CASE t = "imports"  -> {"chunks"}
      [] t = "symbols"  -> {"chunks", "imports"}
      [] t = "calls"    -> {"chunks", "imports", "symbols"}
      [] t = "row"      -> {"chunks", "imports", "symbols", "calls"}
      [] t = "manifest" -> {"chunks", "imports", "symbols", "calls", "row"}
      [] OTHER          -> {}

\* The manifest knows the files that have rows, but for the one being written; a
\* file that the walk did not find is known until all that it had is erased.
RowsKnown ==
    /\ pc \notin {"clearhashes", "clearcache", "gc", "collected"}
    /\ \A f \in File, t \in Tables :
          index[t][f] # None => hashes[f] # None \/ (pc = "write" /\ cursor = f)
    /\ pc = "write" => \A f \in Staged \ left : hashes[f] # None
    /\ pc \in {"calls", "resolve", "complete"} => \A f \in Staged : hashes[f] # None
    /\ pc = "reconcile" => \A f \in File : hashes[f] # None /\ seen[f] = 0 => f \in left
    /\ pc = "done" => \A f \in File : hashes[f] # None => seen[f] # 0
    /\ pc = "reconcile" /\ cursor # None =>
          \A t \in ErasedBefore(table) \ {"imports"} : index[t][cursor] = None

LEMMA InitKnown == Init => RowsKnown
  BY DEF Init, RowsKnown, Nothing, Tables

\* The provider is the one recorded, if there is one.
LEMMA SameProvider ==
  ASSUME Calm, TypeOK, LoopInv, pc = "check"
  PROVE  ~ProviderChanged
<1>1. cur \in Provider /\ provMeta \in Provider \cup {None}
  OBVIOUS
<1>2. dimMeta # 0 => dimMeta = DimOf[cur]
  BY <1>1 DEF Calm, Dims
<1> QED BY <1>1, <1>2 DEF ProviderChanged, Calm

LEMMA LoopTables ==
    /\ DOMAIN Order["delete"] = {"start", "chunks", "imports", "symbols"}
    /\ DOMAIN Order["calls"] = {"start", "calls"}
    /\ DOMAIN Order["reconcile"] =
          {"start", "chunks", "imports", "symbols", "calls", "row", "manifest"}
  BY DEF Order

LEMMA RowsStep ==
  ASSUME Calm, TypeOK, LoopInv, StampInv, RowsKnown, [Next]_vars
  PROVE  RowsKnown'
<1> USE DEF RowsKnown, Tables
<1>1. CASE CheckProvider
  BY <1>1, SameProvider DEF CheckProvider
<1>2. CASE ClearFileHashes
  BY <1>2 DEF ClearFileHashes
<1>3. CASE ClearEmbeddingCache
  BY <1>3 DEF ClearEmbeddingCache
<1>4. CASE SetProvider
  BY <1>4 DEF SetProvider
<1>5. CASE SetDim
  BY <1>5 DEF SetDim
<1>6. CASE EndWalk
  BY <1>6 DEF EndWalk
<1>7. CASE BeginBatch
  BY <1>7 DEF BeginBatch
<1>8. CASE SkipBatch
  BY <1>8 DEF SkipBatch, CompletesBatch
<1>9. CASE EndLoop
  <2>1. /\ pc' \in {"delete", "embed", "write", "calls", "resolve"}
        /\ pc' = "write" => left' = Staged
        /\ pc' = "calls" => pc = "write" /\ left = {}
        /\ pc' = "resolve" => pc = "calls"
        /\ UNCHANGED <<hashes, index, seen, staged, cursor>>
    BY <1>9 DEF EndLoop, NextLoop
  <2>2. pc # "write" \/ cursor = None
    BY <1>9 DEF EndLoop
  <2> QED BY <2>1, <2>2
<1>10. CASE EraseTable
  <2>1. /\ cursor \in File /\ cursor \in left /\ pc \in {"delete", "calls", "reconcile"}
        /\ UNCHANGED <<pc, seen, staged>>
        /\ \A f \in File \ {cursor} : \A t \in Tables :
              index'[t][f] = index[t][f] /\ hashes'[f] = hashes[f]
        /\ \A t \in Tables : index'[t][cursor] \in {None, index[t][cursor]}
        /\ pc # "reconcile" => hashes' = hashes
    <3>1. /\ cursor \in File /\ cursor \in left /\ pc \in {"delete", "calls", "reconcile"}
          /\ UNCHANGED <<pc, seen, staged>>
          /\ table \in DOMAIN Order[pc] \ {"start"}
          /\ pc # "reconcile" => table # "manifest"
      <4>1. pc \in {"delete", "calls", "reconcile"} /\ cursor # None
        BY <1>10 DEF EraseTable, Loops, Order
      <4>2. cursor \in File /\ cursor \in left /\ table \in DOMAIN Order[pc] \ {"start"}
        BY <4>1
      <4>3. pc # "reconcile" => table # "manifest"
        BY <4>1, <4>2, LoopTables
      <4> QED BY <1>10, <4>1, <4>2, <4>3 DEF EraseTable
    <3>2. /\ index' \in {index, [index EXCEPT ![table][cursor] = None]}
          /\ hashes' \in {hashes, [hashes EXCEPT ![cursor] = None]}
          /\ table # "manifest" => hashes' = hashes
      BY <1>10 DEF EraseTable
    <3>3. \A f \in File \ {cursor} : hashes'[f] = hashes[f]
      BY <3>1, <3>2
    <3>4. \A t \in Tables : /\ \A f \in File \ {cursor} : index'[t][f] = index[t][f]
                           /\ index'[t][cursor] \in {None, index[t][cursor]}
      BY <3>1, <3>2
    <3> QED BY <3>1, <3>2, <3>3, <3>4
  <2>2. CASE pc # "reconcile"
    BY <2>1, <2>2
  <2>3. CASE pc = "reconcile"
    <3>1. /\ table \in {"chunks", "imports", "symbols", "calls", "row", "manifest"}
          /\ cursor' \in {cursor, None}
          /\ seen[cursor] = 0
      BY <1>10, <2>1, <2>3 DEF EraseTable, Order, Advance, StampInv
    <3>2. CASE table = "manifest"
      <4>1. /\ index' = index /\ cursor' = None /\ left' = left \ {cursor}
            /\ hashes'[cursor] = None
        BY <1>10, <2>3, <3>2 DEF EraseTable, Order, Advance
      <4>2. \A t \in Tables : index[t][cursor] = None
        BY <1>10, <2>3, <3>2 DEF EraseTable, ErasedBefore
      <4> QED BY <2>1, <2>3, <4>1, <4>2
    <3>3. CASE table # "manifest"
      <4>1. hashes' = hashes /\ left' = left /\ cursor' = cursor
        BY <1>10, <2>3, <3>1, <3>3 DEF EraseTable, Order, Advance
      <4>2. \A t \in ErasedBefore(table') \ {"imports"} :
                t \in ErasedBefore(table) \cup {table} /\ t \in Tables
        BY <1>10, <2>3, <3>1, <3>3 DEF EraseTable, Order, Advance, ErasedBefore
      <4>3. table \in Tables => index'[table][cursor] = None
        BY <1>10, <2>1 DEF EraseTable
      <4>4. \A t \in ErasedBefore(table') \ {"imports"} : index'[t][cursor] = None
        BY <1>10, <2>1, <2>3, <4>2, <4>3 DEF EraseTable
      <4> QED BY <2>1, <2>3, <4>1, <4>4
    <3> QED BY <3>2, <3>3
  <2> QED BY <2>2, <2>3
<1>11. CASE WriteTable
  <2>1. /\ cursor \in File /\ cursor \in left /\ pc = "write" /\ pc' = pc
        /\ UNCHANGED <<seen, staged>>
        /\ \A f \in File \ {cursor} : \A t \in Tables : index'[t][f] = index[t][f]
    BY <1>11 DEF WriteTable
  <2>2. CASE table = "manifest"
    <3>1. /\ left' = left \ {cursor} /\ cursor' = None /\ index' = index
          /\ hashes' = [hashes EXCEPT ![cursor] =
                          [stamp |-> seen[cursor], content |-> staged[cursor]]]
      BY <1>11, <2>1, <2>2 DEF WriteTable, Advance, Order
    <3>2. [stamp |-> seen[cursor], content |-> staged[cursor]] # None
      <4>1. staged[cursor] \in Content /\ seen[cursor] \in Stamp
        BY <2>1
      <4> QED BY <4>1 DEF Stamp
    <3>3. hashes'[cursor] # None /\ \A f \in File \ {cursor} : hashes'[f] = hashes[f]
      BY <2>1, <3>1, <3>2
    <3> QED BY <2>1, <3>1, <3>3
  <2>3. CASE table # "manifest"
    <3>1. hashes' = hashes /\ left' = left /\ cursor' = cursor
      BY <1>11, <2>1, <2>3 DEF WriteTable, Advance, Order
    <3> QED BY <2>1, <3>1
  <2> QED BY <2>2, <2>3
<1>12. CASE ResolveCalls
  BY <1>12 DEF ResolveCalls
<1>13. CASE CompleteBatch
  BY <1>13 DEF CompleteBatch, CompletesBatch, Nothing
<1>14. CASE EndBatches
  BY <1>14 DEF EndBatches
<1>15. CASE EndRetire
  <2>1. /\ pc = "retire" /\ pc' = "reconcile" /\ cursor = None /\ cursor' = None
        /\ left' = {f \in File : hashes[f] # None /\ seen[f] = 0}
        /\ UNCHANGED <<hashes, index, seen, staged>>
    BY <1>15 DEF EndRetire, Loops, Order
  <2> QED BY <2>1
<1>16. CASE EndReconcile
  BY <1>16 DEF EndReconcile
<1>17. CASE BeginGc
  BY <1>17 DEF BeginGc, Calm
<1>18. CASE EndGc
  BY <1>18 DEF EndGc
<1>19. ASSUME NEW f \in File, Edit(f) PROVE RowsKnown'
  BY <1>19 DEF Edit
<1>20. ASSUME NEW f \in File, Delete(f) PROVE RowsKnown'
  BY <1>20 DEF Delete
<1>21. ASSUME NEW f \in File, Visit(f) PROVE RowsKnown'
  BY <1>21 DEF Visit
<1>22. ASSUME NEW f \in File, ReadFile(f) PROVE RowsKnown'
  BY <1>22 DEF ReadFile
<1>23. ASSUME NEW f \in File, Embed(f) PROVE RowsKnown'
  BY <1>23 DEF Embed
<1>24. ASSUME NEW f \in File, StartFile(f) PROVE RowsKnown'
  BY <1>24 DEF StartFile, Order, ErasedBefore
<1>25. ASSUME NEW f \in File, GcKeeps(f) PROVE RowsKnown'
  BY <1>25 DEF GcKeeps
<1>26. ASSUME NEW p \in Provider, BeginRun(p) PROVE RowsKnown'
  BY <1>26 DEF BeginRun, CanOpen, Initialize, Nothing
<1>27. ASSUME NEW p \in Provider, Search(p) PROVE RowsKnown'
  BY <1>27 DEF Search, CanOpen, Initialize, Nothing
<1>28. ASSUME NEW b, RetireBatch(b) PROVE RowsKnown'
  BY <1>28 DEF RetireBatch
<1>29. CASE Finish
  BY <1>29 DEF Finish, Leave, Nothing
<1>30. CASE UNCHANGED vars
  BY <1>30 DEF vars
<1>31. CASE FindDuplicates
  BY <1>31 DEF FindDuplicates
<1>32. CASE RemoveDuplicates
  BY <1>32 DEF RemoveDuplicates
<1>33. CASE AbandonDuplicates
  BY <1>33 DEF AbandonDuplicates
<1>34. ASSUME NEW f \in File, ReadFails(f) PROVE RowsKnown'
  BY <1>34 DEF ReadFails, Leave, Nothing
<1> QED
  BY <1>1, <1>2, <1>3, <1>4, <1>5, <1>6, <1>7, <1>8, <1>9, <1>10, <1>11,
     <1>12, <1>13, <1>14, <1>15, <1>16, <1>17, <1>18, <1>19, <1>20, <1>21,
     <1>22, <1>23, <1>24, <1>25, <1>26, <1>27, <1>28, <1>29, <1>30,
     <1>31, <1>32, <1>33, <1>34 DEF Next, RunStep, Crash, Rest, Calm

LEMMA RowsAreKnown ==
  ASSUME Calm PROVE Spec => []RowsKnown
<1>1. Spec => []MetaInv
  BY InitMeta, MetaStep, RunTypeOK, PTL DEF Spec
<1>2. Spec => []StampInv
  BY InitStamp, StampStep, RunTypeOK, <1>1, PTL DEF Spec
<1>3. Calm /\ TypeOK /\ LoopInv /\ StampInv /\ RowsKnown /\ [Next]_vars => RowsKnown'
  BY RowsStep
<1> QED BY InitKnown, <1>2, <1>3, RunTypeOK, PTL DEF Spec

\* With one provider, no crashes and no garbage collections, a file that a run did
\* not find has left no row in any table, even if it has appeared since: for every
\* number of files, batches, edits and runs that failed.
GoneHasNoRows ==
    pc = "done" => \A f \in File, t \in Tables : seen[f] = 0 => index[t][f] = None

THEOREM DeletedLeaveNoRows ==
  ASSUME Calm PROVE Spec => []GoneHasNoRows
<1>1. Calm => (Spec => []RowsKnown)
  BY RowsAreKnown
<1>2. RowsKnown => GoneHasNoRows
  BY DEF RowsKnown, GoneHasNoRows
<1> QED BY <1>1, <1>2, PTL

\* A file that is being forgotten has nothing left in the tables that the loop has
\* been to; a garbage collection leaves the call edges out.
ErasedInv ==
    pc \in {"reconcile", "gc"} /\ cursor # None =>
        /\ \A t \in ErasedBefore(table) \ {"imports"} :
              \/ t = "calls" /\ pc = "gc"
              \/ index[t][cursor] = None
        /\ "imports" \in ErasedBefore(table) => EdgesOfFile(cursor) = {}

LEMMA ForgetTables ==
  ASSUME NEW l \in {"reconcile", "gc"}, NEW t \in DOMAIN Order[l] \ {"start"}
  PROVE  /\ t \in Tables \cup {"imports", "manifest"}
         /\ t = "manifest" => Order[l][t] = "end"
         /\ t # "manifest" => Order[l][t] # "end"
         /\ t # "manifest" => \A u \in ErasedBefore(Order[l][t]) :
               u \in ErasedBefore(t) \cup {t} \/ (u = "calls" /\ l = "gc")
  BY DEF Order, Tables, ErasedBefore

\* The loop over one table of a file: nothing that was erased comes back.
LEMMA EraseKeeps ==
  ASSUME TypeOK, LoopInv, ErasedInv, EraseTable
  PROVE  ErasedInv'
<1> SUFFICES ASSUME pc' \in {"reconcile", "gc"}, cursor' # None PROVE ErasedInv'
  BY DEF ErasedInv
<1>1. /\ pc \in {"reconcile", "gc"} /\ pc' = pc
      /\ cursor \in File /\ table \in DOMAIN Order[pc] \ {"start"}
      /\ cursor' = cursor /\ table' = Order[pc][table] /\ table # "manifest"
      /\ \A t \in Tables : index'[t][cursor] \in {None, index[t][cursor]}
      /\ table \in Tables => index'[table][cursor] = None
      /\ imports' \subseteq imports
      /\ table = "imports" => EdgesOfFile(cursor)' = {}
  <2>1. pc \in {"reconcile", "gc"} /\ pc' = pc /\ cursor # None
    BY DEF EraseTable
  <2>2. cursor \in File /\ table \in DOMAIN Order[pc] \ {"start"}
    BY <2>1
  <2>3. cursor' = cursor /\ table' = Order[pc][table] /\ table # "manifest"
    BY <2>1, <2>2, ForgetTables DEF EraseTable, Advance
  <2>4. /\ \A t \in Tables : index'[t][cursor] \in {None, index[t][cursor]}
        /\ table \in Tables => index'[table][cursor] = None
    <3>1. CASE table \in Tables
      <4>1. index' = [index EXCEPT ![table][cursor] = None]
        BY <3>1 DEF EraseTable
      <4> QED BY <2>2, <3>1, <4>1 DEF Tables
    <3>2. CASE table \notin Tables
      BY <3>2 DEF EraseTable
    <3> QED BY <3>1, <3>2
  <2>5. imports' \subseteq imports
    BY DEF EraseTable
  <2>6. table = "imports" => EdgesOfFile(cursor)' = {}
    BY <2>3 DEF EraseTable, EdgesOfFile
  <2> QED BY <2>1, <2>2, <2>3, <2>4, <2>5, <2>6
<1>2. \A u \in ErasedBefore(table') :
          u \in ErasedBefore(table) \/ u = table \/ (u = "calls" /\ pc = "gc")
  BY <1>1, ForgetTables
<1>3. ASSUME NEW t \in ErasedBefore(table') \ {"imports"}, ~(t = "calls" /\ pc = "gc")
      PROVE  index'[t][cursor] = None
  <2>1. t \in Tables
    BY <1>1 DEF ErasedBefore, Tables
  <2>2. t \in ErasedBefore(table) \/ t = table
    BY <1>2, <1>3
  <2>3. t \in ErasedBefore(table) => index[t][cursor] = None
    BY <1>1, <1>3 DEF ErasedInv
  <2> QED BY <1>1, <2>1, <2>2, <2>3
<1>4. "imports" \in ErasedBefore(table') => EdgesOfFile(cursor)' = {}
  <2>1. ASSUME "imports" \in ErasedBefore(table')
        PROVE  "imports" \in ErasedBefore(table) \/ table = "imports"
    BY <1>2, <2>1
  <2>2. "imports" \in ErasedBefore(table) => EdgesOfFile(cursor) = {}
    BY <1>1 DEF ErasedInv
  <2>3. EdgesOfFile(cursor)' \subseteq EdgesOfFile(cursor)
    BY <1>1 DEF EdgesOfFile
  <2> QED BY <1>1, <2>1, <2>2, <2>3
<1> QED BY <1>1, <1>3, <1>4 DEF ErasedInv

LEMMA ErasedStep ==
  ASSUME TypeOK, LoopInv, ErasedInv, [Next]_vars
  PROVE  ErasedInv'
<1> USE DEF ErasedInv, EdgesOfFile, Loops, Order
<1>1. CASE EraseTable
  BY <1>1, EraseKeeps
<1>2. ASSUME NEW f \in File, StartFile(f) PROVE ErasedInv'
  <2>1. pc' \in {"reconcile", "gc"} => table' = "chunks"
    BY <1>2 DEF StartFile
  <2> QED BY <2>1 DEF ErasedBefore
<1>3. CASE RemoveDuplicates
  <2>1. /\ \A t \in DOMAIN index : \A f \in File :
              index'[t][f] \in {None, index[t][f]}
        /\ UNCHANGED <<pc, cursor, table, imports>>
    BY <1>3 DEF RemoveDuplicates, Tables
  <2>2. \A t \in ErasedBefore(table) \ {"imports"} : t \in DOMAIN index
    BY DEF ErasedBefore, Tables
  <2> QED BY <2>1, <2>2
<1>4. ASSUME NEW p \in Provider, BeginRun(p) \/ Search(p) PROVE ErasedInv'
  BY <1>4 DEF BeginRun, Search, CanOpen
<1>5. CASE BeginGc \/ EndRetire
  BY <1>5 DEF BeginGc, EndRetire, CanOpen
<1>6. CASE WriteTable \/ ResolveCalls
  BY <1>6 DEF WriteTable, ResolveCalls
<1>7. CASE Leave
  BY <1>7 DEF Leave
<1>8. ASSUME NEW f \in File, \/ Edit(f) \/ Delete(f) \/ Visit(f) \/ ReadFile(f)
                             \/ Embed(f) \/ GcKeeps(f)
      PROVE ErasedInv'
  <2>1. UNCHANGED <<pc, cursor, table, index, imports>>
    BY <1>8 DEF Edit, Delete, Visit, ReadFile, Embed, GcKeeps
  <2> QED BY <2>1
<1>9. ASSUME NEW b, RetireBatch(b) PROVE ErasedInv'
  BY <1>9 DEF RetireBatch
<1>10. CASE FindDuplicates \/ AbandonDuplicates \/ UNCHANGED vars
  <2>1. UNCHANGED <<pc, cursor, table, index, imports>>
    BY <1>10 DEF FindDuplicates, AbandonDuplicates, vars
  <2> QED BY <2>1
<1>11. CASE \/ CheckProvider \/ ClearFileHashes \/ ClearEmbeddingCache \/ SetProvider
            \/ SetDim \/ EndWalk \/ BeginBatch \/ SkipBatch \/ CompleteBatch
            \/ EndBatches \/ EndReconcile \/ EndGc
  <2>1. pc' \notin {"reconcile", "gc"}
    BY <1>11 DEF CheckProvider, ClearFileHashes, ClearEmbeddingCache, SetProvider,
                 SetDim, EndWalk, BeginBatch, SkipBatch, CompleteBatch, EndBatches,
                 EndReconcile, EndGc
  <2> QED BY <2>1
<1>12. CASE EndLoop
  BY <1>12 DEF EndLoop, NextLoop
<1> QED
  BY <1>1, <1>2, <1>3, <1>4, <1>5, <1>6, <1>7, <1>8, <1>9, <1>10, <1>11, <1>12
     DEF Next, RunStep, Finish, Crash, ReadFails, Rest

\* A step that loses a manifest entry, with the provider kept, is the last one of the
\* loop over a file.
LEMMA ForgetStep ==
  ASSUME TypeOK, LoopInv, [Next]_vars, NEW f \in File,
         hashes[f] # None, hashes'[f] = None, pc # "clearhashes"
  PROVE  /\ pc \in {"reconcile", "gc"} /\ cursor = f /\ table = "manifest"
         /\ EraseTable
<1>1. EraseTable \/ WriteTable
  <2>1. ASSUME NEW g \in File, \/ Edit(g) \/ Delete(g) \/ Visit(g) \/ ReadFile(g)
                               \/ Embed(g) \/ StartFile(g) \/ GcKeeps(g)
        PROVE  hashes' = hashes
    BY <2>1 DEF Edit, Delete, Visit, ReadFile, Embed, StartFile, GcKeeps
  <2>2. ASSUME NEW p \in Provider, BeginRun(p) \/ Search(p) PROVE hashes' = hashes
    BY <2>2 DEF BeginRun, Search
  <2>3. ASSUME NEW b, RetireBatch(b) PROVE hashes' = hashes
    BY <2>3 DEF RetireBatch
  <2>4. CASE \/ CheckProvider \/ ClearEmbeddingCache \/ SetProvider \/ SetDim
             \/ EndWalk \/ BeginBatch \/ SkipBatch \/ EndLoop \/ ResolveCalls
             \/ CompleteBatch \/ EndBatches \/ EndRetire \/ EndReconcile \/ EndGc
             \/ BeginGc \/ Leave \/ FindDuplicates \/ RemoveDuplicates
             \/ AbandonDuplicates \/ UNCHANGED vars
    <3>1. hashes' = hashes
      BY <2>4 DEF CheckProvider, ClearEmbeddingCache, SetProvider, SetDim, EndWalk,
                  BeginBatch, SkipBatch, EndLoop, ResolveCalls, CompleteBatch,
                  EndBatches, EndRetire, EndReconcile, EndGc, BeginGc, Leave,
                  FindDuplicates, RemoveDuplicates, AbandonDuplicates, vars
    <3> QED BY <3>1
  <2>5. ~ClearFileHashes
    BY DEF ClearFileHashes
  <2> QED BY <2>1, <2>2, <2>3, <2>4, <2>5
       DEF Next, RunStep, Finish, Crash, ReadFails, Rest
<1>2. ~WriteTable
  <2> SUFFICES ASSUME WriteTable PROVE FALSE
    OBVIOUS
  <2>1. pc = "write" /\ cursor \in left /\ cursor \in File
    BY DEF WriteTable
  <2>2. staged[cursor] \in Content /\ seen[cursor] \in Stamp
    BY <2>1 DEF Stamp
  <2>3. hashes' \in {hashes, [hashes EXCEPT ![cursor] =
                        [stamp |-> seen[cursor], content |-> staged[cursor]]]}
    BY DEF WriteTable
  <2>4. [stamp |-> seen[cursor], content |-> staged[cursor]] # None
    BY <2>2, IndexAssumption DEF Stamp
  <2> QED BY <2>1, <2>3, <2>4
<1>3. EraseTable
  BY <1>1, <1>2
<1>4. pc \in Loops /\ pc # "write" /\ cursor \in File /\ table \in DOMAIN Order[pc] \ {"start"}
  BY <1>3 DEF EraseTable
<1>5. table = "manifest" /\ cursor = f
  BY <1>3, <1>4 DEF EraseTable
<1>6. pc \in {"reconcile", "gc"}
  <2>1. pc \in {"delete", "calls", "reconcile", "gc"}
    BY <1>4 DEF Loops, Order
  <2>2. CASE pc = "delete"
    BY <1>4, <1>5, <2>2, LoopTables
  <2>3. CASE pc = "calls"
    BY <1>4, <1>5, <2>3, LoopTables
  <2> QED BY <2>1, <2>2, <2>3
<1> QED BY <1>3, <1>5, <1>6

\* What the manifest forgets has left nothing in the backend, for all files, batches,
\* providers and events: edits at any time, crashes, failed runs, runs with another
\* provider, garbage collections and deduplications.
THEOREM ForgottenLeaveNothing == Spec => ForgottenAreGone
<1>1. Init => ErasedInv
  BY DEF Init, ErasedInv
<1>2. Spec => []ErasedInv
  BY <1>1, ErasedStep, RunTypeOK, PTL DEF Spec
<1>3. TypeOK /\ LoopInv /\ ErasedInv /\ [Next]_vars =>
        [\A f \in File : hashes[f] # None /\ hashes'[f] = None /\ pc # "clearhashes" =>
          /\ \A t \in IF pc = "gc" THEN Tables \ {"calls"} ELSE Tables : index[t][f] = None
          /\ \A e \in imports : f \notin {e[1], e[2]}]_vars
  <2> SUFFICES ASSUME TypeOK, LoopInv, ErasedInv, [Next]_vars, NEW f \in File,
                      hashes[f] # None, hashes'[f] = None, pc # "clearhashes"
               PROVE  /\ \A t \in IF pc = "gc" THEN Tables \ {"calls"} ELSE Tables :
                            index[t][f] = None
                      /\ \A e \in imports : f \notin {e[1], e[2]}
    OBVIOUS
  <2>1. pc \in {"reconcile", "gc"} /\ cursor = f /\ table = "manifest"
    BY ForgetStep
  <2>2. cursor # None
    BY <2>1, IndexAssumption
  <2>3. /\ \A t \in Tables : (t = "calls" /\ pc = "gc") \/ index[t][f] = None
        /\ EdgesOfFile(f) = {}
    BY <2>1, <2>2 DEF ErasedInv, ErasedBefore, Tables
  <2> QED BY <2>1, <2>3 DEF EdgesOfFile
<1> QED BY <1>2, <1>3, RunTypeOK, PTL DEF Spec, ForgottenAreGone

-----------------------------------------------------------------------------
(* Dimensions.                                                              *)

\* Between runs nothing is in memory; a run's vectors fit the table it writes.
FitsInv ==
    /\ FitsTable
    /\ \A f \in File :
          vec[f] # None => cur \in Provider /\ DimOf[vec[f]] = DimOf[cur]
    /\ pc \in {"idle", "gc", "collected"} => cur = None

LEMMA InitFits == Init => FitsInv
  BY DEF Init, FitsInv, FitsTable, Nothing, Tables

\* The table changes its dimension only when nobody has vectors in memory.
LEMMA FitsStep ==
  ASSUME TypeOK, LoopInv, FitsInv, [Next]_vars
  PROVE  FitsInv'
<1> USE DEF FitsInv, FitsTable
<1>1. CASE \/ CheckProvider \/ ClearFileHashes \/ ClearEmbeddingCache \/ SetProvider
           \/ SetDim \/ EndWalk \/ BeginBatch \/ SkipBatch \/ EndBatches \/ EndRetire
           \/ EndReconcile \/ BeginGc \/ EndGc \/ FindDuplicates \/ AbandonDuplicates
  <2>1. /\ UNCHANGED <<index, tableDim, cur, vec>>
        /\ pc' \in {"idle", "gc", "collected"} => pc \in {"idle", "gc", "collected"}
    BY <1>1 DEF CheckProvider, ClearFileHashes, ClearEmbeddingCache, SetProvider, SetDim,
       EndWalk, BeginBatch, SkipBatch, CompletesBatch, EndBatches, EndRetire,
       EndReconcile, BeginGc, CanOpen, EndGc, FindDuplicates, AbandonDuplicates,
       manifest, backend, batchVars, loop
  <2> QED BY <2>1
<1>2. CASE EndLoop
  <2>1. /\ UNCHANGED <<index, tableDim, cur, vec>>
        /\ pc' \in {"delete", "embed", "write", "calls", "resolve"}
    BY <1>2 DEF EndLoop, NextLoop, manifest, backend, batchVars
  <2> QED BY <2>1
<1>3. CASE EraseTable
  <2>1. /\ UNCHANGED <<tableDim, cur, vec, pc>>
        /\ \A f \in File : index'["chunks"][f] \in {None, index["chunks"][f]}
    BY <1>3 DEF EraseTable, TypeOK, Tables, batchVars
  <2> QED BY <2>1
<1>4. CASE WriteTable
  <2>1. /\ UNCHANGED <<tableDim, cur, vec, pc>>
        /\ cursor \in File /\ vec[cursor] # None
    BY <1>4 DEF WriteTable, LoopInv, TypeOK, Loops, Order, batchVars
  <2>2. /\ \A f \in File \ {cursor} : index'["chunks"][f] = index["chunks"][f]
        /\ \/ index'["chunks"][cursor] = index["chunks"][cursor]
           \/ index'["chunks"][cursor].by = vec[cursor]
    BY <1>4, <2>1 DEF WriteTable, TypeOK, Tables
  <2>3. cur \in Provider /\ DimOf[vec[cursor]] = tableDim /\ cur # None
    BY <2>1
  <2> QED BY <2>1, <2>2, <2>3
<1>5. CASE ResolveCalls
  BY <1>5 DEF ResolveCalls, TypeOK, Tables, batchVars
<1>6. CASE CompleteBatch
  BY <1>6 DEF CompleteBatch, CompletesBatch, Nothing, backend
<1>7. CASE Leave
  BY <1>7 DEF Leave, Nothing, backend
<1>8. ASSUME NEW f \in File, Edit(f) \/ Delete(f) PROVE FitsInv'
  BY <1>8 DEF Edit, Delete, backend, batchVars
<1>9. ASSUME NEW f \in File,
             Visit(f) \/ ReadFile(f) \/ StartFile(f) \/ GcKeeps(f)
      PROVE  FitsInv'
  BY <1>9 DEF Visit, ReadFile, StartFile, GcKeeps, backend, batchVars
<1>10. ASSUME NEW f \in File, Embed(f) PROVE FitsInv'
  <2>1. /\ UNCHANGED <<index, tableDim, cur, pc>>
        /\ pc = "embed" /\ cur \in Provider
    BY <1>10 DEF Embed, LoopInv, backend
  <2>2. \E by \in Provider : DimOf[by] = DimOf[cur] /\ vec' = [vec EXCEPT ![f] = by]
    <3> DEFINE hit == cache[<<f, staged[f]>>]
               by == IF hit # None /\ DimOf[hit] = DimOf[cur] THEN hit ELSE cur
    <3>1. staged[f] \in Content
      BY <1>10 DEF Embed, LoopInv, TypeOK, Staged
    <3>2. hit \in Provider \cup {None}
      BY <3>1 DEF TypeOK
    <3>3. by \in Provider /\ DimOf[by] = DimOf[cur]
      BY <2>1, <3>2
    <3>4. vec' = [vec EXCEPT ![f] = by]
      BY <1>10 DEF Embed
    <3> QED BY <3>3, <3>4
  <2> QED BY <2>1, <2>2 DEF TypeOK
<1>11. ASSUME NEW p \in Provider, BeginRun(p) \/ Search(p) PROVE FitsInv'
  <2>1. /\ pc = "idle" /\ \A f \in File : vec[f] = None
        /\ vec' = vec /\ tableDim' = DimOf[p] /\ Initialize(DimOf[p])
        /\ \/ cur' = p /\ pc' = "check"
           \/ cur' = cur /\ pc' = pc
    BY <1>11 DEF BeginRun, Search, CanOpen, Initialize, batchVars
  <2>2. \A f \in File : \/ index'["chunks"][f] = None
                        \/ index' = index /\ tableDim \in {0, DimOf[p]}
    BY <2>1 DEF Initialize, Nothing, TypeOK, Tables
  <2>3. \A f \in File : index["chunks"][f] # None => tableDim # 0
    BY DEF TypeOK, Tables, Entry
  <2> QED BY <2>1, <2>2, <2>3
<1>12. ASSUME NEW b, RetireBatch(b) PROVE FitsInv'
  BY <1>12 DEF RetireBatch, backend, batchVars
<1>13. CASE RemoveDuplicates
  BY <1>13 DEF RemoveDuplicates, TypeOK, Tables, batchVars
<1>14. CASE UNCHANGED vars
  BY <1>14 DEF vars
<1> QED
  BY <1>1, <1>2, <1>3, <1>4, <1>5, <1>6, <1>7, <1>8, <1>9, <1>10, <1>11, <1>12, <1>13,
     <1>14 DEF Next, RunStep, Finish, Crash, ReadFails, Rest

\* Vectors in the chunks table, and those a run is about to write, always have
\* the dimension of the table, whichever searches and runs replace it.
THEOREM RowsFitTable == Spec => []FitsTable
<1>1. Spec => []FitsInv
  BY InitFits, FitsStep, RunTypeOK, PTL DEF Spec
<1>2. FitsInv => FitsTable
  BY DEF FitsInv
<1> QED BY <1>1, <1>2, PTL
=============================================================================
