------------------------- MODULE CompositeBackend_proof -------------------------
(***************************************************************************)
(* Proofs about CompositeBackend, for any files, contents, passes and      *)
(* faults: the documents of the full-text index, the postings of the       *)
(* sparse index and the graph of imports agree with their tables.          *)
(*                                                                         *)
(* None of it holds within a call. The invariant says where a pass stands  *)
(* (PassInv), what is left of the file at each of its calls (TurnInv), and *)
(* what postings and edges the second half of a call is to bring           *)
(* (PostingsInv, EdgesInv). A file that is written has no manifest entry   *)
(* that matches, so that SettledInv needs no exception.                    *)
(*                                                                         *)
(* The graph is made by loops over sequences. An induction over the turns  *)
(* of a loop is stated of a set: the turns whose result is as it should be *)
(* (Induction, from the least turn that is not one of them).               *)
(***************************************************************************)
EXTENDS CompositeBackend, Integers, FiniteSetTheorems, WellFoundedInduction, TLAPS

PassOps ==
    {"unchunk", "unlink", "unsparse", "chunk", "store", "link", "record", "complete", "forget"}

Writing == call.op \in PassOps \ {"complete"}

\* Where a pass stands: a file that it writes was read, is not recorded as it is, and
\* has something to write from "chunk" on.
PassInv ==
    /\ half \in {1, 2}
    /\ call.op \in PassOps \cup {"next", "end"}
    /\ call.op \in {"next", "end"} => half = 1
    /\ Idle => todo = {} /\ incomplete = {}
    /\ ~Idle => open
    /\ call.op \in PassOps => This \in Files
    /\ todo \subseteq Files /\ incomplete \subseteq pending /\ pending \subseteq Files
    /\ matched \subseteq hashed /\ hashed \subseteq Files
    /\ want \in [Files -> Found]
    /\ \A f \in matched : want[f] \in Contents
    /\ Writing => This \notin matched /\ want[This] \in Contents \cup {Gone}
    /\ call.op \in {"chunk", "store", "link", "record"} => want[This] \in Contents

\* RecordedIsFindable and FoundIsRecorded
SettledInv ==
    /\ \A r \in chunks : r.file \in matched /\ r.text # Blank => r \in docs
    /\ \A d \in docs, r \in chunks : Key(r) = Key(d) => r = d

\* The calls at which the table chunks has nothing of the file
Unchunked ==
    \/ call.op = "unchunk" /\ half = 2
    \/ call.op \in {"unlink", "unsparse"}
    \/ call.op = "chunk" /\ half = 1

\* From the first half of "unchunk" on the file has no rows, and from the second
\* on no documents, until the two halves of "chunk" write them again; each row has
\* its document then, until the manifest records the file.
TurnInv ==
    /\ Unchunked => OfFile(chunks, This) = {}
    /\ call.op \in {"unlink", "unsparse", "chunk"} => OfFile(docs, This) = {}
    /\ call.op = "chunk" /\ half = 2 => OfFile(chunks, This) = NewRows
    /\ call.op \in {"store", "link", "record"} =>
          \A r \in OfFile(chunks, This) : r.text # Blank => r \in docs

\* The rows that are posted once the call is over
Posted ==
    CASE call.op = "unsparse" /\ half = 2 -> {r \in DOMAIN postings : r.file # This}
      [] call.op = "store" /\ half = 2    -> DOMAIN postings \cup NewRows
      [] OTHER                            -> DOMAIN postings

\* The copy of the sparse table is whole if no table was passed over.
Whole == loaded /\ "sparse_index" \notin unopened

PostingsInv ==
    /\ open => Posted \subseteq sparse /\ (Whole => Posted = sparse)
    /\ call.op = "unsparse" /\ half = 2 /\ "sparse_index" \notin unopened =>
          OfFile(sparse, This) = {}

\* The types of what a pass reads and writes
TablesInv ==
    /\ chunks \subseteq Row /\ docs \subseteq Row /\ sparse \subseteq Row
    /\ edges \subseteq Files \X Files
    /\ open \in BOOLEAN /\ ready \in BOOLEAN /\ loaded \in BOOLEAN
    /\ DOMAIN postings \subseteq Row
    /\ unopened \subseteq {"code_edges", "sparse_index"}
    /\ task \in {"none", "rank", "rankAdd", "role", "roleAdd"}
    /\ passes \in 0..MaxPasses

\* Graphs of petgraph's arrays: an edge is in one place, and has one age.
Distinct(s) == \A i, j \in DOMAIN s : s[i] = s[j] => i = j

Graph(F) ==
    {g \in [nodes : SUBSET F, slots : Seq(F \X F), age : Seq(F \X F)] :
        /\ Distinct(g.slots) /\ Distinct(g.age) /\ ToSet(g.age) = EdgesOf(g)
        /\ EdgesOf(g) \subseteq g.nodes \X g.nodes}

GraphInv == graph \in Graph(Files)

\* The edges that the second half of a call is to bring to the graph
Due == IF call.op = "link" /\ half = 2 THEN ImportsOf(This) ELSE {}

\* Where no file imports itself, the ids that delete_edges_for_file collects are
\* those of distinct edges, all of them of the file.
EdgesInv ==
    /\ \A e \in edges \cup EdgesOf(graph) : e[1] # e[2]
    /\ call.op = "unlink" /\ half = 2 => \A e \in edges : This \notin {e[1], e[2]}
    /\ ready /\ "code_edges" \notin unopened => edges \subseteq EdgesOf(graph) \cup Due

Inv == PassInv /\ SettledInv /\ TurnInv /\ PostingsInv

LEMMA RowsOfFile ==
  ASSUME NEW f, NEW c \in Contents, NEW tier
  PROVE  /\ \A r \in RowsOf(f, c, tier) : r.file = f
         /\ \A r, s \in RowsOf(f, c, tier) : Key(r) = Key(s) => r = s
<1>1. DOMAIN c.texts \subseteq Nat
  BY BackendAssumption
<1> QED BY <1>1 DEF RowsOf, Key

LEMMA NewRowsOfFile ==
  ASSUME PassInv, call.op \in {"chunk", "store"}
  PROVE  /\ \A r \in NewRows : r.file = This
         /\ \A r, s \in NewRows : Key(r) = Key(s) => r = s
<1>1. want[This] \in Contents
  BY DEF PassInv, Idle
<1> QED BY <1>1, RowsOfFile DEF NewRows

LEMMA SameRows ==
  ASSUME UNCHANGED <<call, want>>
  PROVE  NewRows' = NewRows /\ This' = This
  BY DEF NewRows, This

\* What follows a call on the same file
Follow ==
    \/ call.op = "unchunk" /\ call'.op = "unlink"
    \/ call.op = "unlink" /\ call'.op = "unsparse"
    \/ call.op = "unsparse" /\ want[This] = Gone /\ call'.op = "forget"
    \/ call.op = "unsparse" /\ want[This] # Gone /\ call'.op \in {"link", "chunk"}
    \/ call.op = "chunk" /\ call'.op = "store"
    \/ call.op = "store" /\ call'.op = "link"
    \/ call.op = "link" /\ call'.op = "record"
    \/ call.op = "record" /\ call'.op = "complete"

\* A call that is done leads to the next one on the file, or to the next file.
LEMMA DoneMoves ==
  ASSUME PassInv, call.op \in PassOps, Done
  PROVE  /\ half' = 1 /\ UNCHANGED <<want, todo, incomplete, passes, ranking>>
         /\ \/ Follow /\ call'.file = This
            \/ call.op \in {"complete", "forget"} /\ call'.op = "next"
<1>1. /\ half' = 1 /\ UNCHANGED <<want, todo, incomplete, passes, ranking>>
      /\ call' = After(call.op, want[This])
  BY DEF Done
<1>2. \/ Follow /\ call'.file = This
      \/ call.op \in {"complete", "forget"} /\ call'.op = "next"
  BY <1>1 DEF After, PassOps, Follow, Call, NextFile
<1> QED BY <1>1, <1>2

LEMMA CallsDone ==
  ASSUME PassInv,
         \/ UpsertChunksDocs \/ DeleteChunksDocs \/ UpsertEdgesGraph \/ DeleteEdgesGraph
         \/ StoreSparsePostings \/ StoreSparseFails \/ DeleteSparsePostings
  PROVE  /\ call.op \in PassOps \ {"record", "complete", "forget"} /\ Done /\ open' = open
         /\ UNCHANGED <<pending, hashed, matched>>
  BY DEF UpsertChunksDocs, DeleteChunksDocs, UpsertEdgesGraph, DeleteEdgesGraph,
         StoreSparsePostings, StoreSparseFails, DeleteSparsePostings, Next1, Next2,
         PassInv, PassOps, memory, tables, manifest

\* RecordFile, CompleteBatch and ForgetFile
LEMMA ManifestDone ==
  ASSUME RecordFile \/ CompleteBatch \/ ForgetFile
  PROVE  /\ call.op \in {"record", "complete", "forget"} /\ Done
         /\ UNCHANGED <<chunks, docs, edges, sparse, ranks, memory>>
  BY DEF RecordFile, CompleteBatch, ForgetFile, Next1, memory

LEMMA DonePass ==
  ASSUME PassInv, call.op \in PassOps \ {"record", "complete", "forget"}, Done, open' = open,
         UNCHANGED <<pending, hashed, matched>>
  PROVE  PassInv'
  BY DoneMoves DEF PassInv, PassOps, Idle, This, Follow, Writing

LEMMA DoneTurns ==
  ASSUME PassInv, call.op \in PassOps, Done,
         call.op \in {"unchunk", "unlink", "unsparse"} =>
            OfFile(chunks', This) = {} /\ OfFile(docs', This) = {},
         call.op \in {"chunk", "store", "link"} =>
            \A r \in OfFile(chunks', This) : r.text # Blank => r \in docs'
  PROVE  TurnInv'
<1>1. CASE Follow /\ call'.file = This
  BY <1>1, DoneMoves DEF TurnInv, Unchunked, Follow, This
<1>2. CASE call'.op = "next"
  BY <1>2, DoneMoves DEF TurnInv, Unchunked
<1> QED BY <1>1, <1>2, DoneMoves

PostingsAgree == DOMAIN postings \subseteq sparse /\ (Whole => DOMAIN postings = sparse)

LEMMA DonePosts ==
  ASSUME PassInv, call.op \in PassOps, Done, open' => PostingsAgree'
  PROVE  PostingsInv'
  BY DoneMoves DEF PostingsInv, Posted, PostingsAgree

\* A pass comes to each of the files that it has taken, one call after the other.
LEMMA NextPass ==
  ASSUME PassInv, [Next]_vars
  PROVE  PassInv'
<1> USE DEF PassInv, PassOps, Writing, Idle, This, Found, NoCall, manifest, tables, memory,
        pass, ranking
<1>1. CASE Open
  BY <1>1 DEF Open, NoPostings
<1>2. CASE Initialize
  BY <1>2 DEF Initialize
<1>3. CASE InitializeBlind
  BY <1>3 DEF InitializeBlind
<1>4. CASE Close
  BY <1>4 DEF Close, Exit, EndPass
<1>5. CASE Crash
  BY <1>5 DEF Crash, Exit, EndPass
<1>6. CASE BeginPass
  BY <1>6 DEF BeginPass, NextFile
<1>7. CASE TakeBatch
  BY <1>7 DEF TakeBatch, Call, BetweenFiles, NextFile
<1>8. CASE RetireBatch
  BY <1>8 DEF RetireBatch, BetweenFiles, NextFile
<1>9. CASE Reconcile
  <2>1. /\ call.op = "next" /\ call'.op = "unchunk" /\ call'.file \in hashed
        /\ want[call'.file] = Gone
        /\ UNCHANGED <<tables, memory, todo, incomplete, half, want>>
    BY <1>9 DEF Reconcile, Call, Stale, BetweenFiles, NextFile
  <2>2. call'.file \notin matched
    BY <2>1, BackendAssumption
  <2> QED BY <2>1, <2>2
<1>10. CASE CompletePass
  BY <1>10 DEF CompletePass, BetweenFiles, NextFile
<1>11. CASE CallFails
  BY <1>11 DEF CallFails, Next1, Next2, EndPass
<1>12. CASE UpsertChunksTable
  BY <1>12 DEF UpsertChunksTable, Next1, Half
<1>13. CASE UpsertChunksDocs
  BY <1>13, CallsDone, DonePass
<1>14. CASE DeleteChunksTable
  BY <1>14 DEF DeleteChunksTable, Next1, Half
<1>15. CASE DeleteChunksDocs
  BY <1>15, CallsDone, DonePass
<1>16. CASE UpsertEdgesTable
  BY <1>16 DEF UpsertEdgesTable, Next1, Half
<1>17. CASE UpsertEdgesGraph
  BY <1>17, CallsDone, DonePass
<1>18. CASE DeleteEdgesTable
  BY <1>18 DEF DeleteEdgesTable, Next1, Half
<1>19. CASE DeleteEdgesGraph
  BY <1>19, CallsDone, DonePass
<1>20. CASE StoreSparseTable
  BY <1>20 DEF StoreSparseTable, Next1, Half
<1>21. CASE StoreSparsePostings
  BY <1>21, CallsDone, DonePass
<1>22. CASE StoreSparseFails
  BY <1>22, CallsDone, DonePass
<1>23. CASE DeleteSparseTable
  BY <1>23 DEF DeleteSparseTable, Next1, Half
<1>24. CASE DeleteSparseBlind
  BY <1>24 DEF DeleteSparseBlind, Next1, Half
<1>25. CASE DeleteSparsePostings
  BY <1>25, CallsDone, DonePass
<1>26. CASE RecordFile
  BY <1>26, ManifestDone, DoneMoves DEF RecordFile, Next1, Follow
<1>27. CASE CompleteBatch
  BY <1>27, ManifestDone, DoneMoves DEF CompleteBatch, Next1, Follow
<1>28. CASE ForgetFile
  BY <1>28, ManifestDone, DoneMoves DEF ForgetFile, Next1, Follow
<1>29. CASE SparseSearch
  BY <1>29 DEF SparseSearch
<1>30. CASE SparseSearchBlind
  BY <1>30 DEF SparseSearchBlind
<1>31. CASE Deduplicate
  BY <1>31 DEF Deduplicate
<1>32. CASE RankBegins
  BY <1>32 DEF RankBegins
<1>33. CASE RankEnds
  BY <1>33 DEF RankEnds
<1>34. CASE RoleBegins
  BY <1>34 DEF RoleBegins
<1>35. CASE RoleEnds
  BY <1>35 DEF RoleEnds
<1>36. CASE UNCHANGED vars
  BY <1>36 DEF vars
<1> QED
  BY <1>1, <1>2, <1>3, <1>4, <1>5, <1>6, <1>7, <1>8, <1>9, <1>10, <1>11, <1>12, <1>13, <1>14,
     <1>15, <1>16, <1>17, <1>18, <1>19, <1>20, <1>21, <1>22, <1>23, <1>24, <1>25, <1>26,
     <1>27, <1>28, <1>29, <1>30, <1>31, <1>32, <1>33, <1>34, <1>35, <1>36 DEF Next

LEMMA NextSettled ==
  ASSUME PassInv, TurnInv, SettledInv, [Next]_vars
  PROVE  SettledInv'
<1> USE DEF PassInv, PassOps, Writing, Idle, This, manifest, tables, memory, pass, ranking,
        SettledInv, TurnInv, Unchunked, OfFile
<1>1. CASE Open
  BY <1>1 DEF Open, NoPostings
<1>2. CASE Initialize
  BY <1>2 DEF Initialize
<1>3. CASE InitializeBlind
  BY <1>3 DEF InitializeBlind
<1>4. CASE Close
  BY <1>4 DEF Close, Exit, EndPass
<1>5. CASE Crash
  BY <1>5 DEF Crash, Exit, EndPass
<1>6. CASE BeginPass
  BY <1>6 DEF BeginPass, NextFile
<1>7. CASE TakeBatch
  BY <1>7 DEF TakeBatch, Call, BetweenFiles, NextFile
<1>8. CASE RetireBatch
  BY <1>8 DEF RetireBatch, BetweenFiles, NextFile
<1>9. CASE Reconcile
  BY <1>9 DEF Reconcile, Call, Stale, BetweenFiles, NextFile
<1>10. CASE CompletePass
  BY <1>10 DEF CompletePass, BetweenFiles, NextFile
<1>11. CASE CallFails
  BY <1>11 DEF CallFails, Next1, Next2, EndPass
<1>12. CASE UpsertChunksTable
  BY <1>12, NewRowsOfFile DEF UpsertChunksTable, Next1, Half, Merged, Key
<1>13. CASE UpsertChunksDocs
  <2>1. /\ call.op = "chunk" /\ half = 2 /\ chunks' = chunks /\ matched' = matched
        /\ docs' = (docs \ OfFile(docs, This)) \cup Documents(NewRows)
    BY <1>13 DEF UpsertChunksDocs, Next2, Retract
  <2> QED BY <2>1, NewRowsOfFile DEF Documents, Key
<1>14. CASE DeleteChunksTable
  BY <1>14 DEF DeleteChunksTable, Next1, Half
<1>15. CASE DeleteChunksDocs
  BY <1>15 DEF DeleteChunksDocs, Next2, Retract
<1>16. CASE UpsertEdgesTable
  BY <1>16 DEF UpsertEdgesTable, Next1, Half
<1>17. CASE UpsertEdgesGraph
  BY <1>17, CallsDone DEF UpsertEdgesGraph
<1>18. CASE DeleteEdgesTable
  BY <1>18 DEF DeleteEdgesTable, Next1, Half
<1>19. CASE DeleteEdgesGraph
  BY <1>19, CallsDone DEF DeleteEdgesGraph
<1>20. CASE StoreSparseTable
  BY <1>20 DEF StoreSparseTable, Next1, Half
<1>21. CASE StoreSparsePostings
  BY <1>21, CallsDone DEF StoreSparsePostings
<1>22. CASE StoreSparseFails
  BY <1>22, CallsDone DEF StoreSparseFails
<1>23. CASE DeleteSparseTable
  BY <1>23 DEF DeleteSparseTable, Next1, Half
<1>24. CASE DeleteSparseBlind
  BY <1>24 DEF DeleteSparseBlind, Next1, Half
<1>25. CASE DeleteSparsePostings
  BY <1>25, CallsDone DEF DeleteSparsePostings
<1>26. CASE RecordFile
  BY <1>26 DEF RecordFile, Next1
<1>27. CASE CompleteBatch
  BY <1>27 DEF CompleteBatch
<1>28. CASE ForgetFile
  BY <1>28 DEF ForgetFile
<1>29. CASE SparseSearch
  BY <1>29 DEF SparseSearch
<1>30. CASE SparseSearchBlind
  BY <1>30 DEF SparseSearchBlind
<1>31. CASE Deduplicate
  BY <1>31 DEF Deduplicate
<1>32. CASE RankBegins
  BY <1>32 DEF RankBegins
<1>33. CASE RankEnds
  BY <1>33 DEF RankEnds
<1>34. CASE RoleBegins
  BY <1>34 DEF RoleBegins
<1>35. CASE RoleEnds
  BY <1>35 DEF RoleEnds
<1>36. CASE UNCHANGED vars
  BY <1>36 DEF vars
<1> QED
  BY <1>1, <1>2, <1>3, <1>4, <1>5, <1>6, <1>7, <1>8, <1>9, <1>10, <1>11, <1>12, <1>13, <1>14,
     <1>15, <1>16, <1>17, <1>18, <1>19, <1>20, <1>21, <1>22, <1>23, <1>24, <1>25, <1>26,
     <1>27, <1>28, <1>29, <1>30, <1>31, <1>32, <1>33, <1>34, <1>35, <1>36 DEF Next

LEMMA NextTurn ==
  ASSUME PassInv, TurnInv, [Next]_vars
  PROVE  TurnInv'
<1> USE DEF PassInv, PassOps, Idle, This, NoCall, manifest, tables, memory, pass, ranking,
        TurnInv, Unchunked
<1>1. CASE Open
  BY <1>1 DEF Open, NoPostings
<1>2. CASE Initialize
  BY <1>2 DEF Initialize
<1>3. CASE InitializeBlind
  BY <1>3 DEF InitializeBlind
<1>4. CASE Close
  BY <1>4 DEF Close, Exit, EndPass
<1>5. CASE Crash
  BY <1>5 DEF Crash, Exit, EndPass
<1>6. CASE BeginPass
  BY <1>6 DEF BeginPass, NextFile
<1>7. CASE TakeBatch
  BY <1>7 DEF TakeBatch, Call, BetweenFiles, NextFile
<1>8. CASE RetireBatch
  BY <1>8 DEF RetireBatch, BetweenFiles, NextFile
<1>9. CASE Reconcile
  BY <1>9 DEF Reconcile, Call, Stale, BetweenFiles, NextFile
<1>10. CASE CompletePass
  BY <1>10 DEF CompletePass, BetweenFiles, NextFile
<1>11. CASE CallFails
  BY <1>11 DEF CallFails, Next1, Next2, EndPass
<1>12. CASE UpsertChunksTable
  BY <1>12, NewRowsOfFile, SameRows DEF UpsertChunksTable, Next1, Half, Merged, Key, OfFile
<1>13. CASE UpsertChunksDocs
  <2>1. call.op \in PassOps /\ Done
    BY <1>13, CallsDone
  <2>2. /\ call.op = "chunk" /\ half = 2 /\ chunks' = chunks
        /\ docs' = Retract(This) \cup Documents(NewRows)
    BY <1>13 DEF UpsertChunksDocs, Next2
  <2>3. \A r \in OfFile(chunks', This) : r.text # Blank => r \in docs'
    BY <2>2 DEF Documents
  <2> QED BY <2>1, <2>2, <2>3, DoneTurns
<1>14. CASE DeleteChunksTable
  BY <1>14 DEF DeleteChunksTable, Next1, Half, OfFile
<1>15. CASE DeleteChunksDocs
  <2>1. call.op \in PassOps /\ Done
    BY <1>15, CallsDone
  <2>2. call.op = "unchunk" /\ half = 2 /\ chunks' = chunks /\ docs' = Retract(This)
    BY <1>15 DEF DeleteChunksDocs, Next2
  <2>3. OfFile(chunks', This) = {} /\ OfFile(docs', This) = {}
    BY <2>2 DEF Retract, OfFile
  <2> QED BY <2>1, <2>2, <2>3, DoneTurns
<1>16. CASE UpsertEdgesTable
  BY <1>16, SameRows DEF UpsertEdgesTable, Next1, Half
<1>17. CASE UpsertEdgesGraph
  <2>1. call.op \in PassOps /\ Done
    BY <1>17, CallsDone
  <2>2. call.op \in {"link"} /\ UNCHANGED <<chunks, docs>>
    BY <1>17 DEF UpsertEdgesGraph, Next1, Next2
  <2> QED BY <2>1, <2>2, DoneTurns
<1>18. CASE DeleteEdgesTable
  BY <1>18, SameRows DEF DeleteEdgesTable, Next1, Half
<1>19. CASE DeleteEdgesGraph
  <2>1. call.op \in PassOps /\ Done
    BY <1>19, CallsDone
  <2>2. call.op \in {"unlink"} /\ UNCHANGED <<chunks, docs>>
    BY <1>19 DEF DeleteEdgesGraph, Next1, Next2
  <2> QED BY <2>1, <2>2, DoneTurns
<1>20. CASE StoreSparseTable
  BY <1>20, SameRows DEF StoreSparseTable, Next1, Half
<1>21. CASE StoreSparsePostings
  <2>1. call.op \in PassOps /\ Done
    BY <1>21, CallsDone
  <2>2. call.op \in {"store"} /\ UNCHANGED <<chunks, docs>>
    BY <1>21 DEF StoreSparsePostings, Next1, Next2
  <2> QED BY <2>1, <2>2, DoneTurns
<1>22. CASE StoreSparseFails
  <2>1. call.op \in PassOps /\ Done
    BY <1>22, CallsDone
  <2>2. call.op \in {"store"} /\ UNCHANGED <<chunks, docs>>
    BY <1>22 DEF StoreSparseFails, Next1, Next2
  <2> QED BY <2>1, <2>2, DoneTurns
<1>23. CASE DeleteSparseTable
  BY <1>23, SameRows DEF DeleteSparseTable, Next1, Half
<1>24. CASE DeleteSparseBlind
  BY <1>24, SameRows DEF DeleteSparseBlind, Next1, Half
<1>25. CASE DeleteSparsePostings
  <2>1. call.op \in PassOps /\ Done
    BY <1>25, CallsDone
  <2>2. call.op \in {"unsparse"} /\ UNCHANGED <<chunks, docs>>
    BY <1>25 DEF DeleteSparsePostings, Next1, Next2
  <2> QED BY <2>1, <2>2, DoneTurns
<1>26. CASE RecordFile
  <2>1. call.op \in {"record", "complete", "forget"} /\ Done
    BY <1>26, ManifestDone
  <2> QED BY <2>1, DoneTurns
<1>27. CASE CompleteBatch
  <2>1. call.op \in {"record", "complete", "forget"} /\ Done
    BY <1>27, ManifestDone
  <2> QED BY <2>1, DoneTurns
<1>28. CASE ForgetFile
  <2>1. call.op \in {"record", "complete", "forget"} /\ Done
    BY <1>28, ManifestDone
  <2> QED BY <2>1, DoneTurns
<1>29. CASE SparseSearch
  BY <1>29, SameRows DEF SparseSearch
<1>30. CASE SparseSearchBlind
  BY <1>30, SameRows DEF SparseSearchBlind
<1>31. CASE Deduplicate
  BY <1>31 DEF Deduplicate
<1>32. CASE RankBegins
  BY <1>32, SameRows DEF RankBegins
<1>33. CASE RankEnds
  BY <1>33, SameRows DEF RankEnds
<1>34. CASE RoleBegins
  BY <1>34, SameRows DEF RoleBegins
<1>35. CASE RoleEnds
  BY <1>35, SameRows DEF RoleEnds
<1>36. CASE UNCHANGED vars
  BY <1>36, SameRows DEF vars
<1> QED
  BY <1>1, <1>2, <1>3, <1>4, <1>5, <1>6, <1>7, <1>8, <1>9, <1>10, <1>11, <1>12, <1>13, <1>14,
     <1>15, <1>16, <1>17, <1>18, <1>19, <1>20, <1>21, <1>22, <1>23, <1>24, <1>25, <1>26,
     <1>27, <1>28, <1>29, <1>30, <1>31, <1>32, <1>33, <1>34, <1>35, <1>36 DEF Next

LEMMA NextPostings ==
  ASSUME PassInv, PostingsInv, [Next]_vars
  PROVE  PostingsInv'
<1> USE DEF PassInv, PassOps, Idle, This, NoCall, manifest, tables, memory, pass, ranking,
        OfFile, PostingsInv, Posted, Whole
<1>1. CASE Open
  BY <1>1 DEF Open, NoPostings
<1>2. CASE Initialize
  BY <1>2 DEF Initialize
<1>3. CASE InitializeBlind
  BY <1>3 DEF InitializeBlind
<1>4. CASE Close
  BY <1>4 DEF Close, Exit, EndPass
<1>5. CASE Crash
  BY <1>5 DEF Crash, Exit, EndPass
<1>6. CASE BeginPass
  BY <1>6 DEF BeginPass, NextFile
<1>7. CASE TakeBatch
  BY <1>7 DEF TakeBatch, Call, BetweenFiles, NextFile
<1>8. CASE RetireBatch
  BY <1>8 DEF RetireBatch, BetweenFiles, NextFile
<1>9. CASE Reconcile
  BY <1>9 DEF Reconcile, Call, Stale, BetweenFiles, NextFile
<1>10. CASE CompletePass
  BY <1>10 DEF CompletePass, BetweenFiles, NextFile
<1>11. CASE CallFails
  BY <1>11 DEF CallFails, Next1, Next2, EndPass
<1>12. CASE UpsertChunksTable
  BY <1>12 DEF UpsertChunksTable, Next1, Half
<1>13. CASE UpsertChunksDocs
  <2>1. call.op \in PassOps /\ Done
    BY <1>13, CallsDone
  <2>2. open' => PostingsAgree'
    BY <1>13 DEF UpsertChunksDocs, Next1, Next2, Post, Without, PostingsAgree
  <2> QED BY <2>1, <2>2, DonePosts
<1>14. CASE DeleteChunksTable
  BY <1>14 DEF DeleteChunksTable, Next1, Half
<1>15. CASE DeleteChunksDocs
  <2>1. call.op \in PassOps /\ Done
    BY <1>15, CallsDone
  <2>2. open' => PostingsAgree'
    BY <1>15 DEF DeleteChunksDocs, Next1, Next2, Post, Without, PostingsAgree
  <2> QED BY <2>1, <2>2, DonePosts
<1>16. CASE UpsertEdgesTable
  BY <1>16 DEF UpsertEdgesTable, Next1, Half
<1>17. CASE UpsertEdgesGraph
  <2>1. call.op \in PassOps /\ Done
    BY <1>17, CallsDone
  <2>2. open' => PostingsAgree'
    BY <1>17 DEF UpsertEdgesGraph, Next1, Next2, Post, Without, PostingsAgree
  <2> QED BY <2>1, <2>2, DonePosts
<1>18. CASE DeleteEdgesTable
  BY <1>18 DEF DeleteEdgesTable, Next1, Half
<1>19. CASE DeleteEdgesGraph
  <2>1. call.op \in PassOps /\ Done
    BY <1>19, CallsDone
  <2>2. open' => PostingsAgree'
    BY <1>19 DEF DeleteEdgesGraph, Next1, Next2, Post, Without, PostingsAgree
  <2> QED BY <2>1, <2>2, DonePosts
<1>20. CASE StoreSparseTable
  BY <1>20, SameRows DEF StoreSparseTable, Next1, Half
<1>21. CASE StoreSparsePostings
  <2>1. call.op \in PassOps /\ Done
    BY <1>21, CallsDone
  <2>2. open' => PostingsAgree'
    BY <1>21 DEF StoreSparsePostings, Next1, Next2, Post, Without, PostingsAgree
  <2> QED BY <2>1, <2>2, DonePosts
<1>22. CASE StoreSparseFails
  <2>1. call.op \in PassOps /\ Done
    BY <1>22, CallsDone
  <2>2. open' => PostingsAgree'
    BY <1>22 DEF StoreSparseFails, Next1, Next2, Post, Without, PostingsAgree
  <2> QED BY <2>1, <2>2, DonePosts
<1>23. CASE DeleteSparseTable
  BY <1>23 DEF DeleteSparseTable, Next1, Half
<1>24. CASE DeleteSparseBlind
  BY <1>24 DEF DeleteSparseBlind, Next1, Half
<1>25. CASE DeleteSparsePostings
  <2>1. call.op \in PassOps /\ Done
    BY <1>25, CallsDone
  <2>2. open' => PostingsAgree'
    BY <1>25 DEF DeleteSparsePostings, Next1, Next2, Post, Without, PostingsAgree
  <2> QED BY <2>1, <2>2, DonePosts
<1>26. CASE RecordFile
  <2>1. call.op \in {"record", "complete", "forget"} /\ Done /\ UNCHANGED <<sparse, memory>>
    BY <1>26, ManifestDone
  <2>2. open' => PostingsAgree'
    BY <2>1 DEF PostingsAgree
  <2> QED BY <2>1, <2>2, DonePosts
<1>27. CASE CompleteBatch
  <2>1. call.op \in {"record", "complete", "forget"} /\ Done /\ UNCHANGED <<sparse, memory>>
    BY <1>27, ManifestDone
  <2>2. open' => PostingsAgree'
    BY <2>1 DEF PostingsAgree
  <2> QED BY <2>1, <2>2, DonePosts
<1>28. CASE ForgetFile
  <2>1. call.op \in {"record", "complete", "forget"} /\ Done /\ UNCHANGED <<sparse, memory>>
    BY <1>28, ManifestDone
  <2>2. open' => PostingsAgree'
    BY <2>1 DEF PostingsAgree
  <2> QED BY <2>1, <2>2, DonePosts
<1>29. CASE SparseSearch
  <2>1. /\ open' = open /\ DOMAIN postings' = DOMAIN postings \cup sparse
        /\ UNCHANGED <<sparse, unopened, call, half, want>>
    BY <1>29 DEF SparseSearch, Post
  <2>2. NewRows' = NewRows /\ This' = This
    BY <2>1, SameRows
  <2>3. CASE call.op = "unsparse" /\ half = 2
    BY <2>1, <2>2, <2>3
  <2>4. CASE call.op = "store" /\ half = 2
    BY <2>1, <2>2, <2>4
  <2> QED BY <2>1, <2>2, <2>3, <2>4
<1>30. CASE SparseSearchBlind
  BY <1>30, SameRows DEF SparseSearchBlind
<1>31. CASE Deduplicate
  BY <1>31 DEF Deduplicate
<1>32. CASE RankBegins
  BY <1>32, SameRows DEF RankBegins
<1>33. CASE RankEnds
  BY <1>33, SameRows DEF RankEnds
<1>34. CASE RoleBegins
  BY <1>34, SameRows DEF RoleBegins
<1>35. CASE RoleEnds
  BY <1>35, SameRows DEF RoleEnds
<1>36. CASE UNCHANGED vars
  BY <1>36, SameRows DEF vars
<1> QED
  BY <1>1, <1>2, <1>3, <1>4, <1>5, <1>6, <1>7, <1>8, <1>9, <1>10, <1>11, <1>12, <1>13, <1>14,
     <1>15, <1>16, <1>17, <1>18, <1>19, <1>20, <1>21, <1>22, <1>23, <1>24, <1>25, <1>26,
     <1>27, <1>28, <1>29, <1>30, <1>31, <1>32, <1>33, <1>34, <1>35, <1>36 DEF Next

-----------------------------------------------------------------------------
(* Sequences, and the graph                                                 *)

\* A set of naturals has a least element.
LEMMA Least ==
  ASSUME NEW T, T \subseteq Nat, T # {}
  PROVE  \E m \in T : \A k \in T : m <= k
<1> DEFINE R == {ss \in Nat \X Nat : ss[1] < ss[2]}
<1>1. IsWellFoundedOn(R, Nat)
  BY NatLessThanWellFounded DEF OpToRel
<1>2. \E x \in T : \A y \in T : ~ (<<y, x>> \in R)
  <2> HIDE DEF R
  <2> QED BY <1>1, WFMin
<1>3. PICK x \in T : \A y \in T : ~ (<<y, x>> \in R)
  BY <1>2
<1>4. \A y \in T : y \in Nat /\ x \in Nat /\ ~(y < x)
  BY <1>3
<1> QED BY <1>4

LEMMA Induction ==
  ASSUME NEW N \in Nat, NEW T, 0 \in T, \A n \in 1..N : n - 1 \in T => n \in T
  PROVE  \A n \in 0..N : n \in T
<1> DEFINE B == {n \in 0..N : n \notin T}
<1> SUFFICES ASSUME B # {} PROVE FALSE
  OBVIOUS
<1>1. PICK m \in B : \A k \in B : m <= k
  <2>1. B \subseteq Nat
    OBVIOUS
  <2> HIDE DEF B
  <2> QED BY <2>1, Least
<1>2. m \in 1..N /\ m - 1 \in 0..N
  BY <1>1
<1>3. m - 1 \notin B
  BY <1>1, <1>2
<1> QED BY <1>1, <1>2, <1>3

\* A loop of N turns, whose turns are a function of their number and of what the
\* turn before has left, computes one value after the other.
Computes(S, a, N, F, f) ==
    f \in [0..N -> S] /\ f[0] = a /\ \A n \in 1..N : f[n] = F[n][f[n - 1]]

LEMMA Loop ==
  ASSUME NEW S, NEW a \in S, NEW N \in Nat, NEW F \in [1..N -> [S -> S]]
  PROVE  \E f : Computes(S, a, N, F, f)
<1> DEFINE Runs(n, f) == f[0] = a /\ \A k \in 1..n : f[k] = F[k][f[k - 1]]
           T == {n \in 0..N : \E f \in [0..n -> S] : Runs(n, f)}
<1>1. 0 \in T
  <2> DEFINE h == [k \in 0..0 |-> a]
  <2>1. h \in [0..0 -> S]
    OBVIOUS
  <2>2. Runs(0, h)
    OBVIOUS
  <2> HIDE DEF h, Runs
  <2> QED BY <2>1, <2>2
<1>2. ASSUME NEW n \in 1..N, n - 1 \in T PROVE n \in T
  <2>1. PICK f \in [0..(n - 1) -> S] : Runs(n - 1, f)
    BY <1>2
  <2>2. F[n][f[n - 1]] \in S
    OBVIOUS
  <2> DEFINE h == [k \in 0..n |-> IF k = n THEN F[n][f[n - 1]] ELSE f[k]]
  <2>3. h \in [0..n -> S]
    BY <2>2
  <2>4. Runs(n, h)
    BY <2>1
  <2> HIDE DEF h, Runs
  <2> QED BY <2>3, <2>4
<1>3. N \in T
  <2> HIDE DEF T
  <2>1. \A n \in 0..N : n \in T
    BY <1>1, <1>2, Induction
  <2> QED BY <2>1
<1> QED BY <1>3 DEF Computes

\* What is left of a sequence after n of its elements
OnlyLoop(S, s, keep, f) ==
    /\ f \in [0..Len(s) -> Seq(S)]
    /\ f[0] = <<>>
    /\ \A n \in 1..Len(s) :
          f[n] = IF s[n] \in keep THEN Append(f[n - 1], s[n]) ELSE f[n - 1]
    /\ Only(s, keep) = f[Len(s)]

LEMMA OnlyLoops ==
  ASSUME NEW S, NEW s \in Seq(S), NEW keep
  PROVE  \E f : OnlyLoop(S, s, keep, f)
<1> DEFINE N == Len(s)
           Q == Seq(S)
           Step(n, q) == IF s[n] \in keep THEN Append(q, s[n]) ELSE q
           F == [n \in 1..N |-> [q \in Q |-> Step(n, q)]]
           Only0(f) == f = [n \in 0..N |-> IF n = 0 THEN <<>> ELSE Step(n, f[n - 1])]
           h == CHOOSE g : Only0(g)
<1>1. /\ N \in Nat /\ <<>> \in Q
      /\ \A n \in 1..N, q \in Q : Step(n, q) \in Q
  OBVIOUS
<1>2. Only(s, keep) = h[N]
  BY DEF Only
<1> HIDE DEF N, Q, Step
<1>3. PICK f \in [0..N -> Q] : f[0] = <<>> /\ \A n \in 1..N : f[n] = F[n][f[n - 1]]
  <2>1. F \in [1..N -> [Q -> Q]]
    BY <1>1
  <2>2. N \in Nat /\ <<>> \in Q
    BY <1>1
  <2> HIDE DEF F, Only0, h
  <2>3. PICK f : Computes(Q, <<>>, N, F, f)
    BY <2>1, <2>2, Loop
  <2> QED BY <2>3 DEF Computes
<1>4. \A n \in 1..N : f[n - 1] \in Q /\ f[n] = Step(n, f[n - 1])
  <2> TAKE n \in 1..N
  <2>1. n - 1 \in 0..N
    BY <1>1
  <2> QED BY <1>3, <2>1
<1>5. Only0(f)
  BY <1>1, <1>3, <1>4
<1>6. Only0(h)
  <2> HIDE DEF Only0
  <2> QED BY <1>5
<1> HIDE DEF h
<1>7. \A n \in 0..N : h[n] = f[n]
  <2> DEFINE T == {n \in 0..N : h[n] = f[n]}
  <2>1. 0 \in T
    BY <1>1, <1>3, <1>6
  <2>2. \A n \in 1..N : n - 1 \in T => n \in T
    BY <1>1, <1>4, <1>6
  <2>3. \A n \in 0..N : n \in T
    <3> HIDE DEF T
    <3> QED BY <1>1, <2>1, <2>2, Induction
  <2> QED BY <2>3
<1>8. OnlyLoop(S, s, keep, f)
  BY <1>1, <1>2, <1>3, <1>4, <1>7 DEF N, Q, Step, OnlyLoop
<1> QED BY <1>8

LEMMA AppendElements ==
  ASSUME NEW S, NEW q \in Seq(S), NEW x \in S
  PROVE  /\ ToSet(Append(q, x)) = ToSet(q) \cup {x}
         /\ Distinct(q) /\ x \notin ToSet(q) => Distinct(Append(q, x))
<1>1. /\ DOMAIN Append(q, x) = 1..(Len(q) + 1) /\ DOMAIN q = 1..Len(q) /\ Len(q) \in Nat
      /\ \A i \in 1..Len(q) : Append(q, x)[i] = q[i]
      /\ Append(q, x)[Len(q) + 1] = x
  OBVIOUS
<1>2. ToSet(Append(q, x)) \subseteq ToSet(q) \cup {x}
  BY <1>1 DEF ToSet
<1>3. x \in ToSet(Append(q, x))
  BY <1>1 DEF ToSet
<1>4. ToSet(q) \subseteq ToSet(Append(q, x))
  BY <1>1 DEF ToSet
<1>5. ASSUME Distinct(q), x \notin ToSet(q)
      PROVE  Distinct(Append(q, x))
  BY <1>1, <1>5 DEF Distinct, ToSet
<1> QED BY <1>2, <1>3, <1>4, <1>5

LEMMA OnlyElements ==
  ASSUME NEW S, NEW s \in Seq(S), NEW keep
  PROVE  /\ Only(s, keep) \in Seq(S)
         /\ ToSet(Only(s, keep)) = ToSet(s) \cap keep
         /\ Distinct(s) => Distinct(Only(s, keep))
<1> DEFINE N == Len(s)
           First(n) == {s[i] : i \in 1..n}
<1>0. PICK f : OnlyLoop(S, s, keep, f)
  BY OnlyLoops
<1>1. /\ f \in [0..N -> Seq(S)] /\ f[0] = <<>> /\ Only(s, keep) = f[N]
      /\ \A n \in 1..N : f[n] = IF s[n] \in keep THEN Append(f[n - 1], s[n]) ELSE f[n - 1]
  BY <1>0 DEF OnlyLoop
<1> DEFINE T == {n \in 0..N : /\ ToSet(f[n]) = First(n) \cap keep
                              /\ Distinct(s) => Distinct(f[n])}
<1>2. N \in Nat /\ DOMAIN s = 1..N /\ \A n \in 1..N : s[n] \in S
  OBVIOUS
<1> HIDE DEF N
<1>3. 0 \in T
  BY <1>1, <1>2 DEF ToSet, Distinct
<1>4. ASSUME NEW n \in 1..N, n - 1 \in T PROVE n \in T
  <2>1. /\ n - 1 \in 0..N /\ n \in 0..N /\ f[n - 1] \in Seq(S) /\ s[n] \in S
        /\ f[n] = IF s[n] \in keep THEN Append(f[n - 1], s[n]) ELSE f[n - 1]
    BY <1>1, <1>2
  <2>2. First(n) = First(n - 1) \cup {s[n]}
    BY <1>2
  <2>3. Distinct(s) => s[n] \notin First(n - 1)
    <3> SUFFICES ASSUME Distinct(s), NEW i \in 1..(n - 1), s[n] = s[i] PROVE FALSE
      OBVIOUS
    <3>1. i \in 1..N /\ i # n
      BY <1>2
    <3> QED BY <1>2, <3>1 DEF Distinct
  <2>4. ToSet(f[n - 1]) = First(n - 1) \cap keep /\ (Distinct(s) => Distinct(f[n - 1]))
    BY <1>4
  <2> HIDE DEF First
  <2>5. ToSet(f[n]) = First(n) \cap keep
    BY <2>1, <2>2, <2>4, AppendElements
  <2>6. Distinct(s) => Distinct(f[n])
    BY <2>1, <2>3, <2>4, AppendElements
  <2> QED BY <2>1, <2>5, <2>6
<1>5. \A n \in 0..N : n \in T
  <2> HIDE DEF T
  <2> QED BY <1>2, <1>3, <1>4, Induction
<1>6. ToSet(s) = First(N)
  BY <1>2 DEF ToSet
<1> QED BY <1>1, <1>2, <1>5, <1>6

LEMMA AddEdgeIs ==
  ASSUME NEW F, NEW g \in Graph(F), NEW e \in F \X F
  PROVE  /\ AddEdge(g, e) \in Graph(F)
         /\ EdgesOf(AddEdge(g, e)) = EdgesOf(g) \cup {e}
<1> DEFINE nodes == g.nodes \cup {e[1], e[2]}
<1>1. nodes \in SUBSET F /\ e \in nodes \X nodes /\ EdgesOf(g) \subseteq nodes \X nodes
  BY DEF Graph
<1>2. CASE e \in EdgesOf(g)
  <2>1. AddEdge(g, e) = [g EXCEPT !.nodes = nodes]
    BY <1>2 DEF AddEdge
  <2> HIDE DEF nodes
  <2> QED BY <1>1, <1>2, <2>1 DEF Graph, EdgesOf
<1>3. CASE e \notin EdgesOf(g)
  <2> DEFINE slots == Append(g.slots, e)
             age == Append(g.age, e)
  <2>1. AddEdge(g, e) = [nodes |-> nodes, slots |-> slots, age |-> age]
    BY <1>3 DEF AddEdge
  <2>2. slots \in Seq(F \X F) /\ age \in Seq(F \X F)
    BY DEF Graph
  <2>3. /\ ToSet(slots) = EdgesOf(g) \cup {e} /\ Distinct(slots)
        /\ ToSet(age) = EdgesOf(g) \cup {e} /\ Distinct(age)
    BY <1>3, AppendElements DEF Graph, EdgesOf
  <2> HIDE DEF nodes, slots, age
  <2>4. EdgesOf(g) \cup {e} \subseteq nodes \X nodes
    BY <1>1
  <2>5. /\ AddEdge(g, e) \in [nodes : SUBSET F, slots : Seq(F \X F), age : Seq(F \X F)]
        /\ AddEdge(g, e).nodes = nodes /\ AddEdge(g, e).slots = slots
        /\ AddEdge(g, e).age = age
    BY <1>1, <2>1, <2>2
  <2> QED BY <2>3, <2>4, <2>5 DEF Graph, EdgesOf
<1> QED BY <1>2, <1>3

LEMMA RemoveEdgeIs ==
  ASSUME NEW F, NEW g \in Graph(F), NEW id \in DOMAIN g.slots
  PROVE  LET h == RemoveEdge(g, id) IN
         /\ h \in Graph(F)
         /\ EdgesOf(h) = EdgesOf(g) \ {g.slots[id]}
         /\ DOMAIN h.slots \subseteq DOMAIN g.slots
         /\ \A i \in DOMAIN h.slots : i # id => h.slots[i] = g.slots[i]
<1> DEFINE last == Len(g.slots)
           slots == SubSeq([g.slots EXCEPT ![id] = g.slots[last]], 1, last - 1)
           age == Only(g.age, ToSet(g.age) \ {g.slots[id]})
<1>1. RemoveEdge(g, id) = [nodes |-> g.nodes, slots |-> slots, age |-> age]
  BY DEF RemoveEdge, Graph
<1>2. /\ g.slots \in Seq(F \X F) /\ DOMAIN g.slots = 1..last /\ last \in Nat \ {0}
      /\ id \in 1..last
  BY DEF Graph
<1>3. /\ slots \in Seq(F \X F) /\ DOMAIN slots = 1..(last - 1)
      /\ \A i \in 1..(last - 1) : slots[i] = IF i = id THEN g.slots[last] ELSE g.slots[i]
  BY <1>2
<1>4. /\ age \in Seq(F \X F) /\ Distinct(age)
      /\ ToSet(age) = ToSet(g.age) \ {g.slots[id]}
  BY OnlyElements DEF Graph
<1> HIDE DEF last, slots, age
<1>5. \A i, j \in 1..last : g.slots[i] = g.slots[j] => i = j
  BY <1>2 DEF Graph, Distinct
<1>6. ToSet(slots) = ToSet(g.slots) \ {g.slots[id]}
  <2>1. ASSUME NEW i \in 1..(last - 1)
        PROVE  slots[i] \in ToSet(g.slots) /\ slots[i] # g.slots[id]
    <3>1. PICK k \in 1..last : k # id /\ slots[i] = g.slots[k]
      BY <1>2, <1>3
    <3>2. k \in DOMAIN g.slots
      BY <1>2
    <3> QED BY <1>2, <1>5, <3>1, <3>2 DEF ToSet
  <2>2. ASSUME NEW i \in 1..last, i # id PROVE g.slots[i] \in ToSet(slots)
    <3>1. CASE i = last
      <4>1. id \in 1..(last - 1) /\ slots[id] = g.slots[i]
        BY <1>2, <1>3, <2>2, <3>1
      <4>2. id \in DOMAIN slots
        BY <1>3, <4>1
      <4> QED BY <4>1, <4>2 DEF ToSet
    <3>2. CASE i # last
      <4>1. i \in 1..(last - 1)
        BY <1>2, <3>2
      <4> QED BY <1>3, <2>2, <4>1 DEF ToSet
    <3> QED BY <3>1, <3>2
  <2> QED BY <1>2, <1>3, <2>1, <2>2, ZenonT(30) DEF ToSet
<1>7. Distinct(slots)
  BY <1>2, <1>3, <1>5 DEF Distinct
<1>8. /\ g.nodes \in SUBSET F /\ ToSet(slots) \subseteq g.nodes \X g.nodes
      /\ ToSet(age) = ToSet(slots)
  BY <1>4, <1>6 DEF Graph, EdgesOf
<1> DEFINE h == RemoveEdge(g, id)
<1>9. /\ h \in [nodes : SUBSET F, slots : Seq(F \X F), age : Seq(F \X F)]
      /\ h.nodes = g.nodes /\ h.slots = slots /\ h.age = age
  BY <1>1, <1>3, <1>4, <1>8
<1> HIDE DEF h
<1>10. h \in Graph(F)
  BY <1>4, <1>7, <1>8, <1>9 DEF Graph, EdgesOf
<1> QED BY <1>2, <1>3, <1>6, <1>9, <1>10 DEF h, EdgesOf

AddLoop(F, g, es, f) ==
    /\ f[0] = g
    /\ \A n \in 0..Len(es) : f[n] \in Graph(F)
    /\ \A n \in 1..Len(es) : f[n] = AddEdge(f[n - 1], es[n])
    /\ AddEdges(g, es) = f[Len(es)]

LEMMA AddLoops ==
  ASSUME NEW F, NEW g \in Graph(F), NEW es \in Seq(F \X F)
  PROVE  \E f : AddLoop(F, g, es, f)
<1> DEFINE N == Len(es)
           S == Graph(F)
           Step(n, q) == AddEdge(q, es[n])
           T == [n \in 1..N |-> [q \in S |-> Step(n, q)]]
           Runs(f) == f = [n \in 0..N |-> IF n = 0 THEN g ELSE Step(n, f[n - 1])]
           h == CHOOSE f : Runs(f)
<1>1. N \in Nat /\ g \in S /\ \A n \in 1..N, q \in S : Step(n, q) \in S
  BY AddEdgeIs
<1>2. AddEdges(g, es) = h[N]
  BY DEF AddEdges
<1> HIDE DEF N, S, Step
<1>3. PICK f \in [0..N -> S] : f[0] = g /\ \A n \in 1..N : f[n] = T[n][f[n - 1]]
  <2>1. T \in [1..N -> [S -> S]]
    BY <1>1
  <2>2. N \in Nat /\ g \in S
    BY <1>1
  <2> HIDE DEF T, Runs, h
  <2>3. PICK f : Computes(S, g, N, T, f)
    BY <2>1, <2>2, Loop
  <2> QED BY <2>3 DEF Computes
<1>4. \A n \in 1..N : f[n] = Step(n, f[n - 1])
  <2> TAKE n \in 1..N
  <2>1. n - 1 \in 0..N
    BY <1>1
  <2> QED BY <1>3, <2>1
<1>5. Runs(h)
  <2>1. Runs(f)
    BY <1>1, <1>3, <1>4
  <2> HIDE DEF Runs
  <2> QED BY <2>1
<1> HIDE DEF h
<1>6. \A n \in 0..N : h[n] \in S
  <2> DEFINE B == {n \in 0..N : h[n] \in S}
  <2>1. 0 \in B
    BY <1>1, <1>5
  <2>2. \A n \in 1..N : n - 1 \in B => n \in B
    BY <1>1, <1>5
  <2>3. \A n \in 0..N : n \in B
    <3> HIDE DEF B
    <3> QED BY <1>1, <2>1, <2>2, Induction
  <2> QED BY <2>3
<1>7. h[0] = g /\ \A n \in 1..N : h[n] = Step(n, h[n - 1])
  BY <1>1, <1>5
<1>8. AddLoop(F, g, es, h)
  BY <1>2, <1>6, <1>7 DEF N, S, Step, AddLoop
<1> QED BY <1>8

LEMMA RemoveEdgeStays ==
  ASSUME NEW F, NEW g \in Graph(F), NEW id
  PROVE  RemoveEdge(g, id) \in Graph(F) /\ EdgesOf(RemoveEdge(g, id)) \subseteq EdgesOf(g)
<1>1. CASE id \in DOMAIN g.slots
  BY <1>1, RemoveEdgeIs
<1>2. CASE id \notin DOMAIN g.slots
  BY <1>2 DEF RemoveEdge
<1> QED BY <1>1, <1>2

RemoveLoop(F, g, ids, f) ==
    /\ f[0] = g
    /\ \A n \in 0..Len(ids) : f[n] \in Graph(F)
    /\ \A n \in 1..Len(ids) : f[n] = RemoveEdge(f[n - 1], ids[n])
    /\ RemoveEdges(g, ids) = f[Len(ids)]

LEMMA RemoveLoops ==
  ASSUME NEW F, NEW g \in Graph(F), NEW ids \in Seq(Nat)
  PROVE  \E f : RemoveLoop(F, g, ids, f)
<1> DEFINE N == Len(ids)
           S == Graph(F)
           Step(n, q) == RemoveEdge(q, ids[n])
           T == [n \in 1..N |-> [q \in S |-> Step(n, q)]]
           Runs(f) == f = [n \in 0..N |-> IF n = 0 THEN g ELSE Step(n, f[n - 1])]
           h == CHOOSE f : Runs(f)
<1>1. N \in Nat /\ g \in S /\ \A n \in 1..N, q \in S : Step(n, q) \in S
  BY RemoveEdgeStays
<1>2. RemoveEdges(g, ids) = h[N]
  BY DEF RemoveEdges
<1> HIDE DEF N, S, Step
<1>3. PICK f \in [0..N -> S] : f[0] = g /\ \A n \in 1..N : f[n] = T[n][f[n - 1]]
  <2>1. T \in [1..N -> [S -> S]]
    BY <1>1
  <2>2. N \in Nat /\ g \in S
    BY <1>1
  <2> HIDE DEF T, Runs, h
  <2>3. PICK f : Computes(S, g, N, T, f)
    BY <2>1, <2>2, Loop
  <2> QED BY <2>3 DEF Computes
<1>4. \A n \in 1..N : f[n] = Step(n, f[n - 1])
  <2> TAKE n \in 1..N
  <2>1. n - 1 \in 0..N
    BY <1>1
  <2> QED BY <1>3, <2>1
<1>5. Runs(h)
  <2>1. Runs(f)
    BY <1>1, <1>3, <1>4
  <2> HIDE DEF Runs
  <2> QED BY <2>1
<1> HIDE DEF h
<1>6. \A n \in 0..N : h[n] \in S
  <2> DEFINE B == {n \in 0..N : h[n] \in S}
  <2>1. 0 \in B
    BY <1>1, <1>5
  <2>2. \A n \in 1..N : n - 1 \in B => n \in B
    BY <1>1, <1>5
  <2>3. \A n \in 0..N : n \in B
    <3> HIDE DEF B
    <3> QED BY <1>1, <2>1, <2>2, Induction
  <2> QED BY <2>3
<1>7. h[0] = g /\ \A n \in 1..N : h[n] = Step(n, h[n - 1])
  BY <1>1, <1>5
<1>8. RemoveLoop(F, g, ids, h)
  BY <1>2, <1>6, <1>7 DEF N, S, Step, RemoveLoop
<1> QED BY <1>8

LEMMA AddEdgesAre ==
  ASSUME NEW F, NEW g \in Graph(F), NEW es \in Seq(F \X F)
  PROVE  /\ AddEdges(g, es) \in Graph(F)
         /\ EdgesOf(AddEdges(g, es)) = EdgesOf(g) \cup ToSet(es)
<1> DEFINE N == Len(es)
           First(n) == {es[i] : i \in 1..n}
<1>1. PICK f : AddLoop(F, g, es, f)
  BY AddLoops
<1>2. /\ N \in Nat /\ ToSet(es) = First(N)
      /\ \A n \in 1..N : es[n] \in F \X F /\ n - 1 \in 0..N
  BY DEF ToSet
<1>3. /\ f[0] = g /\ AddEdges(g, es) = f[N]
      /\ \A n \in 0..N : f[n] \in Graph(F)
      /\ \A n \in 1..N : f[n] = AddEdge(f[n - 1], es[n])
  BY <1>1 DEF AddLoop
<1> HIDE DEF N
<1> DEFINE T == {n \in 0..N : EdgesOf(f[n]) = EdgesOf(g) \cup First(n)}
<1>4. 0 \in T
  BY <1>2, <1>3
<1>5. ASSUME NEW n \in 1..N, n - 1 \in T PROVE n \in T
  <2>1. EdgesOf(f[n]) = EdgesOf(f[n - 1]) \cup {es[n]}
    BY <1>2, <1>3, AddEdgeIs
  <2>2. First(n) = First(n - 1) \cup {es[n]}
    BY <1>2
  <2> QED BY <1>5, <2>1, <2>2
<1>6. \A n \in 0..N : n \in T
  <2> HIDE DEF T
  <2> QED BY <1>2, <1>4, <1>5, Induction
<1>7. N \in T
  <2> HIDE DEF T
  <2> QED BY <1>2, <1>6
<1> QED BY <1>2, <1>3, <1>7

\* The ids of the edges that are to go are collected first. A removal moves the
\* last edge to the place of the one removed, which no other id is of, so that an
\* id has its edge, or none, when its turn comes. Only edges of the ids go.
LEMMA RemoveEdgesStay ==
  ASSUME NEW F, NEW g \in Graph(F), NEW ids \in Seq(Nat)
  PROVE  /\ RemoveEdges(g, ids) \in Graph(F)
         /\ EdgesOf(RemoveEdges(g, ids)) \subseteq EdgesOf(g)
<1> DEFINE N == Len(ids)
<1>1. PICK f : RemoveLoop(F, g, ids, f)
  BY RemoveLoops
<1>2. N \in Nat /\ \A n \in 1..N : n - 1 \in 0..N
  OBVIOUS
<1>3. /\ f[0] = g /\ RemoveEdges(g, ids) = f[N]
      /\ \A n \in 0..N : f[n] \in Graph(F)
      /\ \A n \in 1..N : f[n] = RemoveEdge(f[n - 1], ids[n])
  BY <1>1 DEF RemoveLoop
<1> HIDE DEF N
<1> DEFINE T == {n \in 0..N : EdgesOf(f[n]) \subseteq EdgesOf(g)}
<1>4. 0 \in T
  BY <1>2, <1>3
<1>5. ASSUME NEW n \in 1..N, n - 1 \in T PROVE n \in T
  BY <1>2, <1>3, <1>5, RemoveEdgeStays
<1>6. N \in T
  <2> HIDE DEF T
  <2>1. \A n \in 0..N : n \in T
    BY <1>2, <1>4, <1>5, Induction
  <2> QED BY <1>2, <2>1
<1> QED BY <1>2, <1>3, <1>6

LEMMA RemoveEdgesAre ==
  ASSUME NEW F, NEW g \in Graph(F), NEW ids \in Seq(Nat), Distinct(ids),
         \A n \in DOMAIN ids : ids[n] \in DOMAIN g.slots
  PROVE  /\ RemoveEdges(g, ids) \in Graph(F)
         /\ EdgesOf(g) \ {g.slots[ids[n]] : n \in DOMAIN ids}
               \subseteq EdgesOf(RemoveEdges(g, ids))
<1> DEFINE N == Len(ids)
           gone == {g.slots[ids[n]] : n \in 1..N}
<1>1. PICK f : RemoveLoop(F, g, ids, f)
  BY RemoveLoops
<1>2. /\ N \in Nat /\ DOMAIN ids = 1..N
      /\ \A n \in 1..N : n - 1 \in 0..N
  OBVIOUS
<1>3. /\ f[0] = g /\ RemoveEdges(g, ids) = f[N]
      /\ \A n \in 0..N : f[n] \in Graph(F)
      /\ \A n \in 1..N : f[n] = RemoveEdge(f[n - 1], ids[n])
  BY <1>1 DEF RemoveLoop
<1> HIDE DEF N
<1> DEFINE Kept(h) == EdgesOf(g) \ gone \subseteq EdgesOf(h)
           Placed(n, h) == \A k \in (n + 1)..N :
                              ids[k] \in DOMAIN h.slots => h.slots[ids[k]] = g.slots[ids[k]]
           T == {n \in 0..N : Kept(f[n]) /\ Placed(n, f[n])}
<1>4. 0 \in T
  BY <1>2, <1>3
<1>5. ASSUME NEW n \in 1..N, n - 1 \in T PROVE n \in T
  <2> DEFINE h == f[n - 1]
             id == ids[n]
  <2>1. h \in Graph(F) /\ f[n] = RemoveEdge(h, id) /\ Kept(h) /\ Placed(n - 1, h)
    BY <1>2, <1>3, <1>5
  <2>2. n \in n..N /\ (n - 1) + 1 = n /\ \A k \in (n + 1)..N : k \in n..N /\ ids[k] # id
    BY <1>2 DEF Distinct
  <2>3. CASE id \notin DOMAIN h.slots
    BY <2>1, <2>2, <2>3 DEF RemoveEdge
  <2>4. CASE id \in DOMAIN h.slots
    <3>1. h.slots[id] = g.slots[id] /\ g.slots[id] \in gone
      BY <2>1, <2>2, <2>4
    <3>2. /\ EdgesOf(f[n]) = EdgesOf(h) \ {h.slots[id]}
          /\ DOMAIN f[n].slots \subseteq DOMAIN h.slots
          /\ \A i \in DOMAIN f[n].slots : i # id => f[n].slots[i] = h.slots[i]
      BY <2>1, <2>4, RemoveEdgeIs
    <3> HIDE DEF gone, h, id
    <3>3. Kept(f[n])
      BY <2>1, <3>1, <3>2
    <3>4. Placed(n, f[n])
      BY <2>1, <2>2, <3>2
    <3> QED BY <3>3, <3>4
  <2> QED BY <2>3, <2>4
<1>6. \A n \in 0..N : n \in T
  <2> HIDE DEF T
  <2> QED BY <1>2, <1>4, <1>5, Induction
<1>7. N \in T
  <2> HIDE DEF T
  <2> QED BY <1>2, <1>6
<1> QED BY <1>2, <1>3, <1>7

LEMMA ReverseIs ==
  ASSUME NEW S, NEW s \in Seq(S)
  PROVE  /\ Reverse(s) \in Seq(S) /\ ToSet(Reverse(s)) = ToSet(s)
         /\ Distinct(s) => Distinct(Reverse(s))
<1> DEFINE N == Len(s)
           r == Reverse(s)
<1>1. /\ N \in Nat /\ DOMAIN s = 1..N /\ r = [i \in 1..N |-> s[(N - i) + 1]]
      /\ \A i \in 1..N : (N - i) + 1 \in 1..N /\ s[i] \in S /\ (N - ((N - i) + 1)) + 1 = i
  BY DEF Reverse
<1>2. r \in Seq(S)
  BY <1>1
<1> HIDE DEF N, r
<1>3. \A i \in 1..N : r[i] = s[(N - i) + 1] /\ s[i] = r[(N - i) + 1]
  BY <1>1
<1>4. ToSet(r) = ToSet(s)
  BY <1>1, <1>3, ZenonT(30) DEF ToSet
<1>5. Distinct(s) => Distinct(r)
  BY <1>1, <1>3 DEF Distinct
<1> QED BY <1>2, <1>4, <1>5 DEF r

Leaving(g, f) == {e \in EdgesOf(g) : e[1] = f}
Reaching(g, f) == {e \in EdgesOf(g) : e[2] = f}

\* The edges of a file are listed one way and the other, each of them once.
LEMMA Listed ==
  ASSUME NEW F, NEW g \in Graph(F), NEW f
  PROVE  /\ Outgoing(g, f) \in Seq(F \X F) /\ Distinct(Outgoing(g, f))
         /\ ToSet(Outgoing(g, f)) = Leaving(g, f)
         /\ Incoming(g, f) \in Seq(F \X F) /\ Distinct(Incoming(g, f))
         /\ ToSet(Incoming(g, f)) = Reaching(g, f)
<1> DEFINE r == Reverse(g.age)
<1>1. r \in Seq(F \X F) /\ ToSet(r) = EdgesOf(g) /\ Distinct(r)
  BY ReverseIs DEF Graph
<1> HIDE DEF r
<1>2. \A keep : /\ Only(r, keep) \in Seq(F \X F) /\ Distinct(Only(r, keep))
                /\ ToSet(Only(r, keep)) = EdgesOf(g) \cap keep
  BY <1>1, OnlyElements
<1> QED BY <1>2 DEF Outgoing, Incoming, Leaving, Reaching, r

LEMMA Concatenated ==
  ASSUME NEW S, NEW s \in Seq(S), NEW t \in Seq(S)
  PROVE  /\ s \o t \in Seq(S) /\ ToSet(s \o t) = ToSet(s) \cup ToSet(t)
         /\ Distinct(s) /\ Distinct(t) /\ ToSet(s) \cap ToSet(t) = {} => Distinct(s \o t)
<1> DEFINE M == Len(s)
           N == Len(t)
           u == s \o t
<1>1. /\ M \in Nat /\ N \in Nat /\ DOMAIN s = 1..M /\ DOMAIN t = 1..N /\ DOMAIN u = 1..(M + N)
      /\ u \in Seq(S)
      /\ \A i \in 1..M : u[i] = s[i]
      /\ \A i \in (M + 1)..(M + N) : u[i] = t[i - M]
  OBVIOUS
<1> HIDE DEF M, N, u
<1>2. \A i \in 1..(M + N) : i \in 1..M \/ (i \in (M + 1)..(M + N) /\ i - M \in 1..N)
  BY <1>1
<1>3. \A i \in 1..N : i + M \in (M + 1)..(M + N) /\ i + M \in 1..(M + N) /\ (i + M) - M = i
  BY <1>1
<1>4. ToSet(u) \subseteq ToSet(s) \cup ToSet(t)
  BY <1>1, <1>2 DEF ToSet
<1>5. ToSet(s) \subseteq ToSet(u)
  BY <1>1 DEF ToSet
<1>6. ToSet(t) \subseteq ToSet(u)
  <2> SUFFICES ASSUME NEW i \in 1..N PROVE t[i] \in ToSet(u)
    BY <1>1 DEF ToSet
  <2>1. u[i + M] = t[i] /\ i + M \in DOMAIN u
    BY <1>1, <1>3
  <2> QED BY <2>1 DEF ToSet
<1>7. ASSUME Distinct(s), Distinct(t), ToSet(s) \cap ToSet(t) = {}
      PROVE  Distinct(u)
  <2> SUFFICES ASSUME NEW i \in 1..(M + N), NEW j \in 1..(M + N), u[i] = u[j], i < j
               PROVE  FALSE
    BY <1>1 DEF Distinct
  <2>1. CASE j \in 1..M
    BY <1>1, <1>7, <2>1 DEF Distinct
  <2>2. CASE i \in 1..M /\ j \notin 1..M
    <3>1. u[i] = s[i] /\ j - M \in 1..N /\ u[j] = t[j - M]
      BY <1>1, <1>2, <2>2
    <3> QED BY <1>1, <1>7, <2>2, <3>1 DEF ToSet
  <2>3. CASE i \notin 1..M /\ j \notin 1..M
    <3>1. i - M \in 1..N /\ u[i] = t[i - M] /\ j - M \in 1..N /\ u[j] = t[j - M]
      BY <1>1, <1>2, <2>3
    <3>2. i - M = j - M
      BY <1>1, <1>7, <3>1 DEF Distinct
    <3> QED BY <1>1, <3>2
  <2> QED BY <1>1, <2>1, <2>2, <2>3
<1> QED BY <1>1, <1>4, <1>5, <1>6, <1>7 DEF u

LEMMA IdsAre ==
  ASSUME NEW F, NEW g \in Graph(F), NEW f
  PROVE  LET ids == IdsFor(g, f) IN
         /\ ids \in Seq(Nat)
         /\ \A n \in DOMAIN ids : /\ ids[n] \in DOMAIN g.slots
                                  /\ f \in {g.slots[ids[n]][1], g.slots[ids[n]][2]}
         /\ <<f, f>> \notin EdgesOf(g) => Distinct(ids)
<1> DEFINE out == Outgoing(g, f)
           in == Incoming(g, f)
           es == out \o in
           ids == [k \in DOMAIN es |-> IdOf(g, es[k])]
<1>0. /\ out \in Seq(F \X F) /\ Distinct(out) /\ ToSet(out) = Leaving(g, f)
      /\ in \in Seq(F \X F) /\ Distinct(in) /\ ToSet(in) = Reaching(g, f)
  BY Listed
<1> HIDE DEF out, in
<1>1. es \in Seq(F \X F) /\ ToSet(es) = {e \in EdgesOf(g) : f \in {e[1], e[2]}}
  <2>1. es \in Seq(F \X F) /\ ToSet(es) = ToSet(out) \cup ToSet(in)
    BY <1>0, Concatenated
  <2> HIDE DEF es
  <2> QED BY <1>0, <2>1 DEF Leaving, Reaching
<1>2. <<f, f>> \notin EdgesOf(g) => Distinct(es)
  <2> SUFFICES ASSUME <<f, f>> \notin EdgesOf(g) PROVE Distinct(es)
    OBVIOUS
  <2>1. \A e \in EdgesOf(g) : e \in g.nodes \X g.nodes
    BY DEF Graph
  <2>2. \A e \in EdgesOf(g) : ~(e[1] = f /\ e[2] = f)
    BY <2>1
  <2>3. ToSet(out) \cap ToSet(in) = {}
    BY <1>0, <2>2 DEF Leaving, Reaching
  <2> QED BY <1>0, <2>3, Concatenated
<1>3. DOMAIN es = 1..Len(es) /\ Len(es) \in Nat
  BY <1>1
<1> HIDE DEF es
<1>4. \A e \in EdgesOf(g) : /\ IdOf(g, e) \in DOMAIN g.slots /\ IdOf(g, e) \in Nat
                            /\ g.slots[IdOf(g, e)] = e
  <2> TAKE e \in EdgesOf(g)
  <2>1. \E i \in DOMAIN g.slots : g.slots[i] = e
    BY DEF EdgesOf, ToSet
  <2>2. IdOf(g, e) \in DOMAIN g.slots /\ g.slots[IdOf(g, e)] = e
    BY <2>1 DEF IdOf
  <2>3. DOMAIN g.slots \subseteq Nat
    BY DEF Graph
  <2> QED BY <2>2, <2>3
<1>5. \A k \in DOMAIN es : es[k] \in EdgesOf(g) /\ f \in {es[k][1], es[k][2]}
  BY <1>1 DEF ToSet
<1>6. /\ ids \in Seq(Nat) /\ DOMAIN ids = DOMAIN es
      /\ \A k \in DOMAIN es : ids[k] \in DOMAIN g.slots /\ g.slots[ids[k]] = es[k]
  BY <1>3, <1>4, <1>5
<1>7. IdsFor(g, f) = ids
  BY DEF IdsFor, es, out, in
<1> HIDE DEF ids
<1>8. Distinct(es) => Distinct(ids)
  BY <1>6 DEF Distinct
<1> QED BY <1>2, <1>5, <1>6, <1>7, <1>8

LEMMA RemovesEdgesOf ==
  ASSUME NEW F, NEW g \in Graph(F), NEW f
  PROVE  /\ RemoveEdgesForFile(g, f) \in Graph(F)
         /\ EdgesOf(RemoveEdgesForFile(g, f)) \subseteq EdgesOf(g)
         /\ <<f, f>> \notin EdgesOf(g) =>
               {e \in EdgesOf(g) : f \notin {e[1], e[2]}}
                  \subseteq EdgesOf(RemoveEdgesForFile(g, f))
<1> DEFINE ids == IdsFor(g, f)
<1>1. /\ ids \in Seq(Nat)
      /\ \A n \in DOMAIN ids : /\ ids[n] \in DOMAIN g.slots
                               /\ f \in {g.slots[ids[n]][1], g.slots[ids[n]][2]}
      /\ <<f, f>> \notin EdgesOf(g) => Distinct(ids)
  BY IdsAre
<1>2. RemoveEdgesForFile(g, f) = RemoveEdges(g, ids)
  BY DEF RemoveEdgesForFile
<1> HIDE DEF ids
<1>3. /\ RemoveEdges(g, ids) \in Graph(F)
      /\ EdgesOf(RemoveEdges(g, ids)) \subseteq EdgesOf(g)
  BY <1>1, RemoveEdgesStay
<1>4. ASSUME <<f, f>> \notin EdgesOf(g),
             NEW e \in EdgesOf(g), f \notin {e[1], e[2]}
      PROVE  e \in EdgesOf(RemoveEdges(g, ids))
  <2>1. e \notin {g.slots[ids[n]] : n \in DOMAIN ids}
    BY <1>1, <1>4
  <2> QED BY <1>1, <1>4, <2>1, RemoveEdgesAre
<1> QED BY <1>2, <1>3, <1>4

\* A finite set is listed by a sequence of its elements.
LEMMA SetToSeqLists ==
  ASSUME NEW S, IsFiniteSet(S)
  PROVE  /\ SetToSeq(S) \in Seq(S) /\ ToSet(SetToSeq(S)) = S
         /\ Reverse(SetToSeq(S)) \in Seq(S) /\ ToSet(Reverse(SetToSeq(S))) = S
<1> DEFINE N == Cardinality(S)
           s == SetToSeq(S)
<1>1. N \in Nat /\ ExistsBijection(1..N, S)
  BY FS_CardinalityType
<1>2. PICK f \in [1..N -> S] : IsInjective(f)
  BY <1>1 DEF ExistsBijection, Bijection, Injection
<1>3. s \in [1..N -> S] /\ IsInjective(s)
  BY <1>2 DEF SetToSeq
<1> HIDE DEF s
<1>4. s \in Surjection(1..N, S)
  <2>1. s \in Injection(1..N, S)
    BY <1>3 DEF Injection
  <2>2. Cardinality(1..N) = N
    BY <1>1, FS_Interval
  <2> QED BY <2>1, <2>2, FS_Injection
<1>5. s \in Seq(S) /\ ToSet(s) = S
  BY <1>1, <1>3, <1>4 DEF Surjection, ToSet
<1> QED BY <1>5, ReverseIs DEF s

\* Sequences without repetitions of the same elements are of one length.
LEMMA SameLength ==
  ASSUME NEW S, NEW s \in Seq(S), NEW t \in Seq(S),
         Distinct(s), Distinct(t), ToSet(s) = ToSet(t)
  PROVE  Len(s) = Len(t)
<1>1. ASSUME NEW q \in Seq(S), Distinct(q) PROVE Cardinality(ToSet(q)) = Len(q)
  <2>1. Len(q) \in Nat /\ DOMAIN q = 1..Len(q)
    OBVIOUS
  <2>2. q \in [1..Len(q) -> ToSet(q)]
    BY DEF ToSet
  <2>3. q \in Bijection(1..Len(q), ToSet(q))
    BY <1>1, <2>1, <2>2
       DEF Bijection, Injection, Surjection, IsInjective, Distinct, ToSet
  <2>4. ExistsBijection(1..Len(q), ToSet(q))
    BY <2>3 DEF ExistsBijection
  <2>5. \A n \in Nat : IsFiniteSet(1..n) /\ Cardinality(1..n) = n
    BY FS_Interval
  <2> QED BY <2>1, <2>4, <2>5, FS_Bijection
<1> QED BY <1>1

-----------------------------------------------------------------------------
(* Types, and the edges                                                     *)

LEMMA RowsAre ==
  ASSUME NEW f \in Files, NEW c \in Contents, NEW tier \in {1, 2}
  PROVE  RowsOf(f, c, tier) \subseteq Row
<1>1. c.texts \in Seq(ToSet(c.texts))
  BY BackendAssumption
<1>2. \A i \in DOMAIN c.texts : i - 1 \in Nat /\ c.texts[i] \in ToSet(c.texts)
  BY <1>1
<1>3. ToSet(c.texts) \subseteq Texts
  BY DEF Texts
<1> QED BY <1>2, <1>3 DEF RowsOf, Row

LEMMA NewRowsAre ==
  ASSUME PassInv, TablesInv, call.op \in {"chunk", "chunk1", "store"}
  PROVE  NewRows \subseteq Row
<1>1. This \in Files /\ want[This] \in Contents
  BY DEF PassInv, PassOps, Idle, TablesInv
<1> QED BY <1>1, RowsAre DEF NewRows

LEMMA FilesFinite ==
  ASSUME NEW es, es \subseteq Files \X Files
  PROVE  IsFiniteSet(es)
<1>1. IsFiniteSet(Files \X Files)
  BY BackendAssumption, FS_Product
<1> QED BY <1>1, FS_Subset

LEMMA EmptyGraph ==
  NoGraph \in Graph(Files) /\ EdgesOf(NoGraph) = {}
  BY DEF NoGraph, Graph, EdgesOf, ToSet, Distinct

\* Whatever order the table gives its rows in, a graph that is read again has
\* exactly them.
LEMMA ReloadIs ==
  ASSUME TablesInv, NEW es \in Scans(edges)
  PROVE  Reload(es) \in Graph(Files) /\ EdgesOf(Reload(es)) = edges
<1>1. edges \subseteq Files \X Files /\ IsFiniteSet(edges)
  BY FilesFinite DEF TablesInv
<1>2. es \in Seq(edges) /\ ToSet(es) = edges
  BY <1>1, SetToSeqLists DEF Scans
<1>3. es \in Seq(Files \X Files)
  BY <1>1, <1>2
<1>4. /\ AddEdges(NoGraph, es) \in Graph(Files)
      /\ EdgesOf(AddEdges(NoGraph, es)) = EdgesOf(NoGraph) \cup ToSet(es)
  BY <1>3, EmptyGraph, AddEdgesAre, ZenonT(30)
<1> QED BY <1>2, <1>4, EmptyGraph DEF Reload

LEMMA ImportsAre ==
  ASSUME PassInv, TablesInv, call.op = "link"
  PROVE  /\ ImportsOf(This) \subseteq Files \X Files
         /\ "self" \notin Faults => \A e \in ImportsOf(This) : e[1] # e[2]
<1>1. This \in Files /\ want[This] \in Contents
  BY DEF PassInv, Idle, TablesInv
<1> QED BY <1>1, BackendAssumption DEF ImportsOf

LEMMA LinkedIs ==
  ASSUME PassInv, TablesInv, GraphInv, call.op = "link"
  PROVE  LET g == AddEdges(graph, SetToSeq(ImportsOf(This))) IN
         /\ g \in Graph(Files)
         /\ EdgesOf(g) = EdgesOf(graph) \cup ImportsOf(This)
<1> DEFINE es == ImportsOf(This)
<1>1. es \subseteq Files \X Files /\ IsFiniteSet(es)
  BY ImportsAre, FilesFinite
<1> HIDE DEF es
<1>2. SetToSeq(es) \in Seq(es) /\ ToSet(SetToSeq(es)) = es
  BY <1>1, SetToSeqLists
<1>3. SetToSeq(es) \in Seq(Files \X Files)
  BY <1>1, <1>2
<1>4. /\ AddEdges(graph, SetToSeq(es)) \in Graph(Files)
      /\ EdgesOf(AddEdges(graph, SetToSeq(es))) = EdgesOf(graph) \cup es
  BY <1>2, <1>3, AddEdgesAre DEF GraphInv
<1> QED BY <1>4 DEF es

LEMMA SameImports ==
  ASSUME UNCHANGED <<call, want>>
  PROVE  ImportsOf(This)' = ImportsOf(This) /\ This' = This
  BY DEF ImportsOf, This

\* After a call that is done nothing is due.
LEMMA DoneDue ==
  ASSUME PassInv, call.op \in PassOps, Done
  PROVE  half' = 1 /\ Due' = {}
  BY DoneMoves DEF Due

LEMMA NextTables ==
  ASSUME PassInv, TablesInv, [Next]_vars
  PROVE  TablesInv'
<1> USE DEF TablesInv, manifest, tables, memory, pass, ranking
<1>1. CASE Open
  BY <1>1 DEF Open, NoPostings
<1>2. CASE Initialize
  BY <1>2 DEF Initialize
<1>3. CASE InitializeBlind
  BY <1>3 DEF InitializeBlind
<1>4. CASE Close
  BY <1>4 DEF Close, Exit, NoPostings
<1>5. CASE Crash
  BY <1>5 DEF Crash, Exit, NoPostings
<1>6. CASE BeginPass
  BY <1>6, BackendAssumption DEF BeginPass
<1>7. CASE TakeBatch
  BY <1>7 DEF TakeBatch
<1>8. CASE RetireBatch
  BY <1>8 DEF RetireBatch
<1>9. CASE Reconcile
  BY <1>9 DEF Reconcile
<1>10. CASE CompletePass
  BY <1>10 DEF CompletePass
<1>11. CASE CallFails
  BY <1>11 DEF CallFails, Next1, Next2, EndPass
<1>12. CASE UpsertChunksTable
  BY <1>12, NewRowsAre DEF UpsertChunksTable, Next1, Half, Merged
<1>13. CASE UpsertChunksDocs
  BY <1>13, CallsDone, DoneMoves, NewRowsAre DEF UpsertChunksDocs, Next2, Retract, Documents
<1>14. CASE DeleteChunksTable
  BY <1>14 DEF DeleteChunksTable, Next1, Half
<1>15. CASE DeleteChunksDocs
  BY <1>15, CallsDone, DoneMoves DEF DeleteChunksDocs, Next2, Retract
<1>16. CASE UpsertEdgesTable
  BY <1>16, ImportsAre DEF UpsertEdgesTable, Next1, Half
<1>17. CASE UpsertEdgesGraph
  BY <1>17, CallsDone, DoneMoves DEF UpsertEdgesGraph
<1>18. CASE DeleteEdgesTable
  BY <1>18 DEF DeleteEdgesTable, Next1, Half
<1>19. CASE DeleteEdgesGraph
  BY <1>19, CallsDone, DoneMoves DEF DeleteEdgesGraph
<1>20. CASE StoreSparseTable
  BY <1>20, NewRowsAre DEF StoreSparseTable, Next1, Half
<1>21. CASE StoreSparsePostings
  BY <1>21, CallsDone, DoneMoves, NewRowsAre DEF StoreSparsePostings, Next2, Post
<1>22. CASE StoreSparseFails
  BY <1>22, CallsDone, DoneMoves DEF StoreSparseFails
<1>23. CASE DeleteSparseTable
  BY <1>23 DEF DeleteSparseTable, Next1, Half
<1>24. CASE DeleteSparseBlind
  BY <1>24 DEF DeleteSparseBlind, Next1, Half
<1>25. CASE DeleteSparsePostings
  BY <1>25, CallsDone, DoneMoves DEF DeleteSparsePostings, Without
<1>26. CASE RecordFile
  BY <1>26, ManifestDone, DoneMoves DEF PassOps
<1>27. CASE CompleteBatch
  BY <1>27, ManifestDone, DoneMoves DEF PassOps
<1>28. CASE ForgetFile
  BY <1>28, ManifestDone, DoneMoves DEF PassOps
<1>29. CASE SparseSearch
  BY <1>29 DEF SparseSearch, Post
<1>30. CASE SparseSearchBlind
  BY <1>30 DEF SparseSearchBlind
<1>31. CASE Deduplicate
  BY <1>31 DEF Deduplicate
<1>32. CASE RankBegins
  BY <1>32 DEF RankBegins
<1>33. CASE RankEnds
  BY <1>33 DEF RankEnds
<1>34. CASE RoleBegins
  BY <1>34 DEF RoleBegins
<1>35. CASE RoleEnds
  BY <1>35 DEF RoleEnds
<1>36. CASE UNCHANGED vars
  BY <1>36 DEF vars
<1> QED
  BY <1>1, <1>2, <1>3, <1>4, <1>5, <1>6, <1>7, <1>8, <1>9, <1>10, <1>11, <1>12, <1>13, <1>14,
     <1>15, <1>16, <1>17, <1>18, <1>19, <1>20, <1>21, <1>22, <1>23, <1>24, <1>25, <1>26,
     <1>27, <1>28, <1>29, <1>30, <1>31, <1>32, <1>33, <1>34, <1>35, <1>36 DEF Next

LEMMA NextGraph ==
  ASSUME PassInv, TablesInv, GraphInv, [Next]_vars
  PROVE  GraphInv'
<1> USE DEF GraphInv, manifest, tables, memory, pass, ranking
<1>1. CASE Open
  BY <1>1, EmptyGraph DEF Open
<1>2. CASE Initialize
  BY <1>2, ReloadIs DEF Initialize
<1>3. CASE InitializeBlind
  BY <1>3 DEF InitializeBlind
<1>4. CASE Close
  BY <1>4, EmptyGraph DEF Close, Exit
<1>5. CASE Crash
  BY <1>5, EmptyGraph DEF Crash, Exit
<1>6. CASE BeginPass
  BY <1>6 DEF BeginPass
<1>7. CASE TakeBatch
  BY <1>7 DEF TakeBatch
<1>8. CASE RetireBatch
  BY <1>8 DEF RetireBatch
<1>9. CASE Reconcile
  BY <1>9 DEF Reconcile
<1>10. CASE CompletePass
  BY <1>10 DEF CompletePass
<1>11. CASE CallFails
  BY <1>11 DEF CallFails
<1>12. CASE UpsertChunksTable
  BY <1>12 DEF UpsertChunksTable
<1>13. CASE UpsertChunksDocs
  BY <1>13 DEF UpsertChunksDocs
<1>14. CASE DeleteChunksTable
  BY <1>14 DEF DeleteChunksTable
<1>15. CASE DeleteChunksDocs
  BY <1>15 DEF DeleteChunksDocs
<1>16. CASE UpsertEdgesTable
  BY <1>16 DEF UpsertEdgesTable
<1>17. CASE UpsertEdgesGraph
  BY <1>17, LinkedIs DEF UpsertEdgesGraph, Next2
<1>18. CASE DeleteEdgesTable
  BY <1>18 DEF DeleteEdgesTable
<1>19. CASE DeleteEdgesGraph
  BY <1>19, RemovesEdgesOf DEF DeleteEdgesGraph
<1>20. CASE StoreSparseTable
  BY <1>20 DEF StoreSparseTable
<1>21. CASE StoreSparsePostings
  BY <1>21 DEF StoreSparsePostings
<1>22. CASE StoreSparseFails
  BY <1>22 DEF StoreSparseFails
<1>23. CASE DeleteSparseTable
  BY <1>23 DEF DeleteSparseTable
<1>24. CASE DeleteSparseBlind
  BY <1>24 DEF DeleteSparseBlind
<1>25. CASE DeleteSparsePostings
  BY <1>25 DEF DeleteSparsePostings
<1>26. CASE RecordFile
  BY <1>26 DEF RecordFile
<1>27. CASE CompleteBatch
  BY <1>27 DEF CompleteBatch
<1>28. CASE ForgetFile
  BY <1>28 DEF ForgetFile
<1>29. CASE SparseSearch
  BY <1>29 DEF SparseSearch
<1>30. CASE SparseSearchBlind
  BY <1>30 DEF SparseSearchBlind
<1>31. CASE Deduplicate
  BY <1>31 DEF Deduplicate
<1>32. CASE RankBegins
  BY <1>32 DEF RankBegins
<1>33. CASE RankEnds
  BY <1>33 DEF RankEnds
<1>34. CASE RoleBegins
  BY <1>34 DEF RoleBegins
<1>35. CASE RoleEnds
  BY <1>35 DEF RoleEnds
<1>36. CASE UNCHANGED vars
  BY <1>36 DEF vars
<1> QED
  BY <1>1, <1>2, <1>3, <1>4, <1>5, <1>6, <1>7, <1>8, <1>9, <1>10, <1>11, <1>12, <1>13, <1>14,
     <1>15, <1>16, <1>17, <1>18, <1>19, <1>20, <1>21, <1>22, <1>23, <1>24, <1>25, <1>26,
     <1>27, <1>28, <1>29, <1>30, <1>31, <1>32, <1>33, <1>34, <1>35, <1>36 DEF Next

LEMMA NextEdges ==
  ASSUME "self" \notin Faults, PassInv, TablesInv, GraphInv, EdgesInv, [Next]_vars
  PROVE  EdgesInv'
<1> USE DEF EdgesInv, Due, Idle, This, NoCall, manifest, tables, memory, pass, ranking
<1>1. CASE Open
  BY <1>1, EmptyGraph DEF Open
<1>2. CASE Initialize
  BY <1>2, ReloadIs, SameImports DEF Initialize
<1>3. CASE InitializeBlind
  BY <1>3, SameImports DEF InitializeBlind
<1>4. CASE Close
  BY <1>4, EmptyGraph DEF Close, Exit, EndPass
<1>5. CASE Crash
  BY <1>5, EmptyGraph DEF Crash, Exit, EndPass
<1>6. CASE BeginPass
  BY <1>6, SameImports DEF BeginPass, NextFile
<1>7. CASE TakeBatch
  BY <1>7, SameImports DEF TakeBatch, Call, BetweenFiles, NextFile
<1>8. CASE RetireBatch
  BY <1>8, SameImports DEF RetireBatch, BetweenFiles, NextFile
<1>9. CASE Reconcile
  BY <1>9, SameImports DEF Reconcile, Call, Stale, BetweenFiles, NextFile
<1>10. CASE CompletePass
  BY <1>10, SameImports DEF CompletePass, BetweenFiles, NextFile
<1>11. CASE CallFails
  BY <1>11, SameImports DEF CallFails, Next1, Next2, EndPass
<1>12. CASE UpsertChunksTable
  BY <1>12, SameImports DEF UpsertChunksTable, Next1, Half
<1>13. CASE UpsertChunksDocs
  <2>1. half' = 1 /\ Due' = {}
    BY <1>13, CallsDone, DoneDue
  <2>2. call.op # "link" /\ UNCHANGED <<edges, graph, ready, unopened>>
    BY <1>13 DEF UpsertChunksDocs, Next1, Next2
  <2> QED BY <2>1, <2>2
<1>14. CASE DeleteChunksTable
  BY <1>14, SameImports DEF DeleteChunksTable, Next1, Half
<1>15. CASE DeleteChunksDocs
  <2>1. half' = 1 /\ Due' = {}
    BY <1>15, CallsDone, DoneDue
  <2>2. call.op # "link" /\ UNCHANGED <<edges, graph, ready, unopened>>
    BY <1>15 DEF DeleteChunksDocs, Next1, Next2
  <2> QED BY <2>1, <2>2
<1>16. CASE UpsertEdgesTable
  BY <1>16, ImportsAre, SameImports DEF UpsertEdgesTable, Next1, Half
<1>17. CASE UpsertEdgesGraph
  <2>1. half' = 1 /\ Due' = {}
    BY <1>17, CallsDone, DoneDue
  <2>2. /\ call.op = "link" /\ half = 2 /\ UNCHANGED <<edges, ready, unopened>>
        /\ graph' = AddEdges(graph, SetToSeq(ImportsOf(This)))
    BY <1>17 DEF UpsertEdgesGraph, Next2
  <2>3. EdgesOf(graph') = EdgesOf(graph) \cup ImportsOf(This)
    BY <2>2, LinkedIs
  <2>4. \A e \in ImportsOf(This) : e[1] # e[2]
    BY <2>2, ImportsAre
  <2> QED BY <2>1, <2>2, <2>3, <2>4
<1>18. CASE DeleteEdgesTable
  BY <1>18, SameImports DEF DeleteEdgesTable, Next1, Half
<1>19. CASE DeleteEdgesGraph
  <2>1. half' = 1 /\ Due' = {}
    BY <1>19, CallsDone, DoneDue
  <2>2. /\ call.op = "unlink" /\ half = 2 /\ UNCHANGED <<edges, ready, unopened>>
        /\ graph' = RemoveEdgesForFile(graph, This)
    BY <1>19 DEF DeleteEdgesGraph, Next2
  <2>3. <<This, This>> \notin EdgesOf(graph)
    OBVIOUS
  <2>4. /\ EdgesOf(graph') \subseteq EdgesOf(graph)
        /\ {e \in EdgesOf(graph) : This \notin {e[1], e[2]}} \subseteq EdgesOf(graph')
    BY <2>2, <2>3, RemovesEdgesOf DEF GraphInv
  <2> QED BY <2>1, <2>2, <2>4
<1>20. CASE StoreSparseTable
  BY <1>20, SameImports DEF StoreSparseTable, Next1, Half
<1>21. CASE StoreSparsePostings
  <2>1. half' = 1 /\ Due' = {}
    BY <1>21, CallsDone, DoneDue
  <2>2. call.op # "link" /\ UNCHANGED <<edges, graph, ready, unopened>>
    BY <1>21 DEF StoreSparsePostings, Next1, Next2
  <2> QED BY <2>1, <2>2
<1>22. CASE StoreSparseFails
  <2>1. half' = 1 /\ Due' = {}
    BY <1>22, CallsDone, DoneDue
  <2>2. call.op # "link" /\ UNCHANGED <<edges, graph, ready, unopened>>
    BY <1>22 DEF StoreSparseFails, Next1, Next2
  <2> QED BY <2>1, <2>2
<1>23. CASE DeleteSparseTable
  BY <1>23, SameImports DEF DeleteSparseTable, Next1, Half
<1>24. CASE DeleteSparseBlind
  BY <1>24, SameImports DEF DeleteSparseBlind, Next1, Half
<1>25. CASE DeleteSparsePostings
  <2>1. half' = 1 /\ Due' = {}
    BY <1>25, CallsDone, DoneDue
  <2>2. call.op # "link" /\ UNCHANGED <<edges, graph, ready, unopened>>
    BY <1>25 DEF DeleteSparsePostings, Next1, Next2
  <2> QED BY <2>1, <2>2
<1>26. CASE RecordFile
  BY <1>26, ManifestDone, DoneDue DEF PassOps
<1>27. CASE CompleteBatch
  BY <1>27, ManifestDone, DoneDue DEF PassOps
<1>28. CASE ForgetFile
  BY <1>28, ManifestDone, DoneDue DEF PassOps
<1>29. CASE SparseSearch
  BY <1>29, SameImports DEF SparseSearch
<1>30. CASE SparseSearchBlind
  BY <1>30, SameImports DEF SparseSearchBlind
<1>31. CASE Deduplicate
  BY <1>31, SameImports DEF Deduplicate
<1>32. CASE RankBegins
  BY <1>32, SameImports DEF RankBegins
<1>33. CASE RankEnds
  BY <1>33, SameImports DEF RankEnds
<1>34. CASE RoleBegins
  BY <1>34, SameImports DEF RoleBegins
<1>35. CASE RoleEnds
  BY <1>35, SameImports DEF RoleEnds
<1>36. CASE UNCHANGED vars
  BY <1>36, SameImports DEF vars
<1> QED
  BY <1>1, <1>2, <1>3, <1>4, <1>5, <1>6, <1>7, <1>8, <1>9, <1>10, <1>11, <1>12, <1>13, <1>14,
     <1>15, <1>16, <1>17, <1>18, <1>19, <1>20, <1>21, <1>22, <1>23, <1>24, <1>25, <1>26,
     <1>27, <1>28, <1>29, <1>30, <1>31, <1>32, <1>33, <1>34, <1>35, <1>36 DEF Next

LEMMA InitInv == Init => Inv
<1> SUFFICES ASSUME Init PROVE Inv
  OBVIOUS
<1>1. want \in [Files -> Found]
  BY DEF Init, Found
<1> QED
  BY <1>1 DEF Init, Inv, PassInv, SettledInv, TurnInv, Unchunked, PostingsInv, Idle, NoCall,
              PassOps, Writing

LEMMA NextInv == Inv /\ [Next]_vars => Inv'
<1> SUFFICES ASSUME Inv, [Next]_vars PROVE Inv'
  OBVIOUS
<1>1. PassInv'
  BY NextPass DEF Inv
<1> QED BY <1>1, NextSettled, NextTurn, NextPostings DEF Inv

THEOREM SpecInv == Spec => []Inv
<1> QED BY InitInv, NextInv, PTL DEF Spec

\* Whatever fails or ends between the two halves of a call, or between two calls, a
\* search by text finds each row of a file that the next pass would take as unchanged.
THEOREM RecordedStaysFindable == Spec => []RecordedIsFindable
<1>1. Inv => RecordedIsFindable
  BY DEF Inv, SettledInv, RecordedIsFindable
<1> QED BY <1>1, SpecInv, PTL

\* Nor does it ever find the text of an earlier pass in the place of a chunk.
THEOREM FoundStaysRecorded == Spec => []FoundIsRecorded
<1>1. Inv => FoundIsRecorded
  BY DEF Inv, SettledInv, FoundIsRecorded
<1> QED BY <1>1, SpecInv, PTL

\* Between calls the sparse index in memory has no row that its table has not, although
\* stores push to it before it is loaded, a store that fails is only logged, and a table
\* that cannot be opened is passed over; where none was, it has all of them once loaded.
THEOREM PostedStaysStored == Spec => []PostedIsStored
<1>1. Inv => PostedIsStored
  BY DEF Inv, PostingsInv, Posted, Whole, PostedIsStored
<1> QED BY <1>1, SpecInv, PTL

LEMMA InitTypes == Init => TablesInv /\ GraphInv /\ EdgesInv
<1> SUFFICES ASSUME Init PROVE TablesInv /\ GraphInv /\ EdgesInv
  OBVIOUS
<1>1. TablesInv
  <2>1. 0 \in 0..MaxPasses
    BY BackendAssumption
  <2>2. DOMAIN postings = {}
    BY DEF Init, NoPostings
  <2> QED BY <2>1, <2>2 DEF Init, TablesInv
<1>2. GraphInv
  BY EmptyGraph DEF Init, GraphInv
<1>3. EdgesInv
  BY EmptyGraph DEF Init, EdgesInv, NoCall
<1> QED BY <1>1, <1>2, <1>3

THEOREM SpecTypes == Spec => [](PassInv /\ TablesInv /\ GraphInv)
<1>1. Init => PassInv /\ TablesInv /\ GraphInv
  BY InitInv, InitTypes DEF Inv
<1>2. PassInv /\ TablesInv /\ GraphInv /\ [Next]_vars => (PassInv /\ TablesInv /\ GraphInv)'
  BY NextPass, NextTables, NextGraph
<1> QED BY <1>1, <1>2, PTL DEF Spec

\* The graph is that of petgraph's arrays at every step: as many edges by their
\* places as by their ages, and the files of each edge among its nodes.
THEOREM BackendTypeOK == Spec => []TypeOK
<1>1. ASSUME PassInv, TablesInv, GraphInv PROVE TypeOK
  <2>1. /\ call.op \in Ops \cup {"next", "end"}
        /\ call.op \in Ops => call.file \in Files
    BY <1>1 DEF PassInv, PassOps, Ops, This
  <2>2. /\ graph.nodes \subseteq Files /\ EdgesOf(graph) \subseteq graph.nodes \X graph.nodes
        /\ EdgesOf(graph) = ToSet(graph.age)
    BY <1>1 DEF GraphInv, Graph
  <2>3. Len(graph.slots) = Len(graph.age)
    BY <1>1, SameLength DEF GraphInv, Graph, EdgesOf
  <2> QED BY <1>1, <2>1, <2>2, <2>3 DEF TypeOK, PassInv, TablesInv
<1> QED BY <1>1, SpecTypes, PTL

\* Where no file imports itself, the graph has every stored edge between calls:
\* the ids that remove_edges_for_file collects before it removes any are of
\* distinct edges, so that an edge that is moved to the place of a removed one
\* is either kept or found missing at its own id. The assumption is needed: the
\* edge of a file to itself is collected twice, and the second removal takes
\* whatever was moved there.
THEOREM NoEdgeIsLost ==
  ASSUME "self" \notin Faults
  PROVE  Spec => []NoEdgeLost
<1> DEFINE I == PassInv /\ TablesInv /\ GraphInv /\ EdgesInv
<1>1. Init => I
  BY InitInv, InitTypes DEF Inv
<1>2. I /\ [Next]_vars => I'
  <2> SUFFICES ASSUME I, [Next]_vars PROVE I'
    OBVIOUS
  <2> QED BY NextPass, NextTables, NextGraph, NextEdges
<1>3. I => NoEdgeLost
  BY DEF EdgesInv, Due, NoEdgeLost
<1> QED BY <1>1, <1>2, <1>3, PTL DEF Spec
=================================================================================
