----------------------------- MODULE Search_proof -----------------------------
(***************************************************************************)
(* Proofs about Search and the tools beside it, for any projects, queries, *)
(* requests, settings, tasks, legs that fail, asks and orders of the       *)
(* tables, and for a cache of any size.                                    *)
(*                                                                         *)
(* Search: candidates of the cache are those that a search would have      *)
(* found itself, and the cache keeps within its size with one entry for a  *)
(* key.  The invariant says of each step that a task is at what its hits   *)
(* are the outcome of (Progress), and of each entry of the cache that its  *)
(* hits are candidates of its key; a request and its key have the same     *)
(* candidates (SameCandidates).                                            *)
(*                                                                         *)
(* The hits of every search are rows of the index, none of them twice: by  *)
(* lemmas on what a leg adds (AddedFound, JoinFound), puts into another    *)
(* order (OrderFound) and leaves out (OnlyFound, TakeFound), for each leg. *)
(*                                                                         *)
(* What is indexed: an edge of the graph is an import of its file, a call  *)
(* leads to a definition of its name, and what find_dependents answers is  *)
(* all that depends on the file, each at its distance.  These are facts    *)
(* about the operators that index, resolve and traverse, which the tables  *)
(* carry from the start on: most of the proof is lemmas on sorting, on the *)
(* arrays of petgraph and the levels of a traversal, and on the files that *)
(* the import of each language resolves to.                                *)
(***************************************************************************)
EXTENDS Tools, FiniteSetTheorems, SequenceTheorems, WellFoundedInduction, TLAPS

\* Where a task is, and of what its hits are the outcome when no leg failed
Progress(s, r, pc, hits) ==
    /\ pc \in {"graph", "sparse", "cochange", "keep"}
    /\ pc = "graph" => hits \in RetrievedBy(s, r) /\ WantsGraph(s, r, hits)
    /\ pc = "sparse" => hits \in ExtendedBy(s, r) /\ AfterGraph(s, hits) = "sparse"
    /\ pc = "cochange" => hits \in SparsedBy(s, r) /\ AfterSparse(s, hits) = "cochange"
    /\ pc = "keep" => hits \in Candidates(s, r)

LEMMA ProgressSparse ==
  ASSUME NEW s, NEW r, NEW hits \in SparsedBy(s, r)
  PROVE  Progress(s, r, AfterSparse(s, hits), hits)
<1>1. AfterSparse(s, hits) \in {"cochange", "keep"}
  BY DEF AfterSparse
<1>2. AfterSparse(s, hits) # "cochange" => hits \in Candidates(s, r)
  BY DEF Candidates, CochangeLeg
<1> QED BY <1>1, <1>2 DEF Progress

LEMMA ProgressGraph ==
  ASSUME NEW s, NEW r, NEW hits \in ExtendedBy(s, r)
  PROVE  Progress(s, r, AfterGraph(s, hits), hits)
<1>1. CASE AfterGraph(s, hits) = "sparse"
  BY <1>1 DEF Progress
<1>2. CASE AfterGraph(s, hits) # "sparse"
  <2>1. AfterGraph(s, hits) = AfterSparse(s, hits)
    BY <1>2 DEF AfterGraph
  <2>2. PICK o : o \in Orders
    BY DEF ExtendedBy
  <2>3. SparseLeg(s, r, hits, o) = hits
    BY <1>2 DEF SparseLeg
  <2>4. hits \in SparsedBy(s, r)
    BY <2>2, <2>3 DEF SparsedBy
  <2> QED BY <2>1, <2>4, ProgressSparse
<1> QED BY <1>1, <1>2

LEMMA ProgressRetrieval ==
  ASSUME NEW s, NEW r, NEW hits \in RetrievedBy(s, r)
  PROVE  Progress(s, r, AfterRetrieval(s, r, hits), hits)
<1>1. CASE WantsGraph(s, r, hits)
  BY <1>1 DEF Progress, AfterRetrieval
<1>2. CASE ~WantsGraph(s, r, hits)
  <2>1. PICK o : o \in Orders
    BY DEF RetrievedBy
  <2>2. GraphLeg(s, r, hits, o) = hits
    BY <1>2 DEF GraphLeg
  <2>3. hits \in ExtendedBy(s, r)
    BY <2>1, <2>2 DEF ExtendedBy
  <2> QED BY <1>2, <2>3, ProgressGraph DEF AfterRetrieval
<1> QED BY <1>1, <1>2

\* The legs that do not fail lead from one step to the next.
LEMMA ProgressSteps ==
  ASSUME NEW s, NEW r, NEW hits, NEW o \in Orders
  PROVE  /\ Progress(s, r, "graph", hits) =>
               LET more == Augment(s, r.query, hits, o, TRUE)
               IN  Progress(s, r, AfterGraph(s, more), more)
         /\ Progress(s, r, "sparse", hits) =>
               LET more == Sparsed(s, r.query, hits, o, TRUE)
               IN  Progress(s, r, AfterSparse(s, more), more)
<1>1. ASSUME Progress(s, r, "graph", hits)
      PROVE  Augment(s, r.query, hits, o, TRUE) \in ExtendedBy(s, r)
  <2>1. hits \in RetrievedBy(s, r) /\ WantsGraph(s, r, hits)
    BY <1>1 DEF Progress
  <2>2. GraphLeg(s, r, hits, o) = Augment(s, r.query, hits, o, TRUE)
    BY <2>1 DEF GraphLeg
  <2>3. GraphLeg(s, r, hits, o) \in ExtendedBy(s, r)
    BY <2>1 DEF ExtendedBy
  <2> QED BY <2>2, <2>3
<1>2. ASSUME Progress(s, r, "sparse", hits)
      PROVE  Sparsed(s, r.query, hits, o, TRUE) \in SparsedBy(s, r)
  <2>1. hits \in ExtendedBy(s, r) /\ AfterGraph(s, hits) = "sparse"
    BY <1>2 DEF Progress
  <2>2. SparseLeg(s, r, hits, o) = Sparsed(s, r.query, hits, o, TRUE)
    BY <2>1 DEF SparseLeg
  <2>3. SparseLeg(s, r, hits, o) \in SparsedBy(s, r)
    BY <2>1 DEF SparsedBy
  <2> QED BY <2>2, <2>3
<1> QED BY <1>1, <1>2, ProgressGraph, ProgressSparse

LEMMA ProgressCochange ==
  ASSUME NEW s, NEW r, NEW hits, Progress(s, r, "cochange", hits)
  PROVE  Progress(s, r, "keep", CochangeBoost(s, hits))
  BY DEF Progress, Candidates, CochangeLeg

\* A key has all of a request that its candidates depend on.
LEMMA SameCandidates ==
  ASSUME NEW s, NEW r
  PROVE  Candidates(s, CacheKey(r)) = Candidates(s, r)
<1> DEFINE key == CacheKey(r)
<1>1. key.query = r.query /\ key.topK = r.topK /\ key.graph = r.graph
  BY DEF CacheKey
<1> HIDE DEF key
<1>2. \A o : Retrieved(s, key, o) = Retrieved(s, r, o)
  BY <1>1 DEF Retrieved
<1>3. RetrievedBy(s, key) = RetrievedBy(s, r)
  BY <1>2 DEF RetrievedBy
<1>4. \A hits : WantsGraph(s, key, hits) <=> WantsGraph(s, r, hits)
  BY <1>1 DEF WantsGraph
<1>5. ExtendedBy(s, key) = ExtendedBy(s, r)
  <2>1. \A hits, o : GraphLeg(s, key, hits, o) = GraphLeg(s, r, hits, o)
    BY <1>1, <1>4 DEF GraphLeg
  <2> QED BY <1>3, <2>1 DEF ExtendedBy
<1>6. SparsedBy(s, key) = SparsedBy(s, r)
  <2>1. \A hits, o : SparseLeg(s, key, hits, o) = SparseLeg(s, r, hits, o)
    BY <1>1 DEF SparseLeg
  <2> QED BY <1>5, <2>1 DEF SparsedBy
<1>7. Candidates(s, key) = Candidates(s, r)
  BY <1>6 DEF Candidates
<1> QED BY <1>7 DEF key

-----------------------------------------------------------------------------
(* The tasks and the cache.                                                 *)

\* Steps at which the hits of a task are no longer its candidates
Later == {"diversify", "rerank", "adjust", "scope"}

\* The fields that a task has.
Shaped(tk) ==
    /\ {"pc", "hits", "kept", "whole"} \subseteq DOMAIN tk
    /\ tk.pc # "idle" => "req" \in DOMAIN tk

Sound(s, tk) ==
    tk.whole =>
        /\ tk.pc \in {"graph", "sparse", "cochange", "keep"} =>
              Progress(s, tk.req, tk.pc, tk.hits)
        /\ tk.pc \in Later => tk.kept \in Candidates(s, tk.req)

CacheInv ==
    /\ \E S : cache \in Seq(S)
    /\ \A k \in DOMAIN cache :
          cache[k].whole => cache[k].hits \in Candidates(searcher, cache[k].key)

TaskInv ==
    /\ DOMAIN task = Tasks
    /\ \A t \in Tasks : Shaped(task[t]) /\ Sound(searcher, task[t])

LEMMA InitInv == Init => TaskInv /\ CacheInv
<1> SUFFICES ASSUME Init PROVE TaskInv /\ CacheInv
  OBVIOUS
<1>1. task = [t \in Tasks |-> Idle] /\ cache = <<>>
  BY DEF Init
<1>2. Shaped(Idle) /\ \A s : Sound(s, Idle)
  BY DEF Idle, Shaped, Sound, Later
<1>3. TaskInv
  BY <1>1, <1>2 DEF TaskInv
<1>4. CacheInv
  BY <1>1 DEF CacheInv
<1> QED BY <1>3, <1>4

\* One task moves, and the others stay.
Moves(t) ==
    /\ searcher' = searcher
    /\ DOMAIN task' = Tasks
    /\ \A u \in Tasks \ {t} : task'[u] = task[u]
    /\ Shaped(task[t])'

LEMMA TaskMoves ==
  ASSUME TaskInv, NEW t \in Tasks, Moves(t), Sound(searcher, task'[t])
  PROVE  TaskInv'
<1>1. \A u \in Tasks : Shaped(task'[u]) /\ Sound(searcher', task'[u])
  BY DEF TaskInv, Moves
<1> QED BY <1>1 DEF TaskInv, Moves

LEMMA CacheStays ==
  ASSUME CacheInv, searcher' = searcher, cache' = cache
  PROVE  CacheInv'
  BY DEF CacheInv

LEMMA GoesOn ==
  ASSUME TaskInv, searcher' = searcher, NEW t \in Tasks, NEW pc, NEW hits,
         task[t].pc # "idle", Goes(t, pc, hits)
  PROVE  /\ Moves(t)
         /\ task'[t].pc = pc /\ task'[t].hits = hits
         /\ task'[t].req = task[t].req /\ task'[t].kept = task[t].kept
         /\ task'[t].whole = task[t].whole
<1>1. {"pc", "hits", "kept", "whole", "req"} \subseteq DOMAIN task[t] /\ DOMAIN task = Tasks
  BY DEF TaskInv, Shaped
<1>2. task' = [task EXCEPT ![t] = [task[t] EXCEPT !.pc = pc, !.hits = hits]]
  BY DEF Goes
<1>3. /\ DOMAIN task' = Tasks /\ \A u \in Tasks \ {t} : task'[u] = task[u]
      /\ task'[t] = [task[t] EXCEPT !.pc = pc, !.hits = hits]
  BY <1>1, <1>2
<1> HIDE DEF Goes
<1>4. /\ task'[t].pc = pc /\ task'[t].hits = hits
      /\ task'[t].req = task[t].req /\ task'[t].kept = task[t].kept
      /\ task'[t].whole = task[t].whole /\ DOMAIN task'[t] = DOMAIN task[t]
  BY <1>1, <1>3
<1> QED BY <1>1, <1>3, <1>4 DEF Moves, Shaped

LEMMA GoesOnWithout ==
  ASSUME TaskInv, searcher' = searcher, NEW t \in Tasks, NEW pc, NEW hits,
         task[t].pc # "idle", GoesWithout(t, pc, hits)
  PROVE  /\ Moves(t) /\ ~task'[t].whole
         /\ task'[t].pc = pc /\ task'[t].hits = hits /\ task'[t].req = task[t].req
<1>1. {"pc", "hits", "kept", "whole", "req"} \subseteq DOMAIN task[t] /\ DOMAIN task = Tasks
  BY DEF TaskInv, Shaped
<1>2. task' = [task EXCEPT ![t] = [task[t] EXCEPT !.pc = pc, !.hits = hits, !.whole = FALSE]]
  BY DEF GoesWithout
<1>3. /\ DOMAIN task' = Tasks /\ \A u \in Tasks \ {t} : task'[u] = task[u]
      /\ task'[t] = [task[t] EXCEPT !.pc = pc, !.hits = hits, !.whole = FALSE]
  BY <1>1, <1>2
<1>4. /\ ~task'[t].whole /\ DOMAIN task'[t] = DOMAIN task[t]
      /\ task'[t].pc = pc /\ task'[t].hits = hits /\ task'[t].req = task[t].req
  BY <1>1, <1>3
<1> QED BY <1>1, <1>3, <1>4 DEF Moves, Shaped

\* An entry that a search may take its hits from
OfKey(e) == e.whole => e.hits \in Candidates(searcher, e.key)

\* A cache that has only such entries
Entries(c) == (\E S : c \in Seq(S)) /\ \A k \in DOMAIN c : OfKey(c[k])

LEMMA CacheEntries == CacheInv <=> Entries(cache)
  BY DEF CacheInv, Entries, OfKey

\* A sequence without one of its elements
LEMMA WithoutIs ==
  ASSUME NEW S, cache \in Seq(S), NEW k \in DOMAIN cache
  PROVE  /\ k \in 1..Len(cache) /\ Len(cache) \in Nat
         /\ Without(k) \in Seq(S) /\ DOMAIN Without(k) = 1..(Len(cache) - 1)
         /\ Len(Without(k)) = Len(cache) - 1
         /\ \A j \in 1..(Len(cache) - 1) :
               Without(k)[j] = cache[IF j < k THEN j ELSE j + 1]
<1> DEFINE a == SubSeq(cache, 1, k - 1)
           b == SubSeq(cache, k + 1, Len(cache))
<1>1. Len(cache) \in Nat /\ k \in 1..Len(cache)
  OBVIOUS
<1>2. a \in Seq(S) /\ Len(a) = k - 1 /\ \A i \in 1..(k - 1) : a[i] = cache[i]
  OBVIOUS
<1>3. /\ b \in Seq(S) /\ Len(b) = Len(cache) - k
      /\ \A i \in 1..(Len(cache) - k) : b[i] = cache[k + i]
  OBVIOUS
<1>4. Without(k) = a \o b
  BY DEF Without
<1> HIDE DEF a, b
<1>5. /\ a \o b \in Seq(S) /\ Len(a \o b) = Len(cache) - 1
      /\ \A j \in 1..(Len(cache) - 1) :
            (a \o b)[j] = IF j <= k - 1 THEN a[j] ELSE b[j - (k - 1)]
  <2>1. /\ a \o b \in Seq(S) /\ Len(a \o b) = Len(a) + Len(b)
        /\ \A j \in 1..Len(a) + Len(b) :
              (a \o b)[j] = IF j <= Len(a) THEN a[j] ELSE b[j - Len(a)]
    BY <1>2, <1>3, ConcatProperties
  <2>2. Len(a) + Len(b) = Len(cache) - 1
    BY <1>1, <1>2, <1>3
  <2> QED BY <1>2, <2>1, <2>2
<1>6. DOMAIN (a \o b) = 1..(Len(cache) - 1)
  BY <1>5, LenProperties
<1>7. ASSUME NEW j \in 1..(Len(cache) - 1)
      PROVE  (a \o b)[j] = cache[IF j < k THEN j ELSE j + 1]
  <2>1. CASE j < k
    BY <1>1, <1>2, <1>5, <2>1
  <2>2. CASE ~(j < k)
    <3>1. (a \o b)[j] = b[j - (k - 1)]
      BY <1>1, <1>5, <2>2
    <3>2. j - (k - 1) \in 1..(Len(cache) - k) /\ k + (j - (k - 1)) = j + 1
      BY <1>1, <2>2
    <3> QED BY <1>3, <2>2, <3>1, <3>2
  <2> QED BY <2>1, <2>2
<1> QED BY <1>1, <1>4, <1>5, <1>6, <1>7

LEMMA EntriesWithout ==
  ASSUME Entries(cache), NEW k \in DOMAIN cache
  PROVE  Entries(Without(k))
<1>1. PICK S : cache \in Seq(S)
  BY DEF Entries
<1>2. ASSUME NEW j \in DOMAIN Without(k) PROVE OfKey(Without(k)[j])
  <2> DEFINE i == IF j < k THEN j ELSE j + 1
  <2>1. j \in 1..(Len(cache) - 1) /\ Len(cache) \in Nat /\ Without(k)[j] = cache[i]
    BY <1>1, WithoutIs
  <2>2. i \in DOMAIN cache
    BY <1>1, <2>1, LenProperties
  <2> QED BY <2>1, <2>2 DEF Entries
<1>3. Without(k) \in Seq(S)
  BY <1>1, WithoutIs
<1> QED BY <1>2, <1>3 DEF Entries

LEMMA EntriesAppend ==
  ASSUME NEW c, Entries(c), NEW e, OfKey(e)
  PROVE  Entries(Append(c, e))
<1>1. PICK S : c \in Seq(S)
  BY DEF Entries
<1>2. c \in Seq(S \cup {e}) /\ Append(c, e) \in Seq(S \cup {e})
  BY <1>1
<1>3. \A k \in DOMAIN Append(c, e) : Append(c, e)[k] = e \/ (k \in DOMAIN c /\ Append(c, e)[k] = c[k])
  BY <1>2
<1>4. \A k \in DOMAIN Append(c, e) : OfKey(Append(c, e)[k])
  BY <1>3 DEF Entries
<1> QED BY <1>2, <1>4 DEF Entries

LEMMA EntriesTail ==
  ASSUME NEW c, Entries(c), Len(c) # 0
  PROVE  Entries(Tail(c))
<1>1. PICK S : c \in Seq(S)
  BY DEF Entries
<1>2. Tail(c) \in Seq(S) /\ \A k \in DOMAIN Tail(c) : k + 1 \in DOMAIN c /\ Tail(c)[k] = c[k + 1]
  BY <1>1
<1> QED BY <1>2 DEF Entries

LEMMA CacheStored ==
  ASSUME CacheInv, NEW r, NEW e, OfKey(e)
  PROVE  Entries(Stored(r, e))
<1> DEFINE others == IF Entry(r) = {} THEN cache ELSE Without(CHOOSE k \in Entry(r) : TRUE)
<1>1. Entries(others)
  <2>1. Entry(r) # {} => (CHOOSE k \in Entry(r) : TRUE) \in DOMAIN cache
    BY DEF Entry
  <2> QED BY <2>1, CacheEntries, EntriesWithout
<1> HIDE DEF others
<1>2. Len(others) = CacheSize => Entries(Tail(others))
  BY <1>1, EntriesTail, SearchAssumption
<1>3. Entries(IF Len(others) = CacheSize THEN Tail(others) ELSE others)
  BY <1>1, <1>2
<1> QED BY <1>3, EntriesAppend DEF Stored, others

LEMMA CacheTouched ==
  ASSUME CacheInv, NEW k \in DOMAIN cache
  PROVE  Entries(Touched(k)) /\ OfKey(cache[k])
<1>1. Entries(Without(k)) /\ OfKey(cache[k])
  BY CacheEntries, EntriesWithout DEF Entries
<1> QED BY <1>1, EntriesAppend DEF Touched

\* A sequence of entries no two of which have one key
KeyedOnce(c) == \A i, j \in DOMAIN c : c[i].key = c[j].key => i = j

\* One that has no entry of a key, and that this key can join
Lacks(c, key) == KeyedOnce(c) /\ \A i \in DOMAIN c : c[i].key # key

LEMMA LacksWithout ==
  ASSUME Entries(cache), KeyedOnce(cache), NEW k \in DOMAIN cache
  PROVE  Lacks(Without(k), cache[k].key)
<1>1. PICK S : cache \in Seq(S)
  BY DEF Entries
<1> DEFINE at(j) == IF j < k THEN j ELSE j + 1
<1>2. ASSUME NEW j \in DOMAIN Without(k)
      PROVE  Without(k)[j] = cache[at(j)] /\ at(j) \in DOMAIN cache /\ at(j) # k
  BY <1>1, WithoutIs
<1>3. ASSUME NEW i \in DOMAIN Without(k), NEW j \in DOMAIN Without(k), at(i) = at(j)
      PROVE  i = j
  BY <1>1, <1>3, WithoutIs
<1> HIDE DEF at
<1> QED BY <1>2, <1>3 DEF Lacks, KeyedOnce

LEMMA DistinctAppend ==
  ASSUME NEW c, Entries(c), NEW e, Lacks(c, e.key)
  PROVE  KeyedOnce(Append(c, e)) /\ Len(Append(c, e)) = Len(c) + 1
<1>1. PICK S : c \in Seq(S)
  BY DEF Entries
<1>2. c \in Seq(S \cup {e})
  BY <1>1
<1>3. /\ Len(Append(c, e)) = Len(c) + 1
      /\ \A i \in DOMAIN Append(c, e) :
            \/ i = Len(c) + 1 /\ Append(c, e)[i] = e
            \/ i \in DOMAIN c /\ Append(c, e)[i] = c[i]
  BY <1>2
<1> QED BY <1>3 DEF Lacks, KeyedOnce

LEMMA LacksTail ==
  ASSUME NEW c, Entries(c), NEW key, Lacks(c, key), Len(c) # 0
  PROVE  Lacks(Tail(c), key) /\ Len(Tail(c)) = Len(c) - 1
<1>1. PICK S : c \in Seq(S)
  BY DEF Entries
<1>2. /\ Len(Tail(c)) = Len(c) - 1 /\ DOMAIN Tail(c) \subseteq Nat
      /\ \A k \in DOMAIN Tail(c) : k + 1 \in DOMAIN c /\ Tail(c)[k] = c[k + 1]
  BY <1>1
<1>3. \A i, j \in Nat : i + 1 = j + 1 => i = j
  OBVIOUS
<1> QED BY <1>2, <1>3 DEF Lacks, KeyedOnce

\* The entry of a key is the only one, so putting it anew leaves no older one.
LEMMA OthersLack ==
  ASSUME CacheInv, CacheOK, NEW r, Entry(r) # {}
  PROVE  LET k == CHOOSE k \in Entry(r) : TRUE
         IN  Lacks(Without(k), CacheKey(r)) /\ Len(Without(k)) = Len(cache) - 1
<1> DEFINE k == CHOOSE k \in Entry(r) : TRUE
<1>1. k \in DOMAIN cache /\ cache[k].key = CacheKey(r)
  BY DEF Entry
<1> HIDE DEF k
<1>2. Lacks(Without(k), CacheKey(r))
  BY <1>1, LacksWithout, CacheEntries DEF CacheOK, KeyedOnce
<1>3. Len(Without(k)) = Len(cache) - 1
  BY <1>1, WithoutIs DEF CacheInv
<1> QED BY <1>2, <1>3 DEF k

\* The least recently used entry makes room.
LEMMA StoredOK ==
  ASSUME CacheInv, CacheOK, NEW r, NEW e, e.key = CacheKey(r)
  PROVE  KeyedOnce(Stored(r, e)) /\ Len(Stored(r, e)) <= CacheSize
<1> DEFINE others == IF Entry(r) = {} THEN cache ELSE Without(CHOOSE k \in Entry(r) : TRUE)
           room == IF Len(others) = CacheSize THEN Tail(others) ELSE others
<1>1. Len(cache) \in Nat /\ CacheSize \in Nat /\ CacheSize # 0 /\ Len(cache) <= CacheSize
  BY SearchAssumption DEF CacheInv, CacheOK
<1>2. Entries(others)
  <2>1. Entry(r) # {} => (CHOOSE k \in Entry(r) : TRUE) \in DOMAIN cache
    BY DEF Entry
  <2> QED BY <2>1, CacheEntries, EntriesWithout
<1>3. Lacks(others, e.key)
  <2>1. CASE Entry(r) = {}
    BY <2>1 DEF Entry, Lacks, KeyedOnce, CacheOK
  <2> QED BY <2>1, OthersLack
<1>4. Len(others) \in Nat /\ Len(others) <= CacheSize
  <2>1. Len(others) \in Nat
    BY <1>2 DEF Entries
  <2>2. Len(others) = Len(cache) \/ Len(others) = Len(cache) - 1
    BY OthersLack
  <2> QED BY <1>1, <2>1, <2>2
<1>5. Stored(r, e) = Append(room, e)
  BY DEF Stored
<1> HIDE DEF others
<1>6. Entries(room) /\ Lacks(room, e.key) /\ Len(room) < CacheSize
  <2>1. CASE Len(others) = CacheSize
    <3>1. Entries(Tail(others)) /\ Lacks(Tail(others), e.key) /\ Len(Tail(others)) = Len(others) - 1
      BY <1>1, <1>2, <1>3, <2>1, EntriesTail, LacksTail
    <3> QED BY <1>1, <2>1, <3>1
  <2>2. CASE Len(others) # CacheSize
    BY <1>1, <1>2, <1>3, <1>4, <2>2
  <2> QED BY <2>1, <2>2
<1> HIDE DEF room
<1>7. Len(room) \in Nat
  BY <1>6 DEF Entries
<1> QED BY <1>1, <1>5, <1>6, <1>7, DistinctAppend

LEMMA TouchedOK ==
  ASSUME CacheInv, CacheOK, NEW k \in DOMAIN cache
  PROVE  KeyedOnce(Touched(k)) /\ Len(Touched(k)) <= CacheSize
<1>1. Entries(cache) /\ KeyedOnce(cache) /\ Len(cache) <= CacheSize
  BY CacheEntries DEF CacheOK, KeyedOnce
<1>2. Entries(Without(k)) /\ Lacks(Without(k), cache[k].key)
  BY <1>1, EntriesWithout, LacksWithout
<1>3. Len(cache) \in Nat /\ Len(Without(k)) = Len(cache) - 1
  BY WithoutIs DEF CacheInv
<1>4. KeyedOnce(Touched(k)) /\ Len(Touched(k)) = Len(Without(k)) + 1
  BY <1>2, DistinctAppend DEF Touched
<1> QED BY <1>1, <1>3, <1>4

LEMMA CacheMoves ==
  ASSUME searcher' = searcher, Entries(cache')
  PROVE  CacheInv'
  BY DEF CacheInv, Entries, OfKey

-----------------------------------------------------------------------------
(* The steps of a search.                                                   *)

Inv == TaskInv /\ CacheInv

\* A leg that moves one task and leaves the cache alone.
LEMMA LegInv ==
  ASSUME Inv, NEW t \in Tasks, Moves(t), cache' = cache, Sound(searcher, task'[t])
  PROVE  Inv'
<1>1. searcher' = searcher
  BY DEF Moves
<1> QED BY <1>1, TaskMoves, CacheStays DEF Inv

\* A task that goes on without a leg is not whole.
LEMMA WithoutInv ==
  ASSUME Inv, NEW t \in Tasks, NEW pc, NEW hits, task[t].pc # "idle",
         searcher' = searcher, cache' = cache, GoesWithout(t, pc, hits)
  PROVE  Inv'
<1>1. Moves(t) /\ ~task'[t].whole
  BY GoesOnWithout DEF Inv
<1>2. Sound(searcher, task'[t])
  BY <1>1 DEF Sound
<1> QED BY <1>1, <1>2, LegInv

LEMMA ProgressInv ==
  ASSUME Inv, NEW t \in Tasks, NEW pc, NEW hits, task[t].pc # "idle",
         searcher' = searcher, cache' = cache, Goes(t, pc, hits),
         task[t].whole => Progress(searcher, task[t].req, pc, hits),
         pc \notin Later
  PROVE  Inv'
<1>1. /\ Moves(t) /\ task'[t].pc = pc /\ task'[t].hits = hits
      /\ task'[t].req = task[t].req /\ task'[t].whole = task[t].whole
  BY GoesOn DEF Inv
<1>2. Sound(searcher, task'[t])
  BY <1>1 DEF Sound
<1> QED BY <1>1, <1>2, LegInv

\* After the cache a task keeps what it kept.
LEMMA LaterInv ==
  ASSUME Inv, NEW t \in Tasks, NEW pc, NEW hits, task[t].pc # "idle",
         searcher' = searcher, cache' = cache, Goes(t, pc, hits),
         pc \in {"retrieve", "answered", "failed"} \/ (task[t].pc \in Later /\ pc \in Later)
  PROVE  Inv'
<1>1. /\ Moves(t) /\ task'[t].pc = pc /\ task'[t].kept = task[t].kept
      /\ task'[t].req = task[t].req /\ task'[t].whole = task[t].whole
  BY GoesOn DEF Inv
<1>2. Sound(searcher, task[t])
  BY DEF Inv, TaskInv
<1>3. Sound(searcher, task'[t])
  BY <1>1, <1>2 DEF Sound, Later
<1> QED BY <1>1, <1>3, LegInv

\* The steps that the legs before the cache lead to.
LEMMA NextLegs ==
  ASSUME NEW s, NEW r, NEW hits
  PROVE  /\ AfterSparse(s, hits) \notin Later
         /\ AfterGraph(s, hits) \notin Later
         /\ AfterRetrieval(s, r, hits) \notin Later
  BY DEF AfterSparse, AfterGraph, AfterRetrieval, Later

LEMMA AfterTheCache ==
  ASSUME NEW r, NEW hits
  PROVE  /\ AfterCache(r, hits) \in {"answered", "diversify", "rerank", "adjust"}
         /\ AfterDiversity(hits) \in {"rerank", "adjust"}
  BY DEF AfterCache, AfterDiversity

LEMMA BeginInv ==
  ASSUME Inv, NEW t \in Tasks, NEW r, Begins(t, r)
  PROVE  Inv'
<1> DEFINE tk == [pc |-> "embed", req |-> r, hits |-> <<>>, kept |-> <<>>, whole |-> TRUE]
<1>1. /\ searcher' = searcher /\ cache' = cache /\ task' = [task EXCEPT ![t] = tk]
      /\ DOMAIN task = Tasks
  BY DEF Begins, Inv, TaskInv
<1>2. Shaped(tk) /\ Sound(searcher, tk)
  BY DEF Shaped, Sound, Later
<1> HIDE DEF tk
<1>3. DOMAIN task' = Tasks /\ task'[t] = tk /\ \A u \in Tasks \ {t} : task'[u] = task[u]
  BY <1>1
<1>4. Moves(t) /\ Sound(searcher, task'[t])
  BY <1>1, <1>2, <1>3 DEF Moves, Shaped
<1> QED BY <1>1, <1>4, LegInv

\* Candidates from the cache are those of the task's request.
LEMMA EmbedInv ==
  ASSUME Inv, NEW t \in Tasks, Embed(t)
  PROVE  Inv'
<1> DEFINE r == task[t].req
<1>1. /\ task[t].pc = "embed" /\ task[t].pc # "idle" /\ searcher' = searcher
      /\ DOMAIN task = Tasks /\ Shaped(task[t])
  BY DEF Embed, Inv, TaskInv
<1>2. CASE Goes(t, "retrieve", <<>>) /\ cache' = cache
  BY <1>1, <1>2, LaterInv
<1>3. CASE Goes(t, "failed", <<>>) /\ cache' = cache
  BY <1>1, <1>3, LaterInv
<1>4. ASSUME NEW k \in Entry(r), cache' = Touched(k),
             task' = [task EXCEPT ![t] =
                [@ EXCEPT !.pc = AfterCache(r, cache[k].hits), !.hits = cache[k].hits,
                          !.kept = cache[k].hits, !.whole = cache[k].whole]]
      PROVE  Inv'
  <2>1. k \in DOMAIN cache /\ cache[k].key = CacheKey(r)
    BY DEF Entry
  <2>2. Entries(Touched(k)) /\ OfKey(cache[k])
    BY <2>1, CacheTouched DEF Inv
  <2>3. CacheInv'
    BY <1>1, <1>4, <2>2, CacheMoves
  <2> DEFINE pc == AfterCache(r, cache[k].hits)
             hits == cache[k].hits
             whole == cache[k].whole
             tk == [task[t] EXCEPT !.pc = pc, !.hits = hits, !.kept = hits, !.whole = whole]
  <2>4. task' = [task EXCEPT ![t] = tk]
    BY <1>4
  <2>5. whole => hits \in Candidates(searcher, r)
    BY <2>1, <2>2, SameCandidates DEF OfKey
  <2>6. pc \in {"answered", "diversify", "rerank", "adjust"}
    BY AfterTheCache
  <2> HIDE DEF pc, hits, whole
  <2>7. /\ DOMAIN tk = DOMAIN task[t] /\ tk.pc = pc /\ tk.hits = hits /\ tk.kept = hits
        /\ tk.whole = whole /\ tk.req = r
    BY <1>1 DEF Shaped
  <2> HIDE DEF tk
  <2>8. Shaped(tk) /\ Sound(searcher, tk)
    BY <1>1, <2>5, <2>6, <2>7 DEF Shaped, Sound
  <2>9. DOMAIN task' = Tasks /\ task'[t] = tk /\ \A u \in Tasks \ {t} : task'[u] = task[u]
    BY <1>1, <2>4
  <2>10. Moves(t) /\ Sound(searcher, task'[t])
    BY <1>1, <2>8, <2>9 DEF Moves, Shaped
  <2> QED BY <2>3, <2>10, TaskMoves DEF Inv
<1> QED BY <1>2, <1>3, <1>4 DEF Embed

\* The legs up to the cache follow Progress, or leave it as not whole.
LEMMA LegsInv ==
  ASSUME Inv, NEW t \in Tasks,
         Retrieve(t) \/ ExtendByGraph(t) \/ ExtendBySparse(t) \/ BoostCochange(t)
  PROVE  Inv'
<1> DEFINE r == task[t].req
           now == task[t].hits
<1>1. Sound(searcher, task[t])
  BY DEF Inv, TaskInv
<1>2. CASE Retrieve(t)
  <2>1. task[t].pc # "idle" /\ searcher' = searcher /\ cache' = cache
    BY <1>2 DEF Retrieve
  <2>2. ASSUME NEW o \in Orders, NEW hits, hits = Retrieved(searcher, r, o),
               Goes(t, AfterRetrieval(searcher, r, hits), hits)
        PROVE  Inv'
    <3>1. Progress(searcher, r, AfterRetrieval(searcher, r, hits), hits)
      BY <2>2, ProgressRetrieval DEF RetrievedBy
    <3> QED BY <2>1, <2>2, <3>1, NextLegs, ProgressInv
  <2>3. CASE Goes(t, "failed", <<>>)
    BY <2>1, <2>3, LaterInv
  <2> QED BY <1>2, <2>2, <2>3 DEF Retrieve
<1>3. CASE ExtendByGraph(t)
  <2>1. task[t].pc = "graph" /\ searcher' = searcher /\ cache' = cache
    BY <1>3 DEF ExtendByGraph
  <2>2. task[t].whole => Progress(searcher, r, "graph", now)
    BY <1>1, <2>1 DEF Sound
  <2>3. ASSUME NEW o \in Orders, NEW hits, hits = Augment(searcher, r.query, now, o, TRUE),
               Goes(t, AfterGraph(searcher, hits), hits)
        PROVE  Inv'
    <3>1. task[t].whole => Progress(searcher, r, AfterGraph(searcher, hits), hits)
      BY <2>2, <2>3, ProgressSteps
    <3> QED BY <2>1, <2>3, <3>1, NextLegs, ProgressInv
  <2>4. ASSUME NEW pc, NEW hits, GoesWithout(t, pc, hits) PROVE Inv'
    BY <2>1, <2>4, WithoutInv
  <2>5. CASE Goes(t, "failed", <<>>)
    BY <2>1, <2>5, LaterInv
  <2> QED BY <1>3, <2>3, <2>4, <2>5 DEF ExtendByGraph
<1>4. CASE ExtendBySparse(t)
  <2>1. task[t].pc = "sparse" /\ searcher' = searcher /\ cache' = cache
    BY <1>4 DEF ExtendBySparse
  <2>2. task[t].whole => Progress(searcher, r, "sparse", now)
    BY <1>1, <2>1 DEF Sound
  <2>3. ASSUME NEW o \in Orders, NEW hits, hits = Sparsed(searcher, r.query, now, o, TRUE),
               Goes(t, AfterSparse(searcher, hits), hits)
        PROVE  Inv'
    <3>1. task[t].whole => Progress(searcher, r, AfterSparse(searcher, hits), hits)
      BY <2>2, <2>3, ProgressSteps
    <3> QED BY <2>1, <2>3, <3>1, NextLegs, ProgressInv
  <2>4. ASSUME NEW pc, NEW hits, GoesWithout(t, pc, hits) PROVE Inv'
    BY <2>1, <2>4, WithoutInv
  <2> QED BY <1>4, <2>3, <2>4 DEF ExtendBySparse
<1>5. CASE BoostCochange(t)
  <2>1. task[t].pc = "cochange" /\ searcher' = searcher /\ cache' = cache
    BY <1>5 DEF BoostCochange
  <2>2. task[t].whole => Progress(searcher, r, "cochange", now)
    BY <1>1, <2>1 DEF Sound
  <2>3. CASE Goes(t, "keep", CochangeBoost(searcher, now))
    <3>1. task[t].whole => Progress(searcher, r, "keep", CochangeBoost(searcher, now))
      BY <2>2, ProgressCochange
    <3>2. "keep" \notin Later
      BY DEF Later
    <3> QED BY <2>1, <2>3, <3>1, <3>2, ProgressInv
  <2>4. CASE GoesWithout(t, "keep", now)
    BY <2>1, <2>4, WithoutInv
  <2> QED BY <1>5, <2>3, <2>4 DEF BoostCochange
<1> QED BY <1>2, <1>3, <1>4, <1>5

\* What is kept are candidates of the request, and so of its key.
LEMMA KeepInv ==
  ASSUME Inv, NEW t \in Tasks, Keep(t)
  PROVE  Inv'
<1> DEFINE r == task[t].req
           hits == task[t].hits
           whole == task[t].whole
           e == [key |-> CacheKey(r), hits |-> hits, whole |-> whole]
           pc == AfterCache(r, hits)
           tk == [task[t] EXCEPT !.pc = pc, !.kept = hits]
<1>1. /\ task[t].pc = "keep" /\ task[t].pc # "idle" /\ searcher' = searcher
      /\ cache' = Stored(r, e) /\ task' = [task EXCEPT ![t].pc = pc, ![t].kept = hits]
      /\ DOMAIN task = Tasks /\ Shaped(task[t]) /\ Sound(searcher, task[t])
  BY DEF Keep, Inv, TaskInv
<1>2. whole => hits \in Candidates(searcher, r)
  BY <1>1 DEF Sound, Progress
<1>3. OfKey(e)
  BY <1>2, SameCandidates DEF OfKey
<1>4. CacheInv'
  <2>1. Entries(Stored(r, e))
    BY <1>3, CacheStored DEF Inv
  <2> QED BY <1>1, <2>1, CacheMoves
<1>5. pc \in {"answered", "diversify", "rerank", "adjust"}
  BY AfterTheCache
<1>6. task' = [task EXCEPT ![t] = tk]
  BY <1>1
<1> HIDE DEF pc
<1>7. /\ DOMAIN tk = DOMAIN task[t] /\ tk.pc = pc /\ tk.kept = hits
      /\ tk.whole = whole /\ tk.req = r
  BY <1>1 DEF Shaped
<1> HIDE DEF tk
<1>8. Shaped(tk) /\ Sound(searcher, tk)
  BY <1>1, <1>2, <1>5, <1>7 DEF Shaped, Sound
<1>9. DOMAIN task' = Tasks /\ task'[t] = tk /\ \A u \in Tasks \ {t} : task'[u] = task[u]
  BY <1>1, <1>6
<1>10. Moves(t) /\ Sound(searcher, task'[t])
  BY <1>1, <1>8, <1>9 DEF Moves, Shaped
<1> QED BY <1>4, <1>10, TaskMoves DEF Inv

LEMMA AnswerInv ==
  ASSUME Inv, NEW t \in Tasks,
         Diversify(t) \/ Rerank(t) \/ Adjust(t) \/ Scope(t)
  PROVE  Inv'
<1>1. task[t].pc \in Later /\ task[t].pc # "idle" /\ searcher' = searcher /\ cache' = cache
  BY DEF Diversify, Rerank, Adjust, Scope, Later
<1>2. ASSUME NEW pc, NEW hits, Goes(t, pc, hits),
             pc \in {"rerank", "adjust", "scope", "answered", "failed"}
      PROVE  Inv'
  <2>1. pc \in {"retrieve", "answered", "failed"} \/ pc \in Later
    BY <1>2 DEF Later
  <2> QED BY <1>1, <1>2, <2>1, LaterInv
<1>3. CASE Diversify(t)
  BY <1>2, <1>3, AfterTheCache DEF Diversify
<1>4. CASE Rerank(t)
  BY <1>2, <1>4 DEF Rerank
<1>5. CASE Adjust(t)
  BY <1>2, <1>5 DEF Adjust
<1>6. CASE Scope(t)
  BY <1>2, <1>6 DEF Scope
<1> QED BY <1>3, <1>4, <1>5, <1>6

LEMMA NextInv == Inv /\ [Next]_vars => Inv'
<1> SUFFICES ASSUME Inv, [Next]_vars PROVE Inv'
  OBVIOUS
<1>1. ASSUME NEW t \in Tasks, Begin(t) PROVE Inv'
  BY <1>1, BeginInv DEF Begin
<1>2. ASSUME NEW t \in Tasks, Step(t) PROVE Inv'
  BY <1>2, EmbedInv, LegsInv, KeepInv, AnswerInv DEF Step
<1>3. CASE UNCHANGED vars
  BY <1>3 DEF vars, Inv, TaskInv, CacheInv
<1> QED BY <1>1, <1>2, <1>3 DEF Next

\* Three things may happen to the cache.
LEMMA CacheSteps ==
  ASSUME [Next]_vars
  PROVE  \/ cache' = cache
         \/ \E k \in DOMAIN cache : cache' = Touched(k)
         \/ \E r, e : e.key = CacheKey(r) /\ cache' = Stored(r, e)
<1>1. ASSUME NEW t \in Tasks, Begin(t) PROVE cache' = cache
  BY <1>1 DEF Begin, Begins
<1>2. ASSUME NEW t \in Tasks, Embed(t)
      PROVE  cache' = cache \/ \E k \in DOMAIN cache : cache' = Touched(k)
  BY <1>2 DEF Embed, Entry
<1>3. ASSUME NEW t \in Tasks, Keep(t)
      PROVE  \E r, e : e.key = CacheKey(r) /\ cache' = Stored(r, e)
  <2> DEFINE e == [key |-> CacheKey(task[t].req), hits |-> task[t].hits, whole |-> task[t].whole]
  <2>1. e.key = CacheKey(task[t].req) /\ cache' = Stored(task[t].req, e)
    BY <1>3 DEF Keep
  <2> HIDE DEF e
  <2> QED BY <2>1
<1>4. ASSUME NEW t \in Tasks,
             \/ Retrieve(t) \/ ExtendByGraph(t) \/ ExtendBySparse(t) \/ BoostCochange(t)
             \/ Diversify(t) \/ Rerank(t) \/ Adjust(t) \/ Scope(t)
      PROVE  cache' = cache
  BY <1>4 DEF Retrieve, ExtendByGraph, ExtendBySparse, BoostCochange, Diversify, Rerank,
              Adjust, Scope
<1>5. CASE UNCHANGED vars
  BY <1>5 DEF vars
<1> QED BY <1>1, <1>2, <1>3, <1>4, <1>5 DEF Next, Step

\* The steps of the tools: what a search does, the begin of one, or an answer.
LEMMA SearchStays ==
  ASSUME [Next]_vars \/ \E t \in Tasks : \E r : Begins(t, r)
  PROVE  searcher' = searcher
<1>1. ASSUME NEW t \in Tasks, Begin(t) \/ Step(t) PROVE searcher' = searcher
  BY <1>1 DEF Begin, Begins, Step, Embed, Retrieve, ExtendByGraph, ExtendBySparse, BoostCochange,
              Keep, Diversify, Rerank, Adjust, Scope
<1>2. ASSUME NEW t \in Tasks, NEW r, Begins(t, r) PROVE searcher' = searcher
  BY <1>2 DEF Begins
<1> QED BY <1>1, <1>2 DEF Next, vars

\* An answer to an ask, or none
Replies(ask) == (\E out : Answers(ask, out)) \/ Refuses(ask)

LEMMA CallSteps ==
  ASSUME NEW ask \in Asks, Call(ask)
  PROVE  \/ \E t \in Tasks : CallSearch(ask, t)
         \/ /\ UNCHANGED <<searcher, embedded, cache, task, tables>>
            /\ \/ ask.tool = "find_dependents" /\ Answers(ask, ImpactSet(ask))
               \/ ask.tool # "find_dependents" /\ Replies(ask)
<1>1. CASE CallFindSymbol(ask)
  BY <1>1 DEF CallFindSymbol, Ready, Replies
<1>2. CASE CallSymbolInfo(ask)
  BY <1>2 DEF CallSymbolInfo, Ready, Replies, Partly
<1>3. CASE CallFindDependents(ask)
  BY <1>3 DEF CallFindDependents, Ready, Replies
<1>4. CASE CallFindTests(ask)
  BY <1>4 DEF CallFindTests, Ready, Replies
<1>5. CASE CallRepoMap(ask)
  BY <1>5 DEF CallRepoMap, Ready, Replies
<1>6. CASE CallSearchTables(ask)
  BY <1>6 DEF CallSearchTables, Ready, Replies, Partly
<1> QED BY <1>1, <1>2, <1>3, <1>4, <1>5, <1>6 DEF Call

LEMMA ToolsStays ==
  ASSUME [ToolsNext]_toolVars
  PROVE  searcher' = searcher /\ tables' = tables
<1>1. CASE Searching
  BY <1>1, SearchStays DEF Searching
<1>2. ASSUME NEW ask \in Asks, Call(ask)
      PROVE  searcher' = searcher /\ tables' = tables
  BY <1>2, CallSteps DEF CallSearch, Begins
<1>3. CASE Deliver
  BY <1>3 DEF Deliver, vars
<1>4. CASE UNCHANGED toolVars
  BY <1>4 DEF toolVars, vars
<1> QED BY <1>1, <1>2, <1>3, <1>4 DEF ToolsNext

LEMMA ToolsSteps ==
  ASSUME [ToolsNext]_toolVars
  PROVE  \/ [Next]_vars
         \/ \E t \in Tasks : \E r : IsRequest(r) /\ Begins(t, r)
         \/ UNCHANGED <<searcher, embedded, cache, task>>
<1>1. CASE Searching
  BY <1>1 DEF Searching
<1>2. ASSUME NEW ask \in Asks, Call(ask)
      PROVE  \/ \E t \in Tasks : \E r : IsRequest(r) /\ Begins(t, r)
             \/ UNCHANGED <<searcher, embedded, cache, task>>
  <2>1. ask.tool = "search_code" => IsRequest(RequestOf(ask))
    BY ToolsAssumption
  <2> QED BY <1>2, <2>1, CallSteps DEF CallSearch
<1>3. CASE Deliver
  BY <1>3 DEF Deliver, vars
<1>4. CASE UNCHANGED toolVars
  BY <1>4 DEF toolVars, vars
<1> QED BY <1>1, <1>2, <1>3, <1>4 DEF ToolsNext

LEMMA ToolsInv == Inv /\ [ToolsNext]_toolVars => Inv'
<1>1. Inv /\ UNCHANGED <<searcher, cache, task>> => Inv'
  BY DEF Inv, TaskInv, CacheInv
<1> QED BY <1>1, ToolsSteps, NextInv, BeginInv

LEMMA InitOK == Init => Inv /\ CacheOK
<1>1. CacheSize \in Nat
  BY SearchAssumption
<1>2. cache = <<>> => CacheOK
  BY <1>1 DEF CacheOK
<1>3. Init => cache = <<>>
  BY DEF Init
<1> QED BY <1>2, <1>3, InitInv DEF Inv

LEMMA StepOK ==
  ASSUME Inv, CacheOK, [Next]_vars
  PROVE  CacheOK'
<1>1. CacheInv
  BY DEF Inv
<1>2. CASE cache' = cache
  BY <1>2 DEF CacheOK
<1>3. ASSUME KeyedOnce(cache'), Len(cache') <= CacheSize PROVE CacheOK'
  BY <1>3 DEF CacheOK, KeyedOnce
<1> QED BY <1>1, <1>2, <1>3, CacheSteps, TouchedOK, StoredOK

\* However many searches run, the cache keeps within its size and has one entry for
\* a key: the one that a search finds is the one kept last, also where the searches
\* come from an agent that calls tools (candidate_cache, put).
THEOREM CacheStaysWithin == (Spec => []CacheOK) /\ (ToolsSpec => []CacheOK)
<1>1. Inv /\ CacheOK /\ [Next]_vars => (Inv /\ CacheOK)'
  BY NextInv, StepOK
<1>2. Inv /\ CacheOK /\ [ToolsNext]_toolVars => (Inv /\ CacheOK)'
  <2>1. cache' = cache => (CacheOK => CacheOK')
    BY DEF CacheOK
  <2>2. \A t \in Tasks : \A r : Begins(t, r) => cache' = cache
    BY DEF Begins
  <2> QED BY <2>1, <2>2, ToolsSteps, ToolsInv, StepOK
<1>3. ToolsInit => Init
  BY DEF ToolsInit
<1> QED BY <1>1, <1>2, <1>3, InitOK, PTL DEF Spec, ToolsSpec

\* A search that takes its candidates from the cache has candidates that it would
\* have found itself: two requests of one key have the same candidates, and what an
\* entry holds does not change when searches beside it move it, those of the tools
\* among them (candidate_cache, retrieval_cache_key of searcher.rs).
THEOREM CachedStayOwn == (Spec => []CachedAreOwn) /\ (ToolsSpec => []CachedAreOwn)
<1>1. Inv => CachedAreOwn
  BY DEF Inv, TaskInv, Sound, Later, CachedAreOwn
<1>2. ToolsInit => Init
  BY DEF ToolsInit
<1> QED BY <1>1, <1>2, InitOK, NextInv, ToolsInv, PTL DEF Spec, ToolsSpec
-----------------------------------------------------------------------------
(* Loops and sequences                                                      *)

\* A set of naturals has a least element.
LEMMA Least ==
  ASSUME NEW T, T \subseteq Nat, T # {}
  PROVE  \E m \in T : \A k \in T : m <= k
<1> DEFINE R == {ss \in Nat \X Nat : ss[1] < ss[2]}
<1>1. IsWellFoundedOn(R, Nat)
  BY NatLessThanWellFounded DEF OpToRel
<1>2. \E x \in T : \A y \in T : ~ (<<y, x>> \in R)
  <2> HIDE DEF R
  <2> QED BY <1>1, WFMin
<1>3. PICK x \in T : \A y \in T : ~ (<<y, x>> \in R)
  BY <1>2
<1>4. \A y \in T : y \in Nat /\ x \in Nat /\ ~(y < x)
  BY <1>3
<1> QED BY <1>4

\* What holds of no turn of a loop, and of a turn if of the one before, holds of all.
LEMMA Induction ==
  ASSUME NEW N \in Nat, NEW T, 0 \in T, \A n \in 1..N : n - 1 \in T => n \in T
  PROVE  \A n \in 0..N : n \in T
<1> DEFINE B == {n \in 0..N : n \notin T}
<1> SUFFICES ASSUME B # {} PROVE FALSE
  OBVIOUS
<1>1. PICK m \in B : \A k \in B : m <= k
  <2>1. B \subseteq Nat
    OBVIOUS
  <2> HIDE DEF B
  <2> QED BY <2>1, Least
<1>2. m \in 1..N /\ m - 1 \in 0..N
  BY <1>1
<1>3. m - 1 \notin B
  BY <1>1, <1>2
<1> QED BY <1>1, <1>2, <1>3

\* A loop of N turns, whose turns are a function of their number and of what the
\* turn before has left, computes one value after the other.
Computes(S, a, N, F, f) ==
    f \in [0..N -> S] /\ f[0] = a /\ \A n \in 1..N : f[n] = F[n][f[n - 1]]

LEMMA Loop ==
  ASSUME NEW S, NEW a \in S, NEW N \in Nat, NEW F \in [1..N -> [S -> S]]
  PROVE  \E f : Computes(S, a, N, F, f)
<1> DEFINE Runs(n, f) == f[0] = a /\ \A k \in 1..n : f[k] = F[k][f[k - 1]]
           T == {n \in 0..N : \E f \in [0..n -> S] : Runs(n, f)}
<1>1. 0 \in T
  <2> DEFINE h == [k \in 0..0 |-> a]
  <2>1. h \in [0..0 -> S]
    OBVIOUS
  <2>2. Runs(0, h)
    OBVIOUS
  <2> HIDE DEF h, Runs
  <2> QED BY <2>1, <2>2
<1>2. ASSUME NEW n \in 1..N, n - 1 \in T PROVE n \in T
  <2>1. PICK f \in [0..(n - 1) -> S] : Runs(n - 1, f)
    BY <1>2
  <2>2. F[n][f[n - 1]] \in S
    OBVIOUS
  <2> DEFINE h == [k \in 0..n |-> IF k = n THEN F[n][f[n - 1]] ELSE f[k]]
  <2>3. h \in [0..n -> S]
    BY <2>2
  <2>4. Runs(n, h)
    BY <2>1
  <2> HIDE DEF h, Runs
  <2> QED BY <2>3, <2>4
<1>3. N \in T
  <2> HIDE DEF T
  <2>1. \A n \in 0..N : n \in T
    BY <1>1, <1>2, Induction
  <2> QED BY <2>1
<1>4. PICK f \in [0..N -> S] : Runs(N, f)
  BY <1>3
<1>5. Computes(S, a, N, F, f)
  BY <1>4 DEF Computes
<1> QED BY <1>5


LEMMA Typed ==
  ASSUME NEW S, NEW N \in Nat, NEW h, h[0] \in S,
         \A n \in 1..N : h[n - 1] \in S => h[n] \in S
  PROVE  \A n \in 0..N : h[n] \in S
<1> DEFINE T == {n \in 0..N : h[n] \in S}
<1>1. 0 \in T /\ \A n \in 1..N : n - 1 \in T => n \in T
  OBVIOUS
<1>2. \A n \in 0..N : n \in T
  <2> HIDE DEF T
  <2> QED BY <1>1, Induction
<1> QED BY <1>2

\* What is left of a sequence after n of its elements
OnlyLoop(S, s, keep, f) ==
    /\ f \in [0..Len(s) -> Seq(S)]
    /\ f[0] = <<>>
    /\ \A n \in 1..Len(s) :
          f[n] = IF s[n] \in keep THEN Append(f[n - 1], s[n]) ELSE f[n - 1]
    /\ Only(s, keep) = f[Len(s)]

LEMMA OnlyLoops ==
  ASSUME NEW S, NEW s \in Seq(S), NEW keep
  PROVE  \E f : OnlyLoop(S, s, keep, f)
<1> DEFINE N == Len(s)
           Q == Seq(S)
           Turn(n, q) == IF s[n] \in keep THEN Append(q, s[n]) ELSE q
           F == [n \in 1..N |-> [q \in Q |-> Turn(n, q)]]
           Runs(f) == f = [n \in 0..N |-> IF n = 0 THEN <<>> ELSE Turn(n, f[n - 1])]
           h == CHOOSE f : Runs(f)
<1>1. N \in Nat /\ <<>> \in Q /\ \A n \in 1..N, q \in Q : Turn(n, q) \in Q
  OBVIOUS
<1>2. Only(s, keep) = h[N]
  BY DEF Only
<1> HIDE DEF N, Q, Turn
<1>3. \E f : Runs(f)
  <2>1. F \in [1..N -> [Q -> Q]]
    BY <1>1
  <2>2. PICK f : Computes(Q, <<>>, N, F, f)
    <3> HIDE DEF F, Runs, h
    <3> QED BY <1>1, <2>1, Loop
  <2>3. /\ f \in [0..N -> Q] /\ f[0] = <<>>
        /\ \A n \in 1..N : n - 1 \in 0..N /\ f[n - 1] \in Q /\ f[n] = F[n][f[n - 1]]
    <3> HIDE DEF F
    <3> QED BY <1>1, <2>2 DEF Computes
  <2>4. \A n \in 1..N : f[n] = Turn(n, f[n - 1])
    BY <2>3
  <2>5. Runs(f)
    BY <1>1, <2>3, <2>4
  <2> HIDE DEF Runs
  <2> QED BY <2>5
<1>4. Runs(h)
  <2> HIDE DEF Runs
  <2> QED BY <1>3
<1> HIDE DEF h
<1>5. h[0] = <<>> /\ \A n \in 1..N : h[n] = Turn(n, h[n - 1])
  BY <1>1, <1>4
<1>6. \A n \in 0..N : h[n] \in Q
  BY <1>1, <1>5, Typed
<1>7. h \in [0..N -> Q]
  BY <1>4, <1>6
<1>8. OnlyLoop(S, s, keep, h)
  BY <1>2, <1>5, <1>7 DEF N, Q, Turn, OnlyLoop
<1> QED BY <1>8

Distinct(s) == \A i, j \in DOMAIN s : s[i] = s[j] => i = j

LEMMA AppendElements ==
  ASSUME NEW S, NEW q \in Seq(S), NEW x \in S
  PROVE  /\ ToSet(Append(q, x)) = ToSet(q) \cup {x}
         /\ Distinct(q) /\ x \notin ToSet(q) => Distinct(Append(q, x))
<1>1. /\ DOMAIN Append(q, x) = 1..(Len(q) + 1) /\ DOMAIN q = 1..Len(q) /\ Len(q) \in Nat
      /\ \A i \in 1..Len(q) : Append(q, x)[i] = q[i]
      /\ Append(q, x)[Len(q) + 1] = x
  OBVIOUS
<1>2. ToSet(Append(q, x)) \subseteq ToSet(q) \cup {x}
  BY <1>1 DEF ToSet
<1>3. x \in ToSet(Append(q, x))
  BY <1>1 DEF ToSet
<1>4. ToSet(q) \subseteq ToSet(Append(q, x))
  BY <1>1 DEF ToSet
<1>5. ASSUME Distinct(q), x \notin ToSet(q)
      PROVE  Distinct(Append(q, x))
  BY <1>1, <1>5 DEF Distinct, ToSet
<1> QED BY <1>2, <1>3, <1>4, <1>5

LEMMA OnlyElements ==
  ASSUME NEW S, NEW s \in Seq(S), NEW keep
  PROVE  /\ Only(s, keep) \in Seq(S)
         /\ ToSet(Only(s, keep)) = ToSet(s) \cap keep
         /\ Distinct(s) => Distinct(Only(s, keep))
<1> DEFINE N == Len(s)
           First(n) == {s[i] : i \in 1..n}
<1>0. PICK f : OnlyLoop(S, s, keep, f)
  BY OnlyLoops
<1>1. /\ f \in [0..N -> Seq(S)] /\ f[0] = <<>> /\ Only(s, keep) = f[N]
      /\ \A n \in 1..N : f[n] = IF s[n] \in keep THEN Append(f[n - 1], s[n]) ELSE f[n - 1]
  BY <1>0 DEF OnlyLoop
<1> DEFINE T == {n \in 0..N : /\ ToSet(f[n]) = First(n) \cap keep
                              /\ Distinct(s) => Distinct(f[n])}
<1>2. N \in Nat /\ DOMAIN s = 1..N /\ \A n \in 1..N : s[n] \in S
  OBVIOUS
<1> HIDE DEF N
<1>3. 0 \in T
  BY <1>1, <1>2 DEF ToSet, Distinct
<1>4. ASSUME NEW n \in 1..N, n - 1 \in T PROVE n \in T
  <2>1. /\ n - 1 \in 0..N /\ n \in 0..N /\ f[n - 1] \in Seq(S) /\ s[n] \in S
        /\ f[n] = IF s[n] \in keep THEN Append(f[n - 1], s[n]) ELSE f[n - 1]
    BY <1>1, <1>2
  <2>2. First(n) = First(n - 1) \cup {s[n]}
    BY <1>2
  <2>3. Distinct(s) => s[n] \notin First(n - 1)
    <3> SUFFICES ASSUME Distinct(s), NEW i \in 1..(n - 1), s[n] = s[i] PROVE FALSE
      OBVIOUS
    <3>1. i \in 1..N /\ i # n
      BY <1>2
    <3> QED BY <1>2, <3>1 DEF Distinct
  <2>4. ToSet(f[n - 1]) = First(n - 1) \cap keep /\ (Distinct(s) => Distinct(f[n - 1]))
    BY <1>4
  <2> HIDE DEF First
  <2>5. ToSet(f[n]) = First(n) \cap keep
    BY <2>1, <2>2, <2>4, AppendElements
  <2>6. Distinct(s) => Distinct(f[n])
    BY <2>1, <2>3, <2>4, AppendElements
  <2> QED BY <2>1, <2>5, <2>6
<1>5. \A n \in 0..N : n \in T
  <2> HIDE DEF T
  <2> QED BY <1>2, <1>3, <1>4, Induction
<1>6. ToSet(s) = First(N)
  BY <1>2 DEF ToSet
<1> QED BY <1>1, <1>2, <1>5, <1>6

LEMMA ReverseIs ==
  ASSUME NEW S, NEW s \in Seq(S)
  PROVE  /\ Reverse(s) \in Seq(S) /\ ToSet(Reverse(s)) = ToSet(s)
<1> DEFINE N == Len(s)
           r == Reverse(s)
<1>1. /\ N \in Nat /\ DOMAIN s = 1..N /\ r = [i \in 1..N |-> s[(N - i) + 1]]
      /\ \A i \in 1..N : (N - i) + 1 \in 1..N /\ s[i] \in S /\ (N - ((N - i) + 1)) + 1 = i
  BY DEF Reverse
<1>2. r \in Seq(S)
  BY <1>1
<1> HIDE DEF N, r
<1>3. \A i \in 1..N : r[i] = s[(N - i) + 1] /\ s[i] = r[(N - i) + 1]
  BY <1>1
<1>4. ToSet(r) = ToSet(s)
  BY <1>1, <1>3, ZenonT(30) DEF ToSet
<1> QED BY <1>2, <1>4 DEF r

\* Sets whose every subset has an element that no other one of it goes before
Sortable(S, before) ==
    \A T \in SUBSET S : T # {} => \E x \in T : \A y \in T : <<y, x>> \notin before

SortLoop(S, before, f) ==
    /\ \A n \in 0..Cardinality(S) :
          /\ f[n] \in Seq(S) /\ Len(f[n]) = n /\ Distinct(f[n])
    /\ Sorted(S, before) = f[Cardinality(S)]

LEMMA DistinctSet ==
  ASSUME NEW S, NEW q \in Seq(S), Distinct(q)
  PROVE  IsFiniteSet(ToSet(q)) /\ Cardinality(ToSet(q)) = Len(q)
<1>1. /\ Len(q) \in Nat /\ DOMAIN q = 1..Len(q) /\ ToSet(q) = {q[i] : i \in 1..Len(q)}
      /\ \A i \in 1..Len(q) : q[i] \in ToSet(q)
  BY DEF ToSet
<1>2. IsFiniteSet(1..Len(q)) /\ Cardinality(1..Len(q)) = Len(q)
  BY <1>1, FS_Interval
<1>3. ExistsBijection(1..Len(q), ToSet(q))
  <2> DEFINE g == [i \in 1..Len(q) |-> q[i]]
  <2>1. g \in Bijection(1..Len(q), ToSet(q))
    BY <1>1, Zenon DEF Bijection, Injection, IsInjective, Surjection, Distinct
  <2> QED BY <2>1 DEF ExistsBijection
<1> QED BY <1>2, <1>3, FS_Bijection

\* A selection sort has every element once.
LEMMA SortLoops ==
  ASSUME NEW S, IsFiniteSet(S), NEW before, Sortable(S, before)
  PROVE  \E f : SortLoop(S, before, f)
<1> DEFINE N == Cardinality(S)
           Q == {q \in Seq(S) : Distinct(q)}
           Pick(rest) == CHOOSE x \in rest : \A y \in rest : <<y, x>> \notin before
           Turn(q) == Append(q, Pick(S \ ToSet(q)))
           Turned(q) == IF S \ ToSet(q) = {} THEN q ELSE Turn(q)
           F == [n \in 1..N |-> [q \in Q |-> Turned(q)]]
           Runs(f) == f = [n \in 0..N |-> IF n = 0 THEN <<>> ELSE Turn(f[n - 1])]
           h == CHOOSE f : Runs(f)
<1>1. N \in Nat /\ <<>> \in Q
  BY FS_CardinalityType DEF Distinct
<1>2. ASSUME NEW q \in Q, S \ ToSet(q) # {}
      PROVE  Turn(q) \in Q /\ Len(Turn(q)) = Len(q) + 1
  <2> DEFINE rest == S \ ToSet(q)
  <2>1. Pick(rest) \in rest
    BY <1>2 DEF Sortable
  <2> HIDE DEF Pick
  <2> QED BY <2>1, AppendElements
<1>3. ASSUME NEW q \in Q, Len(q) < N PROVE S \ ToSet(q) # {}
  <2>1. ToSet(q) \subseteq S
    BY DEF ToSet
  <2>2. Cardinality(ToSet(q)) = Len(q)
    BY DistinctSet
  <2>3. ToSet(q) # S
    BY <1>1, <1>3, <2>2
  <2> QED BY <2>1, <2>3
<1>4. Sorted(S, before) = h[N]
  BY DEF Sorted
<1> HIDE DEF N, Turn
<1>5. \E f : Runs(f)
  <2>1. \A q \in Q : Turned(q) \in Q
    BY <1>2
  <2>2. F \in [1..N -> [Q -> Q]]
    BY <2>1
  <2>3. PICK f : Computes(Q, <<>>, N, F, f)
    <3> HIDE DEF F, Runs, h, Q
    <3> QED BY <1>1, <2>2, Loop
  <2>4. /\ f \in [0..N -> Q] /\ f[0] = <<>>
        /\ \A n \in 1..N : n - 1 \in 0..N /\ f[n - 1] \in Q /\ f[n] = Turned(f[n - 1])
    <3>1. /\ f \in [0..N -> Q] /\ f[0] = <<>>
          /\ \A n \in 1..N : n - 1 \in 0..N /\ f[n - 1] \in Q /\ f[n] = F[n][f[n - 1]]
      <4> HIDE DEF F, Q
      <4> QED BY <1>1, <2>3 DEF Computes
    <3> HIDE DEF Turned
    <3> QED BY <3>1
  <2> DEFINE T == {n \in 0..N : Len(f[n]) = n}
  <2>5. 0 \in T
    BY <1>1, <2>4
  <2>6. ASSUME NEW n \in 1..N, n - 1 \in T PROVE n \in T
    <3>0. f[n - 1] \in Q /\ Len(f[n - 1]) < N
      BY <1>1, <2>4, <2>6
    <3>1. S \ ToSet(f[n - 1]) # {}
      BY <1>3, <3>0
    <3>2. Len(f[n]) = Len(f[n - 1]) + 1
      BY <1>2, <2>4, <3>1
    <3> QED BY <1>1, <2>6, <3>2
  <2>7. \A n \in 0..N : n \in T
    <3> HIDE DEF T
    <3> QED BY <1>1, <2>5, <2>6, Induction
  <2>8. \A n \in 1..N : f[n] = Turn(f[n - 1])
    <3> TAKE n \in 1..N
    <3>1. n - 1 \in T
      <4> HIDE DEF T
      <4> QED BY <2>4, <2>7
    <3>2. f[n - 1] \in Q /\ Len(f[n - 1]) < N
      BY <1>1, <2>4, <3>1
    <3>3. S \ ToSet(f[n - 1]) # {}
      BY <1>3, <3>2
    <3> QED BY <2>4, <3>3
  <2>9. Runs(f)
    BY <1>1, <2>4, <2>8
  <2> HIDE DEF Runs
  <2> QED BY <2>9
<1>6. Runs(h)
  <2> HIDE DEF Runs
  <2> QED BY <1>5
<1> HIDE DEF h
<1>7. h[0] = <<>> /\ \A n \in 1..N : h[n] = Turn(h[n - 1])
  BY <1>1, <1>6
<1> DEFINE T == {n \in 0..N : h[n] \in Q /\ Len(h[n]) = n}
<1>8. 0 \in T
  <2>1. 0 \in 0..N /\ h[0] \in Q /\ Len(<<>>) = 0
    BY <1>1, <1>7
  <2> QED BY <1>7, <2>1
<1>9. ASSUME NEW n \in 1..N, n - 1 \in T PROVE n \in T
  <2>0. h[n - 1] \in Q /\ Len(h[n - 1]) < N
    BY <1>1, <1>9
  <2>1. S \ ToSet(h[n - 1]) # {}
    BY <1>3, <2>0
  <2> QED BY <1>1, <1>2, <1>7, <1>9, <2>1
<1>10. \A n \in 0..N : n \in T
  <2> HIDE DEF T
  <2> QED BY <1>1, <1>8, <1>9, Induction
<1>11. SortLoop(S, before, h)
  BY <1>4, <1>10 DEF SortLoop, N
<1> QED BY <1>11

LEMMA SortedElements ==
  ASSUME NEW S, IsFiniteSet(S), NEW before, Sortable(S, before)
  PROVE  /\ Sorted(S, before) \in Seq(S) /\ Distinct(Sorted(S, before))
         /\ ToSet(Sorted(S, before)) = S
<1> DEFINE s == Sorted(S, before)
<1>1. Cardinality(S) \in Nat
  BY FS_CardinalityType
<1>2. s \in Seq(S) /\ Len(s) = Cardinality(S) /\ Distinct(s)
  <2>1. PICK f : SortLoop(S, before, f)
    BY SortLoops
  <2> QED BY <1>1, <2>1 DEF SortLoop
<1> HIDE DEF s
<1>3. ToSet(s) \subseteq S /\ Cardinality(ToSet(s)) = Cardinality(S)
  <2>1. Cardinality(ToSet(s)) = Len(s)
    BY <1>2, DistinctSet
  <2>2. ToSet(s) \subseteq S
    BY <1>2 DEF ToSet
  <2> QED BY <1>2, <2>1, <2>2
<1>4. ToSet(s) = S
  BY <1>3, FS_Subset
<1> QED BY <1>2, <1>4 DEF s

-----------------------------------------------------------------------------
(* The graph of imports                                                     *)

\* Graphs of petgraph's arrays
Graph(F) ==
    {g \in [nodes : SUBSET F, slots : Seq(F \X F), age : Seq(F \X F)] :
        ToSet(g.age) = EdgesOf(g) /\ EdgesOf(g) \subseteq g.nodes \X g.nodes}

LEMMA AddEdgeIs ==
  ASSUME NEW F, NEW g \in Graph(F), NEW e \in F \X F
  PROVE  /\ AddEdge(g, e) \in Graph(F)
         /\ EdgesOf(AddEdge(g, e)) = EdgesOf(g) \cup {e}
<1> DEFINE nodes == g.nodes \cup {e[1], e[2]}
<1>1. nodes \in SUBSET F /\ e \in nodes \X nodes /\ EdgesOf(g) \subseteq nodes \X nodes
  BY DEF Graph
<1>2. CASE e \in EdgesOf(g)
  <2>1. AddEdge(g, e) = [g EXCEPT !.nodes = nodes]
    BY <1>2 DEF AddEdge
  <2> HIDE DEF nodes
  <2> QED BY <1>1, <1>2, <2>1 DEF Graph, EdgesOf
<1>3. CASE e \notin EdgesOf(g)
  <2> DEFINE slots == Append(g.slots, e)
             age == Append(g.age, e)
  <2>1. AddEdge(g, e) = [nodes |-> nodes, slots |-> slots, age |-> age]
    BY <1>3 DEF AddEdge
  <2>2. slots \in Seq(F \X F) /\ age \in Seq(F \X F)
    BY DEF Graph
  <2>3. /\ ToSet(slots) = EdgesOf(g) \cup {e}
        /\ ToSet(age) = EdgesOf(g) \cup {e}
    BY <1>3, AppendElements DEF Graph, EdgesOf
  <2> HIDE DEF nodes, slots, age
  <2>4. EdgesOf(g) \cup {e} \subseteq nodes \X nodes
    BY <1>1
  <2>5. /\ AddEdge(g, e) \in [nodes : SUBSET F, slots : Seq(F \X F), age : Seq(F \X F)]
        /\ AddEdge(g, e).nodes = nodes /\ AddEdge(g, e).slots = slots
        /\ AddEdge(g, e).age = age
    BY <1>1, <2>1, <2>2
  <2> QED BY <2>3, <2>4, <2>5 DEF Graph, EdgesOf
<1> QED BY <1>2, <1>3

\* The graph that is made of a list of edges has these edges.
LEMMA AddEdgesAre ==
  ASSUME NEW F, NEW g \in Graph(F), NEW es \in Seq(F \X F)
  PROVE  /\ AddEdges(g, es) \in Graph(F)
         /\ EdgesOf(AddEdges(g, es)) = EdgesOf(g) \cup ToSet(es)
<1> DEFINE N == Len(es)
           S == Graph(F)
           Turn(n, q) == AddEdge(q, es[n])
           T == [n \in 1..N |-> [q \in S |-> Turn(n, q)]]
           Runs(f) == f = [n \in 0..N |-> IF n = 0 THEN g ELSE Turn(n, f[n - 1])]
           h == CHOOSE f : Runs(f)
           First(n) == {es[i] : i \in 1..n}
<1>1. /\ N \in Nat /\ g \in S /\ ToSet(es) = First(N)
      /\ \A n \in 1..N, q \in S : Turn(n, q) \in S /\ EdgesOf(Turn(n, q)) = EdgesOf(q) \cup {es[n]}
  BY AddEdgeIs DEF ToSet
<1>2. AddEdges(g, es) = h[N]
  BY DEF AddEdges
<1> HIDE DEF N, S, Turn
<1>3. \E f : Runs(f)
  <2>1. T \in [1..N -> [S -> S]]
    BY <1>1
  <2>2. PICK f : Computes(S, g, N, T, f)
    <3> HIDE DEF T, Runs, h
    <3> QED BY <1>1, <2>1, Loop
  <2>3. /\ f \in [0..N -> S] /\ f[0] = g
        /\ \A n \in 1..N : n - 1 \in 0..N /\ f[n - 1] \in S /\ f[n] = T[n][f[n - 1]]
    <3> HIDE DEF T
    <3> QED BY <1>1, <2>2 DEF Computes
  <2>4. \A n \in 1..N : f[n] = Turn(n, f[n - 1])
    BY <2>3
  <2>5. Runs(f)
    BY <1>1, <2>3, <2>4
  <2> HIDE DEF Runs
  <2> QED BY <2>5
<1>4. Runs(h)
  <2> HIDE DEF Runs
  <2> QED BY <1>3
<1> HIDE DEF h
<1>5. h[0] = g /\ \A n \in 1..N : h[n] = Turn(n, h[n - 1])
  BY <1>1, <1>4
<1> DEFINE B == {n \in 0..N : h[n] \in S /\ EdgesOf(h[n]) = EdgesOf(g) \cup First(n)}
<1>6. 0 \in B
  BY <1>1, <1>5
<1>7. ASSUME NEW n \in 1..N, n - 1 \in B PROVE n \in B
  <2>1. h[n] \in S /\ EdgesOf(h[n]) = EdgesOf(h[n - 1]) \cup {es[n]}
    BY <1>1, <1>5, <1>7
  <2>2. First(n) = First(n - 1) \cup {es[n]}
    BY <1>1
  <2> QED BY <1>7, <2>1, <2>2
<1>8. N \in B
  <2> HIDE DEF B
  <2>1. \A n \in 0..N : n \in B
    BY <1>1, <1>6, <1>7, Induction
  <2> QED BY <1>1, <2>1
<1> QED BY <1>1, <1>2, <1>8 DEF S

LEMMA GraphOf ==
  ASSUME NEW F, IsFiniteSet(F), NEW edges \in SUBSET (F \X F)
  PROVE  LET g == AddEdges(NoGraph, Sorted(edges, {})) IN
         g \in Graph(F) /\ EdgesOf(g) = edges
<1> DEFINE es == Sorted(edges, {})
<1>1. IsFiniteSet(edges)
  BY FS_Product, FS_Subset
<1>2. Sortable(edges, {})
  BY DEF Sortable
<1>3. es \in Seq(F \X F) /\ ToSet(es) = edges
  BY <1>1, <1>2, SortedElements
<1> HIDE DEF es
<1>4. NoGraph \in Graph(F) /\ EdgesOf(NoGraph) = {}
  <2> DEFINE none == <<>>
  <2>1. ToSet(none) = {} /\ none \in Seq(F \X F)
    BY DEF ToSet
  <2>2. NoGraph = [nodes |-> {}, slots |-> none, age |-> none]
    BY DEF NoGraph
  <2> HIDE DEF none
  <2>3. /\ NoGraph \in [nodes : SUBSET F, slots : Seq(F \X F), age : Seq(F \X F)]
        /\ NoGraph.slots = none /\ NoGraph.age = none
    BY <2>1, <2>2
  <2>4. EdgesOf(NoGraph) = {}
    BY <2>1, <2>3 DEF EdgesOf
  <2> QED BY <2>1, <2>3, <2>4 DEF Graph
<1>5. /\ AddEdges(NoGraph, es) \in Graph(F)
      /\ EdgesOf(AddEdges(NoGraph, es)) = EdgesOf(NoGraph) \cup ToSet(es)
  BY <1>3, <1>4, AddEdgesAre
<1> QED BY <1>3, <1>4, <1>5 DEF es

\* The edges of a file, one way and the other
LEMMA EdgesAt ==
  ASSUME NEW F, NEW g \in Graph(F), NEW f
  PROVE  /\ ToSet(Outgoing(g, f)) = {e \in EdgesOf(g) : e[1] = f}
         /\ ToSet(Incoming(g, f)) = {e \in EdgesOf(g) : e[2] = f}
<1> DEFINE r == Reverse(g.age)
<1>1. r \in Seq(F \X F) /\ ToSet(r) = EdgesOf(g)
  BY ReverseIs DEF Graph
<1> HIDE DEF r
<1>2. \A keep : ToSet(Only(r, keep)) = EdgesOf(g) \cap keep
  BY <1>1, OnlyElements
<1> QED BY <1>2 DEF Outgoing, Incoming, r

-----------------------------------------------------------------------------
(* What an index is made of                                                 *)

LEMMA FirstInFiles ==
  ASSUME NEW p, NEW candidates
  PROVE  FirstIn(p, candidates) \subseteq p.files
  BY DEF FirstIn

\* Every import resolves to files of the project.
LEMMA ResolveInFiles ==
  ASSUME NEW p, NEW f, NEW i
  PROVE  Resolve(p, f, i) \subseteq p.files
<1>1. \A base, segs : ResolveFromBase(p, base, segs) \subseteq p.files
  BY FirstInFiles DEF ResolveFromBase
<1>2. ResolveRust(p, f, i) \subseteq p.files
  BY <1>1 DEF ResolveRust, ResolvePath
<1>3. ResolveTypeScript(p, f, i) \subseteq p.files
  BY FirstInFiles, Zenon DEF ResolveTypeScript
<1>4. ResolvePython(p, i) \subseteq p.files
  BY FirstInFiles DEF ResolvePython
<1>5. ResolveGo(p, f, i) \subseteq p.files
  BY DEF ResolveGo
<1> QED BY <1>2, <1>3, <1>4, <1>5 DEF Resolve

\* Every edge is that of an import that resolves to its file.
LEMMA EdgesResolve ==
  ASSUME NEW p, NEW edges \in EdgeSets(p), NEW e \in edges
  PROVE  /\ e = <<e[1], e[2]>> /\ e[1] \in DOMAIN p.imports
         /\ \E i \in p.imports[e[1]] : e[2] \in Resolve(p, e[1], i)
<1> DEFINE to(fi) == Resolve(p, fi[1], fi[2])
           one == {fi \in Imports(p) : Cardinality(to(fi)) = 1}
           any == {fi \in Imports(p) : Cardinality(to(fi)) > 1}
           chosen == {goal \in [any -> UNION {to(fi) : fi \in any}] :
                          \A fi \in any : goal[fi] \in to(fi)}
<1>1. PICK goal \in chosen :
         edges = (UNION {{fi[1]} \X to(fi) : fi \in one}) \cup {<<fi[1], goal[fi]>> : fi \in any}
  BY DEF EdgeSets
<1> HIDE DEF to
<1>2. PICK fi \in Imports(p) : e = <<fi[1], e[2]>> /\ e[2] \in to(fi)
  <2>1. CASE e \in UNION {{fi[1]} \X to(fi) : fi \in one}
    BY <2>1
  <2>2. CASE e \in {<<fi[1], goal[fi]>> : fi \in any}
    BY <2>2
  <2> QED BY <1>1, <2>1, <2>2
<1>3. fi[1] \in DOMAIN p.imports /\ fi[2] \in p.imports[fi[1]]
  BY DEF Imports
<1> QED BY <1>2, <1>3 DEF to

-----------------------------------------------------------------------------
(* Files that lead to a file                                                *)

Ends(c, n) == {chain[1] : chain \in c[n]}
Earlier(c, n) == UNION {Ends(c, m) : m \in 0..n - 1}
Nearest(c, n) == Ends(c, n) \ Earlier(c, n)

Chains(X) == SUBSET (Seq(X) \ {<<>>})

\* The chains that are longer by one import
Prolong(X, edges, longer, chains) ==
    /\ longer \in Chains(X)
    /\ \A s \in longer : \E t \in chains :
          /\ <<s[1], t[1]>> \in edges /\ s[1] \notin ToSet(t)
          /\ Len(s) = Len(t) + 1 /\ \A i \in 2..Len(s) : s[i] = t[i - 1]
    /\ \A t \in chains : \A x :
          <<x, t[1]>> \in edges /\ x \notin ToSet(t) => \E s \in longer : s[1] = x

LEMMA LongerChains ==
  ASSUME NEW X, NEW chains \in Chains(X), NEW edges \in SUBSET (X \X X)
  PROVE  Prolong(X, edges, Longer(edges, chains), chains)
<1> DEFINE Put(x, t) == <<x>> \o t
<1>1. ASSUME NEW t \in chains, NEW x \in X
      PROVE  /\ Put(x, t) \in Seq(X) \ {<<>>} /\ Put(x, t)[1] = x /\ Len(Put(x, t)) = Len(t) + 1
             /\ \A i \in 2..Len(Put(x, t)) : Put(x, t)[i] = t[i - 1]
  <2>1. t \in Seq(X) /\ <<x>> \in Seq(X) /\ Len(<<x>>) = 1 /\ <<x>>[1] = x
    BY DEF Chains
  <2>2. /\ Put(x, t) \in Seq(X) /\ Len(Put(x, t)) = Len(t) + 1 /\ Len(t) \in Nat
        /\ \A i \in 1..Len(t) + 1 : Put(x, t)[i] = IF i <= 1 THEN <<x>>[i] ELSE t[i - 1]
    BY <2>1
  <2> HIDE DEF Put
  <2>3. Put(x, t)[1] = x
    BY <2>1, <2>2
  <2>4. \A i \in 2..Len(Put(x, t)) : Put(x, t)[i] = t[i - 1]
    BY <2>2
  <2>5. Put(x, t) # <<>>
    BY <2>2
  <2> QED BY <2>2, <2>3, <2>4, <2>5
<1>2. Longer(edges, chains) =
         UNION {{Put(e[1], t) : e \in {e \in edges : e[2] = t[1] /\ e[1] \notin ToSet(t)}} :
                   t \in chains}
  BY DEF Longer
<1> HIDE DEF Put
<1>3. ASSUME NEW s \in Longer(edges, chains)
      PROVE  \E t \in chains, x \in X :
                s = Put(x, t) /\ <<x, t[1]>> \in edges /\ x \notin ToSet(t)
  <2>1. PICK t \in chains : s \in {Put(e[1], t) : e \in {e \in edges : e[2] = t[1] /\ e[1] \notin ToSet(t)}}
    BY <1>2
  <2>2. PICK e \in edges : e[2] = t[1] /\ e[1] \notin ToSet(t) /\ s = Put(e[1], t)
    BY <2>1
  <2>3. e = <<e[1], t[1]>> /\ e[1] \in X
    BY <2>2
  <2> QED BY <2>2, <2>3
<1>4. ASSUME NEW t \in chains, NEW x, <<x, t[1]>> \in edges, x \notin ToSet(t)
      PROVE  x \in X /\ Put(x, t) \in Longer(edges, chains)
  <2>1. <<x, t[1]>> \in {e \in edges : e[2] = t[1] /\ e[1] \notin ToSet(t)} /\ x \in X
    BY <1>4
  <2>2. Put(<<x, t[1]>>[1], t) \in
           {Put(e[1], t) : e \in {e \in edges : e[2] = t[1] /\ e[1] \notin ToSet(t)}}
    BY <2>1
  <2>3. Put(x, t) = Put(<<x, t[1]>>[1], t)
    OBVIOUS
  <2> QED BY <1>2, <2>1, <2>2, <2>3
<1>5. Longer(edges, chains) \in Chains(X)
  <2> SUFFICES ASSUME NEW s \in Longer(edges, chains) PROVE s \in Seq(X) \ {<<>>}
    BY DEF Chains
  <2>1. PICK t \in chains, x \in X : s = Put(x, t)
    BY <1>3
  <2> QED BY <1>1, <2>1
<1>6. \A s \in Longer(edges, chains) : \E t \in chains :
         /\ <<s[1], t[1]>> \in edges /\ s[1] \notin ToSet(t)
         /\ Len(s) = Len(t) + 1 /\ \A i \in 2..Len(s) : s[i] = t[i - 1]
  <2> TAKE s \in Longer(edges, chains)
  <2>1. PICK t \in chains, x \in X :
           s = Put(x, t) /\ <<x, t[1]>> \in edges /\ x \notin ToSet(t)
    BY <1>3
  <2>2. s[1] = x /\ Len(s) = Len(t) + 1 /\ \A i \in 2..Len(s) : s[i] = t[i - 1]
    BY <1>1, <2>1
  <2> QED BY <2>1, <2>2
<1>7. \A t \in chains : \A x : <<x, t[1]>> \in edges /\ x \notin ToSet(t) =>
         \E s \in Longer(edges, chains) : s[1] = x
  <2> TAKE t \in chains
  <2> TAKE x
  <2> HAVE <<x, t[1]>> \in edges /\ x \notin ToSet(t)
  <2>1. x \in X /\ Put(x, t) \in Longer(edges, chains)
    BY <1>4
  <2>2. Put(x, t)[1] = x
    BY <1>1, <2>1
  <2> QED BY <2>1, <2>2
<1> QED BY <1>5, <1>6, <1>7 DEF Prolong

\* The chains of N imports at most, one length after the other
ChainLoop(X, f, N, c) ==
    /\ c[0] = {<<f>>}
    /\ \A n \in 1..N : c[n] = Longer(Edges, c[n - 1])
    /\ \A n \in 0..N : c[n] \in Chains(X)

LEMMA ChainLoops ==
  ASSUME NEW X, Edges \subseteq X \X X, NEW f \in X, NEW N \in Nat
  PROVE  ChainLoop(X, f, N, ChainsTo(f, N))
<1> DEFINE S == Chains(X)
           Turn(q) == Longer(Edges, q)
           F == [n \in 1..N |-> [q \in S |-> Turn(q)]]
           a == {<<f>>}
           Runs(c) == c = [n \in 0..N |-> IF n = 0 THEN a ELSE Turn(c[n - 1])]
           h == CHOOSE c : Runs(c)
<1>1. a \in S /\ \A q \in S : Turn(q) \in S
  <2>1. <<f>> \in Seq(X) /\ <<f>> # <<>>
    OBVIOUS
  <2>2. \A q \in S : Turn(q) \in S
    BY LongerChains DEF Prolong
  <2> QED BY <2>1, <2>2 DEF Chains
<1>2. ChainsTo(f, N) = h
  BY DEF ChainsTo
<1> HIDE DEF S, Turn, a
<1>3. \E c : Runs(c)
  <2>1. F \in [1..N -> [S -> S]]
    BY <1>1
  <2>2. PICK c : Computes(S, a, N, F, c)
    <3> HIDE DEF F, Runs, h
    <3> QED BY <1>1, <2>1, Loop
  <2>3. /\ c \in [0..N -> S] /\ c[0] = a
        /\ \A n \in 1..N : n - 1 \in 0..N /\ c[n - 1] \in S /\ c[n] = F[n][c[n - 1]]
    <3> HIDE DEF F
    <3> QED BY <1>1, <2>2 DEF Computes
  <2>4. \A n \in 1..N : c[n] = Turn(c[n - 1])
    BY <2>3
  <2>5. Runs(c)
    BY <1>1, <2>3, <2>4
  <2> HIDE DEF Runs
  <2> QED BY <2>5
<1>4. Runs(h)
  <2> HIDE DEF Runs
  <2> QED BY <1>3
<1> HIDE DEF h
<1>5. h[0] = a /\ \A n \in 1..N : h[n] = Turn(h[n - 1])
  BY <1>1, <1>4
<1>6. \A n \in 0..N : h[n] \in S
  BY <1>1, <1>5, Typed
<1> QED BY <1>2, <1>5, <1>6 DEF ChainLoop, S, Turn, a

\* Each of the files of a chain is at the head of the rest of it, which is a
\* chain of its own.
HeadsOf(c, n) ==
    \A s \in c[n] : Len(s) = n + 1 /\ \A i \in 1..n + 1 : s[i] \in Ends(c, n + 1 - i)

LEMMA ChainSuffixes ==
  ASSUME NEW X, Edges \subseteq X \X X, NEW f \in X, NEW N \in Nat, NEW c, ChainLoop(X, f, N, c)
  PROVE  \A n \in 0..N : HeadsOf(c, n)
<1> DEFINE T == {n \in 0..N : HeadsOf(c, n)}
<1>1. 0 \in T
  <2>1. c[0] = {<<f>>} /\ f \in Ends(c, 0)
    BY DEF ChainLoop, Ends
  <2>2. Len(<<f>>) = 0 + 1 /\ \A i \in 1..0 + 1 : <<f>>[i] = f /\ 0 + 1 - i = 0
    OBVIOUS
  <2>3. HeadsOf(c, 0)
    BY <2>1, <2>2 DEF HeadsOf
  <2> QED BY <2>3
<1>2. ASSUME NEW n \in 1..N, n - 1 \in T PROVE n \in T
  <2>1. c[n] = Longer(Edges, c[n - 1]) /\ c[n - 1] \in Chains(X)
    BY DEF ChainLoop
  <2>0. Prolong(X, Edges, c[n], c[n - 1])
    BY <2>1, LongerChains
  <2>2. ASSUME NEW s \in c[n]
        PROVE  Len(s) = n + 1 /\ \A i \in 1..n + 1 : s[i] \in Ends(c, n + 1 - i)
    <3>1. PICK t \in c[n - 1] : Len(s) = Len(t) + 1 /\ \A i \in 2..Len(s) : s[i] = t[i - 1]
      BY <2>0 DEF Prolong
    <3>2. Len(t) = n /\ \A i \in 1..n : t[i] \in Ends(c, n - i)
      BY <1>2 DEF HeadsOf
    <3>3. Len(s) = n + 1
      BY <3>1, <3>2
    <3>4. s[1] \in Ends(c, n)
      BY DEF Ends
    <3>5. ASSUME NEW i \in 2..n + 1 PROVE s[i] \in Ends(c, n + 1 - i)
      <4>0. i - 1 \in 1..n /\ n - (i - 1) = n + 1 - i
        OBVIOUS
      <4>1. s[i] = t[i - 1]
        BY <3>1, <3>3
      <4> QED BY <3>2, <4>0, <4>1
    <3>6. \A i \in 1..n + 1 : i = 1 \/ i \in 2..n + 1
      OBVIOUS
    <3>7. n + 1 - 1 = n
      OBVIOUS
    <3> QED BY <3>3, <3>4, <3>5, <3>6, <3>7
  <2> QED BY <2>2 DEF HeadsOf
<1>3. \A n \in 0..N : n \in T
  <2> HIDE DEF T
  <2> QED BY <1>1, <1>2, Induction
<1> QED BY <1>3

\* A file of a chain that is no longer than n is at the head of one.
LEMMA OnChain ==
  ASSUME NEW X, Edges \subseteq X \X X, NEW f \in X, NEW N \in Nat, NEW c, ChainLoop(X, f, N, c),
         NEW n \in 0..N, NEW t \in c[n], NEW x \in ToSet(t)
  PROVE  x \in Earlier(c, n + 1)
<1>1. Len(t) = n + 1 /\ \A i \in 1..n + 1 : t[i] \in Ends(c, n + 1 - i)
  BY ChainSuffixes DEF HeadsOf
<1>2. t \in Seq(X)
  BY DEF ChainLoop, Chains
<1>3. PICK i \in 1..n + 1 : x = t[i]
  BY <1>1, <1>2 DEF ToSet
<1>4. n + 1 - i \in 0..n + 1 - 1
  OBVIOUS
<1> QED BY <1>1, <1>3, <1>4 DEF Earlier

\* A file that was not reached by fewer imports is reached by n of them if it
\* imports one that is reached by n - 1 at the least.
LEMMA NextChain ==
  ASSUME NEW X, Edges \subseteq X \X X, NEW f \in X, NEW N \in Nat, NEW c, ChainLoop(X, f, N, c),
         NEW n \in 1..N, NEW x, x \notin Earlier(c, n)
  PROVE  x \in Ends(c, n) <=> \E y \in Nearest(c, n - 1) : <<x, y>> \in Edges
<1>0. n - 1 \in 0..N /\ n - 1 + 1 = n
  OBVIOUS
<1>1. ASSUME NEW m \in 1..N
      PROVE  /\ \A s \in c[m] : \E t \in c[m - 1] : <<s[1], t[1]>> \in Edges
             /\ \A t \in c[m - 1] : \A z : <<z, t[1]>> \in Edges /\ z \notin ToSet(t) =>
                   \E s \in c[m] : s[1] = z
  <2>1. c[m] = Longer(Edges, c[m - 1]) /\ c[m - 1] \in Chains(X)
    BY DEF ChainLoop
  <2>2. Prolong(X, Edges, c[m], c[m - 1])
    BY <2>1, LongerChains
  <2> QED BY <2>2 DEF Prolong
<1>2. \A m \in 0..n - 1 : \A t \in c[m] : x \notin ToSet(t)
  <2> SUFFICES ASSUME NEW m \in 0..n - 1, NEW t \in c[m], x \in ToSet(t) PROVE FALSE
    OBVIOUS
  <2>1. x \in Earlier(c, m + 1)
    BY OnChain
  <2>2. PICK k \in 0..m : x \in Ends(c, k)
    BY <2>1 DEF Earlier
  <2>3. k \in 0..n - 1
    OBVIOUS
  <2> QED BY <2>2, <2>3 DEF Earlier
<1>3. ASSUME x \in Ends(c, n) PROVE \E y \in Nearest(c, n - 1) : <<x, y>> \in Edges
  <2>1. PICK s \in c[n] : s[1] = x
    BY <1>3 DEF Ends
  <2>2. PICK t \in c[n - 1] : <<x, t[1]>> \in Edges
    BY <1>1, <2>1
  <2>3. t[1] \in Ends(c, n - 1)
    BY DEF Ends
  <2>4. t[1] \notin Earlier(c, n - 1)
    <3> SUFFICES ASSUME t[1] \in Earlier(c, n - 1) PROVE FALSE
      OBVIOUS
    <3>1. PICK m \in 0..n - 1 - 1 : t[1] \in Ends(c, m)
      BY DEF Earlier
    <3>2. PICK u \in c[m] : u[1] = t[1]
      BY <3>1 DEF Ends
    <3>3. m \in 0..n - 1 /\ m + 1 \in 1..N /\ m + 1 \in 0..n - 1 /\ m + 1 - 1 = m
      OBVIOUS
    <3>4. x \notin ToSet(u)
      BY <1>2, <3>3
    <3>5. \E s2 \in c[m + 1] : s2[1] = x
      BY <1>1, <2>2, <3>2, <3>3, <3>4
    <3>6. x \in Ends(c, m + 1)
      BY <3>5 DEF Ends
    <3> QED BY <3>3, <3>6 DEF Earlier
  <2> QED BY <2>2, <2>3, <2>4 DEF Nearest
<1>4. ASSUME NEW y \in Nearest(c, n - 1), <<x, y>> \in Edges PROVE x \in Ends(c, n)
  <2>1. PICK t \in c[n - 1] : t[1] = y
    BY DEF Nearest, Ends
  <2>2. x \notin ToSet(t)
    BY <1>0, <1>2
  <2>3. \E s \in c[n] : s[1] = x
    BY <1>1, <1>4, <2>1, <2>2
  <2> QED BY <2>3 DEF Ends
<1> QED BY <1>3, <1>4

-----------------------------------------------------------------------------
(* The search through the levels                                            *)

Levels(X) == [level : SUBSET X, visited : SUBSET X, found : SUBSET (X \X Nat)]
\* Back from a level to those that import it
Back(g, q, n) == BfsLevel(g, FALSE, q, n)

LevelLoop(X, g, f, N, b) ==
    /\ b[0] = [level |-> {f}, visited |-> {f}, found |-> {}]
    /\ \A n \in 1..N : b[n] = Back(g, b[n - 1], n)
    /\ Bfs(g, f, N, FALSE) = IF f \notin g.nodes THEN {} ELSE b[N].found

\* The files that import one of a level, and were not met before
Beyond(X, g, q) == {x \in X \ q.visited : \E y \in q.level : <<x, y>> \in EdgesOf(g)}

LEMMA LevelIs ==
  ASSUME NEW X, NEW F \in SUBSET X, NEW g \in Graph(F), NEW q \in Levels(X), NEW n \in Nat
  PROVE  /\ Back(g, q, n) \in Levels(X)
         /\ Back(g, q, n) =
               [level |-> Beyond(X, g, q), visited |-> q.visited \cup Beyond(X, g, q),
                found |-> q.found \cup {<<x, n>> : x \in Beyond(X, g, q)}]
<1> DEFINE From(y) == Neighbours(g, y, FALSE)
           from == (UNION {From(y) : y \in q.level}) \ q.visited
<1>1. EdgesOf(g) \subseteq X \X X
  BY DEF Graph
<1>2. \A y : From(y) = {e[1] : e \in {e \in EdgesOf(g) : e[2] = y}}
  BY EdgesAt DEF Neighbours
<1>3. Back(g, q, n) =
         [level |-> from, visited |-> q.visited \cup from,
          found |-> q.found \cup {<<x, n>> : x \in from}]
  BY DEF BfsLevel, Back
<1> HIDE DEF From
<1>4. \A x, y : x \in From(y) <=> <<x, y>> \in EdgesOf(g)
  <2> SUFFICES ASSUME NEW x, NEW y PROVE x \in From(y) <=> <<x, y>> \in EdgesOf(g)
    OBVIOUS
  <2>1. x \in From(y) <=> \E e \in EdgesOf(g) : e[2] = y /\ e[1] = x
    BY <1>2
  <2>2. \A e \in EdgesOf(g) : e = <<e[1], e[2]>>
    BY <1>1
  <2>3. <<x, y>>[1] = x /\ <<x, y>>[2] = y
    OBVIOUS
  <2> QED BY <2>1, <2>2, <2>3
<1>5. from = Beyond(X, g, q)
  <2>1. \A x : x \in from <=> x \notin q.visited /\ \E y \in q.level : <<x, y>> \in EdgesOf(g)
    BY <1>4
  <2>2. \A x, y : <<x, y>> \in EdgesOf(g) => x \in X
    BY <1>1
  <2> HIDE DEF from
  <2> QED BY <2>1, <2>2 DEF Beyond
<1> HIDE DEF from
<1>6. Beyond(X, g, q) \in SUBSET X
  BY DEF Beyond
<1>7. {<<x, n>> : x \in Beyond(X, g, q)} \in SUBSET (X \X Nat)
  BY <1>6
<1>8. /\ q.level \in SUBSET X /\ q.visited \in SUBSET X /\ q.found \in SUBSET (X \X Nat)
  BY DEF Levels
<1>9. Back(g, q, n) \in Levels(X)
  <2> DEFINE beyond == Beyond(X, g, q)
             found == {<<x, n>> : x \in beyond}
  <2>1. beyond \in SUBSET X /\ found \in SUBSET (X \X Nat)
    BY <1>6, <1>7
  <2>2. Back(g, q, n) =
           [level |-> beyond, visited |-> q.visited \cup beyond, found |-> q.found \cup found]
    BY <1>3, <1>5
  <2> HIDE DEF beyond, found
  <2> QED BY <1>8, <2>1, <2>2 DEF Levels
<1> QED BY <1>3, <1>5, <1>9

LEMMA LevelLoops ==
  ASSUME NEW X, NEW F \in SUBSET X, NEW g \in Graph(F), NEW f \in X, NEW N \in Nat
  PROVE  \E b : LevelLoop(X, g, f, N, b) /\ \A n \in 0..N : b[n] \in Levels(X)
<1> DEFINE S == Levels(X)
           Turn(n, q) == Back(g, q, n)
           T == [n \in 1..N |-> [q \in S |-> Turn(n, q)]]
           a == [level |-> {f}, visited |-> {f}, found |-> {}]
           Runs(b) == b = [d \in 0..N |-> IF d = 0 THEN a ELSE Turn(d, b[d - 1])]
           h == CHOOSE b : Runs(b)
<1>1. a \in S /\ \A n \in 1..N, q \in S : Turn(n, q) \in S
  <2>1. a \in S
    BY DEF Levels
  <2>2. \A n \in 1..N, q \in S : Turn(n, q) \in S
    BY LevelIs
  <2> QED BY <2>1, <2>2
<1>2. Bfs(g, f, N, FALSE) = IF f \notin g.nodes THEN {} ELSE h[N].found
  BY DEF Bfs, Back
<1> HIDE DEF S, Turn, a
<1>3. \E b : Runs(b)
  <2>1. T \in [1..N -> [S -> S]]
    BY <1>1
  <2>2. PICK b : Computes(S, a, N, T, b)
    <3> HIDE DEF T, Runs, h
    <3> QED BY <1>1, <2>1, Loop
  <2>3. /\ b \in [0..N -> S] /\ b[0] = a
        /\ \A n \in 1..N : n - 1 \in 0..N /\ b[n - 1] \in S /\ b[n] = T[n][b[n - 1]]
    <3> HIDE DEF T
    <3> QED BY <2>2 DEF Computes
  <2>4. \A n \in 1..N : b[n] = Turn(n, b[n - 1])
    BY <2>3
  <2>5. Runs(b)
    BY <2>3, <2>4
  <2> HIDE DEF Runs
  <2> QED BY <2>5
<1>4. Runs(h)
  <2> HIDE DEF Runs
  <2> QED BY <1>3
<1> HIDE DEF h
<1>5. h[0] = a /\ \A n \in 1..N : h[n] = Turn(n, h[n - 1])
  BY <1>4
<1>6. \A n \in 0..N : h[n] \in S
  BY <1>1, <1>5, Typed
<1>7. LevelLoop(X, g, f, N, h)
  BY <1>2, <1>5 DEF LevelLoop, Turn, a
<1> QED BY <1>6, <1>7 DEF S

\* The files that lead to a file, as find_dependents looks for them
LeadTo(f, N) == Bfs(graph, f, N, FALSE)

\* A level has the files that a chain of its length leads from, and no shorter one;
\* a file in a circle is left out when it is met again.
LEMMA LevelsAreNearest ==
  ASSUME NEW F, graph \in Graph(F), NEW X, F \in SUBSET X, NEW f \in X, NEW N \in Nat
  PROVE  LET c == ChainsTo(f, N) IN
         LeadTo(f, N) = {xn \in X \X (1..N) : xn[1] \in Nearest(c, xn[2])}
<1> DEFINE c == ChainsTo(f, N)
<1>1. Edges \subseteq X \X X
  BY DEF Edges, Graph
<1>2. ChainLoop(X, f, N, c)
  BY <1>1, ChainLoops
<1> HIDE DEF c
<1>3. PICK b : LevelLoop(X, graph, f, N, b) /\ \A n \in 0..N : b[n] \in Levels(X)
  BY LevelLoops
<1>4. /\ c[0] = {<<f>>} /\ \A n \in 0..N : c[n] \in Chains(X)
      /\ \A n \in 1..N : c[n] = Longer(Edges, c[n - 1])
  BY <1>2 DEF ChainLoop
<1>5. \A n \in 0..N : Ends(c, n) \subseteq X
  <2> SUFFICES ASSUME NEW n \in 0..N, NEW s \in c[n] PROVE s[1] \in X
    BY DEF Ends
  <2>1. s \in Seq(X) /\ s # <<>>
    BY <1>4 DEF Chains
  <2> QED BY <2>1
<1>6. CASE f \in graph.nodes
  <2> DEFINE Found(n) == {xk \in X \X (1..n) : xk[1] \in Nearest(c, xk[2])}
             T == {n \in 0..N : /\ b[n].level = Nearest(c, n) /\ b[n].visited = Earlier(c, n + 1)
                                /\ b[n].found = Found(n)}
  <2>1. 0 \in T
    <3>1. Ends(c, 0) = {f}
      BY <1>4 DEF Ends
    <3>2. Earlier(c, 0) = {} /\ Earlier(c, 0 + 1) = {f}
      BY <3>1 DEF Earlier
    <3>3. Found(0) = {}
      OBVIOUS
    <3>4. b[0] = [level |-> {f}, visited |-> {f}, found |-> {}]
      BY <1>3 DEF LevelLoop
    <3> HIDE DEF Found
    <3> QED BY <3>1, <3>2, <3>3, <3>4 DEF Nearest
  <2>2. ASSUME NEW n \in 1..N, n - 1 \in T PROVE n \in T
    <3>0. n - 1 \in 0..N /\ n \in 0..N /\ n - 1 + 1 = n /\ n \in Nat
      OBVIOUS
    <3>1. /\ b[n - 1].level = Nearest(c, n - 1) /\ b[n - 1].visited = Earlier(c, n)
          /\ b[n - 1].found = Found(n - 1)
      BY <2>2, <3>0
    <3> DEFINE next == Beyond(X, graph, b[n - 1])
    <3>2. b[n] = Back(graph, b[n - 1], n) /\ b[n - 1] \in Levels(X)
      BY <1>3, <3>0 DEF LevelLoop
    <3>3. /\ b[n].level = next /\ b[n].visited = b[n - 1].visited \cup next
          /\ b[n].found = b[n - 1].found \cup {<<x, n>> : x \in next}
      BY <3>0, <3>2, LevelIs
    <3>4. next = Nearest(c, n)
      <4>1. \A x : x \notin Earlier(c, n) =>
               (x \in Ends(c, n) <=> \E y \in Nearest(c, n - 1) : <<x, y>> \in Edges)
        BY <1>1, <1>2, NextChain
      <4>2. Ends(c, n) \subseteq X
        BY <1>5, <3>0
      <4> QED BY <3>1, <4>1, <4>2 DEF Nearest, Edges, Beyond
    <3> HIDE DEF next
    <3>5. Earlier(c, n + 1) = Earlier(c, n) \cup Nearest(c, n)
      <4>1. \A m : m \in 0..n + 1 - 1 <=> (m \in 0..n - 1 \/ m = n)
        OBVIOUS
      <4>2. Earlier(c, n + 1) = Earlier(c, n) \cup Ends(c, n)
        BY <4>1 DEF Earlier
      <4> QED BY <4>2 DEF Nearest
    <3>6. Found(n) = Found(n - 1) \cup {<<x, n>> : x \in Nearest(c, n)}
      <4>1. Nearest(c, n) \subseteq X
        BY <1>5, <3>0 DEF Nearest
      <4>2. \A k : k \in 1..n <=> (k \in 1..n - 1 \/ k = n)
        OBVIOUS
      <4> QED BY <4>1, <4>2
    <3> HIDE DEF Found
    <3> QED BY <3>0, <3>1, <3>3, <3>4, <3>5, <3>6
  <2>3. N \in T
    <3> HIDE DEF T
    <3>1. \A n \in 0..N : n \in T
      BY <2>1, <2>2, Induction
    <3> QED BY <3>1
  <2>4. LeadTo(f, N) = b[N].found
    BY <1>3, <1>6 DEF LevelLoop, LeadTo
  <2> QED BY <2>3, <2>4 DEF c
<1>7. CASE f \notin graph.nodes
  <2>1. \A x : <<x, f>> \notin Edges
    BY <1>7 DEF Edges, Graph
  <2> DEFINE T == {n \in 0..N : n > 0 => c[n] = {}}
  <2>2. 0 \in T
    OBVIOUS
  <2>3. ASSUME NEW n \in 1..N, n - 1 \in T PROVE n \in T
    <3>1. c[n] = Longer(Edges, c[n - 1]) /\ c[n - 1] \in Chains(X)
      BY <1>4
    <3>2. Prolong(X, Edges, c[n], c[n - 1])
      BY <1>1, <3>1, LongerChains
    <3>3. CASE n = 1
      <4>1. \A t \in c[n - 1] : t = <<f>>
        BY <1>4, <3>3
      <4>2. \A t \in c[n - 1] : t[1] = f
        <5>1. <<f>>[1] = f
          OBVIOUS
        <5> QED BY <4>1, <5>1
      <4>3. c[n] # {} => \E s \in c[n], t \in c[n - 1] : <<s[1], t[1]>> \in Edges
        BY <3>2 DEF Prolong
      <4>4. c[n] = {}
        BY <2>1, <4>2, <4>3
      <4> QED BY <4>4
    <3>4. CASE n # 1
      <4>1. c[n - 1] = {}
        BY <2>3, <3>4
      <4> QED BY <3>2, <4>1 DEF Prolong
    <3> QED BY <3>3, <3>4
  <2>4. \A n \in 1..N : Nearest(c, n) = {}
    <3>1. \A n \in 0..N : n \in T
      <4> HIDE DEF T
      <4> QED BY <2>2, <2>3, Induction
    <3> QED BY <3>1 DEF Nearest, Ends
  <2>5. LeadTo(f, N) = {}
    BY <1>3, <1>7 DEF LevelLoop, LeadTo
  <2> QED BY <2>4, <2>5 DEF c
<1> QED BY <1>6, <1>7

-----------------------------------------------------------------------------
(* The index that is open, and the answers of the tools.                    *)

\* What a searcher is open on: a project, and the graph of its edges
SearcherIs ==
    /\ project \in Projects
    /\ graph \in Graph(Files)
    /\ Edges \in EdgeSets(project)

LEMMA EdgesInFiles ==
  ASSUME NEW p, DOMAIN p.imports \subseteq p.files, NEW edges \in EdgeSets(p)
  PROVE  edges \subseteq p.files \X p.files
<1> SUFFICES ASSUME NEW e \in edges PROVE e \in p.files \X p.files
  OBVIOUS
<1>1. /\ e = <<e[1], e[2]>> /\ e[1] \in DOMAIN p.imports
      /\ \E i \in p.imports[e[1]] : e[2] \in Resolve(p, e[1], i)
  BY EdgesResolve
<1>2. e[2] \in p.files
  BY <1>1, ResolveInFiles
<1> QED BY <1>1, <1>2

LEMMA InitSearcher == Init => SearcherIs
<1> SUFFICES ASSUME Init PROVE SearcherIs
  OBVIOUS
<1>0. PICK p \in Projects, who \in Fronts, config \in Configs : \E edges \in EdgeSets(p) :
         LET g == AddEdges(NoGraph, Sorted(edges, {})) IN
         searcher = [project |-> p, chunks |-> Rows(p), graph |-> g, roles |-> Roles(g),
                     cochange |-> CochangePairs(p), front |-> who, config |-> config]
  BY DEF Init
<1>1. PICK edges \in EdgeSets(p) :
         LET g == AddEdges(NoGraph, Sorted(edges, {})) IN
         searcher = [project |-> p, chunks |-> Rows(p), graph |-> g, roles |-> Roles(g),
                     cochange |-> CochangePairs(p), front |-> who, config |-> config]
  BY <1>0
<1> DEFINE g == AddEdges(NoGraph, Sorted(edges, {}))
<1>2. searcher.project = p /\ searcher.graph = g
  BY <1>1
<1> HIDE DEF g
<1>3. IsFiniteSet(p.files) /\ DOMAIN p.imports \subseteq p.files
  BY SearchAssumption, Zenon DEF IsProject
<1>4. edges \in SUBSET (p.files \X p.files)
  BY <1>3, EdgesInFiles
<1>5. g \in Graph(p.files) /\ EdgesOf(g) = edges
  BY <1>3, <1>4, GraphOf DEF g
<1> QED BY <1>2, <1>5 DEF SearcherIs, project, graph, Files, Edges

ImpactInv ==
    /\ SearcherIs
    /\ answer.state = "searching" => answer.ask.tool # "find_dependents"
    /\ answer.state = "answered" /\ answer.ask.tool = "find_dependents" =>
          answer.ask \in Asks /\ answer.out = ImpactSet(answer.ask)

LEMMA ImpactStep ==
  ASSUME ImpactInv, [ToolsNext]_toolVars
  PROVE  ImpactInv'
<1>1. searcher' = searcher
  BY ToolsStays
<1>2. SearcherIs'
  BY <1>1 DEF ImpactInv, SearcherIs, project, graph, Files, Edges
<1>3. \A ask : ImpactSet(ask)' = ImpactSet(ask)
  BY <1>1 DEF ImpactSet, IsTestFilePath, graph, project
<1>4. CASE answer' = answer
  BY <1>2, <1>3, <1>4 DEF ImpactInv
<1>5. ASSUME NEW ask \in Asks, Call(ask) PROVE ImpactInv'
  <2>1. CASE \E t \in Tasks : CallSearch(ask, t)
    BY <1>2, <2>1 DEF ImpactInv, CallSearch
  <2>2. CASE ask.tool = "find_dependents" /\ Answers(ask, ImpactSet(ask))
    BY <1>2, <1>3, <2>2 DEF ImpactInv, Answers
  <2>3. CASE ask.tool # "find_dependents" /\ Replies(ask)
    BY <1>2, <2>3 DEF ImpactInv, Replies, Answers, Refuses
  <2> QED BY <1>5, <2>1, <2>2, <2>3, CallSteps
<1>6. CASE Deliver
  <2>1. answer.ask.tool # "find_dependents" /\ Replies(answer.ask)
    BY <1>6 DEF Deliver, ImpactInv, Replies
  <2> QED BY <1>2, <2>1 DEF ImpactInv, Replies, Answers, Refuses
<1> QED BY <1>4, <1>5, <1>6 DEF ToolsNext, Searching, toolVars

\* What find_dependents says of a file, as deep as N
Impact(f, N) ==
    LET reached == LeadTo(f, N) IN
    [direct |-> {fd[1] : fd \in {fd \in reached : fd[2] = 1}},
     transitive |-> {fd \in reached : fd[2] > 1},
     tests |-> {fd[1] : fd \in {fd \in reached : IsTestFilePath(fd[1])}}]

IsImpact(f, N, c, out) ==
    /\ out.direct = Nearest(c, 1)
    /\ out.transitive = UNION {Nearest(c, n) \X {n} : n \in 2..N}
    /\ {e \in ToSet(Incoming(graph, f)) : e[1] # f /\ IsTestFilePath(e[1])} \subseteq
           out.tests \X {f}

LEMMA ImpactOf ==
  ASSUME SearcherIs, NEW f, NEW N \in Nat \ {0}
  PROVE  IsImpact(f, N, ChainsTo(f, N), Impact(f, N))
<1> DEFINE c == ChainsTo(f, N)
           X == Files \cup {f}
           reached == LeadTo(f, N)
           out == Impact(f, N)
<1>1. /\ Files \in SUBSET X /\ f \in X /\ graph \in Graph(Files)
      /\ N \in Nat /\ 1 \in 1..N
  BY DEF SearcherIs
<1>2. /\ ToSet(Incoming(graph, f)) = {e \in Edges : e[2] = f}
      /\ Edges \subseteq X \X X
  <2>1. ToSet(Incoming(graph, f)) = {e \in EdgesOf(graph) : e[2] = f}
    BY <1>1, EdgesAt
  <2>2. graph.nodes \subseteq Files /\ EdgesOf(graph) \subseteq graph.nodes \X graph.nodes
    BY <1>1 DEF Graph
  <2> QED BY <1>1, <2>1, <2>2 DEF Edges
<1> HIDE DEF X
<1>3. reached = {xn \in X \X (1..N) : xn[1] \in Nearest(c, xn[2])}
  <2> HIDE DEF reached
  <2>1. LET chains == ChainsTo(f, N) IN
        LeadTo(f, N) = {xn \in X \X (1..N) : xn[1] \in Nearest(chains, xn[2])}
    BY <1>1, LevelsAreNearest
  <2> QED BY <2>1 DEF reached
<1>4. ChainLoop(X, f, N, c)
  BY <1>1, <1>2, ChainLoops
<1>5. /\ out.direct = {fd[1] : fd \in {fd \in reached : fd[2] = 1}}
      /\ out.transitive = {fd \in reached : fd[2] > 1}
      /\ out.tests = {fd[1] : fd \in {fd \in reached : IsTestFilePath(fd[1])}}
  BY DEF Impact
<1> HIDE DEF c, reached, out
<1>6. \A n \in 1..N : Nearest(c, n) \subseteq X
  <2> SUFFICES ASSUME NEW n \in 1..N, NEW s \in c[n] PROVE s[1] \in X
    BY DEF Nearest, Ends
  <2>1. s \in Seq(X) /\ s # <<>>
    BY <1>4 DEF ChainLoop, Chains
  <2> QED BY <2>1
<1>7. \A n \in 1..N : \A x : x \in Nearest(c, n) <=> <<x, n>> \in reached
  BY <1>3, <1>6
<1>8. out.direct = Nearest(c, 1)
  <2>1. \A x : x \in out.direct <=> <<x, 1>> \in reached
    BY <1>3, <1>5
  <2> QED BY <1>1, <1>7, <2>1
<1>9. out.transitive = UNION {Nearest(c, n) \X {n} : n \in 2..N}
  <2>1. \A fd \in reached : fd = <<fd[1], fd[2]>> /\ fd[2] \in 1..N
    BY <1>3
  <2>2. ASSUME NEW fd \in out.transitive
        PROVE  fd \in UNION {Nearest(c, n) \X {n} : n \in 2..N}
    BY <1>5, <1>7, <2>1
  <2>3. ASSUME NEW n \in 2..N, NEW x \in Nearest(c, n) PROVE <<x, n>> \in out.transitive
    BY <1>5, <1>7
  <2> QED BY <2>2, <2>3
<1>10. ASSUME NEW e \in ToSet(Incoming(graph, f)), e[1] # f, IsTestFilePath(e[1])
       PROVE  e \in out.tests \X {f}
  <2>1. e = <<e[1], f>> /\ e \in Edges /\ e[1] \in X
    BY <1>2
  <2>2. c[0] = {<<f>>} /\ 1 - 1 = 0 /\ 1 \in 1..N
    BY <1>4 DEF ChainLoop
  <2>3. Ends(c, 0) = {f} /\ Earlier(c, 0) = {} /\ Earlier(c, 1) = {f}
    BY <2>2 DEF Ends, Earlier
  <2>4. e[1] \in Ends(c, 1)
    <3>1. e[1] \notin Earlier(c, 1)
      BY <1>10, <2>3
    <3>2. e[1] \in Ends(c, 1) <=> \E y \in Nearest(c, 1 - 1) : <<e[1], y>> \in Edges
      BY <1>1, <1>2, <1>4, <3>1, NextChain
    <3>3. f \in Nearest(c, 1 - 1) /\ <<e[1], f>> \in Edges
      BY <2>1, <2>2, <2>3 DEF Nearest
    <3> QED BY <3>2, <3>3
  <2>5. <<e[1], 1>> \in reached
    BY <1>7, <1>10, <2>2, <2>3, <2>4 DEF Nearest
  <2>6. e[1] \in out.tests
    BY <1>5, <1>10, <2>5
  <2> QED BY <2>1, <2>6
<1> QED BY <1>8, <1>9, <1>10 DEF IsImpact, c, out

LEMMA MinOf ==
  ASSUME NEW a \in Nat, NEW b \in Nat
  PROVE  Min({a, b}) = IF a > b THEN b ELSE a
  BY DEF Min

\* find_dependents lists every file that imports lead from to the one it is asked
\* for, as far as it looks, at the least number of imports, also where imports lead
\* around in a circle (bfs_inner of graph.rs, handle_find_dependents).
THEOREM ImpactStaysWhole == ToolsSpec => []ImpactIsWhole
<1>1. ToolsInit => ImpactInv
  BY InitSearcher DEF ToolsInit, NoAnswer, ImpactInv
<1>2. ImpactInv /\ [ToolsNext]_toolVars => ImpactInv'
  BY ImpactStep
<1>3. ImpactInv => ImpactIsWhole
  <2> SUFFICES ASSUME ImpactInv, answer.state = "answered", answer.ask.tool = "find_dependents"
               PROVE  ImpactIsWhole
    BY DEF ImpactIsWhole
  <2> DEFINE f == answer.ask.file
             d == answer.ask.depth
             N == IF d = NoDepth THEN 3 ELSE Min({d, MaxDepth})
  <2>1. answer.ask \in Asks /\ d \in Nat /\ answer.out = ImpactSet(answer.ask)
    BY ToolsAssumption DEF ImpactInv
  <2>2. N \in Nat \ {0} /\ N = ImpactDepth(answer.ask)
    BY <2>1, MinOf DEF NoDepth, MaxDepth, ImpactDepth
  <2> HIDE DEF N
  <2>3. ImpactSet(answer.ask) = Impact(f, N)
    BY <2>2 DEF ImpactSet, Impact, LeadTo
  <2>4. IsImpact(f, N, ChainsTo(f, N), answer.out)
    BY <2>1, <2>2, <2>3, ImpactOf DEF ImpactInv
  <2> QED BY <2>4 DEF IsImpact, ImpactIsWhole, Nearest, Earlier, Ends, N
<1> QED BY <1>1, <1>2, <1>3, PTL DEF ToolsSpec

-----------------------------------------------------------------------------
(* Imports and the files that they name                                     *)

\* Strings, of which the provers know nothing, with those that resolvers add
Texts == STRING \cup {"mod", "__init__", "index", "src", AsName}

Paths == Seq(Texts)
FilesOf(ext) == [path : Paths, ext : {ext}]

LEMMA PathsAreTexts ==
  ASSUME NEW s \in Seq(STRING)
  PROVE  s \in Paths
<1>1. STRING \subseteq Texts
  BY Zenon DEF Texts
<1> QED BY <1>1, SeqMonotonic, Zenon DEF Paths

LEMMA ProjectIs ==
  ASSUME NEW p, IsProject(p)
  PROVE  /\ \A f \in p.files : f \in FilesOf(f.ext) /\ f.path # <<>>
         /\ DOMAIN p.imports \subseteq p.files
         /\ \A f \in p.files : \A k \in DOMAIN f.path : f.path[k] # AsName
         /\ \A f \in DOMAIN p.imports : \A i \in p.imports[f] :
               i.segs \in Paths /\ i.ups \in Nat /\ i.stem \in Texts
         /\ {"crate", "self", "super"} \cap DOMAIN p.members = {}
         /\ \A pkg \in DOMAIN p.members : p.members[pkg] \in Paths
<1>1. ASSUME NEW f \in p.files PROVE f \in FilesOf(f.ext) /\ f.path # <<>>
  <2>1. f = [path |-> f.path, ext |-> f.ext] /\ f.path \in Seq(STRING) /\ f.path # <<>>
    BY Zenon DEF IsProject
  <2>2. f.path \in Paths
    BY <2>1, PathsAreTexts, Zenon
  <2> DEFINE s == f.path
             e == f.ext
  <2>3. f = [path |-> s, ext |-> e] /\ s \in Paths
    BY <2>1, <2>2
  <2> HIDE DEF s, e
  <2>4. f \in FilesOf(e)
    BY <2>3 DEF FilesOf
  <2> QED BY <2>1, <2>4 DEF e
<1>2. /\ DOMAIN p.imports \subseteq p.files
      /\ {"crate", "self", "super"} \cap DOMAIN p.members = {}
      /\ \A f \in p.files : \A k \in DOMAIN f.path : f.path[k] # AsName
  BY Zenon DEF IsProject
<1>3. ASSUME NEW f \in DOMAIN p.imports, NEW i \in p.imports[f]
      PROVE  i.segs \in Paths /\ i.ups \in Nat /\ i.stem \in Texts
  <2>1. i.segs \in Seq(STRING) /\ i.ups \in Nat /\ i.stem \in STRING
    BY Zenon DEF IsProject
  <2> QED BY <2>1, PathsAreTexts, Zenon DEF Texts
<1>4. ASSUME NEW pkg \in DOMAIN p.members PROVE p.members[pkg] \in Paths
  <2>1. p.members[pkg] \in Seq(STRING)
    BY Zenon DEF IsProject
  <2> QED BY <2>1, PathsAreTexts, Zenon
<1> QED BY <1>1, <1>2, <1>3, <1>4

LEMMA Appended ==
  ASSUME NEW s \in Paths, NEW n \in Texts
  PROVE  /\ Append(s, n) \in Paths \ {<<>>}
         /\ Front(Append(s, n)) = s /\ Last(Append(s, n)) = n
<1> DEFINE t == Append(s, n)
<1>1. /\ t \in Seq(Texts) /\ t # <<>> /\ Len(t) = Len(s) + 1 /\ Len(s) \in Nat
      /\ \A i \in 1..Len(s) : t[i] = s[i]
      /\ t[Len(s) + 1] = n
  BY AppendProperties DEF Paths
<1> HIDE DEF t
<1>2. /\ Front(t) \in Seq(Texts) /\ Len(Front(t)) = Len(s)
      /\ \A i \in 1..Len(s) : Front(t)[i] = s[i]
  BY <1>1 DEF Front
<1>3. Front(t) = s
  BY <1>2, SeqEqual DEF Paths
<1> QED BY <1>1, <1>3 DEF Last, Paths, t

LEMMA Parted ==
  ASSUME NEW s \in Paths, s # <<>>
  PROVE  Front(s) \in Paths /\ Last(s) \in Texts /\ s = Append(Front(s), Last(s))
<1>1. PICK t \in Seq(Texts), n \in Texts : s = Append(t, n)
  BY SequenceEmptyOrAppend DEF Paths
<1> QED BY <1>1, Appended DEF Paths

LEMMA FrontOfTwo ==
  ASSUME NEW s \in Paths, NEW t \in Paths, t # <<>>
  PROVE  Front(s \o t) = s \o Front(t)
<1>1. PICK u \in Seq(Texts), n \in Texts : t = Append(u, n)
  BY SequenceEmptyOrAppend DEF Paths
<1>2. s \o t = Append(s \o u, n) /\ s \o u \in Paths
  <2>1. s \o u \in Seq(Texts) /\ s \in Seq(Texts) /\ <<n>> \in Seq(Texts)
    BY DEF Paths
  <2>2. s \o Append(u, n) = Append(s \o u, n)
    BY <2>1, AppendIsConcat, ConcatAssociative
  <2> QED BY <1>1, <2>1, <2>2 DEF Paths
<1> QED BY <1>1, <1>2, Appended DEF Paths

\* The first of two lists of candidates goes before the second.
LEMMA FirstInTwo ==
  ASSUME NEW p, NEW V, NEW s \in Seq(V), NEW t \in Seq(V), NEW g \in FirstIn(p, s \o t)
  PROVE  \/ g \in FirstIn(p, s)
         \/ g \in FirstIn(p, t) /\ \A k \in DOMAIN s : s[k] \notin p.files
<1> DEFINE c == s \o t
           m == Len(s)
<1>1. /\ c \in Seq(V) /\ m \in Nat /\ Len(t) \in Nat /\ Len(c) = m + Len(t)
      /\ \A k \in 1..m : c[k] = s[k]
      /\ \A k \in 1..Len(t) : c[m + k] = t[k]
      /\ DOMAIN s = 1..m /\ DOMAIN t = 1..Len(t) /\ DOMAIN c = 1..Len(c)
  OBVIOUS
<1>2. PICK k \in DOMAIN c : /\ g = c[k] /\ c[k] \in p.files
                            /\ \A j \in DOMAIN c : c[j] \in p.files => k <= j
  BY DEF FirstIn
<1> HIDE DEF c, m
<1>3. CASE k <= m
  <2>1. k \in DOMAIN s /\ g = s[k] /\ s[k] \in p.files
    BY <1>1, <1>2, <1>3
  <2>2. \A j \in DOMAIN s : s[j] \in p.files => k <= j
    BY <1>1, <1>2
  <2>3. g \in FirstIn(p, s)
    BY <2>1, <2>2 DEF FirstIn
  <2> QED BY <2>3
<1>4. CASE m < k
  <2>1. k - m \in DOMAIN t /\ g = t[k - m] /\ t[k - m] \in p.files
    <3>1. k - m \in 1..Len(t) /\ m + (k - m) = k
      BY <1>1, <1>2, <1>4
    <3> QED BY <1>1, <1>2, <3>1
  <2>2. \A j \in DOMAIN t : t[j] \in p.files => k - m <= j
    <3> SUFFICES ASSUME NEW j \in DOMAIN t, t[j] \in p.files PROVE k - m <= j
      OBVIOUS
    <3>1. m + j \in DOMAIN c /\ c[m + j] = t[j]
      BY <1>1
    <3> QED BY <1>1, <1>2, <3>1
  <2>3. \A j \in DOMAIN s : s[j] \notin p.files
    BY <1>1, <1>2, <1>4
  <2> QED BY <2>1, <2>2, <2>3 DEF FirstIn
<1> QED BY <1>1, <1>2, <1>3, <1>4

\* The two files of a module
Pair(ext, path) ==
    <<[path |-> path, ext |-> ext], [path |-> Append(path, Standing(ext)), ext |-> ext]>>

LEMMA PairIs ==
  ASSUME NEW ext \in {"rs", "py"}, NEW path \in Paths
  PROVE  /\ Pair(ext, path) \in Seq(FilesOf(ext)) /\ DOMAIN Pair(ext, path) = {1, 2}
         /\ \A h \in FilesOf(ext) : h.path # <<>> =>
               (path \in OwnPaths(ext, h) <=> h \in {Pair(ext, path)[1], Pair(ext, path)[2]})
<1> DEFINE n == Standing(ext)
           x == [path |-> path, ext |-> ext]
           y == [path |-> Append(path, n), ext |-> ext]
<1>1. n \in Texts /\ ext # "go"
  <2>1. ext = "rs" \/ ext = "py"
    OBVIOUS
  <2>2. CASE ext = "rs"
    BY <2>2 DEF Standing, Texts
  <2>3. CASE ext = "py"
    BY <2>3 DEF Standing, Texts
  <2> QED BY <2>1, <2>2, <2>3
<1> HIDE DEF n
<1>2. Append(path, n) \in Paths \ {<<>>} /\ Front(Append(path, n)) = path /\ Last(Append(path, n)) = n
  BY <1>1, Appended
<1>3. x \in FilesOf(ext) /\ y \in FilesOf(ext)
  BY <1>2 DEF FilesOf
<1>4. Pair(ext, path) = <<x, y>>
  BY DEF Pair, n
<1>5. ASSUME NEW h \in FilesOf(ext), h.path # <<>>
      PROVE  path \in OwnPaths(ext, h) <=> h \in {x, y}
  <2>1. h = [path |-> h.path, ext |-> ext] /\ h.path \in Paths
    BY DEF FilesOf
  <2>2. path \in OwnPaths(ext, h) <=> path = h.path \/ (Last(h.path) = n /\ path = Front(h.path))
    BY <1>1 DEF OwnPaths, Dir, n
  <2>3. h.path = Append(path, n) <=> Last(h.path) = n /\ path = Front(h.path)
    BY <1>2, <1>5, <2>1, Parted
  <2>4. h = x <=> h.path = path
    BY <2>1
  <2>5. h = y <=> h.path = Append(path, n)
    BY <2>1
  <2> HIDE DEF x, y
  <2> QED BY <2>2, <2>3, <2>4, <2>5
<1> HIDE DEF x, y
<1>6. <<x, y>> \in Seq(FilesOf(ext)) /\ DOMAIN <<x, y>> = {1, 2} /\ <<x, y>>[1] = x /\ <<x, y>>[2] = y
  BY <1>3
<1> QED BY <1>4, <1>5, <1>6

\* What a resolver finds for a path of modules
ByModule(p, ext, path, g) == g \in p.files /\ g.ext = ext /\ IsModuleAt(p, ext, path, g)

LEMMA ByModuleIs ==
  ASSUME NEW p, NEW ext \in {"rs", "py"}, NEW path, NEW g \in p.files, g.ext = ext,
         \/ path \in OwnPaths(ext, g)
         \/ /\ path # <<>> /\ Front(path) \in OwnPaths(ext, g)
            /\ \A h \in p.files : h.ext = ext => path \notin OwnPaths(ext, h)
  PROVE  ByModule(p, ext, path, g)
BY DEF ByModule, IsModuleAt, IsAt

LEMMA FirstOfPair ==
  ASSUME NEW p, IsProject(p), NEW ext \in {"rs", "py"}, NEW path \in Paths,
         NEW g \in FirstIn(p, Pair(ext, path))
  PROVE  g \in p.files /\ g.ext = ext /\ path \in OwnPaths(ext, g)
<1>1. PICK k \in {1, 2} : g = Pair(ext, path)[k] /\ g \in p.files
  BY PairIs DEF FirstIn
<1>2. g \in {Pair(ext, path)[1], Pair(ext, path)[2]}
  BY <1>1
<1>3. g \in FilesOf(ext) /\ g.path # <<>>
  <2>1. g.ext = ext
    BY <1>2 DEF Pair
  <2> QED BY <1>1, <2>1, ProjectIs
<1>4. path \in OwnPaths(ext, g)
  BY <1>2, <1>3, PairIs
<1> QED BY <1>1, <1>3, <1>4 DEF FilesOf

LEMMA FirstOfPairs ==
  ASSUME NEW p, IsProject(p), NEW ext \in {"rs", "py"}, NEW base \in Paths, NEW segs \in Paths,
         NEW g \in FirstIn(p, Pair(ext, base \o segs)
                                \o (IF Len(segs) > 1 THEN Pair(ext, base \o Front(segs)) ELSE <<>>))
  PROVE  ByModule(p, ext, base \o segs, g)
<1> DEFINE path == base \o segs
           one == Pair(ext, path)
           two == IF Len(segs) > 1 THEN Pair(ext, base \o Front(segs)) ELSE <<>>
           V == FilesOf(ext)
<1>1. path \in Paths
  BY DEF Paths
<1>2. Len(segs) > 1 => /\ segs # <<>> /\ base \o Front(segs) = Front(path) /\ path # <<>>
                       /\ Front(path) \in Paths
  <2> HAVE Len(segs) > 1
  <2>1. segs # <<>>
    OBVIOUS
  <2>2. Front(path) = base \o Front(segs)
    BY <2>1, FrontOfTwo
  <2>3. path # <<>>
    BY <2>1 DEF Paths
  <2> QED BY <1>1, <2>1, <2>2, <2>3, Parted
<1>3. two = IF Len(segs) > 1 THEN Pair(ext, Front(path)) ELSE <<>>
  BY <1>2
<1> HIDE DEF path
<1>4. one \in Seq(V) /\ two \in Seq(V)
  <2>1. Len(segs) > 1 => Pair(ext, Front(path)) \in Seq(V)
    BY <1>2, PairIs
  <2>2. <<>> \in Seq(V)
    OBVIOUS
  <2> QED BY <1>1, <1>3, <2>1, <2>2, PairIs
<1>5. g \in FirstIn(p, one \o two)
  BY DEF path
<1> HIDE DEF one, two, V
<1>6. \/ g \in FirstIn(p, one)
      \/ g \in FirstIn(p, two) /\ \A k \in DOMAIN one : one[k] \notin p.files
  BY <1>4, <1>5, FirstInTwo
<1>7. CASE g \in FirstIn(p, one)
  <2>1. g \in p.files /\ g.ext = ext /\ path \in OwnPaths(ext, g)
    BY <1>1, <1>7, FirstOfPair DEF one
  <2> QED BY <2>1, ByModuleIs DEF path
<1>8. CASE g \in FirstIn(p, two) /\ \A k \in DOMAIN one : one[k] \notin p.files
  <2>1. Len(segs) > 1
    <3>1. FirstIn(p, <<>>) = {}
      BY DEF FirstIn
    <3> QED BY <1>3, <1>8, <3>1
  <2>2. g \in p.files /\ g.ext = ext /\ Front(path) \in OwnPaths(ext, g)
    BY <1>2, <1>3, <1>8, <2>1, FirstOfPair
  <2>3. ASSUME NEW h \in p.files, h.ext = ext PROVE path \notin OwnPaths(ext, h)
    <3>1. h \in FilesOf(ext) /\ h.path # <<>>
      BY <2>3, ProjectIs
    <3>2. one[1] \notin p.files /\ one[2] \notin p.files
      BY <1>1, <1>8, PairIs DEF one
    <3>3. path \in OwnPaths(ext, h) <=> h \in {one[1], one[2]}
      BY <1>1, <3>1, PairIs DEF one
    <3> QED BY <3>2, <3>3
  <2> QED BY <1>2, <2>1, <2>2, <2>3, ByModuleIs DEF path
<1> QED BY <1>6, <1>7, <1>8

LEMMA CrateSrcIs ==
  ASSUME NEW p, IsProject(p), NEW f \in p.files
  PROVE  CrateSrc(p, f) \in Paths
<1> DEFINE N == Len(Dir(f))
           around == Around(f, p.crates)
           most == CHOOSE n \in around : \A m \in around : m <= n
<1>1. f.path \in Paths /\ f.path # <<>> /\ Dir(f) \in Paths /\ f.path = Append(Dir(f), Last(f.path))
  BY ProjectIs, Parted DEF FilesOf, Dir
<1>2. N \in Nat /\ Len(f.path) \in Nat /\ N <= Len(f.path)
  <2>1. \A s \in Paths : Len(s) \in Nat
    BY DEF Paths
  <2>2. Dir(f) = SubSeq(f.path, 1, Len(f.path) - 1)
    BY DEF Dir, Front
  <2>3. Len(f.path) # 0
    BY <1>1 DEF Paths
  <2>4. \A i \in 1..Len(f.path) - 1 : f.path[i] \in Texts
    BY <1>1, <2>1 DEF Paths
  <2>5. Len(Dir(f)) = Len(f.path) - 1
    BY <1>1, <2>1, <2>2, <2>3, <2>4, SubSeqProperties
  <2> QED BY <1>1, <2>1, <2>5
<1>3. CrateSrc(p, f) = IF around = {} THEN <<"src">> ELSE Append(SubSeq(f.path, 1, most), "src")
  BY DEF CrateSrc, Innermost
<1>6. around \subseteq 0..N
  BY DEF Around
<1> HIDE DEF N
<1>4. CASE around = {}
  <2>1. "src" \in Texts
    BY DEF Texts
  <2> QED BY <1>3, <1>4, <2>1 DEF Paths
<1>5. CASE around # {}
  <2>1. \E n \in around : \A m \in around : m <= n
    <3> DEFINE T == {N - n : n \in around}
    <3>1. T \subseteq Nat /\ T # {}
      BY <1>2, <1>5, <1>6
    <3>2. PICK k \in T : \A l \in T : k <= l
      <4> HIDE DEF T
      <4> QED BY <3>1, Least
    <3>3. PICK n \in around : k = N - n
      BY <3>2
    <3>4. \A m \in around : N - n <= N - m
      BY <3>2, <3>3
    <3>5. \A m \in around : m <= n
      BY <1>2, <1>6, <3>4
    <3> QED BY <3>5
  <2>2. most \in around
    <3> HIDE DEF around
    <3> QED BY <2>1
  <2>3. most \in 0..N /\ \A i \in 1..most : f.path[i] \in Texts
    <3>1. most \in 0..N
      BY <1>6, <2>2
    <3> HIDE DEF most, around
    <3> QED BY <1>1, <1>2, <3>1 DEF Paths
  <2> HIDE DEF most
  <2>4. SubSeq(f.path, 1, most) \in Seq(Texts)
    BY <2>3, SubSeqProperties
  <2>5. "src" \in Texts
    BY DEF Texts
  <2> QED BY <1>3, <1>5, <2>4, <2>5, Appended DEF Paths
<1> QED BY <1>4, <1>5

\* A path without its last names
LEMMA UpIs ==
  ASSUME NEW s \in Paths, NEW n \in Nat, n <= Len(s)
  PROVE  Up(s, n) \in Paths
<1>1. /\ Len(s) \in Nat /\ Len(s) - n \in Int
      /\ \A i \in 1..Len(s) - n : s[i] \in Texts
  BY DEF Paths
<1>2. SubSeq(s, 1, Len(s) - n) \in Seq(Texts)
  BY <1>1, SubSeqProperties
<1> QED BY <1>2 DEF Up, Paths

\* The names that are resolved, and the path they are resolved from, of Rust
LEMMA RustReads ==
  ASSUME NEW p, IsProject(p), NEW f \in p.files, f.ext = "rs", NEW i, i.ups \in Nat,
         NEW g \in ResolveRust(p, f, i)
  PROVE  /\ i.head \in {"crate", "self", "super"} \cup DOMAIN p.members
         /\ ReadOrigin(p, f, i) \in Paths
         /\ g \in ResolveFromBase(p, ReadOrigin(p, f, i), ExtractRust(i))
<1> DEFINE base == ReadOrigin(p, f, i)
           segs == ExtractRust(i)
<1>1. {"crate", "self", "super"} \cap DOMAIN p.members = {}
  BY ProjectIs
<1>2. Dir(f) \in Paths
  BY ProjectIs, Parted DEF FilesOf, Dir
<1>3. g \in ResolvePath(p, f, i, segs)
  BY DEF ResolveRust
<1> HIDE DEF segs
<1>4. i.head \in {"crate", "self", "super"} \cup DOMAIN p.members
  BY <1>1, <1>3 DEF ResolvePath
<1>5. CASE i.head = "crate"
  <2>1. base = CrateSrc(p, f)
    BY <1>5 DEF ReadOrigin, Origin
  <2>2. ResolvePath(p, f, i, segs) = ResolveFromBase(p, CrateSrc(p, f), segs)
    BY <1>1, <1>5 DEF ResolvePath
  <2> QED BY <1>3, <1>4, <2>1, <2>2, CrateSrcIs DEF segs
<1>6. CASE i.head = "self"
  <2>1. base = Dir(f)
    BY <1>6 DEF ReadOrigin
  <2>2. ResolvePath(p, f, i, segs) = ResolveFromBase(p, Dir(f), segs)
    BY <1>1, <1>6 DEF ResolvePath
  <2> QED BY <1>2, <1>3, <1>4, <2>1, <2>2 DEF segs
<1>7. CASE i.head = "super"
  <2>1. base = Up(Dir(f), i.ups)
    BY <1>7 DEF ReadOrigin
  <2>2. ResolvePath(p, f, i, segs) = IF i.ups > Len(Dir(f)) THEN {}
                                     ELSE ResolveFromBase(p, Up(Dir(f), i.ups), segs)
    BY <1>1, <1>7 DEF ResolvePath
  <2>3. ~(i.ups > Len(Dir(f))) /\ g \in ResolveFromBase(p, Up(Dir(f), i.ups), segs)
    BY <1>3, <2>2
  <2>4. i.ups <= Len(Dir(f))
    <3>1. Len(Dir(f)) \in Nat
      BY <1>2 DEF Paths
    <3> QED BY <2>3, <3>1
  <2> QED BY <1>2, <1>4, <2>1, <2>3, <2>4, UpIs DEF segs
<1>8. CASE i.head \notin {"crate", "self", "super"}
  <2>1. base = Append(p.members[i.head], "src")
    BY <1>8 DEF ReadOrigin, Origin
  <2>2. i.head \in DOMAIN p.members
    BY <1>4, <1>8
  <2>3. ResolvePath(p, f, i, segs) = ResolveFromBase(p, Append(p.members[i.head], "src"), segs)
    BY <1>8, <2>2 DEF ResolvePath
  <2>4. p.members[i.head] \in Paths /\ "src" \in Texts
    BY <2>2, ProjectIs DEF Texts
  <2> QED BY <1>3, <1>4, <2>1, <2>3, <2>4, Appended DEF segs
<1> QED BY <1>5, <1>6, <1>7, <1>8

LEMMA BareIs ==
  ASSUME NEW i, i.segs \in Paths
  PROVE  Bare(i) \in Paths
BY Parted DEF Bare

\* What names resolve to, from a directory
LEMMA FromBase ==
  ASSUME NEW p, IsProject(p), NEW base \in Paths, NEW segs \in Paths,
         NEW g \in ResolveFromBase(p, base, segs)
  PROVE  ByModule(p, "rs", base \o segs, g)
<1>1. \A q : ModuleFiles(q) = Pair("rs", q)
  BY DEF ModuleFiles, Pair, Rs, Standing
<1>2. g \in FirstIn(p, Pair("rs", base \o segs)
                         \o (IF Len(segs) > 1 THEN Pair("rs", base \o Front(segs)) ELSE <<>>))
  BY <1>1 DEF ResolveFromBase
<1> QED BY <1>2, FirstOfPairs

\* No file has a renamed import for its path.
LEMMA NoFileAsName ==
  ASSUME NEW p, IsProject(p), NEW path \in Paths, NEW g \in p.files
  PROVE  Append(path, AsName) \notin OwnPaths("rs", g)
<1> DEFINE t == Append(path, AsName)
<1>1. g.path \in Paths /\ g.path # <<>> /\ \A k \in DOMAIN g.path : g.path[k] # AsName
  BY ProjectIs DEF FilesOf
<1>2. AsName \in Texts
  BY DEF Texts
<1>3. t \in Paths \ {<<>>} /\ Last(t) = AsName
  BY <1>2, Appended
<1> HIDE DEF t
<1>4. t # g.path
  <2>1. t = g.path => Len(g.path) \in DOMAIN g.path
    BY <1>1 DEF Paths
  <2> QED BY <1>1, <1>3, <2>1 DEF Last
<1>5. t # Dir(g)
  <2> SUFFICES ASSUME t = Dir(g) PROVE FALSE
    OBVIOUS
  <2>1. PICK u \in Seq(Texts), n \in Texts : g.path = Append(u, n)
    BY <1>1, SequenceEmptyOrAppend DEF Paths
  <2>2. t = u
    BY <2>1, Appended DEF Paths, Dir
  <2>3. /\ Len(u) \in Nat \ {0} /\ u[Len(u)] = AsName /\ DOMAIN g.path = 1..Len(u) + 1
        /\ g.path[Len(u)] = u[Len(u)]
    <3>1. Len(u) \in Nat \ {0} /\ DOMAIN g.path = 1..Len(u) + 1
      BY <1>3, <2>1, <2>2
    <3>2. g.path[Len(u)] = u[Len(u)]
      BY <2>1, <3>1
    <3> QED BY <1>3, <2>2, <3>1, <3>2 DEF Last
  <2> QED BY <1>1, <2>3
<1> QED BY <1>4, <1>5 DEF OwnPaths, t

\* What an import of Rust resolves to is what it names, or, of a renamed one, the module
\* around it.
LEMMA RustNames ==
  ASSUME NEW p, IsProject(p), NEW f \in p.files, f.ext = "rs", NEW i, i.segs \in Paths,
         i.ups \in Nat, NEW g \in ResolveRust(p, f, i)
  PROVE  IF Misread(p, f, i) THEN Leads(p, f, i, g) ELSE Names(p, f, i, g)
<1> DEFINE base == ReadOrigin(p, f, i)
           path == base \o Bare(i)
<1>1. /\ i.head \in {"crate", "self", "super"} \cup DOMAIN p.members
      /\ base \in Paths /\ g \in ResolveFromBase(p, base, ExtractRust(i)) /\ Bare(i) \in Paths
  BY RustReads, BareIs
<1> HIDE DEF base
<1>2. CASE i.as = ""
  <2>1. ExtractRust(i) = Bare(i)
    BY <1>2 DEF ExtractRust
  <2>2. IsModuleAt(p, "rs", path, g)
    BY <1>1, <2>1, FromBase DEF ByModule
  <2>3. CASE i.head \in {"self", "super"} /\ ~IsModuleRoot(f)
    <3>1. Misread(p, f, i)
      BY <2>3 DEF Misread
    <3>2. Leads(p, f, i, g)
      BY <1>2, <2>2 DEF Leads, base
    <3> QED BY <3>1, <3>2
  <2>4. CASE ~(i.head \in {"self", "super"} /\ ~IsModuleRoot(f))
    <3>1. ~Misread(p, f, i)
      BY <1>2, <2>4 DEF Misread
    <3>2. base = Origin(p, f, i)
      BY <2>4 DEF base, ReadOrigin, Origin, ModulePath
    <3>3. NamedPaths(p, f, i) = {path}
      BY <3>2 DEF NamedPaths
    <3> HIDE DEF path
    <3>4. Names(p, f, i, g)
      BY <1>1, <2>2, <3>3 DEF Names
    <3> QED BY <3>1, <3>4
  <2> QED BY <2>3, <2>4
<1>3. CASE i.as # ""
  <2>1. Misread(p, f, i)
    BY <1>3 DEF Misread
  <2>2. Bare(i) # <<>>
    <3>1. Bare(i) = <<>> => ExtractRust(i) = <<>>
      BY DEF ExtractRust
    <3>2. ResolveFromBase(p, base, <<>>) = {}
      BY DEF ResolveFromBase
    <3> QED BY <1>1, <3>1, <3>2
  <2> DEFINE around == Front(Bare(i))
             segs == Append(around, AsName)
  <2>3. ExtractRust(i) = segs
    BY <1>3, <2>2 DEF ExtractRust
  <2>4. around \in Paths /\ AsName \in Texts
    BY <1>1, <2>2, Parted DEF Texts
  <2>5. segs \in Paths \ {<<>>} /\ Front(segs) = around
    BY <2>4, Appended
  <2>6. Front(path) = base \o around
    BY <1>1, <2>2, FrontOfTwo
  <2> HIDE DEF around, path
  <2>7. base \o segs = Append(base \o around, AsName) /\ base \o around \in Paths
    <3>1. base \o around \in Paths
      BY <1>1, <2>4 DEF Paths
    <3>2. base \o Append(around, AsName) = Append(base \o around, AsName)
      <4>1. base \in Seq(Texts) /\ around \in Seq(Texts) /\ <<AsName>> \in Seq(Texts)
        BY <1>1, <2>4 DEF Paths
      <4>2. base \o around \in Seq(Texts)
        BY <4>1
      <4> QED BY <2>4, <4>1, <4>2, AppendIsConcat, ConcatAssociative
    <3> QED BY <3>1, <3>2
  <2>8. Front(base \o segs) = base \o around
    BY <2>4, <2>7, Appended
  <2>9. ByModule(p, "rs", base \o segs, g)
    BY <1>1, <2>3, <2>5, FromBase
  <2>10. g \in p.files /\ base \o segs \notin OwnPaths("rs", g)
    BY <2>7, <2>9, NoFileAsName DEF ByModule
  <2>11. IsAt("rs", Front(path), g)
    BY <2>6, <2>8, <2>9, <2>10 DEF ByModule, IsModuleAt, IsAt
  <2>12. Leads(p, f, i, g)
    BY <1>3, <2>11 DEF Leads, path, base
  <2> QED BY <2>1, <2>12
<1> QED BY <1>2, <1>3

\* The same for Python, from one root after the other
LEMMA PythonNames ==
  ASSUME NEW p, IsProject(p), NEW f, f.ext = "py", NEW i, i.segs \in Paths,
         NEW g \in ResolvePython(p, i)
  PROVE  Names(p, f, i, g)
<1> DEFINE segs == i.segs
           src == <<"src">>
           none == <<>>
           V == FilesOf("py")
<1>1. src \in Paths /\ none \in Paths
  BY DEF Texts, Paths
<1>2. \A base \in Paths :
         /\ TryPython(base, segs) \in Seq(V)
         /\ \A h \in FirstIn(p, TryPython(base, segs)) : ByModule(p, "py", base \o segs, h)
  <2> SUFFICES ASSUME NEW base \in Paths
               PROVE  /\ TryPython(base, segs) \in Seq(V)
                      /\ \A h \in FirstIn(p, TryPython(base, segs)) :
                            ByModule(p, "py", base \o segs, h)
    OBVIOUS
  <2> DEFINE one == Pair("py", base \o segs)
             two == IF Len(segs) > 1 THEN Pair("py", base \o Front(segs)) ELSE <<>>
  <2>1. TryPython(base, segs) = one \o two
    BY DEF TryPython, Py, Pair, Standing
  <2>2. Len(segs) > 1 => base \o Front(segs) \in Paths
    <3>1. Len(segs) > 1 => segs # <<>>
      OBVIOUS
    <3>2. Len(segs) > 1 => Front(segs) \in Paths
      BY <3>1, Parted
    <3> QED BY <3>2 DEF Paths
  <2>3. one \in Seq(V)
    <3>1. base \o segs \in Paths
      BY DEF Paths
    <3> QED BY <3>1, PairIs
  <2>4. two \in Seq(V)
    <3>1. Len(segs) > 1 => base \o Front(segs) \in Paths
      BY <2>2
    <3>2. Len(segs) > 1 => Pair("py", base \o Front(segs)) \in Seq(V)
      BY <3>1, PairIs
    <3> QED BY <3>2
  <2>5. \A h \in FirstIn(p, one \o two) : ByModule(p, "py", base \o segs, h)
    BY FirstOfPairs
  <2> HIDE DEF one, two, V
  <2> QED BY <2>1, <2>3, <2>4, <2>5
<1>3. g \in FirstIn(p, TryPython(none, segs) \o TryPython(src, segs))
  BY DEF ResolvePython
<1> HIDE DEF segs, src, none, V
<1>4. \E root \in {none, src} : ByModule(p, "py", root \o segs, g)
  <2> DEFINE s == TryPython(none, segs)
             t == TryPython(src, segs)
  <2>1. s \in Seq(V) /\ t \in Seq(V)
    BY <1>1, <1>2
  <2>2. g \in FirstIn(p, s \o t)
    BY <1>3
  <2> HIDE DEF s, t
  <2>3. g \in FirstIn(p, s) \/ g \in FirstIn(p, t)
    BY <2>1, <2>2, FirstInTwo
  <2> QED BY <1>1, <1>2, <2>3 DEF s, t
<1>5. PICK root \in {none, src} : ByModule(p, "py", root \o segs, g)
  BY <1>4
<1>6. root \o segs \in NamedPaths(p, f, i)
  <2>1. NamedPaths(p, f, i) = {segs, src \o segs}
    BY DEF NamedPaths, segs, src
  <2>2. none \o segs = segs
    BY DEF none, segs, Paths
  <2> QED BY <2>1, <2>2
<1> QED BY <1>5, <1>6 DEF Names, ByModule

\* What is left after the whole path of a module is a path in it.
LEMMA AfterWhole ==
  ASSUME NEW p, NEW module, NEW segs, IsPrefix(module, segs),
         AfterModule(p, module, segs) # <<>>
  PROVE  AfterModule(p, module, segs) = SubSeq(segs, Len(module) + 1, Len(segs))
BY DEF AfterModule, IsPrefix

\* The same for Go, where any file of the package is taken
LEMMA GoNames ==
  ASSUME NEW p, NEW f, f.ext = "go", NEW i, i.segs \in Paths, NEW g \in ResolveGo(p, f, i)
  PROVE  IF Misread(p, f, i) THEN Leads(p, f, i, g) ELSE Names(p, f, i, g)
<1> DEFINE module == ModuleOf(p, f)
           dir == AfterModule(p, module, i.segs)
<1>1. dir # <<>> /\ g.ext = "go" /\ Dir(g) = dir
  <2>1. ResolveGo(p, f, i) = IF Around(f, DOMAIN p.gomods) = {} \/ dir = <<>>
                             THEN {} ELSE {h \in p.files : h.ext = "go" /\ Dir(h) = dir}
    BY Zenon DEF ResolveGo
  <2> HIDE DEF dir
  <2> QED BY <2>1
<1>2. IsAt("go", dir, g)
  BY <1>1 DEF IsAt, OwnPaths
<1>3. CASE Misread(p, f, i)
  BY <1>2, <1>3 DEF Leads
<1>4. CASE ~Misread(p, f, i)
  <2> DEFINE in == Innermost(f, DOMAIN p.gomods)
             rest == SubSeq(i.segs, Len(module) + 1, Len(i.segs))
  <2>1. in = <<>> /\ IsPrefix(module, i.segs)
    BY <1>4 DEF Misread
  <2> HIDE DEF in, module, dir
  <2>2. dir = rest
    BY <1>1, <2>1, AfterWhole DEF dir
  <2>3. <<>> \o dir = dir
    <3>1. dir \in Seq(Texts)
      BY <2>2 DEF Paths
    <3> QED BY <3>1
  <2>4. NamedPaths(p, f, i) = {in \o rest}
    BY DEF NamedPaths, in, module
  <2>5. dir \in NamedPaths(p, f, i)
    BY <2>1, <2>2, <2>3, <2>4
  <2>6. IsModuleAt(p, "go", dir, g)
    BY <1>2 DEF IsModuleAt
  <2>7. Names(p, f, i, g)
    BY <2>1, <2>5, <2>6 DEF Names, module
  <2> QED BY <1>4, <2>7
<1> QED BY <1>3, <1>4

\* Files of these paths, with one of these extensions
AtAny(P, E) == {[path |-> q, ext |-> e] : q \in P, e \in E}

LEMMA TsFileIs ==
  ASSUME NEW P, NEW E, NEW q \in P, NEW exts \in Seq(E)
  PROVE  TsFile(q, exts) \in Seq(AtAny(P, E))
<1> DEFINE R(k) == [path |-> q, ext |-> exts[k]]
           S == AtAny(P, E)
<1>1. Len(exts) \in Nat /\ DOMAIN exts = 1..Len(exts) /\ \A k \in 1..Len(exts) : R(k) \in S
  BY DEF AtAny
<1>2. TsFile(q, exts) = [k \in 1..Len(exts) |-> R(k)]
  BY <1>1 DEF TsFile
<1> HIDE DEF R, S
<1>3. [k \in 1..Len(exts) |-> R(k)] \in Seq(S)
  BY <1>1
<1> QED BY <1>2, <1>3 DEF S

\* The same for TypeScript, where any file of the path is taken
LEMMA TypeScriptNames ==
  ASSUME NEW p, NEW f, f.ext \notin {"rs", "py", "go"}, NEW i, i.segs \in Paths,
         i.ups \in Nat, Dir(f) \in Paths, NEW g \in ResolveTypeScript(p, f, i)
  PROVE  Names(p, f, i, g)
<1> DEFINE path == Up(Dir(f), i.ups) \o i.segs
           stem == Append(Front(path), i.stem)
           under == Append(path, "index")
           E == {i.ext, "ts", "tsx", "js", "jsx"}
           P == {path, under} \cup (IF i.ext = "" THEN {} ELSE {stem})
           V == AtAny(P, E)
           exts == IF i.ext = "js" THEN <<"js", "ts", "tsx">> ELSE <<i.ext>>
           written == IF i.ext = "" THEN <<>> ELSE TsFile(stem, exts)
           tried == TsFile(path, <<"ts", "tsx", "js", "jsx">>)
           listed == TsFile(under, <<"ts", "tsx", "js">>)
<1>1. path \in Paths
  <2>1. Len(Dir(f)) \in Nat /\ i.ups <= Len(Dir(f))
    <3>1. Len(Dir(f)) \in Nat
      BY DEF Paths
    <3>2. ~(i.ups > Len(Dir(f)))
      BY Zenon DEF ResolveTypeScript
    <3> QED BY <3>1, <3>2
  <2>2. Up(Dir(f), i.ups) \in Paths
    BY <2>1, UpIs
  <2> QED BY <2>2 DEF Paths
<1>2. under \in Paths \ {<<>>} /\ Front(under) = path /\ Last(under) = "index"
  <2>1. "index" \in Texts
    BY DEF Texts
  <2> HIDE DEF path
  <2> QED BY <1>1, <2>1, Appended
<1>3. g \in FirstIn(p, written \o (tried \o listed))
  BY Zenon DEF ResolveTypeScript
<1> HIDE DEF path, stem, under
<1>4. /\ exts \in Seq(E) /\ <<"ts", "tsx", "js", "jsx">> \in Seq(E)
      /\ <<"ts", "tsx", "js">> \in Seq(E)
  <2>1. i.ext \in E /\ "js" \in E /\ "ts" \in E /\ "tsx" \in E /\ "jsx" \in E
    OBVIOUS
  <2> HIDE DEF E
  <2>2. <<"js", "ts", "tsx">> \in Seq(E) /\ <<i.ext>> \in Seq(E)
    BY <2>1
  <2>3. <<"ts", "tsx", "js", "jsx">> \in Seq(E) /\ <<"ts", "tsx", "js">> \in Seq(E)
    BY <2>1
  <2> QED BY <2>2, <2>3
<1> HIDE DEF E, exts
<1>5. written \in Seq(V)
  <2>1. CASE i.ext = ""
    <3>1. written = <<>>
      BY <2>1, Zenon
    <3> HIDE DEF written, V
    <3> QED BY <3>1
  <2>2. CASE i.ext # ""
    <3>1. stem \in P
      BY <2>2
    <3> HIDE DEF P
    <3>2. TsFile(stem, exts) \in Seq(V)
      BY <1>4, <3>1, TsFileIs
    <3> QED BY <2>2, <3>2
  <2> QED BY <2>1, <2>2
<1>6. tried \in Seq(V) /\ listed \in Seq(V)
  <2>1. path \in P /\ under \in P
    OBVIOUS
  <2> HIDE DEF P
  <2> QED BY <1>4, <2>1, TsFileIs
<1>7. g.path \in P
  <2> HIDE DEF written, tried, listed, V
  <2>1. written \o (tried \o listed) \in Seq(V)
    BY <1>5, <1>6
  <2>2. g \in V
    BY <1>3, <2>1 DEF FirstIn
  <2> HIDE DEF P
  <2> QED BY <2>2 DEF V, AtAny
<1>8. NamedPaths(p, f, i) = {path} \cup (IF i.ext = "" THEN {} ELSE {stem})
  BY DEF NamedPaths, path, stem
<1>9. \E q \in NamedPaths(p, f, i) : q \in OwnPaths(f.ext, g)
  <2>1. CASE g.path = under
    <3>1. path \in OwnPaths(f.ext, g)
      BY <1>2, <2>1 DEF OwnPaths, Standing, Dir
    <3> QED BY <1>8, <3>1
  <2>2. CASE g.path # under
    <3>1. g.path \in NamedPaths(p, f, i)
      BY <1>7, <1>8, <2>2
    <3>2. g.path \in OwnPaths(f.ext, g)
      BY DEF OwnPaths
    <3> QED BY <3>1, <3>2
  <2> QED BY <2>1, <2>2
<1> QED BY <1>9 DEF Names, IsModuleAt, IsAt

\* What an import resolves to is what it names in its language, but for those that are
\* taken for others.
LEMMA ResolveNames ==
  ASSUME NEW p, IsProject(p), NEW f \in DOMAIN p.imports, NEW i \in p.imports[f],
         NEW g \in Resolve(p, f, i)
  PROVE  IF Misread(p, f, i) THEN Leads(p, f, i, g) ELSE Names(p, f, i, g)
<1>1. f \in p.files /\ i.segs \in Paths /\ i.ups \in Nat /\ Dir(f) \in Paths
  BY ProjectIs, Parted DEF FilesOf, Dir
<1>2. CASE f.ext = "rs"
  <2>1. g \in ResolveRust(p, f, i)
    BY <1>2 DEF Resolve
  <2> QED BY <1>1, <1>2, <2>1, RustNames
<1>3. CASE f.ext = "py"
  <2>1. g \in ResolvePython(p, i) /\ ~Misread(p, f, i)
    BY <1>3 DEF Resolve, Misread
  <2> QED BY <1>1, <1>3, <2>1, PythonNames
<1>4. CASE f.ext = "go"
  <2>1. g \in ResolveGo(p, f, i)
    BY <1>4 DEF Resolve
  <2> QED BY <1>1, <1>4, <2>1, GoNames
<1>5. CASE f.ext \in {"ts", "tsx", "js", "jsx"}
  <2>1. g \in ResolveTypeScript(p, f, i) /\ ~Misread(p, f, i)
    BY <1>5 DEF Resolve, Misread
  <2> QED BY <1>1, <1>5, <2>1, TypeScriptNames
<1>6. f.ext \in {"rs", "py", "go", "ts", "tsx", "js", "jsx"}
  BY DEF Resolve
<1> QED BY <1>2, <1>3, <1>4, <1>5, <1>6

\* Every edge of imports, of which the daemon's and the command line's searches and
\* the tools of the MCP server follow a good part, leads to the file that the import
\* names in its language, for every project, or to the module around it, below it or
\* beside it where the resolvers take the import for another one (resolve/rust.rs,
\* python.rs, typescript.rs and go.rs).
THEOREM EdgesStayImports == (Spec => []EdgesAreImports) /\ (ToolsSpec => []EdgesAreImports)
<1>1. SearcherIs => EdgesAreImports
  <2> SUFFICES ASSUME SearcherIs, NEW e \in Edges
               PROVE  \E i \in project.imports[e[1]] :
                         IF Misread(project, e[1], i)
                         THEN Leads(project, e[1], i, e[2])
                         ELSE Names(project, e[1], i, e[2])
    BY DEF EdgesAreImports
  <2>1. IsProject(project) /\ Edges \in EdgeSets(project)
    BY SearchAssumption DEF SearcherIs, Edges
  <2>2. /\ e[1] \in DOMAIN project.imports
        /\ \E i \in project.imports[e[1]] : e[2] \in Resolve(project, e[1], i)
    BY <2>1, EdgesResolve
  <2>3. PICK i \in project.imports[e[1]] : e[2] \in Resolve(project, e[1], i)
    BY <2>2
  <2> QED BY <2>1, <2>2, <2>3, ResolveNames
<1>2. Init => SearcherIs
  BY InitSearcher
<1>3. SearcherIs /\ searcher' = searcher => SearcherIs'
  BY DEF SearcherIs, project, graph, Files, Edges
<1>4. [Next]_vars => searcher' = searcher
  BY SearchStays
<1>5. [ToolsNext]_toolVars => searcher' = searcher
  BY ToolsStays
<1>6. Spec => []SearcherIs
  BY <1>2, <1>3, <1>4, PTL DEF Spec
<1>7. ToolsSpec => []SearcherIs
  <2>1. ToolsInit => SearcherIs
    BY <1>2 DEF ToolsInit
  <2> QED BY <1>3, <1>5, <2>1, PTL DEF ToolsSpec
<1> QED BY <1>1, <1>6, <1>7, PTL

-----------------------------------------------------------------------------
(* The tables of symbols and calls                                          *)

LEMMA ImageFinite ==
  ASSUME NEW S, IsFiniteSet(S), NEW F
  PROVE  IsFiniteSet({F[x] : x \in S})
<1> DEFINE T == {F[x] : x \in S}
           f == [x \in S |-> F[x]]
<1>1. f \in Surjection(S, T)
  BY DEF Surjection
<1> QED BY <1>1, FS_Surjection

\* Rows of a table are listed by their files and lines, and none is left out.
LEMMA RowsListed ==
  ASSUME NEW rows, IsFiniteSet(rows), NEW order, NEW F,
         \A row \in rows : row.file \in F /\ row.line \in Nat,
         \A f \in F : order[f] \in Nat
  PROVE  ToSet(ListRows(rows, order)) = rows
<1> DEFINE Ahead(x, y) == \/ order[x.file] < order[y.file]
                          \/ x.file = y.file /\ x.line < y.line
           before == {xy \in rows \X rows : Ahead(xy[1], xy[2])}
<1>1. Sortable(rows, before)
  <2> SUFFICES ASSUME NEW T \in SUBSET rows, T # {}
               PROVE  \E x \in T : \A y \in T : <<y, x>> \notin before
    BY DEF Sortable
  <2> DEFINE A == {order[x.file] : x \in T}
  <2>1. PICK m \in A : \A k \in A : m <= k
    <3>1. A \subseteq Nat /\ A # {}
      OBVIOUS
    <3> HIDE DEF A
    <3> QED BY <3>1, Least
  <2>2. PICK z \in T : order[z.file] = m
    BY <2>1
  <2> DEFINE B == {x.line : x \in {x \in T : x.file = z.file}}
  <2>3. PICK l \in B : \A k \in B : l <= k
    <3>1. B \subseteq Nat /\ B # {}
      OBVIOUS
    <3> HIDE DEF B
    <3> QED BY <3>1, Least
  <2>4. PICK x \in T : x.file = z.file /\ x.line = l
    BY <2>3
  <2>5. ASSUME NEW y \in T PROVE ~Ahead(y, x)
    <3>1. order[y.file] \in A /\ order[y.file] \in Nat /\ order[x.file] = m /\ m \in Nat
      BY <2>1, <2>2, <2>4
    <3>2. m <= order[y.file]
      BY <2>1, <3>1
    <3>3. y.file = x.file => l <= y.line
      BY <2>3, <2>4
    <3>4. y.line \in Nat /\ x.line \in Nat
      OBVIOUS
    <3> QED BY <2>4, <3>1, <3>2, <3>3, <3>4
  <2> HIDE DEF Ahead
  <2> QED BY <2>5
<1>2. ListRows(rows, order) = Sorted(rows, before)
  BY DEF ListRows
<1> HIDE DEF before
<1> QED BY <1>1, <1>2, SortedElements

LEMMA ExtractedAre ==
  ASSUME NEW p, HasCode(p), NEW f \in p.files
  PROVE  /\ IsFiniteSet(ExtractSymbols(p, f))
         /\ \A s \in ExtractSymbols(p, f) : s.file = f /\ s.line \in Nat
<1> DEFINE named == Named(p, f)
           defs == p.code[f].defs
           tag == [d \in named |-> [file |-> f, name |-> d.name, kind |-> d.kind,
                                    line |-> d.first, last |-> d.first]]
           node == [d \in named |-> [file |-> f, name |-> d.name, kind |-> NormalKind(d.kind),
                                     line |-> d.first, last |-> d.last]]
<1>1. IsFiniteSet(named) /\ \A d \in named : d.first \in Nat
  <2>1. defs \in Seq(ToSet(defs)) /\ \A d \in ToSet(defs) : d.first \in Nat
    BY DEF HasCode
  <2>2. IsFiniteSet(ToSet(defs))
    <3> HIDE DEF defs
    <3>1. Len(defs) \in Nat /\ ToSet(defs) = {defs[k] : k \in 1..Len(defs)}
      BY <2>1 DEF ToSet
    <3>2. IsFiniteSet(1..Len(defs))
      BY <3>1, FS_Interval
    <3> QED BY <3>1, <3>2, ImageFinite
  <2>3. named \subseteq ToSet(defs)
    BY DEF Named
  <2> QED BY <2>1, <2>2, <2>3, FS_Subset
<1>2. /\ \A d \in named : /\ tag[d].file = f /\ tag[d].line = d.first
                          /\ node[d].file = f /\ node[d].line = d.first
      /\ \/ ExtractSymbols(p, f) = {}
         \/ ExtractSymbols(p, f) = {tag[d] : d \in named}
         \/ ExtractSymbols(p, f) = {node[d] : d \in named}
  BY DEF ExtractSymbols
<1> HIDE DEF named, tag, node
<1>3. IsFiniteSet({tag[d] : d \in named}) /\ IsFiniteSet({node[d] : d \in named}) /\ IsFiniteSet({})
  BY <1>1, ImageFinite, FS_EmptySet
<1> QED BY <1>1, <1>2, <1>3

\* The rows of the table of symbols, after a batch
LEMMA SymbolsAre ==
  ASSUME NEW p, IsFiniteSet(p.files), HasCode(p), NEW k \in 0..Len(p.batches)
  PROVE  /\ IsFiniteSet(SymbolsAfter(p, k))
         /\ \A s \in SymbolsAfter(p, k) : s.file \in p.files /\ s.line \in Nat
         /\ \A s : s \in SymbolsAfter(p, k) <=>
               \E j \in 1..k : s.file \in p.batches[j] /\ s \in ExtractSymbols(p, s.file)
<1> DEFINE U == UNION {p.batches[j] : j \in 1..k}
           F == [f \in U |-> ExtractSymbols(p, f)]
<1>0. /\ Len(p.batches) \in Nat /\ k \in Nat
      /\ \A j \in 1..Len(p.batches) : p.batches[j] \in SUBSET p.files
  BY DEF HasCode
<1>1. U \subseteq p.files
  BY <1>0
<1>2. SymbolsAfter(p, k) = UNION {F[f] : f \in U}
  BY DEF SymbolsAfter
<1>3. \A f \in U : F[f] = ExtractSymbols(p, f)
  OBVIOUS
<1>4. \A f \in U : f \in p.files /\ \E j \in 1..k : f \in p.batches[j]
  BY <1>1
<1>5. \A j \in 1..k : \A f \in p.batches[j] : f \in U
  OBVIOUS
<1> HIDE DEF U, F
<1>6. IsFiniteSet(U)
  BY <1>1, FS_Subset
<1>7. IsFiniteSet({F[f] : f \in U})
  BY <1>6, ImageFinite
<1>8. \A T \in {F[f] : f \in U} : IsFiniteSet(T)
  BY <1>3, <1>4, ExtractedAre
<1>9. IsFiniteSet(SymbolsAfter(p, k))
  BY <1>2, <1>7, <1>8, FS_UNION
<1>10. ASSUME NEW s
       PROVE  s \in SymbolsAfter(p, k) <=>
                 \E j \in 1..k : s.file \in p.batches[j] /\ s \in ExtractSymbols(p, s.file)
  <2>1. ASSUME s \in SymbolsAfter(p, k)
        PROVE  \E j \in 1..k : s.file \in p.batches[j] /\ s \in ExtractSymbols(p, s.file)
    <3>1. PICK f \in U : s \in ExtractSymbols(p, f)
      BY <1>2, <1>3, <2>1
    <3>2. s.file = f
      BY <1>4, <3>1, ExtractedAre
    <3> QED BY <1>4, <3>1, <3>2
  <2>2. ASSUME NEW j \in 1..k, s.file \in p.batches[j], s \in ExtractSymbols(p, s.file)
        PROVE  s \in SymbolsAfter(p, k)
    BY <1>2, <1>3, <1>5, <2>2
  <2> QED BY <2>1, <2>2
<1>11. ASSUME NEW s \in SymbolsAfter(p, k) PROVE s.file \in p.files /\ s.line \in Nat
  <2>1. PICK j \in 1..k : s.file \in p.batches[j] /\ s \in ExtractSymbols(p, s.file)
    BY <1>10
  <2>2. s.file \in p.files
    BY <1>4, <1>5, <2>1
  <2> QED BY <2>1, <2>2, ExtractedAre
<1> QED BY <1>9, <1>10, <1>11

\* The calls of batch k, which sees these symbols
IsCall(p, edges, order, k, c) ==
    \E f \in p.batches[k] : c \in CallEdges(p, f, SymbolsAfter(p, k), edges, order)

LEMMA EdgesOfCalls ==
  ASSUME NEW p, HasCode(p), NEW f \in p.files, NEW seen, NEW edges, NEW order
  PROVE  /\ IsFiniteSet(CallEdges(p, f, seen, edges, order))
         /\ \A c \in CallEdges(p, f, seen, edges, order) : c.file = f /\ c.line \in Nat
<1> DEFINE sites == ExtractReferences(p, f)
           own == {s \in seen : s.file = f}
           Callee(c) == ResolveCall(c.name, f, own, ImportTargets(p, f, edges, c.name),
                                    {s \in seen : s.name = c.name}, order)
           F == [c \in sites |-> [file |-> f, caller |-> EnclosingSymbol(own, c.line),
                                  name |-> c.name, line |-> c.line, callee |-> Callee(c)]]
<1>1. CallEdges(p, f, seen, edges, order) = {F[c] : c \in sites}
  BY DEF CallEdges
<1> HIDE DEF Callee
<1>2. \A c \in sites : F[c].file = f /\ F[c].line = c.line
  OBVIOUS
<1>3. IsFiniteSet(sites) /\ \A c \in sites : c.line \in Nat
  <2>1. IsFiniteSet(p.code[f].calls) /\ \A c \in p.code[f].calls : c.line \in Nat
    BY DEF HasCode
  <2>2. sites \subseteq p.code[f].calls
    BY DEF ExtractReferences
  <2> QED BY <2>1, <2>2, FS_Subset
<1> HIDE DEF F, sites
<1>4. IsFiniteSet({F[c] : c \in sites})
  BY <1>3, ImageFinite
<1> QED BY <1>1, <1>2, <1>3, <1>4

LEMMA CallsAre ==
  ASSUME NEW p, IsFiniteSet(p.files), HasCode(p), NEW edges, NEW order
  PROVE  /\ IsFiniteSet(IndexedCalls(p, edges, order))
         /\ \A c \in IndexedCalls(p, edges, order) :
               /\ c.file \in p.files /\ c.line \in Nat
               /\ \E k \in DOMAIN p.batches : IsCall(p, edges, order, k, c)
<1> DEFINE K == DOMAIN p.batches
           known == [k \in K |-> SymbolsAfter(p, k)]
           Of(k, f) == CallEdges(p, f, known[k], edges, order)
           In(k) == UNION {Of(k, f) : f \in p.batches[k]}
           F == [k \in K |-> In(k)]
<1>0. IsFiniteSet(K) /\ \A k \in K : p.batches[k] \in SUBSET p.files
  <2>1. Len(p.batches) \in Nat /\ K = 1..Len(p.batches) /\ \A k \in K : p.batches[k] \in SUBSET p.files
    BY DEF HasCode
  <2> DEFINE n == Len(p.batches)
  <2>2. n \in Nat /\ K = 1..n
    BY <2>1
  <2> HIDE DEF K, n
  <2>3. IsFiniteSet(1..n)
    BY <2>2, FS_Interval
  <2> QED BY <2>1, <2>2, <2>3
<1>1. IndexedCalls(p, edges, order) = UNION {F[k] : k \in K}
  <2>1. IndexedCalls(p, edges, order) = UNION {In(k) : k \in K}
    BY DEF IndexedCalls
  <2> HIDE DEF In, K
  <2> QED BY <2>1
<1>2. \A k \in K : known[k] = SymbolsAfter(p, k)
  OBVIOUS
<1> HIDE DEF known, K
<1>3. ASSUME NEW k \in K
      PROVE  /\ IsFiniteSet(In(k))
             /\ \A c \in In(k) : \E f \in p.batches[k] : c \in Of(k, f)
  <2> DEFINE G == [f \in p.batches[k] |-> Of(k, f)]
  <2>1. In(k) = UNION {G[f] : f \in p.batches[k]}
    <3> HIDE DEF Of
    <3> QED OBVIOUS
  <2>2. \A f \in p.batches[k] : G[f] = Of(k, f) /\ IsFiniteSet(Of(k, f))
    <3>1. \A f \in p.batches[k] : IsFiniteSet(Of(k, f))
      BY <1>0, EdgesOfCalls
    <3> HIDE DEF Of
    <3> QED BY <3>1
  <2> HIDE DEF G, Of, In
  <2>3. IsFiniteSet(p.batches[k])
    BY <1>0, FS_Subset
  <2>4. IsFiniteSet({G[f] : f \in p.batches[k]})
    BY <2>3, ImageFinite
  <2>5. IsFiniteSet(In(k))
    BY <2>1, <2>2, <2>4, FS_UNION
  <2> QED BY <2>1, <2>2, <2>5
<1>4. \A k \in K : F[k] = In(k) /\ IsFiniteSet(F[k])
  <2> HIDE DEF In
  <2> QED BY <1>3
<1> HIDE DEF F, In
<1>5. IsFiniteSet({F[k] : k \in K})
  BY <1>0, ImageFinite
<1>6. IsFiniteSet(IndexedCalls(p, edges, order))
  BY <1>1, <1>4, <1>5, FS_UNION
<1>7. ASSUME NEW c \in IndexedCalls(p, edges, order)
      PROVE  /\ c.file \in p.files /\ c.line \in Nat
             /\ \E k \in K : IsCall(p, edges, order, k, c)
  <2>1. PICK k \in K : c \in In(k)
    BY <1>1, <1>4
  <2>2. PICK f \in p.batches[k] : c \in CallEdges(p, f, known[k], edges, order)
    BY <1>3, <2>1
  <2>3. c \in CallEdges(p, f, SymbolsAfter(p, k), edges, order) /\ f \in p.files
    BY <1>0, <1>2, <2>2
  <2> QED BY <2>2, <2>3, EdgesOfCalls DEF IsCall
<1> QED BY <1>6, <1>7 DEF K

\* The first of files, as a query lists them
LEMMA FirstOfIs ==
  ASSUME NEW files, files # {}, NEW order, \A f \in files : order[f] \in Nat
  PROVE  FirstOf(files, order) \in files
<1> DEFINE A == {order[f] : f \in files}
<1>1. PICK m \in A : \A k \in A : m <= k
  <2>1. A \subseteq Nat /\ A # {}
    OBVIOUS
  <2> HIDE DEF A
  <2> QED BY <2>1, Least
<1>2. PICK f \in files : order[f] = m
  BY <1>1
<1>3. \A g \in files : order[f] <= order[g]
  BY <1>1, <1>2
<1> QED BY <1>3 DEF FirstOf

\* Where a call of a batch leads: to a row of the definitions, or to none
GoesTo(p, edges, order, k, c) ==
    LET rows == IndexedSymbols(p)
        defined == {s.file : s \in {s \in rows : s.name = c.name}}
    IN /\ c.name # NoName
       /\ \/ /\ c.callee.symbol = c.name /\ c.callee.file \in defined
             /\ c.file \in defined => c.callee.file = c.file
          \/ /\ c.callee.symbol = NoName
             /\ \/ <<c.file, c.callee.file>> \in edges
                \/ \A f \in defined : \A j \in DOMAIN p.batches : f \in p.batches[j] => j > k

LEMMA CallLeads ==
  ASSUME NEW p, IsFiniteSet(p.files), HasCode(p), NEW edges \in SUBSET (p.files \X p.files),
         NEW order, \A f \in p.files : order[f] \in Nat,
         NEW k \in DOMAIN p.batches, NEW c, IsCall(p, edges, order, k, c)
  PROVE  GoesTo(p, edges, order, k, c) /\ c.file \in p.batches[k]
<1> DEFINE N == Len(p.batches)
           rows == IndexedSymbols(p)
           seen == SymbolsAfter(p, k)
           defined == {s.file : s \in {s \in rows : s.name = c.name}}
<1>1. PICK f \in p.batches[k] : c \in CallEdges(p, f, seen, edges, order)
  BY DEF IsCall
<1> DEFINE own == {s \in seen : s.file = f}
           known == {s \in seen : s.name = c.name}
           targets == ImportTargets(p, f, edges, c.name)
<1>2. /\ c.file = f /\ c.name # NoName
      /\ c.callee = ResolveCall(c.name, f, own, targets, known, order)
  <2> DEFINE Callee(site) == ResolveCall(site.name, f, own, ImportTargets(p, f, edges, site.name),
                                         {s \in seen : s.name = site.name}, order)
             Caller(site) == EnclosingSymbol(own, site.line)
  <2>1. PICK site \in ExtractReferences(p, f) :
            c = [file |-> f, caller |-> Caller(site), name |-> site.name, line |-> site.line,
                 callee |-> Callee(site)]
    BY <1>1 DEF CallEdges
  <2> HIDE DEF Callee, Caller
  <2>2. c.file = f /\ c.name = site.name /\ c.callee = Callee(site)
    BY <2>1
  <2>3. site.name # NoName
    BY DEF ExtractReferences
  <2> QED BY <2>2, <2>3 DEF Callee
<1>3. k \in 0..N /\ k \in 1..N /\ N \in 0..N /\ f \in p.files /\ DOMAIN p.batches = 1..N
  BY DEF HasCode
<1>4. /\ \A s \in seen : s.file \in p.files
      /\ \A s : s \in seen <=>
            \E j \in 1..k : s.file \in p.batches[j] /\ s \in ExtractSymbols(p, s.file)
      /\ \A s : s \in rows <=>
            \E j \in 1..N : s.file \in p.batches[j] /\ s \in ExtractSymbols(p, s.file)
  <2>1. rows = SymbolsAfter(p, N)
    BY DEF IndexedSymbols
  <2> HIDE DEF N, rows, seen
  <2> QED BY <1>3, <2>1, SymbolsAre DEF seen
<1> HIDE DEF N, rows, seen
<1>5. \A s \in seen : s \in rows
  BY <1>3, <1>4
<1>6. \A s \in rows : s.file = f => s \in seen
  <2> SUFFICES ASSUME NEW s \in rows, s.file = f PROVE s \in seen
    OBVIOUS
  <2>1. s \in ExtractSymbols(p, s.file) /\ k \in 1..k
    BY <1>3, <1>4
  <2> QED BY <1>4, <2>1
<1>7. targets # {} => FirstOf(targets, order) \in targets /\ <<f, FirstOf(targets, order)>> \in edges
  <2>1. \A g \in targets : <<f, g>> \in edges /\ g \in p.files
    BY DEF ImportTargets
  <2> HIDE DEF targets
  <2> QED BY <2>1, FirstOfIs
<1>8. known # {} => FirstOf({s.file : s \in known}, order) \in {s.file : s \in known}
  <2> DEFINE files == {s.file : s \in known}
  <2>1. \A g \in files : g \in p.files
    BY <1>4
  <2>2. known # {} => files # {}
    OBVIOUS
  <2> HIDE DEF files, known
  <2>3. known # {} => FirstOf(files, order) \in files
    BY <2>1, <2>2, FirstOfIs
  <2> QED BY <2>3 DEF files
<1>9. \A s \in known : s.file \in defined
  BY <1>5
<1>10. f \in defined <=> \E s \in own : s.name = c.name
  BY <1>5, <1>6
<1> HIDE DEF targets
<1>11. CASE \E s \in own : s.name = c.name
  <2>1. c.callee.file = f /\ c.callee.symbol = c.name
    <3> HIDE DEF own, known
    <3> QED BY <1>2, <1>11 DEF ResolveCall
  <2> QED BY <1>1, <1>2, <1>10, <1>11, <2>1 DEF GoesTo, rows
<1>12. CASE ~(\E s \in own : s.name = c.name) /\ targets # {}
  <2> DEFINE g == FirstOf(targets, order)
  <2>1. /\ c.callee.file = g
        /\ c.callee.symbol = IF \E s \in known : s.file = g THEN c.name ELSE NoName
    <3> HIDE DEF own, known
    <3> QED BY <1>2, <1>12 DEF ResolveCall
  <2>2. <<f, g>> \in edges
    BY <1>7, <1>12
  <2> HIDE DEF g
  <2>3. CASE \E s \in known : s.file = g
    BY <1>1, <1>2, <1>9, <1>10, <1>12, <2>1, <2>3 DEF GoesTo, rows
  <2>4. CASE ~(\E s \in known : s.file = g)
    BY <1>1, <1>2, <2>1, <2>2, <2>4 DEF GoesTo, rows
  <2> QED BY <2>3, <2>4
<1>13. CASE ~(\E s \in own : s.name = c.name) /\ targets = {} /\ known # {}
  <2> DEFINE g == FirstOf({s.file : s \in known}, order)
  <2>1. c.callee.file = g /\ c.callee.symbol = c.name
    <3> HIDE DEF own, known
    <3> QED BY <1>2, <1>13 DEF ResolveCall
  <2>2. g \in defined
    BY <1>8, <1>9, <1>13
  <2> HIDE DEF g
  <2> QED BY <1>1, <1>2, <1>10, <1>13, <2>1, <2>2 DEF GoesTo, rows
<1>14. CASE ~(\E s \in own : s.name = c.name) /\ targets = {} /\ known = {}
  <2>1. c.callee.symbol = NoName
    <3> HIDE DEF own, known
    <3> QED BY <1>2, <1>14 DEF ResolveCall
  <2>2. ASSUME NEW g \in defined, NEW j \in DOMAIN p.batches, g \in p.batches[j]
        PROVE  j > k
    <3>1. PICK s \in rows : s.name = c.name /\ s.file = g
      OBVIOUS
    <3>2. s \in ExtractSymbols(p, s.file)
      BY <1>4
    <3>3. s \notin seen
      BY <1>14, <3>1
    <3>4. j \notin 1..k
      BY <1>4, <2>2, <3>1, <3>2, <3>3
    <3> QED BY <1>3, <3>4
  <2> QED BY <1>1, <1>2, <2>1, <2>2 DEF GoesTo, rows
<1> QED BY <1>11, <1>12, <1>13, <1>14

LEMMA InitCalls == ToolsInit => CallsFindDefinitions
<1> SUFFICES ASSUME ToolsInit PROVE CallsFindDefinitions
  OBVIOUS
<1> DEFINE p == project
<1>1. SearcherIs
  BY InitSearcher DEF ToolsInit
<1>2. p \in Projects /\ IsFiniteSet(p.files) /\ HasCode(p) /\ Edges \in SUBSET (p.files \X p.files)
  <2>1. IsFiniteSet(p.files)
    BY <1>1, SearchAssumption, Zenon DEF IsProject, SearcherIs
  <2>2. HasCode(p)
    BY <1>1, ToolsAssumption DEF SearcherIs
  <2>3. Edges \in SUBSET (p.files \X p.files)
    <3>1. graph.nodes \in SUBSET p.files /\ EdgesOf(graph) \subseteq graph.nodes \X graph.nodes
      BY <1>1 DEF SearcherIs, Graph, Files
    <3> QED BY <3>1 DEF Edges
  <2> QED BY <1>1, <2>1, <2>2, <2>3 DEF SearcherIs
<1>3. PICK hashed \in Orders :
         /\ symbols = ListRows(IndexedSymbols(p), ByFile(hashed))
         /\ calls = ListRows(IndexedCalls(p, Edges, ByFile(hashed)), ByFile(hashed))
  <2>1. PICK hashed \in (IF front = "mcp" THEN Orders ELSE {CHOOSE order \in Orders : TRUE}) :
         /\ symbols = ListRows(IndexedSymbols(p), ByFile(hashed))
         /\ calls = ListRows(IndexedCalls(p, Edges, ByFile(hashed)), ByFile(hashed))
    BY DEF ToolsInit
  <2>2. (CHOOSE order \in Orders : TRUE) \in Orders
    BY ToolsAssumption
  <2>3. hashed \in Orders
    BY <2>2
  <2> QED BY <2>1, <2>3
<1> DEFINE order == ByFile(hashed)
           rows == IndexedSymbols(p)
           made == IndexedCalls(p, Edges, order)
<1>4. \A f \in p.files : order[f] \in Nat
  BY <1>2, ToolsAssumption DEF ByFile, Files
<1> HIDE DEF order, p
<1>5. ToSet(symbols) = rows
  <2>1. Len(p.batches) \in 0..Len(p.batches)
    BY <1>2 DEF HasCode
  <2>2. IsFiniteSet(rows) /\ \A s \in rows : s.file \in p.files /\ s.line \in Nat
    BY <1>2, <2>1, SymbolsAre DEF IndexedSymbols
  <2> HIDE DEF rows
  <2>3. ToSet(ListRows(rows, order)) = rows
    BY <1>4, <2>2, RowsListed
  <2> QED BY <1>3, <2>3 DEF order, rows
<1>6. /\ ToSet(calls) = made
      /\ \A c \in made : \E k \in DOMAIN p.batches : IsCall(p, Edges, order, k, c)
  <2>1. /\ IsFiniteSet(made)
        /\ \A c \in made :
              /\ c.file \in p.files /\ c.line \in Nat
              /\ \E k \in DOMAIN p.batches : IsCall(p, Edges, order, k, c)
    BY <1>2, CallsAre
  <2> HIDE DEF made
  <2>2. ToSet(ListRows(made, order)) = made
    BY <1>4, <2>1, RowsListed
  <2> QED BY <1>3, <2>1, <2>2 DEF order, made
<1> HIDE DEF made, rows
<1>7. ASSUME NEW c \in ToSet(calls)
      PROVE  IF c.callee.symbol # NoName
             THEN /\ c.callee.symbol = c.name /\ c.callee.file \in DefinedIn(c.name)
                  /\ c.file \in DefinedIn(c.name) => c.callee.file = c.file
             ELSE \/ <<c.file, c.callee.file>> \in Edges
                  \/ \A f \in DefinedIn(c.name) : Batch(f) > Batch(c.file)
  <2>1. PICK k \in DOMAIN p.batches : IsCall(p, Edges, order, k, c)
    BY <1>6
  <2>2. GoesTo(p, Edges, order, k, c) /\ c.file \in p.batches[k]
    BY <1>2, <1>4, <2>1, CallLeads
  <2> DEFINE defined == {s.file : s \in {s \in rows : s.name = c.name}}
  <2>3. defined = DefinedIn(c.name)
    BY <1>5 DEF DefinedIn
  <2>4. /\ c.name # NoName
        /\ \/ /\ c.callee.symbol = c.name /\ c.callee.file \in defined
              /\ c.file \in defined => c.callee.file = c.file
           \/ /\ c.callee.symbol = NoName
              /\ \/ <<c.file, c.callee.file>> \in Edges
                 \/ \A f \in defined : \A j \in DOMAIN p.batches : f \in p.batches[j] => j > k
    BY <2>2 DEF GoesTo, rows
  <2>5. Batch(c.file) = k
    <3>1. \A j \in DOMAIN p.batches : c.file \in p.batches[j] => j = k
      BY <1>2, <2>2 DEF HasCode
    <3> QED BY <2>2, <3>1 DEF Batch, p
  <2>6. \A f \in defined : Batch(f) \in DOMAIN p.batches /\ f \in p.batches[Batch(f)]
    <3> SUFFICES ASSUME NEW s \in rows
                 PROVE  Batch(s.file) \in DOMAIN p.batches /\ s.file \in p.batches[Batch(s.file)]
      OBVIOUS
    <3>1. Len(p.batches) \in 0..Len(p.batches) /\ DOMAIN p.batches = 1..Len(p.batches)
      BY <1>2 DEF HasCode
    <3>2. \E j \in DOMAIN p.batches : s.file \in p.batches[j]
      BY <1>2, <3>1, SymbolsAre DEF IndexedSymbols, rows
    <3> QED BY <3>2 DEF Batch, p
  <2> HIDE DEF defined
  <2> QED BY <2>3, <2>4, <2>5, <2>6
<1> QED BY <1>7 DEF CallsFindDefinitions

\* A call that the table of calls has leads to a definition of its name, the
\* caller's own one if it has one, and to none only where an import is named so or
\* the definitions are in files of later batches alone: for every project, and
\* however hash maps list files (resolve_call of symbols.rs, and the phases of a
\* batch in indexer.rs).
THEOREM CallsStayFound == ToolsSpec => []CallsFindDefinitions
<1>1. ToolsInit => CallsFindDefinitions
  BY InitCalls
<1>2. CallsFindDefinitions /\ [ToolsNext]_toolVars => CallsFindDefinitions'
  <2> SUFFICES ASSUME CallsFindDefinitions, [ToolsNext]_toolVars PROVE CallsFindDefinitions'
    OBVIOUS
  <2>1. searcher' = searcher /\ symbols' = symbols /\ calls' = calls
    BY ToolsStays DEF tables
  <2> QED BY <2>1 DEF CallsFindDefinitions, DefinedIn, Batch, project, Edges, graph
<1> QED BY <1>1, <1>2, PTL DEF ToolsSpec

-----------------------------------------------------------------------------
(* Hits and their order                                                     *)

\* A finite set can be sorted by whatever is an order.
LEMMA FiniteSortable ==
  ASSUME NEW S, IsFiniteSet(S), NEW before,
         \A x \in S : <<x, x>> \notin before,
         \A x, y, z \in S : (<<x, y>> \in before /\ <<y, z>> \in before) => <<x, z>> \in before
  PROVE  Sortable(S, before)
<1> SUFFICES ASSUME NEW T \in SUBSET S, T # {}
             PROVE  \E x \in T : \A y \in T : <<y, x>> \notin before
  BY DEF Sortable
<1> DEFINE Ahead(x) == {y \in T : <<y, x>> \in before}
           sizes == {Cardinality(Ahead(x)) : x \in T}
<1>1. \A x \in T : IsFiniteSet(Ahead(x)) /\ Cardinality(Ahead(x)) \in Nat
  <2> TAKE x \in T
  <2>1. IsFiniteSet(Ahead(x))
    BY FS_Subset
  <2> QED BY <2>1, FS_CardinalityType
<1>2. PICK m \in sizes : \A k \in sizes : m <= k
  <2>1. sizes \subseteq Nat /\ sizes # {}
    <3> HIDE DEF Ahead
    <3> QED BY <1>1
  <2> HIDE DEF sizes
  <2> QED BY <2>1, Least
<1>3. PICK x \in T : m = Cardinality(Ahead(x))
  BY DEF sizes
<1>4. ASSUME NEW y \in T, <<y, x>> \in before PROVE FALSE
  <2>1. Ahead(y) \subseteq Ahead(x) /\ y \in Ahead(x) /\ y \notin Ahead(y)
    BY <1>4
  <2>2. Cardinality(Ahead(y)) \in sizes
    OBVIOUS
  <2> HIDE DEF Ahead, sizes
  <2>3. Cardinality(Ahead(y)) # Cardinality(Ahead(x)) /\ Cardinality(Ahead(y)) <= Cardinality(Ahead(x))
    BY <1>1, <2>1, FS_Subset
  <2> QED BY <1>1, <1>2, <1>3, <2>2, <2>3
<1> QED BY <1>4

\* A finite set of integers that is not empty has a greatest element.
LEMMA Greatest ==
  ASSUME NEW S \in SUBSET Int, IsFiniteSet(S), S # {}
  PROVE  \E m \in S : \A k \in S : k <= m
<1> DEFINE before == {xy \in S \X S : xy[1] > xy[2]}
<1>1. /\ \A x \in S : <<x, x>> \notin before
      /\ \A x, y, z \in S : (<<x, y>> \in before /\ <<y, z>> \in before) => <<x, z>> \in before
      /\ \A x, y \in S : <<x, y>> \notin before => x <= y
  OBVIOUS
<1> HIDE DEF before
<1>2. Sortable(S, before)
  BY <1>1, FiniteSortable
<1>3. PICK m \in S : \A k \in S : <<k, m>> \notin before
  BY <1>2 DEF Sortable
<1> QED BY <1>1, <1>3

\* The places of a sequence, in another order
Order(N, at) == at \in [1..N -> 1..N] /\ \A i, j \in 1..N : at[i] = at[j] => i = j

\* A sequence of all places, each once, is an order of them.
LEMMA DistinctOrder ==
  ASSUME NEW N \in Nat, NEW at \in Seq(1..N), Distinct(at), Len(at) = N
  PROVE  Order(N, at)
BY DEF Order, Distinct

\* The sorted places are an order.
LEMMA SortedPlaces ==
  ASSUME NEW N \in Nat, NEW before, Sortable(1..N, before)
  PROVE  Order(N, Sorted(1..N, before))
<1> DEFINE at == Sorted(1..N, before)
<1>1. IsFiniteSet(1..N) /\ Cardinality(1..N) = N
  BY FS_Interval
<1>2. at \in Seq(1..N) /\ Distinct(at) /\ ToSet(at) = 1..N
  BY <1>1, SortedElements
<1> HIDE DEF at
<1>3. Len(at) = N
  BY <1>1, <1>2, DistinctSet
<1> QED BY <1>2, <1>3, DistinctOrder DEF at

\* sort_by puts the hits into another order.
LEMMA ByScoreIs ==
  ASSUME NEW V, NEW hits \in Seq(V), \A v \in V : v.score \in Int
  PROVE  \E at : /\ Order(Len(hits), at)
                 /\ ByScore(hits) = [k \in 1..Len(hits) |-> hits[at[k]]]
<1> DEFINE N == Len(hits)
           ahead == {ij \in (1..N) \X (1..N) :
                        \/ hits[ij[1]].score > hits[ij[2]].score
                        \/ hits[ij[1]].score = hits[ij[2]].score /\ ij[1] < ij[2]}
           at == Sorted(1..N, ahead)
<1>1. N \in Nat /\ DOMAIN hits = 1..N /\ \A k \in 1..N : k \in Nat /\ hits[k].score \in Int
  OBVIOUS
<1>2. ByScore(hits) = [k \in 1..N |-> hits[at[k]]]
  <2>1. DOMAIN hits = 1..N
    OBVIOUS
  <2> QED BY <2>1 DEF ByScore
<1> HIDE DEF N
<1>3. Sortable(1..N, ahead)
  <2>1. IsFiniteSet(1..N)
    BY <1>1, FS_Interval
  <2>2. \A i, j \in 1..N : <<i, j>> \in ahead <=>
            \/ hits[i].score > hits[j].score
            \/ hits[i].score = hits[j].score /\ i < j
    OBVIOUS
  <2> HIDE DEF ahead
  <2>3. \A i \in 1..N : <<i, i>> \notin ahead
    BY <1>1, <2>2
  <2>4. ASSUME NEW i \in 1..N, NEW j \in 1..N, NEW k \in 1..N,
               <<i, j>> \in ahead, <<j, k>> \in ahead
        PROVE  <<i, k>> \in ahead
    <3> DEFINE x == hits[i].score
               y == hits[j].score
               z == hits[k].score
    <3>1. /\ x \in Int /\ y \in Int /\ z \in Int /\ i \in Nat /\ j \in Nat /\ k \in Nat
          /\ x > y \/ (x = y /\ i < j)
          /\ y > z \/ (y = z /\ j < k)
          /\ <<i, k>> \in ahead <=> x > z \/ (x = z /\ i < k)
      BY <1>1, <2>2, <2>4
    <3> HIDE DEF x, y, z
    <3> QED BY <3>1
  <2>5. \A i, j, k \in 1..N : (<<i, j>> \in ahead /\ <<j, k>> \in ahead) => <<i, k>> \in ahead
    BY <2>4
  <2> QED BY <2>1, <2>3, <2>5, FiniteSortable
<1>4. Order(N, at)
  <2> HIDE DEF ahead
  <2> QED BY <1>1, <1>3, SortedPlaces
<1> HIDE DEF at
<1> QED BY <1>2, <1>4 DEF N

\* What a hash map lists are its keys, each once.
LEMMA ListedIs ==
  ASSUME NEW keys, IsFiniteSet(keys), NEW order, \A key \in keys : order[key] \in Nat
  PROVE  /\ Listed(keys, order) \in Seq(keys) /\ Distinct(Listed(keys, order))
         /\ ToSet(Listed(keys, order)) = keys
<1> DEFINE before == {xy \in keys \X keys : order[xy[1]] < order[xy[2]]}
<1>1. Listed(keys, order) = Sorted(keys, before)
  BY DEF Listed
<1>2. \A x, y \in keys : <<x, y>> \in before <=> order[x] < order[y]
  OBVIOUS
<1> HIDE DEF before
<1>3. Sortable(keys, before)
  <2>1. \A x \in keys : <<x, x>> \notin before
    BY <1>2
  <2>2. \A x, y, z \in keys : (<<x, y>> \in before /\ <<y, z>> \in before) => <<x, z>> \in before
    BY <1>2
  <2> QED BY <2>1, <2>2, FiniteSortable
<1> QED BY <1>1, <1>3, SortedElements

Whys == {"fts", "vector", "hybrid", "graph", "hnsw_proximity", "sparse"}
HitOf(K) == [key : K, why : Whys, score : Int]

\* Hits of a kind, for no row twice
Found(V, hits) == hits \in Seq(V) /\ KeyedOnce(hits)

\* Take keeps a beginning of the list.
LEMMA TakeIs ==
  ASSUME NEW V, NEW s \in Seq(V), NEW n \in Nat
  PROVE  /\ Take(s, n) \in Seq(V) /\ Len(Take(s, n)) <= Len(s)
         /\ \A k \in DOMAIN Take(s, n) : k \in DOMAIN s /\ Take(s, n)[k] = s[k]
<1> DEFINE m == IF n < Len(s) THEN n ELSE Len(s)
<1>1. m \in 0..Len(s) /\ Len(s) \in Nat /\ DOMAIN s = 1..Len(s)
  OBVIOUS
<1>2. Take(s, n) = SubSeq(s, 1, m)
  BY DEF Take
<1> HIDE DEF m
<1>3. /\ SubSeq(s, 1, m) \in Seq(V) /\ Len(SubSeq(s, 1, m)) = m /\ DOMAIN SubSeq(s, 1, m) = 1..m
      /\ \A k \in 1..m : SubSeq(s, 1, m)[k] = s[k]
  BY <1>1
<1> QED BY <1>1, <1>2, <1>3

\* The first of the hits are hits.
LEMMA TakeFound ==
  ASSUME NEW V, NEW hits, Found(V, hits), NEW n \in Nat
  PROVE  Found(V, Take(hits, n))
BY TakeIs DEF Found, KeyedOnce

\* Some of the hits are hits.
LEMMA OnlyFound ==
  ASSUME NEW V, NEW hits, Found(V, hits), NEW keep
  PROVE  Found(V, Only(hits, keep)) /\ ToSet(Only(hits, keep)) = ToSet(hits) \cap keep
<1> DEFINE o == Only(hits, keep)
<1>1. hits \in Seq(V) /\ Distinct(hits)
  BY DEF Found, KeyedOnce, Distinct
<1>2. o \in Seq(V) /\ ToSet(o) = ToSet(hits) \cap keep /\ Distinct(o)
  BY <1>1, OnlyElements
<1> HIDE DEF o
<1>3. \A k \in DOMAIN o : \E j \in DOMAIN hits : o[k] = hits[j]
  BY <1>2 DEF ToSet
<1>4. ASSUME NEW k \in DOMAIN o, NEW l \in DOMAIN o, o[k].key = o[l].key
      PROVE  k = l
  <2>1. o[k] = o[l]
    BY <1>3, <1>4 DEF Found, KeyedOnce
  <2> QED BY <1>2, <2>1 DEF Distinct
<1> QED BY <1>2, <1>4 DEF Found, KeyedOnce, o

\* Hits followed by others, for none of the same rows, are hits.
LEMMA JoinFound ==
  ASSUME NEW V, NEW s, Found(V, s), NEW t, Found(V, t), HitKeys(s) \cap HitKeys(t) = {}
  PROVE  Found(V, s \o t) /\ HitKeys(s \o t) = HitKeys(s) \cup HitKeys(t)
<1> DEFINE st == s \o t
<1>1. /\ Len(s) \in Nat /\ Len(t) \in Nat /\ DOMAIN s = 1..Len(s) /\ DOMAIN t = 1..Len(t)
      /\ s \in Seq(V) /\ t \in Seq(V) /\ st \in Seq(V)
      /\ DOMAIN st = 1..(Len(s) + Len(t))
      /\ \A k \in 1..Len(s) : k \in DOMAIN st /\ st[k] = s[k]
      /\ \A k \in 1..Len(t) : Len(s) + k \in DOMAIN st /\ st[Len(s) + k] = t[k]
  BY DEF Found
<1>2. \A k \in DOMAIN st :
         (k \in DOMAIN s /\ st[k] = s[k]) \/ (k - Len(s) \in DOMAIN t /\ st[k] = t[k - Len(s)])
  BY <1>1
<1> HIDE DEF st
<1>3. \A i \in DOMAIN s, j \in DOMAIN t : s[i].key # t[j].key
  BY DEF HitKeys
<1>4. KeyedOnce(st)
  <2> SUFFICES ASSUME NEW i \in DOMAIN st, NEW j \in DOMAIN st, st[i].key = st[j].key
               PROVE  i = j
    BY DEF KeyedOnce
  <2>1. i \in Nat /\ j \in Nat
    BY <1>1
  <2>2. CASE i \in DOMAIN s /\ st[i] = s[i]
    BY <1>1, <1>2, <1>3, <2>1, <2>2 DEF Found, KeyedOnce
  <2>3. CASE i - Len(s) \in DOMAIN t /\ st[i] = t[i - Len(s)]
    <3>1. ~(j \in DOMAIN s /\ st[j] = s[j])
      BY <1>3, <2>3
    <3>2. j - Len(s) \in DOMAIN t /\ st[j] = t[j - Len(s)]
      BY <1>2, <3>1
    <3>3. i - Len(s) = j - Len(s)
      BY <2>3, <3>2 DEF Found, KeyedOnce
    <3> QED BY <1>1, <2>1, <3>3
  <2> QED BY <1>2, <2>2, <2>3
<1>5. HitKeys(st) = HitKeys(s) \cup HitKeys(t)
  <2>1. HitKeys(st) \subseteq HitKeys(s) \cup HitKeys(t)
    BY <1>2 DEF HitKeys
  <2>2. HitKeys(s) \subseteq HitKeys(st)
    BY <1>1 DEF HitKeys
  <2>3. HitKeys(t) \subseteq HitKeys(st)
    BY <1>1 DEF HitKeys
  <2> QED BY <2>1, <2>2, <2>3
<1> QED BY <1>1, <1>4, <1>5 DEF Found, st

\* Hits in another order, which have other scores
Reorders(W, s, at, t) ==
    /\ Order(Len(s), at)
    /\ t \in [1..Len(s) -> W] /\ \A k \in 1..Len(s) : t[k].key = s[at[k]].key

\* Hits in another order are hits of the same rows.
LEMMA OrderFound ==
  ASSUME NEW V, NEW W, NEW s, Found(V, s), NEW at, NEW t, Reorders(W, s, at, t)
  PROVE  Found(W, t) /\ HitKeys(t) \subseteq HitKeys(s) /\ Len(t) = Len(s)
<1>1. Len(s) \in Nat /\ DOMAIN s = 1..Len(s)
  BY DEF Found
<1>2. /\ \A k \in 1..Len(s) : at[k] \in 1..Len(s) /\ t[k].key = s[at[k]].key
      /\ t \in [1..Len(s) -> W]
      /\ \A i, j \in 1..Len(s) : at[i] = at[j] => i = j
  BY DEF Order, Reorders
<1>3. t \in Seq(W) /\ Len(t) = Len(s) /\ DOMAIN t = 1..Len(s)
  BY <1>1, <1>2
<1>4. KeyedOnce(t)
  BY <1>1, <1>2, <1>3 DEF Found, KeyedOnce
<1>5. HitKeys(t) \subseteq HitKeys(s)
  BY <1>1, <1>2, <1>3 DEF HitKeys
<1> QED BY <1>3, <1>4, <1>5 DEF Found

LEMMA Unmoved ==
  ASSUME NEW N \in Nat
  PROVE  Order(N, [k \in 1..N |-> k])
BY DEF Order

\* Hits are still hits when they are sorted by their scores.
LEMMA ByScoreFound ==
  ASSUME NEW V, \A v \in V : v.score \in Int, NEW s, Found(V, s)
  PROVE  Found(V, ByScore(s)) /\ HitKeys(ByScore(s)) \subseteq HitKeys(s) /\ Len(ByScore(s)) = Len(s)
<1> DEFINE t == ByScore(s)
<1>1. PICK at : Order(Len(s), at) /\ t = [k \in 1..Len(s) |-> s[at[k]]]
  BY ByScoreIs DEF Found
<1> HIDE DEF t
<1>2. \A k \in 1..Len(s) : s[k] \in V /\ at[k] \in 1..Len(s)
  BY <1>1 DEF Found, Order
<1>3. Reorders(V, s, at, t)
  BY <1>1, <1>2 DEF Reorders
<1>4. Found(V, t) /\ HitKeys(t) \subseteq HitKeys(s) /\ Len(t) = Len(s)
  BY <1>3, OrderFound
<1> QED BY <1>4 DEF t

\* As many rows as hits
LEMMA CountFound ==
  ASSUME NEW V, NEW s, Found(V, s)
  PROVE  Cardinality(HitKeys(s)) = Len(s)
<1> DEFINE keys == [k \in 1..Len(s) |-> s[k].key]
<1>1. Len(s) \in Nat /\ DOMAIN s = 1..Len(s)
  BY DEF Found
<1>2. keys \in Seq(HitKeys(s)) /\ Len(keys) = Len(s) /\ DOMAIN keys = 1..Len(s)
  BY <1>1 DEF HitKeys
<1>3. Distinct(keys)
  BY <1>1, <1>2 DEF Found, KeyedOnce, Distinct
<1>4. ToSet(keys) = HitKeys(s)
  BY <1>1, <1>2 DEF ToSet, HitKeys
<1> HIDE DEF keys
<1> QED BY <1>2, <1>3, <1>4, DistinctSet

\* What a leg adds: rows that it lists, each once
Adds(V, keys, s) == s \in [DOMAIN keys -> V] /\ \A k \in DOMAIN keys : s[k].key = keys[k]

\* What a leg adds are hits of the rows that it lists.
LEMMA AddedFound ==
  ASSUME NEW V, NEW rows, NEW keys \in Seq(rows), Distinct(keys), NEW s, Adds(V, keys, s)
  PROVE  Found(V, s) /\ HitKeys(s) = ToSet(keys)
<1>1. Len(keys) \in Nat /\ DOMAIN keys = 1..Len(keys)
  OBVIOUS
<1>2. s \in Seq(V) /\ DOMAIN s = DOMAIN keys /\ \A k \in DOMAIN keys : s[k].key = keys[k]
  BY <1>1 DEF Adds
<1> QED BY <1>2 DEF Found, KeyedOnce, Distinct, HitKeys, ToSet

-----------------------------------------------------------------------------
(* The rows and the pairs of a project                                      *)

Pieces == [first : Nat, last : Nat, chars : Nat]

\* Merging small chunks leaves pieces of a file.
LEMMA Merged ==
  ASSUME NEW pieces \in Seq(Pieces)
  PROVE  /\ MergeBackward(pieces) \in Seq(Pieces)
         /\ MergeSmallChunks(pieces) \in Seq(Pieces)
<1> DEFINE Q == Seq(Pieces)
           N == Len(pieces)
           Turn(n, q) == IF Tiny(pieces[n]) /\ q # <<>>
                         THEN Append(Front(q), Joined(Last(q), pieces[n]))
                         ELSE Append(q, pieces[n])
           F == [n \in 1..N |-> [q \in Q |-> Turn(n, q)]]
           Runs(f) == f = [n \in 0..N |-> IF n = 0 THEN <<>> ELSE Turn(n, f[n - 1])]
           h == CHOOSE f : Runs(f)
<1>1. \A a, b \in Pieces : Joined(a, b) \in Pieces
  BY DEF Joined, Pieces
<1>2. N \in Nat /\ <<>> \in Q /\ \A n \in 1..N, q \in Q : Turn(n, q) \in Q
  <2>1. ASSUME NEW q \in Q, q # <<>> PROVE Front(q) \in Q /\ Last(q) \in Pieces
    <3>1. Len(q) \in Nat /\ Len(q) # 0 /\ q[Len(q)] \in Pieces
      BY <2>1
    <3> QED BY <3>1 DEF Front, Last
  <2>2. N \in Nat /\ \A n \in 1..N : pieces[n] \in Pieces
    OBVIOUS
  <2> QED BY <1>1, <2>1, <2>2
<1>3. MergeBackward(pieces) = h[N]
  BY DEF MergeBackward
<1> HIDE DEF N, Q, Turn
<1>4. \E f : Runs(f)
  <2>1. F \in [1..N -> [Q -> Q]]
    BY <1>2
  <2>2. PICK f : Computes(Q, <<>>, N, F, f)
    <3> HIDE DEF F, Runs, h
    <3> QED BY <1>2, <2>1, Loop
  <2>3. /\ f \in [0..N -> Q] /\ f[0] = <<>>
        /\ \A n \in 1..N : n - 1 \in 0..N /\ f[n - 1] \in Q /\ f[n] = F[n][f[n - 1]]
    <3> HIDE DEF F
    <3> QED BY <1>2, <2>2 DEF Computes
  <2>4. \A n \in 1..N : f[n] = Turn(n, f[n - 1])
    BY <2>3
  <2>5. Runs(f)
    BY <1>2, <2>3, <2>4
  <2> HIDE DEF Runs
  <2> QED BY <2>5
<1>5. Runs(h)
  <2> HIDE DEF Runs
  <2> QED BY <1>4
<1> HIDE DEF h
<1>6. h[0] = <<>> /\ \A n \in 1..N : h[n] = Turn(n, h[n - 1])
  BY <1>2, <1>5
<1>7. \A n \in 0..N : h[n] \in Q
  BY <1>2, <1>6, Typed
<1> DEFINE m == MergeBackward(pieces)
<1>8. m \in Q
  BY <1>2, <1>3, <1>7
<1> HIDE DEF m
<1>9. MergeSmallChunks(pieces) \in Q
  <2>1. CASE Len(pieces) > 1 /\ Len(m) > 1 /\ Tiny(Head(m))
    <3>1. MergeSmallChunks(pieces) = <<Joined(m[1], m[2])>> \o SubSeq(m, 3, Len(m))
      BY <2>1 DEF MergeSmallChunks, m
    <3>2. Len(m) \in Nat /\ m[1] \in Pieces /\ m[2] \in Pieces /\ SubSeq(m, 3, Len(m)) \in Q
      BY <1>8, <2>1 DEF Q
    <3>3. <<Joined(m[1], m[2])>> \in Q
      <4>1. Joined(m[1], m[2]) \in Pieces
        BY <1>1, <3>2
      <4> QED BY <4>1 DEF Q
    <3> QED BY <3>1, <3>2, <3>3 DEF Q
  <2>2. CASE ~(Len(pieces) > 1 /\ Len(m) > 1 /\ Tiny(Head(m)))
    BY <1>8, <2>2 DEF MergeSmallChunks, m
  <2> QED BY <2>1, <2>2
<1> QED BY <1>8, <1>9 DEF m, Q

\* An index has finitely many rows, of files of the project.
LEMMA RowsFinite ==
  ASSUME NEW p, IsProject(p)
  PROVE  IsFiniteSet(KeysIn(p)) /\ \A key \in KeysIn(p) : key.file \in p.files
<1>1. ASSUME NEW f \in p.files
      PROVE  IsFiniteSet(RowsOfFile(p, f)) /\ \A row \in RowsOfFile(p, f) : row.file = f
  <2> DEFINE merged == MergeSmallChunks(p.pieces[f])
             F == [k \in DOMAIN merged |->
                      [file |-> f, idx |-> k - 1, first |-> merged[k].first,
                       last |-> merged[k].last, chars |-> merged[k].chars]]
  <2>1. RowsOfFile(p, f) = {F[k] : k \in DOMAIN merged}
    BY DEF RowsOfFile
  <2>2. IsFiniteSet(DOMAIN merged)
    <3>1. Len(merged) \in Nat /\ DOMAIN merged = 1..Len(merged)
      BY Merged DEF IsProject, Pieces
    <3> QED BY <3>1, FS_Interval
  <2> HIDE DEF merged
  <2>3. \A k \in DOMAIN merged : F[k].file = f
    OBVIOUS
  <2> HIDE DEF F
  <2>4. IsFiniteSet({F[k] : k \in DOMAIN merged})
    BY <2>2, ImageFinite
  <2> QED BY <2>1, <2>3, <2>4
<1> DEFINE G == [f \in p.files |-> RowsOfFile(p, f)]
           all == {G[f] : f \in p.files}
<1>2. Rows(p) = UNION all
  BY DEF Rows
<1>3. IsFiniteSet(all)
  <2> HIDE DEF G
  <2>1. IsFiniteSet(p.files)
    BY DEF IsProject
  <2> QED BY <2>1, ImageFinite
<1>4. \A S \in all : IsFiniteSet(S)
  BY <1>1
<1>5. IsFiniteSet(Rows(p))
  <2> HIDE DEF all
  <2> QED BY <1>2, <1>3, <1>4, FS_UNION
<1>6. \A row \in Rows(p) : row.file \in p.files
  BY <1>1 DEF Rows
<1> DEFINE H == [row \in Rows(p) |-> KeyOf(row)]
<1>7. KeysIn(p) = {H[row] : row \in Rows(p)} /\ \A row \in Rows(p) : H[row].file = row.file
  BY DEF KeysIn, KeyOf
<1> HIDE DEF H
<1>8. IsFiniteSet(KeysIn(p))
  BY <1>5, <1>7, ImageFinite
<1> QED BY <1>6, <1>7, <1>8

\* A commit has finitely many files.
LEMMA CommittedFinite ==
  ASSUME NEW commit, IsFiniteSet(DOMAIN commit)
  PROVE  IsFiniteSet(CommittedFiles(commit))
<1>1. PICK first \in SUBSET DOMAIN commit : CommittedFiles(commit) = {commit[k] : k \in first}
  BY DEF CommittedFiles
<1>2. IsFiniteSet(first)
  BY FS_Subset
<1> QED BY <1>1, <1>2, ImageFinite

\* A pair is in three commits of either file at least, and its share of these is a number.
LEMMA PairsAre ==
  ASSUME NEW p, IsProject(p)
  PROVE  IsFiniteSet(CochangePairs(p)) /\ \A c \in CochangePairs(p) : c[3] \in Int
<1> DEFINE D == DOMAIN p.commits
           G == [k \in D |-> CommittedFiles(p.commits[k])]
           of(files) == {k \in D : files \subseteq CommittedFiles(p.commits[k])}
           with(files) == Cardinality(of(files))
           changed == UNION {CommittedFiles(p.commits[k]) : k \in D}
           either(pair) == with({pair[1]}) + with({pair[2]}) - with({pair[1], pair[2]})
           pairs == {pair \in changed \X changed :
                         /\ pair[1] # pair[2]
                         /\ with({pair[1], pair[2]}) >= MinCommits
                         /\ 10 * with({pair[1], pair[2]}) >= either(pair)}
           F == [pair \in pairs |->
                    <<pair[1], pair[2], (100 * with({pair[1], pair[2]})) \div either(pair)>>]
<1>1. CochangePairs(p) = {F[pair] : pair \in pairs}
  <2>1. CochangePairs(p) =
            {<<pair[1], pair[2], (100 * with({pair[1], pair[2]})) \div either(pair)>> : pair \in pairs}
    BY DEF CochangePairs
  <2> HIDE DEF pairs, with, either
  <2>2. \A pair \in pairs :
            F[pair] = <<pair[1], pair[2], (100 * with({pair[1], pair[2]})) \div either(pair)>>
    OBVIOUS
  <2> HIDE DEF F
  <2> QED BY <2>1, <2>2
<1>2. IsFiniteSet(D) /\ \A k \in D : IsFiniteSet(G[k])
  BY CommittedFinite DEF IsProject
<1>3. IsFiniteSet(pairs)
  <2> DEFINE all == {G[k] : k \in D}
  <2>1. changed = UNION all
    OBVIOUS
  <2>2. \A S \in all : IsFiniteSet(S)
    BY <1>2
  <2> HIDE DEF G
  <2>3. IsFiniteSet(all)
    <3> HIDE DEF D
    <3> QED BY <1>2, ImageFinite
  <2> HIDE DEF all
  <2>4. IsFiniteSet(changed)
    <3> HIDE DEF changed
    <3> QED BY <2>1, <2>2, <2>3, FS_UNION
  <2> HIDE DEF changed, with, either
  <2>5. IsFiniteSet(changed \X changed)
    BY <2>4, FS_Product
  <2>6. pairs \subseteq changed \X changed
    OBVIOUS
  <2> HIDE DEF pairs
  <2> QED BY <2>5, <2>6, FS_Subset
<1>4. ASSUME NEW pair \in pairs
      PROVE  (100 * with({pair[1], pair[2]})) \div either(pair) \in Int
  <2> DEFINE a == of({pair[1]})
             b == of({pair[2]})
             both == of({pair[1], pair[2]})
  <2>1. both \subseteq a /\ both \subseteq b
    OBVIOUS
  <2>2. a \subseteq D /\ b \subseteq D
    OBVIOUS
  <2>3. Cardinality(both) >= 3
    BY DEF MinCommits
  <2>4. either(pair) = Cardinality(a) + Cardinality(b) - Cardinality(both)
    OBVIOUS
  <2> HIDE DEF a, b, both, either, D
  <2>5. IsFiniteSet(a) /\ IsFiniteSet(b)
    BY <1>2, <2>2, FS_Subset
  <2>6. /\ Cardinality(a) \in Nat /\ Cardinality(b) \in Nat /\ Cardinality(both) \in Nat
        /\ Cardinality(both) <= Cardinality(a) /\ Cardinality(both) <= Cardinality(b)
    BY <2>1, <2>5, FS_Subset, FS_CardinalityType
  <2>7. either(pair) \in Nat \ {0}
    BY <2>3, <2>4, <2>6
  <2>8. (100 * Cardinality(both)) \div either(pair) \in Int
    BY <2>6, <2>7
  <2> QED BY <2>8 DEF both
<1>5. \A pair \in pairs : F[pair][3] \in Int
  <2> HIDE DEF pairs, with, either
  <2> QED BY <1>4
<1> HIDE DEF F, pairs
<1>6. IsFiniteSet(CochangePairs(p))
  BY <1>1, <1>3, ImageFinite
<1> QED BY <1>1, <1>5, <1>6

-----------------------------------------------------------------------------
(* What the legs of a search find                                           *)

\* An index that is open, with numbers for its rows, and a request of a search
Open(s) ==
    /\ IsFiniteSet(Keys(s)) /\ IsFiniteSet(s.cochange) /\ \A c \in s.cochange : c[3] \in Int
    /\ \A key \in Keys(s) :
          /\ Weight[key.file] \in Nat
          /\ \A q \in Queries : q.sim[key] \in Int /\ q.verdict[key] \in Int
          /\ \A order \in Orders : order[key] \in Nat
          /\ \A other \in Keys(s) :
                Alike[<<key, other>>] \in Int /\ Distance[<<key, other>>] \in Nat

Hits(s, hits) == Found(HitOf(Keys(s)), hits)

LEMMA HitIs ==
  ASSUME NEW K, NEW h \in HitOf(K)
  PROVE  /\ h.key \in K /\ h.score \in Int /\ h.why \in Whys
         /\ \A x \in Int : [h EXCEPT !.score = x] \in HitOf(K) /\ [h EXCEPT !.score = x].key = h.key
         /\ \A w \in Whys : [h EXCEPT !.why = w] \in HitOf(K) /\ [h EXCEPT !.why = w].key = h.key
BY DEF HitOf

LEMMA NewHit ==
  ASSUME NEW K, NEW key \in K, NEW why \in Whys, NEW score \in Int
  PROVE  [key |-> key, why |-> why, score |-> score] \in HitOf(K)
BY DEF HitOf

LEMMA Percents ==
  ASSUME NEW x \in Int, NEW y \in Int
  PROVE  Percent(x, y) \in Int
BY DEF Percent

LEMMA NarrowFound ==
  ASSUME NEW V, NEW W, NEW s, Found(V, s), ToSet(s) \subseteq W
  PROVE  Found(W, s)
<1>1. s \in Seq(W)
  BY DEF Found, ToSet
<1> QED BY <1>1 DEF Found

\* The elements of a list are finitely many.
LEMMA ListFinite ==
  ASSUME NEW V, NEW s \in Seq(V)
  PROVE  IsFiniteSet(ToSet(s)) /\ ToSet(s) \subseteq V /\ s \in Seq(ToSet(s))
<1>1. Len(s) \in Nat /\ DOMAIN s = 1..Len(s) /\ ToSet(s) = {s[i] : i \in 1..Len(s)}
  BY DEF ToSet
<1>2. IsFiniteSet({s[i] : i \in 1..Len(s)})
  <2>1. IsFiniteSet(1..Len(s))
    BY <1>1, FS_Interval
  <2> QED BY <2>1, ImageFinite
<1>3. s \in Seq(ToSet(s))
  BY <1>1
<1> QED BY <1>1, <1>2, <1>3

LEMMA TakeElements ==
  ASSUME NEW V, NEW s \in Seq(V), NEW n \in Nat
  PROVE  Take(s, n) \in Seq(V) /\ ToSet(Take(s, n)) \subseteq ToSet(s)
BY TakeIs DEF ToSet

LEMMA PlaceIs ==
  ASSUME NEW V, NEW ranking \in Seq(V), NEW key \in ToSet(ranking)
  PROVE  PlaceIn(ranking, key) \in Nat
<1>1. \E k \in DOMAIN ranking : ranking[k] = key
  BY DEF ToSet
<1> QED BY <1>1 DEF PlaceIn

\* Every row that either ranking has, once, with a score
LEMMA FuseFound ==
  ASSUME NEW V, NEW fts \in Seq(V), NEW vec \in Seq(V), NEW topK \in Nat, NEW order,
         \A key \in ToSet(fts) \cup ToSet(vec) : order[key] \in Nat
  PROVE  Found(HitOf(V), Fuse(fts, vec, topK, order))
<1> DEFINE rows == ToSet(fts) \cup ToSet(vec)
           keys == Listed(rows, order)
           why(key) == IF key \notin ToSet(fts) THEN "vector"
                       ELSE IF key \in ToSet(vec) THEN "hybrid" ELSE "fts"
           score(key) == Reciprocal(fts, key) + Reciprocal(vec, key)
           hits == [k \in DOMAIN keys |->
                       [key |-> keys[k], why |-> why(keys[k]), score |-> score(keys[k])]]
<1>1. IsFiniteSet(rows) /\ rows \subseteq V
  BY ListFinite, FS_Union
<1>2. keys \in Seq(rows) /\ Distinct(keys)
  BY <1>1, ListedIs
<1>3. \A key : why(key) \in Whys
  BY DEF Whys
<1>4. \A key : score(key) \in Int
  <2>1. ASSUME NEW key, NEW ranking \in Seq(V) PROVE Reciprocal(ranking, key) \in Int
    <3>1. CASE key \in ToSet(ranking)
      <4>1. PlaceIn(ranking, key) \in Nat
        BY <3>1, PlaceIs
      <4> QED BY <3>1, <4>1 DEF Reciprocal
    <3>2. CASE key \notin ToSet(ranking)
      BY <3>2 DEF Reciprocal
    <3> QED BY <3>1, <3>2
  <2> QED BY <2>1
<1>5. Fuse(fts, vec, topK, order) = Take(ByScore(hits), topK)
  BY DEF Fuse
<1> HIDE DEF keys, why, score
<1>6. \A k \in DOMAIN keys : keys[k] \in V
  BY <1>1, <1>2
<1> HIDE DEF rows
<1>7. Adds(HitOf(V), keys, hits)
  BY <1>3, <1>4, <1>6, NewHit DEF Adds
<1> HIDE DEF hits
<1>8. Found(HitOf(V), hits)
  BY <1>2, <1>7, AddedFound
<1>9. Found(HitOf(V), ByScore(hits))
  BY <1>8, ByScoreFound, HitIs
<1> QED BY <1>5, <1>9, TakeFound

\* The rows that hybrid_search finds are rows of the table, each once.
LEMMA HybridFound ==
  ASSUME NEW s, Open(s), NEW q \in Queries, NEW topK \in Nat, NEW order \in Orders
  PROVE  Hits(s, Hybrid(s, q, topK, order))
<1> DEFINE V == ToSet(q.fts) \cup Keys(s)
           fts == Take(RankedWithStale(s, q.fts), 3 * topK)
           vec == Take(Ranked(s, q.vec), 3 * topK)
           fused == Fuse(fts, vec, topK, order)
           kept == {h \in ToSet(fused) : h.key \in Keys(s)}
<1>0. /\ q.fts \in Seq(ToSet(q.fts)) /\ q.vec \in Seq(ToSet(q.vec))
      /\ \A key \in ToSet(q.fts) \cup ToSet(q.vec) : order[key] \in Nat
  BY SearchAssumption, Zenon DEF IsList
<1>01. 3 * topK \in Nat
  OBVIOUS
<1>1. fts \in Seq(ToSet(q.fts)) /\ ToSet(fts) \subseteq ToSet(q.fts)
  <2>1. RankedWithStale(s, q.fts) \in Seq(ToSet(q.fts))
    BY <1>0, OnlyElements DEF RankedWithStale
  <2>2. fts \in Seq(ToSet(q.fts))
    BY <1>01, <2>1, TakeElements
  <2> QED BY <2>2, ListFinite
<1>2. vec \in Seq(ToSet(q.vec)) /\ ToSet(vec) \subseteq ToSet(q.vec) \cap Keys(s)
  <2>1. Ranked(s, q.vec) \in Seq(ToSet(q.vec)) /\ ToSet(Ranked(s, q.vec)) \subseteq Keys(s)
    BY <1>0, OnlyElements DEF Ranked
  <2>2. vec \in Seq(ToSet(q.vec)) /\ ToSet(vec) \subseteq ToSet(Ranked(s, q.vec))
    BY <1>01, <2>1, TakeElements
  <2> QED BY <2>1, <2>2, ListFinite
<1> HIDE DEF fts, vec
<1>3. Found(HitOf(V), fused)
  <2>1. /\ fts \in Seq(ToSet(fts)) /\ ToSet(fts) \subseteq V
        /\ vec \in Seq(ToSet(vec)) /\ ToSet(vec) \subseteq V
    BY <1>1, <1>2, ListFinite
  <2>2. fts \in Seq(V) /\ vec \in Seq(V)
    <3> HIDE DEF V
    <3> QED BY <2>1
  <2>3. \A key \in ToSet(fts) \cup ToSet(vec) : order[key] \in Nat
    BY <1>0, <1>1, <1>2
  <2> HIDE DEF V
  <2> QED BY <2>2, <2>3, FuseFound
<1> HIDE DEF fused, V
<1>4. Found(HitOf(V), Only(fused, kept)) /\ ToSet(Only(fused, kept)) \subseteq kept
  <2> HIDE DEF kept
  <2>1. ToSet(Only(fused, kept)) = ToSet(fused) \cap kept
    BY <1>3, OnlyFound
  <2> QED BY <1>3, <2>1, OnlyFound
<1>5. kept \subseteq HitOf(Keys(s))
  <2>1. ToSet(fused) \subseteq HitOf(V)
    BY <1>3, ListFinite DEF Found
  <2> QED BY <2>1 DEF HitOf
<1>6. Hybrid(s, q, topK, order) = Only(fused, kept)
  BY DEF Hybrid, fused, fts, vec
<1> HIDE DEF kept
<1>7. Found(HitOf(Keys(s)), Only(fused, kept))
  BY <1>4, <1>5, NarrowFound
<1> QED BY <1>6, <1>7 DEF Hits

\* The same hits with other scores
Rescores(s, t) ==
    /\ \E V : t \in [DOMAIN s -> V]
    /\ \A k \in DOMAIN s : \E x \in Int : t[k] = [s[k] EXCEPT !.score = x]

\* Hits with other scores are hits of the same rows.
LEMMA RescoreFound ==
  ASSUME NEW K, NEW s, Found(HitOf(K), s), NEW t, Rescores(s, t)
  PROVE  Found(HitOf(K), t) /\ HitKeys(t) \subseteq HitKeys(s) /\ Len(t) = Len(s)
<1> DEFINE at == [k \in 1..Len(s) |-> k]
<1>1. Len(s) \in Nat /\ DOMAIN s = 1..Len(s) /\ \A k \in 1..Len(s) : s[k] \in HitOf(K)
  BY DEF Found
<1>2. ASSUME NEW k \in 1..Len(s)
      PROVE  t[k] \in HitOf(K) /\ t[k].key = s[k].key
  <2>1. PICK x \in Int : t[k] = [s[k] EXCEPT !.score = x]
    BY <1>1 DEF Rescores
  <2>2. s[k] \in HitOf(K)
    BY <1>1
  <2>3. [s[k] EXCEPT !.score = x] \in HitOf(K) /\ [s[k] EXCEPT !.score = x].key = s[k].key
    BY <2>2, HitIs
  <2> QED BY <2>1, <2>3
<1>3. t \in [1..Len(s) -> HitOf(K)]
  BY <1>1, <1>2 DEF Rescores
<1>4. Order(Len(s), at)
  BY <1>1, Unmoved
<1>5. \A k \in 1..Len(s) : at[k] = k
  OBVIOUS
<1> HIDE DEF at
<1>6. Reorders(HitOf(K), s, at, t)
  BY <1>2, <1>3, <1>4, <1>5 DEF Reorders
<1> QED BY <1>6, OrderFound

LEMMA NoneFound ==
  ASSUME NEW V
  PROVE  Found(V, <<>>) /\ HitKeys(<<>>) = {}
BY DEF Found, KeyedOnce, HitKeys

\* The rows that the neighbours add to hybrid_search are of files without a hit.
LEMMA UnifiedFound ==
  ASSUME NEW s, Open(s), NEW q \in Queries, NEW topK \in Nat, NEW wide, NEW order \in Orders
  PROVE  Hits(s, Unified(s, q, topK, wide, order))
<1> DEFINE V == HitOf(Keys(s))
           hybrid == Hybrid(s, q, topK, order)
           hits == [k \in DOMAIN hybrid |-> [hybrid[k] EXCEPT !.why = "hybrid"]]
           files == {e[1] : e \in Importers(s, hits)} \ HitFiles(hits)
           rows == UNION {KeysOfFile(s, f) : f \in files}
           found == Listed(rows, order)
           graphs == [k \in DOMAIN found |->
                         [key |-> found[k], why |-> "graph", score |-> Percent(hits[1].score, 30)]]
           more == IF wide /\ hits # <<>> THEN graphs ELSE <<>>
           all == hits \o more
           weighed == [k \in DOMAIN all |->
                          [all[k] EXCEPT !.score = Percent(@, Weight[all[k].key.file])]]
<1>1. Unified(s, q, topK, wide, order) = Take(ByScore(weighed), topK)
  BY DEF Unified
<1>2. Found(V, hybrid)
  BY HybridFound DEF Hits
<1> HIDE DEF hybrid
<1>3. Found(V, hits)
  <2> DEFINE at == [k \in 1..Len(hybrid) |-> k]
  <2>1. /\ Len(hybrid) \in Nat /\ DOMAIN hybrid = 1..Len(hybrid)
        /\ \A k \in 1..Len(hybrid) : hybrid[k] \in V
    BY <1>2 DEF Found
  <2>2. Order(Len(hybrid), at) /\ \A k \in 1..Len(hybrid) : at[k] = k
    BY <2>1, Unmoved
  <2>3. "hybrid" \in Whys
    BY DEF Whys
  <2> HIDE DEF at
  <2>4. \A k \in 1..Len(hybrid) :
            /\ [hybrid[k] EXCEPT !.why = "hybrid"] \in V
            /\ [hybrid[k] EXCEPT !.why = "hybrid"].key = hybrid[k].key
    BY <2>1, <2>3, HitIs
  <2> HIDE DEF V
  <2>5. Reorders(V, hybrid, at, hits)
    BY <2>1, <2>2, <2>4 DEF Reorders
  <2> HIDE DEF hits
  <2> QED BY <1>2, <2>5, OrderFound
<1> HIDE DEF hits
<1>4. rows \subseteq Keys(s) /\ rows \cap HitKeys(hits) = {}
  <2>1. \A key \in rows : key \in Keys(s) /\ key.file \notin HitFiles(hits)
    BY DEF KeysOfFile
  <2> HIDE DEF rows
  <2> QED BY <2>1 DEF HitKeys, HitFiles
<1> HIDE DEF rows
<1>5. found \in Seq(rows) /\ Distinct(found) /\ ToSet(found) = rows
  <2>1. IsFiniteSet(rows) /\ \A key \in rows : order[key] \in Nat
    BY <1>4, FS_Subset DEF Open
  <2> QED BY <2>1, ListedIs
<1> HIDE DEF found
<1>6. Found(V, more) /\ HitKeys(more) \cap HitKeys(hits) = {}
  <2>1. CASE wide /\ hits # <<>>
    <3>1. hits[1].score \in Int
      BY <1>3, <2>1, HitIs DEF Found
    <3>2. Percent(hits[1].score, 30) \in Int
      BY <3>1, Percents
    <3>3. \A k \in DOMAIN found : found[k] \in Keys(s)
      BY <1>4, <1>5
    <3>4. "graph" \in Whys
      BY DEF Whys
    <3>5. Adds(V, found, graphs)
      BY <3>2, <3>3, <3>4, NewHit DEF Adds
    <3> HIDE DEF graphs
    <3>6. Found(V, graphs) /\ HitKeys(graphs) = rows
      BY <1>5, <3>5, AddedFound
    <3> QED BY <1>4, <2>1, <3>6
  <2>2. CASE ~(wide /\ hits # <<>>)
    BY <2>2, NoneFound
  <2> QED BY <2>1, <2>2
<1> HIDE DEF more, V
<1>7. Found(V, all)
  BY <1>3, <1>6, JoinFound
<1> HIDE DEF all
<1>8. Found(V, weighed)
  <2>1. ASSUME NEW k \in DOMAIN all
        PROVE  all[k].score \in Int /\ Weight[all[k].key.file] \in Int
    <3>1. all[k] \in V
      BY <1>7 DEF Found
    <3> QED BY <3>1, HitIs DEF V, Open
  <2>2. \A k \in DOMAIN all : Percent(all[k].score, Weight[all[k].key.file]) \in Int
    BY <2>1, Percents
  <2>3. \A k \in DOMAIN all :
            weighed[k] = [all[k] EXCEPT !.score = Percent(all[k].score, Weight[all[k].key.file])]
    OBVIOUS
  <2>4. Rescores(all, weighed)
    <3>1. weighed \in [DOMAIN all -> {weighed[k] : k \in DOMAIN all}]
      OBVIOUS
    <3> HIDE DEF weighed
    <3> QED BY <2>2, <2>3, <3>1 DEF Rescores
  <2> HIDE DEF weighed
  <2> QED BY <1>7, <2>4, RescoreFound DEF V
<1> HIDE DEF weighed
<1>9. Found(V, ByScore(weighed))
  BY <1>8, HitIs, ByScoreFound DEF V
<1> QED BY <1>1, <1>9, TakeFound DEF Hits, V

\* What is retrieved, by either search, are rows of the index, each once.
LEMMA RetrievedFound ==
  ASSUME NEW s, Open(s), NEW r, IsRequest(r), NEW order \in Orders
  PROVE  Hits(s, Retrieved(s, r, order))
BY UnifiedFound, HybridFound DEF Retrieved, IsRequest

\* What a leg lists in an order of a hash map are the rows that it found, each once.
LEMMA LegLists ==
  ASSUME NEW s, Open(s), NEW order \in Orders, NEW rows \in SUBSET Keys(s)
  PROVE  /\ \A k \in DOMAIN Listed(rows, order) : Listed(rows, order)[k] \in rows
         /\ \A V, t : Adds(V, Listed(rows, order), t) => (Found(V, t) /\ HitKeys(t) = rows)
<1> DEFINE l == Listed(rows, order)
<1>1. l \in Seq(rows) /\ Distinct(l) /\ ToSet(l) = rows
  <2>1. IsFiniteSet(rows) /\ \A key \in rows : order[key] \in Nat
    BY FS_Subset DEF Open
  <2> QED BY <2>1, ListedIs
<1> HIDE DEF l
<1>2. \A k \in DOMAIN l : l[k] \in rows
  BY <1>1
<1>3. ASSUME NEW V, NEW t, Adds(V, l, t)
      PROVE  Found(V, t) /\ HitKeys(t) = rows
  BY <1>1, <1>3, AddedFound
<1> QED BY <1>2, <1>3 DEF l

LEMMA KeysFound ==
  ASSUME NEW K, NEW hits, Found(HitOf(K), hits)
  PROVE  /\ HitKeys(hits) \subseteq K
         /\ \A n \in Nat : HitKeys(Take(hits, n)) \subseteq HitKeys(hits)
         /\ \A k \in DOMAIN hits : hits[k] \in HitOf(K) /\ hits[k].key \in K /\ hits[k].score \in Int
<1>1. \A k \in DOMAIN hits : hits[k] \in HitOf(K)
  BY DEF Found
<1>2. \A k \in DOMAIN hits : hits[k].key \in K /\ hits[k].score \in Int
  BY <1>1, HitIs
<1>3. \A n \in Nat : HitKeys(Take(hits, n)) \subseteq HitKeys(hits)
  BY TakeIs DEF HitKeys, Found
<1> QED BY <1>1, <1>2, <1>3 DEF HitKeys

\* The best score is a number.
LEMMA BestIs ==
  ASSUME NEW K, NEW hits, Found(HitOf(K), hits)
  PROVE  BestScore(hits) \in Int
<1> DEFINE F == [k \in DOMAIN hits |-> hits[k].score]
           scores == {0} \cup {F[k] : k \in DOMAIN hits}
<1>1. BestScore(hits) = CHOOSE best \in scores : \A score \in scores : score <= best
  BY DEF BestScore
<1>2. scores \subseteq Int /\ scores # {}
  BY KeysFound
<1>3. IsFiniteSet(scores)
  <2>1. Len(hits) \in Nat /\ DOMAIN hits = 1..Len(hits)
    BY DEF Found
  <2>2. IsFiniteSet(DOMAIN hits)
    BY <2>1, FS_Interval
  <2> HIDE DEF F
  <2>3. IsFiniteSet({F[k] : k \in DOMAIN hits})
    BY <2>2, ImageFinite
  <2> QED BY <2>3, FS_Union, FS_Singleton
<1> HIDE DEF scores
<1>4. \E best \in scores : \A score \in scores : score <= best
  BY <1>2, <1>3, Greatest
<1> QED BY <1>1, <1>2, <1>4

\* The rows that the graph adds are in no other hit, and those that lie close are
\* of files that the graph does not reach.
LEMMA AugmentFound ==
  ASSUME NEW s, Open(s), NEW q \in Queries, NEW hits, Hits(s, hits), NEW order \in Orders,
         NEW neighbours
  PROVE  Hits(s, Augment(s, q, hits, order, neighbours))
<1> DEFINE V == HitOf(Keys(s))
           best == BestScore(hits)
           reached == Reached(s, hits)
           files == {fd[1] : fd \in reached}
           sim(key) == q.sim[key]
           fars == {key \in Unfound(Keys(s), hits) : key.file \in files /\ sim(key) >= 25}
           far == Listed(fars, order)
           hop(key) == HopDecay(DepthOf(reached, key.file))
           imported == [k \in DOMAIN far |->
                           [key |-> far[k], why |-> "graph",
                            score |-> Percent(Percent(best, sim(far[k])), hop(far[k]))]]
           seeds == HitKeys(Take(hits, 10))
           dist(key) == LET ds == {Distance[<<key, seed>>] : seed \in seeds \ {key}}
                        IN CHOOSE d \in ds : \A e \in ds : d <= e
           closes == {key \in Unfound(Keys(s), hits) :
                         /\ key.file \notin files /\ sim(key) >= 25
                         /\ seeds \ {key} # {} /\ dist(key) <= 30}
           close == Listed(closes, order)
           near == [k \in DOMAIN close |->
                       [key |-> close[k], why |-> "hnsw_proximity",
                        score |-> Percent(Percent(best, 40), 100 - dist(close[k]))]]
           beside == IF neighbours THEN near ELSE <<>>
           added == imported \o beside
           few == IF Len(added) > 30 THEN Take(ByScore(added), 30) ELSE added
<1>1. Augment(s, q, hits, order, neighbours) = hits \o few
  BY DEF Augment
<1>2. Found(V, hits) /\ best \in Int
  BY BestIs DEF Hits
<1> HIDE DEF best
<1>3. /\ fars \in SUBSET Keys(s) /\ closes \in SUBSET Keys(s) /\ fars \cap closes = {}
      /\ (fars \cup closes) \cap HitKeys(hits) = {} /\ \A key \in closes : seeds \ {key} # {}
  BY DEF Unfound
<1>4. \A key \in Keys(s) : sim(key) \in Int
  BY DEF Open
<1>5. \A key : hop(key) \in Int
  BY DEF HopDecay
<1> HIDE DEF fars, closes
<1>6. ASSUME NEW key \in closes PROVE dist(key) \in Int
  <2> DEFINE ds == {Distance[<<key, seed>>] : seed \in seeds \ {key}}
  <2>1. seeds \subseteq Keys(s)
    BY <1>2, KeysFound
  <2> HIDE DEF seeds
  <2>2. ds \subseteq Nat /\ ds # {}
    BY <1>3, <2>1 DEF Open
  <2>3. dist(key) = CHOOSE d \in ds : \A e \in ds : d <= e
    OBVIOUS
  <2> HIDE DEF ds, dist
  <2>4. \E d \in ds : \A e \in ds : d <= e
    BY <2>2, Least
  <2>5. dist(key) \in ds
    BY <2>3, <2>4
  <2>6. \A d \in ds : d \in Int
    BY <2>2
  <2> HIDE DEF ds
  <2> QED BY <2>5, <2>6
<1> HIDE DEF reached, files, sim, hop, seeds, dist
<1>7. Found(V, imported) /\ HitKeys(imported) = fars
  <2>1. \A k \in DOMAIN far : far[k] \in fars
    BY <1>3, LegLists
  <2>2. "graph" \in Whys
    BY DEF Whys
  <2>3. \A k \in DOMAIN far : Percent(Percent(best, sim(far[k])), hop(far[k])) \in Int
    BY <1>2, <1>3, <1>4, <1>5, <2>1, Percents
  <2>4. Adds(V, far, imported)
    <3> HIDE DEF far
    <3> QED BY <1>3, <2>1, <2>2, <2>3, NewHit DEF Adds
  <2> HIDE DEF imported
  <2> QED BY <1>3, <2>4, LegLists
<1>8. Found(V, near) /\ HitKeys(near) = closes
  <2>1. \A k \in DOMAIN close : close[k] \in closes
    BY <1>3, LegLists
  <2>2. "hnsw_proximity" \in Whys
    BY DEF Whys
  <2>3. \A k \in DOMAIN close : Percent(Percent(best, 40), 100 - dist(close[k])) \in Int
    <3> TAKE k \in DOMAIN close
    <3>1. 100 - dist(close[k]) \in Int /\ Percent(best, 40) \in Int
      BY <1>2, <1>6, <2>1, Percents
    <3> QED BY <3>1, Percents
  <2>4. Adds(V, close, near)
    <3> HIDE DEF close
    <3> QED BY <1>3, <2>1, <2>2, <2>3, NewHit DEF Adds
  <2> HIDE DEF near
  <2> QED BY <1>3, <2>4, LegLists
<1> HIDE DEF imported, near, V
<1>9. Found(V, beside) /\ HitKeys(beside) \subseteq closes
  BY <1>8, NoneFound
<1> HIDE DEF beside
<1>10. Found(V, added) /\ HitKeys(added) \subseteq fars \cup closes
  BY <1>3, <1>7, <1>9, JoinFound
<1> HIDE DEF added
<1>11. Found(V, few) /\ HitKeys(few) \subseteq fars \cup closes
  <2>1. Found(V, ByScore(added)) /\ HitKeys(ByScore(added)) \subseteq HitKeys(added)
    BY <1>10, HitIs, ByScoreFound DEF V
  <2>2. /\ Found(V, Take(ByScore(added), 30))
        /\ HitKeys(Take(ByScore(added), 30)) \subseteq HitKeys(ByScore(added))
    BY <2>1, TakeFound, KeysFound DEF V
  <2> QED BY <1>10, <2>1, <2>2
<1> HIDE DEF few
<1>12. HitKeys(hits) \cap HitKeys(few) = {}
  BY <1>3, <1>11
<1> QED BY <1>1, <1>2, <1>11, <1>12, JoinFound DEF Hits, V

LEMMA RescoresFound ==
  ASSUME NEW s, NEW hits, Hits(s, hits), NEW t, Rescores(hits, t)
  PROVE  Hits(s, ByScore(t))
<1>1. Found(HitOf(Keys(s)), t)
  BY RescoreFound DEF Hits
<1> QED BY <1>1, HitIs, ByScoreFound DEF Hits

\* The rows that the sparse leg adds are among no other hits.
LEMMA SparsedFound ==
  ASSUME NEW s, Open(s), NEW q \in Queries, NEW hits, Hits(s, hits), NEW order \in Orders, NEW rows
  PROVE  Hits(s, Sparsed(s, q, hits, order, rows))
<1> DEFINE V == HitOf(Keys(s))
           ranking == Ranked(s, q.sparse)
           unfound == Unfound(ToSet(ranking), hits)
           missing == Listed(unfound, order)
           alone == [k \in DOMAIN missing |-> [key |-> missing[k], why |-> "sparse", score |-> 0]]
           more == IF rows THEN alone ELSE <<>>
           all == hits \o more
           rank(key) == IF key \in ToSet(ranking) THEN PlaceIn(ranking, key) ELSE 1000
           score(k) == (10000 * (100 - 20)) \div (60 + k) + (10000 * 20) \div (60 + rank(all[k].key))
           t == [k \in DOMAIN all |-> [all[k] EXCEPT !.score = score(k)]]
<1>1. Sparsed(s, q, hits, order, rows) = IF ranking = <<>> THEN hits ELSE ByScore(t)
  BY DEF Sparsed, Rescore
<1>2. ranking \in Seq(ToSet(q.sparse)) /\ ToSet(ranking) \subseteq Keys(s)
  <2>1. q.sparse \in Seq(ToSet(q.sparse))
    BY SearchAssumption, Zenon DEF IsList
  <2> QED BY <2>1, OnlyElements DEF Ranked
<1> HIDE DEF ranking
<1>3. unfound \in SUBSET Keys(s) /\ unfound \cap HitKeys(hits) = {}
  BY <1>2 DEF Unfound
<1> HIDE DEF unfound
<1>4. Found(V, alone) /\ HitKeys(alone) = unfound
  <2>1. \A k \in DOMAIN missing : missing[k] \in Keys(s)
    BY <1>3, LegLists
  <2>2. "sparse" \in Whys
    BY DEF Whys
  <2>3. Adds(V, missing, alone)
    <3> HIDE DEF missing
    <3> QED BY <2>1, <2>2, NewHit DEF Adds
  <2> HIDE DEF alone
  <2> QED BY <1>3, <2>3, LegLists
<1> HIDE DEF alone
<1>5. Found(V, more) /\ HitKeys(more) \subseteq unfound
  BY <1>4, NoneFound
<1> HIDE DEF more, V
<1>6. HitKeys(hits) \cap HitKeys(more) = {} /\ Found(V, hits)
  BY <1>3, <1>5 DEF Hits, V
<1>7. Found(V, all)
  BY <1>5, <1>6, JoinFound
<1> HIDE DEF all
<1>8. \A key : rank(key) \in Nat
  BY <1>2, PlaceIs
<1> HIDE DEF rank
<1>9. \A k \in DOMAIN all : score(k) \in Int
  <2> TAKE k \in DOMAIN all
  <2>1. k \in Nat
    BY <1>7 DEF Found
  <2>2. 60 + k \in Nat \ {0} /\ 60 + rank(all[k].key) \in Nat \ {0}
    BY <1>8, <2>1
  <2> QED BY <2>2
<1> HIDE DEF score
<1>10. Rescores(all, t)
  <2>1. \A k \in DOMAIN all : t[k] = [all[k] EXCEPT !.score = score(k)]
    OBVIOUS
  <2>2. t \in [DOMAIN all -> {t[k] : k \in DOMAIN all}]
    OBVIOUS
  <2> HIDE DEF t
  <2> QED BY <1>9, <2>1, <2>2 DEF Rescores
<1> HIDE DEF t
<1>11. Hits(s, ByScore(t))
  BY <1>7, <1>10, RescoresFound DEF Hits, V
<1> QED BY <1>1, <1>11

\* The boost of co-change leaves the rows as they are.
LEMMA CochangeFound ==
  ASSUME NEW s, Open(s), NEW hits, Hits(s, hits)
  PROVE  Hits(s, CochangeBoost(s, hits))
<1> DEFINE t == [k \in DOMAIN hits |-> [hits[k] EXCEPT !.score = @ + Uplift(s, hits, hits[k].key.file)]]
<1>1. ASSUME NEW f PROVE Uplift(s, hits, f) \in Int
  <2> DEFINE near == {c \in CochangeNeighbours(s, TopFiles(hits)) : c[2] = f}
             F == [c \in near |-> c[3] * 1000]
             ups == {F[c] : c \in near}
  <2>1. Uplift(s, hits, f) = IF ups = {} THEN 0 ELSE CHOOSE u \in ups : \A v \in ups : v <= u
    <3>1. ups = {c[3] * 1000 : c \in near}
      <4> HIDE DEF near
      <4> QED OBVIOUS
    <3> HIDE DEF ups
    <3> QED BY <3>1 DEF Uplift
  <2>2. near \subseteq s.cochange
    BY DEF CochangeNeighbours
  <2> HIDE DEF near
  <2>3. ups \subseteq Int
    BY <2>2 DEF Open
  <2>4. IsFiniteSet(ups)
    <3>1. IsFiniteSet(near)
      BY <2>2, FS_Subset DEF Open
    <3> HIDE DEF F
    <3> QED BY <3>1, ImageFinite
  <2> HIDE DEF ups
  <2>5. ups # {} => \E u \in ups : \A v \in ups : v <= u
    BY <2>3, <2>4, Greatest
  <2>6. CASE ups = {}
    BY <2>1, <2>6
  <2>7. CASE ups # {}
    <3>1. Uplift(s, hits, f) \in ups
      BY <2>1, <2>5, <2>7
    <3> QED BY <2>3, <3>1
  <2> QED BY <2>6, <2>7
<1>2. \A k \in DOMAIN hits : hits[k].score + Uplift(s, hits, hits[k].key.file) \in Int
  BY <1>1, KeysFound DEF Hits
<1>3. Rescores(hits, t)
  <2>1. \A k \in DOMAIN hits :
            t[k] = [hits[k] EXCEPT !.score = hits[k].score + Uplift(s, hits, hits[k].key.file)]
    OBVIOUS
  <2>2. t \in [DOMAIN hits -> {t[k] : k \in DOMAIN hits}]
    OBVIOUS
  <2> HIDE DEF t
  <2> QED BY <1>2, <2>1, <2>2 DEF Rescores
<1>4. CochangeBoost(s, hits) \in {hits, ByScore(t)}
  BY DEF CochangeBoost
<1> HIDE DEF t
<1> QED BY <1>3, <1>4, RescoresFound

\* MMR gives a number to every hit, whatever it has selected before.
LEMMA MmrScoreIs ==
  ASSUME NEW s, Open(s), NEW r, IsRequest(r), NEW hits, Hits(s, hits),
         NEW i \in DOMAIN hits, NEW selected \in Seq(DOMAIN hits)
  PROVE  MmrScore(r, hits, i, selected) \in Int
<1> DEFINE chosen == ToSet(selected)
           F == [k \in chosen |-> Alike[<<hits[i].key, hits[k].key>>]]
           reds == {F[k] : k \in chosen}
           redundancy == IF reds = {} THEN 0 ELSE CHOOSE x \in reds : \A y \in reds : y <= x
<1>1. MmrScore(r, hits, i, selected)
          = (100 - r.diversity) * r.query.sim[hits[i].key] - r.diversity * redundancy
  <2>1. reds = {Alike[<<hits[i].key, hits[k].key>>] : k \in ToSet(selected)}
    <3> HIDE DEF chosen
    <3>1. reds = {Alike[<<hits[i].key, hits[k].key>>] : k \in chosen}
      OBVIOUS
    <3> QED BY <3>1 DEF chosen
  <2> HIDE DEF reds
  <2> QED BY <2>1 DEF MmrScore
<1>2. IsFiniteSet(chosen) /\ chosen \subseteq DOMAIN hits
  BY ListFinite
<1> HIDE DEF chosen
<1>3. \A k \in DOMAIN hits : hits[k].key \in Keys(s)
  BY KeysFound DEF Hits
<1>4. reds \subseteq Int
  BY <1>2, <1>3 DEF Open
<1>5. IsFiniteSet(reds)
  <2> HIDE DEF F
  <2> QED BY <1>2, ImageFinite
<1> HIDE DEF reds
<1>6. redundancy \in Int
  <2>1. CASE reds # {}
    <3>1. \E x \in reds : \A y \in reds : y <= x
      BY <1>4, <1>5, <2>1, Greatest
    <3>2. redundancy \in reds
      BY <2>1, <3>1
    <3> QED BY <1>4, <3>2
  <2> QED BY <2>1
<1> HIDE DEF redundancy
<1>7. r.diversity \in Int /\ r.query.sim[hits[i].key] \in Int
  BY <1>3 DEF Open, IsRequest
<1> QED BY <1>1, <1>6, <1>7

\* Of the places that are left, one is the best, or the last of the best.
LEMMA BestPlace ==
  ASSUME NEW S \in SUBSET Nat, IsFiniteSet(S), S # {}, NEW sc, \A i \in S : sc[i] \in Int
  PROVE  \E i \in S : \A j \in S : sc[i] > sc[j] \/ (sc[i] = sc[j] /\ i >= j)
<1> DEFINE before == {ji \in S \X S : sc[ji[1]] > sc[ji[2]] \/ (sc[ji[1]] = sc[ji[2]] /\ ji[1] > ji[2])}
<1>1. \A i, j \in S : <<j, i>> \in before <=> sc[j] > sc[i] \/ (sc[j] = sc[i] /\ j > i)
  OBVIOUS
<1> HIDE DEF before
<1>2. Sortable(S, before)
  <2>1. \A i \in S : <<i, i>> \notin before
    BY <1>1
  <2>2. \A i, j, k \in S : (<<i, j>> \in before /\ <<j, k>> \in before) => <<i, k>> \in before
    BY <1>1
  <2> QED BY <2>1, <2>2, FiniteSortable
<1>3. PICK i \in S : \A j \in S : <<j, i>> \notin before
  BY <1>2 DEF Sortable
<1>4. \A j \in S : sc[i] > sc[j] \/ (sc[i] = sc[j] /\ i >= j)
  <2> TAKE j \in S
  <2>1. ~(sc[j] > sc[i] \/ (sc[j] = sc[i] /\ j > i))
    BY <1>1, <1>3
  <2>2. sc[i] \in Int /\ sc[j] \in Int /\ i \in Nat /\ j \in Nat
    OBVIOUS
  <2> QED BY <2>1, <2>2
<1> QED BY <1>4

\* Elements picked one after the other, until none is left
Picked(S) == {q \in Seq(S) : Distinct(q)}

\* As long as not every element is picked, one more can be.
LEMMA PickOne ==
  ASSUME NEW S, IsFiniteSet(S), NEW q \in Picked(S), Len(q) < Cardinality(S)
  PROVE  /\ S \ ToSet(q) # {}
         /\ \A x \in S \ ToSet(q) : Append(q, x) \in Picked(S) /\ Len(Append(q, x)) = Len(q) + 1
<1>1. q \in Seq(S) /\ Distinct(q) /\ Len(q) \in Nat /\ Cardinality(S) \in Nat
  BY FS_CardinalityType DEF Picked
<1>2. ToSet(q) \subseteq S /\ Cardinality(ToSet(q)) = Len(q)
  BY <1>1, DistinctSet, ListFinite
<1>3. ToSet(q) # S
  BY <1>1, <1>2
<1>4. \A x \in S \ ToSet(q) :
         /\ Append(q, x) \in Seq(S) /\ Distinct(Append(q, x))
         /\ Len(Append(q, x)) = Len(q) + 1
  BY <1>1, AppendElements
<1> QED BY <1>2, <1>3, <1>4 DEF Picked

Picks(S, next, f) ==
    /\ f \in [0..Cardinality(S) -> Picked(S)] /\ f[0] = <<>>
    /\ \A n \in 1..Cardinality(S) :
          f[n] = Append(f[n - 1], next[f[n - 1]]) /\ Len(f[n - 1]) < Cardinality(S)
    /\ Len(f[Cardinality(S)]) = Cardinality(S)

\* Picking what is not picked yet picks all in the end.
LEMMA PickAll ==
  ASSUME NEW S, IsFiniteSet(S), NEW next,
         \A q \in Picked(S) : Len(q) < Cardinality(S) => next[q] \in S \ ToSet(q)
  PROVE  \E f : Picks(S, next, f)
<1> DEFINE N == Cardinality(S)
           Q == Picked(S)
           Turned(q) == IF Len(q) < N THEN Append(q, next[q]) ELSE q
           F == [n \in 1..N |-> [q \in Q |-> Turned(q)]]
<1>1. N \in Nat /\ <<>> \in Q /\ Len(<<>>) = 0
  BY FS_CardinalityType DEF Picked, Distinct
<1>2. \A q \in Q : Turned(q) \in Q /\ (Len(q) < N => Len(Turned(q)) = Len(q) + 1)
  BY PickOne
<1>3. F \in [1..N -> [Q -> Q]]
  BY <1>2
<1> HIDE DEF N, Q
<1>4. PICK f : Computes(Q, <<>>, N, F, f)
  <2> HIDE DEF F
  <2> QED BY <1>1, <1>3, Loop
<1>5. /\ f \in [0..N -> Q] /\ f[0] = <<>>
      /\ \A n \in 1..N : n - 1 \in 0..N /\ f[n - 1] \in Q /\ f[n] = Turned(f[n - 1])
  <2>1. /\ f \in [0..N -> Q] /\ f[0] = <<>>
        /\ \A n \in 1..N : n - 1 \in 0..N /\ f[n - 1] \in Q /\ f[n] = F[n][f[n - 1]]
    <3> HIDE DEF F
    <3> QED BY <1>1, <1>4 DEF Computes
  <2> HIDE DEF Turned
  <2> QED BY <2>1
<1> DEFINE T == {n \in 0..N : Len(f[n]) = n}
<1>6. 0 \in T
  BY <1>1, <1>5
<1>7. ASSUME NEW n \in 1..N, n - 1 \in T PROVE n \in T
  <2>1. f[n - 1] \in Q /\ Len(f[n - 1]) = n - 1 /\ n - 1 < N /\ n \in 0..N
    BY <1>1, <1>5, <1>7
  <2>2. Len(f[n]) = Len(f[n - 1]) + 1
    <3> HIDE DEF Turned
    <3> QED BY <1>2, <1>5, <2>1
  <2> QED BY <1>1, <2>1, <2>2
<1>8. \A n \in 0..N : n \in T
  <2> HIDE DEF T
  <2> QED BY <1>1, <1>6, <1>7, Induction
<1>9. \A n \in 0..N : Len(f[n]) = n
  BY <1>8
<1>10. \A n \in 1..N : Len(f[n - 1]) < N
  BY <1>1, <1>5, <1>9
<1>11. \A n \in 1..N : f[n] = Append(f[n - 1], next[f[n - 1]])
  BY <1>5, <1>10
<1> HIDE DEF T, Turned
<1>12. Len(f[N]) = N
  BY <1>1, <1>9
<1>13. Picks(S, next, f)
  BY <1>5, <1>10, <1>11, <1>12 DEF Picks, N, Q
<1> QED BY <1>13

\* MMR only reorders.
LEMMA MmrFound ==
  ASSUME NEW s, Open(s), NEW r, IsRequest(r), NEW hits, Hits(s, hits)
  PROVE  Hits(s, MmrOrder(r, hits))
<1> DEFINE N == Len(hits)
           D == 1..N
           score(i, q) == MmrScore(r, hits, i, q)
           next(q) == CHOOSE i \in D \ ToSet(q) : \A j \in D \ ToSet(q) :
                          score(i, q) > score(j, q) \/ (score(i, q) = score(j, q) /\ i >= j)
           nexts == [q \in Picked(D) |-> next(q)]
           Turn(q) == Append(q, next(q))
           Runs(f) == f = [n \in 0..N |-> IF n = 0 THEN <<>> ELSE Turn(f[n - 1])]
           h == CHOOSE f : Runs(f)
           t == [k \in D |-> hits[h[N][k]]]
<1>1. N \in Nat /\ DOMAIN hits = D /\ IsFiniteSet(D) /\ Cardinality(D) = N
  <2>1. N \in Nat /\ DOMAIN hits = 1..N
    BY DEF Hits, Found
  <2> HIDE DEF N
  <2> QED BY <2>1, FS_Interval
<1>2. MmrOrder(r, hits) = t
  BY <1>1 DEF MmrOrder
<1> HIDE DEF N
<1>3. ASSUME NEW q \in Picked(D), Len(q) < N
      PROVE  next(q) \in D \ ToSet(q)
  <2> DEFINE rest == D \ ToSet(q)
             sc == [i \in rest |-> score(i, q)]
  <2>1. q \in Seq(DOMAIN hits)
    BY <1>1 DEF Picked
  <2>2. \A i \in rest : i \in DOMAIN hits
    BY <1>1
  <2>3. \A i \in rest : score(i, q) \in Int
    BY <2>1, <2>2, MmrScoreIs
  <2>4. IsFiniteSet(rest) /\ rest \in SUBSET Nat
    BY <1>1, FS_Subset
  <2>5. rest # {}
    BY <1>1, <1>3, PickOne
  <2>6. next(q) = CHOOSE i \in rest : \A j \in rest :
                score(i, q) > score(j, q) \/ (score(i, q) = score(j, q) /\ i >= j)
    OBVIOUS
  <2> HIDE DEF rest, score, next
  <2>7. \A i \in rest : sc[i] \in Int /\ sc[i] = score(i, q)
    BY <2>3
  <2> HIDE DEF sc
  <2>8. PICK i \in rest : \A j \in rest : sc[i] > sc[j] \/ (sc[i] = sc[j] /\ i >= j)
    BY <2>4, <2>5, <2>7, BestPlace
  <2>9. \A j \in rest : score(i, q) > score(j, q) \/ (score(i, q) = score(j, q) /\ i >= j)
    BY <2>7, <2>8
  <2>10. next(q) \in rest
    BY <2>6, <2>9
  <2> QED BY <2>10 DEF rest
<1> HIDE DEF D, next
<1>4. PICK f : Picks(D, nexts, f)
  <2>1. \A q \in Picked(D) : Len(q) < Cardinality(D) => nexts[q] \in D \ ToSet(q)
    BY <1>1, <1>3
  <2> HIDE DEF nexts
  <2> QED BY <1>1, <2>1, PickAll
<1>5. /\ f \in [0..N -> Picked(D)] /\ f[0] = <<>> /\ Len(f[N]) = N
      /\ \A n \in 1..N : f[n] = Turn(f[n - 1])
  <2>1. /\ f \in [0..N -> Picked(D)] /\ f[0] = <<>> /\ Len(f[N]) = N
        /\ \A n \in 1..N : f[n] = Append(f[n - 1], nexts[f[n - 1]])
    <3> HIDE DEF nexts
    <3> QED BY <1>1, <1>4 DEF Picks
  <2>2. \A n \in 1..N : f[n - 1] \in Picked(D)
    BY <1>1, <2>1
  <2>3. \A n \in 1..N : nexts[f[n - 1]] = next(f[n - 1])
    BY <2>2
  <2> HIDE DEF nexts
  <2> QED BY <2>1, <2>3
<1> HIDE DEF Turn
<1>6. Runs(f)
  BY <1>1, <1>5
<1>7. Runs(h)
  <2> HIDE DEF Runs
  <2> QED BY <1>6
<1> HIDE DEF h
<1>8. h[0] = <<>> /\ \A n \in 1..N : h[n] = Turn(h[n - 1])
  BY <1>1, <1>7
<1> HIDE DEF Runs
<1>9. h[N] = f[N]
  <2> DEFINE T == {n \in 0..N : h[n] = f[n]}
  <2>1. 0 \in T
    BY <1>1, <1>5, <1>8
  <2>2. ASSUME NEW n \in 1..N, n - 1 \in T PROVE n \in T
    BY <1>1, <1>5, <1>8, <2>2
  <2>3. \A n \in 0..N : n \in T
    <3> HIDE DEF T
    <3> QED BY <1>1, <2>1, <2>2, Induction
  <2> QED BY <1>1, <2>3
<1> DEFINE at == h[N]
<1>10. Order(N, at)
  <2>1. at \in Seq(1..N) /\ Distinct(at) /\ Len(at) = N
    BY <1>1, <1>5, <1>9 DEF Picked, D
  <2> HIDE DEF at
  <2> QED BY <1>1, <2>1, DistinctOrder
<1> HIDE DEF at
<1>11. Reorders(HitOf(Keys(s)), hits, at, t)
  <2>1. \A k \in D : at[k] \in D /\ hits[at[k]] \in HitOf(Keys(s))
    BY <1>1, <1>10 DEF Order, Hits, Found, D
  <2>2. \A k \in D : t[k] = hits[at[k]]
    BY DEF at
  <2>3. t \in [D -> HitOf(Keys(s))]
    BY <2>1 DEF at
  <2> HIDE DEF t
  <2> QED BY <1>10, <2>2, <2>3 DEF Reorders, N, D
<1> HIDE DEF t
<1> QED BY <1>2, <1>11, OrderFound DEF Hits

\* The same rows, as other records
SameRows(W, s, t) == t \in [DOMAIN s -> W] /\ \A k \in DOMAIN s : t[k].key = s[k].key

LEMMA SameFound ==
  ASSUME NEW V, NEW W, NEW s, Found(V, s), NEW t, SameRows(W, s, t)
  PROVE  Found(W, t)
<1> DEFINE at == [k \in 1..Len(s) |-> k]
<1>1. Len(s) \in Nat /\ DOMAIN s = 1..Len(s)
  BY DEF Found
<1>2. Order(Len(s), at) /\ \A k \in 1..Len(s) : at[k] = k
  BY <1>1, Unmoved
<1> HIDE DEF at
<1>3. Reorders(W, s, at, t)
  BY <1>1, <1>2 DEF Reorders, SameRows
<1> QED BY <1>3, OrderFound

\* The verdicts of the reranker put the hits into an order of their own first.
LEMMA BlendFound ==
  ASSUME NEW s, Open(s), NEW r, IsRequest(r), NEW hits, Hits(s, hits)
  PROVE  Hits(s, Blend(r, hits))
<1> DEFINE K == Keys(s)
           N == Len(hits)
           V == [hit : HitOf(K), score : Int]
           verdicts == [k \in DOMAIN hits |-> [hit |-> hits[k], score |-> r.query.verdict[hits[k].key]]]
           judged == ByScore(verdicts)
           blended(k) == Percent(judged[k].hit.score, FusionWeight(k))
                           + Percent(judged[k].score, 100 - FusionWeight(k))
           t == [k \in DOMAIN judged |-> [judged[k].hit EXCEPT !.score = blended(k)]]
<1>1. Blend(r, hits) = ByScore(t)
  BY DEF Blend
<1>2. N \in Nat /\ DOMAIN hits = 1..N /\ Found(HitOf(K), hits)
  BY DEF Hits, Found
<1>3. \A k \in 1..N : hits[k] \in HitOf(K) /\ r.query.verdict[hits[k].key] \in Int
  BY <1>2, KeysFound DEF Open, IsRequest
<1>4. verdicts \in Seq(V) /\ Len(verdicts) = N
  <2>1. \A k \in 1..N : [hit |-> hits[k], score |-> r.query.verdict[hits[k].key]] \in V
    BY <1>3
  <2> HIDE DEF N, V
  <2> QED BY <1>2, <2>1
<1>5. \A v \in V : v.score \in Int /\ v.hit \in HitOf(K)
  OBVIOUS
<1> HIDE DEF K, N
<1>6. \A k \in 1..N : verdicts[k] \in V /\ verdicts[k].hit = hits[k]
  BY <1>2, <1>3
<1> HIDE DEF verdicts, V
<1>7. PICK at : Order(N, at) /\ judged = [k \in 1..N |-> verdicts[at[k]]]
  BY <1>4, <1>5, ByScoreIs
<1> HIDE DEF judged
<1>8. \A k \in 1..N : /\ at[k] \in 1..N /\ judged[k] \in V /\ judged[k].hit = hits[at[k]]
                      /\ judged[k].hit \in HitOf(K) /\ judged[k].score \in Int
  BY <1>3, <1>5, <1>6, <1>7 DEF Order
<1>9. \A k \in 1..N : blended(k) \in Int
  <2> TAKE k \in 1..N
  <2>1. FusionWeight(k) \in Int /\ 100 - FusionWeight(k) \in Int
    BY DEF FusionWeight
  <2>2. judged[k].hit.score \in Int
    BY <1>8, HitIs
  <2>3. /\ Percent(judged[k].hit.score, FusionWeight(k)) \in Int
        /\ Percent(judged[k].score, 100 - FusionWeight(k)) \in Int
    BY <1>8, <2>1, <2>2, Percents
  <2> QED BY <2>3
<1> HIDE DEF blended
<1>10. \A k \in 1..N : /\ [judged[k].hit EXCEPT !.score = blended(k)] \in HitOf(K)
                       /\ [judged[k].hit EXCEPT !.score = blended(k)].key = hits[at[k]].key
  BY <1>8, <1>9, HitIs
<1>11. Reorders(HitOf(K), hits, at, t)
  <2>1. /\ DOMAIN judged = 1..N
        /\ \A k \in 1..N : t[k] = [judged[k].hit EXCEPT !.score = blended(k)]
    BY <1>7
  <2>2. t \in [1..N -> HitOf(K)]
    BY <1>10, <2>1
  <2> HIDE DEF t
  <2> QED BY <1>7, <1>10, <2>1, <2>2 DEF Reorders, N
<1> HIDE DEF t
<1>12. Found(HitOf(K), t)
  BY <1>2, <1>11, OrderFound
<1> QED BY <1>1, <1>12, HitIs, ByScoreFound DEF Hits, K

FusedOf(K) == [key : K, why : Whys, fused : Int, score : Int]
AnswerOf(K) == [key : K, why : Whys, score : Int, fused : Int, label : {"high", "moderate", "low"}]

\* Penalties and roles leave the rows as they are.
LEMMA AdjustedFound ==
  ASSUME NEW s, Open(s), NEW r, NEW hits, Hits(s, hits), NEW known
  PROVE  Found(FusedOf(Keys(s)), Adjusted(r, hits, known))
<1> DEFINE score(h) == Percent(Percent(h.score, Penalty(r, h.key.file)),
                               IF known THEN RoleFactor(h.key.file) ELSE 100)
           t == [k \in DOMAIN hits |->
                    [key |-> hits[k].key, why |-> hits[k].why, fused |-> hits[k].score,
                     score |-> score(hits[k])]]
<1>1. Adjusted(r, hits, known) = ByScore(t)
  BY DEF Adjusted
<1>2. \A f : Penalty(r, f) \in Int
  BY DEF Penalty
<1>3. \A f : RoleFactor(f) \in Int
  BY DEF RoleFactor
<1>4. \A k \in DOMAIN hits : hits[k].key \in Keys(s) /\ hits[k].why \in Whys /\ hits[k].score \in Int
  BY HitIs DEF Hits, Found
<1>5. ASSUME NEW k \in DOMAIN hits PROVE score(hits[k]) \in Int
  <2> DEFINE f == hits[k].key.file
             role == IF known THEN RoleFactor(f) ELSE 100
  <2>1. hits[k].score \in Int /\ Penalty(r, f) \in Int /\ role \in Int
    BY <1>2, <1>3, <1>4
  <2> HIDE DEF f, role
  <2>2. Percent(Percent(hits[k].score, Penalty(r, f)), role) \in Int
    BY <2>1, Percents
  <2> QED BY <2>2 DEF f, role
<1> HIDE DEF score
<1>6. SameRows(FusedOf(Keys(s)), hits, t)
  BY <1>4, <1>5 DEF SameRows, FusedOf
<1> HIDE DEF t
<1>7. Found(FusedOf(Keys(s)), t)
  BY <1>6, SameFound DEF Hits
<1>8. \A v \in FusedOf(Keys(s)) : v.score \in Int
  BY DEF FusedOf
<1> QED BY <1>1, <1>7, <1>8, ByScoreFound

\* So do the labels.
LEMMA LabelledFound ==
  ASSUME NEW K, NEW hits, Found(FusedOf(K), hits)
  PROVE  Found(AnswerOf(K), Labelled(hits))
<1> DEFINE label(k) == IF 10 * hits[k].score >= 8 * hits[1].score THEN "high"
                       ELSE IF 10 * hits[k].score >= 5 * hits[1].score THEN "moderate" ELSE "low"
           t == [k \in DOMAIN hits |->
                    [key |-> hits[k].key, why |-> hits[k].why, fused |-> hits[k].fused,
                     score |-> hits[k].score, label |-> label(k)]]
<1>1. Labelled(hits) = t
  BY DEF Labelled
<1>2. \A k : label(k) \in {"high", "moderate", "low"}
  OBVIOUS
<1> HIDE DEF label
<1>3. \A k \in DOMAIN hits : /\ hits[k].key \in K /\ hits[k].why \in Whys
                             /\ hits[k].fused \in Int /\ hits[k].score \in Int
  <2>1. \A h \in FusedOf(K) : h.key \in K /\ h.why \in Whys /\ h.fused \in Int /\ h.score \in Int
    BY DEF FusedOf
  <2>2. \A k \in DOMAIN hits : hits[k] \in FusedOf(K)
    BY DEF Found
  <2> QED BY <2>1, <2>2
<1>4. SameRows(AnswerOf(K), hits, t)
  BY <1>2, <1>3 DEF SameRows, AnswerOf
<1> HIDE DEF t
<1> QED BY <1>1, <1>4, SameFound

\* What fits the budget is a beginning of the hits.
LEMMA BudgetFound ==
  ASSUME NEW V, NEW hits, Found(V, hits), NEW budget
  PROVE  Found(V, WithinBudget(hits, budget))
<1> DEFINE fits == {n \in 0..Len(hits) : n <= 1 \/ TokensUpTo(hits, n) <= budget}
           most == CHOOSE n \in fits : \A m \in fits : m <= n
<1>1. WithinBudget(hits, budget) = Take(hits, most)
  BY DEF WithinBudget
<1>2. fits \subseteq 0..Len(hits) /\ 0 \in fits /\ Len(hits) \in Nat
  BY DEF Found
<1> HIDE DEF fits
<1>3. IsFiniteSet(fits) /\ fits \subseteq Int /\ fits # {}
  <2>1. IsFiniteSet(0..Len(hits))
    BY <1>2, FS_Interval
  <2>2. IsFiniteSet(fits)
    BY <1>2, <2>1, FS_Subset
  <2> QED BY <1>2, <2>2
<1>4. \E n \in fits : \A m \in fits : m <= n
  BY <1>3, Greatest
<1>5. most \in fits
  BY <1>4
<1> HIDE DEF most
<1>6. most \in Nat
  BY <1>2, <1>5
<1> QED BY <1>1, <1>6, TakeFound

-----------------------------------------------------------------------------
(* The hits of every task and of every entry of the cache                   *)

\* Where a task may be, and the kind of its hits there
Places == {"idle", "embed", "retrieve", "graph", "sparse", "cochange", "keep",
           "diversify", "rerank", "adjust", "scope", "answered", "failed"}
KindAt(pc, K) == IF pc \in {"scope", "answered"} THEN AnswerOf(K) ELSE HitOf(K)

Holds(s, tk) ==
    /\ tk.pc \in Places
    /\ tk.pc # "idle" => IsRequest(tk.req)
    /\ Found(KindAt(tk.pc, Keys(s)), tk.hits)

FoundInv ==
    /\ Open(searcher) /\ embedded \subseteq Queries
    /\ \A t \in Tasks : Holds(searcher, task[t])
    /\ \A k \in DOMAIN cache : Hits(searcher, cache[k].hits)

LEMMA KindIs ==
  ASSUME NEW K, NEW pc
  PROVE  /\ pc \notin {"scope", "answered"} => KindAt(pc, K) = HitOf(K)
         /\ pc \in {"scope", "answered"} => KindAt(pc, K) = AnswerOf(K)
         /\ Found(KindAt(pc, K), <<>>)
BY NoneFound DEF KindAt

\* One task moves, and nothing is kept.
LEMMA FoundMoves ==
  ASSUME FoundInv, NEW t \in Tasks, Moves(t), Holds(searcher, task'[t]),
         cache' = cache, embedded' \subseteq Queries
  PROVE  FoundInv'
<1>1. searcher' = searcher /\ \A u \in Tasks : Holds(searcher, task'[u])
  BY DEF Moves, FoundInv
<1> QED BY <1>1 DEF FoundInv

\* A task that goes on with hits of the kind of its place keeps the invariant.
LEMMA FoundGoes ==
  ASSUME Inv, FoundInv, NEW t \in Tasks, task[t].pc # "idle",
         searcher' = searcher, cache' = cache, embedded' \subseteq Queries,
         NEW pc \in Places \ {"idle"}, NEW hits, Goes(t, pc, hits) \/ GoesWithout(t, pc, hits),
         Found(KindAt(pc, Keys(searcher)), hits)
  PROVE  FoundInv'
<1>1. Moves(t) /\ task'[t].pc = pc /\ task'[t].hits = hits /\ task'[t].req = task[t].req
  BY GoesOn, GoesOnWithout DEF Inv
<1>2. Holds(searcher, task'[t])
  BY <1>1 DEF Holds, FoundInv
<1> QED BY <1>1, <1>2, FoundMoves

\* A task that fails has no hits.
LEMMA FoundFails ==
  ASSUME Inv, FoundInv, NEW t \in Tasks, task[t].pc # "idle",
         searcher' = searcher, cache' = cache, embedded' \subseteq Queries, Goes(t, "failed", <<>>)
  PROVE  FoundInv'
<1>1. "failed" \in Places \ {"idle"}
  BY DEF Places
<1> QED BY <1>1, KindIs, FoundGoes

\* So does a leg that goes on with rows of the index.
LEMMA FoundLeg ==
  ASSUME Inv, FoundInv, NEW t \in Tasks, task[t].pc # "idle",
         searcher' = searcher, cache' = cache, embedded' = embedded,
         NEW pc \in {"sparse", "cochange", "keep", "graph", "rerank", "adjust"}, NEW hits,
         Goes(t, pc, hits) \/ GoesWithout(t, pc, hits), Hits(searcher, hits)
  PROVE  FoundInv'
<1>1. pc \in Places \ {"idle"} /\ pc \notin {"scope", "answered"}
  BY DEF Places
<1>2. Found(KindAt(pc, Keys(searcher)), hits)
  BY <1>1, KindIs DEF Hits
<1>3. embedded' \subseteq Queries
  BY DEF FoundInv
<1> QED BY <1>1, <1>2, <1>3, FoundGoes

\* What a step moves in the cache stays a row of it, or is what it keeps.
LEMMA CacheSeq ==
  ASSUME NEW S, cache \in Seq(S)
  PROVE  /\ \A k \in DOMAIN cache : Touched(k) \in Seq(S)
         /\ \A r : \A e \in S : Stored(r, e) \in Seq(S)
<1>1. \A k \in DOMAIN cache : Touched(k) \in Seq(S)
  <2> TAKE k \in DOMAIN cache
  <2>1. Without(k) \in Seq(S) /\ cache[k] \in S
    BY WithoutIs
  <2> QED BY <2>1 DEF Touched
<1>2. ASSUME NEW r, NEW e \in S PROVE Stored(r, e) \in Seq(S)
  <2> DEFINE others == IF Entry(r) = {} THEN cache ELSE Without(CHOOSE k \in Entry(r) : TRUE)
             kept == IF Len(others) = CacheSize THEN Tail(others) ELSE others
  <2>1. others \in Seq(S)
    <3>1. CASE Entry(r) # {}
      <4>1. (CHOOSE k \in Entry(r) : TRUE) \in DOMAIN cache
        BY <3>1 DEF Entry
      <4> QED BY <3>1, <4>1, WithoutIs
    <3> QED BY <3>1
  <2>2. Stored(r, e) = Append(kept, e)
    BY DEF Stored
  <2>3. CacheSize # 0
    BY SearchAssumption
  <2> HIDE DEF others
  <2>4. kept \in Seq(S)
    BY <2>1, <2>3
  <2> HIDE DEF kept
  <2> QED BY <2>2, <2>4
<1> QED BY <1>1, <1>2

\* The hits that are kept are hits of the index.
LEMMA KeptFound ==
  ASSUME Inv, FoundInv, NEW e, Hits(searcher, e.hits),
         \/ \E k \in DOMAIN cache : cache' = Touched(k)
         \/ \E r : cache' = Stored(r, e)
  PROVE  \A k \in DOMAIN cache' : Hits(searcher, cache'[k].hits)
<1> DEFINE S == ToSet(cache) \cup {e}
<1>1. PICK V : cache \in Seq(V)
  BY DEF Inv, CacheInv
<1>2. cache \in Seq(ToSet(cache))
  BY <1>1, ListFinite
<1>3. cache \in Seq(S)
  <2> DEFINE elements == ToSet(cache)
  <2>1. cache \in Seq(elements) /\ elements \subseteq S
    BY <1>2
  <2> HIDE DEF elements, S
  <2> QED BY <2>1
<1>4. \A v \in S : Hits(searcher, v.hits)
  BY DEF ToSet, FoundInv
<1>5. cache' \in Seq(S)
  <2>1. e \in S
    OBVIOUS
  <2> HIDE DEF S
  <2> QED BY <1>3, <2>1, CacheSeq
<1> HIDE DEF S
<1> QED BY <1>4, <1>5

\* The index that is open at the start is one of numbers and finitely many rows.
LEMMA InitFound == Init => FoundInv
<1> SUFFICES ASSUME Init PROVE FoundInv
  OBVIOUS
<1>1. PICK p \in Projects : \E who \in Fronts, config \in Configs : \E edges \in EdgeSets(p) :
         LET g == AddEdges(NoGraph, Sorted(edges, {})) IN
         searcher = [project |-> p, chunks |-> Rows(p), graph |-> g, roles |-> Roles(g),
                     cochange |-> CochangePairs(p), front |-> who, config |-> config]
  BY DEF Init
<1>2. searcher.chunks = Rows(p) /\ searcher.cochange = CochangePairs(p)
  BY <1>1
<1>3. Keys(searcher) = KeysIn(p)
  BY <1>2 DEF Keys, KeysIn
<1>4. /\ IsProject(p)
      /\ \A key \in KeysIn(p) :
            /\ Weight[key.file] \in Nat
            /\ \A q \in Queries : q.sim[key] \in Int /\ q.verdict[key] \in Int
            /\ \A order \in Orders : order[key] \in Nat
            /\ \A other \in KeysIn(p) :
                  Alike[<<key, other>>] \in Int /\ Distance[<<key, other>>] \in Nat
  BY SearchAssumption, Zenon
<1>5. Open(searcher)
  BY <1>2, <1>3, <1>4, RowsFinite, PairsAre DEF Open
<1>6. \A t \in Tasks : Holds(searcher, task[t])
  <2>1. \A t \in Tasks : task[t] = Idle
    BY DEF Init
  <2>2. Idle.pc = "idle" /\ Idle.hits = <<>>
    BY DEF Idle
  <2>3. "idle" \in Places
    BY DEF Places
  <2>4. Holds(searcher, Idle)
    BY <2>2, <2>3, KindIs DEF Holds
  <2> QED BY <2>1, <2>4
<1> QED BY <1>5, <1>6 DEF Init, FoundInv

LEMMA BeginFound ==
  ASSUME Inv, FoundInv, NEW t \in Tasks, NEW r, IsRequest(r), Begins(t, r)
  PROVE  FoundInv'
<1> DEFINE tk == [pc |-> "embed", req |-> r, hits |-> <<>>, kept |-> <<>>, whole |-> TRUE]
<1>1. /\ searcher' = searcher /\ cache' = cache /\ embedded' = embedded
      /\ task' = [task EXCEPT ![t] = tk] /\ DOMAIN task = Tasks
  BY DEF Begins, Inv, TaskInv
<1>2. tk.pc = "embed" /\ tk.req = r /\ tk.hits = <<>> /\ Shaped(tk)
  BY DEF Shaped
<1> HIDE DEF tk
<1>3. DOMAIN task' = Tasks /\ task'[t] = tk /\ \A u \in Tasks \ {t} : task'[u] = task[u]
  BY <1>1
<1>4. Moves(t)
  BY <1>1, <1>2, <1>3 DEF Moves, Shaped
<1>5. "embed" \in Places
  BY DEF Places
<1>6. Holds(searcher, task'[t])
  BY <1>2, <1>3, <1>5, KindIs DEF Holds
<1>7. embedded' \subseteq Queries
  BY <1>1 DEF FoundInv
<1> QED BY <1>1, <1>4, <1>6, <1>7, FoundMoves

\* Only hits that are none are an answer as they come from the cache.
LEMMA AfterCacheFound ==
  ASSUME NEW s, NEW r, NEW hits, Hits(s, hits)
  PROVE  /\ AfterCache(r, hits) \in Places \ {"idle"}
         /\ Found(KindAt(AfterCache(r, hits), Keys(s)), hits)
<1>1. /\ AfterCache(r, hits) \in {"answered", "diversify", "rerank", "adjust"}
      /\ hits # <<>> => AfterCache(r, hits) # "answered"
  BY DEF AfterCache, AfterDiversity
<1>2. AfterCache(r, hits) \in Places \ {"idle"}
  BY <1>1 DEF Places
<1>3. CASE hits = <<>>
  BY <1>2, <1>3, KindIs
<1>4. CASE hits # <<>>
  BY <1>1, <1>2, <1>4, KindIs DEF Hits
<1> QED BY <1>2, <1>3, <1>4

\* A step takes an entry of the cache, or keeps one; the task has the same hits.
Recalls(e) == (\E k \in DOMAIN cache : cache' = Touched(k)) \/ \E q : cache' = Stored(q, e)

LEMMA CachedFound ==
  ASSUME Inv, FoundInv, NEW t \in Tasks, searcher' = searcher, embedded' \subseteq Queries,
         NEW r, IsRequest(r), NEW e, Hits(searcher, e.hits), NEW tk, Shaped(tk),
         task' = [task EXCEPT ![t] = tk],
         tk.pc = AfterCache(r, e.hits), tk.hits = e.hits, tk.req = r, Recalls(e)
  PROVE  FoundInv'
<1>1. DOMAIN task = Tasks
  BY DEF Inv, TaskInv
<1>2. task'[t] = tk /\ \A u \in Tasks \ {t} : task'[u] = task[u]
  BY <1>1
<1>3. Holds(searcher, tk)
  BY AfterCacheFound DEF Holds
<1>4. \A u \in Tasks : Holds(searcher, task'[u])
  BY <1>2, <1>3 DEF FoundInv
<1>5. \A k \in DOMAIN cache' : Hits(searcher, cache'[k].hits)
  BY KeptFound DEF Recalls
<1> QED BY <1>4, <1>5 DEF FoundInv

LEMMA EmbedFound ==
  ASSUME Inv, FoundInv, NEW t \in Tasks, Embed(t)
  PROVE  FoundInv'
<1> DEFINE r == task[t].req
<1>1. /\ task[t].pc = "embed" /\ task[t].pc # "idle" /\ searcher' = searcher
      /\ DOMAIN task = Tasks /\ Shaped(task[t])
  BY DEF Embed, Inv, TaskInv
<1>2. IsRequest(r) /\ r.query \in Queries
  BY <1>1 DEF FoundInv, Holds, IsRequest
<1>3. embedded' \subseteq Queries
  BY <1>2 DEF Embed, FoundInv
<1>4. CASE Goes(t, "retrieve", <<>>) /\ cache' = cache
  <2>1. "retrieve" \in Places \ {"idle"}
    BY DEF Places
  <2> QED BY <1>1, <1>3, <1>4, <2>1, KindIs, FoundGoes
<1>5. CASE Goes(t, "failed", <<>>) /\ cache' = cache
  BY <1>1, <1>3, <1>5, FoundFails
<1>6. ASSUME NEW k \in Entry(r), cache' = Touched(k),
             task' = [task EXCEPT ![t] =
                [@ EXCEPT !.pc = AfterCache(r, cache[k].hits), !.hits = cache[k].hits,
                          !.kept = cache[k].hits, !.whole = cache[k].whole]]
      PROVE  FoundInv'
  <2> DEFINE pc == AfterCache(r, cache[k].hits)
             hits == cache[k].hits
             whole == cache[k].whole
             tk == [task[t] EXCEPT !.pc = pc, !.hits = hits, !.kept = hits, !.whole = whole]
  <2>1. k \in DOMAIN cache /\ Hits(searcher, cache[k].hits)
    BY DEF Entry, FoundInv
  <2>2. task' = [task EXCEPT ![t] = tk]
    BY <1>6
  <2>3. pc = AfterCache(r, cache[k].hits) /\ hits = cache[k].hits
    OBVIOUS
  <2> HIDE DEF pc, hits, whole
  <2>4. /\ DOMAIN tk = DOMAIN task[t] /\ tk.pc = pc /\ tk.hits = hits /\ tk.req = r
    BY <1>1 DEF Shaped
  <2>5. pc # "idle"
    BY <2>3, AfterTheCache
  <2> HIDE DEF tk, r
  <2>6. Shaped(tk)
    BY <1>1, <2>4, <2>5 DEF Shaped
  <2>7. Recalls(cache[k])
    BY <1>6, <2>1 DEF Recalls
  <2> DEFINE e == cache[k]
  <2>8. Hits(searcher, e.hits) /\ tk.pc = AfterCache(r, e.hits) /\ tk.hits = e.hits /\ Recalls(e)
    BY <2>1, <2>3, <2>4, <2>7
  <2> HIDE DEF e
  <2> QED BY <1>1, <1>2, <1>3, <2>2, <2>4, <2>6, <2>8, CachedFound
<1> QED BY <1>4, <1>5, <1>6 DEF Embed

LEMMA KeepFound ==
  ASSUME Inv, FoundInv, NEW t \in Tasks, Keep(t)
  PROVE  FoundInv'
<1> DEFINE r == task[t].req
           hits == task[t].hits
           e == [key |-> CacheKey(r), hits |-> hits, whole |-> task[t].whole]
           pc == AfterCache(r, hits)
           tk == [task[t] EXCEPT !.pc = pc, !.kept = hits]
<1>1. /\ task[t].pc = "keep" /\ task[t].pc # "idle" /\ searcher' = searcher /\ embedded' = embedded
      /\ cache' = Stored(r, e) /\ task' = [task EXCEPT ![t].pc = pc, ![t].kept = hits]
      /\ DOMAIN task = Tasks /\ Shaped(task[t])
  BY DEF Keep, Inv, TaskInv
<1>2. IsRequest(r) /\ Hits(searcher, hits)
  <2>1. Holds(searcher, task[t]) /\ task[t].pc \notin {"scope", "answered"} /\ task[t].pc # "idle"
    BY <1>1 DEF FoundInv
  <2> QED BY <2>1, KindIs DEF Holds, Hits
<1>3. task' = [task EXCEPT ![t] = tk]
  BY <1>1
<1>4. embedded' \subseteq Queries
  BY <1>1 DEF FoundInv
<1>5. pc # "idle" /\ pc = AfterCache(r, hits)
  BY AfterTheCache
<1> HIDE DEF pc
<1>6. DOMAIN tk = DOMAIN task[t] /\ tk.pc = pc /\ tk.hits = hits /\ tk.req = r
  BY <1>1 DEF Shaped
<1>7. e.hits = hits
  OBVIOUS
<1> HIDE DEF tk, r, e, hits
<1>8. Shaped(tk)
  BY <1>1, <1>5, <1>6 DEF Shaped
<1>9. /\ Hits(searcher, e.hits) /\ tk.hits = e.hits /\ tk.pc = AfterCache(r, e.hits)
      /\ tk.req = r /\ Recalls(e) /\ searcher' = searcher /\ IsRequest(r)
  BY <1>1, <1>2, <1>5, <1>6, <1>7 DEF Recalls
<1> QED BY <1>3, <1>4, <1>8, <1>9, CachedFound

\* Where the task of a leg is, its hits are rows of the index.
LEMMA LegHits ==
  ASSUME FoundInv, NEW t \in Tasks,
         task[t].pc \in {"retrieve", "graph", "sparse", "cochange", "keep",
                         "diversify", "rerank", "adjust"}
  PROVE  /\ Open(searcher) /\ Hits(searcher, task[t].hits) /\ task[t].pc # "idle"
         /\ IsRequest(task[t].req) /\ task[t].req.query \in Queries
<1>1. Holds(searcher, task[t]) /\ task[t].pc \notin {"scope", "answered"} /\ task[t].pc # "idle"
  BY DEF FoundInv
<1> QED BY <1>1, KindIs DEF Holds, Hits, FoundInv, IsRequest

LEMMA LegsFound ==
  ASSUME Inv, FoundInv, NEW t \in Tasks,
         Retrieve(t) \/ ExtendByGraph(t) \/ ExtendBySparse(t) \/ BoostCochange(t)
  PROVE  FoundInv'
<1> DEFINE s == searcher
           r == task[t].req
           now == task[t].hits
<1>1. /\ task[t].pc \in {"retrieve", "graph", "sparse", "cochange"}
      /\ searcher' = searcher /\ cache' = cache /\ embedded' = embedded
  BY DEF Retrieve, ExtendByGraph, ExtendBySparse, BoostCochange
<1>2. /\ Open(s) /\ Hits(s, now) /\ task[t].pc # "idle" /\ IsRequest(r) /\ r.query \in Queries
      /\ embedded' \subseteq Queries
  BY <1>1, LegHits DEF FoundInv
<1>3. \A hits : /\ AfterSparse(s, hits) \in {"cochange", "keep"}
                /\ AfterGraph(s, hits) \in {"sparse", "cochange", "keep"}
                /\ AfterRetrieval(s, r, hits) \in {"graph", "sparse", "cochange", "keep"}
  BY DEF AfterSparse, AfterGraph, AfterRetrieval
<1>4. CASE Goes(t, "failed", <<>>)
  BY <1>1, <1>2, <1>4, FoundFails
<1>5. ASSUME NEW pc \in {"sparse", "cochange", "keep", "graph"}, NEW hits,
             Goes(t, pc, hits) \/ GoesWithout(t, pc, hits), Hits(s, hits)
      PROVE  FoundInv'
  BY <1>1, <1>2, <1>5, FoundLeg
<1> HIDE DEF s, now, r
<1>6. CASE Retrieve(t)
  <2>1. ASSUME NEW order \in Orders,
               Goes(t, AfterRetrieval(s, r, Retrieved(s, r, order)), Retrieved(s, r, order))
        PROVE  FoundInv'
    <3>1. Hits(s, Retrieved(s, r, order))
      BY <1>2, RetrievedFound
    <3> QED BY <1>3, <1>5, <2>1, <3>1
  <2> QED BY <1>4, <1>6, <2>1 DEF Retrieve, s, r
<1>7. CASE ExtendByGraph(t)
  <2>1. PICK order \in Orders :
           LET hits(neighbours) == Augment(s, r.query, now, order, neighbours) IN
           \/ Goes(t, AfterGraph(s, hits(TRUE)), hits(TRUE))
           \/ GoesWithout(t, AfterGraph(s, hits(FALSE)), hits(FALSE))
           \/ Goes(t, "failed", <<>>)
    BY <1>7 DEF ExtendByGraph, s, r, now
  <2>2. \A neighbours : Hits(s, Augment(s, r.query, now, order, neighbours))
    BY <1>2, AugmentFound
  <2> QED BY <1>3, <1>4, <1>5, <2>1, <2>2
<1>8. CASE ExtendBySparse(t)
  <2>1. PICK order \in Orders :
           LET hits(rows) == Sparsed(s, r.query, now, order, rows) IN
           \/ Goes(t, AfterSparse(s, hits(TRUE)), hits(TRUE))
           \/ GoesWithout(t, AfterSparse(s, hits(FALSE)), hits(FALSE))
           \/ GoesWithout(t, AfterSparse(s, now), now)
    BY <1>8 DEF ExtendBySparse, s, r, now
  <2>2. \A rows : Hits(s, Sparsed(s, r.query, now, order, rows))
    BY <1>2, SparsedFound
  <2> QED BY <1>2, <1>3, <1>5, <2>1, <2>2
<1>9. CASE BoostCochange(t)
  <2>1. Goes(t, "keep", CochangeBoost(s, now)) \/ GoesWithout(t, "keep", now)
    BY <1>9 DEF BoostCochange, s, now
  <2>2. Hits(s, CochangeBoost(s, now))
    BY <1>2, CochangeFound
  <2> QED BY <1>2, <1>5, <2>1, <2>2
<1> QED BY <1>6, <1>7, <1>8, <1>9

\* Hits become answers when they are adjusted, and answers stay so.
LEMMA AnswerFound ==
  ASSUME Inv, FoundInv, NEW t \in Tasks,
         Diversify(t) \/ Rerank(t) \/ Adjust(t) \/ Scope(t)
  PROVE  FoundInv'
<1> DEFINE s == searcher
           r == task[t].req
           now == task[t].hits
           K == Keys(s)
<1>1. /\ task[t].pc \in {"diversify", "rerank", "adjust", "scope"} /\ task[t].pc # "idle"
      /\ searcher' = searcher /\ cache' = cache /\ embedded' = embedded
  BY DEF Diversify, Rerank, Adjust, Scope
<1>2. embedded' \subseteq Queries
  BY <1>1 DEF FoundInv
<1>3. CASE Goes(t, "failed", <<>>)
  BY <1>1, <1>2, <1>3, FoundFails
<1>4. ASSUME NEW pc \in {"rerank", "adjust"}, NEW hits, Goes(t, pc, hits), Hits(s, hits)
      PROVE  FoundInv'
  BY <1>1, <1>4, FoundLeg
<1>5. ASSUME NEW pc \in {"scope", "answered"}, NEW hits, Goes(t, pc, hits), Found(AnswerOf(K), hits)
      PROVE  FoundInv'
  <2>1. pc \in Places \ {"idle"} /\ KindAt(pc, K) = AnswerOf(K)
    BY KindIs DEF Places
  <2> QED BY <1>1, <1>2, <1>5, <2>1, FoundGoes
<1>6. task[t].pc # "scope" => Open(s) /\ Hits(s, now) /\ IsRequest(r)
  BY <1>1, LegHits
<1>7. task[t].pc = "scope" => Found(AnswerOf(K), now)
  BY KindIs DEF FoundInv, Holds
<1> HIDE DEF s, now, r, K
<1>8. CASE Diversify(t)
  <2>1. /\ task[t].pc # "scope"
        /\ \/ Goes(t, AfterDiversity(MmrOrder(r, now)), MmrOrder(r, now))
           \/ Goes(t, "failed", <<>>)
    BY <1>8 DEF Diversify, r, now
  <2>2. Hits(s, MmrOrder(r, now))
    BY <1>6, <2>1, MmrFound
  <2> QED BY <1>3, <1>4, <2>1, <2>2, AfterTheCache
<1>9. CASE Rerank(t)
  <2>1. task[t].pc # "scope" /\ (Goes(t, "adjust", Blend(r, now)) \/ Goes(t, "failed", <<>>))
    BY <1>9 DEF Rerank, r, now
  <2>2. Hits(s, Blend(r, now))
    BY <1>6, <2>1, BlendFound
  <2> QED BY <1>3, <1>4, <2>1, <2>2
<1>10. CASE Adjust(t)
  <2> DEFINE out(known) == WithinBudget(Labelled(Adjusted(r, now, known)), r.budget)
  <2>1. /\ task[t].pc # "scope"
        /\ \E pc \in {"scope", "answered"} : Goes(t, pc, out(TRUE)) \/ Goes(t, pc, out(FALSE))
    BY <1>10 DEF Adjust, r, now
  <2>2. \A known : Found(AnswerOf(K), out(known))
    BY <1>6, <2>1, AdjustedFound, LabelledFound, BudgetFound DEF K
  <2> HIDE DEF out
  <2> QED BY <1>5, <2>1, <2>2
<1>11. CASE Scope(t)
  <2> DEFINE scoped == Only(now, {h \in ToSet(now) : h.key.file \in Branch})
  <2>1. /\ task[t].pc = "scope"
        /\ \/ Goes(t, "answered", now) \/ Goes(t, "answered", scoped) \/ Goes(t, "failed", <<>>)
    BY <1>11 DEF Scope, now
  <2>2. Found(AnswerOf(K), scoped)
    BY <1>7, <2>1, OnlyFound
  <2> HIDE DEF scoped
  <2> QED BY <1>3, <1>5, <1>7, <2>1, <2>2
<1> QED BY <1>8, <1>9, <1>10, <1>11

LEMMA NextFound == Inv /\ FoundInv /\ [Next]_vars => FoundInv'
<1> SUFFICES ASSUME Inv, FoundInv, [Next]_vars PROVE FoundInv'
  OBVIOUS
<1>1. ASSUME NEW t \in Tasks, Begin(t) PROVE FoundInv'
  <2>1. PICK r \in Requests : Begins(t, r)
    BY <1>1 DEF Begin
  <2>2. IsRequest(r)
    BY SearchAssumption
  <2> QED BY <2>1, <2>2, BeginFound
<1>2. ASSUME NEW t \in Tasks, Step(t) PROVE FoundInv'
  BY <1>2, EmbedFound, LegsFound, KeepFound, AnswerFound DEF Step
<1>3. CASE UNCHANGED vars
  BY <1>3 DEF vars, FoundInv
<1> QED BY <1>1, <1>2, <1>3 DEF Next

LEMMA ToolsFound == Inv /\ FoundInv /\ [ToolsNext]_toolVars => FoundInv'
<1>1. FoundInv /\ UNCHANGED <<searcher, embedded, cache, task>> => FoundInv'
  BY DEF FoundInv
<1> QED BY <1>1, ToolsSteps, NextFound, BeginFound

\* Whichever legs find the rows of a search, in whatever order the searches run, and
\* whatever fails: its hits are rows of the index, none of them twice; the edges of the
\* imports lie between files of the project, and only queries are in query_embed_cache
\* (search_with_graph, augment_with_graph, hybrid_search_sparse, mmr_rerank and rerank
\* of searcher.rs, and the searches of composite.rs).
THEOREM RowsFoundOnce == (Spec => []TypeOK) /\ (ToolsSpec => []TypeOK)
<1> DEFINE I == Inv /\ CacheOK /\ SearcherIs /\ FoundInv
<1>1. Init => I
  BY InitOK, InitSearcher, InitFound
<1>2. SearcherIs /\ searcher' = searcher => SearcherIs'
  BY DEF SearcherIs, project, graph, Files, Edges
<1>3. I /\ [Next]_vars => I'
  BY <1>2, NextInv, StepOK, NextFound, SearchStays
<1>4. I /\ [ToolsNext]_toolVars => I'
  <2>1. cache' = cache => (CacheOK => CacheOK')
    BY DEF CacheOK
  <2>2. \A t \in Tasks : \A r : Begins(t, r) => cache' = cache
    BY DEF Begins
  <2>3. Inv /\ CacheOK /\ [ToolsNext]_toolVars => CacheOK'
    BY <2>1, <2>2, ToolsSteps, StepOK
  <2> QED BY <1>2, <2>3, ToolsInv, ToolsFound, ToolsStays
<1>5. I => TypeOK
  <2> SUFFICES ASSUME I PROVE TypeOK
    OBVIOUS
  <2>1. Edges \subseteq Files \X Files
    <3>1. project \in Projects /\ Edges \in EdgeSets(project)
      BY DEF SearcherIs
    <3>2. DOMAIN project.imports \subseteq project.files
      BY <3>1, SearchAssumption, Zenon DEF IsProject
    <3> QED BY <3>1, <3>2, EdgesInFiles DEF Files
  <2>2. ASSUME NEW t \in Tasks
        PROVE  /\ task[t].pc \in Places
               /\ \A k \in DOMAIN task[t].hits :
                     task[t].hits[k] \in IF task[t].pc \in {"scope", "answered"} THEN Answered ELSE Hit
               /\ Cardinality(HitKeys(task[t].hits)) = Len(task[t].hits)
    <3>1. Holds(searcher, task[t])
      BY DEF FoundInv
    <3>2. KindAt(task[t].pc, Keys(searcher)) =
              IF task[t].pc \in {"scope", "answered"} THEN Answered ELSE Hit
      BY DEF KindAt, Answered, Hit, AnswerOf, HitOf, Whys
    <3>3. \A k \in DOMAIN task[t].hits : task[t].hits[k] \in KindAt(task[t].pc, Keys(searcher))
      BY <3>1 DEF Holds, Found
    <3>4. Cardinality(HitKeys(task[t].hits)) = Len(task[t].hits)
      BY <3>1, CountFound DEF Holds
    <3> QED BY <3>1, <3>2, <3>3, <3>4 DEF Holds
  <2> QED BY <2>1, <2>2 DEF TypeOK, FoundInv, Places
<1>6. ToolsInit => Init
  BY DEF ToolsInit
<1> HIDE DEF I
<1> QED BY <1>1, <1>3, <1>4, <1>5, <1>6, PTL DEF Spec, ToolsSpec
==============================================================================
