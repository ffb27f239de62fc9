------------------------------ MODULE ImportGraph ------------------------------
(***************************************************************************)
(* The in-memory graph of imports (crates/core/src/backend/graph.rs).      *)
(* petgraph keeps the edges in an array: the id of an edge is its place,   *)
(* and removing an edge moves the last one into its place. The edges of a  *)
(* node are listed from the newest to the oldest. An edge is a pair of     *)
(* files; edge types are left out (the indexer stores "imports" alone).    *)
(* Loops are recursive functions and not folds, which no lemma can be      *)
(* stated of.                                                              *)
(***************************************************************************)
EXTENDS Naturals, Sequences, SequencesExt

\* The graph without nodes or edges: ImportGraph::new
NoGraph == [nodes |-> {}, slots |-> <<>>, age |-> <<>>]

EdgesOf(g) == ToSet(g.slots)

\* Mutant: an edge whose files are not entered in node_index.
AddEdgeAlone(g, e) ==
    IF e \in EdgesOf(g)
    THEN g
    ELSE [g EXCEPT !.slots = Append(@, e), !.age = Append(@, e)]

\* add_edge: one edge for a pair of files; nodes are made on the way.
AddEdge(g, e) ==
    LET nodes == g.nodes \cup {e[1], e[2]} IN
    IF e \in EdgesOf(g)
    THEN [g EXCEPT !.nodes = nodes]
    ELSE [nodes |-> nodes, slots |-> Append(g.slots, e), age |-> Append(g.age, e)]

AddEdges(g, es) ==
    LET added[n \in 0..Len(es)] == IF n = 0 THEN g ELSE AddEdge(added[n - 1], es[n])
    IN added[Len(es)]

\* A sequence without the elements that are not of the set
Only(s, elements) ==
    LET only[n \in 0..Len(s)] ==
            IF n = 0 THEN <<>>
            ELSE IF s[n] \in elements THEN Append(only[n - 1], s[n]) ELSE only[n - 1]
    IN only[Len(s)]

Outgoing(g, f) == Only(Reverse(g.age), {e \in EdgesOf(g) : e[1] = f})
Incoming(g, f) == Only(Reverse(g.age), {e \in EdgesOf(g) : e[2] = f})

IdOf(g, e) == CHOOSE i \in DOMAIN g.slots : g.slots[i] = e

\* petgraph's remove_edge: nothing at an id that is no longer there.
RemoveEdge(g, id) ==
    IF id \notin DOMAIN g.slots
    THEN g
    ELSE LET last == Len(g.slots) IN
         [g EXCEPT !.slots = SubSeq([g.slots EXCEPT ![id] = g.slots[last]], 1, last - 1),
                   !.age = Only(@, ToSet(@) \ {g.slots[id]})]

\* Mutant: `edges` twice, where the second should be of incoming edges.
IdsForTwice(g, f) ==
    LET es == Outgoing(g, f) \o Outgoing(g, f) IN
    [k \in DOMAIN es |-> IdOf(g, es[k])]

\* The ids that remove_edges_for_file collects before it removes any of them.
IdsFor(g, f) ==
    LET es == Outgoing(g, f) \o Incoming(g, f) IN
    [k \in DOMAIN es |-> IdOf(g, es[k])]

RemoveEdges(g, ids) ==
    LET left[n \in 0..Len(ids)] == IF n = 0 THEN g ELSE RemoveEdge(left[n - 1], ids[n])
    IN left[Len(ids)]

RemoveEdgesForFile(g, f) == RemoveEdges(g, IdsFor(g, f))

Neighbours(g, f, forward) ==
    IF forward THEN {e[2] : e \in ToSet(Outgoing(g, f))}
               ELSE {e[1] : e \in ToSet(Incoming(g, f))}

\* Mutant: the files of a level are not marked as visited.
BfsLevelUnmarked(g, forward, b, depth) ==
    LET next == (UNION {Neighbours(g, f, forward) : f \in b.level}) \ b.level IN
    [level |-> next, visited |-> b.visited,
     found |-> b.found \cup {<<f, depth>> : f \in next}]

\* bfs_inner, a level at a time: the files reached, with their depths.
BfsLevel(g, forward, b, depth) ==
    LET next == (UNION {Neighbours(g, f, forward) : f \in b.level}) \ b.visited IN
    [level |-> next,
     visited |-> b.visited \cup next,
     found |-> b.found \cup {<<f, depth>> : f \in next}]

Bfs(g, start, maxDepth, forward) ==
    LET after[d \in 0..maxDepth] ==
            IF d = 0 THEN [level |-> {start}, visited |-> {start}, found |-> {}]
                     ELSE BfsLevel(g, forward, after[d - 1], d)
    IN IF start \notin g.nodes THEN {} ELSE after[maxDepth].found

\* classify_symbol_role, from the numbers of importers and of imports
Role(importers, imports) ==
    CASE importers >= 3 /\ imports <= 1 -> "entry"
      [] importers >= 2 /\ imports >= 2 -> "core"
      [] importers <= 1 /\ imports >= 2 -> "utility"
      [] importers < 3 /\ imports = 0   -> "leaf"
      [] OTHER                          -> "internal"

Roles(g) ==
    [f \in g.nodes |-> Role(Len(Incoming(g, f)), Len(Outgoing(g, f)))]
=============================================================================
