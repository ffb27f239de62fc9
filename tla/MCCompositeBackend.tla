-------------------------- MODULE MCCompositeBackend --------------------------
(* Constants of the TLC runs of CompositeBackend.                           *)
EXTENDS CompositeBackend

CONSTANTS t1, t2, blank

MCTwoFiles == {1, 2}
MCFiles == {1, 2, 3}

\* A chunk, and one with nothing to search for, that import nothing; a chunk that
\* imports the third file.
MCContents ==
    {[texts |-> <<t1, blank>>, imports |-> {}], [texts |-> <<t2>>, imports |-> {3}]}

\* A file imports all the others, or nothing.
MCMesh ==
    {[texts |-> <<t1>>, imports |-> {}], [texts |-> <<t1, blank>>, imports |-> Files]}

\* One chunk, and an import or two: what the graph is about.
MCLinks == {[texts |-> <<>>, imports |-> s] : s \in {{}, {1}, {2, 3}}}

MCOneText == {[texts |-> <<t1>>, imports |-> {}]}

NoSelf == FaultKinds \ {"self"}
NoFaults == {}
=============================================================================
