--------------------------------- MODULE Tools ---------------------------------
(***************************************************************************)
(* The tools of the MCP server that read an index                          *)
(* (crates/mcp/src/server.rs, with crates/core/src/router.rs and grep.rs): *)
(* search_code, find_symbol, get_symbol_info, find_dependents, find_tests  *)
(* and get_repo_map. A semantic search is passed on to the daemon and runs *)
(* there as a task of Search; the other tools read the tables of the index *)
(* that the server has open. Most of these reads are best effort: one that *)
(* fails counts as one that found nothing.                                 *)
(*                                                                         *)
(* An ask is a record with the name of the tool and its input:             *)
(*   search_code      [intent, names, text, request, scope, matches, gone] *)
(*                    text is the shape of the query, with the names       *)
(*                    before it; matches are the lines that the query      *)
(*                    finds as a pattern below the scope, in the order of  *)
(*                    the walk; gone if the directory no longer exists     *)
(*   find_symbol      [name, kind]    get_symbol_info  [name, kind, tests] *)
(*   find_dependents  [file, depth]   find_tests       [file]              *)
(*   get_repo_map     [symbols, edges, lines]                              *)
(* Left out: the tools on a project other than the server's own, and the   *)
(* answers of an index that is not there yet.                              *)
(***************************************************************************)
EXTENDS Search, Symbols

CONSTANT Asks      \* the calls an agent may make

\* What a call asks of the daemon's search; to understand takes the graph with it.
RequestOf(ask) == [ask.request EXCEPT !.graph = @ \/ ask.intent = "understand"]

ASSUME ToolsAssumption ==
    /\ Orders # {}
    /\ \A ask \in Asks :
          /\ ask.tool = "find_dependents" => ask.depth \in Nat
          /\ ask.tool = "search_code" => IsRequest(RequestOf(ask))
    /\ \A p \in Projects :
          /\ HasCode(p)
          /\ \A order \in Orders, f \in p.files : order[[file |-> f, idx |-> 0]] \in Nat

VARIABLES
    symbols,    \* table symbols, in the order in which a query lists its rows
    calls,      \* table call_edges, likewise
    answer      \* the last call of a tool: [ask, state, out]

tables == <<symbols, calls>>
toolVars == <<vars, tables, answer>>

ByFile(order) == [f \in Files |-> order[[file |-> f, idx |-> 0]]]

FindSymbols(name, kind) ==
    SelectSeq(symbols, LAMBDA s : s.name = name /\ kind \in {"any", s.kind})

GetCallees(s) == SelectSeq(calls, LAMBDA c : c.file = s.file /\ c.caller = s.name)
GetCallers(s) ==
    SelectSeq(calls, LAMBDA c : c.callee.file = s.file /\ c.callee.symbol = s.name)

\* is_test_file_path looks for the name of a directory between two slashes.
IsTestFilePath(f) ==
    \/ \E k \in 2..Len(f.path) - 1 : f.path[k] \in {"test", "tests", "__tests__", "spec", "specs"}
    \/ f \in project.testNamed

---------------------------------------------------------------------------
(* Answers                                                                 *)

Listing == 20

SymbolRows(found) ==
    [k \in DOMAIN found |->
        [file |-> found[k].file, name |-> found[k].name, kind |-> found[k].kind]]

\* The first of the symbols with its chunk, its imports and its calls; the parts
\* in `lost` could not be read.
SymbolContext(ask, found, lost) ==
    LET s == Head(found)
        around == {row \in chunks : row.file = s.file /\ row.first <= s.line
                                     /\ s.line <= row.last}
        importers == FoldLeft(LAMBDA fs, e : Append(fs, e[1]), <<>>, Incoming(graph, s.file))
        imports == FoldLeft(LAMBDA fs, e : Append(fs, e[2]), <<>>, Outgoing(graph, s.file))
        others == SelectSeq(importers, LAMBDA f : ~IsTestFilePath(f))
        degrees == [in |-> Len(Take(others, Listing)), out |-> Len(Take(imports, Listing))]
    IN [symbol |-> s, ambiguous |-> Len(found) > 1,
        source |-> IF "chunks" \in lost THEN {}
                   ELSE {row \in around : \A other \in around : row.idx <= other.idx},
        imports |-> Take(imports, Listing), importedBy |-> Take(others, Listing),
        tests |-> IF ask.tests THEN Take(SelectSeq(importers, IsTestFilePath), Listing) ELSE <<>>,
        callers |-> IF "callers" \in lost THEN <<>>
                    ELSE Take(GetCallers(s), Listing),
        callees |-> IF "callees" \in lost THEN <<>>
                    ELSE SelectSeq(Take(GetCallees(s), Listing), LAMBDA c : c.callee.symbol # NoName),
        role |-> IF s.file \in DOMAIN roles /\ "roles" \notin lost
                 THEN roles[s.file]
                 ELSE Role(degrees.in, degrees.out)]

NoDepth == 0
MaxDepth == 5

ImpactDepth(ask) ==
    IF ask.depth = NoDepth THEN 3 ELSE IF ask.depth > MaxDepth THEN MaxDepth ELSE ask.depth

ImpactSet(ask) ==
    LET reached == Bfs(graph, ask.file, ImpactDepth(ask), FALSE) IN
    [direct |-> {fd[1] : fd \in {fd \in reached : fd[2] = 1}},
     transitive |-> {fd \in reached : fd[2] > 1},
     tests |-> {fd[1] : fd \in {fd \in reached : IsTestFilePath(fd[1])}}]

\* Test files that import the file; then others beside it or named for it.
TestContext(ask) ==
    LET importers == {e[1] : e \in ToSet(Incoming(graph, ask.file))}
        tests == {f \in importers : IsTestFilePath(f)}
        beside(f) == IsPrefix(Dir(ask.file), Dir(f))
        namedFor(f) == \E k \in 2..Len(f.path) - 1 :
                           f.path[k] \in {"tests", "__tests__"}
                             /\ f.path[k + 1] = FileName(ask.file)
    IN [tests |-> tests,
        colocated |-> {f \in Files \ tests : IsTestFilePath(f) /\ (beside(f) \/ namedFor(f))}]

\* The definitions of a name, if they can be read.
Definitions(name, end, lost) ==
    IF end \in lost THEN <<>> ELSE FindSymbols(name, "any")

\* Whether one symbol calls another, or one that does; of the first definitions of
\* their names. What could not be read was not found.
Trace(starts, ends, lost) ==
    IF starts = <<>> \/ ends = <<>>
    THEN [verdict |-> "unknown", via |-> {}]
    ELSE LET s == Head(starts)
             e == Head(ends)
             read(leg, edges) == IF leg \in lost THEN {} ELSE ToSet(edges)
             called == {c.callee : c \in {c \in read("callees", GetCallees(s)) :
                                            c.callee.symbol # NoName}}
             direct == \E c \in called : c.file = e.file /\ c.symbol = e.name
             between == {c \in read("callers", GetCallers(e)) :
                            \E d \in called : d.file = c.file /\ d.symbol = c.caller}
         IN IF direct
            THEN [verdict |-> "direct", via |-> {}]
            ELSE [verdict |-> IF between = {} THEN "none" ELSE "via",
                  via |-> {<<c.file, c.caller>> : c \in between}]

Traced(ask, lost) ==
    Trace(Definitions(ask.names[1], "start", lost), Definitions(ask.names[2], "end", lost), lost)

SymbolsPerFile == 15

\* Entries until the map is full; the imports come last.
RepoMap(ask, order) ==
    LET files == Take(Listed(Files, order), ask.lines)
        entry(f) == [file |-> f, role |-> IF f \in DOMAIN roles THEN roles[f] ELSE "internal",
                     symbols |-> IF ask.symbols
                                 THEN Take(SelectSeq(symbols, LAMBDA s : s.file = f), SymbolsPerFile)
                                 ELSE <<>>]
    IN [files |-> FoldLeft(LAMBDA entries, f : Append(entries, entry(f)), <<>>, files),
        edges |-> IF ask.edges THEN Take(graph.slots, ask.lines - Len(files)) ELSE <<>>]

---------------------------------------------------------------------------
(* The routes of search_code                                               *)

\* classify_query. A text has a number of words, and may have metacharacters of
\* patterns, a slash, a dot, an extension of code, a word that is an identifier.
Classify(text) ==
    LET asPath == {"slash", "extension"} \cap text.has # {}
        prose == text.words > 2 /\ (asPath => {"slash", "dot"} \subseteq text.has)
        named == text.words = 2 /\ ~asPath /\ "identifier" \in text.has
    IN IF text.words = 0 \/ ("pattern" \notin text.has /\ (prose \/ named))
       THEN "semantic" ELSE "grep"

\* An intent goes before the text; a pattern in a directory that is gone is
\* searched for by its meaning.
Route(ask) ==
    CASE ask.intent \in {"find", "understand"} -> "semantic"
      [] ask.intent = "impact" -> IF ask.names = <<>> THEN "refused" ELSE "impact"
      [] ask.intent = "trace"  -> IF Len(ask.names) < 2 THEN "refused" ELSE "trace"
      [] ask.intent = "none"   -> IF ask.gone THEN "semantic" ELSE Classify(ask.text)
      [] OTHER -> "refused"

InScope(f, scope) == IsPrefix(scope, f.path)

\* The first lines; those of changed files, if there are any, where either of the
\* two paths may be the end of the other one.
GrepRows(ask) ==
    LET lines == Take(ask.matches, ask.request.topK)
        below(f) == SubSeq(f.path, Len(ask.scope) + 1, Len(f.path))
        changed(f) == \E c \in Branch : IsSuffix(below(f), c.path) \/ IsSuffix(c.path, below(f))
    IN IF ask.request.branch /\ Branch # {}
       THEN SelectSeq(lines, LAMBDA l : changed(l.file))
       ELSE lines

---------------------------------------------------------------------------
(* Calls                                                                   *)

NoAnswer == [ask |-> [tool |-> "none"], state |-> "none", out |-> <<>>]

Ready ==
    /\ front = "mcp" /\ answer.state # "searching"
    /\ searches < MaxSearches
    /\ searches' = searches + 1
    /\ UNCHANGED <<searcher, embedded, cache, task, tables>>

Answers(ask, out) == answer' = [ask |-> ask, state |-> "answered", out |-> out]
Refuses(ask) == answer' = [ask |-> ask, state |-> "refused", out |-> <<>>]

CallFindSymbol(ask) ==
    /\ ask.tool = "find_symbol" /\ Ready
    /\ \/ Works /\ Answers(ask, SymbolRows(FindSymbols(ask.name, ask.kind)))
       \/ Fails("symbols") /\ Refuses(ask)

\* Runs with all parts, or without one of these legs.
Partly(Result(_), legs) ==
    \/ Works /\ Result({})
    \/ \E leg \in legs : Fails(leg) /\ Result({leg})

CallSymbolInfo(ask) ==
    /\ ask.tool = "get_symbol_info" /\ Ready
    /\ \/ LET answered(lost) ==
                  \E found \in {FindSymbols(ask.name, ask.kind)} :
                      Answers(ask, IF found = <<>> THEN <<>> ELSE SymbolContext(ask, found, lost))
          IN Partly(answered, {"chunks", "callers", "callees", "roles"})
       \/ Fails("symbols") /\ Refuses(ask)

CallFindDependents(ask) ==
    /\ ask.tool = "find_dependents" /\ Ready
    /\ Works /\ Answers(ask, ImpactSet(ask))

CallFindTests(ask) ==
    /\ ask.tool = "find_tests" /\ Ready
    /\ \/ Works /\ Answers(ask, TestContext(ask))
       \/ Fails("paths") /\ Refuses(ask)

CallRepoMap(ask) ==
    /\ ask.tool = "get_repo_map" /\ Ready
    /\ \/ Works /\ \E order \in Orders : Answers(ask, RepoMap(ask, ByFile(order)))
       \/ \E leg \in {"paths", "symbols", "roles"} : Fails(leg) /\ Refuses(ask)

\* search_code, where it does not search by meaning. The first name that comes
\* with the intent "impact" is that of a file.
CallSearchTables(ask) ==
    /\ ask.tool = "search_code" /\ Ready
    /\ CASE Route(ask) = "refused" -> Works /\ Refuses(ask)
         [] Route(ask) = "impact" ->
                Works /\ Answers(ask, ImpactSet([file |-> ask.names[1], depth |-> NoDepth]))
         [] Route(ask) = "grep" ->
                \/ Works /\ Answers(ask, GrepRows(ask))
                \/ Fails("paths") /\ Refuses(ask)
                \/ ask.request.branch /\ Fails("branch") /\ Refuses(ask)
         [] Route(ask) = "trace" ->
                LET answered(lost) == Answers(ask, Traced(ask, lost))
                IN Partly(answered, {"callers", "callees", "start", "end"})
         [] OTHER -> FALSE

\* search_code, passed on to the daemon.
CallSearch(ask, t) ==
    /\ front = "mcp" /\ answer.state # "searching"
    /\ ask.tool = "search_code" /\ Route(ask) = "semantic"
    /\ Begins(t, RequestOf(ask))
    /\ answer' = [ask |-> ask, state |-> "searching", out |-> t]
    /\ UNCHANGED tables

\* What the daemon found, as far as it is in the scope.
Deliver ==
    /\ answer.state = "searching" /\ Quiet(answer.out)
    /\ LET t == answer.out IN
       IF task[t].pc = "failed"
       THEN Refuses(answer.ask)
       ELSE Answers(answer.ask,
                    SelectSeq(task[t].hits, LAMBDA h : InScope(h.key.file, answer.ask.scope)))
    /\ UNCHANGED <<vars, tables>>

ListRows(rows, order) ==
    Sorted(rows, {xy \in rows \X rows :
                      \/ order[xy[1].file] < order[xy[2].file]
                      \/ xy[1].file = xy[2].file /\ xy[1].line < xy[2].line})

\* One order will do where no tool reads the tables.
ToolsInit ==
    /\ Init
    /\ \E order \in IF front = "mcp" THEN Orders ELSE {CHOOSE order \in Orders : TRUE} :
          /\ symbols = ListRows(IndexedSymbols(project), ByFile(order))
          /\ calls = ListRows(IndexedCalls(project, Edges, ByFile(order)), ByFile(order))
    /\ answer = NoAnswer

Searching == Next /\ UNCHANGED <<tables, answer>>

Call(ask) ==
    \/ CallFindSymbol(ask) \/ CallSymbolInfo(ask) \/ CallFindDependents(ask)
    \/ CallFindTests(ask) \/ CallRepoMap(ask) \/ CallSearchTables(ask)
    \/ \E t \in Tasks : CallSearch(ask, t)

ToolsNext ==
    \/ Searching
    \/ \E ask \in Asks : Call(ask)
    \/ Deliver

ToolsSpec == ToolsInit /\ [][ToolsNext]_toolVars

---------------------------------------------------------------------------
(* Properties                                                              *)

Batch(f) == CHOOSE k \in DOMAIN project.batches : f \in project.batches[k]

DefinedIn(name) == {s.file : s \in {s \in ToSet(symbols) : s.name = name}}

\* A call leads to a definition of its name, the caller's own one if it has one;
\* it leads nowhere only when an import is named so, or when the name is defined
\* in files of later batches alone.
CallsFindDefinitions ==
    \A c \in ToSet(calls) :
        IF c.callee.symbol # NoName
        THEN /\ c.callee.symbol = c.name /\ c.callee.file \in DefinedIn(c.name)
             /\ c.file \in DefinedIn(c.name) => c.callee.file = c.file
        ELSE \/ <<c.file, c.callee.file>> \in Edges
             \/ \A f \in DefinedIn(c.name) : Batch(f) > Batch(c.file)

\* The files that lead to f by n imports, each once.
Longer(edges, chains) ==
    UNION {{<<e[1]>> \o chain : e \in {e \in edges : e[2] = chain[1] /\ e[1] \notin ToSet(chain)}} :
           chain \in chains}
ChainsTo(f, limit) ==
    LET chains[n \in 0..limit] == IF n = 0 THEN {<<f>>} ELSE Longer(Edges, chains[n - 1])
    IN chains

\* find_dependents lists every file that a chain of imports leads from, as far as
\* it was asked to look, at the length of the shortest one, also where imports
\* lead around in a circle; and its tests have every test among the others that
\* import the file.
ImpactIsWhole ==
    answer.state = "answered" /\ answer.ask.tool = "find_dependents" =>
        LET f == answer.ask.file
            d == answer.ask.depth
            limit == IF d = NoDepth THEN 3 ELSE Min({d, MaxDepth})
            chains == ChainsTo(f, limit)
            ends(n) == {chain[1] : chain \in chains[n]}
            nearest(n) == ends(n) \ UNION {ends(m) : m \in 0..n - 1}
        IN /\ answer.out.direct = nearest(1)
           /\ answer.out.transitive = UNION {nearest(n) \X {n} : n \in 2..limit}
           /\ {e \in ToSet(Incoming(graph, f)) : e[1] # f /\ IsTestFilePath(e[1])} \subseteq
                  answer.out.tests \X {f}

\* Not so: the tests that a search takes for tests, and that import a file, are
\* among those that find_dependents and find_tests list for it
\* (crates/mcp/src/server.rs:2732-2736, README.md:134). A directory of tests at
\* the root of the project has no slash before its name.
AffectedTestsListed ==
    answer.state = "answered" /\ answer.ask.tool \in {"find_dependents", "find_tests"} =>
        {e[1] : e \in {e \in Edges : e[2] = answer.ask.file /\ IsTestFile(e[1])}}
            \subseteq answer.out.tests
=============================================================================
