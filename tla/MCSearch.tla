------------------------------- MODULE MCSearch -------------------------------
(* Constants of the TLC runs of Tools, and of Search within.                *)
EXTENDS Tools, TLC

CONSTANTS s1, s2

File(path, ext) == [path |-> path, ext |-> ext]
Use(head, segs) ==
    [head |-> head, ups |-> 1, segs |-> segs, as |-> "", stem |-> "", ext |-> ""]
Renamed(head, segs) == [Use(head, segs) EXCEPT !.as = "x"]

a    == Rs(<<"src", "a">>)
amod == Rs(<<"src", "a", "mod">>)
b    == Rs(<<"src", "b">>)
test == Rs(<<"tests", "b">>)
doc  == File(<<"docs", "a">>, "md")
meta == File(<<"readme">>, "md")

\* A package in a directory of its own, with some of the files that an import
\* may mean.
Layout(dir, may) == {Rs(<<dir>> \o path) : path \in {<<"src", "lib">>, <<"src", "b">>} \cup may}
MayMean == {<<"src", "a">>, <<"src", "a", "mod">>, <<"src", "a", "b">>}
Layouts ==
    {<<"none", {}>>, <<"plain", {<<"src", "a">>}>>, <<"dir", {<<"src", "a", "mod">>}>>,
     <<"deep", {<<"src", "a">>, <<"src", "a", "b">>}>>, <<"all", MayMean>>}
pya == File(<<"py", "a">>, "py")
pyb == File(<<"src", "py", "b", "__init__">>, "py")
pym == File(<<"py", "main">>, "py")
tsa == File(<<"web", "a">>, "ts")
tsb == File(<<"web", "b", "index">>, "ts")
goa == File(<<"go", "pkg", "a">>, "go")
gob == File(<<"go", "pkg", "b">>, "go")
goc == File(<<"go", "main_test">>, "go")
god == File(<<"svc", "main">>, "go")
goe == File(<<"svc", "pkg", "a">>, "go")
gof == File(<<"pkg", "a">>, "go")

Rusts == UNION {Layout(l[1], l[2]) : l \in Layouts}
Others == {pya, pyb, pym, tsa, tsb, goa, gob, goc, god, goe, gof}
AllFiles == {a, amod, b, test, doc, meta} \cup Rusts \cup Others
K(f, idx) == [file |-> f, idx |-> idx]
Keyed == {K(f, idx) : f \in AllFiles, idx \in {0, 1}}

OnePiece == <<[first |-> 1, last |-> 9, chars |-> 80]>>
\* Three pieces, of which the first is tiny; four, of which two are.
LeadingTiny == <<[first |-> 1, last |-> 1, chars |-> 10], [first |-> 2, last |-> 9, chars |-> 200],
                 [first |-> 10, last |-> 20, chars |-> 200]>>

NoCode == [defs |-> <<>>, calls |-> {}, aliases |-> {}]

Project(files, crates, imports, commits, code, batches, stale) ==
    [files |-> files, crates |-> crates,
     members |-> [pkg \in {"pkg", "plain"} |-> IF pkg = "pkg" THEN <<>> ELSE <<pkg>>],
     gomods |-> (<<>> :> <<"mod">>) @@ (<<"svc">> :> <<"mod", "go">>),
     tails |-> <<"gopkg", "go">> :> "pkg", stale |-> stale, testNamed |-> {goc},
     imports |-> [f \in files |-> IF f \in DOMAIN imports THEN imports[f] ELSE {}],
     pieces |-> [f \in files |-> IF f = a THEN LeadingTiny ELSE OnePiece],
     code |-> [f \in files |-> IF f \in DOMAIN code THEN code[f] ELSE NoCode],
     commits |-> commits, batches |-> batches]

\* a and b change together, and once with more files than a commit may count.
Many == [k \in 1..21 |-> IF k < 21 THEN Rs(<<"gen", ToString(k)>>) ELSE b]
Commits == <<<<a, b>>, <<a, b, test>>, <<amod>>, <<b, a>>, Many>>

Def(name, kind, first, last) == [name |-> name, kind |-> kind, first |-> first, last |-> last]
Calls(at) == {[name |-> c[1], line |-> c[2]] : c \in at}

\* Two definitions of g; calls of what is defined in a later batch, in a file that
\* is imported, in both, and of a name that an import has.
Code ==
    (a :> [defs |-> <<Def("f", "function", 2, 6)>>, aliases |-> {},
           calls |-> Calls({<<"g", 3>>, <<"b", 4>>, <<"T", 12>>})])
      @@ (amod :> [defs |-> <<Def("g", "function", 1, 3), Def("", "function", 4, 5)>>,
                   aliases |-> {}, calls |-> Calls({<<"g", 2>>, <<"f", 3>>})])
      @@ (b :> [defs |-> <<Def("T", "class", 1, 3), Def("g", "function", 5, 9)>>,
                aliases |-> {}, calls |-> Calls({<<"f", 6>>, <<"T", 7>>, <<"x", 8>>})])
      @@ (test :> [defs |-> <<Def("check", "function", 1, 5)>>,
                   aliases |-> {[alias |-> "x", original |-> "a"]},
                   calls |-> Calls({<<"f", 2>>, <<"x", 3>>})])

\* A package with a test, prose and a module that only exports; the document of a
\* removed file is still found.
Package ==
    Project({a, amod, b, test, doc}, {<<>>},
            (amod :> {Use("crate", <<"a">>)}) @@
            (a :> {Use("crate", <<"b", "T">>)}) @@ (test :> {Use("pkg", <<"a">>)})
              @@ (b :> {Use("crate", <<"{}">>), Use("crate", <<"a", "b", "T">>), Use("crate", <<"a", "T">>)}),
            Commits, Code, <<{a, amod, doc}, {b, test}>>, {meta})

\* Packages of every layout, in several languages. A module in a directory and
\* one in a file import through super and self.
Within(f) ==
    CASE Last(f.path) = "lib" -> {Use("crate", <<"a", "b">>), Use("self", <<"a", "b", "T">>),
                                  Renamed("plain", <<"b">>)}
      [] Last(f.path) = "b" /\ Len(f.path) = 3 -> {Use("self", <<"a", "*">>)}
      [] Last(f.path) = "mod" -> {Use("super", <<"b">>), Use("self", <<"b">>),
                                  Renamed("crate", <<"a", "b">>)}
      [] Len(f.path) = 4      -> {Use("super", <<"b">>), Use("plain", <<"a", "T">>)}
      [] OTHER -> {}
Relative(ups, segs, stem, ext) ==
    [head |-> ".", ups |-> ups, segs |-> segs, as |-> "", stem |-> stem, ext |-> ext]

Monorepo ==
    Project(Rusts \cup Others, {<<l[1]>> : l \in Layouts},
            (pym :> {Use("", <<"py", "a", "f">>), Use("", <<"py", "b">>), Use("", <<"py">>)})
              @@ (tsb :> {Relative(1, <<"a.js">>, "a", "js"), Relative(9, <<"a">>, "", "")})
              @@ (tsa :> {Relative(0, <<"b">>, "", ""), Use("react", <<>>)})
              @@ (goc :> {Use("", <<"mod", "go", "pkg">>), Use("", <<"fmt">>)})
              @@ (god :> {Use("", <<"mod", "go", "pkg">>), Use("", <<"mod", "gopkg">>)})
              @@ [f \in Rusts |-> Within(f)],
            \* git lists the files of a project in a directory of its repository
            \* by other paths than the index does.
            [k \in 1..3 |-> <<[tsa EXCEPT !.path = <<"mono">> \o @],
                              [tsb EXCEPT !.path = <<"mono">> \o @]>>],
            <<>>, <<Rusts \cup Others>>, {})

MCProjects == {Package, Monorepo}

Query(fts, vec, sparse, sims, verdicts, about) ==
    [fts |-> fts, vec |-> vec, sparse |-> sparse,
     sim |-> [k \in Keyed |-> IF k \in DOMAIN sims THEN sims[k] ELSE 60],
     verdict |-> [k \in Keyed |-> IF k \in DOMAIN verdicts THEN verdicts[k] ELSE 20000],
     about |-> about]

\* The test and the prose match as well as the code; then the other way around.
alike ==
    Query(<<K(test, 0), K(meta, 0), K(a, 0)>>,
          <<K(a, 0), K(test, 0), K(doc, 0)>>,
          <<K(b, 0), K(a, 0), K(test, 0)>>,
          K(a, 1) :> 20, K(doc, 0) :> 10000, {})
apart ==
    Query(<<K(meta, 0), K(test, 0), K(doc, 0), K(a, 1)>>, <<K(b, 0), K(tsb, 0), K(pyb, 0)>>, <<>>,
          K(amod, 0) :> 90, K(test, 0) :> 90000, {"testing"})

\* Two rows that resemble each other, and a third one.
spread ==
    Query(<<K(amod, 0), K(b, 0)>>, <<K(amod, 0), K(b, 0), K(a, 0)>>, <<>>,
          (K(amod, 0) :> 90) @@ (K(b, 0) :> 80), <<>>, {})

\* A reranker that gives negative scores.
doubted ==
    Query(<<K(a, 0), K(test, 0)>>, <<K(test, 0), K(a, 0)>>, <<>>, <<>>,
          (K(a, 0) :> -40000) @@ (K(test, 0) :> -50000), {})

NotSoQueries == {spread, doubted}

MCQueries == {alike, apart}

Request(q, topK, wide, diversity, budget, branch) ==
    [query |-> q, topK |-> topK, graph |-> wide, diversity |-> diversity, budget |-> budget,
     branch |-> branch]

MCRequests ==
    {Request(alike, 2, FALSE, 0, 1000, FALSE), Request(alike, 2, TRUE, 30, 60, TRUE),
     Request(apart, 3, TRUE, 0, 10, FALSE), Request(apart, 3, TRUE, 30, 1000, FALSE)}

\* The diversity that the tools of the MCP server ask for; and none.
NotSoRequests ==
    {Request(spread, 3, FALSE, 30, 1000, FALSE), Request(doubted, 3, FALSE, 0, 1000, FALSE)}

\* What an agent asks for.
Ask(tool, input) == [tool |-> tool] @@ input
SearchAsk(intent, names, words, has, scope, branch, gone) ==
    Ask("search_code",
        [intent |-> intent, names |-> names, text |-> [words |-> words, has |-> has],
         request |-> Request(alike, 2, FALSE, 30, 1000, branch), scope |-> scope,
         matches |-> <<[file |-> a, line |-> 3], [file |-> b, line |-> 6],
                       [file |-> b, line |-> 8]>>,
         gone |-> gone])

MCAsks ==
    {Ask("find_symbol", [name |-> "g", kind |-> "function"]),
     Ask("find_symbol", [name |-> "T", kind |-> "function"]),
     Ask("get_symbol_info", [name |-> "f", kind |-> "any", tests |-> TRUE]),
     Ask("get_symbol_info", [name |-> "check", kind |-> "any", tests |-> FALSE]),
     Ask("find_dependents", [file |-> a, depth |-> NoDepth]),
     Ask("find_dependents", [file |-> b, depth |-> 9]),
     Ask("find_dependents", [file |-> goa, depth |-> 1]),
     Ask("find_tests", [file |-> a]),
     Ask("find_tests", [file |-> goa]),
     Ask("get_repo_map", [symbols |-> TRUE, edges |-> TRUE, lines |-> 6]),
     SearchAsk("none", <<>>, 4, {}, <<"src">>, FALSE, FALSE),
     SearchAsk("none", <<>>, 1, {"identifier"}, <<"src">>, TRUE, FALSE),
     SearchAsk("none", <<>>, 1, {"slash"}, <<"lib">>, FALSE, TRUE),
     SearchAsk("understand", <<>>, 2, {}, <<>>, FALSE, FALSE),
     SearchAsk("impact", <<b>>, 0, {}, <<>>, FALSE, FALSE),
     SearchAsk("impact", <<>>, 0, {}, <<>>, FALSE, FALSE),
     SearchAsk("trace", <<"f", "g">>, 0, {}, <<>>, FALSE, FALSE),
     SearchAsk("trace", <<"check", "g">>, 0, {}, <<>>, FALSE, FALSE)}

\* The tools that read the graph of imports.
GraphAsks == {ask \in MCAsks : ask.tool \in {"find_dependents", "find_tests"}}

None == {}

MCAlike ==
    [p \in Keyed \X Keyed |->
        IF p[1].file = p[2].file \/ {p[1].file, p[2].file} = {amod, b} THEN 90 ELSE 30]
MCDistance == [p \in Keyed \X Keyed |-> IF {p[1].file, p[2].file} = {a, amod} THEN 20 ELSE 80]
MCWeight == [f \in AllFiles |-> IF f = b THEN 103 ELSE 100]
MCBranch == {b}

Settings(unified, sparse, boost, rerank) ==
    [unified |-> unified, sparse |-> sparse, cochange |-> boost, rerank |-> rerank]
MCConfigs ==
    {Settings(FALSE, TRUE, TRUE, TRUE), Settings(TRUE, FALSE, FALSE, FALSE)}

\* A hash map lists the rows in this order, or in the opposite one.
FileOrder == FoldSet(LAMBDA f, files : Append(files, f), <<>>, AllFiles)
Forward == [k \in Keyed |-> 2 * (CHOOSE n \in DOMAIN FileOrder : FileOrder[n] = k.file) + k.idx]
Backward == [k \in Keyed |-> 100 - Forward[k]]
MCOrders == {Forward, Backward}

AllFronts == {"daemon", "cli", "mcp"}
TaskSymmetry == Permutations({s1, s2})
=============================================================================
