-------------------------------- MODULE Symbols --------------------------------
(***************************************************************************)
(* The symbols of a project, the calls between them, and what an indexing  *)
(* run makes of both (crates/core/src/symbols.rs, and phase 2e of          *)
(* crates/core/src/indexer.rs), as functions of a project. In addition to  *)
(* what Codebase says, a project has                                       *)
(*   code     of each file, as its grammar captures it: the definitions    *)
(*            defs [name, kind, first, last] (lines, no two of which begin *)
(*            on the same one; anonymous ones have no name), the call      *)
(*            sites calls [name, line], and the names that an import       *)
(*            renames, aliases [alias, original]                           *)
(*   batches  the files of each batch of the run that indexes them         *)
(* A name is a string, "" where there is none.                             *)
(***************************************************************************)
EXTENDS Codebase

NoName == ""

\* What is so of the code of every project: no file is in two batches.
HasCode(p) ==
    /\ p.batches \in Seq(SUBSET p.files)
    /\ \A j, k \in DOMAIN p.batches : j # k => p.batches[j] \cap p.batches[k] = {}
    /\ \A f \in p.files :
          /\ p.code[f].defs \in Seq(ToSet(p.code[f].defs))
          /\ \A d \in ToSet(p.code[f].defs) : d.first \in Nat
          /\ IsFiniteSet(p.code[f].calls)
          /\ \A c \in p.code[f].calls : c.line \in Nat

\* config_for_extension: languages with a grammar.
Parsed == {"rs", "nix", "py", "ts", "tsx", "js", "jsx", "go", "java", "c", "h", "cpp", "cc",
           "cxx", "hpp", "rb", "php", "cs", "kt", "kts", "swift", "scala", "sc"}

\* tags_info_for_extension: languages with a tags query. Those in "mjs" and "cjs"
\* have one, and no grammar.
Tagged == (Parsed \ {"nix", "cs", "kt", "kts", "scala", "sc"}) \cup {"mjs", "cjs"}

NormalKinds ==
    [function_item |-> "function", function_definition |-> "function",
     function_declaration |-> "function", method_declaration |-> "method",
     method_definition |-> "method", struct_item |-> "struct", trait_item |-> "trait",
     enum_item |-> "enum", class_declaration |-> "class", class_definition |-> "class",
     impl_item |-> "impl", interface_declaration |-> "interface", type_declaration |-> "type"]

\* normalize_kind
NormalKind(kind) == IF kind \in DOMAIN NormalKinds THEN NormalKinds[kind] ELSE kind

Named(p, f) == {d \in ToSet(p.code[f].defs) : d.name # NoName}

\* extract_symbols. A tag spans the name of its definition, on one line; the
\* traversal of the tree gives the whole node.
ExtractSymbols(p, f) ==
    IF f.ext \notin Parsed
    THEN {}
    ELSE IF f.ext \in Tagged
         THEN {[file |-> f, name |-> d.name, kind |-> d.kind, line |-> d.first,
                last |-> d.first] : d \in Named(p, f)}
         ELSE {[file |-> f, name |-> d.name, kind |-> NormalKind(d.kind), line |-> d.first,
                last |-> d.last] : d \in Named(p, f)}

\* extract_references: call sites, of languages with tags.
ExtractReferences(p, f) ==
    {c \in p.code[f].calls : f.ext \in Tagged /\ c.name # NoName}

\* extract_import_aliases, but for names that bind nothing.
ExtractAliases(p, f) ==
    {a \in p.code[f].aliases :
        /\ f.ext \in {"rs", "py", "ts", "tsx", "js", "jsx"}
        /\ a.alias \notin {NoName, "_"}}

---------------------------------------------------------------------------
(* Calls                                                                   *)

\* find_enclosing_symbol: the narrowest of the definitions around a line; where
\* none is known to span it, the last one that begins before it.
EnclosingSymbol(rows, line) ==
    LET callable == {s \in rows : s.kind \in {"function", "method", "class"}}
        around == {s \in callable : s.last > s.line /\ s.line <= line /\ line <= s.last}
        before == {s \in callable : s.line <= line}
        narrowest == CHOOSE s \in around : \A t \in around : s.last - s.line <= t.last - t.line
        latest == CHOOSE s \in before : \A t \in before : t.line <= s.line
    IN IF around # {} THEN narrowest.name
       ELSE IF before # {} THEN latest.name ELSE "<module>"

Nowhere == [path |-> <<>>, ext |-> NoName]

\* path_proximity, in percent; the directory above the root is the root.
Proximity(f, g) ==
    LET above(dir) == IF dir = <<>> THEN <<>> ELSE Front(dir) IN
    IF Dir(f) = Dir(g) THEN 70 ELSE IF above(Dir(f)) = above(Dir(g)) THEN 50 ELSE 30

\* resolved_import_targets: the files that f imports, by the name of the file or
\* by an alias of that name. (Names with an extension are keys too, which no call
\* has.)
ImportTargets(p, f, edges, name) ==
    LET imported(n) == {e[2] : e \in {e \in edges : e[1] = f /\ Last(e[2].path) = n}} IN
    IF imported(name) # {}
    THEN imported(name)
    ELSE UNION {imported(a.original) : a \in {a \in ExtractAliases(p, f) : a.alias = name}}

FirstOf(files, order) == CHOOSE f \in files : \A g \in files : order[f] <= order[g]

\* Mutant: the file of an import is taken to define the name.
ResolveCallTrusting(name, f, own, targets, known, order) ==
    IF \E s \in own : s.name = name
    THEN [file |-> f, symbol |-> name, trust |-> 100]
    ELSE IF targets # {}
    THEN [file |-> FirstOf(targets, order), symbol |-> name, trust |-> 100]
    ELSE IF known # {}
    THEN LET g == FirstOf({s.file : s \in known}, order) IN
         [file |-> g, symbol |-> name, trust |-> Proximity(f, g)]
    ELSE [file |-> Nowhere, symbol |-> NoName, trust |-> 0]

\* resolve_call: a definition in the same file, else one in an imported file of
\* that name, else the first that the table of symbols lists.
ResolveCall(name, f, own, targets, known, order) ==
    IF \E s \in own : s.name = name
    THEN [file |-> f, symbol |-> name, trust |-> 100]
    ELSE IF targets # {}
    THEN LET g == FirstOf(targets, order) IN
         IF \E s \in known : s.file = g
         THEN [file |-> g, symbol |-> name, trust |-> 100]
         ELSE [file |-> g, symbol |-> NoName, trust |-> 80]
    ELSE IF known # {}
    THEN LET g == FirstOf({s.file : s \in known}, order) IN
         [file |-> g, symbol |-> name, trust |-> Proximity(f, g)]
    ELSE [file |-> Nowhere, symbol |-> NoName, trust |-> 0]

\* The edges of the calls in f, when these are the rows of table symbols.
CallEdges(p, f, symbols, edges, order) ==
    LET own == {s \in symbols : s.file = f}
        known(name) == {s \in symbols : s.name = name}
    IN {[file |-> f, caller |-> EnclosingSymbol(own, c.line), name |-> c.name, line |-> c.line,
         callee |-> ResolveCall(c.name, f, own, ImportTargets(p, f, edges, c.name),
                                known(c.name), order)] : c \in ExtractReferences(p, f)}

\* The rows of table symbols when the calls of batch k are resolved: those of all
\* files up to and with the batch.
SymbolsAfter(p, k) ==
    UNION {ExtractSymbols(p, f) : f \in UNION {p.batches[j] : j \in 1..k}}

\* The tables symbols and call_edges after a run over the whole project. Orders
\* are those in which queries list files.
IndexedSymbols(p) == SymbolsAfter(p, Len(p.batches))

IndexedCalls(p, edges, order) ==
    LET known == [k \in DOMAIN p.batches |-> SymbolsAfter(p, k)]
    IN UNION {UNION {CallEdges(p, f, known[k], edges, order) : f \in p.batches[k]} :
                 k \in DOMAIN p.batches}
=============================================================================
