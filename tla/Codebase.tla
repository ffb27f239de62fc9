------------------------------- MODULE Codebase -------------------------------
(***************************************************************************)
(* What an index is made of: the chunks of a file                          *)
(* (crates/core/src/chunker/mod.rs) and the files that its imports resolve *)
(* to (crates/core/src/resolve), as functions of a project.                *)
(*                                                                         *)
(* A file is the names on its path and its extension: src/a/mod.rs is      *)
(* [path |-> <<"src", "a", "mod">>, ext |-> "rs"]. A project is a record:  *)
(*   files    the indexed files                                            *)
(*   crates   the directories below its root that hold a Cargo.toml        *)
(*   members  the packages of its workspace, with their directories        *)
(*   gomods   the directories with a go.mod, with the module paths in them *)
(*   tails    of names that begin with another one, what is left after it  *)
(*   imports  the imports of each file, as the query of its language       *)
(*            captures them                                                *)
(*   pieces   the pieces each file is split into: [first, last, chars]     *)
(*   commits  the files of each commit, as git lists them: by their paths   *)
(*            below the root of the repository                             *)
(* An import is a record [head, ups, segs, as, stem, ext] of the names as  *)
(* they are written. In Rust, head is "crate", "self", "super" (ups of     *)
(* them) or the name of a package; segs are the names after it, of which   *)
(* the last may be "*" or, for a list in braces, "{}"; as is the name that *)
(* it is renamed to, if any. (Raw identifiers are left out.) In            *)
(* TypeScript, head is "." with ups components "..", or the name of a      *)
(* package; if the last name has an extension that is written, stem and    *)
(* ext are its parts. In Python and Go, segs are all the names of a path.  *)
(***************************************************************************)
EXTENDS Naturals, Sequences, SequencesExt, FiniteSetsExt

\* Stands for the last name of a Rust import together with the name after "as".
AsName == " as "

\* What is so of every project, as far as its files and imports go. Keywords are
\* the names of no package, and no file has a name with an "as" in it.
IsProject(p) ==
    /\ IsFiniteSet(p.files)
    /\ \A f \in p.files :
          /\ f = [path |-> f.path, ext |-> f.ext] /\ f.path \in Seq(STRING) \ {<<>>}
          /\ \A k \in DOMAIN f.path : f.path[k] # AsName
          /\ p.pieces[f] \in Seq([first : Nat, last : Nat, chars : Nat])
    /\ \A k \in DOMAIN p.commits : IsFiniteSet(DOMAIN p.commits[k])
    /\ IsFiniteSet(DOMAIN p.commits)
    /\ DOMAIN p.imports \subseteq p.files
    /\ \A f \in DOMAIN p.imports : \A i \in p.imports[f] :
          i.segs \in Seq(STRING) /\ i.ups \in Nat /\ i.stem \in STRING
    /\ {"crate", "self", "super"} \cap DOMAIN p.members = {}
    /\ \A pkg \in DOMAIN p.members : p.members[pkg] \in Seq(STRING)
    /\ \A dir \in DOMAIN p.gomods : p.gomods[dir] \in Seq(STRING)
    /\ \A named \in DOMAIN p.tails : p.tails[named] \in STRING

\* The elements of a set, x ahead of y where <<x, y>> is in `before`.
Sorted(S, before) ==
    LET sorted[n \in 0..Cardinality(S)] ==
            IF n = 0 THEN <<>>
            ELSE LET done == sorted[n - 1]
                     rest == S \ ToSet(done)
                 IN Append(done, CHOOSE x \in rest : \A y \in rest : <<y, x>> \notin before)
    IN sorted[Cardinality(S)]

Rs(path) == [path |-> path, ext |-> "rs"]

Dir(f) == Front(f.path)

Up(dir, n) == SubSeq(dir, 1, Len(dir) - n)

\* The innermost of these directories around a file, where there is one.
Around(f, dirs) == {n \in 0..Len(Dir(f)) : SubSeq(f.path, 1, n) \in dirs}

Innermost(f, dirs) ==
    SubSeq(f.path, 1, CHOOSE n \in Around(f, dirs) : \A m \in Around(f, dirs) : m <= n)

\* The first of the candidates that is indexed: the answer of a resolver is a
\* set of at most one file, unless more say otherwise.
FirstIn(p, candidates) ==
    LET found == {k \in DOMAIN candidates : candidates[k] \in p.files} IN
    {candidates[k] : k \in {k \in found : \A j \in found : k <= j}}

---------------------------------------------------------------------------
(* Rust                                                                    *)

\* The files that may hold the module at a path.
ModuleFiles(path) == <<Rs(path), Rs(Append(path, "mod"))>>

\* Mutant: the item is dropped before the whole path is tried.
ResolveItemFirst(p, base, segs) ==
    IF segs = <<>>
    THEN {}
    ELSE FirstIn(p, (IF Len(segs) > 1 THEN ModuleFiles(base \o Front(segs)) ELSE <<>>)
                     \o ModuleFiles(base \o segs))

\* The last name may be an item of a module, or a module.
ResolveFromBase(p, base, segs) ==
    IF segs = <<>>
    THEN {}
    ELSE FirstIn(p, ModuleFiles(base \o segs)
                     \o (IF Len(segs) > 1 THEN ModuleFiles(base \o Front(segs)) ELSE <<>>))

\* src of the innermost package around the file, of the project if there is none.
CrateSrc(p, f) ==
    IF Around(f, p.crates) = {} THEN <<"src">> ELSE Append(Innermost(f, p.crates), "src")

\* The names of an import, without the star of a glob.
Bare(i) == IF i.segs # <<>> /\ Last(i.segs) = "*" THEN Front(i.segs) ELSE i.segs

HasBraces(i) == \E k \in DOMAIN i.segs : i.segs[k] = "{}"

\* extract_rust, of an import without braces: a last name that is renamed stays as it
\* is written, and no file is called so.
ExtractRust(i) ==
    IF i.as # "" /\ Bare(i) # <<>> THEN Append(Front(Bare(i)), AsName) ELSE Bare(i)

\* super:: goes up from the directory of the file.
ResolvePath(p, f, i, segs) ==
    CASE i.head = "crate" -> ResolveFromBase(p, CrateSrc(p, f), segs)
      [] i.head = "self"  -> ResolveFromBase(p, Dir(f), segs)
      [] i.head = "super" -> IF i.ups > Len(Dir(f))
                             THEN {}
                             ELSE ResolveFromBase(p, Up(Dir(f), i.ups), segs)
      [] i.head \in DOMAIN p.members ->
             ResolveFromBase(p, Append(p.members[i.head], "src"), segs)
      [] OTHER -> {}

ResolveRust(p, f, i) ==
    IF HasBraces(i) THEN {} ELSE ResolvePath(p, f, i, ExtractRust(i))

---------------------------------------------------------------------------
(* Python, TypeScript and Go                                               *)

Py(path) == <<[path |-> path, ext |-> "py"], [path |-> Append(path, "__init__"), ext |-> "py"]>>

TryPython(base, segs) ==
    Py(base \o segs) \o (IF Len(segs) > 1 THEN Py(base \o Front(segs)) ELSE <<>>)

\* From the root of the project, then from its src directory.
ResolvePython(p, i) ==
    FirstIn(p, TryPython(<<>>, i.segs) \o TryPython(<<"src">>, i.segs))

TsFile(path, exts) == [k \in DOMAIN exts |-> [path |-> path, ext |-> exts[k]]]

\* As it is written, with .ts for .js, with an extension, as a directory.
ResolveTypeScript(p, f, i) ==
    LET path == Up(Dir(f), i.ups) \o i.segs
        stem == Append(Front(path), i.stem)
        written ==
            IF i.ext = "" THEN <<>>
            ELSE TsFile(stem, IF i.ext = "js" THEN <<"js", "ts", "tsx">> ELSE <<i.ext>>)
    IN IF i.head # "." \/ i.ups > Len(Dir(f))
       THEN {}
       ELSE FirstIn(p, written \o (TsFile(path, <<"ts", "tsx", "js", "jsx">>)
                                     \o TsFile(Append(path, "index"), <<"ts", "tsx", "js">>)))

\* The path of the module that the file is in.
ModuleOf(p, f) == p.gomods[Innermost(f, DOMAIN p.gomods)]

\* What is left of the path of an import after that of the module. It need not end
\* where a name ends. Nothing is left where it is no prefix.
AfterModule(p, module, segs) ==
    LET n == Len(module)
        rest == SubSeq(segs, n + 1, Len(segs))
    IN IF n = 0 \/ n > Len(segs) \/ SubSeq(segs, 1, n - 1) # Front(module)
       THEN <<>>
       ELSE IF segs[n] = module[n] THEN rest
       ELSE IF <<segs[n], module[n]>> \in DOMAIN p.tails
       THEN <<p.tails[<<segs[n], module[n]>>]>> \o rest
       ELSE <<>>

\* Any file of the package, which is looked for from the root of the project: the one
\* that the iteration of a hash set finds.
ResolveGo(p, f, i) ==
    LET dir == AfterModule(p, ModuleOf(p, f), i.segs) IN
    IF Around(f, DOMAIN p.gomods) = {} \/ dir = <<>>
    THEN {}
    ELSE {g \in p.files : g.ext = "go" /\ Dir(g) = dir}

\* extract_import_path, resolver_for_extension and resolve. Other languages have no
\* resolver, or, of mjs, cjs and pyi, no grammar that finds their imports.
Resolve(p, f, i) ==
    CASE f.ext = "rs" -> ResolveRust(p, f, i)
      [] f.ext \in {"ts", "tsx", "js", "jsx"} -> ResolveTypeScript(p, f, i)
      [] f.ext = "py" -> ResolvePython(p, i)
      [] f.ext = "go" -> ResolveGo(p, f, i)
      [] OTHER -> {}

Imports(p) == UNION {{<<f, i>> : i \in p.imports[f]} : f \in DOMAIN p.imports}

\* The edges that an indexing pass may store for the project: one for every
\* import that resolves.
EdgeSets(p) ==
    LET to(fi) == Resolve(p, fi[1], fi[2])
        one == {fi \in Imports(p) : Cardinality(to(fi)) = 1}
        any == {fi \in Imports(p) : Cardinality(to(fi)) > 1}
        chosen == {goal \in [any -> UNION {to(fi) : fi \in any}] : \A fi \in any : goal[fi] \in to(fi)}
    IN {(UNION {{fi[1]} \X to(fi) : fi \in one}) \cup {<<fi[1], goal[fi]>> : fi \in any} :
            goal \in chosen}

---------------------------------------------------------------------------
(* Chunks                                                                  *)

MinChunkChars == 40
MinChunkLines == 2

Tiny(piece) ==
    piece.chars < MinChunkChars /\ piece.last - piece.first + 1 < MinChunkLines

\* Two pieces with a line end between them.
Joined(a, b) == [first |-> a.first, last |-> b.last, chars |-> a.chars + 1 + b.chars]

\* A tiny piece joins the one before it.
MergeBackward(pieces) ==
    LET merged[n \in 0..Len(pieces)] ==
            IF n = 0 THEN <<>>
            ELSE IF Tiny(pieces[n]) /\ merged[n - 1] # <<>>
            THEN Append(Front(merged[n - 1]), Joined(Last(merged[n - 1]), pieces[n]))
            ELSE Append(merged[n - 1], pieces[n])
    IN merged[Len(pieces)]

\* Then a leading one that is still tiny joins the one after it.
MergeSmallChunks(pieces) ==
    LET merged == MergeBackward(pieces) IN
    IF Len(pieces) > 1 /\ Len(merged) > 1 /\ Tiny(Head(merged))
    THEN <<Joined(merged[1], merged[2])>> \o SubSeq(merged, 3, Len(merged))
    ELSE merged

\* The rows of table chunks: the survivors, numbered from 0.
RowsOfFile(p, f) ==
    LET merged == MergeSmallChunks(p.pieces[f]) IN
    {[file |-> f, idx |-> k - 1, first |-> merged[k].first, last |-> merged[k].last,
      chars |-> merged[k].chars] : k \in DOMAIN merged}

Rows(p) == UNION {RowsOfFile(p, f) : f \in p.files}

---------------------------------------------------------------------------
(* Co-change                                                               *)

MaxFilesPerCommit == 20
MinCommits == 3

SourceExts == {"rs", "md", "py", "ts", "tsx", "js", "jsx", "go", "kt"}

\* parse_git_log: of a commit the files that an index may hold, the first twenty.
\* A commit without any counts for no pair.
CommittedFiles(commit) ==
    LET sources == {k \in DOMAIN commit : commit[k].ext \in SourceExts}
        first == {k \in sources : Cardinality({j \in sources : j <= k}) <= MaxFilesPerCommit}
    IN {commit[k] : k \in first}

\* compute_cochange_pairs: files that changed together in three commits at least,
\* and in a tenth of the commits of either. Without git, or outside of a
\* repository, there are no commits. A pair stands for both of its orders.
CochangePairs(p) ==
    LET with(files) ==
            Cardinality({k \in DOMAIN p.commits : files \subseteq CommittedFiles(p.commits[k])})
        changed == UNION {CommittedFiles(p.commits[k]) : k \in DOMAIN p.commits}
        either(pair) == with({pair[1]}) + with({pair[2]}) - with({pair[1], pair[2]})
        pairs == {pair \in changed \X changed :
                      /\ pair[1] # pair[2]
                      /\ with({pair[1], pair[2]}) >= MinCommits
                      /\ 10 * with({pair[1], pair[2]}) >= either(pair)}
    IN {<<pair[1], pair[2], (100 * with({pair[1], pair[2]})) \div either(pair)>> : pair \in pairs}

---------------------------------------------------------------------------
(* References: what the languages say, to compare with                     *)

IsModuleRoot(f) == Last(f.path) \in {"mod", "lib", "main"}

\* The path of the Rust module in a file, from src.
ModulePath(f) == IF IsModuleRoot(f) THEN Dir(f) ELSE f.path

\* The module where the path of an import begins.
Origin(p, f, i) ==
    CASE i.head = "crate" -> CrateSrc(p, f)
      [] i.head = "self"  -> ModulePath(f)
      [] i.head = "super" -> Up(ModulePath(f), i.ups)
      [] OTHER -> Append(p.members[i.head], "src")

\* The paths that an import may mean.
NamedPaths(p, f, i) ==
    CASE f.ext = "rs" -> {Origin(p, f, i) \o Bare(i)}
      [] f.ext = "py" -> {i.segs, <<"src">> \o i.segs}
      [] f.ext = "go" -> {Innermost(f, DOMAIN p.gomods)
                            \o SubSeq(i.segs, Len(ModuleOf(p, f)) + 1, Len(i.segs))}
      [] OTHER -> LET path == Up(Dir(f), i.ups) \o i.segs
                  IN {path} \cup (IF i.ext = "" THEN {} ELSE {Append(Front(path), i.stem)})

\* The name of a file that stands for its directory, and the paths that name a file
\* in a language: its own, and that of the directory it stands for.
Standing(ext) == CASE ext = "rs" -> "mod" [] ext = "py" -> "__init__" [] OTHER -> "index"

OwnPaths(ext, g) ==
    IF ext = "go" THEN {Dir(g)}
    ELSE {g.path} \cup (IF Last(g.path) = Standing(ext) THEN {Dir(g)} ELSE {})

IsAt(ext, path, g) ==
    /\ ext \in {"rs", "py", "go"} => g.ext = ext
    /\ path \in OwnPaths(ext, g)

\* g is the module at a path, or the one that the item at that path is in.
IsModuleAt(p, ext, path, g) ==
    \/ IsAt(ext, path, g)
    \/ /\ ext \in {"rs", "py"} /\ path # <<>>
       /\ IsAt(ext, Front(path), g)
       /\ \A h \in p.files : ~IsAt(ext, path, h)

\* g is what import i of f names.
Names(p, f, i, g) ==
    /\ f.ext = "rs" => i.head \in {"crate", "self", "super"} \cup DOMAIN p.members
    /\ f.ext = "go" => IsPrefix(ModuleOf(p, f), i.segs)
    /\ \E path \in NamedPaths(p, f, i) : IsModuleAt(p, f.ext, path, g)

\* The imports that the resolvers take for others: those of Rust that are renamed, or
\* begin at a module in a file of its own name; in Go, those in a module below the root
\* of the project, and those that begin with its path as a text only.
Misread(p, f, i) ==
    \/ f.ext = "rs" /\ i.as # ""
    \/ f.ext = "rs" /\ i.head \in {"self", "super"} /\ ~IsModuleRoot(f)
    \/ /\ f.ext = "go"
       /\ \/ Innermost(f, DOMAIN p.gomods) # <<>>
          \/ ~IsPrefix(ModuleOf(p, f), i.segs)

\* Where such an import leads: from the directory of the file, and to the module around
\* what is renamed; in Go, to the package that has what is left as its path.
ReadOrigin(p, f, i) ==
    CASE i.head = "self"  -> Dir(f)
      [] i.head = "super" -> Up(Dir(f), i.ups)
      [] OTHER -> Origin(p, f, i)

Leads(p, f, i, g) ==
    LET path == ReadOrigin(p, f, i) \o Bare(i) IN
    IF f.ext = "go" THEN IsAt("go", AfterModule(p, ModuleOf(p, f), i.segs), g)
    ELSE IF i.as = "" THEN IsModuleAt(p, "rs", path, g)
    ELSE IsAt("rs", Front(path), g)
=============================================================================
