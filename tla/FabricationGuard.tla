-------------------------- MODULE FabricationGuard --------------------------
(***************************************************************************)
(* The code adapter's answer to one edit: paths under .leonard are the     *)
(* operator's, oversize payloads are refused, and a reference to a name    *)
(* of the project that the index does not know is a fabrication.           *)
(*                                                                         *)
(* A path is a sequence of segments.  A snippet is a sequence of items of  *)
(* Go source: what each is, what it imports, what it refers to.            *)
(***************************************************************************)
EXTENDS Naturals, Sequences, FiniteSets, SequencesExt, FiniteSetsExt

LeonardDir == {".leonard", ".LEONARD"}
Versions == {"v2"}

-----------------------------------------------------------------------------
(* Paths                                                                   *)

\* filepath.Clean of a rooted path: a segment goes on the end, ".." takes one off.
Joined(out, seg) == IF seg = ".." THEN SubSeq(out, 1, Len(out) - 1) ELSE Append(out, seg)

Clean(path) ==
  LET cleaned[k \in 0 .. Len(path)] ==
        IF k = 0 THEN <<>> ELSE Joined(cleaned[k - 1], path[k])
  IN cleaned[Len(path)]

IsUnderLeonardDir(path) == ToSet(Clean(path)) \cap LeonardDir # {}

\* `real` maps what exists, the root at least, to where it is: the deepest
\* ancestor that exists is followed, the rest of the path is kept.  (The code
\* gives up 4096 levels above a path that does not exist, pre_edit.go:783.)
Resolved(path, real) ==
  LET n == Max({k \in 0 .. Len(path) : SubSeq(path, 1, k) \in DOMAIN real})
  IN real[SubSeq(path, 1, n)] \o SubSeq(path, n + 1, Len(path))

IsUnderLeonardDirResolved(path, real) == IsUnderLeonardDir(Resolved(path, real))

\* A command is a sequence of names, slashes and blanks.
PieceIn(command, k, pieces) == k \notin DOMAIN command \/ command[k] \in pieces

BashTouchesLeonardDir(command) ==
  \E k \in DOMAIN command :
    /\ command[k] \in LeonardDir
    /\ \/ k < Len(command) /\ command[k + 1] = "/"
       \/ PieceIn(command, k - 1, {" "}) /\ PieceIn(command, k + 1, {" "})
       \/ PieceIn(command, k - 1, {"/"}) /\ PieceIn(command, k + 1, {"/"})

-----------------------------------------------------------------------------
(* Snippets                                                                *)

SnippetsForTool(p) ==
  CASE p.tool \in {"Edit", "Write", "NotebookEdit"} -> << p.content >>
    [] p.tool = "MultiEdit" -> p.edits
    [] OTHER -> <<>>

OverSize(p, env) ==
  \/ Len(SnippetsForTool(p)) > env.maxEdits
  \/ \E s \in ToSet(SnippetsForTool(p)) : Len(s) > env.maxSnippet

\* Imports, then declarations.
TopLevel(s) ==
  \A k \in DOMAIN s : /\ s[k].kind \in {"import", "func", "decl"}
                      /\ s[k].kind = "import" => \A j \in 1 .. k : s[j].kind = "import"

\* parseSnippet: a file, declarations under a package clause, or the body of a
\* function.  What does not parse is let through.
Parses(s) ==
  \/ s # <<>> /\ s[1].kind = "package" /\ TopLevel(Tail(s))
  \/ TopLevel(s)
  \/ \A k \in DOMAIN s : s[k].kind \in {"stmt", "decl"}

Imports(s) == FlattenSeq([k \in DOMAIN s |-> s[k].imports])

-----------------------------------------------------------------------------
(* What a name before a dot stands for                                     *)

\* The directory, or its parent when it is a major version.
DefaultPackageAlias(path) ==
  IF Last(path) \in Versions /\ Len(path) > 1 THEN Last(Front(path)) ELSE Last(path)

ImportAlias(imp) == IF imp.name = "" THEN DefaultPackageAlias(imp.path) ELSE imp.name

\* The last of two imports under one name stays.
CollectImports(imps) ==
  LET at(name) == {k \in DOMAIN imps : ImportAlias(imps[k]) = name}
      names == {ImportAlias(imps[k]) : k \in DOMAIN imps} \ {"_", "."}
  IN [name \in names |-> imps[Max(at(name))].path]

\* The packages of the module by name, in the order of the walk: the first of
\* two directories with one package name stays.  `skipped` are tests, links,
\* hidden and vendored files, and those without a package clause.
ReadSiblingPackages(tree, module) ==
  LET files == {k \in DOMAIN tree : ~ tree[k].skipped /\ tree[k].package # "main"}
      names == IF module = <<>> THEN {} ELSE {tree[k].package : k \in files}
  IN [name \in names |-> module \o tree[Min({k \in files : tree[k].package = name})].dir]

\* What is named already stays.
Extended(imports, more) ==
  [x \in DOMAIN imports \cup DOMAIN more |->
     IF x \in DOMAIN imports THEN imports[x] ELSE more[x]]

\* Mutant: a package of the module comes before an import.
AliasesSiblingsFirst(s, env) ==
  Extended(Extended(ReadSiblingPackages(env.tree, env.module), CollectImports(Imports(s))),
           CollectImports(env.fileImports))

\* The snippet's imports, then those of the file on disk, then the packages of
\* the module.
Aliases(s, env) ==
  Extended(Extended(CollectImports(Imports(s)), CollectImports(env.fileImports)),
           ReadSiblingPackages(env.tree, env.module))

IsTrackedImport(path, module) == module # <<>> /\ IsPrefix(module, path)

\* The references the store is asked about.  They are syntactic: a local
\* variable that has the name of a package is taken for the package.
Asked(s, env) ==
  LET aliases == Aliases(s, env)
  IN {r \in UNION {s[k].refs : k \in DOMAIN s} :
        r.x \in DOMAIN aliases /\ IsTrackedImport(aliases[r.x], env.module)}

-----------------------------------------------------------------------------
(* The decision                                                            *)

\* HasSymbol: any row of that name will do, whatever its package.  Without a
\* database every name is there.
Fabricated(s, env) ==
  IF env.store = "none" THEN {} ELSE {r \in Asked(s, env) : r.sel \notin env.symbols}

\* The edits that are the operator's to make.
OperatorsOwn(p, env) ==
  \/ IsUnderLeonardDir(p.path) \/ IsUnderLeonardDirResolved(p.path, env.real)
  \/ p.tool = "Bash" /\ BashTouchesLeonardDir(p.command)

\* decidePreEdit.  An error other than a refused payload is no opinion.
DecidePreEdit(p, env) ==
  LET scanned == {s \in ToSet(SnippetsForTool(p)) : s # <<>> /\ Parses(s)}
      lookups == UNION {Asked(s, env) : s \in scanned}
  IN IF \/ OperatorsOwn(p, env)
        \/ OverSize(p, env)
        \/ /\ p.go /\ IsPrefix(env.root, Resolved(p.path, env.real))
           /\ ~ (env.store = "failing" /\ lookups # {})
           /\ \E s \in scanned : Fabricated(s, env) # {}
     THEN "deny" ELSE "pass"

\* preEditContent: the first text there is, or the edits on lines after each
\* other.
PreEditContent(p) == IF p.content # <<>> THEN p.content ELSE FlattenSeq(p.edits)

\* The code adapter rebuilds the envelope from the flattened content and has
\* no edits to put in it.
CodeAdapterPreEdit(p, env) ==
  DecidePreEdit([tool |-> p.tool, path |-> p.path, go |-> p.go, command |-> p.command,
                 content |-> PreEditContent(p), edits |-> <<>>], env)
=============================================================================
