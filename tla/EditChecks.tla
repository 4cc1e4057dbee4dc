----------------------------- MODULE EditChecks -----------------------------
(***************************************************************************)
(* The code adapter's answer to an edit, against what Go would make of the *)
(* names in it and where its path leads.                                   *)
(***************************************************************************)
EXTENDS FabricationGuard, Examination

CONSTANTS Edits, Environments   \* tool calls, and the project they are made in

\* The name under which a file may refer to an import.
NameOf(imp, env) == IF imp.name = "" THEN env.packageName[imp.path] ELSE imp.name

\* No Go source refers to a package by these.
Nameless == {"_", "."}

\* Go's rule for the imports of one file: a name stands for one package.
Importable(imps, env) ==
  /\ IsSequence(imps) /\ \A i \in ToSet(imps) : IsSequence(i.path) /\ i.path # <<>>
  /\ \A i, j \in ToSet(imps) :
       NameOf(i, env) = NameOf(j, env) /\ NameOf(i, env) \notin Nameless => i.path = j.path

\* What an edit and a project are.
ASSUME EditAssumption ==
  \A e \in Edits, env \in Environments :
    /\ IsSequence(e.path) /\ IsSequence(e.command)
    /\ IsSequence(e.content) /\ \A k \in DOMAIN e.content : IsSequence(e.content[k].imports)
    /\ e.tool \in {"Edit", "Write", "NotebookEdit", "Bash", "MultiEdit"}
    /\ e.tool # "MultiEdit" => e.edits = <<>>
    /\ e.tool = "Bash" => e.content = <<>>
    /\ \A k \in DOMAIN e.content : \A r \in e.content[k].refs : r.x \notin Nameless
    /\ Importable(Imports(e.content), env) /\ Importable(env.fileImports, env)
    /\ IsSequence(env.module) /\ IsSequence(env.tree)
    /\ \A k \in DOMAIN env.tree : IsSequence(env.tree[k].dir)
    /\ <<>> \in DOMAIN env.real /\ \A path \in DOMAIN env.real : IsSequence(env.real[path])
    /\ env.maxSnippet \in Nat /\ env.maxEdits \in Nat \ {0}
    /\ env.store \in {"open", "none", "failing"}

EditInput == input \in [form : {"edit"}, edit : Edits, env : Environments]

JudgeEdit ==
  /\ input.form = "edit"
  /\ Answer(CodeAdapterPreEdit(input.edit, input.env))

EditInit == EditInput /\ done = FALSE /\ answer = <<>>

EditSpec == EditInit /\ [][JudgeEdit]_examVars

-----------------------------------------------------------------------------
\* Steps up among the segments first .. last of a path.
StepsUp(path, first, last) == Cardinality({k \in first .. last : path[k] = ".."})

\* The path enters the operator's directory and never climbs out of it again.
LeadsInto(path) ==
  \E k \in DOMAIN path :
    /\ path[k] \in LeonardDir
    /\ \A n \in k .. Len(path) : 2 * StepsUp(path, k + 1, n) <= n - k

\* It does as it is written, or as the links in it are followed.
IsOperators(e, env) == LeadsInto(e.path) \/ LeadsInto(Resolved(e.path, env.real))

\* A command names the operator's directory; and plainly, when a path goes on
\* from there, the name stands alone or a path ends with it at the end.
NamesDir(command, k) == command[k] \in LeonardDir
PlainlyNamesDir(command, k) ==
  /\ NamesDir(command, k)
  /\ \/ k + 1 \in DOMAIN command /\ command[k + 1] = "/"
     \/ \A n \in {k - 1, k + 1} \cap DOMAIN command : command[n] = " "
     \/ k > 1 /\ k = Len(command) /\ command[k - 1] = "/"

\* The package Go takes x for: an import of the edit goes before one of the
\* file, and without any the package of the project is meant.
PackagesMeant(x, e, env) ==
  LET named(imps) == {imp.path : imp \in {i \in ToSet(imps) : NameOf(i, env) = x}}
      own == named(Imports(e.content))
      file == named(env.fileImports)
      project == {env.module \o f.dir :
                    f \in {g \in ToSet(env.tree) : /\ ~ g.skipped
                                                   /\ g.package = x /\ x # "main"}}
  IN IF own # {} THEN own ELSE IF file # {} THEN file ELSE project

\* A reference into the project that no symbol of the index is called.
Unknown(r, e, env) ==
  /\ \E path \in PackagesMeant(r.x, e, env) : env.module # <<>> /\ IsPrefix(env.module, path)
  /\ r.sel \notin env.symbols

\* The name a path suggests for its package: that of the directory, or of its
\* parent when the directory is a major version.
Suggests(path, name) ==
  \/ Last(path) = name /\ (name \notin Versions \/ Len(path) = 1)
  \/ Last(path) \in Versions /\ Len(path) > 1 /\ path[Len(path) - 1] = name

\* The guard takes a package that is not named as its path suggests for another
\* one (pre_edit.go:416): x is its name, or one that it may be taken to have.
Misguided(x, e, env) ==
  \E imp \in ToSet(Imports(e.content)) \cup ToSet(env.fileImports) :
    /\ imp.name = "" /\ ~ Suggests(imp.path, env.packageName[imp.path])
    /\ x \in {env.packageName[imp.path]} \cup ToSet(imp.path)

\* Go source inside the project that Go would parse, as a file, as declarations
\* or as the body of a function.
Checked(e, env) ==
  e.go /\ IsPrefix(env.root, Resolved(e.path, env.real)) /\ Parses(e.content) /\ env.store = "open"

\* An edit that Go would parse is denied if it names, through a package of the
\* project, something that no symbol of the index is called, wherever the
\* reference stands; if it is oversize; if its path leads into the operator's
\* directory; or if it is a command that plainly names it.  No other edit is,
\* but for what the guard only guesses: a command that somehow names the
\* directory, and a package that is not named as its path says.  Nothing is
\* said of a MultiEdit, whose edits the adapter drops.
EditsAreJudged ==
  Done({"edit"}) /\ input.edit.tool # "MultiEdit" =>
    LET e == input.edit
        env == input.env
        refs == UNION {e.content[k].refs : k \in DOMAIN e.content}
        command == IF e.tool = "Bash" THEN e.command ELSE <<>>
        oversize == Len(e.content) > env.maxSnippet
    IN /\ \/ IsOperators(e, env) \/ oversize
          \/ \E k \in DOMAIN command : PlainlyNamesDir(command, k)
          \/ /\ Checked(e, env)
             /\ \E r \in refs : Unknown(r, e, env) /\ ~ Misguided(r.x, e, env)
          => answer = "deny"
       /\ answer = "deny" =>
            \/ IsOperators(e, env) \/ oversize
            \/ \E k \in DOMAIN command : NamesDir(command, k)
            \/ /\ Checked(e, env)
               /\ \E r \in refs : \/ Unknown(r, e, env)
                                  \/ Misguided(r.x, e, env) /\ r.sel \notin env.symbols
=============================================================================
