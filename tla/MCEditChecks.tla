---------------------------- MODULE MCEditChecks ----------------------------
\* Tool calls and projects for TLC.
EXTENDS EditChecks

Ref(x, sel) == [x |-> x, sel |-> sel]
Item(kind, imports, refs) == [kind |-> kind, imports |-> imports, refs |-> refs]
Import(name, path) == Item("import", << [name |-> name, path |-> path] >>, {})
Code(kind, x, sel) == Item(kind, <<>>, {Ref(x, sel), Ref("v", sel)})

Outside == Import("", <<"ext", "util", "v2">>)
Inside == Import("", <<"m", "api", "v2">>)
Renamed == Import("util", <<"m", "api">>)
Blank == Import("_", <<"m", "util">>)
Misnamed == Import("", <<"ext", "go-util">>)
MisnamedInside == Import("", <<"m", "go-api">>)

\* Whole files, top-level declarations, bodies, and what does not parse.
Declarations == {Code("func", "util", "New"), Code("decl", "api", "Old"), Code("decl", "util", "Old")}
Bodies == {Code("stmt", "util", "New"), Code("decl", "util", "Old"), Code("stmt", "api", "New")}
ImportLists == {<<>>, <<Outside>>, <<Inside>>, <<Renamed>>, <<Blank, Outside>>,
                <<Misnamed>>}
Tops == {imps \o ds : imps \in ImportLists, ds \in BoundedSeq(Declarations, 2)}
WellFormed == Tops \cup {<<Item("package", <<>>, {})>> \o t : t \in Tops} \cup BoundedSeq(Bodies, 2)
Broken == {<<Code("stmt", "api", "New"), Inside>>, <<Code("func", "util", "New"), Inside>>,
           <<Code("func", "util", "New"), Code("stmt", "api", "New")>>,
           <<Code("decl", "util", "New"), Item("broken", <<>>, {})>>}

Edit(tool, path, content) ==
  [tool |-> tool, path |-> path, content |-> content, edits |-> <<>>, command |-> <<>>, go |-> TRUE]

Target(path) == Edit("Write", path, <<Code("decl", "util", "New")>>)
Command(words) ==
  [Edit("Bash", <<>>, <<>>) EXCEPT !.go = FALSE, !.command = words]

\* Where a path leads, and what a command does, by their looks.
Operators ==
  {Target(<<"p", ".LEONARD", "x.go">>), Target(<<"p", "link", "x.go">>),
   Target(<<"p", ".leonard", "d", "..", "x.go">>), Target(<<"p", ".leonard", "..", ".leonard">>),
   Command(<<"rm", " ", ".leonard", "/", "x">>), Command(<<"rm", " ", ".leonard">>),
   Command(<<"p", "/", ".leonard">>)}
Others ==
  {Target(<<"p", "d", "..", "x.go">>), Target(<<"q", "x.go">>), Target(<<"link", "x.go">>),
   Target(<<"p", ".leonard", "..", "x.go">>), Target(<<"..", "p", "x.go">>),
   Target(<<"p", ".leonard", "d", "..", "..", "d", "x.go">>),
   Target(<<"p", "leonard", "x.go">>), [Target(<<"p", "x.md">>) EXCEPT !.go = FALSE],
   Command(<<".leonard", "x", " ", "a">>)}

MCEdits ==
  {Edit(tool, <<"p", "x.go">>, t) : tool \in {"Edit", "Write"}, t \in WellFormed \cup Broken}
  \cup Operators \cup Others
  \cup {[Edit("MultiEdit", <<"p", "x.go">>, <<>>) EXCEPT !.edits = es] :
           es \in {<<>>, <<Target(<<>>).content>>}}

File(dir, package, skipped) == [dir |-> dir, package |-> package, skipped |-> skipped]
MCTrees == {<<>>, << File(<<>>, "main", FALSE), File(<<"testdata">>, "v", TRUE),
                     File(<<"internal">>, "util", FALSE), File(<<"util">>, "util", FALSE) >>}

Environment(store, tree, fileImports) ==
  [store |-> store, tree |-> tree, fileImports |-> Imports(fileImports), symbols |-> {"Old"},
   module |-> <<"m">>, root |-> <<"p">>, maxSnippet |-> 4, maxEdits |-> 2,
   packageName |-> <<"ext", "util", "v2">> :> "util" @@ <<"m", "api", "v2">> :> "api"
                     @@ <<"m", "api">> :> "api" @@ <<"m", "util">> :> "util"
                     @@ <<"ext", "go-util">> :> "util" @@ <<"m", "go-api">> :> "api",
   real |-> <<>> :> <<>> @@ <<"p">> :> <<"p">> @@ <<"link">> :> <<"p">>
              @@ <<"p", "link">> :> <<"p", ".leonard">>]

MCEnvironments ==
  {Environment("open", tree, imps) :
     tree \in MCTrees, imps \in {<<>>, <<Outside>>, <<Inside>>, <<Misnamed, MisnamedInside>>}}
    \cup {Environment(store, <<>>, <<Inside>>) : store \in {"none", "failing"}}

\* What was sorted by its looks is what the property takes it for.
ASSUME SortedByLooks ==
  /\ \A t \in WellFormed : Parses(t)
  /\ \A t \in Broken : ~ Parses(t)
  /\ \A env \in MCEnvironments :
       /\ \A e \in Operators : \/ IsOperators(e, env)
                              \/ \E k \in DOMAIN e.command : PlainlyNamesDir(e.command, k)
       /\ \A e \in Others : ~ IsOperators(e, env)
=============================================================================
