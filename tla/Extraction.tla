----------------------------- MODULE Extraction -----------------------------
(***************************************************************************)
(* The symbols the index is told a TypeScript file or a component has,     *)
(* against what the file declares.  A file is put together from pieces     *)
(* that come with what they declare; the extractors see the text alone.    *)
(***************************************************************************)
EXTENDS ComponentSymbols, Examination

CONSTANTS
  Fragments,    \* pieces of source, with the part of each that is code
  Statements,   \* top-level declarations as tokens, with their symbols
  Members,      \* members of a class as tokens, with their symbols
  Lines,        \* lines of a script, with the symbols they declare
  MaxPieces     \* bound on the pieces of one file

\* A statement and a member are lists of tokens.
ASSUME ExtractionAssumption ==
  MaxPieces \in Nat /\ \A piece \in Statements \cup Members : IsSequence(piece.text)

ExtractionForms == {"source", "file", "class", "damaged", "vue", "astro"}

Pieces(form) ==
  CASE form = "source" -> Fragments
    [] form \in {"file", "damaged"} -> Statements
    [] form = "class" -> Members
    [] form \in {"vue", "astro"} -> Lines

Concat(parts) == FlattenSeq(parts)

\* Every piece is on lines of its own.
Source == Concat([k \in DOMAIN input.parts |-> Append(input.parts[k].text, NL)])

\* Tokens of a file of statements, of a class, of a file that lost a token.
ClassHead == <<"export", "class", "T", "{">>
FileTokens ==
  LET text == Concat([k \in DOMAIN input.parts |-> input.parts[k].text])
  IN CASE input.form = "class" -> ClassHead \o text \o <<"}">>
       [] input.form = "damaged" -> RemoveAt(text, input.at)
       [] OTHER -> text

\* A component: a script in a comment, a script that is elsewhere, text with a
\* quote, the script (or the frontmatter), and a second script.
Apostrophe == <<"x", "'", "y", NL>>
LastScript == <<"<script", " ", "x", "=", "'", "y", "'", ">", "let", "y", "=", "1", ";", NL, "</script>", NL>>
Decoy == <<"<!--", "<script", ">", NL, "let", "g", "=", "1", ";", "</script>", "-->", NL>>
Elsewhere == <<"<script", " ", "x", "/", ">", NL>>
Component ==
  IF input.form = "vue"
  THEN Decoy \o Elsewhere \o Apostrophe \o <<"<script", ">", NL>> \o Source
         \o <<"</script>", NL>> \o LastScript
  ELSE <<"---", " ", NL>> \o Source \o <<"---", NL>> \o Apostrophe \o Elsewhere \o LastScript

-----------------------------------------------------------------------------

\* A frontmatter that is found: its last line is no line comment, whose newline
\* scanForFenceClose would take for the end of the comment, so that the fence
\* is not seen (vue_svelte.go:335), and it does not mention an opening tag,
\* where extractEmbeddedScript would begin a script (vue_svelte.go:63).
Readable(parts) ==
  \A k \in DOMAIN parts : /\ k = Len(parts) => ~ parts[k].comment
                          /\ "<script" \notin ToSet(parts[k].text)

ExtractionInput ==
  \E form \in ExtractionForms, n \in 0 .. MaxPieces :
    /\ form = "damaged" => n < MaxPieces
    /\ \E parts \in [1 .. n -> Pieces(form)] :
       \E at \in IF form # "damaged" THEN {0}
                 ELSE DOMAIN Concat([k \in 1 .. n |-> parts[k].text]) :
         /\ form = "astro" => Readable(parts)
         /\ input = [form |-> form, parts |-> parts, at |-> at]

Strip ==
  /\ input.form = "source"
  /\ Answer(Stripped(Source))

Parse ==
  /\ input.form \in {"file", "class", "damaged"}
  /\ Answer(Symbols(FileTokens))

Extract ==
  /\ input.form \in {"vue", "astro"}
  /\ Answer(IF input.form = "vue" THEN ExtractVue(Component) ELSE ExtractAstro(Component))

ExtractionInit == ExtractionInput /\ done = FALSE /\ answer = <<>>

ExtractionNext == Strip \/ Parse \/ Extract

ExtractionSpec == ExtractionInit /\ [][ExtractionNext]_examVars

-----------------------------------------------------------------------------
(* What is expected                                                        *)

\* Each piece masked by itself: `code` are the places that survive.
Masked(piece) ==
  [k \in DOMAIN piece.text |->
     IF k \in piece.code \/ piece.text[k] = NL THEN piece.text[k] ELSE " "]

\* Blanking literals and comments leaves the code of every piece and nothing
\* else, whatever stands before it: no quote, slash, backquote or brace in a
\* literal changes how a later piece is read.  This is what the scanner's
\* guess whether a slash divides or begins a regex must not get wrong, and does
\* get wrong of a division after `}` or `++` and of a regex after `)`
\* (typescript.go:109): no piece has one.
LiteralsAreBlanked ==
  Done({"source"}) =>
    answer = Concat([k \in DOMAIN input.parts |-> Append(Masked(input.parts[k]), NL)])

\* What the pieces declare, moved by the tokens before them.
Declared(parts, before) ==
  LET tokensBefore(k) == before + Len(Concat([n \in 1 .. k - 1 |-> parts[n].text]))
      moved(syms, by) == [n \in DOMAIN syms |-> [syms[n] EXCEPT !.start = @ + by, !.end = @ + by]]
  IN Concat([k \in DOMAIN parts |-> moved(parts[k].syms, tokensBefore(k))])

\* A file of complete declarations has exactly the symbols declared at its top
\* level, in order and with their extent, and a class every one of its methods:
\* what a function, a type or an initializer contains is never taken for the
\* end of a declaration, and no modifier, decorator, field or type in braces
\* for the end of the class.  A declaration is complete with its `;`: without
\* it an alias before another declaration is dropped (typescript.go:899), and a
\* field takes the methods after it along (typescript.go:1339).
DeclarationsAreFound ==
  /\ Done({"file"}) => answer = Declared(input.parts, 0)
  /\ Done({"class"}) =>
       answer = Append(Declared(input.parts, Len(ClassHead)),
                       Symbol("T", "type", TRUE, 1, Len(FileTokens), <<>>))

\* Whatever the tokens are, also when one is lost, a symbol ends no earlier than
\* it starts and within the file, and two symbols are nested or apart, unless
\* one statement declares both: no symbol reaches into half of another.
ExtentsNest ==
  Done({"file", "class", "damaged"}) =>
    /\ \A s \in ToSet(answer) : s.start <= s.end /\ s.end <= Len(FileTokens)
    /\ \A s, t \in ToSet(answer) :
         \/ s.end < t.start \/ t.end < s.start
         \/ s.start <= t.start /\ t.end <= s.end
         \/ t.start <= s.start /\ s.end <= t.end

\* A component has the symbols of its scripts and frontmatter, at their lines
\* in the file, and no others: a tag or fence in a string or comment neither
\* begins nor ends a script.  No script has a quote in a regex, which
\* scanForScriptClose takes for the beginning of a string (vue_svelte.go:188),
\* and no attribute a `>`, which it takes for the end of the tag (:136).
Expected ==
  LET textBefore(k) == Concat([n \in 1 .. k - 1 |-> Append(input.parts[n].text, NL)])
      linesBefore(k) == LineOf(textBefore(k), Len(textBefore(k)) + 1)
                          + (IF input.form = "vue" THEN 4 ELSE 0)
      symbolsOf(k) == [n \in DOMAIN input.parts[k].syms |->
        [input.parts[k].syms[n] EXCEPT !.start = @ + linesBefore(k),
                                       !.end = @ + linesBefore(k)]]
      last == LineOf(Component, Len(Component)) - 1
  IN Concat([k \in DOMAIN input.parts |-> symbolsOf(k)])
       \o << Symbol("y", "var", FALSE, last, last, <<>>) >>

ComponentSymbolsAreFound ==
  Done({"vue", "astro"}) => answer = Expected
=============================================================================
