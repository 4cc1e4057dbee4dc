---------------------------- MODULE ScriptSource ----------------------------
(***************************************************************************)
(* The lexical layer of the TypeScript extractor: which bytes of a source  *)
(* are code (stripTSLiterals), and where the script of a Vue, Svelte or    *)
(* Astro component begins and ends.  A source is a sequence of characters; *)
(* what the scanners compare as a whole (a word, `<script`, `</script>`, a  *)
(* fence, a comment mark of HTML) is one character here.                   *)
(***************************************************************************)
EXTENDS Naturals, Sequences, SequencesExt

NL == "nl"
Tick == "tick"                        \* the backquote
Quotes == {"'", "\""}
Words == {"f", "g", "x", "y", "return", "export", "const", "let", "function", "class"}
ExpressionWords == {"return"}         \* isExprStartKeyword
Blanks == {" ", NL}

CharAt(src, i) == IF i \in DOMAIN src THEN src[i] ELSE ""

-----------------------------------------------------------------------------
(* Loops                                                                   *)

\* What a loop makes of the place it is at: what it puts out, where it goes on,
\* and whether it does.
Parsed(at, out) == [at |-> at, out |-> out, more |-> TRUE]
LastParsed(at, out) == [at |-> at, out |-> out, more |-> FALSE]

\* A loop over a sequence from place i on; item[k] is what it makes of place k.
Items(src, i, item) ==
  LET end == Len(src) + 1
      from[k \in i .. end] ==
        IF k = end THEN Parsed(k, <<>>)
        ELSE LET one == item[k]
             IN IF one.more /\ one.at \in k + 1 .. end
                THEN [from[one.at] EXCEPT !.out = one.out \o @] ELSE one
  IN from[i]

-----------------------------------------------------------------------------
(* stripTSLiterals                                                         *)

\* The scanner is in code, or in a literal or comment that was begun in it, or
\* in an interpolation of a template: `stack` says in what, innermost last, and
\* how many braces an interpolation has open; `regex`: a slash begins a regex.
In(what) == [in |-> what, depth |-> 0]
Interpolation == [in |-> "expr", depth |-> 1]
Start == [stack |-> <<In("code")>>, regex |-> TRUE]

Top(st) == Last(st.stack)
Push(st, f) == [st EXCEPT !.stack = Append(@, f)]
Pop(st) == [st EXCEPT !.stack = Front(@)]
\* The end of a literal: what follows is an operator.
PopValue(st) == [Pop(st) EXCEPT !.regex = FALSE]
Braces(st, d) ==
  IF d = 0 THEN Pop(st)
  ELSE [st EXCEPT !.stack = Append(Front(@), [in |-> "expr", depth |-> d])]

\* A step over one character that is kept, or over n that are not.
Keep(slash, st) == [n |-> 1, keep |-> TRUE, st |-> [st EXCEPT !.regex = slash]]
Go(n, st) == [n |-> n, keep |-> FALSE, st |-> st]

\* A step looks at a character c and the next one, d.  `)` and `]`, names and
\* numbers end a value; after everything else a slash begins a regex.  Blanks
\* and comments change nothing.
CodeStep(c, d, st) ==
  CASE c = "/" /\ d = "/" -> Go(2, Push(st, In("line")))
    [] c = "/" /\ d = "*" -> Go(2, Push(st, In("block")))
    [] c = "/" /\ d \notin {"/", "*"} /\ st.regex -> Go(1, Push(st, In("regex")))
    [] c \in Quotes -> Go(1, Push(st, In(c)))
    [] c = Tick -> Go(1, Push(st, In("template")))
    [] c \in Blanks -> Keep(st.regex, st)
    [] c \in Words -> Keep(c \in ExpressionWords, st)
    [] OTHER -> Keep(c \notin {"1", ")", "]"}, st)

\* A comment in code or in an interpolation.
LineStep(c, d, st) == Go(1, IF c = NL THEN Pop(st) ELSE st)
BlockStep(c, d, st) == IF c = "*" /\ d = "/" THEN Go(2, Pop(st)) ELSE Go(1, st)

\* Mutant: a backslash is a character like any other.
NoEscape(c, d) == FALSE
Escape(c, d) == c = "\\" /\ d # ""

\* A string or a regex that is not closed ends with its line.
QuotedStep(c, d, st) ==
  CASE Escape(c, d) -> Go(2, st)
    [] c \in {Top(st).in, NL} -> Go(1, PopValue(st))
    [] OTHER -> Go(1, st)

\* The flags of a regex are the name right after it.
RegexStep(c, d, st) ==
  CASE Escape(c, d) -> Go(2, st)
    [] c = "[" -> Go(1, Push(Pop(st), In("class")))
    [] c = "/" -> Go(IF d \in Words \cup {"1"} THEN 2 ELSE 1, PopValue(st))
    [] c = NL -> Go(1, PopValue(st))
    [] OTHER -> Go(1, st)
ClassStep(c, d, st) ==
  CASE Escape(c, d) -> Go(2, st)
    [] c = "]" -> Go(1, Push(Pop(st), In("regex")))
    [] c = NL -> Go(1, PopValue(st))
    [] OTHER -> Go(1, st)

TemplateStep(c, d, st) ==
  CASE Escape(c, d) -> Go(2, st)
    [] c = Tick -> Go(1, PopValue(st))
    [] c = "$" /\ d = "{" -> Go(2, Push(st, Interpolation))
    [] OTHER -> Go(1, st)

\* Inside ${...} nothing is kept, and a slash is never a regex.
ExprStep(c, d, st) ==
  CASE c = "{" -> Go(1, Braces(st, Top(st).depth + 1))
    [] c = "}" -> Go(1, Braces(st, Top(st).depth - 1))
    [] c = Tick -> Go(1, Push(st, In("template")))
    [] c \in Quotes -> Go(1, Push(st, In(c)))
    [] c = "/" /\ d = "/" -> Go(2, Push(st, In("line")))
    [] c = "/" /\ d = "*" -> Go(2, Push(st, In("block")))
    [] OTHER -> Go(1, st)

Step(c, d, st) ==
  CASE Top(st).in = "code" -> CodeStep(c, d, st)
    [] Top(st).in = "line" -> LineStep(c, d, st)
    [] Top(st).in = "block" -> BlockStep(c, d, st)
    [] Top(st).in \in Quotes -> QuotedStep(c, d, st)
    [] Top(st).in = "regex" -> RegexStep(c, d, st)
    [] Top(st).in = "class" -> ClassStep(c, d, st)
    [] Top(st).in = "template" -> TemplateStep(c, d, st)
    [] Top(st).in = "expr" -> ExprStep(c, d, st)

\* A scan that begins in state st: where it is at last, and the characters
\* that it kept.
Scan(src, st) ==
  LET gone(sc, s) == [at |-> sc.at + s.n, st |-> s.st,
                      code |-> sc.code \cup (IF s.keep THEN {sc.at} ELSE {})]
      next(sc, k) == IF sc.at = k THEN gone(sc, Step(src[k], CharAt(src, k + 1), sc.st)) ELSE sc
      scan[k \in 0 .. Len(src)] ==
        IF k = 0 THEN [at |-> 1, st |-> st, code |-> {}] ELSE next(scan[k - 1], k)
  IN scan[Len(src)]

\* Everything that is not code becomes a space, except that lines stay lines.
Stripped(src) ==
  LET code == Scan(src, Start).code
  IN [i \in DOMAIN src |-> IF i \in code \/ src[i] = NL THEN src[i] ELSE " "]

-----------------------------------------------------------------------------
(* Scripts in components                                                   *)

\* A smaller scanner decides where a script ends: strings may span lines,
\* templates have no interpolations, and it knows no regex.
ContextStep(src, i, c) ==
  LET a == src[i]
      b == CharAt(src, i + 1)
  IN CASE c = "code" /\ a \in Quotes \cup {Tick} -> <<1, a>>
       [] c = "code" /\ a = "/" /\ b = "/" -> <<2, "line">>
       [] c = "code" /\ a = "/" /\ b = "*" -> <<2, "block">>
       [] c = "line" /\ a = NL -> <<1, "code">>
       [] c = "block" /\ a = "*" /\ b = "/" -> <<2, "code">>
       [] c \in Quotes \cup {Tick} /\ Escape(a, b) -> <<2, c>>
       [] c \in Quotes \cup {Tick} /\ a = c -> <<1, "code">>
       [] OTHER -> <<1, c>>

IsEnd(src, i, what) ==
  IF what = "script" THEN src[i] = "</script>"
  ELSE src[i] = NL /\ CharAt(src, i + 1) = "---"

\* The end of the script or frontmatter whose body begins at i; 0 if none.
ScanForEnd(src, i, what) ==
  LET Contexts == {"code", "line", "block", Tick} \cup Quotes
      from[k \in i .. Len(src) + 1, c \in Contexts] ==
        IF k > Len(src) THEN 0
        ELSE IF c = "code" /\ IsEnd(src, k, what) THEN k
        ELSE from[k + ContextStep(src, k, c)[1], ContextStep(src, k, c)[2]]
  IN from[i, "code"]

\* <<first, last>> of the frontmatter's body, or nothing.  Blanks may follow the
\* opening fence.
Frontmatter(src) ==
  LET open == SelectInSubSeq(src, 2, Len(src), LAMBDA c : c # " ")
      end == ScanForEnd(src, open + 1, "fence")
  IN IF CharAt(src, 1) = "---" /\ CharAt(src, open) = NL /\ end # 0
     THEN <<open + 1, end - 1>> ELSE <<>>

\* What has a `>` in it: the first one ends an opening tag, in an attribute or not.
TagEnds == {">", "-->", "</script>"}

\* The body of a script element that begins at i, if one does; a tag that closes
\* itself has none.  A comment of the template, an opening tag and a script
\* that is not closed end the search.
ScriptAt(src, i) ==
  LET find(from, set) == SelectInSubSeq(src, from, Len(src), LAMBDA c : c \in set)
      tag == find(i + 1, TagEnds)
      hasBody == tag # 0 /\ src[tag - 1] # "/"
      past(end, bodies(_)) == IF end = 0 THEN LastParsed(i, <<>>) ELSE Parsed(end + 1, bodies(end))
  IN CASE src[i] = "<!--" -> past(find(i + 1, {"-->"}), LAMBDA end : <<>>)
       [] src[i] = "<script" /\ ~ hasBody -> past(tag, LAMBDA end : <<>>)
       [] src[i] = "<script" /\ hasBody ->
            past(ScanForEnd(src, tag + 1, "script"), LAMBDA end : << <<tag + 1, end - 1>> >>)
       [] OTHER -> Parsed(i + 1, <<>>)

ScriptBlocks(src) == Items(src, 1, [i \in DOMAIN src |-> ScriptAt(src, i)]).out

\* ExtractAstro: the frontmatter first, then the scripts of the template.
AstroParts(src) ==
  (IF Frontmatter(src) = <<>> THEN <<>> ELSE <<Frontmatter(src)>>)
    \o ScriptBlocks(src)
=============================================================================
