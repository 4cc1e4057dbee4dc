-------------------------- MODULE ComponentSymbols --------------------------
(***************************************************************************)
(* Extraction from source to symbols: the literals are stripped, the rest  *)
(* becomes tokens that know their line, and the symbols parsed from them   *)
(* are given the lines they have in the file.  A component runs this on    *)
(* each of its scripts.                                                    *)
(***************************************************************************)
EXTENDS TypeScriptSymbols

LineOf(src, i) == 1 + Cardinality({k \in 1 .. i - 1 : src[k] = NL})

\* A token, or a blank: `=>` and `...` are one token each.
TokenAt(src, i) ==
  LET arrow == src[i] = "=" /\ CharAt(src, i + 1) = ">"
      dots == \A k \in i .. i + 2 : CharAt(src, k) = "."
      token(text, width) == Parsed(i + width, << [text |-> text, line |-> LineOf(src, i)] >>)
  IN CASE src[i] \in Blanks -> Parsed(i + 1, <<>>)
       [] arrow -> token("=>", 2)
       [] dots -> token("...", 3)
       [] OTHER -> token(src[i], 1)

\* tokenizeTS.
Tokens(src) == Items(src, 1, [i \in DOMAIN src |-> TokenAt(src, i)]).out

ExtractTypeScript(src) ==
  LET located(tokens, syms) == [k \in DOMAIN syms |->
        [syms[k] EXCEPT !.start = tokens[@].line, !.end = tokens[@].line]]
      parsed(tokens) == located(tokens, Symbols([k \in DOMAIN tokens |-> tokens[k].text]))
  IN parsed(Tokens(Stripped(src)))

\* Mutant: the lines are those of the script.
ExtractUnmoved(src, parts) ==
  FlattenSeq([n \in DOMAIN parts |->
                ExtractTypeScript(SubSeq(src, parts[n][1], parts[n][2]))])

\* The symbols of the parts of a component, at their lines in the file.
ExtractParts(src, parts) ==
  LET offset(p) == LineOf(src, p[1]) - 1
      moved(syms, by) == [k \in DOMAIN syms |-> [syms[k] EXCEPT !.start = @ + by,
                                                                 !.end = @ + by]]
  IN FlattenSeq([n \in DOMAIN parts |->
       moved(ExtractTypeScript(SubSeq(src, parts[n][1], parts[n][2])), offset(parts[n]))])

ExtractVue(src) == ExtractParts(src, ScriptBlocks(src))
ExtractAstro(src) == ExtractParts(src, AstroParts(src))
=============================================================================
