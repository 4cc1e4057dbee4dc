------------------------- MODULE TypeScriptSymbols -------------------------
(***************************************************************************)
(* The recursive descent of the TypeScript extractor over the tokens of a  *)
(* stripped source.  A token is its text; the place of a token stands for  *)
(* its line.  A scan goes from a token to the first later one at which it  *)
(* stops, counting the brackets in between.                                *)
(***************************************************************************)
EXTENDS ScriptSource, Integers, FiniteSets, FiniteSetsExt

Names == {"f", "g", "m", "x", "y", "T"}                  \* kind "ident"
Visibility == {"public", "private", "protected", "readonly"}
ModifierWords == {"export", "declare", "async", "abstract", "default"}
MemberModifiers == Visibility
  \cup {"static", "async", "abstract", "override", "get", "set", "declare"}
DeclarationWords == {"export", "function", "class", "interface", "type",
  "const", "let", "var", "import", "declare", "enum", "namespace", "module"}
Keywords == ModifierWords \cup MemberModifiers \cup DeclarationWords
  \cup {"extends", "implements", "from"}

At(ts, i) == IF i \in DOMAIN ts THEN ts[i] ELSE ""

-----------------------------------------------------------------------------
(* Scans                                                                   *)

Count(ts, i, j, set) == Cardinality({k \in i .. j : ts[k] \in set})

\* The brackets open before j of those opened from i on.
Depth(ts, i, j, opens, closes) ==
  Count(ts, i, j - 1, opens) - Count(ts, i, j - 1, closes)

\* The same for scans that ignore a bracket closed too often.
ClampedDepth(ts, i, j, opens, closes) ==
  FoldLeft(LAMBDA d, t : IF t \in opens THEN d + 1
                         ELSE IF t \in closes /\ d > 0 THEN d - 1 ELSE d,
           0, SubSeq(ts, i, j - 1))

\* The first place from i on where P holds; past the end if there is none.
FirstFrom(ts, i, P(_)) ==
  LET js == {j \in i .. Len(ts) : P(j)}
  IN IF js = {} THEN Len(ts) + 1 ELSE Min(js)

Brackets == {"(", "[", "{"}
Closers == {")", "]", "}"}
Angled == Brackets \cup {"<"}
AngledClosers == Closers \cup {">"}

\* The place of the bracket that closes the one at i; past the end if none.
Match(ts, i, open, close) ==
  FirstFrom(ts, i + 1, LAMBDA j : ts[j] = close
                         /\ Depth(ts, i, j, {open}, {close}) = 1)

\* captureBalanced returns nothing when the group is not there or not closed.
Captured(ts, i, open, close) ==
  At(ts, i) = open /\ Match(ts, i, open, close) <= Len(ts)

Past(ts, j) == Min({j + 1, Len(ts) + 1})

SkipBalanced(ts, i) ==
  CASE At(ts, i) = "{" -> Past(ts, Match(ts, i, "{", "}"))
    [] At(ts, i) = "[" -> Past(ts, Match(ts, i, "[", "]"))
    [] At(ts, i) = "(" -> Past(ts, Match(ts, i, "(", ")"))
    [] OTHER -> i

SkipGenericParams(ts, i) ==
  IF At(ts, i) = "<" THEN Past(ts, Match(ts, i, "<", ">")) ELSE i

\* The right side of `name = ...` ends at `;` or `,`, at a bracket that closes
\* what is around it, or where `export` or `import` begins a statement.
SkipInitializer(ts, i) ==
  FirstFrom(ts, i, LAMBDA j : ts[j] \in {";", ",", "export", "import"} \cup Closers
                     /\ Depth(ts, i, j, Brackets, Closers) = 0)

SkipTypeAnnotation(ts, i) ==
  IF At(ts, i) # ":" THEN i
  ELSE FirstFrom(ts, i + 1, LAMBDA j : ts[j] \in {";", ",", "="} \cup AngledClosers
                     /\ Depth(ts, i + 1, j, Angled, AngledClosers) = 0)

\* After these a type is expected, so that a `{` begins a type, not the body.
AtomExpected == Angled \cup {",", "|", "&", "=>", "?", ":", "readonly", "extends"}

\* Mutant: the first `{` is the body.
SkipReturnTypeToBrace(ts, i) ==
  IF At(ts, i) # ":" THEN i
  ELSE FirstFrom(ts, i + 1, LAMBDA j : ts[j] \in {"{", ";"})

SkipReturnType(ts, i) ==
  IF At(ts, i) # ":" THEN i
  ELSE FirstFrom(ts, i + 1, LAMBDA j :
         /\ \/ ts[j] = "{" /\ ts[j - 1] \notin AtomExpected
            \/ ts[j] \in {";", "default"} \cup DeclarationWords \cup AngledClosers
         /\ Depth(ts, i + 1, j, Angled, AngledClosers) = 0)

\* A `=>` right after `)` belongs to a function type.
SkipArrowReturnType(ts, i) ==
  IF At(ts, i) # ":" THEN i
  ELSE FirstFrom(ts, i + 1, LAMBDA j :
         /\ \/ ts[j] = "=>" /\ ts[j - 1] # ")"
            \/ ts[j] \in {";", ","}
         /\ ClampedDepth(ts, i + 1, j, Angled, AngledClosers) = 0)

\* A field ends with its `;` or before the end of the class.
SkipUntilSemiOrEnd(ts, i) ==
  LET j == FirstFrom(ts, i, LAMBDA k : ts[k] \in {";"} \cup Closers
                               /\ Depth(ts, i, k, Brackets, Closers) = 0)
  IN IF At(ts, j) = ";" THEN j + 1 ELSE j

\* A declaration that is not recorded ends with its `;` or its last `}`.
SkipDecl(ts, i) ==
  Past(ts, FirstFrom(ts, i, LAMBDA j :
    \/ ts[j] = "}" /\ Depth(ts, i, j, {"{"}, {"}"}) <= 1
    \/ ts[j] = ";" /\ Depth(ts, i, j, {"{"}, {"}"}) = 0))

\* A decorator, `@a.b(args)`.
SkipDecorator(ts, i) ==
  LET name(j) == At(ts, j) \in Names \cup Keywords
      dots == FirstFrom(ts, i + 2, LAMBDA j :
                ~ \/ ts[j] = "." /\ name(j - 1)
                  \/ ts[j - 1] = "." /\ name(j))
  IN CASE ~ name(i + 1) -> i + 1
       [] name(i + 1) /\ At(ts, dots) = "(" -> SkipBalanced(ts, dots)
       [] OTHER -> dots

-----------------------------------------------------------------------------
(* Parameters                                                              *)

\* A parameter is a name, a rest parameter, or a pattern.
ParamAt(ts, i) ==
  LET a == FirstFrom(ts, i, LAMBDA j : ts[j] \notin Visibility)
      b == IF At(ts, a) = "..." THEN a + 1 ELSE a
      rest == IF b > a THEN <<"...">> ELSE <<>>
      pattern == At(ts, b) \in {"{", "["}
      c == IF pattern THEN SkipBalanced(ts, b) ELSE b + 1
      comma == FirstFrom(ts, c, LAMBDA j : ts[j] = ","
                           /\ ClampedDepth(ts, c, j, Angled, AngledClosers) = 0)
  IN Parsed(comma + 1, IF pattern \/ At(ts, b) \in Names THEN << Append(rest, ts[b]) >> ELSE <<>>)

\* extractParamNames.
ParamNames(ts) == Items(ts, 1, [i \in DOMAIN ts |-> ParamAt(ts, i)]).out

-----------------------------------------------------------------------------
(* Declarations                                                            *)

Symbol(name, kind, exported, start, end, params) ==
  [name |-> name, kind |-> kind, exported |-> exported, start |-> start,
   end |-> end, params |-> params, class |-> ""]

\* A parser's item is the next token and the symbols it records.
Nothing == Parsed(0, <<>>)

\* The rest of a function whose return type ends at r: a body, or a `;`.
CallableFrom(ts, r, start, params) ==
  LET end == Match(ts, r, "{", "}")
  IN CASE At(ts, r) = "{" -> IF end > Len(ts) THEN [at |-> 0]
                             ELSE [at |-> end + 1, end |-> end, params |-> params]
       [] At(ts, r) = ";" -> [at |-> r + 1, end |-> r, params |-> params]
       [] OTHER -> [at |-> r, end |-> start, params |-> params]

\* Parameters, return type and body of a function or method from i on.
Callable(ts, i, start) ==
  LET close == Match(ts, i, "(", ")")
  IN IF ~ Captured(ts, i, "(", ")") THEN [at |-> 0]
     ELSE CallableFrom(ts, SkipReturnType(ts, close + 1), start,
                       ParamNames(SubSeq(ts, i + 1, close - 1)))

FunctionOf(name, exported, start, c) ==
  IF name \notin Names \/ c.at = 0 THEN Nothing
  ELSE Parsed(c.at, << Symbol(name, "function", exported, start, c.end, c.params) >>)

ParseFunction(ts, i, exported, start) ==
  LET n == IF At(ts, i + 1) = "*" THEN i + 2 ELSE i + 1
  IN FunctionOf(At(ts, n), exported, start,
                Callable(ts, SkipGenericParams(ts, n + 1), start))

\* A member that begins at i and has its parameters at p.
MethodOf(ts, i, p, name, exported, c) ==
  LET method == [Symbol(name, "method", exported, i, c.end, c.params) EXCEPT !.class = "this"]
  IN CASE At(ts, p) # "(" -> Parsed(SkipUntilSemiOrEnd(ts, p), <<>>)
       [] At(ts, p) = "(" /\ c.at = 0 -> Parsed(i, <<>>)
       [] OTHER -> Parsed(c.at, IF name = "" THEN <<>> ELSE <<method>>)

MemberFrom(ts, i, p, name, exported) ==
  MethodOf(ts, i, p, name, exported, Callable(ts, p, i))

\* A modifier followed by `(` is a name.
SkipModifiers(ts, i) ==
  FirstFrom(ts, i, LAMBDA j : \/ ts[j] \notin MemberModifiers
                              \/ At(ts, j + 1) = "(")

\* Where a member begins, after the decorators and the modifiers before them.
SkipDecorators(ts, i) ==
  Items(ts, i, [k \in DOMAIN ts |->
    IF At(ts, SkipModifiers(ts, k)) = "@" THEN Parsed(SkipDecorator(ts, SkipModifiers(ts, k)), <<>>)
    ELSE LastParsed(k, <<>>)]).at

\* A member that begins at i without a decorator; `at` = i when nothing could
\* be made of it.
MemberAt(ts, i, exported) ==
  LET m == SkipModifiers(ts, i)
      isStatic == \E j \in i .. m - 1 : ts[j] = "static"
      n == IF At(ts, m) = "*" THEN m + 1 ELSE m
      named == At(ts, n) \in Names \cup Keywords
      computed == Captured(ts, n, "[", "]")
      q == CASE named -> n + 1 [] computed -> Match(ts, n, "[", "]") + 1 [] OTHER -> n
      p == SkipGenericParams(ts, IF At(ts, q) = "?" THEN q + 1 ELSE q)
  IN IF isStatic /\ At(ts, m) = "{" THEN Parsed(SkipBalanced(ts, m), <<>>)
     ELSE IF ~ named /\ ~ computed /\ At(ts, n) # "(" THEN Parsed(i, <<>>)
     ELSE MemberFrom(ts, i, p, IF named THEN ts[n] ELSE "", exported)

ParseClassMember(ts, i, exported) ==
  LET past(m) == IF m.at = i THEN [m EXCEPT !.at = i + 1] ELSE m
  IN IF ts[i] = "}" THEN LastParsed(i, <<>>)
     ELSE past(MemberAt(ts, SkipDecorators(ts, i), exported))

\* The members up to the end of the class.
ParseMembers(ts, i, exported) ==
  Items(ts, i, [k \in DOMAIN ts |-> ParseClassMember(ts, k, exported)])

ParseClass(ts, i, exported, start) ==
  LET g == SkipGenericParams(ts, i + 2)
      open == FirstFrom(ts, g, LAMBDA j : ts[j] \in {"{", ";", "}", ")"}
                          /\ Depth(ts, g, j, {"("}, {")"}) = 0)
      name == ts[i + 1]
      class(end) == Symbol(name, "type", exported, start, end, <<>>)
      with(body) == Parsed(Past(ts, body.at),
        Append([k \in DOMAIN body.out |-> [body.out[k] EXCEPT !.class = name]],
               class(IF body.at <= Len(ts) THEN body.at ELSE start)))
  IN IF At(ts, i + 1) \notin Names \/ At(ts, open) # "{" THEN Nothing
     ELSE with(ParseMembers(ts, open + 1, exported))

\* The extent of an interface ends with its last member.
ParseInterface(ts, i, exported, start) ==
  LET g == SkipGenericParams(ts, i + 2)
      open == FirstFrom(ts, g, LAMBDA j : ts[j] \in {"{", ";", "}"})
      close == Match(ts, open, "{", "}")
  IN IF At(ts, i + 1) \notin Names \/ ~ Captured(ts, open, "{", "}") THEN Nothing
     ELSE Parsed(close + 1,
            << Symbol(ts[i + 1], "interface", exported, start,
                      IF close > open + 1 THEN close - 1 ELSE close, <<>>) >>)

\* Mutant: an alias that runs into the next declaration is recorded up to there.
ParseTypeAliasUpTo(ts, i, exported, start) ==
  LET end == FirstFrom(ts, i + 1, LAMBDA j : ts[j] \in {";"} \cup DeclarationWords
                                 /\ Depth(ts, i + 1, j, Brackets, Closers) = 0)
  IN Parsed(end, << Symbol(At(ts, i + 1), "type", exported, start, end, <<>>) >>)

\* An alias that runs into the next declaration or into a bracket that closes
\* what is around it is consumed and not recorded.
ParseTypeAlias(ts, i, exported, start) ==
  LET g == SkipGenericParams(ts, i + 2)
      end == FirstFrom(ts, g + 1, LAMBDA j :
               /\ ts[j] \in {";"} \cup DeclarationWords \cup AngledClosers
               /\ Depth(ts, g + 1, j, Angled, AngledClosers) = 0)
      last == CASE At(ts, end) = ";" -> end
                [] At(ts, end) # ";" /\ g = Len(ts) -> start
                [] OTHER -> Len(ts)
      alias == Symbol(ts[i + 1], "type", exported, start, last, <<>>)
  IN IF At(ts, i + 1) \notin Names \/ At(ts, g) # "=" THEN Nothing
     ELSE IF At(ts, end) \in {";", ""} THEN Parsed(Past(ts, end), <<alias>>)
     ELSE Parsed(end, <<>>)

\* Past an arrow function from i on and its parameters, or nothing.
ArrowInit(ts, i) ==
  LET a == IF At(ts, i) = "async" THEN i + 1 ELSE i
      g == SkipGenericParams(ts, a)
      close == Match(ts, g, "(", ")")
      arrow == IF At(ts, g) = "(" THEN SkipArrowReturnType(ts, close + 1) ELSE g + 1
      params == IF At(ts, g) = "(" THEN SubSeq(ts, g + 1, close - 1) ELSE <<At(ts, g)>>
      body == Captured(ts, arrow + 1, "{", "}")
  IN IF \/ ~ Captured(ts, g, "(", ")") /\ At(ts, g) \notin Names
        \/ At(ts, arrow) # "=>"
        \/ At(ts, arrow + 1) = "{" /\ ~ body
     THEN [at |-> 0]
     ELSE [at |-> IF body THEN Match(ts, arrow + 1, "{", "}") + 1
                  ELSE SkipInitializer(ts, arrow + 1),
           params |-> ParamNames(params)]

\* A declarator, and the comma after it if there is one.  A pattern records
\* nothing.
ParseDeclarator(ts, i, kind, exported, start) ==
  LET pattern == At(ts, i) \in {"{", "["}
      t == SkipTypeAnnotation(ts, IF pattern THEN SkipBalanced(ts, i) ELSE i + 1)
      hasInit == At(ts, t) = "="
      init(arrow) ==
        IF arrow.at # 0 THEN [at |-> arrow.at, kind |-> "function", params |-> arrow.params]
        ELSE [at |-> IF hasInit THEN SkipInitializer(ts, t + 1) ELSE t,
              kind |-> kind, params |-> <<>>]
      sym(d) == Symbol(ts[i], d.kind, exported, start, d.at - 1, d.params)
      syms(d) == IF pattern THEN <<>> ELSE <<sym(d)>>
      declared(d) == IF At(ts, d.at) = "," THEN Parsed(d.at + 1, syms(d))
                     ELSE LastParsed(d.at, syms(d))
  IN IF ~ pattern /\ At(ts, i) \notin Names THEN LastParsed(i, <<>>)
     ELSE declared(init(IF hasInit /\ ~ pattern THEN ArrowInit(ts, t + 1) ELSE [at |-> 0]))

ParseDeclarators(ts, i, kind, exported, start) ==
  Items(ts, i, [k \in DOMAIN ts |-> ParseDeclarator(ts, k, kind, exported, start)])

\* `nameless`: a name was expected, after the keyword or a comma, and none came.
ParseVarDecl(ts, i, exported, start) ==
  LET kind == IF ts[i] = "const" THEN "const" ELSE "var"
      nameless(d) == d.at <= Len(ts) /\ (d.at = i + 1 \/ At(ts, d.at - 1) = ",")
      with(d) == IF d.out = <<>> /\ nameless(d) THEN Nothing
                 ELSE Parsed(IF At(ts, d.at) = ";" THEN d.at + 1 ELSE d.at, d.out)
  IN IF At(ts, i + 1) = "enum" THEN Parsed(SkipDecl(ts, i + 1), <<>>)
     ELSE with(ParseDeclarators(ts, i + 1, kind, exported, start))

\* One top-level declaration with its modifiers, or nothing.
TryTopLevel(ts, i) ==
  LET m == FirstFrom(ts, i, LAMBDA j : ts[j] \notin ModifierWords)
      exported == \E j \in i .. m - 1 : ts[j] = "export"
      t == At(ts, m)
  IN CASE t = "function" -> ParseFunction(ts, m, exported, i)
       [] t = "class" -> ParseClass(ts, m, exported, i)
       [] t = "interface" -> ParseInterface(ts, m, exported, i)
       [] t = "type" -> ParseTypeAlias(ts, m, exported, i)
       [] t \in {"const", "let", "var"} -> ParseVarDecl(ts, m, exported, i)
       [] t \in {"enum", "namespace", "module", "import"} ->
            Parsed(SkipDecl(ts, m), <<>>)
       [] OTHER -> Nothing

\* A token nothing begins with is stepped over.
ParseTopLevel(ts, i) ==
  LET past(d) == IF d.at = 0 THEN Parsed(i + 1, <<>>) ELSE d
  IN past(TryTopLevel(ts, i))

Symbols(ts) == Items(ts, 1, [i \in DOMAIN ts |-> ParseTopLevel(ts, i)]).out
=============================================================================
