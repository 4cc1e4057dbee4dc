---------------------------- MODULE MCExtraction ----------------------------
\* Pieces of TypeScript source for TLC.
EXTENDS Extraction

Fragment(text, code) == [text |-> text, code |-> code]

BS == "\\"
DQ == "\""

\* Strings with quotes, escapes, slashes and braces of all kinds; comments with
\* quotes; nested templates; regexes with classes, after `=`, `return` and `(`;
\* divisions after a name, a number, a bracket and a string.
MCFragments == {
  Fragment(<<"x", "=", "1", ";">>, 1 .. 4),
  Fragment(<<"x", "/", "y", "/", "f", ";">>, 1 .. 6),
  Fragment(<<"f", "(", "x", ")", "/", "1", "/", "x">>, 1 .. 8),
  Fragment(<<"x", "=", "1", "/", "*", "'", NL, DQ, "*", "/", "/", "1", ";">>,
           {1, 2, 3, 11, 12, 13}),
  Fragment(<<"x", "/", "/", Tick, "'", "/", "*">>, {1}),
  Fragment(<<"x", "=", DQ, "'", "/", "/", Tick, BS, DQ, "{", DQ, ";">>, {1, 2, 12}),
  Fragment(<<"x", "=", "'", BS, BS, "'", "/", "1", ";">>, {1, 2, 7, 8, 9}),
  Fragment(<<"x", "=", Tick, "'", NL, "$", "{", "f", "(", "{", "}", ")", "}", "$", Tick, ";">>,
           {1, 2, 16}),
  Fragment(<<"f", "(", Tick, "$", "{", Tick, "$", "{", "x", "}", "{", Tick, "+", DQ, "}", DQ,
             "}", Tick, ")">>, {1, 2, 19}),
  Fragment(<<"x", "=", Tick, "$", "{", "x", "/", "*", "}", "*", "/", "}", BS, Tick, Tick>>,
           {1, 2}),
  Fragment(<<"return", " ", "/", "'", "[", "/", DQ, "]", BS, "/", "/", "g", ";">>,
           {1, 2, 13}),
  Fragment(<<"f", "(", "/", Tick, "/", ")", ";">>, {1, 2, 6, 7}),
  Fragment(<<"x", "[", "1", "]", "/", "f", ";">>, 1 .. 7),
  Fragment(<<"x", "=", DQ, "f">>, {1, 2}) }

-----------------------------------------------------------------------------

Statement(text, syms) == [text |-> text, syms |-> syms]
One(text, name, kind, exported, params) ==
  Statement(text, << Symbol(name, kind, exported, 1, Len(text), params) >>)

X == <<"x">>
Y == <<"y">>

MCStatements == {
  One(<<"export", "function", "f", "(", "x", ":", "T", "<", "y", ",", "y", ">", ",", "y", ")",
        ":", "{", "x", ":", "T", "}", "{", "{", "}", "}">>, "f", "function", TRUE, <<X, Y>>),
  One(<<"export", "default", "async", "function", "*", "g", "<", "T", ">", "(", ")", "{",
        "function", "m", "(", ")", "{", "}", "}">>, "g", "function", TRUE, <<>>),
  One(<<"declare", "function", "f", "(", "...", "x", ":", "T", ")", ":", "T", ";">>,
      "f", "function", FALSE, << <<"...", "x">> >>),
  One(<<"const", "f", "=", "async", "<", "T", ">", "(", "{", "x", ",", "y", "}", ")", ":",
        "T", "<", "x", ">", "=>", "{", "x", ",", "y", ";", "}">>,
      "f", "function", FALSE, << <<"{">> >>),
  One(<<"export", "let", "g", ":", "(", "x", ")", "=>", "T", "=", "x", "=>", "f", "(", "x", ",",
        "y", ")">>, "g", "function", TRUE, <<X>>),
  Statement(<<"var", "x", "=", "[", "1", ",", "x", "]", ",", "y", "=", "{", "x", ":", "1", "}">>,
            << Symbol("x", "var", FALSE, 1, 8, <<>>),
               Symbol("y", "var", FALSE, 1, 16, <<>>) >>),
  Statement(<<"const", "{", "x", "}", ":", "T", "=", "f", "(", ")", ",", "g", "=", "1">>,
            << Symbol("g", "const", FALSE, 1, 14, <<>>) >>),
  One(<<"interface", "T", "extends", "y", "<", "x", ">", "{", "f", "(", ")", ":", "{", "}", ";">>,
      "T", "interface", FALSE, <<>>),
  One(<<"export", "type", "T", "<", "x", ">", "=", "{", "x", ":", "y", ";", "}", "|", "y", ";">>,
      "T", "type", TRUE, <<>>),
  One(<<"abstract", "class", "T", "<", "x", ">", "extends", "f", "(", "{", "}", ")", "{",
        "x", ":", "T", "=", "{", "}", ";", "}">>, "T", "type", FALSE, <<>>),
  Statement(<<"import", "{", "x", "}">>, <<>>),
  Statement(<<"export", "const", "enum", "T", "{", "x", ",", "y", "}">>, <<>>),
  Statement(<<"namespace", "T", "{", "{", "}", "function", "f", "(", ")", "{", "}", "}">>, <<>>) }

\* What ends a statement that has no bracket of its own to end it.
Ended(s) ==
  CASE s.text[1] \in {"var", "const", "import"} \/ s.text[2] = "let" ->
         [s EXCEPT !.text = Append(@, ";")]
    [] s.text[1] = "interface" -> [s EXCEPT !.text = Append(@, "}")]
    [] OTHER -> s
MCEndedStatements == {Ended(s) : s \in MCStatements}

Method(text, name, params) ==
  Statement(text, << [Symbol(name, "method", TRUE, 1, Len(text), params)
                        EXCEPT !.class = "T"] >>)
Other(text) == Statement(text, <<>>)

\* The extent of a decorated method begins after its decorators.
Decorated == Statement(
  <<"@", "f", ".", "g", "(", "{", "}", ")", "@", "x", "readonly", "*", "m", "?", "<", "T", ">",
    "(", ")", "{", "}">>,
  << [Symbol("m", "method", TRUE, 11, 21, <<>>) EXCEPT !.class = "T"] >>)

MCMembers == {
  Method(<<"public", "static", "async", "f", "(", "private", "x", ":", "T", ",", "y", "=", "f",
           "(", "1", ",", "1", ")", ")", ":", "{", "x", ":", "T", "}", "{", "{", "}", "}">>,
         "f", <<X, Y>>),
  Method(<<"get", "x", "(", ")", ":", "T", "<", "{", "}", ">", "{", "}">>, "x", <<>>),
  Method(<<"declare", "(", "[", "x", "]", ")", "{", "f", "(", ")", "}">>, "declare", << <<"[">> >>),
  Decorated,
  Method(<<"abstract", "default", "(", ")", ":", "x", "|", "{", "}", ";">>, "default", <<>>),
  Other(<<"[", "x", ".", "y", "]", "(", ")", "{", "}">>),
  Other(<<"(", ")", ":", "T", "{", "}">>),
  Other(<<"static", "{", "{", "}", "f", "(", ")", "}">>),
  Other(<<"readonly", "x", ":", "{", "x", ":", "y", ";", "}", "=", "f", "(", ")", ";">>),
  Other(<<"y", "=", "(", "x", ")", "=>", "{", "x", ";", "}", ";">>) }

-----------------------------------------------------------------------------

ScriptLine(text, name, kind, exported, params) ==
  Statement(text, << Symbol(name, kind, exported, 1, 1, params) >>)
Silent(text, comment) == [text |-> text, syms |-> <<>>, comment |-> comment]
Declaring(s) == [text |-> s.text, syms |-> s.syms, comment |-> FALSE]

MCLines == {
  Declaring(ScriptLine(<<"export", " ", "const", " ", "x", "=", DQ, "</script>", "{", DQ, ";">>,
                 "x", "const", TRUE, <<>>)),
  Declaring(ScriptLine(<<"const", " ", "g", "=", Tick, "<script", ">", "'", Tick, ";">>,
                 "g", "const", FALSE, <<>>)),
  Declaring(ScriptLine(<<"const", " ", "f", "=", "(", ".", ".", ".", "x", ")", "=", ">", "x", "/",
                   "1", ";">>, "f", "function", FALSE, << <<"...", "x">> >>)),
  Declaring(Statement(<<"class", " ", "y", "{", "f", "(", ")", "{", NL, "return", "/", "{", "/",
                        ";", NL, "}", "}">>,
     << [Symbol("f", "method", FALSE, 1, 3, <<>>) EXCEPT !.class = "y"],
        Symbol("y", "type", FALSE, 1, 3, <<>>) >>)),
  Silent(<<"/", "/", "class", " ", "x", "{", "'", "</script>">>, TRUE),
  Silent(<<"/", "*", "'", NL, "---", NL, "let", " ", "x", "</script>", "*", "/">>, FALSE),
  Silent(<<"f", "(", Tick, NL, "---", NL, Tick, ")", ";">>, FALSE) }
=============================================================================
