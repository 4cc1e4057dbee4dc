-------------------------- MODULE MCContentChecks --------------------------
\* Texts, claims and the operator's files for TLC.
EXTENDS ContentChecks, ClaimChecks

MCDigits == {"1", "2"}
MCWordBytes == MCDigits \cup {"a", "b", "A"}
MCSmallLetter == [c \in {"A"} |-> "a"]
MCAlphabet == {"a", "A", "1", "2", " "}
MCNeedles == {<<"a">>, <<"a", "a">>, <<"1", "a">>, <<"a", " ", "1">>, <<"a", "1", "a">>,
              <<" ", "a", "b">>, <<>>}

Spoken(w) == [words |-> w, joined |-> FALSE]
Field(w) == [words |-> w, joined |-> TRUE]
MCPhrases ==
  {Spoken(<<w>>) : w \in {"I", "shipped", "Go", "users", "12", "1,200"}}
    \cup {Spoken(<<"I", "prefer">>), Spoken(<<"since", "2015">>),
          Field(<<"2015", "-", "01", "-", "02">>)}

Fact(path, value) == [path |-> path, value |-> value]
MCFactTrees == {
  {Fact({"users"}, <<"1200">>), Fact({"users", "Go"}, <<"15">>)},
  {Fact({"language"}, <<"Go">>), Fact({"shipped"}, <<"2">>), Fact({"users"}, <<"12">>)},
  {Fact({"since"}, <<"2015", "-", "01", "-", "02">>)} }
MCRuleLists == { << <<"shipped", "Go">>, <<"Go", "12">> >>,
                 << <<"01", "-">>, <<"users">>, <<"12", "users">> >> }

Rule(claim, quoted, sep, reason, fuzz, more) ==
  [heading |-> <<>>, claim |-> claim, quoted |-> quoted, sep |-> sep, reason |-> reason,
   fuzz |-> fuzz, more |-> more]
NoRule == Rule(<<>>, FALSE, "-", <<>>, <<>>, <<>>)
MCRuleItems == {
  [NoRule EXCEPT !.heading = <<"claims", "-", "new">>],
  [NoRule EXCEPT !.reason = <<"-", "a", "note">>],
  [NoRule EXCEPT !.reason = <<"prose">>],
  Rule(<<"a", "-", "b">>, TRUE, "em-dash", <<"no", "-", "not", "yet">>, <<"{fuzz: 3}">>,
       <<"nor", "ever">>),
  Rule(<<"a", Quote, "b", Quote>>, TRUE, "--", <<"why", "-", "so">>, <<>>, <<>>),
  Rule(<<"a">>, FALSE, "-", <<"{other}">>, <<"{fuzz: exact}">>, <<"see", "{other}">>),
  Rule(<<Quote, "b", Quote, "c">>, FALSE, "-", <<>>, <<"{fuzz: exact}">>, <<>>),
  Rule(<<"b", "-">>, FALSE, "-", <<>>, <<>>, <<"late">>) }

Story(title, name, preface, short, long, drift, sensitivity) ==
  [title |-> title, name |-> name, preface |-> preface, short |-> short, long |-> long,
   drift |-> drift, sensitivity |-> sensitivity]
MCStoryItems == {
  Story(<<"STORY:", "one">>, <<"one">>, <<"about">>, <<"it", "ran">>, <<"at", "length">>,
        << <<"no", "sales">>, <<"no", "dates">> >>, <<"public">>),
  Story(<<"one">>, <<"one">>, <<"-", "once">>, <<>>, <<"again">>, <<>>, <<>>),
  Story(<<"two", "parts">>, <<"two", "parts">>, <<>>, <<"x">>, <<>>, << <<"y">> >>, <<"low">>) }

Strings(set, n) == UNION {[1 .. k -> set] : k \in 1 .. n}
MCGlobs == Strings({"*", "**", "a", "b"}, 3)
MCPathNames == Strings({"a", "b", "..x", "truth"}, 2) \cup Strings({"a", "b"}, 3)

-----------------------------------------------------------------------------

Small(w) == Name(w, FALSE)
MCFilteredEdits ==
  [path : {<<Small("src"), Small("acme"), Small("src"), Small("beta"), Small("x")>>,
           <<Small("src"), Name("beta", TRUE), Small("x")>>, <<Small("docs"), Small("x")>>},
   content : {<<>>, <<Small("we"), Small("won")>>,
              <<Name("WE", FALSE), Name("disclosure", TRUE)>>,
              <<Small("we"), Name("disclosure", TRUE)>>}]

Filter(list, word, values, required) ==
  [list |-> list, word |-> Small(word), group |-> values # <<>>, values |-> values,
   required |-> required, omitted |-> FALSE, mistake |-> "none"]
BlanketBan(word) == Filter("paths", word, <<>>, NoText)
Disclosure == Filter("contents", "we", <<>>, Small("disclosure"))
MCMistaken ==
  {[BlanketBan("src") EXCEPT !.mistake = m] : m \in Mistakes}
    \cup {[Disclosure EXCEPT !.mistake = m] : m \in Mistakes \ {"bad value"}}

\* Rules of every shape: bans, listed values with and without a group to compare
\* them with, requirements, and every mistake.
MCFilters == MCMistaken \cup {
  [BlanketBan("src") EXCEPT !.omitted = TRUE],
  [BlanketBan("docs") EXCEPT !.group = TRUE],
  Filter("paths", "src", <<Small("gamma"), Name("beta", FALSE)>>, NoText),
  [Filter("paths", "src", <<Small("beta")>>, NoText) EXCEPT !.group = FALSE],
  Disclosure,
  [Filter("contents", "won", <<>>, NoText) EXCEPT !.omitted = TRUE] }
=============================================================================
