--------------------------- MODULE ContentChecks ---------------------------
(***************************************************************************)
(* What the ground-truth adapter makes of the operator's files, against    *)
(* what they say: rules, stories, globs and filters.  Each state is one    *)
(* input, then one answer.                                                 *)
(***************************************************************************)
EXTENDS TruthRules, FilterRules, Examination

CONSTANTS
  RuleItems, StoryItems,     \* what the operator may have written
  MaxItems,
  Globs, PathNames,          \* of exempt paths, and paths in the project
  Filters, MaxFilters,       \* rules of filters.yaml
  FilteredEdits              \* edits they apply to

-----------------------------------------------------------------------------
(* Inputs                                                                  *)

ListInputs ==
  [form : {"rules"}, items : BoundedSeq(RuleItems, MaxItems)]
    \cup [form : {"stories"}, items : BoundedSeq(StoryItems, MaxItems)]

GlobInputs == [form : {"glob"}, pattern : Globs, name : PathNames]

\* A filters.yaml and an edit of the content at a path.
FilterInputs ==
  [form : {"filters"}, rules : BoundedSeq(Filters, MaxFilters), edit : FilteredEdits]

\* A rule's bullet has its claim, quoted or not, a reason behind a separator and
\* an annotation; its reason may go on in an indented line.
RuleText(item) ==
  IF item.quoted THEN <<Quote>> \o item.claim \o <<Quote>> ELSE item.claim

RuleLines(item) ==
  IF item.heading # <<>> THEN << Line(FALSE, <<"##">> \o item.heading) >>
  ELSE IF item.claim = <<>> THEN << Line(FALSE, item.reason) >>
  ELSE << Line(FALSE, <<"-", "X">> \o RuleText(item)
                        \o (IF item.reason = <<>> THEN <<>> ELSE <<item.sep>> \o item.reason)
                        \o item.fuzz) >>
         \o (IF item.more = <<>> THEN <<>> ELSE << Line(TRUE, <<>>), Line(TRUE, item.more) >>)

StoryLines(item) ==
  << Line(FALSE, <<"##">> \o item.title), Line(FALSE, item.preface) >>
    \o << Line(FALSE, <<"###", "short">>), Line(FALSE, item.short) >>
    \o << Line(FALSE, <<"###", "drift">>) >>
    \o [k \in DOMAIN item.drift |-> Line(FALSE, <<"-">> \o item.drift[k])]
    \o (IF item.sensitivity = <<>> THEN <<>>
        ELSE << Line(FALSE, <<"###", "sensitivity">>), Line(FALSE, item.sensitivity),
                Line(TRUE, item.preface) >>)
    \o << Line(FALSE, <<"###", "notes">>), Line(TRUE, item.preface) >>
    \o << Line(FALSE, <<"###", "long">>), Line(FALSE, item.long) >>

\* Prose says what it likes, but does not begin like something else.
Prose(words, heads) == IsSequence(words) /\ ~ Starts(Line(FALSE, words), heads)

\* The edits a rule tolerates: none, three, or what rules tolerate by default.
Tolerated(item) ==
  CASE item.fuzz = <<"{fuzz: exact}">> -> 0
    [] item.fuzz = <<"{fuzz: 3}">> -> 3
    [] item.fuzz = <<>> -> DefaultFuzzThreshold

\* A heading, prose, or a rule that can be read in one way: without marks around
\* it a claim does not look quoted, what looks like an annotation is one and
\* ends the bullet, and the separator is the first of the earliest kind there.
RuleIsWritten(item) ==
  LET kinds == DOMAIN Separators
      text == RuleText(item)
      within(s, n) == \E k \in 2 .. Len(s) : s[k] = Separators[n]
      annotated(s) == Last(s) \in DOMAIN Annotation
  IN /\ IsSequence(item.heading) /\ IsSequence(item.claim) /\ item.quoted \in BOOLEAN
     /\ item.fuzz \in {<<>>, <<"{fuzz: exact}">>, <<"{fuzz: 3}">>}
     /\ Prose(item.reason, {"##"}) /\ Prose(item.more, {"##", "-", "*"})
     /\ item.heading # <<>> => item.claim = <<>>
     /\ item.claim = <<>> =>
          ~ (Starts(Line(FALSE, item.reason), {"-", "*"}) /\ item.reason[2] \in Markers)
     /\ item.claim # <<>> =>
          /\ ~ item.quoted => ~ (item.claim[1] = Quote /\ Last(item.claim) = Quote)
          /\ item.fuzz = <<>> => ~ annotated(IF item.reason = <<>> THEN text ELSE item.reason)
          /\ item.more # <<>> => ~ annotated(item.more)
          /\ IF item.reason = <<>>
             THEN \A n \in kinds : ~ within(Front(text), n)
             ELSE \E n \in kinds :
                    /\ item.sep = Separators[n]
                    /\ \A m \in 1 .. n : ~ within(text, m)
                    /\ \A m \in 1 .. n - 1 :
                         Separators[m] \notin ToSet(Front(item.reason))

StoryIsWritten(item) ==
  /\ IsSequence(item.title) /\ item.title # <<>> /\ item.name # <<>>
  /\ item.name = IF item.title[1] = "STORY:" THEN After(item.title, 1) ELSE item.title
  /\ \A words \in {item.preface, item.short, item.long, item.sensitivity} :
       Prose(words, {"##", "###"})
  /\ IsSequence(item.drift)
  /\ \A words \in ToSet(item.drift) : IsSequence(words) /\ words # <<>>

\* A rule of filters.yaml: the word it looks for, and the values it forbids
\* behind that word, if any are listed, or the text it requires in return.
\* A mistake is one of these; what a rule requires is text.
Mistakes == {"no list", "no map", "no pattern", "bad pattern", "bad value"}

FilterIsWritten(f) ==
  /\ f.list \in {"paths", "contents"} /\ f.mistake \in Mistakes \cup {"none"}
  /\ f.list = "contents" => f.mistake # "bad value"
  /\ f.group \in BOOLEAN /\ f.omitted \in BOOLEAN
  /\ f.word.spelling # "" /\ IsSequence(f.values)
  /\ \A v \in ToSet(f.values) : v.spelling # ""
  /\ f.omitted => f.values = <<>> /\ f.required = NoText

PatternWritten(f) ==
  IF f.mistake = "no pattern" THEN Absent
  ELSE Str(Pattern(f.word, f.group, f.mistake # "bad pattern"))

ValuesWritten(f) ==
  IF f.mistake = "bad value" THEN List(<<NotAString>>)
  ELSE IF f.omitted THEN Absent
  ELSE List([k \in DOMAIN f.values |-> Str(f.values[k])])

EntryWritten(f) ==
  CASE f.mistake = "no list" -> NotAString
    [] f.mistake = "no map" -> List(<<>>)
    [] f.mistake \notin {"no list", "no map"} /\ f.list = "paths" ->
         [type |-> "map", pattern |-> PatternWritten(f), forbidden |-> ValuesWritten(f)]
    [] f.mistake \notin {"no list", "no map"} /\ f.list = "contents" ->
         [type |-> "map", pattern |-> PatternWritten(f),
          required |-> IF f.omitted THEN Absent ELSE Str(f.required)]

ASSUME ContentAssumption ==
  /\ MaxItems \in Nat /\ MaxFilters \in Nat
  /\ \A item \in RuleItems : RuleIsWritten(item)
  /\ \A item \in StoryItems : StoryIsWritten(item)
  /\ \A pattern \in Globs : IsSequence(pattern)
  /\ \A name \in PathNames : IsSequence(name) /\ name # <<>>
  /\ \A f \in Filters : FilterIsWritten(f)
  /\ \A edit \in FilteredEdits : IsSequence(edit.path)

-----------------------------------------------------------------------------
ContentInput ==
  input \in UNION {ListInputs, GlobInputs, FilterInputs}

ParseRulesFile ==
  /\ input.form = "rules"
  /\ Answer(ParseRules(FlattenSeq([k \in DOMAIN input.items |-> RuleLines(input.items[k])])))

ParseStoriesFile ==
  /\ input.form = "stories"
  /\ Answer(ParseStories(FlattenSeq([k \in DOMAIN input.items |-> StoryLines(input.items[k])])))

AskExempt ==
  /\ input.form = "glob"
  /\ Answer(IsExemptFromMatcher(<<"p">> \o input.name, <<"p">>, <<"p", "truth">>,
                                {input.pattern}))

\* The rules of a list; a list that is none stands for every mistake there.
YamlList(kind) ==
  LET rules == input.rules
      entries == FlattenSeq([k \in DOMAIN rules |->
                   IF rules[k].list = kind THEN << EntryWritten(rules[k]) >>
                   ELSE <<>>])
  IN IF entries = <<>> THEN Absent
     ELSE IF NotAString \in ToSet(entries) THEN NotAString
     ELSE List(entries)

ApplyFilters ==
  /\ input.form = "filters"
  /\ Answer(FiltersAnswer([paths |-> YamlList("paths"), contents |-> YamlList("contents")],
                          input.edit.path, input.edit.content))

ContentInit == ContentInput /\ done = FALSE /\ answer = <<>>

ContentNext == ParseRulesFile \/ ParseStoriesFile \/ AskExempt \/ ApplyFilters

ContentSpec == ContentInit /\ [][ContentNext]_examVars

-----------------------------------------------------------------------------
(* The operator's files                                                    *)

RulesWritten ==
  LET items == input.items
      headings(k) == {j \in 1 .. k : items[j].heading # <<>>}
      category(k) == IF headings(k) = {} THEN <<>> ELSE items[Max(headings(k))].heading
  IN FlattenSeq([k \in DOMAIN items |->
       IF items[k].claim = <<>> THEN <<>>
       ELSE << [category |-> category(k),
                rule |-> [text |-> items[k].claim, reason |-> items[k].reason \o items[k].more,
                          fuzz |-> Tolerated(items[k])]] >>])

StoriesWritten ==
  LET items == input.items
      last == {k \in DOMAIN items : \A j \in k + 1 .. Len(items) : items[j].name # items[k].name}
  IN {[name |-> items[k].name, short |-> items[k].short, long |-> items[k].long,
       drift |-> items[k].drift, sensitivity |-> items[k].sensitivity] : k \in last}

\* Some number of segments for each `**` makes glob and path agree.
GlobCovers(glob, name) ==
  LET stars == {k \in DOMAIN glob : glob[k] = "**"}
      spread(n) == FlattenSeq([k \in DOMAIN glob |->
                     IF k \in stars THEN [j \in 1 .. n[k] |-> "*"] ELSE <<glob[k]>>])
  IN \E n \in [stars -> 0 .. Len(name)] :
       /\ Len(spread(n)) = Len(name)
       /\ \A k \in DOMAIN name : spread(n)[k] \in {"*", name[k]}

\* What docs/schema/filters.md says of a rule: a path through its directory is
\* forbidden, if values are listed one with such a value behind it, capitals or
\* not; a content with its word is, unless the required text is there too.
Forbids(f, edit) ==
  LET at == {k \in 1 .. Len(edit.path) - 1 : edit.path[k] = f.word}
      alike(a, b) == a.spelling = b.spelling
  IN IF f.list = "paths"
     THEN /\ at # {}
          /\ \/ f.values = <<>>
             \/ f.group /\ \E v \in ToSet(f.values) : alike(v, edit.path[Min(at) + 1])
     ELSE /\ f.word \in ToSet(edit.content) /\ f.required # NoText
          /\ \A word \in ToSet(edit.content) : ~ alike(word, f.required)

\* do-not-claim.md and stories.md mean what they say, in any order of rules,
\* headings, prose and sections: a separator in a quoted claim, a continued
\* reason, an annotation, an unknown section or a story of the same name never
\* moves text from one entry to another.  An exempt path is one in the truth
\* tree or one a glob covers; nothing is said of paths that begin with "..",
\* which the adapter takes for paths outside.  An edit is forbidden by the rules
\* that forbid it, if none of them is mistaken, and by no others.
TruthIsReadAsWritten ==
  /\ Done({"rules"}) => answer.ok /\ answer.rules = RulesWritten
  /\ Done({"stories"}) => answer.ok /\ answer.stories = StoriesWritten
  /\ Done({"filters"}) =>
       answer = IF \E f \in ToSet(input.rules) : f.mistake # "none" THEN "malformed"
                ELSE IF \E f \in ToSet(input.rules) : Forbids(f, input.edit) THEN "deny"
                ELSE "pass"
  /\ Done({"glob"}) /\ input.name[1] \notin DotDotNames =>
       (answer <=> input.name[1] = "truth" \/ GlobCovers(input.pattern, input.name))

-----------------------------------------------------------------------------
(* The example of docs/schema/do-not-claim.md                              *)

DocumentedLines == <<
  Line(FALSE, <<"##", "Product", "capability", "gaps">>),
  Line(FALSE, <<"-", "X", Quote, "ExampleSaaS", "supports",
                "HIPAA-compliant", "workflows", Quote,
                "em-dash", "We", "are", "NOT">>),
  Line(TRUE, <<"HIPAA-certified.">>),
  Line(FALSE, <<"-", "X", Quote, "We", "have", "a", "mobile", "app", Quote,
                "em-dash", "No", "native", "mobile", "app.", "We", "have", "a">>),
  Line(TRUE, <<"responsive", "web", "UI.">>),
  Line(FALSE, <<"-", "X", Quote, "Real-time", "collaboration", Quote,
                "em-dash", "Our", "sync", "is", "eventually-consistent">>),
  Line(TRUE, <<"with", "5-30s", "lag.", "{fuzz: exact}">>),
  Line(FALSE, <<"##", "Compliance">>),
  Line(FALSE, <<"-", "X", Quote, "SOC", "2", "audit", "complete", Quote,
                "em-dash", "In", "progress,", "not", "complete.">>),
  Line(FALSE, <<"-", "X", Quote, "GDPR", "compliant", "by", "default", Quote,
                "{fuzz: exact}">>) >>

ParseDocumentedFile ==
  /\ input.form = "documented"
  /\ Answer(ParseRules(input.lines))

DocumentedSpec ==
  /\ input = [form |-> "documented", lines |-> DocumentedLines]
  /\ done = FALSE /\ answer = <<>>
  /\ [][ParseDocumentedFile]_examVars

\* docs/schema/do-not-claim.md:54-57 gives a rule without annotation three edits
\* and `{fuzz: exact}` none, and its example writes the annotation behind the
\* reason, wherever the line is broken.
RulesAreAsDocumented ==
  Done({"documented"}) =>
    [k \in DOMAIN answer.rules |-> answer.rules[k].rule.fuzz] = <<3, 3, 0, 3, 0>>

=============================================================================
