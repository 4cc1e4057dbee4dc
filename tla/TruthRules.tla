----------------------------- MODULE TruthRules -----------------------------
(***************************************************************************)
(* What the operator writes in the truth tree, as the adapter reads it:    *)
(* the rules of do-not-claim.md, the stories of stories.md, and the globs  *)
(* of exempt paths.  A line is its words, a quotation mark being a word of *)
(* its own, and whether it is indented.                                    *)
(***************************************************************************)
EXTENDS Naturals, Sequences, FiniteSets, SequencesExt, FiniteSetsExt

Quote == "quote"
Markers == {"X", "x"}
Separators == <<"em-dash", "--", "-">>     \* in the order they are looked for
DefaultFuzzThreshold == 1
Annotation == [w \in {"{fuzz: exact}", "{fuzz: 3}"} |-> IF w = "{fuzz: 3}" THEN 3 ELSE 0]

Line(indented, words) == [indented |-> indented, words |-> words]
Starts(line, heads) == Len(line.words) > 1 /\ line.words[1] \in heads
After(s, k) == SubSeq(s, k + 1, Len(s))

-----------------------------------------------------------------------------
(* do-not-claim.md                                                         *)

Unquote(s) ==
  IF Len(s) > 1 /\ s[1] = Quote /\ Last(s) = Quote THEN SubSeq(s, 2, Len(s) - 1) ELSE s

\* The first separator of the earliest kind, between other words.
SeparatorPlace(body) ==
  LET at(sep) == {k \in 2 .. Len(body) - 1 : body[k] = sep}
      kinds == {n \in DOMAIN Separators : at(Separators[n]) # {}}
  IN IF kinds = {} THEN 0 ELSE Min(at(Separators[Min(kinds)]))

\* The annotation ends the body; text and reason are around the separator.
ParseRuleBody(words) ==
  LET annotated == words # <<>> /\ Last(words) \in DOMAIN Annotation
      body == IF annotated THEN Front(words) ELSE words
      sep == SeparatorPlace(body)
  IN [text |-> Unquote(IF sep = 0 THEN body ELSE SubSeq(body, 1, sep - 1)),
      reason |-> IF sep = 0 THEN <<>> ELSE After(body, sep),
      fuzz |-> IF annotated THEN Annotation[Last(words)] ELSE DefaultFuzzThreshold]

\* A heading names the category, a marked bullet is a rule, an indented line
\* continues the reason of the last rule.  A rule without text fails the file.
ReadRuleLine(st, line) ==
  LET bullet == Starts(line, {"-", "*"}) /\ line.words[2] \in Markers
      rule == ParseRuleBody(After(line.words, 2))
      last == Len(st.rules)
  IN IF ~ st.ok THEN st
     ELSE IF Starts(line, {"##"}) THEN [st EXCEPT !.category = After(line.words, 1)]
     ELSE IF Starts(line, {"-", "*"}) THEN
       IF ~ bullet THEN st
       ELSE IF rule.text = <<>> THEN [st EXCEPT !.ok = FALSE]
       ELSE [st EXCEPT !.rules = Append(@, [category |-> st.category, rule |-> rule])]
     ELSE IF line.indented /\ last > 0
       THEN [st EXCEPT !.rules[last].rule.reason = @ \o line.words]
     ELSE st

-----------------------------------------------------------------------------
(* stories.md                                                              *)

NoStory == [name |-> <<>>, short |-> <<>>, long |-> <<>>, drift |-> <<>>,
            sensitivity |-> <<>>]
Sections == [w \in {"short", "long", "drift", "sensitivity"} |-> w]

\* Mutant: the section of the story before is still open.
CommitStory(st) ==
  IF st.current = NoStory THEN st
  ELSE [st EXCEPT !.stories = {s \in @ : s.name # st.current.name} \cup {st.current},
                  !.current = NoStory]

\* The story under way is kept under its name when the next one begins or the
\* file ends: the last of two stories of one name stays.
Commit(st) ==
  IF st.current = NoStory THEN st
  ELSE [st EXCEPT !.stories = {s \in @ : s.name # st.current.name} \cup {st.current},
                  !.current = NoStory, !.section = ""]

ReadStoryLine(st, line) ==
  LET words == line.words
      name == IF Starts(line, {"##"}) /\ words[2] = "STORY:" THEN After(words, 2)
              ELSE After(words, 1)
      known == Starts(line, {"###"}) /\ words[2] \in DOMAIN Sections
  IN IF ~ st.ok THEN st
     ELSE IF Starts(line, {"##"}) THEN
       IF name = <<>> THEN [st EXCEPT !.ok = FALSE]
       ELSE [Commit(st) EXCEPT !.current = [NoStory EXCEPT !.name = name]]
     ELSE IF st.current = NoStory THEN st
     ELSE IF Starts(line, {"###"}) THEN
       [st EXCEPT !.section = IF known THEN Sections[words[2]] ELSE ""]
     ELSE CASE st.section \in {"short", "long"} ->
                 [st EXCEPT !.current[st.section] = @ \o words]
            [] st.section = "drift" /\ Starts(line, {"-"}) ->
                 [st EXCEPT !.current.drift = Append(@, After(words, 1))]
            [] st.section = "sensitivity" /\ st.current.sensitivity = <<>> ->
                 [st EXCEPT !.current.sensitivity = words]
            [] OTHER -> st

-----------------------------------------------------------------------------
(* Files                                                                   *)

ReadFileLine(file, st, line) ==
  CASE file = "rules" -> ReadRuleLine(st, line)
    [] file = "stories" -> ReadStoryLine(st, line)

\* A file is read line by line; st is what was made of the lines before.
ReadLines(file, st, lines) ==
  LET read[k \in 0 .. Len(lines)] ==
        IF k = 0 THEN st ELSE ReadFileLine(file, read[k - 1], lines[k])
  IN read[Len(lines)]

NoRules == [ok |-> TRUE, category |-> <<>>, rules |-> <<>>]
NoStories == [ok |-> TRUE, current |-> NoStory, section |-> "", stories |-> {}]

ParseRules(lines) == ReadLines("rules", NoRules, lines)
ParseStories(lines) == Commit(ReadLines("stories", NoStories, lines))

-----------------------------------------------------------------------------
(* Globs                                                                   *)

\* filepath.Match of one segment.
MatchSegment(p, name) == p = "*" \/ p = name

\* matchSegs, by the number of segments of the pattern that are left: they match
\* what follows these places.  `**` takes any number of segments.
MatchSegs(pp, np) ==
  LET places == 0 .. Len(np)
      before(p, rest) ==
        {k \in places : IF p = "**" THEN \E j \in rest : k <= j
                        ELSE k + 1 \in rest /\ MatchSegment(p, np[k + 1])}
      matched[n \in 0 .. Len(pp)] ==
        IF n = 0 THEN {Len(np)} ELSE before(pp[Len(pp) - n + 1], matched[n - 1])
  IN 0 \in matched[Len(pp)]

MatchGlob(pattern, name) ==
  IF "**" \in ToSet(pattern) THEN MatchSegs(pattern, name)
  ELSE Len(pattern) = Len(name) /\ \A k \in DOMAIN name : MatchSegment(pattern[k], name[k])

\* A name that begins like the parent directory is taken for it.
DotDotNames == {"..", "..x"}

\* isExemptFromMatcher: in the truth tree, or named by a glob inside the
\* project.  Paths are sequences of segments.
IsExemptFromMatcher(path, root, truthDir, globs) ==
  LET rel == IF path = root THEN <<".">> ELSE After(path, Len(root))
  IN path # <<>>
     /\ \/ truthDir # <<>> /\ IsPrefix(truthDir, path)
        \/ /\ root # <<>> /\ IsPrefix(root, path) /\ rel[1] \notin DotDotNames
           /\ \E g \in globs : MatchGlob(g, rel)
=============================================================================
