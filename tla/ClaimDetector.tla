--------------------------- MODULE ClaimDetector ---------------------------
(***************************************************************************)
(* Detect: the claims of a text, from the do-not-claim rules, the facts    *)
(* and the patterns.  A text is a sequence of words; `field` counts the    *)
(* blank-separated fields, of which a date such as 2015-01-02 is one.      *)
(***************************************************************************)
EXTENDS Naturals, Integers, Sequences, FiniteSets, SequencesExt, FiniteSetsExt

\* Words: prose and its classes.  Plain drops a thousands separator.
Value == [w \in {"12", "15", "01", "02", "2015", "1,200", "1200"} |->
            CASE w = "12" -> 12 [] w = "15" -> 15 [] w = "01" -> 1 [] w = "02" -> 2
              [] w = "2015" -> 2015 [] w \in {"1,200", "1200"} -> 1200]
Plain(w) == IF w = "1,200" THEN "1200" ELSE w
IsNumber(w) == w \in DOMAIN Value

WordIn(text, k) == IF k \in DOMAIN text THEN text[k].word ELSE ""

Overlaps(c, d) == c.start < d.end /\ d.start < c.end

\* Mutant: only the forbidden claims take precedence.
OverlapsForbidden(c, claims) ==
  \E k \in DOMAIN claims : claims[k].verdict = "forbidden" /\ Overlaps(c, claims[k])

OverlapsAny(c, claims) == \E k \in DOMAIN claims : Overlaps(c, claims[k])

-----------------------------------------------------------------------------
(* Matches                                                                 *)

\* The scans in order of priority: any number first, which may contradict the
\* facts, then the patterns.
Scans == <<"contradiction", "opinion", "tech_in_production", "personal_action",
           "quantitative", "date">>

FullDate(text, i) ==
  /\ WordIn(text, i) = "2015" /\ WordIn(text, i + 1) = "-" /\ WordIn(text, i + 3) = "-"
  /\ IsNumber(WordIn(text, i + 2)) /\ IsNumber(WordIn(text, i + 4))

\* The words of the field that begins at i.
FieldLength(text, i) == Cardinality({k \in i .. Len(text) : text[k].field = text[i].field})

\* How many words one takes at i.  The object of an action is a field, which
\* in the code ends before a comma.
LengthAt(category, text, i) ==
  LET is(k, words) == WordIn(text, k) \in words
  IN CASE category = "opinion" -> IF is(i, {"I"}) /\ is(i + 1, {"prefer"}) THEN 2 ELSE 0
       [] category = "tech_in_production" ->
            IF is(i, {"shipped"}) /\ is(i + 1, {"Go"}) THEN 2 ELSE 0
       [] category = "personal_action" ->
            IF is(i, {"I"}) /\ is(i + 1, {"shipped"}) /\ i + 2 <= Len(text)
            THEN 2 + FieldLength(text, i + 2) ELSE 0
       [] category = "quantitative" ->
            IF IsNumber(WordIn(text, i)) /\ is(i + 1, {"users"}) THEN 2 ELSE 0
       [] category = "date" ->
            IF FullDate(text, i) THEN 5 ELSE IF is(i, {"2015"}) THEN 1 ELSE 0
       [] category = "contradiction" -> IF IsNumber(WordIn(text, i)) THEN 1 ELSE 0

\* FindAllStringSubmatchIndex: from left to right, never overlapping.
Matches(category, text) ==
  LET found[i \in 0 .. Len(text)] ==
        IF i = 0 THEN <<>>
        ELSE LET before == found[i - 1]
                 n == LengthAt(category, text, i)
             IN IF n > 0 /\ \A m \in ToSet(before) : m.end <= i
                THEN Append(before, [start |-> i, end |-> i + n]) ELSE before
  IN found[Len(text)]

\* What is looked up: the words of the match that the category is about.
Subject(category, text, m) ==
  LET words(from, past) == [k \in 1 .. past - from |-> text[from + k - 1].word]
  IN CASE category = "tech_in_production" -> words(m.start + 1, m.end)
       [] category = "personal_action" -> words(m.start + 2, m.end)
       [] category = "quantitative" -> <<Plain(WordIn(text, m.start))>>
       [] OTHER -> words(m.start, m.end)

\* "since 2015" is no claim.
IsTemporalYearContext(text, m) == WordIn(text, m.start - 1) \in {"since"}

-----------------------------------------------------------------------------
(* Claims                                                                  *)

Claim(m, category, verdict) ==
  [start |-> m.start, end |-> m.end, category |-> category, verdict |-> verdict]

\* The rules match first and may overlap each other: a rule's places in the
\* text are those of the fuzzy match.
Forbidden(places) ==
  FlattenSeq([r \in DOMAIN places |->
    [k \in DOMAIN places[r] |-> Claim(places[r][k], "forbidden", "forbidden")]])

\* floor(log10) of a positive number.
Magnitude(v) == CASE v < 10 -> 0 [] v \in 10 .. 99 -> 1 [] v \in 100 .. 999 -> 2 [] OTHER -> 3
NumericOOM(a, b) == Magnitude(a) - Magnitude(b) \in -1 .. 1
IsYearRange(v) == v \in 1900 .. 2100

\* The words of the three fields before and after the number, the part of its
\* own field on either side counting as one.
NumberContext(text, m) ==
  LET near(ks) == Cardinality({text[k].field : k \in ks}) <= 3
  IN {text[k].word : k \in {j \in 1 .. m.start - 1 : near(j .. m.start - 1)}
                        \cup {j \in m.end .. Len(text) : near(m.end .. j)}}

\* A leaf of facts.yaml is the words of its value and those of its path.
NumericLeaves(facts) == {f \in facts : Len(f.value) = 1 /\ IsNumber(f.value[1])}
Number(f) == Value[f.value[1]]

\* A number no fact states, near the words of a fact of about its size.  A word
\* of the path has three letters or more, and is here one of the words of the
\* text, not a part of one.
Contradicts(text, facts, m) ==
  LET v == Value[WordIn(text, m.start)]
  IN /\ ~ IsYearRange(v)
     /\ \A f \in NumericLeaves(facts) : Number(f) # v
     /\ \E f \in NumericLeaves(facts) :
          /\ ~ IsYearRange(Number(f)) /\ NumericOOM(v, Number(f))
          /\ f.path \cap NumberContext(text, m) # {}

FindInFacts(facts, needle) == \E f \in facts : f.value = needle

\* Mutant: the separators of a number stay.
VerdictOfText(category, text, facts, m) ==
  IF \E f \in facts : f.value = <<WordIn(text, m.start)>> THEN "verified" ELSE "unverified"

VerdictOf(category, text, facts, m) ==
  CASE category = "contradiction" -> "contradiction"
    [] category = "opinion" -> "opinion"
    [] /\ category \notin {"contradiction", "opinion"}
       /\ FindInFacts(facts, Subject(category, text, m)) -> "verified"
    [] OTHER -> "unverified"

\* A number that contradicts no fact is no claim here, nor is a year in passing.
IsClaim(category, text, facts, m) ==
  /\ category = "contradiction" => Contradicts(text, facts, m)
  /\ category = "date" /\ m.end = m.start + 1 => ~ IsTemporalYearContext(text, m)

\* One scan: what it matches clear of the claims so far.
WithScan(text, facts, claims, category) ==
  LET found == Matches(category, text)
      upTo[n \in 0 .. Len(found)] ==
        IF n = 0 THEN claims
        ELSE LET before == upTo[n - 1]
                 m == found[n]
             IN IF ~ OverlapsAny(m, before) /\ IsClaim(category, text, facts, m)
                THEN Append(before, Claim(m, category, VerdictOf(category, text, facts, m)))
                ELSE before
  IN upTo[Len(found)]

\* Insertion sort by start: claims that start together keep their order.
InsertBySource(claims, c) ==
  LET before == {k \in DOMAIN claims : claims[k].start <= c.start}
  IN InsertAt(claims, IF before = {} THEN 1 ELSE Max(before) + 1, c)
SortBySource(claims) ==
  LET sorted[n \in 0 .. Len(claims)] ==
        IF n = 0 THEN <<>> ELSE InsertBySource(sorted[n - 1], claims[n])
  IN sorted[Len(claims)]

Detect(text, facts, places) ==
  LET after[n \in 0 .. Len(Scans)] ==
        IF n = 0 THEN Forbidden(places)
        ELSE WithScan(text, facts, after[n - 1], Scans[n])
  IN SortBySource(after[Len(Scans)])
=============================================================================
