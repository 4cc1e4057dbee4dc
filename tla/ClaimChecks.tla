---------------------------- MODULE ClaimChecks ----------------------------
(***************************************************************************)
(* Where a text says a forbidden claim, against what it says there, and    *)
(* the claims that Detect finds in a text, against what the rules and the  *)
(* patterns match.  Each state is one text, then the matches or claims.    *)
(***************************************************************************)
EXTENDS FuzzyMatch, ClaimDetector, Examination

CONSTANTS
  Alphabet, MaxText,         \* texts searched for a forbidden claim
  Needles, Thresholds,
  Phrases, MaxPhrases,       \* pieces of a text that makes claims
  FactTrees, RuleLists       \* what it is checked against

\* A claim is characters; a phrase is words, one field together or each a field.
ASSUME ClaimAssumption ==
  /\ MaxText \in Nat /\ Thresholds \subseteq Nat
  /\ \A needle \in Needles : IsSequence(needle)
  /\ MaxPhrases \in Nat
  /\ \A phrase \in Phrases : IsSequence(phrase.words)
  /\ \A rules \in RuleLists : IsSequence(rules) /\ \A r \in DOMAIN rules : IsSequence(rules[r])

\* The words of the phrases.
Text(phrases) ==
  FlattenSeq([k \in DOMAIN phrases |->
    [n \in DOMAIN phrases[k].words |->
       [word |-> phrases[k].words[n],
        field |-> IF phrases[k].joined THEN <<k>> ELSE <<k, n>>]]])

\* A rule matches where its words are.
Places(rule, text) ==
  FlattenSeq([k \in DOMAIN text |->
    IF \A n \in DOMAIN rule : WordIn(text, k + n - 1) = rule[n]
    THEN << [start |-> k, end |-> k + Len(rule)] >> ELSE <<>>])

ClaimInput ==
  \/ input \in [form : {"fuzzy"}, hay : BoundedSeq(Alphabet, MaxText), needle : Needles,
                threshold : Thresholds]
  \/ input \in [form : {"claims"}, text : {Text(ph) : ph \in BoundedSeq(Phrases, MaxPhrases)},
                facts : FactTrees, rules : RuleLists]

FindForbidden ==
  /\ input.form = "fuzzy"
  /\ Answer(FindFuzzyOccurrences(input.hay, input.needle, input.threshold))

DetectClaims ==
  /\ input.form = "claims"
  /\ Answer(Detect(input.text, input.facts,
                   [r \in DOMAIN input.rules |-> Places(input.rules[r], input.text)]))

ClaimInit == ClaimInput /\ done = FALSE /\ answer = <<>>

ClaimNext == FindForbidden \/ DetectClaims

ClaimSpec == ClaimInit /\ [][ClaimNext]_examVars

-----------------------------------------------------------------------------
(* Forbidden claims                                                        *)

\* `kept` says where each character of the claim is in what is said, 0 if
\* nowhere.  A character that is not kept is an edit, in either, and so is one
\* that is kept as another.
EditCount(said, claim, kept) ==
  LET found == {k \in DOMAIN claim : kept[k] # 0}
      same == {k \in found : said[kept[k]] = claim[k]}
  IN Len(claim) + Len(said) - Cardinality(found) - Cardinality(same)

InOrder(kept) ==
  \A j, k \in DOMAIN kept : j < k /\ kept[j] # 0 /\ kept[k] # 0 => kept[j] < kept[k]

WithinEdits(said, claim, edits) ==
  \E kept \in [DOMAIN claim -> 0 .. Len(said)] :
    InOrder(kept) /\ EditCount(said, claim, kept) <= edits

\* The longest runs of digits.
Runs(s) ==
  {sp \in [start : DOMAIN s, end : 2 .. Len(s) + 1] :
     /\ sp.start < sp.end
     /\ \A k \in sp.start .. sp.end - 1 : s[k] \in Digits
     /\ \A k \in {sp.start - 1, sp.end} \cap DOMAIN s : s[k] \notin Digits}

\* The numbers of a text, each with its place among them.
Numbers(s) ==
  {<<Cardinality({q \in Runs(s) : q.start <= r.start}), Window(s, r)>> : r \in Runs(s)}

\* The claim is in the text from start to end, but for a few edits in words.
SaidAt(sp) ==
  LET said == ToLower(Window(input.hay, sp))
      claim == ToLower(input.needle)
  IN /\ HasWordBoundaries(input.hay, sp, input.needle)
     /\ Numbers(claim) # {} => Numbers(said) = Numbers(claim)
     /\ WithinEdits(said, claim, input.threshold)

\* Every match says the claim, up to `threshold` edits, in whole words and with
\* its numbers unchanged; matches are apart and in order; and wherever the text
\* says the claim a match is found, unless the words there are longer than
\* the claim and go on where it ends.  An empty claim is nowhere.  The window
\* search, its skips past exact matches and the table that gives up early must
\* miss none.
FuzzyMatchesAreRight ==
  Done({"fuzzy"}) =>
    LET n == Len(input.needle)
        grown(sp) == /\ sp.end - sp.start > n /\ WordAt(input.needle, n)
                     /\ WordAt(input.hay, sp.start + n)
        spans == {sp \in [start : DOMAIN input.hay, end : 2 .. Len(input.hay) + 1] :
                    sp.start < sp.end}
    IN /\ \A k \in DOMAIN answer : SaidAt(answer[k])
       /\ \A j \in 1 .. Len(answer) - 1 : answer[j].end <= answer[j + 1].start
       /\ n = 0 => answer = <<>>
       /\ \A sp \in spans :
            n > 0 /\ SaidAt(sp) /\ ~ grown(sp) => \E j \in DOMAIN answer : Overlap(sp, answer[j])

-----------------------------------------------------------------------------
(* The claims of a text                                                    *)

\* Forbidden claims come before those of any scan.
Rank(category) ==
  IF category = "forbidden" THEN 0 ELSE CHOOSE n \in DOMAIN Scans : Scans[n] = category

\* Claims are in the order of the text; two overlap only if rules forbid both.
\* Whatever a rule or a pattern matches is a claim, or shares its words with a
\* claim of a category that comes before it, or is a year in passing: no order
\* of the scans loses a forbidden claim behind another.
MatchesAreAnswered ==
  Done({"claims"}) =>
    /\ \A j, k \in DOMAIN answer : j < k =>
         /\ answer[j].start <= answer[k].start
         /\ Overlaps(answer[j], answer[k]) =>
              answer[j].verdict = "forbidden" /\ answer[k].verdict = "forbidden"
    /\ \A r \in DOMAIN input.rules : \A sp \in ToSet(Places(input.rules[r], input.text)) :
         Claim(sp, "forbidden", "forbidden") \in ToSet(answer)
    /\ \A category \in ToSet(Scans) \ {"contradiction"} :
         \A m \in ToSet(Matches(category, input.text)) :
           \/ \E c \in ToSet(answer) : Overlaps(m, c) /\ Rank(c.category) <= Rank(category)
           \/ WordIn(input.text, m.start - 1) = "since" /\ m.end = m.start + 1

\* A count the facts state is reported as verified, whatever facts of about
\* its size stand next to it and however its digits are grouped: no other
\* number of the tree contradicts a true one.
TrueNumbersAreVerified ==
  Done({"claims"}) =>
    \A m \in ToSet(Matches("quantitative", input.text)) :
      /\ \E f \in input.facts : f.value = <<Plain(WordIn(input.text, m.start))>>
      /\ \A c \in ToSet(answer) :
           Overlaps(m, c) => c.category \in {"contradiction", "quantitative"}
      => Claim(m, "quantitative", "verified") \in ToSet(answer)
=============================================================================
