----------------------------- MODULE FuzzyMatch -----------------------------
(***************************************************************************)
(* Where a forbidden claim occurs in a text: exactly, or within a number   *)
(* of edits.  A text is a sequence of characters; a span [start, end) is a *)
(* half-open range of places in it.                                        *)
(***************************************************************************)
EXTENDS Naturals, Integers, Sequences, FiniteSets, SequencesExt, FiniteSetsExt

CONSTANTS
  Digits, WordBytes,   \* classes of characters
  SmallLetter          \* of each capital one

\* strings.ToLower of ASCII, which keeps every character in its place.
ToLower(s) == [k \in DOMAIN s |-> IF s[k] \in DOMAIN SmallLetter THEN SmallLetter[s[k]] ELSE s[k]]

Span(start, end) == [start |-> start, end |-> end]
Overlap(s, t) == s.start < t.end /\ t.start < s.end
Window(s, sp) == SubSeq(s, sp.start, sp.end - 1)

-----------------------------------------------------------------------------
(* Edit distance                                                           *)

Least(x, y) == IF x <= y THEN x ELSE y

\* One more row of the table, from the row before it.
NextRow(prev, i, a, b) ==
  LET row[j \in 0 .. Len(b)] ==
        IF j = 0 THEN i
        ELSE Least(prev[j - 1] + (IF a[i] = b[j] THEN 0 ELSE 1),
                   Least(prev[j] + 1, row[j - 1] + 1))
  IN row

\* The table, a row for every character of a.
Rows(a, b) ==
  LET rows[i \in 0 .. Len(a)] ==
        IF i = 0 THEN [j \in 0 .. Len(b) |-> j] ELSE NextRow(rows[i - 1], i, a, b)
  IN rows

\* levenshteinBuf: the distance, or cap + 1.  A row above cap ends it.
Levenshtein(a, b, cap) ==
  LET long == IF Len(a) < Len(b) THEN b ELSE a
      short == IF Len(a) < Len(b) THEN a ELSE b
      rows == Rows(long, short)
      above(row) == \A j \in DOMAIN row : row[j] > cap
  IN IF short = <<>> THEN Len(long)
     ELSE IF Len(long) - Len(short) > cap \/ \E i \in 1 .. Len(long) : above(rows[i]) THEN cap + 1
     ELSE rows[Len(long)][Len(short)]

-----------------------------------------------------------------------------
(* Exact occurrences                                                       *)

WordAt(s, k) == k \in DOMAIN s /\ s[k] \in WordBytes

\* An edge of the needle that is a word character is an edge of a word.
HasWordBoundaries(hay, sp, needle) ==
  /\ WordAt(needle, 1) => ~ WordAt(hay, sp.start - 1)
  /\ WordAt(needle, Len(needle)) => ~ WordAt(hay, sp.end)

\* From left to right, never overlapping.
FindAllOccurrences(hay, needle) ==
  LET found[i \in 0 .. Len(hay)] ==
        IF i = 0 THEN <<>>
        ELSE LET before == found[i - 1]
                 sp == Span(i, i + Len(needle))
             IN IF /\ sp.end <= Len(hay) + 1 /\ HasWordBoundaries(hay, sp, needle)
                   /\ Window(ToLower(hay), sp) = ToLower(needle)
                   /\ \A m \in ToSet(before) : m.end <= i
                THEN Append(before, sp) ELSE before
  IN IF needle = <<>> THEN <<>> ELSE found[Len(hay)]

-----------------------------------------------------------------------------
(* Fuzzy occurrences                                                       *)

\* The numbers in a text, which may not change: the one under way begins at
\* `start`.
DigitRuns(s) ==
  LET read[k \in 0 .. Len(s)] ==
        IF k = 0 THEN [start |-> 0, out |-> <<>>]
        ELSE LET st == read[k - 1]
             IN IF s[k] \in Digits THEN [st EXCEPT !.start = IF @ = 0 THEN k ELSE @]
                ELSE IF st.start = 0 THEN st
                ELSE [start |-> 0, out |-> Append(st.out, Window(s, Span(st.start, k)))]
      last == read[Len(s)]
  IN IF last.start = 0 THEN last.out
     ELSE Append(last.out, Window(s, Span(last.start, Len(s) + 1)))

ContainsNumericChange(window, needle) ==
  DigitRuns(needle) # <<>> /\ DigitRuns(window) # DigitRuns(needle)

\* The needle's own length first, then one longer, one shorter, and so on.
SizeOrder(n, w) == IF w < n THEN 2 * (n - w) + 1 ELSE 2 * (w - n)

\* Mutant: numbers are compared like words.
AcceptsAnyNumber(hay, needle, threshold, sp) ==
  /\ HasWordBoundaries(hay, sp, needle)
  /\ Levenshtein(Window(ToLower(hay), sp), ToLower(needle), threshold) <= threshold

\* Is the window a match?  A longer one may not grow into a word: the character
\* after the needle's length is then no word character.
Accepts(hay, needle, threshold, sp) ==
  LET n == Len(needle)
      window == Window(ToLower(hay), sp)
  IN /\ WordAt(needle, n) => ~ WordAt(hay, sp.end)
     /\ (sp.end - sp.start > n /\ WordAt(needle, n)) => ~ WordAt(hay, sp.start + n)
     /\ Levenshtein(window, ToLower(needle), threshold) <= threshold
     /\ ~ ContainsNumericChange(window, ToLower(needle))

MinSize(needle, threshold) == IF Len(needle) > threshold THEN Len(needle) - threshold ELSE 1

\* The sizes of the windows at i that match, clear of the exact ones.
Fits(hay, needle, threshold, exact, i) ==
  {w \in MinSize(needle, threshold) .. Least(Len(needle) + threshold, Len(hay) - i + 1) :
     /\ \A k \in DOMAIN exact : ~ Overlap(Span(i, i + w), exact[k])
     /\ Accepts(hay, needle, threshold, Span(i, i + w))}

\* The scan at i, which goes on at st.at.
ScanAt(hay, needle, threshold, exact, st, i) ==
  LET minW == MinSize(needle, threshold)
      inside == {k \in DOMAIN exact : Overlap(Span(i, i + minW), exact[k])}
      fits == Fits(hay, needle, threshold, exact, i)
      size == CHOOSE w \in fits : \A v \in fits : SizeOrder(Len(needle), w) <= SizeOrder(Len(needle), v)
  IN IF i < st.at \/ i + minW > Len(hay) + 1 THEN st
     ELSE IF inside # {} THEN [st EXCEPT !.at = exact[Min(inside)].end]
     ELSE IF (WordAt(needle, 1) /\ WordAt(hay, i - 1)) \/ fits = {} THEN st
     ELSE [at |-> i + size, found |-> Append(st.found, Span(i, i + size))]

FuzzyMatches(hay, needle, threshold, exact) ==
  LET after[i \in 0 .. Len(hay)] ==
        IF i = 0 THEN [at |-> 1, found |-> <<>>]
        ELSE ScanAt(hay, needle, threshold, exact, after[i - 1], i)
  IN after[Len(hay)].found

\* Two lists that are in order, in order.
MergeSpans(a, b) ==
  LET merged[n \in 0 .. Len(a) + Len(b)] ==
        IF n = 0 THEN [i |-> 0, j |-> 0, out |-> <<>>]
        ELSE LET st == merged[n - 1]
             IN IF /\ st.i < Len(a)
                   /\ st.j < Len(b) => a[st.i + 1].start <= b[st.j + 1].start
                THEN [st EXCEPT !.i = @ + 1, !.out = Append(@, a[st.i + 1])]
                ELSE [st EXCEPT !.j = @ + 1, !.out = Append(@, b[st.j + 1])]
  IN merged[Len(a) + Len(b)].out

FindFuzzyOccurrences(hay, needle, threshold) ==
  LET exact == FindAllOccurrences(hay, needle)
  IN IF needle = <<>> \/ threshold = 0 THEN exact
     ELSE MergeSpans(exact, FuzzyMatches(hay, needle, threshold, exact))
=============================================================================
