----------------------------- MODULE FilterRules -----------------------------
(***************************************************************************)
(* filters.yaml as the ground-truth adapter reads it, and what the rules   *)
(* that come through make of an edit.  A YAML value is a record of its     *)
(* type; a name is a spelling, folded, and whether it is in capitals.  A   *)
(* pattern finds one word: a directory, whose successor it captures if it  *)
(* has a group, or a word of the content.                                  *)
(***************************************************************************)
EXTENDS Naturals, Sequences, SequencesExt

Str(value) == [type |-> "string", value |-> value]
List(items) == [type |-> "list", items |-> items]
Absent == [type |-> "absent"]
NotAString == [type |-> "other"]

Name(spelling, capitals) == [spelling |-> spelling, capitals |-> capitals]
NoText == Name("", FALSE)
Pattern(word, group, compiles) == [word |-> word, group |-> group, compiles |-> compiles]

EqualFold(a, b) == a.spelling = b.spelling

-----------------------------------------------------------------------------
(* parsePathFilters, parseContentFilters                                   *)

\* A pattern must be a string, not empty, and a regex Go compiles.
PatternOK(v) == v.type = "string" /\ v.value.word # NoText /\ v.value.compiles

ForbiddenOK(v) ==
  v.type = "absent" \/ (v.type = "list" /\ \A s \in ToSet(v.items) : s.type = "string")

PathEntryOK(e) == e.type = "map" /\ PatternOK(e.pattern) /\ ForbiddenOK(e.forbidden)
ContentEntryOK(e) == e.type = "map" /\ PatternOK(e.pattern)

\* No list is no rule, anything else that is none fails the file.
ListOrAbsent(v) == v.type \in {"absent", "list"}
Entries(v) == IF v.type = "absent" THEN {} ELSE ToSet(v.items)

PathFilters(v) ==
  {[pattern |-> e.pattern.value,
    forbidden |-> {s.value : s \in Entries(e.forbidden)}] : e \in Entries(v)}

\* A required text that is no string, or has another key, is none.
ContentFilters(v) ==
  {[pattern |-> e.pattern.value,
    required |-> IF e.required.type = "string" THEN e.required.value ELSE NoText]
     : e \in Entries(v)}

-----------------------------------------------------------------------------
(* What a rule makes of an edit                                            *)

\* MatchPath: what the first match captures, which is nothing without a group.
Captures(pattern, path) ==
  LET at == {k \in 1 .. Len(path) - 1 : path[k] = pattern.word}
  IN {IF pattern.group THEN path[k + 1] ELSE NoText : k \in {j \in at : \A i \in at : j <= i}}

\* Any match is forbidden if no values are, else a captured one is.
PathForbidden(pf, path) ==
  \E captured \in Captures(pf.pattern, path) :
    pf.forbidden = {} \/ \E v \in pf.forbidden : EqualFold(v, captured)

\* Capitals count for the pattern, not for the text it requires.
DisclosureMissing(cf, content) ==
  /\ cf.pattern.word \in ToSet(content)
  /\ cf.required # NoText
  /\ ~ \E word \in ToSet(content) : EqualFold(word, cf.required)

\* One bad entry fails the file.
FileOK(file) ==
  /\ ListOrAbsent(file.paths) /\ \A e \in Entries(file.paths) : PathEntryOK(e)
  /\ ListOrAbsent(file.contents) /\ \A e \in Entries(file.contents) : ContentEntryOK(e)

\* loadFilters and, if a rule fires, a denial by the trusted adapter.
FiltersAnswer(file, path, content) ==
  IF ~ FileOK(file) THEN "malformed"
  ELSE IF \/ \E pf \in PathFilters(file.paths) : PathForbidden(pf, path)
          \/ \E cf \in ContentFilters(file.contents) : DisclosureMissing(cf, content)
  THEN "deny" ELSE "pass"
=============================================================================
