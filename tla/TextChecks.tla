----------------------------- MODULE TextChecks -----------------------------
(***************************************************************************)
(* What the program makes of text: its pure functions, one input at a      *)
(* time, and the filter of leonard-mcp's standard input, one stream at a   *)
(* time.  The two have no state in common.                                 *)
(***************************************************************************)
EXTENDS Extraction, ContentChecks, ClaimChecks, EditChecks, WiringChecks, StdinFilter

\* Nothing arrives at standard input.
NoStream ==
  /\ stream = <<>> /\ ending = "eof"
  /\ read = 0 /\ buf = <<>> /\ skipping = FALSE /\ eof = TRUE
  /\ out = <<>> /\ sent = <<>> /\ over = "eof" /\ seen = <<>>

\* Nothing is examined.
NoInput == input = [form |-> "none"] /\ done = TRUE

Init ==
  /\ answer = <<>>
  /\ \/ /\ ExtractionInput \/ ContentInput \/ ClaimInput \/ EditInput \/ WiringInput
        /\ done = FALSE /\ NoStream
     \/ FilterInit /\ NoInput

Examine ==
  \/ Strip \/ Parse \/ Extract
  \/ FindForbidden \/ DetectClaims \/ ParseRulesFile \/ ParseStoriesFile \/ AskExempt
  \/ ApplyFilters \/ JudgeEdit
  \/ CheckWiring

Next ==
  \/ Examine /\ UNCHANGED streamVars
  \/ FilterNext /\ UNCHANGED examVars

Spec == Init /\ [][Next]_<<examVars, streamVars>>
=============================================================================
