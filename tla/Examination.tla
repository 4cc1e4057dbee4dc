---------------------------- MODULE Examination ----------------------------
(***************************************************************************)
(* The frame in which the program's pure functions are checked: a state is *)
(* an input to one of them, and the one step from it is the answer.        *)
(***************************************************************************)
EXTENDS Sequences, SequencesExt

VARIABLES
  input,   \* what is examined: a record whose `form` says by which function
  done,    \* has it been?
  answer   \* what came out
examVars == <<input, done, answer>>

\* The one step from an input.
Answer(value) == ~ done /\ done' = TRUE /\ answer' = value /\ UNCHANGED input

Done(forms) == done /\ input.form \in forms

IsSequence(s) == s \in Seq(ToSet(s))
=============================================================================
