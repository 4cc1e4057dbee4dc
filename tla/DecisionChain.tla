--------------------------- MODULE DecisionChain ---------------------------
(***************************************************************************)
(* What the decision log promises its users: decisions are recorded under  *)
(* a topic, and a decision that still stands can be replaced, once and in  *)
(* one step, by a new decision on the same topic.  Nothing is ever taken   *)
(* back or rewritten.                                                      *)
(***************************************************************************)
CONSTANTS
  Ids,     \* what identifies a decision
  Topics

VARIABLES
  topic,   \* the decisions made: id -> topic
  heir     \* the replaced ones: id -> id of the replacement

vars == <<topic, heir>>

Init ==
  /\ topic = [i \in {} |-> 0]
  /\ heir = [i \in {} |-> 0]

Made == DOMAIN topic
Standing == Made \ DOMAIN heir

Decide(id, t) == topic' = [i \in Made \cup {id} |-> IF i = id THEN t ELSE topic[i]]

Record ==
  /\ \E id \in Ids \ Made, t \in Topics : Decide(id, t)
  /\ UNCHANGED heir

Replace ==
  \E old \in Standing, new \in Ids \ Made :
    /\ Decide(new, topic[old])
    /\ heir' = [i \in DOMAIN heir \cup {old} |-> IF i = old THEN new ELSE heir[i]]

Next == Record \/ Replace

Spec == Init /\ [][Next]_vars

=============================================================================
