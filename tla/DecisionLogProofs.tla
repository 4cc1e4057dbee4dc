------------------------- MODULE DecisionLogProofs -------------------------
(***************************************************************************)
(* Proofs about DecisionLog, for any topics, any number of connections and *)
(* any bounds.                                                             *)
(*                                                                         *)
(* SQLite's rule that only a current snapshot may be upgraded to a write   *)
(* lock carries the argument: at its INSERT a call still sees what its     *)
(* lookup saw (SnapshotHolds), from there to its COMMIT nobody else        *)
(* commits (WriterSeesTheLatest), so the COMMIT replaces a decision that   *)
(* stands by an id that is new.                                            *)
(***************************************************************************)
EXTENDS DecisionLog, TLAPS

\* What a lookup found is still there as long as nobody committed, and ids
\* stay within the bound.
SnapshotHolds ==
  \A c \in Conns :
    /\ tx[c].pc = "insert" =>
         /\ tx[c].snap <= version
         /\ tx[c].snap = version => /\ tx[c].id \in DOMAIN decisions
                                    /\ decisions[tx[c].id].by = 0
                                    /\ decisions[tx[c].id].topic = tx[c].topic
    /\ tx[c].pc \in {"link", "commit"} => tx[c].new \in 1 .. MaxDecisions

AnswersNameIds == \A c \in Conns : answer[c].old # 0 => answer[c].new # 0

IdsBounded == DOMAIN decisions \subseteq 1 .. MaxDecisions

LogInv ==
  /\ TypeOK /\ IdsBounded
  /\ SnapshotHolds /\ WriterSeesTheLatest
  /\ ChainsAreForward
  /\ AnswersNameIds /\ AnswersStayTrue

-----------------------------------------------------------------------------
(* What a step does to the table                                           *)

\* A call that is about to commit holds the lock alone; its decision
\* stands, its new id is above every other.
LEMMA CommitIsFresh ==
  ASSUME LogInv, NEW c \in Conns, tx[c].pc = "commit"
  PROVE  /\ writer = {c}
         /\ tx[c].id \in DOMAIN decisions /\ tx[c].id \in Nat \ {0}
         /\ decisions[tx[c].id].by = 0
         /\ decisions[tx[c].id].topic = tx[c].topic
         /\ tx[c].topic \in Topics
         /\ tx[c].new \in 1 .. MaxDecisions
         /\ tx[c].new \notin DOMAIN decisions
         /\ \A i \in DOMAIN decisions : i < tx[c].new
<1>1. /\ writer = {c} /\ NextId(tx[c].new)
      /\ tx[c].id \in DOMAIN decisions /\ decisions[tx[c].id].by = 0
      /\ decisions[tx[c].id].topic = tx[c].topic
  BY DEF LogInv, WriterSeesTheLatest
<1>2. tx[c].new \in 1 .. MaxDecisions
  BY DEF LogInv, SnapshotHolds
<1>3. decisions[tx[c].id] \in Decision /\ tx[c].id \in Nat \ {0}
  BY <1>1 DEF LogInv, TypeOK
<1>4. \A i \in DOMAIN decisions : i \in Nat /\ i < tx[c].new
  BY <1>1 DEF NextId, LogInv, TypeOK
<1> QED
  BY <1>1, <1>2, <1>3, <1>4 DEF Decision

\* The rows after a COMMIT, one by one.
LEMMA CommitRows ==
  ASSUME LogInv, NEW c \in Conns, Commit(c),
         NEW id, NEW new, id = tx[c].id, new = tx[c].new
  PROVE  /\ DOMAIN decisions' = DOMAIN decisions \cup {new}
         /\ decisions'[new] = [topic |-> decisions[id].topic, by |-> 0]
         /\ decisions'[id] = [topic |-> decisions[id].topic, by |-> new]
         /\ \A i \in DOMAIN decisions \ {id} : decisions'[i] = decisions[i]
         /\ decisions' \in [DOMAIN decisions' -> Decision]
<1>1. /\ id \in DOMAIN decisions /\ new \notin DOMAIN decisions /\ new \in Nat
      /\ decisions[id].by = 0 /\ decisions[id].topic = tx[c].topic
      /\ tx[c].topic \in Topics
  BY CommitIsFresh DEF Commit
<1>2. decisions[id] \in Decision
  BY <1>1 DEF LogInv, TypeOK
<1> DEFINE row == [topic |-> tx[c].topic, by |-> 0]
           table == [i \in DOMAIN decisions \cup {new} |->
                       IF i = new THEN row ELSE decisions[i]]
<1>3. decisions' = [table EXCEPT ![id].by = new]
  BY DEF Commit, With
<1>4. [table[id] EXCEPT !.by = new] = [topic |-> decisions[id].topic, by |-> new]
  BY <1>1, <1>2 DEF Decision
<1>5. decisions' = [table EXCEPT ![id] = [topic |-> decisions[id].topic, by |-> new]]
  BY <1>3, <1>4
<1>6. row \in Decision /\ [topic |-> decisions[id].topic, by |-> new] \in Decision
  BY <1>1 DEF Decision
<1>7. \A i \in DOMAIN decisions : decisions[i] \in Decision
  BY DEF LogInv, TypeOK
<1> QED
  BY <1>1, <1>5, <1>6, <1>7

\* The rows after a record_decision.
LEMMA RecordRows ==
  ASSUME LogInv, RecordDecision
  PROVE  \E id \in 1 .. MaxDecisions, t \in Topics :
           /\ id \notin DOMAIN decisions /\ \A i \in DOMAIN decisions : i < id
           /\ DOMAIN decisions' = DOMAIN decisions \cup {id}
           /\ decisions'[id] = [topic |-> t, by |-> 0]
           /\ \A i \in DOMAIN decisions : decisions'[i] = decisions[i]
           /\ decisions' \in [DOMAIN decisions' -> Decision]
<1>1. PICK id \in 1 .. MaxDecisions, t \in Topics :
        NextId(id) /\ decisions' = With(id, [topic |-> t, by |-> 0])
  BY DEF RecordDecision
<1>2. id \notin DOMAIN decisions /\ \A i \in DOMAIN decisions : i < id
  BY <1>1 DEF NextId, LogInv, TypeOK
<1>3. [topic |-> t, by |-> 0] \in Decision
  BY DEF Decision
<1>4. \A i \in DOMAIN decisions : decisions[i] \in Decision
  BY DEF LogInv, TypeOK
<1>5. /\ DOMAIN decisions' = DOMAIN decisions \cup {id}
      /\ decisions'[id] = [topic |-> t, by |-> 0]
      /\ \A i \in DOMAIN decisions : decisions'[i] = decisions[i]
      /\ decisions' \in [DOMAIN decisions' -> Decision]
  BY <1>1, <1>2, <1>3, <1>4 DEF With
<1> QED
  BY <1>2, <1>5

\* Nothing else writes the table.
LEMMA OtherSteps ==
  ASSUME [Next]_vars
  PROVE  \/ RecordDecision
         \/ \E c \in Conns : Commit(c)
         \/ UNCHANGED <<decisions, answer>>
BY DEF Next, ConnStep, OtherCommit, Lookup, Insert, Link, Rollback, vars

-----------------------------------------------------------------------------
(* Types                                                                   *)

\* A call that is not running is of the calls' type.
LEMMA NoTxType == NoTx \in Tx
BY DEF NoTx, Tx

\* TypeOK is inductive, given that a call commits rows it read or made.
LEMMA NextLogType == LogInv /\ [Next]_vars => TypeOK' /\ IdsBounded'
<1> SUFFICES ASSUME LogInv, [Next]_vars PROVE TypeOK' /\ IdsBounded'
  OBVIOUS
<1> USE DecisionLogAssumption
<1>1. TypeOK /\ IdsBounded
  BY DEF LogInv
<1>2. ASSUME UNCHANGED <<decisions, answer>>, version' \in Nat,
             writer' \subseteq Conns, tx' \in [Conns -> Tx]
      PROVE  TypeOK' /\ IdsBounded'
  BY <1>1, <1>2 DEF TypeOK, IdsBounded
<1>3. CASE OtherCommit \/ UNCHANGED vars
  BY <1>1, <1>2, <1>3 DEF OtherCommit, vars, TypeOK
<1>4. CASE RecordDecision
  <2>1. /\ DOMAIN decisions' \subseteq 1 .. MaxDecisions
        /\ decisions' \in [DOMAIN decisions' -> Decision]
    BY <1>1, <1>4, RecordRows DEF IdsBounded
  <2> QED
    BY <1>1, <1>4, <2>1 DEF RecordDecision, TypeOK, IdsBounded
<1>5. ASSUME NEW c \in Conns, Lookup(c) PROVE TypeOK' /\ IdsBounded'
  <2>1. PICK id \in DOMAIN decisions :
          tx' = [tx EXCEPT ![c] = [NoTx EXCEPT !.pc = "insert", !.id = id,
                                     !.topic = decisions[id].topic, !.snap = version]]
    BY <1>5 DEF Lookup
  <2>2. decisions[id].topic \in Topics /\ id \in Nat /\ version \in Nat
    BY <1>1 DEF TypeOK, Decision
  <2>3. [NoTx EXCEPT !.pc = "insert", !.id = id,
                     !.topic = decisions[id].topic, !.snap = version] \in Tx
    BY <2>2 DEF NoTx, Tx
  <2> QED
    BY <1>1, <1>2, <1>5, <2>1, <2>3 DEF Lookup, TypeOK
<1>6. ASSUME NEW c \in Conns, Insert(c) PROVE TypeOK' /\ IdsBounded'
  <2>1. PICK new \in 1 .. MaxDecisions :
          tx' = [tx EXCEPT ![c] = [tx[c] EXCEPT !.pc = "link", !.new = new]]
    BY <1>6 DEF Insert
  <2>2. [tx[c] EXCEPT !.pc = "link", !.new = new] \in Tx
    <3>1. tx[c] \in Tx /\ new \in Nat
      BY <1>1 DEF TypeOK
    <3> QED
      BY <3>1 DEF Tx
  <2> QED
    BY <1>1, <1>2, <1>6, <2>1, <2>2 DEF Insert, TypeOK
<1>7. ASSUME NEW c \in Conns, Link(c) PROVE TypeOK' /\ IdsBounded'
  <2>1. [tx[c] EXCEPT !.pc = "commit"] \in Tx
    BY <1>1 DEF TypeOK, Tx
  <2> QED
    BY <1>1, <1>2, <1>7, <2>1 DEF Link, TypeOK
<1>8. ASSUME NEW c \in Conns, Commit(c) PROVE TypeOK' /\ IdsBounded'
  <2>1. PICK id, new : id = tx[c].id /\ new = tx[c].new
    OBVIOUS
  <2>2. new \in 1 .. MaxDecisions /\ id \in Nat
    BY <1>8, <2>1, CommitIsFresh DEF Commit
  <2>3. /\ DOMAIN decisions' \subseteq 1 .. MaxDecisions
        /\ decisions' \in [DOMAIN decisions' -> Decision]
    <3>1. /\ DOMAIN decisions' = DOMAIN decisions \cup {new}
          /\ decisions' \in [DOMAIN decisions' -> Decision]
      BY <1>8, <2>1, CommitRows
    <3> QED
      BY <1>1, <2>2, <3>1 DEF IdsBounded
  <2>4. /\ tx' \in [Conns -> Tx] /\ writer' = {} /\ version' \in Nat
        /\ answer' \in [Conns -> Answer]
    BY <1>1, <1>8, <2>1, <2>2, NoTxType DEF Commit, TypeOK, Answer
  <2> QED
    BY <2>3, <2>4 DEF TypeOK, IdsBounded
<1>9. ASSUME NEW c \in Conns, Rollback(c) PROVE TypeOK' /\ IdsBounded'
  BY <1>1, <1>2, <1>9, NoTxType DEF Rollback, TypeOK
<1> QED
  BY <1>3, <1>4, <1>5, <1>6, <1>7, <1>8, <1>9 DEF Next, ConnStep

-----------------------------------------------------------------------------
(* The calls                                                               *)

\* What one call knows, before and after a step.
Knows(c) ==
  /\ tx[c].pc = "insert" =>
       /\ tx[c].snap <= version
       /\ tx[c].snap = version => /\ tx[c].id \in DOMAIN decisions
                                  /\ decisions[tx[c].id].by = 0
                                  /\ decisions[tx[c].id].topic = tx[c].topic
  /\ tx[c].pc \in {"link", "commit"} => tx[c].new \in 1 .. MaxDecisions
  /\ c \in writer <=> tx[c].pc \in {"link", "commit"}
  /\ c \in writer => /\ writer = {c}
                      /\ tx[c].id \in DOMAIN decisions
                      /\ decisions[tx[c].id].by = 0
                      /\ decisions[tx[c].id].topic = tx[c].topic
                      /\ NextId(tx[c].new)

\* SnapshotHolds and WriterSeesTheLatest are statements about each call.
LEMMA KnowsAll ==
  SnapshotHolds /\ WriterSeesTheLatest <=> \A c \in Conns : Knows(c)
BY DEF SnapshotHolds, WriterSeesTheLatest, Knows

\* A step of anybody leaves every call with sound knowledge: only a COMMIT
\* changes what calls know of, it ages every snapshot, and while a call
\* holds the lock the only COMMIT is its own.
LEMMA NextKnows ==
  ASSUME LogInv, [Next]_vars, NEW g \in Conns
  PROVE  Knows(g)'
<1>1. /\ \A c \in Conns : Knows(c)
      /\ tx \in [Conns -> Tx] /\ version \in Nat /\ writer \subseteq Conns
  BY KnowsAll DEF LogInv, TypeOK
<1>2. tx[g] \in Tx /\ Knows(g)
  BY <1>1
<1>3. ASSUME tx'[g] = tx[g], g \notin writer, g \notin writer', version' = version + 1
      PROVE  Knows(g)'
  BY <1>1, <1>2, <1>3 DEF Knows, Tx
<1>4. ASSUME tx'[g] = tx[g], UNCHANGED <<version, decisions>>,
             g \in writer <=> g \in writer', g \in writer => writer' = {g}
      PROVE  Knows(g)'
  BY <1>2, <1>4 DEF Knows, NextId
<1>5. ASSUME tx'[g] = NoTx, g \notin writer' PROVE Knows(g)'
  BY <1>5 DEF Knows, NoTx
<1>6. CASE OtherCommit \/ RecordDecision
  BY <1>3, <1>6 DEF OtherCommit, RecordDecision
<1>7. CASE UNCHANGED vars
  BY <1>2, <1>4, <1>7 DEF vars, Knows
<1>8. CASE Lookup(g)
  <2>1. PICK id \in DOMAIN decisions :
          /\ decisions[id].by = 0
          /\ tx' = [tx EXCEPT ![g] = [NoTx EXCEPT !.pc = "insert", !.id = id,
                                     !.topic = decisions[id].topic, !.snap = version]]
    BY <1>8 DEF Lookup
  <2>2. tx'[g] = [pc |-> "insert", id |-> id, topic |-> decisions[id].topic,
                  snap |-> version, new |-> 0]
    BY <1>1, <2>1 DEF NoTx
  <2>3. g \notin writer' /\ UNCHANGED <<decisions, version>>
    BY <1>2, <1>8 DEF Lookup, Knows
  <2> QED
    BY <1>1, <2>1, <2>2, <2>3 DEF Knows
<1>9. CASE Insert(g)
  <2>1. PICK new \in 1 .. MaxDecisions :
          /\ NextId(new)
          /\ tx' = [tx EXCEPT ![g] = [tx[g] EXCEPT !.pc = "link", !.new = new]]
    BY <1>9 DEF Insert
  <2>2. tx'[g] = [tx[g] EXCEPT !.pc = "link", !.new = new]
    BY <1>1, <2>1
  <2>3. /\ tx'[g].pc = "link" /\ tx'[g].new = new
        /\ tx'[g].id = tx[g].id /\ tx'[g].topic = tx[g].topic
    BY <1>2, <2>2 DEF Tx
  <2>4. writer' = {g} /\ UNCHANGED decisions
    BY <1>9 DEF Insert
  <2>5. /\ tx[g].id \in DOMAIN decisions /\ decisions[tx[g].id].by = 0
        /\ decisions[tx[g].id].topic = tx[g].topic
    BY <1>2, <1>9 DEF Insert, Knows
  <2> QED
    BY <2>1, <2>3, <2>4, <2>5 DEF Knows, NextId
<1>10. CASE Link(g)
  <2>1. tx'[g] = [tx[g] EXCEPT !.pc = "commit"]
    BY <1>1, <1>10 DEF Link
  <2>2. /\ tx'[g].pc = "commit" /\ tx'[g].new = tx[g].new
        /\ tx'[g].id = tx[g].id /\ tx'[g].topic = tx[g].topic
    BY <1>2, <2>1 DEF Tx
  <2> QED
    BY <1>2, <1>10, <2>2 DEF Link, Knows, NextId
<1>11. CASE Commit(g) \/ Rollback(g)
  <2>1. tx'[g] = NoTx
    BY <1>1, <1>11 DEF Commit, Rollback
  <2>2. g \notin writer'
    BY <1>11 DEF Commit, Rollback
  <2> QED
    BY <1>5, <2>1, <2>2
<1>12. ASSUME NEW c \in Conns, c # g, ConnStep(c) PROVE Knows(g)'
  <2>1. tx'[g] = tx[g]
    BY <1>1, <1>12 DEF ConnStep, Lookup, Insert, Link, Commit, Rollback
  <2>2. CASE Lookup(c) \/ Link(c)
    BY <1>2, <1>4, <2>1, <2>2 DEF Lookup, Link, Knows
  <2>3. CASE Insert(c)
    BY <1>4, <1>12, <2>1, <2>3 DEF Insert
  <2>4. CASE Commit(c)
    BY <1>3, <1>12, <2>1, <2>4, CommitIsFresh DEF Commit
  <2>5. CASE Rollback(c)
    BY <1>2, <1>4, <1>12, <2>1, <2>5 DEF Rollback, Knows
  <2> QED
    BY <1>12, <2>2, <2>3, <2>4, <2>5 DEF ConnStep
<1> QED
  BY <1>6, <1>7, <1>8, <1>9, <1>10, <1>11, <1>12 DEF Next, ConnStep

-----------------------------------------------------------------------------
(* The chains                                                              *)

\* A COMMIT adds one link, from a decision that had none to an id above all
\* others, on the same topic.
LEMMA NextChains == LogInv /\ [Next]_vars => ChainsAreForward'
<1> SUFFICES ASSUME LogInv, [Next]_vars PROVE ChainsAreForward'
  OBVIOUS
<1>1. /\ \A i \in DOMAIN decisions :
           decisions[i].by # 0 =>
             /\ i < decisions[i].by /\ decisions[i].by \in DOMAIN decisions
             /\ decisions[decisions[i].by].topic = decisions[i].topic
             /\ \A j \in DOMAIN decisions \ {i} : decisions[j].by # decisions[i].by
      /\ \A i \in DOMAIN decisions : i \in Nat \ {0} /\ decisions[i] \in Decision
  BY DEF LogInv, ChainsAreForward, TypeOK
<1>2. CASE UNCHANGED decisions
  BY <1>1, <1>2 DEF ChainsAreForward
<1>3. CASE RecordDecision
  <2>1. PICK id \in 1 .. MaxDecisions, t \in Topics :
           /\ id \notin DOMAIN decisions
           /\ DOMAIN decisions' = DOMAIN decisions \cup {id}
           /\ decisions'[id] = [topic |-> t, by |-> 0]
           /\ \A i \in DOMAIN decisions : decisions'[i] = decisions[i]
    BY <1>3, RecordRows
  <2>2. ASSUME NEW i \in DOMAIN decisions', decisions'[i].by # 0
        PROVE  /\ i < decisions'[i].by /\ decisions'[i].by \in DOMAIN decisions'
               /\ decisions'[decisions'[i].by].topic = decisions'[i].topic
               /\ \A j \in DOMAIN decisions' \ {i} : decisions'[j].by # decisions'[i].by
    <3>1. i \in DOMAIN decisions /\ decisions'[i] = decisions[i]
      BY <2>1, <2>2
    <3> QED
      BY <1>1, <2>1, <2>2, <3>1
  <2> QED
    BY <2>2 DEF ChainsAreForward
<1>4. ASSUME NEW c \in Conns, Commit(c) PROVE ChainsAreForward'
  <2>1. PICK id, new : id = tx[c].id /\ new = tx[c].new
    OBVIOUS
  <2>2. /\ id \in DOMAIN decisions /\ decisions[id].by = 0
        /\ new \in Nat \ {0} /\ new \notin DOMAIN decisions
        /\ \A i \in DOMAIN decisions : i < new
    BY <1>4, <2>1, CommitIsFresh DEF Commit
  <2>3. /\ DOMAIN decisions' = DOMAIN decisions \cup {new}
        /\ decisions'[new] = [topic |-> decisions[id].topic, by |-> 0]
        /\ decisions'[id] = [topic |-> decisions[id].topic, by |-> new]
        /\ \A i \in DOMAIN decisions \ {id} : decisions'[i] = decisions[i]
    BY <1>4, <2>1, CommitRows
  <2>4. ASSUME NEW i \in DOMAIN decisions', decisions'[i].by # 0
        PROVE  /\ i < decisions'[i].by /\ decisions'[i].by \in DOMAIN decisions'
               /\ decisions'[decisions'[i].by].topic = decisions'[i].topic
               /\ \A j \in DOMAIN decisions' \ {i} : decisions'[j].by # decisions'[i].by
    <3>1. i \in DOMAIN decisions
      BY <2>3, <2>4
    <3>2. CASE i = id
      BY <1>1, <2>2, <2>3, <3>2
    <3>3. CASE i # id
      <4>1. PICK n : n = decisions[i].by
        OBVIOUS
      <4>2. /\ decisions'[i] = decisions[i] /\ n # 0
            /\ i < n /\ n \in DOMAIN decisions
            /\ decisions[n].topic = decisions[i].topic
            /\ \A j \in DOMAIN decisions \ {i} : decisions[j].by # n
        BY <1>1, <2>3, <2>4, <3>1, <3>3, <4>1
      <4>3. decisions'[n].topic = decisions[n].topic
        BY <2>3, <4>2
      <4>4. \A j \in DOMAIN decisions' \ {i} : decisions'[j].by # n
        BY <2>2, <2>3, <4>2
      <4> QED
        BY <2>3, <4>1, <4>2, <4>3, <4>4
    <3> QED
      BY <3>2, <3>3
  <2> QED
    BY <2>4 DEF ChainsAreForward
<1> QED
  BY <1>2, <1>3, <1>4, OtherSteps

-----------------------------------------------------------------------------
(* The answers                                                             *)

\* Only the committing call's answer changes, to the link it just made; the
\* links other answers tell of are on rows this COMMIT does not write.
LEMMA NextAnswers ==
  LogInv /\ [Next]_vars => AnswersNameIds' /\ AnswersStayTrue'
<1> SUFFICES ASSUME LogInv, [Next]_vars, NEW g \in Conns, answer'[g].old # 0
             PROVE  /\ answer'[g].new # 0
                    /\ answer'[g].old \in DOMAIN decisions'
                    /\ decisions'[answer'[g].old].by = answer'[g].new
  BY DEF AnswersNameIds, AnswersStayTrue
<1>1. answer \in [Conns -> Answer]
  BY DEF LogInv, TypeOK
<1>2. CASE answer'[g] = answer[g]
  <2>1. PICK o, n : o = answer[g].old /\ n = answer[g].new
    OBVIOUS
  <2>2. n # 0 /\ o \in DOMAIN decisions /\ decisions[o].by = n
    BY <1>2, <2>1 DEF LogInv, AnswersNameIds, AnswersStayTrue
  <2>3. o \in DOMAIN decisions' /\ decisions'[o].by = n
    <3>1. CASE RecordDecision
      BY <2>2, <3>1, RecordRows
    <3>2. ASSUME NEW c \in Conns, Commit(c)
          PROVE  o \in DOMAIN decisions' /\ decisions'[o].by = n
      <4>1. PICK id, new : id = tx[c].id /\ new = tx[c].new
        OBVIOUS
      <4>2. decisions[id].by = 0
        BY <3>2, <4>1, CommitIsFresh DEF Commit
      <4>3. o # id
        BY <2>2, <4>2
      <4>4. /\ DOMAIN decisions' = DOMAIN decisions \cup {new}
            /\ \A i \in DOMAIN decisions \ {id} : decisions'[i] = decisions[i]
        BY <3>2, <4>1, CommitRows, Zenon
      <4> QED
        BY <2>2, <4>3, <4>4
    <3>3. CASE UNCHANGED decisions
      BY <2>2, <3>3
    <3> QED
      BY <3>1, <3>2, <3>3, OtherSteps
  <2> QED
    BY <1>2, <2>1, <2>2, <2>3
<1>3. ASSUME NEW c \in Conns, Commit(c), answer'[g] # answer[g]
      PROVE  /\ answer'[g].new # 0
             /\ answer'[g].old \in DOMAIN decisions'
             /\ decisions'[answer'[g].old].by = answer'[g].new
  <2>1. PICK id, new : id = tx[c].id /\ new = tx[c].new
    OBVIOUS
  <2>2. answer'[g] = [old |-> id, new |-> new]
    BY <1>1, <1>3, <2>1 DEF Commit
  <2>3. new # 0 /\ id \in DOMAIN decisions
    BY <1>3, <2>1, CommitIsFresh DEF Commit
  <2>4. Commit(c) /\ id = tx[c].id /\ new = tx[c].new
    BY <1>3, <2>1
  <2>5. /\ DOMAIN decisions' = DOMAIN decisions \cup {new}
        /\ decisions'[new] = [topic |-> decisions[id].topic, by |-> 0]
        /\ decisions'[id] = [topic |-> decisions[id].topic, by |-> new]
        /\ \A i \in DOMAIN decisions \ {id} : decisions'[i] = decisions[i]
    BY <2>4, CommitRows
  <2> QED
    BY <2>2, <2>3, <2>5
<1> QED
  BY <1>2, <1>3, OtherSteps DEF RecordDecision

-----------------------------------------------------------------------------
(* The invariant                                                           *)

\* An empty table and no calls.
LEMMA InitLogInv == Init => LogInv
<1> SUFFICES ASSUME Init PROVE LogInv
  OBVIOUS
<1>1. TypeOK
  BY NoTxType DEF Init, TypeOK, Answer
<1>2. IdsBounded /\ ChainsAreForward
  BY DEF Init, IdsBounded, ChainsAreForward
<1>3. SnapshotHolds /\ WriterSeesTheLatest
  BY DEF Init, SnapshotHolds, WriterSeesTheLatest, NoTx
<1>4. AnswersNameIds /\ AnswersStayTrue
  BY DEF Init, AnswersNameIds, AnswersStayTrue
<1> QED
  BY <1>1, <1>2, <1>3, <1>4 DEF LogInv

\* LogInv is inductive.
LEMMA NextLogInv == LogInv /\ [Next]_vars => LogInv'
<1> SUFFICES ASSUME LogInv, [Next]_vars PROVE LogInv'
  OBVIOUS
<1>1. \A c \in Conns : Knows(c)'
  BY NextKnows
<1>2. SnapshotHolds' /\ WriterSeesTheLatest'
  BY <1>1 DEF SnapshotHolds, WriterSeesTheLatest, Knows
<1> QED
  BY <1>2, NextLogType, NextChains, NextAnswers DEF LogInv

\* LogInv holds in every reachable state.
LEMMA LogInvariant == Spec => []LogInv
BY InitLogInv, NextLogInv, PTL DEF Spec

\* Every reachable state of the log has the types its columns declare.
THEOREM LogTypeCorrect == Spec => []TypeOK
BY LogInvariant, PTL DEF LogInv

\* At most one call holds the write lock, and it commits into the table its
\* lookup saw: the decision it links still stands and its new id is free.
THEOREM WritersSeeTheLatest == Spec => []WriterSeesTheLatest
BY LogInvariant, PTL DEF LogInv

\* Supersession chains run forward, on one topic, and never merge, however
\* many connections supersede the same decision at the same time.
THEOREM ChainsRunForward == Spec => []ChainsAreForward
BY LogInvariant, PTL DEF LogInv

\* The id a caller was given stays the replacement of the decision it named.
THEOREM AnswersAreKept == Spec => []AnswersStayTrue
BY LogInvariant, PTL DEF LogInv

-----------------------------------------------------------------------------
(* The log implements DecisionChain                                        *)

\* An empty table is an empty chain.
LEMMA InitChain == Init => Chain!Init
BY DEF Init, Chain!Init

\* A record_decision is a Record, a COMMIT is a Replace, and every other
\* statement of a call is invisible.
LEMMA NextChain == LogInv /\ [Next]_vars => [Chain!Next]_(Chain!vars)
<1> SUFFICES ASSUME LogInv, [Next]_vars PROVE [Chain!Next]_(Chain!vars)
  OBVIOUS
<1> DEFINE Topic == [i \in DOMAIN decisions |-> decisions[i].topic]
           Heir == [i \in {j \in DOMAIN decisions : decisions[j].by # 0} |->
                      decisions[i].by]
<1>1. CASE UNCHANGED decisions
  BY <1>1 DEF Chain!vars
<1>2. CASE RecordDecision
  <2>1. PICK id \in 1 .. MaxDecisions, t \in Topics :
           /\ id \notin DOMAIN decisions
           /\ DOMAIN decisions' = DOMAIN decisions \cup {id}
           /\ decisions'[id] = [topic |-> t, by |-> 0]
           /\ \A i \in DOMAIN decisions : decisions'[i] = decisions[i]
    BY <1>2, RecordRows
  <2>2. Topic' = [i \in DOMAIN Topic \cup {id} |-> IF i = id THEN t ELSE Topic[i]]
    BY <2>1
  <2>3. {j \in DOMAIN decisions' : decisions'[j].by # 0}
          = {j \in DOMAIN decisions : decisions[j].by # 0}
    BY <2>1
  <2>4. Heir' = Heir
    BY <2>1, <2>3
  <2>5. id \in (1 .. MaxDecisions) \ DOMAIN Topic
    BY <2>1
  <2> QED
    BY <2>2, <2>4, <2>5 DEF Chain!Next, Chain!Record, Chain!Decide, Chain!Made
<1>3. ASSUME NEW c \in Conns, Commit(c) PROVE Chain!Next
  <2>1. PICK id, new : id = tx[c].id /\ new = tx[c].new
    OBVIOUS
  <2>2. /\ id \in DOMAIN decisions /\ decisions[id].by = 0
        /\ new \in 1 .. MaxDecisions /\ new \notin DOMAIN decisions
    BY <1>3, <2>1, CommitIsFresh DEF Commit
  <2>3. /\ DOMAIN decisions' = DOMAIN decisions \cup {new}
        /\ decisions'[new] = [topic |-> decisions[id].topic, by |-> 0]
        /\ decisions'[id] = [topic |-> decisions[id].topic, by |-> new]
        /\ \A i \in DOMAIN decisions \ {id} : decisions'[i] = decisions[i]
    BY <1>3, <2>1, CommitRows
  <2>4. Topic' = [i \in DOMAIN Topic \cup {new} |->
                    IF i = new THEN Topic[id] ELSE Topic[i]]
    BY <2>2, <2>3
  <2>5. {j \in DOMAIN decisions' : decisions'[j].by # 0}
          = {j \in DOMAIN decisions : decisions[j].by # 0} \cup {id}
    BY <2>2, <2>3
  <2>6. Heir' = [i \in DOMAIN Heir \cup {id} |-> IF i = id THEN new ELSE Heir[i]]
    BY <2>2, <2>3, <2>5
  <2>7. id \in DOMAIN Topic \ DOMAIN Heir /\ new \in (1 .. MaxDecisions) \ DOMAIN Topic
    BY <2>2
  <2> QED
    BY <2>4, <2>6, <2>7
    DEF Chain!Next, Chain!Replace, Chain!Decide, Chain!Made, Chain!Standing
<1> QED
  BY <1>1, <1>2, <1>3, OtherSteps

\* A SupersedeDecision of four statements, on any number of connections,
\* amounts to one atomic replacement of a standing decision.
THEOREM LogImplementsChain == Spec => ImplementsChain
BY LogInvariant, InitChain, NextChain, PTL DEF Spec, ImplementsChain, Chain!Spec

=============================================================================
