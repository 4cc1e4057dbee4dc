---------------------------- MODULE DecisionLog ----------------------------
(***************************************************************************)
(* The decisions table and the calls that write it: RecordDecision (one    *)
(* INSERT) and SupersedeDecision, a transaction that looks the decision    *)
(* up, inserts its replacement and links the two.  database/sql begins     *)
(* the transaction deferred, so SQLite takes a read snapshot at the lookup *)
(* and the write lock only at the INSERT, which fails when anybody has     *)
(* committed in between.  Several connections, of leonard-mcp processes,   *)
(* of the CLI and of one process's pool, do this at the same time.         *)
(*                                                                         *)
(* `version` counts the commits of the whole database: writes to other     *)
(* tables invalidate a snapshot as well.                                   *)
(***************************************************************************)
EXTENDS Naturals

CONSTANTS
  Topics,
  Conns,         \* connections
  NoTopic,       \* the topic of an idle connection
  MaxDecisions,  \* bound: rows
  MaxVersion     \* bound: commits

ASSUME DecisionLogAssumption ==
  /\ NoTopic \notin Topics
  /\ MaxDecisions \in Nat
  /\ MaxVersion \in Nat

VARIABLES
  decisions,  \* the table: id -> row
  version,    \* commits so far
  writer,     \* the connections (at most one) holding the write lock
  tx,         \* the SupersedeDecision call of each connection
  answer      \* the answer a connection's last successful call returned

vars == <<decisions, version, writer, tx, answer>>

-----------------------------------------------------------------------------
Decision == [topic : Topics, by : Nat]      \* superseded_by, 0 is NULL

Tx == [pc : {"idle", "insert", "link", "commit"},
       id : Nat,                            \* the decision to supersede
       topic : Topics \cup {NoTopic},       \* as the lookup found it
       snap : Nat,                          \* version of the snapshot
       new : Nat]                           \* id of the inserted row

NoTx == [pc |-> "idle", id |-> 0, topic |-> NoTopic, snap |-> 0, new |-> 0]

Answer == [old : Nat, new : Nat]

TypeOK ==
  /\ DOMAIN decisions \subseteq Nat \ {0}
  /\ decisions \in [DOMAIN decisions -> Decision]
  /\ version \in Nat
  /\ writer \subseteq Conns
  /\ tx \in [Conns -> Tx]
  /\ answer \in [Conns -> Answer]

Init ==
  /\ decisions = [i \in {} |-> 0]
  /\ version = 0
  /\ writer = {}
  /\ tx = [c \in Conns |-> NoTx]
  /\ answer = [c \in Conns |-> [old |-> 0, new |-> 0]]

-----------------------------------------------------------------------------
\* One above the largest rowid; rows of this table are never deleted.
NextId(id) ==
  /\ \A i \in DOMAIN decisions : i < id
  /\ id = 1 \/ (id - 1) \in DOMAIN decisions

With(id, row) ==
  [i \in DOMAIN decisions \cup {id} |-> IF i = id THEN row ELSE decisions[i]]

\* Somebody commits to another table of the database.
OtherCommit ==
  /\ writer = {}
  /\ version < MaxVersion
  /\ version' = version + 1
  /\ UNCHANGED <<decisions, writer, tx, answer>>

\* record_decision: one statement, one transaction.
RecordDecision ==
  /\ writer = {}
  /\ version < MaxVersion
  /\ \E id \in 1 .. MaxDecisions, t \in Topics :
       /\ NextId(id)
       /\ decisions' = With(id, [topic |-> t, by |-> 0])
  /\ version' = version + 1
  /\ UNCHANGED <<writer, tx, answer>>

-----------------------------------------------------------------------------
(* SupersedeDecision, one action per statement                             *)

\* Mutant: the lookup forgets to look at superseded_by.
LookupAny(c) ==
  /\ tx[c].pc = "idle"
  /\ \E id \in DOMAIN decisions :
       tx' = [tx EXCEPT ![c] = [NoTx EXCEPT !.pc = "insert", !.id = id,
                                  !.topic = decisions[id].topic, !.snap = version]]
  /\ UNCHANGED <<decisions, version, writer, answer>>

\* BEGIN and the lookup, whose read fixes the snapshot.  An unknown or an
\* already superseded id ends the call with an error.
Lookup(c) ==
  /\ tx[c].pc = "idle"
  /\ \E id \in DOMAIN decisions :
       /\ decisions[id].by = 0
       /\ tx' = [tx EXCEPT ![c] = [NoTx EXCEPT !.pc = "insert", !.id = id,
                                     !.topic = decisions[id].topic, !.snap = version]]
  /\ UNCHANGED <<decisions, version, writer, answer>>

\* The INSERT takes the write lock, which only a current snapshot may.
Insert(c) ==
  /\ tx[c].pc = "insert"
  /\ writer = {} /\ version = tx[c].snap
  /\ \E new \in 1 .. MaxDecisions :
       /\ NextId(new)
       /\ tx' = [tx EXCEPT ![c] = [tx[c] EXCEPT !.pc = "link", !.new = new]]
  /\ writer' = {c}
  /\ UNCHANGED <<decisions, version, answer>>

Link(c) ==
  /\ tx[c].pc = "link"
  /\ tx' = [tx EXCEPT ![c] = [tx[c] EXCEPT !.pc = "commit"]]
  /\ UNCHANGED <<decisions, version, writer, answer>>

\* Mutant: the link is rolled back with a failed statement, the INSERT stays.
CommitUnlinked(c) ==
  /\ tx[c].pc = "commit"
  /\ version < MaxVersion
  /\ decisions' = With(tx[c].new, [topic |-> tx[c].topic, by |-> 0])
  /\ version' = version + 1
  /\ writer' = {}
  /\ tx' = [tx EXCEPT ![c] = NoTx]
  /\ answer' = [answer EXCEPT ![c] = [old |-> tx[c].id, new |-> tx[c].new]]

\* Mutant: the two arguments of the UPDATE change places.
CommitSwapped(c) ==
  /\ tx[c].pc = "commit"
  /\ version < MaxVersion
  /\ decisions' = With(tx[c].new, [topic |-> tx[c].topic, by |-> tx[c].id])
  /\ version' = version + 1
  /\ writer' = {}
  /\ tx' = [tx EXCEPT ![c] = NoTx]
  /\ answer' = [answer EXCEPT ![c] = [old |-> tx[c].id, new |-> tx[c].new]]

\* Both rows become visible together and the caller gets the new id.
Commit(c) ==
  /\ tx[c].pc = "commit"
  /\ version < MaxVersion
  /\ decisions' = [With(tx[c].new, [topic |-> tx[c].topic, by |-> 0])
                     EXCEPT ![tx[c].id].by = tx[c].new]
  /\ version' = version + 1
  /\ writer' = {}
  /\ tx' = [tx EXCEPT ![c] = NoTx]
  /\ answer' = [answer EXCEPT ![c] = [old |-> tx[c].id, new |-> tx[c].new]]

\* Mutant: only a call that holds the lock gives up; the others wait.
RollbackOfWriter(c) ==
  /\ c \in writer
  /\ tx' = [tx EXCEPT ![c] = NoTx]
  /\ writer' = writer \ {c}
  /\ UNCHANGED <<decisions, version, answer>>

\* A locked database, a stale snapshot, a failing statement or the end of
\* the process: everything since BEGIN is undone and the lock released.
Rollback(c) ==
  /\ tx[c].pc # "idle"
  /\ tx' = [tx EXCEPT ![c] = NoTx]
  /\ writer' = writer \ {c}
  /\ UNCHANGED <<decisions, version, answer>>

-----------------------------------------------------------------------------
ConnStep(c) == Lookup(c) \/ Insert(c) \/ Link(c) \/ Commit(c) \/ Rollback(c)

Next == OtherCommit \/ RecordDecision \/ \E c \in Conns : ConnStep(c)

Spec == Init /\ [][Next]_vars

\* A call that began goes on to its end: busy_timeout turns a wait for the
\* lock into an error after five seconds.
FairSpec == Spec /\ \A c \in Conns : WF_vars(Insert(c) \/ Link(c) \/ Commit(c) \/ Rollback(c))

-----------------------------------------------------------------------------
(* Safety                                                                  *)

\* A connection holds the write lock exactly while it has uncommitted rows,
\* and what it goes by is then the present: the decision it is about to
\* link is still unsuperseded and its new id still free.
WriterSeesTheLatest ==
  \A c \in Conns :
    /\ c \in writer <=> tx[c].pc \in {"link", "commit"}
    /\ c \in writer => /\ writer = {c}
                        /\ tx[c].id \in DOMAIN decisions
                        /\ decisions[tx[c].id].by = 0
                        /\ decisions[tx[c].id].topic = tx[c].topic
                        /\ NextId(tx[c].new)

\* Superseding forms chains that run forward in time, stay on one topic and
\* never merge: no cycles, and no decision replaces two others.
ChainsAreForward ==
  \A i \in DOMAIN decisions :
    LET n == decisions[i].by
    IN  n # 0 => /\ i < n /\ n \in DOMAIN decisions
                 /\ decisions[n].topic = decisions[i].topic
                 /\ \A j \in DOMAIN decisions \ {i} : decisions[j].by # n

\* An id SupersedeDecision returned stays the replacement of the decision
\* the caller named: no concurrent caller's answer makes it untrue.
AnswersStayTrue ==
  \A c \in Conns : answer[c].old # 0 =>
    /\ answer[c].old \in DOMAIN decisions
    /\ decisions[answer[c].old].by = answer[c].new

\* Every call is answered, if only with an error.
CallsEnd == \A c \in Conns : tx[c].pc # "idle" ~> tx[c].pc = "idle"

\* The four statements of a SupersedeDecision take effect as one step: the
\* log implements DecisionChain.
Chain == INSTANCE DecisionChain WITH
  Ids   <- 1 .. MaxDecisions,
  topic <- [i \in DOMAIN decisions |-> decisions[i].topic],
  heir  <- [i \in {j \in DOMAIN decisions : decisions[j].by # 0} |-> decisions[i].by]

ImplementsChain == Chain!Spec

=============================================================================
