-------------------------- MODULE SchemaMigration --------------------------
(***************************************************************************)
(* store.Open on one database file by several processes, whose programs    *)
(* may know different schema versions.  The version is read by a statement *)
(* of its own; the missing steps, and the new version, are written by one  *)
(* transaction that takes SQLite's write lock with its first statement, on *)
(* whatever is committed by then.                                          *)
(***************************************************************************)
EXTENDS Naturals

CONSTANTS
  Opens,       \* the processes
  Newest,      \* the highest schema version of any program
  Target,      \* the version each process's program knows
  Repeatable,  \* steps that succeed a second time: migrateV7 only deletes rows
  Start        \* the versions a file may have at first, 0 when it is new

Steps == 1 .. Newest

ASSUME SchemaMigrationAssumption ==
  /\ Newest \in Nat
  /\ Target \in [Opens -> Steps \ Repeatable]
  /\ Start \subseteq 0 .. Newest

VARIABLES
  meta,     \* the table of the version exists
  version,  \* the recorded version, 0 when there is no row
  ran,      \* how often each step was committed
  writer,   \* the processes that hold the write lock
  open      \* the Open call, or the open store, of each process

vars == <<meta, version, ran, writer, open>>

\* `current` is the version read, 0 before.
Open == [pc : {"closed", "read", "migrate", "commit", "ready"}, current : 0 .. Newest]

NotOpen == [pc |-> "closed", current |-> 0]

TypeOK ==
  /\ meta \in BOOLEAN
  /\ version \in 0 .. Newest
  /\ ran \in [Steps -> Nat]
  /\ writer \subseteq Opens
  /\ open \in [Opens -> Open]

Init ==
  /\ version \in Start
  /\ meta \in BOOLEAN /\ (version > 0 => meta)
  /\ ran = [s \in Steps |-> IF s <= version THEN 1 ELSE 0]
  /\ writer = {}
  /\ open = [h \in Opens |-> NotOpen]

-----------------------------------------------------------------------------
Goto(h, pc) == open' = [open EXCEPT ![h] = [open[h] EXCEPT !.pc = pc]]

\* CREATE TABLE IF NOT EXISTS meta writes only if there is no such table.
CreateMeta(h) ==
  /\ open[h].pc = "closed"
  /\ meta \/ writer = {}
  /\ meta' = TRUE
  /\ open' = [open EXCEPT ![h] = [pc |-> "read", current |-> 0]]
  /\ UNCHANGED <<version, ran, writer>>

\* A newer file is refused, one of this program's version needs nothing.
Verdict(current, target) ==
  CASE current > target -> "closed"
    [] current = target -> "ready"
    [] current < target -> "migrate"

ReadVersion(h) ==
  /\ open[h].pc = "read"
  /\ open' = [open EXCEPT ![h] = [pc |-> Verdict(version, Target[h]), current |-> version]]
  /\ UNCHANGED <<meta, version, ran, writer>>

\* The steps from the version that was read to the program's own.
Missing(h) == {s \in Steps : open[h].current < s /\ s <= Target[h]}

\* Mutant: each step is written to succeed when its result is there already.
CollidesNever(h) == FALSE

\* CREATE TABLE, CREATE INDEX and ADD COLUMN fail if somebody did it before.
Collides(h) == \E s \in Missing(h) \ Repeatable : ran[s] > 0

\* The steps run in a transaction that nobody sees before the commit.
Migrate(h) ==
  /\ open[h].pc = "migrate"
  /\ writer = {}
  /\ ~Collides(h)
  /\ writer' = {h}
  /\ Goto(h, "commit")
  /\ UNCHANGED <<meta, version, ran>>

\* Mutant: the error is taken to mean that the file is migrated.
MigrateLate(h) ==
  /\ open[h].pc = "migrate"
  /\ writer = {}
  /\ Collides(h)
  /\ Goto(h, "ready")
  /\ UNCHANGED <<meta, version, ran, writer>>

\* Mutant: the transaction is tried again from the version that was read.
MigrateRetries(h) ==
  /\ open[h].pc = "migrate"
  /\ writer = {}
  /\ Collides(h)
  /\ UNCHANGED vars

\* A step fails: Rollback, and Open returns the error.
MigrateFails(h) ==
  /\ open[h].pc = "migrate"
  /\ writer = {}
  /\ Collides(h)
  /\ Goto(h, "closed")
  /\ UNCHANGED <<meta, version, ran, writer>>

Recorded(h) == Target[h]

Commit(h) ==
  /\ open[h].pc = "commit"
  /\ ran' = [s \in Steps |-> IF s \in Missing(h) THEN ran[s] + 1 ELSE ran[s]]
  /\ version' = Recorded(h)
  /\ writer' = writer \ {h}
  /\ Goto(h, "ready")
  /\ UNCHANGED meta

\* busy_timeout: after 5 s of waiting for the lock the statement fails.
Busy(h) ==
  /\ writer # {}
  /\ open[h].pc = "migrate"
  /\ Goto(h, "closed")
  /\ UNCHANGED <<meta, version, ran, writer>>

\* The store is closed, a statement fails, or the process dies: SQLite undoes
\* what was not committed and frees the lock.
Close(h) ==
  /\ open[h].pc # "closed"
  /\ writer' = writer \ {h}
  /\ open' = [open EXCEPT ![h] = NotOpen]
  /\ UNCHANGED <<meta, version, ran>>

-----------------------------------------------------------------------------
Step(h) == ReadVersion(h) \/ Migrate(h) \/ MigrateFails(h) \/ Commit(h) \/ Busy(h)

Next == \E h \in Opens : CreateMeta(h) \/ Step(h) \/ Close(h)

Spec == Init /\ [][Next]_vars

\* A call that began goes on, and no wait is longer than busy_timeout.
FairSpec == Spec /\ \A h \in Opens : WF_vars(Step(h))

-----------------------------------------------------------------------------
(* What migrate promises                                                   *)

\* The recorded version tells exactly which steps the file has seen, and each
\* was committed once: with any number of processes that migrate from a
\* version they read before (migrate, store.go:285-325), ALTER TABLE and the
\* clean-up of migrateV7 never hit a file twice.
VersionTellsSchema ==
  \A s \in Steps : ran[s] = IF s <= version THEN 1 ELSE 0

\* The recorded version never goes back, whichever programs are mixed; it
\* depends on the last step of each program not being repeatable.
NeverDowngraded == [][version' >= version]_vars

\* A store that Open returned has, as long as it is open, every table and
\* column its program uses.
ReadyIsServed ==
  \A h \in Opens : open[h].pc = "ready" => \A s \in 1 .. Target[h] : ran[s] > 0

\* Open ends: with a store, with an error, or with the process.
OpensEnd ==
  \A h \in Opens : open[h].pc \in {"read", "migrate", "commit"}
                     ~> open[h].pc \in {"closed", "ready"}
=============================================================================
