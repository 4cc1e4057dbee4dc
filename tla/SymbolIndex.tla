---------------------------- MODULE SymbolIndex ----------------------------
(***************************************************************************)
(* The files and symbols tables and the processes that keep them in step   *)
(* with the project tree: `leonard index` (a walk that feeds a pool of     *)
(* workers, then a sweep of rows whose file has vanished) and the          *)
(* single-file re-index every post-edit hook runs, all at the same time    *)
(* and without a lock among them.  Users and agents change files at will.  *)
(*                                                                         *)
(* Contents stand for the bytes of a file and for their sha256.  The       *)
(* symbols parsed from contents c are written c; NoSyms is the empty set   *)
(* of symbols left by a failed extraction.  Every transaction of the store *)
(* is one step.  Files that ignore rules or the skip list exclude are left *)
(* out: neither the walk nor the sweep touches the former, and the latter  *)
(* are never on the walk's path.                                           *)
(***************************************************************************)
EXTENDS Naturals

CONSTANTS
  Files,        \* paths some extractor is registered for
  Contents,     \* what a file may hold
  Broken,       \* contents no extractor accepts
  Big,          \* contents above maxIndexedFileBytes
  Unreadable,   \* contents of a file the process may stat but not read
  Gone,         \* the path does not exist
  Blocked,      \* a parent of the path is a regular file: stat says ENOTDIR
  NoFile,       \* the file of a process with nothing to do
  NoSyms,       \* no symbols
  Workers,      \* the pool of `leonard index`
  Hooks,        \* concurrently running post-edit processes
  EnvFailures,  \* may an extractor fail on good contents (helper missing,
                \* subprocess timeout)?
  MaxEdits,     \* bound: changes of the project tree
  MaxFaults     \* bound: failed store calls and crashes

ASSUME SymbolIndexAssumption ==
  /\ Broken \subseteq Contents /\ Big \subseteq Contents /\ Unreadable \subseteq Contents
  /\ Gone \notin Contents /\ Blocked \notin Contents /\ Gone # Blocked
  /\ NoSyms \notin Contents /\ NoFile \notin Files
  /\ Workers \cap Hooks = {}
  /\ EnvFailures \in BOOLEAN
  /\ MaxEdits \in Nat /\ MaxFaults \in Nat

VARIABLES
  disk,      \* the project tree
  index,     \* the store: path -> [hash, syms], the row and its symbols
  task,      \* one indexAbs call per worker or hook
  run,       \* the IndexAll call
  touched,   \* files edited or re-indexed by a hook since IndexAll began
  edits,     \* changes so far
  faults     \* failures so far

vars == <<disk, index, task, run, touched, edits, faults>>

-----------------------------------------------------------------------------
Tasks == Workers \cup Hooks

NoTask == [pc |-> "idle", file |-> NoFile, data |-> Gone]

Row == [hash : Contents, syms : Contents \cup {NoSyms}]

Task == [pc : {"idle", "lookup", "commit"},
         file : Files \cup {NoFile},
         data : Contents \cup {Gone}]

Run == [pc : {"idle", "walk", "drain", "stat"},
        todo : SUBSET Files,          \* paths no worker has received yet
        check : SUBSET Files,         \* rows the sweep has yet to stat
        doomed : SUBSET Files,        \* toDelete
        storeErrors : BOOLEAN,
        parseFailures : SUBSET Files,
        result : {"none", "ok", "error"}]

TypeOK ==
  /\ disk \in [Files -> Contents \cup {Gone, Blocked}]
  /\ DOMAIN index \subseteq Files
  /\ index \in [DOMAIN index -> Row]
  /\ task \in [Tasks -> Task]
  /\ run \in Run
  /\ touched \subseteq Files
  /\ edits \in Nat /\ faults \in Nat

NoRun == [pc |-> "idle", todo |-> {}, check |-> {}, doomed |-> {},
          storeErrors |-> FALSE, parseFailures |-> {}, result |-> "none"]

Init ==
  /\ disk \in [Files -> Contents \cup {Gone}]
  /\ index = [f \in {} |-> NoSyms]
  /\ task = [t \in Tasks |-> NoTask]
  /\ run = NoRun
  /\ touched = {}
  /\ edits = 0 /\ faults = 0

-----------------------------------------------------------------------------
(* The environment                                                         *)

Edit ==
  /\ edits < MaxEdits
  /\ edits' = edits + 1
  /\ \E f \in Files, d \in Contents \cup {Gone, Blocked} :
       /\ disk' = [disk EXCEPT ![f] = d]
       /\ touched' = touched \cup {f}
  /\ UNCHANGED <<index, task, run, faults>>

-----------------------------------------------------------------------------
(* indexAbs, run by the workers and by the hooks                           *)

\* Stat and read.  Above the size cap, and when the read fails, nothing
\* else happens.
Begin(t, f) ==
  /\ task[t].pc = "idle"
  /\ disk[f] \in Contents
  /\ task' = IF disk[f] \in Big \cup Unreadable THEN task
             ELSE [task EXCEPT ![t] = [pc |-> "lookup", file |-> f, data |-> disk[f]]]

Finish(t) == task' = [task EXCEPT ![t] = NoTask]

\* Mutant: a row for the path is enough.
KnownByPath(f, c) == f \in DOMAIN index

Known(f, c) == f \in DOMAIN index /\ index[f].hash = c

\* Store.GetFile: an unchanged file is not parsed again.
Lookup(t) ==
  /\ task[t].pc = "lookup"
  /\ IF Known(task[t].file, task[t].data)
     THEN Finish(t)
     ELSE task' = [task EXCEPT ![t].pc = "commit"]
  /\ UNCHANGED <<disk, index, run, touched, edits, faults>>

ExtractOutcomes(c) ==
  IF c \in Broken THEN {NoSyms}
  ELSE IF EnvFailures THEN {c, NoSyms} ELSE {c}

\* Mutant: two transactions, the second of which may never commit.
ReplaceInTwo(f, c, s) ==
  \E stored \in {s, IF f \in DOMAIN index THEN index[f].syms ELSE NoSyms} :
    index' = [g \in DOMAIN index \cup {f} |->
                IF g = f THEN [hash |-> c, syms |-> stored] ELSE index[g]]

\* The rows f, hash and symbols together, after ReplaceFileSymbols.
ReplaceFileSymbols(f, c, s) ==
  index' = [g \in DOMAIN index \cup {f} |->
              IF g = f THEN [hash |-> c, syms |-> s] ELSE index[g]]

\* A failed extraction is remembered for the CLI when a worker met it.
RecordParseFailure(t, s) ==
  IF t \in Workers /\ s = NoSyms THEN run.parseFailures \cup {task[t].file}
                                ELSE run.parseFailures

\* Extract and persist.  A failed extraction persists the new hash and no
\* symbols.
Commit(t) ==
  /\ task[t].pc = "commit"
  /\ \E s \in ExtractOutcomes(task[t].data) :
       /\ ReplaceFileSymbols(task[t].file, task[t].data, s)
       /\ run' = [run EXCEPT !.parseFailures = RecordParseFailure(t, s)]
  /\ Finish(t)
  /\ touched' = IF t \in Hooks THEN touched \cup {task[t].file} ELSE touched
  /\ UNCHANGED <<disk, edits, faults>>

\* A read or a transaction that failed or timed out on a lock: the table is
\* as before and a worker's IndexAll will say so.
StoreError(t) ==
  /\ task[t].pc # "idle"
  /\ faults < MaxFaults
  /\ faults' = faults + 1
  /\ Finish(t)
  /\ \E s \in IF task[t].pc = "commit" THEN ExtractOutcomes(task[t].data)
                                       ELSE {task[t].data} :
       run' = [run EXCEPT !.storeErrors = @ \/ t \in Workers,
                          !.parseFailures = RecordParseFailure(t, s)]
  /\ UNCHANGED <<disk, index, touched, edits>>

-----------------------------------------------------------------------------
(* The post-edit hook: IndexFile on the edited path                        *)

HookStart(h) ==
  /\ \E f \in Files : Begin(h, f)
  /\ UNCHANGED <<disk, index, run, touched, edits, faults>>

HookCrash(h) ==
  /\ task[h].pc # "idle"
  /\ faults < MaxFaults
  /\ faults' = faults + 1
  /\ Finish(h)
  /\ UNCHANGED <<disk, index, run, touched, edits>>

-----------------------------------------------------------------------------
(* IndexAll                                                                *)

StartIndexAll ==
  /\ run.pc = "idle"
  /\ run' = [NoRun EXCEPT !.pc = "walk", !.todo = Files]
  /\ touched' = {}
  /\ UNCHANGED <<disk, index, task, edits, faults>>

\* f is still ahead of the walk or waits in the channel of paths.
Walking(f) == run.pc \in {"walk", "drain"} /\ f \in run.todo

\* Mutant: the walk skips only what plainly does not exist.
WalkPastGone(f) ==
  /\ Walking(f)
  /\ disk[f] = Gone
  /\ run' = [run EXCEPT !.todo = @ \ {f}]
  /\ UNCHANGED <<disk, index, task, touched, edits, faults>>

\* The walk does not see the path, or a worker's stat comes too late.
WalkPast(f) ==
  /\ Walking(f)
  /\ disk[f] \notin Contents
  /\ run' = [run EXCEPT !.todo = @ \ {f}]
  /\ UNCHANGED <<disk, index, task, touched, edits, faults>>

\* A worker receives the path.
WalkTo(w, f) ==
  /\ Walking(f)
  /\ Begin(w, f)
  /\ run' = [run EXCEPT !.todo = @ \ {f},
                        !.parseFailures = IF disk[f] \in Big THEN @ \cup {f} ELSE @]
  /\ UNCHANGED <<disk, index, touched, edits, faults>>

\* A directory cannot be read: the walk stops, the workers still get the
\* paths that wait in the channel.
WalkError ==
  /\ run.pc = "walk"
  /\ faults < MaxFaults
  /\ faults' = faults + 1
  /\ \E waiting \in SUBSET run.todo :
       run' = [run EXCEPT !.pc = "drain", !.todo = waiting]
  /\ UNCHANGED <<disk, index, task, touched, edits>>

WorkersIdle == \A w \in Workers : task[w].pc = "idle"

\* close(work), wg.Wait(); then pruneStaleFiles lists the rows.
ListRows ==
  /\ run.pc = "walk" /\ run.todo = {} /\ WorkersIdle
  /\ run' = [run EXCEPT !.pc = "stat", !.check = DOMAIN index]
  /\ UNCHANGED <<disk, index, task, touched, edits, faults>>

End(result) ==
  run' = [run EXCEPT !.pc = "idle", !.check = {}, !.doomed = {}, !.result = result]

\* After a walk error nothing is swept.
GiveUp ==
  /\ run.pc = "drain" /\ run.todo = {} /\ WorkersIdle
  /\ End("error")
  /\ UNCHANGED <<disk, index, task, touched, edits, faults>>

\* Mutant: a file that could not be indexed is swept as well.
StatRowOrFailed(f) ==
  /\ run.pc = "stat" /\ f \in run.check
  /\ run' = [run EXCEPT !.check = @ \ {f},
                         !.doomed = IF disk[f] = Gone \/ f \in run.parseFailures
                                    THEN @ \cup {f} ELSE @]
  /\ UNCHANGED <<disk, index, task, touched, edits, faults>>

\* Only "does not exist" dooms a row; any other stat error ends the sweep
\* before it deleted anything.
StatRow(f) ==
  /\ run.pc = "stat" /\ f \in run.check
  /\ IF disk[f] = Blocked
     THEN End("error")
     ELSE run' = [run EXCEPT !.check = @ \ {f},
                             !.doomed = IF disk[f] = Gone THEN @ \cup {f} ELSE @]
  /\ UNCHANGED <<disk, index, task, touched, edits, faults>>

\* DeleteFiles, one transaction, then the verdict on the whole call.
DeleteFiles ==
  /\ run.pc = "stat" /\ run.check = {}
  /\ index' = [f \in DOMAIN index \ run.doomed |-> index[f]]
  /\ End(IF run.storeErrors THEN "error" ELSE "ok")
  /\ UNCHANGED <<disk, task, touched, edits, faults>>

\* AllFiles or DeleteFiles fails.
PruneError ==
  /\ \/ run.pc = "walk" /\ run.todo = {} /\ WorkersIdle
     \/ run.pc = "stat" /\ run.check = {} /\ run.doomed # {}
  /\ faults < MaxFaults
  /\ faults' = faults + 1
  /\ End("error")
  /\ UNCHANGED <<disk, index, task, touched, edits>>

\* The process is killed, its workers with it.
IndexAllCrash ==
  /\ run.pc # "idle"
  /\ faults < MaxFaults
  /\ faults' = faults + 1
  /\ run' = NoRun
  /\ task' = [t \in Tasks |-> IF t \in Workers THEN NoTask ELSE task[t]]
  /\ UNCHANGED <<disk, index, touched, edits>>

-----------------------------------------------------------------------------
HookStep(h) ==
  HookStart(h) \/ Lookup(h) \/ Commit(h) \/ StoreError(h) \/ HookCrash(h)

WorkerStep(w) ==
  (\E f \in Files : WalkTo(w, f)) \/ Lookup(w) \/ Commit(w) \/ StoreError(w)

SweepStep ==
  \/ \E f \in Files : WalkPast(f) \/ StatRow(f)
  \/ ListRows
  \/ DeleteFiles
  \/ GiveUp

Next ==
  \/ Edit
  \/ \E h \in Hooks : HookStep(h)
  \/ \E w \in Workers : WorkerStep(w)
  \/ StartIndexAll
  \/ SweepStep
  \/ WalkError
  \/ PruneError
  \/ IndexAllCrash

Spec == Init /\ [][Next]_vars

\* A process that runs goes on running: the scheduler does not starve it.
\* Nothing is assumed of edits, failures or the start of new processes.
ProcessFairness ==
  /\ \A t \in Tasks : WF_vars(Lookup(t) \/ Commit(t))
  /\ WF_vars(SweepStep \/ \E w \in Workers, f \in Files : WalkTo(w, f))

\* Besides, somebody runs `leonard index` again and again.
FairSpec == Spec /\ ProcessFairness
ReindexSpec == FairSpec /\ WF_vars(StartIndexAll)

-----------------------------------------------------------------------------
(* Safety                                                                  *)

\* The hash a row carries and the symbols filed under it come from one
\* parse: never the new hash with the symbols of an older parse, whatever
\* fails or races.  An empty set under a hash means an extraction failed.
HashMatchesSymbols ==
  \A f \in DOMAIN index :
    LET row == index[f]
    IN  row.syms \in ExtractOutcomes(row.hash)

\* f has the row of its present contents.
UpToDate(f) == f \in DOMAIN index /\ index[f].hash = disk[f]

\* f has the row of its present contents, and a file without contents has none,
\* or the file is one leonard does not read.  After an extraction that failed
\* for reasons of the environment that row has no symbols.
Settled(f) ==
  \/ disk[f] \in Big \cup Unreadable
  \/ disk[f] \in Contents /\ UpToDate(f)
  \/ disk[f] \notin Contents /\ f \notin DOMAIN index

\* When `leonard index` reports success, every file nobody edited or
\* re-indexed meanwhile has the row of its present contents, every vanished
\* one has none, and an oversize one is on the list of failures.
FreshAfterIndexAll ==
  run.result = "ok" =>
    \A f \in Files \ touched : Settled(f) /\ (disk[f] \in Big => f \in run.parseFailures)

\* The sweep never takes away the row of a file that stayed on disk.
SweepSparesTheLiving ==
  [][\A f \in DOMAIN index \ DOMAIN index' : f \in touched \/ disk[f] = Gone]_vars

\* "Rows whose path no longer resolves on disk" are removed: once a call has
\* ended and no store call failed it, no vanished file has a row.
VanishedRowsArePruned ==
  run.pc = "idle" /\ run.result # "none" /\ faults = 0 =>
    \A f \in DOMAIN index \ touched : disk[f] \in Contents

-----------------------------------------------------------------------------
(* Liveness                                                                *)

\* A call of IndexAll comes to an end.
IndexAllEnds == run.pc # "idle" ~> run.pc = "idle"

\* Once the tree is left alone, whatever stale commits, lost rows, crashes
\* and failed writes came before are repaired for good, unless a blocked
\* path makes every sweep give up.
Converges ==
  <>[]((\A f \in Files : Settled(f)) \/ (\E f \in Files : disk[f] = Blocked))

=============================================================================
