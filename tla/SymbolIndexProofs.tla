------------------------- MODULE SymbolIndexProofs -------------------------
(***************************************************************************)
(* Proofs about SymbolIndex, for any files, contents, pool of workers,     *)
(* number of hooks and any bounds.                                         *)
(*                                                                         *)
(* The argument for FreshAfterIndexAll follows one file nobody touches     *)
(* through a call of IndexAll: it waits for the walk, then a worker holds  *)
(* its present contents, then it is Done or a store error is on record;    *)
(* when the pool is idle and nothing waits, every such file is Done.  What *)
(* the sweep then takes away are the rows of files that are gone.          *)
(***************************************************************************)
EXTENDS SymbolIndex, TLAPS

\* A call of indexAbs that got past its read holds contents leonard parses.
TasksHoldText ==
  \A t \in Tasks : task[t].pc # "idle" =>
    task[t].file \in Files /\ task[t].data \in Contents \ (Big \cup Unreadable)

\* Nobody outdates what a worker read without touching the file.
WorkersAreCurrent ==
  \A w \in Workers : task[w].pc # "idle" /\ task[w].file \notin touched =>
    task[w].data = disk[task[w].file]

\* Workers work during the walk only, and a running call has no result yet.
PoolIsWaitedFor ==
  /\ run.pc \in {"idle", "stat"} => WorkersIdle
  /\ run.pc # "idle" => run.result = "none"
  /\ run.pc = "stat" => run.todo = {}
  /\ run.pc # "stat" => run.doomed = {}

\* What IndexAll has to do for f is done.
Done(f) ==
  disk[f] \in Contents =>
    IF disk[f] \in Big THEN f \in run.parseFailures
                       ELSE disk[f] \in Unreadable \/ UpToDate(f)

Held(f) == \E w \in Workers : task[w].pc # "idle" /\ task[w].file = f

\* An untouched file the walk has passed is done, or a worker has it, or
\* the call is going to fail.
WalkedIsCovered ==
  run.pc \in {"walk", "stat"} =>
    \A f \in Files \ (touched \cup run.todo) : Done(f) \/ Held(f) \/ run.storeErrors

\* The sweep has yet to look at a row without a file or has doomed it, and
\* it dooms no other row.
SweepIsExact ==
  run.pc = "stat" =>
    /\ \A f \in DOMAIN index \ touched :
         disk[f] \notin Contents => f \in run.check \cup run.doomed
    /\ \A f \in run.doomed \ touched : disk[f] = Gone

IndexInv ==
  /\ TypeOK
  /\ TasksHoldText /\ WorkersAreCurrent
  /\ PoolIsWaitedFor /\ WalkedIsCovered
  /\ SweepIsExact
  /\ FreshAfterIndexAll

-----------------------------------------------------------------------------
(* Types                                                                   *)

\* An idle task is of the tasks' type, no run of the run's.
LEMMA NoTaskType == NoTask \in Task /\ NoRun \in Run
BY DEF NoTask, Task, NoRun, Run

\* Starting a call of indexAbs and ending one keep the tasks well typed.
LEMMA TaskTypes ==
  ASSUME TypeOK, NEW t \in Tasks
  PROVE  /\ Finish(t) => task' \in [Tasks -> Task]
         /\ \A f \in Files : Begin(t, f) => task' \in [Tasks -> Task]
         /\ Lookup(t) => task' \in [Tasks -> Task]
<1> USE NoTaskType
<1>1. task \in [Tasks -> Task]
  BY DEF TypeOK
<1>2. Finish(t) => task' \in [Tasks -> Task]
  BY <1>1 DEF Finish
<1>3. ASSUME NEW f \in Files, Begin(t, f) PROVE task' \in [Tasks -> Task]
  <2>1. [pc |-> "lookup", file |-> f, data |-> disk[f]] \in Task
    BY <1>3 DEF Begin, Task
  <2> QED
    BY <1>1, <1>3, <2>1 DEF Begin
<1>4. ASSUME Lookup(t) PROVE task' \in [Tasks -> Task]
  <2>1. [task[t] EXCEPT !.pc = "commit"] \in Task
    BY <1>1 DEF Task
  <2> QED
    BY <1>1, <1>2, <1>4, <2>1 DEF Lookup
<1> QED
  BY <1>2, <1>3, <1>4

\* Replacing the row of a file keeps the table well typed.
LEMMA ReplaceType ==
  ASSUME TypeOK, NEW f \in Files, NEW c \in Contents,
         NEW s \in Contents \cup {NoSyms}, ReplaceFileSymbols(f, c, s)
  PROVE  DOMAIN index' \subseteq Files /\ index' \in [DOMAIN index' -> Row]
<1>1. [hash |-> c, syms |-> s] \in Row
  BY DEF Row
<1> QED
  BY <1>1 DEF TypeOK, ReplaceFileSymbols

\* An extraction yields the symbols of what it read, or none.
LEMMA OutcomeType ==
  ASSUME NEW c \in Contents
  PROVE  ExtractOutcomes(c) \subseteq Contents \cup {NoSyms}
BY DEF ExtractOutcomes

\* The list of parse failures stays a list of files.
LEMMA FailuresType ==
  ASSUME TypeOK, NEW t \in Tasks, task[t].file \in Files, NEW s
  PROVE  RecordParseFailure(t, s) \subseteq Files
BY DEF TypeOK, Run, RecordParseFailure

\* TypeOK is inductive, given what running tasks hold.
LEMMA NextIndexType == TypeOK /\ TasksHoldText /\ [Next]_vars => TypeOK'
<1> SUFFICES ASSUME TypeOK, TasksHoldText, [Next]_vars PROVE TypeOK'
  OBVIOUS
<1> USE SymbolIndexAssumption
<1>1. /\ disk \in [Files -> Contents \cup {Gone, Blocked}]
      /\ DOMAIN index \subseteq Files /\ index \in [DOMAIN index -> Row]
      /\ task \in [Tasks -> Task] /\ run \in Run /\ touched \subseteq Files
      /\ edits \in Nat /\ faults \in Nat
  BY DEF TypeOK
<1>2. ASSUME NEW t \in Tasks, task[t].pc # "idle"
      PROVE  /\ task[t].file \in Files /\ task[t].data \in Contents
             /\ ExtractOutcomes(task[t].data) \subseteq Contents \cup {NoSyms}
  BY <1>2, OutcomeType DEF TasksHoldText
\* Steps that leave the table and the tree alone.
<1>3. ASSUME UNCHANGED <<disk, index, touched, edits>>, faults' \in Nat,
             task' \in [Tasks -> Task], run' \in Run
      PROVE  TypeOK'
  BY <1>1, <1>3 DEF TypeOK
<1>4. CASE Edit
  <2>1. disk' \in [Files -> Contents \cup {Gone, Blocked}] /\ touched' \subseteq Files
    BY <1>1, <1>4 DEF Edit
  <2> QED
    BY <1>1, <1>4, <2>1 DEF Edit, TypeOK
<1>5. ASSUME NEW t \in Tasks, Lookup(t) PROVE TypeOK'
  BY <1>1, <1>3, <1>5, TaskTypes DEF Lookup
<1>6. ASSUME NEW t \in Tasks, Commit(t) PROVE TypeOK'
  <2>1. PICK s \in ExtractOutcomes(task[t].data) :
          /\ ReplaceFileSymbols(task[t].file, task[t].data, s)
          /\ run' = [run EXCEPT !.parseFailures = RecordParseFailure(t, s)]
    BY <1>6 DEF Commit
  <2>2. /\ task[t].file \in Files /\ task[t].data \in Contents
        /\ s \in Contents \cup {NoSyms}
    BY <1>2, <1>6 DEF Commit
  <2>3. DOMAIN index' \subseteq Files /\ index' \in [DOMAIN index' -> Row]
    BY <2>1, <2>2, ReplaceType
  <2>4. run' \in Run
    BY <1>1, <2>1, <2>2, FailuresType DEF Run
  <2>5. task' \in [Tasks -> Task]
    BY <1>6, TaskTypes DEF Commit
  <2>6. touched' \subseteq Files
    BY <1>1, <1>6, <2>2 DEF Commit
  <2> QED
    BY <1>1, <1>6, <2>3, <2>4, <2>5, <2>6 DEF Commit, TypeOK
<1>7. ASSUME NEW t \in Tasks, StoreError(t) PROVE TypeOK'
  <2>1. PICK s : run' = [run EXCEPT !.storeErrors = @ \/ t \in Workers,
                                    !.parseFailures = RecordParseFailure(t, s)]
    BY <1>7 DEF StoreError
  <2>2. RecordParseFailure(t, s) \subseteq Files
    BY <1>2, <1>7, FailuresType DEF StoreError
  <2>3. ASSUME NEW b \in BOOLEAN
        PROVE  [run EXCEPT !.storeErrors = b,
                           !.parseFailures = RecordParseFailure(t, s)] \in Run
    BY <1>1, <2>2 DEF Run
  <2>4. (run.storeErrors \/ t \in Workers) \in BOOLEAN
    BY <1>1 DEF Run
  <2>5. run' \in Run
    BY <2>1, <2>3, <2>4, Zenon
  <2> QED
    BY <1>1, <1>3, <1>7, <2>5, TaskTypes DEF StoreError
<1>8. ASSUME NEW h \in Hooks, HookStart(h) \/ HookCrash(h) PROVE TypeOK'
  BY <1>1, <1>3, <1>8, TaskTypes DEF HookStart, HookCrash, Tasks
<1>9. CASE StartIndexAll
  <2>1. run' \in Run
    BY <1>9 DEF StartIndexAll, NoRun, Run
  <2> QED
    BY <1>1, <1>9, <2>1 DEF StartIndexAll, TypeOK
<1>10. ASSUME NEW f \in Files, WalkPast(f) \/ StatRow(f) PROVE TypeOK'
  <2>1. run' \in Run
    <3>1. CASE WalkPast(f)
      BY <1>1, <3>1 DEF WalkPast, Run
    <3>2. CASE StatRow(f) /\ disk[f] = Blocked
      BY <1>1, <3>2 DEF StatRow, End, Run
    <3>3. CASE StatRow(f) /\ disk[f] # Blocked
      <4>1. PICK D \in {run.doomed, run.doomed \cup {f}} :
              run' = [run EXCEPT !.check = run.check \ {f}, !.doomed = D]
        BY <3>3 DEF StatRow
      <4>2. D \subseteq Files
        BY <1>1, <4>1 DEF Run
      <4> QED
        BY <1>1, <4>1, <4>2 DEF Run
    <3> QED
      BY <1>10, <3>1, <3>2, <3>3 DEF StatRow
  <2> QED
    BY <1>1, <1>3, <1>10, <2>1 DEF WalkPast, StatRow
<1>11. ASSUME NEW w \in Workers, NEW f \in Files, WalkTo(w, f) PROVE TypeOK'
  <2>1. run' \in Run
    BY <1>1, <1>11 DEF WalkTo, Run
  <2> QED
    BY <1>1, <1>3, <1>11, <2>1, TaskTypes DEF WalkTo, Tasks
<1>12. CASE WalkError
  <2>1. PICK waiting \in SUBSET run.todo :
          run' = [run EXCEPT !.pc = "drain", !.todo = waiting]
    BY <1>12 DEF WalkError
  <2>2. run' \in Run
    BY <1>1, <2>1 DEF Run
  <2> QED
    BY <1>1, <1>3, <1>12, <2>2 DEF WalkError
<1>13. CASE ListRows \/ GiveUp \/ PruneError
  <2>1. run' \in Run
    BY <1>1, <1>13 DEF ListRows, GiveUp, PruneError, End, Run
  <2> QED
    BY <1>1, <1>3, <1>13, <2>1 DEF ListRows, GiveUp, PruneError
<1>14. CASE DeleteFiles
  <2>1. run' \in Run
    BY <1>1, <1>14 DEF DeleteFiles, End, Run
  <2> QED
    BY <1>1, <1>14, <2>1 DEF DeleteFiles, TypeOK
<1>15. CASE IndexAllCrash
  <2>1. task' \in [Tasks -> Task] /\ run' \in Run
    BY <1>1, <1>15, NoTaskType DEF IndexAllCrash
  <2> QED
    BY <1>1, <1>3, <1>15, <2>1 DEF IndexAllCrash
<1>16. CASE UNCHANGED vars
  BY <1>1, <1>16 DEF vars, TypeOK
<1> QED
  BY <1>4, <1>5, <1>6, <1>7, <1>8, <1>9, <1>10, <1>11, <1>12, <1>13, <1>14, <1>15, <1>16
  DEF Next, HookStep, WorkerStep, SweepStep, Tasks

-----------------------------------------------------------------------------
(* Tasks                                                                   *)

\* A task ends, goes on with what it read, or begins by reading its file,
\* and the workers' begin during the walk only.
LEMMA TaskStep ==
  ASSUME TypeOK, [Next]_vars, NEW t \in Tasks
  PROVE  \/ task'[t].pc = "idle"
         \/ /\ task[t].pc # "idle" /\ task'[t].file = task[t].file
            /\ task'[t].data = task[t].data
         \/ /\ \E f \in Files : /\ disk[f] \in Contents \ (Big \cup Unreadable)
                                /\ task'[t].file = f /\ task'[t].data = disk[f]
            /\ UNCHANGED <<disk, touched>>
            /\ t \in Workers => run.pc \in {"walk", "drain"} /\ run'.pc = run.pc
<1> DEFINE Ended == task'[t].pc = "idle"
           Kept == /\ task[t].pc # "idle" /\ task'[t].file = task[t].file
                   /\ task'[t].data = task[t].data
           Begun == /\ \E f \in Files : /\ disk[f] \in Contents \ (Big \cup Unreadable)
                                       /\ task'[t].file = f /\ task'[t].data = disk[f]
                    /\ UNCHANGED <<disk, touched>>
                    /\ t \in Workers => run.pc \in {"walk", "drain"} /\ run'.pc = run.pc
<1> SUFFICES Ended \/ Kept \/ Begun
  OBVIOUS
<1>1. task \in [Tasks -> Task] /\ run \in Run /\ Workers \cap Hooks = {}
  BY SymbolIndexAssumption DEF TypeOK
<1>2. CASE task'[t] = task[t]
  BY <1>1, <1>2
<1>3. ASSUME NEW u \in Tasks, Finish(u) PROVE Ended \/ task'[t] = task[t]
  BY <1>1, <1>3 DEF Finish, NoTask
<1>4. ASSUME NEW u \in Tasks, Lookup(u) PROVE Ended \/ Kept
  <2>1. CASE Finish(u)
    BY <1>2, <1>3, <2>1
  <2>2. CASE task' = [task EXCEPT ![u].pc = "commit"] /\ task[u].pc = "lookup"
    BY <1>1, <1>2, <2>2 DEF Task
  <2> QED
    BY <1>4, <2>1, <2>2 DEF Lookup
<1>5. ASSUME NEW u \in Tasks, NEW f \in Files, Begin(u, f)
      PROVE  \/ task'[t] = task[t]
             \/ /\ t = u /\ disk[f] \in Contents \ (Big \cup Unreadable)
                /\ task'[t].file = f /\ task'[t].data = disk[f]
  BY <1>1, <1>5 DEF Begin
<1>6. ASSUME NEW h \in Hooks, HookStep(h) PROVE Ended \/ Kept \/ Begun
  <2>0. h \in Tasks
    BY DEF Tasks
  <2>1. CASE HookStart(h)
    BY <1>1, <1>2, <1>5, <2>0, <2>1 DEF HookStart
  <2>2. CASE Lookup(h)
    BY <1>4, <2>0, <2>2
  <2>3. CASE Commit(h) \/ StoreError(h) \/ HookCrash(h)
    BY <1>2, <1>3, <2>0, <2>3 DEF Commit, StoreError, HookCrash
  <2> QED
    BY <1>6, <2>1, <2>2, <2>3 DEF HookStep
<1>7. ASSUME NEW w \in Workers, WorkerStep(w) PROVE Ended \/ Kept \/ Begun
  <2>0. w \in Tasks
    BY DEF Tasks
  <2>1. ASSUME NEW f \in Files, WalkTo(w, f) PROVE Ended \/ Kept \/ Begun
    <3>1. run.pc \in {"walk", "drain"} /\ run'.pc = run.pc /\ UNCHANGED <<disk, touched>>
      BY <1>1, <2>1 DEF WalkTo, Walking, Run
    <3> QED
      BY <1>2, <1>5, <2>0, <2>1, <3>1 DEF WalkTo
  <2>2. CASE Lookup(w)
    BY <1>4, <2>0, <2>2
  <2>3. CASE Commit(w) \/ StoreError(w)
    BY <1>2, <1>3, <2>0, <2>3 DEF Commit, StoreError
  <2> QED
    BY <1>7, <2>1, <2>2, <2>3 DEF WorkerStep
<1>8. CASE IndexAllCrash
  BY <1>1, <1>2, <1>8 DEF IndexAllCrash, NoTask
<1>9. CASE UNCHANGED task
  BY <1>2, <1>9
<1> QED
  BY <1>6, <1>7, <1>8, <1>9
  DEF Next, Edit, StartIndexAll, SweepStep, WalkPast, StatRow, ListRows, DeleteFiles,
      GiveUp, WalkError, PruneError, vars

\* A file nobody touched is as it was, and it was untouched before unless a
\* new IndexAll has just begun to count.
LEMMA UntouchedStep ==
  ASSUME TypeOK, [Next]_vars, NEW f \in Files, f \notin touched'
  PROVE  disk'[f] = disk[f] /\ (f \notin touched \/ StartIndexAll)
<1>1. CASE Edit
  BY <1>1 DEF Edit, TypeOK
<1>2. ASSUME NEW t \in Tasks, Commit(t) PROVE disk'[f] = disk[f] /\ f \notin touched
  BY <1>2 DEF Commit
<1>3. CASE StartIndexAll
  BY <1>3 DEF StartIndexAll
<1>4. CASE UNCHANGED <<disk, touched>>
  BY <1>4
<1> QED
  BY <1>1, <1>2, <1>3, <1>4
  DEF Next, HookStep, HookStart, Lookup, StoreError, HookCrash, WorkerStep, WalkTo,
      SweepStep, WalkPast, StatRow, ListRows, DeleteFiles, GiveUp, WalkError,
      PruneError, IndexAllCrash, vars, Tasks

\* The tasks' part of the invariant.
LEMMA NextTasks ==
  IndexInv /\ [Next]_vars => TasksHoldText' /\ WorkersAreCurrent'
<1> SUFFICES ASSUME IndexInv, [Next]_vars PROVE TasksHoldText' /\ WorkersAreCurrent'
  OBVIOUS
<1>1. TypeOK /\ TasksHoldText /\ WorkersAreCurrent /\ PoolIsWaitedFor
  BY DEF IndexInv
<1>2. TasksHoldText'
  BY <1>1, TaskStep DEF TasksHoldText
<1>3. ASSUME NEW w \in Workers, task'[w].pc # "idle", task'[w].file \notin touched'
      PROVE  task'[w].data = disk'[task'[w].file]
  <2>1. w \in Tasks
    BY DEF Tasks
  <2>2. CASE /\ task[w].pc # "idle" /\ task'[w].file = task[w].file
             /\ task'[w].data = task[w].data
    <3>1. task[w].file \in Files
      BY <1>1, <2>1, <2>2 DEF TasksHoldText
    <3>2. ~StartIndexAll
      BY <1>1, <2>2 DEF StartIndexAll, PoolIsWaitedFor, WorkersIdle
    <3>3. /\ disk'[task[w].file] = disk[task[w].file]
          /\ task[w].file \notin touched
      BY <1>1, <1>3, <2>2, <3>1, <3>2, UntouchedStep
    <3> QED
      BY <1>1, <2>2, <3>3 DEF WorkersAreCurrent
  <2>3. CASE /\ \E f \in Files : task'[w].file = f /\ task'[w].data = disk[f]
             /\ UNCHANGED disk
    BY <2>3
  <2> QED
    BY <1>1, <1>3, <2>1, <2>2, <2>3, TaskStep
<1> QED
  BY <1>2, <1>3 DEF WorkersAreCurrent

-----------------------------------------------------------------------------
(* The call of IndexAll                                                    *)

\* What a step of one task does to the call's record.
LEMMA TaskRun ==
  ASSUME TypeOK, NEW t \in Tasks, Lookup(t) \/ Commit(t) \/ StoreError(t)
  PROVE  /\ run'.pc = run.pc /\ run'.todo = run.todo /\ run'.check = run.check
         /\ run'.doomed = run.doomed /\ run'.result = run.result
         /\ run.parseFailures \subseteq run'.parseFailures
         /\ run.storeErrors => run'.storeErrors
<1>1. run \in Run
  BY DEF TypeOK
<1>2. CASE Lookup(t)
  BY <1>2 DEF Lookup
<1>3. CASE Commit(t)
  <2>1. PICK s : run' = [run EXCEPT !.parseFailures = RecordParseFailure(t, s)]
    BY <1>3 DEF Commit
  <2> QED
    BY <1>1, <2>1 DEF RecordParseFailure, Run
<1>4. CASE StoreError(t)
  <2>1. PICK s : run' = [run EXCEPT !.storeErrors = @ \/ t \in Workers,
                                    !.parseFailures = RecordParseFailure(t, s)]
    BY <1>4 DEF StoreError
  <2>2. run.parseFailures \subseteq RecordParseFailure(t, s)
    BY DEF RecordParseFailure
  <2>3. /\ run'.pc = run.pc /\ run'.todo = run.todo /\ run'.check = run.check
        /\ run'.doomed = run.doomed /\ run'.result = run.result
        /\ run'.parseFailures = RecordParseFailure(t, s)
    BY <1>1, <2>1 DEF Run
  <2>4. run'.storeErrors = (run.storeErrors \/ t \in Workers)
    BY <1>1, <2>1, Zenon DEF Run
  <2> QED
    BY <2>2, <2>3, <2>4
<1> QED
  BY <1>2, <1>3, <1>4

\* The phases of a call: the pool is idle outside the walk, the verdict comes
\* last.
LEMMA NextPool == IndexInv /\ [Next]_vars => PoolIsWaitedFor'
<1> SUFFICES ASSUME IndexInv, [Next]_vars PROVE PoolIsWaitedFor'
  OBVIOUS
<1>1. /\ TypeOK /\ run \in Run /\ task \in [Tasks -> Task]
      /\ run.pc \in {"idle", "stat"} => WorkersIdle
      /\ run.pc # "idle" => run.result = "none"
      /\ run.pc = "stat" => run.todo = {}
      /\ run.pc # "stat" => run.doomed = {}
  BY DEF IndexInv, TypeOK, PoolIsWaitedFor
<1> DEFINE Phases == /\ run'.pc # "idle" => run'.result = "none"
                     /\ run'.pc = "stat" => run'.todo = {}
                     /\ run'.pc # "stat" => run'.doomed = {}
           Leaves == /\ run.pc \in {"walk", "drain"}
                     /\ run'.pc \notin {"walk", "drain"}
           Ready == \A w \in Workers : task'[w].pc = "idle"
<1>2. ASSUME run'.pc = run.pc, run'.todo = run.todo, run'.doomed = run.doomed,
             run'.result = run.result
      PROVE  Phases /\ ~Leaves
  BY <1>1, <1>2
<1>3. ASSUME NEW t \in Tasks, Lookup(t) \/ Commit(t) \/ StoreError(t)
      PROVE  Phases /\ ~Leaves
  BY <1>1, <1>2, <1>3, TaskRun
<1>4. ASSUME \/ Edit \/ UNCHANGED vars
             \/ \E h \in Hooks : HookStart(h) \/ HookCrash(h)
      PROVE  Phases /\ ~Leaves
  BY <1>2, <1>4 DEF Edit, HookStart, HookCrash, vars
<1>5. ASSUME NEW w \in Workers, NEW f \in Files, WalkTo(w, f) PROVE Phases /\ ~Leaves
  BY <1>1, <1>5 DEF WalkTo, Walking, Run
<1>6. ASSUME StartIndexAll PROVE Phases /\ ~Leaves
  BY <1>1, <1>6 DEF StartIndexAll, NoRun
<1>7. ASSUME NEW f \in Files, WalkPast(f) PROVE Phases /\ ~Leaves
  BY <1>1, <1>7 DEF WalkPast, Walking, Run
<1>8. ASSUME NEW f \in Files, StatRow(f) PROVE Phases /\ ~Leaves
  BY <1>1, <1>8 DEF StatRow, End, Run
<1>9. ASSUME WalkError PROVE Phases /\ ~Leaves
  BY <1>1, <1>9 DEF WalkError, Run
<1>10. ASSUME ListRows PROVE Phases /\ (Leaves => Ready)
  BY <1>1, <1>10 DEF ListRows, WorkersIdle, Run
<1>11. ASSUME GiveUp \/ PruneError \/ DeleteFiles PROVE Phases /\ (Leaves => Ready)
  BY <1>1, <1>11 DEF GiveUp, PruneError, DeleteFiles, End, WorkersIdle, Run
<1>12. ASSUME IndexAllCrash PROVE Phases /\ (Leaves => Ready)
  BY <1>1, <1>12 DEF IndexAllCrash, NoRun, NoTask, Tasks
<1>13. Phases /\ (Leaves => Ready)
  BY <1>3, <1>4, <1>5, <1>6, <1>7, <1>8, <1>9, <1>10, <1>11, <1>12
  DEF Next, HookStep, WorkerStep, SweepStep, Tasks
<1>14. ASSUME run'.pc \in {"idle", "stat"}, run.pc \in {"idle", "stat"} PROVE Ready
  <2> SUFFICES ASSUME NEW w \in Workers PROVE task'[w].pc = "idle"
    OBVIOUS
  <2>1. w \in Tasks /\ task[w].pc = "idle"
    BY <1>1, <1>14 DEF Tasks, WorkersIdle
  <2> QED
    BY <1>1, <1>14, <2>1, TaskStep
<1>15. run'.pc \in {"idle", "stat"} => Ready
  BY <1>1, <1>13, <1>14 DEF Run
<1> QED
  BY <1>13, <1>15 DEF PoolIsWaitedFor, WorkersIdle

-----------------------------------------------------------------------------
(* One file through a call                                                 *)

\* A row changes only by a commit for its file, which touches the file if a
\* hook made it, or by the sweep.
LEMMA RowStep ==
  ASSUME TypeOK, [Next]_vars, NEW f \in Files
  PROVE  \/ /\ f \in DOMAIN index <=> f \in DOMAIN index'
            /\ f \in DOMAIN index => index'[f] = index[f]
         \/ \E t \in Tasks : /\ Commit(t) /\ task[t].file = f
                             /\ f \in DOMAIN index' /\ index'[f].hash = task[t].data
                             /\ t \in Hooks => f \in touched'
         \/ DeleteFiles /\ f \in run.doomed /\ f \notin DOMAIN index'
<1> DEFINE Same == /\ f \in DOMAIN index <=> f \in DOMAIN index'
                   /\ f \in DOMAIN index => index'[f] = index[f]
           Written == \E t \in Tasks :
                        /\ Commit(t) /\ task[t].file = f
                        /\ f \in DOMAIN index' /\ index'[f].hash = task[t].data
                        /\ t \in Hooks => f \in touched'
           Swept == DeleteFiles /\ f \in run.doomed /\ f \notin DOMAIN index'
<1> SUFFICES Same \/ Written \/ Swept
  OBVIOUS
<1>1. CASE UNCHANGED index
  BY <1>1
<1>2. ASSUME NEW t \in Tasks, Commit(t) PROVE Same \/ Written
  <2>1. PICK s : index' = [g \in DOMAIN index \cup {task[t].file} |->
                             IF g = task[t].file THEN [hash |-> task[t].data, syms |-> s]
                                                 ELSE index[g]]
    BY <1>2 DEF Commit, ReplaceFileSymbols
  <2>2. CASE f = task[t].file
    <3>1. f \in DOMAIN index' /\ index'[f].hash = task[t].data
      BY <2>1, <2>2
    <3>2. t \in Hooks => f \in touched'
      BY <1>2, <2>2 DEF Commit
    <3> QED
      BY <1>2, <2>2, <3>1, <3>2
  <2>3. CASE f # task[t].file
    BY <2>1, <2>3
  <2> QED
    BY <2>2, <2>3
<1>3. CASE DeleteFiles
  BY <1>3 DEF DeleteFiles
<1> QED
  BY <1>1, <1>2, <1>3
  DEF Next, Edit, HookStep, HookStart, Lookup, StoreError, HookCrash, WorkerStep, WalkTo,
      StartIndexAll, SweepStep, WalkPast, StatRow, ListRows, GiveUp, WalkError,
      PruneError, IndexAllCrash, vars, Tasks

\* A worker that has an untouched file keeps it until its row is the present
\* one or the call is going to fail.
LEMMA HeldStep ==
  ASSUME IndexInv, [Next]_vars, NEW f \in Files, f \notin touched, f \notin touched',
         NEW w \in Workers, task[w].pc # "idle", task[w].file = f,
         run'.pc \in {"walk", "stat"}
  PROVE  (task'[w].pc # "idle" /\ task'[w].file = f) \/ UpToDate(f)' \/ run'.storeErrors
<1> DEFINE Goal == \/ task'[w].pc # "idle" /\ task'[w].file = f
                   \/ UpToDate(f)' \/ run'.storeErrors
<1> SUFFICES Goal
  OBVIOUS
<1>1. /\ TypeOK /\ task \in [Tasks -> Task] /\ run \in Run
      /\ w \in Tasks /\ Workers \cap Hooks = {} /\ run.pc # "idle"
      /\ task[w].data = disk[f]
  BY SymbolIndexAssumption
  DEF IndexInv, TypeOK, Tasks, WorkersAreCurrent, PoolIsWaitedFor, WorkersIdle
<1>2. disk'[f] = disk[f]
  BY <1>1, UntouchedStep
<1>3. CASE task'[w] = task[w]
  BY <1>3
<1>4. CASE Lookup(w)
  <2>1. CASE Known(f, disk[f])
    BY <1>1, <1>2, <1>4, <2>1 DEF Lookup, Known, UpToDate
  <2>2. CASE ~Known(f, disk[f])
    <3>1. task' = [task EXCEPT ![w].pc = "commit"]
      BY <1>1, <1>4, <2>2 DEF Lookup
    <3> QED
      BY <1>1, <3>1 DEF Task
  <2> QED
    BY <2>1, <2>2
<1>5. CASE Commit(w)
  <2>1. f \in DOMAIN index' /\ index'[f].hash = disk[f]
    BY <1>1, <1>5 DEF Commit, ReplaceFileSymbols
  <2> QED
    BY <1>2, <2>1 DEF UpToDate
<1>6. CASE StoreError(w)
  <2>1. PICK s : run' = [run EXCEPT !.storeErrors = @ \/ w \in Workers,
                                    !.parseFailures = RecordParseFailure(w, s)]
    BY <1>6 DEF StoreError
  <2>2. run'.storeErrors = (run.storeErrors \/ w \in Workers)
    BY <1>1, <2>1, Zenon DEF Run
  <2> QED
    BY <2>2
<1>7. ASSUME NEW u \in Tasks, u # w, Lookup(u) \/ Commit(u) \/ StoreError(u) PROVE Goal
  <2>1. task'[w] = task[w]
    BY <1>1, <1>7 DEF Lookup, Commit, StoreError, Finish
  <2> QED
    BY <1>3, <2>1
<1>8. ASSUME NEW h \in Hooks, HookStart(h) \/ HookCrash(h) PROVE Goal
  <2>1. h # w
    BY <1>1
  <2>2. task'[w] = task[w]
    BY <1>1, <1>8, <2>1 DEF HookStart, HookCrash, Begin, Finish
  <2> QED
    BY <1>3, <2>2
<1>9. ASSUME NEW v \in Workers, NEW g \in Files, WalkTo(v, g) PROVE Goal
  <2>1. v # w
    BY <1>9 DEF WalkTo, Begin
  <2>2. task'[w] = task[w]
    BY <1>1, <1>9, <2>1 DEF WalkTo, Begin
  <2> QED
    BY <1>3, <2>2
<1>10. CASE IndexAllCrash
  BY <1>10 DEF IndexAllCrash, NoRun
<1> QED
  BY <1>3, <1>4, <1>5, <1>6, <1>7, <1>8, <1>9, <1>10
  DEF Next, Edit, HookStep, WorkerStep, StartIndexAll, SweepStep, WalkPast, StatRow,
      ListRows, DeleteFiles, GiveUp, WalkError, PruneError, vars, Tasks

\* A file that is up to date and stays untouched stays up to date.
LEMMA UpToDateStep ==
  ASSUME IndexInv, [Next]_vars, NEW f \in Files, f \notin touched, f \notin touched',
         disk[f] \in Contents, UpToDate(f)
  PROVE  UpToDate(f)'
<1>1. /\ TypeOK /\ WorkersAreCurrent /\ disk'[f] = disk[f] /\ Gone \notin Contents
      /\ run.pc = "stat" => \A g \in run.doomed \ touched : disk[g] = Gone
  BY UntouchedStep, SymbolIndexAssumption DEF IndexInv, SweepIsExact
<1>2. ASSUME NEW t \in Tasks, Commit(t), task[t].file = f, f \in DOMAIN index',
             index'[f].hash = task[t].data, t \in Hooks => f \in touched'
      PROVE  UpToDate(f)'
  <2>1. t \in Workers /\ task[t].pc # "idle"
    BY <1>2 DEF Tasks, Commit
  <2>2. task[t].data = disk[f]
    BY <1>1, <1>2, <2>1 DEF WorkersAreCurrent
  <2> QED
    BY <1>1, <1>2, <2>2 DEF UpToDate
<1>3. ~(DeleteFiles /\ f \in run.doomed)
  BY <1>1 DEF DeleteFiles
<1> QED
  BY <1>1, <1>2, <1>3, RowStep DEF UpToDate

\* WalkedIsCovered is preserved: the walk passes a file by finding it gone,
\* by listing it as oversize or by giving it to a worker.
LEMMA NextCovered == IndexInv /\ [Next]_vars => WalkedIsCovered'
<1> DEFINE Covered(f) == Done(f) \/ Held(f) \/ run.storeErrors
<1> SUFFICES ASSUME IndexInv, [Next]_vars, run'.pc \in {"walk", "stat"},
                    NEW f \in Files, f \notin touched', f \notin run'.todo
             PROVE  Done(f)' \/ Held(f)' \/ run'.storeErrors
  BY DEF WalkedIsCovered
<1> DEFINE Goal == Done(f)' \/ Held(f)' \/ run'.storeErrors
<1>1. /\ TypeOK /\ run \in Run /\ task \in [Tasks -> Task] /\ Workers \subseteq Tasks
      /\ run.pc \in {"walk", "stat"} /\ f \notin run.todo => Covered(f)
         \/ f \in touched
  BY DEF IndexInv, TypeOK, WalkedIsCovered, Tasks
<1>2. disk'[f] = disk[f] /\ (f \notin touched \/ StartIndexAll)
  BY <1>1, UntouchedStep
<1>3. CASE StartIndexAll
  BY <1>3 DEF StartIndexAll, NoRun
<1>4. ASSUME f \notin touched, Covered(f), run.parseFailures \subseteq run'.parseFailures,
             run.storeErrors => run'.storeErrors
      PROVE  Goal
  <2>1. CASE Done(f)
    BY <1>2, <1>4, <2>1, UpToDateStep DEF Done
  <2>2. ASSUME NEW w \in Workers, task[w].pc # "idle", task[w].file = f PROVE Goal
    <3>1. CASE task'[w].pc # "idle" /\ task'[w].file = f
      BY <3>1 DEF Held
    <3>2. CASE UpToDate(f)'
      <4>1. disk'[f] \notin Big
        BY <1>1, <1>2, <1>4, <2>2 DEF IndexInv, TasksHoldText, WorkersAreCurrent
      <4> QED
        BY <3>2, <4>1 DEF Done
    <3> QED
      BY <1>4, <2>2, <3>1, <3>2, HeldStep
  <2> QED
    BY <1>4, <2>1, <2>2 DEF Held
<1>5. ASSUME run'.pc = run.pc, run'.todo = run.todo,
             run.parseFailures \subseteq run'.parseFailures,
             run.storeErrors => run'.storeErrors, ~StartIndexAll
      PROVE  Goal
  BY <1>1, <1>2, <1>4, <1>5
<1>6. ASSUME NEW t \in Tasks, Lookup(t) \/ Commit(t) \/ StoreError(t), ~StartIndexAll
      PROVE  Goal
  BY <1>1, <1>5, <1>6, TaskRun
<1>7. CASE UNCHANGED run /\ ~StartIndexAll
  BY <1>5, <1>7
<1>8. ASSUME NEW g \in Files, WalkPast(g), ~StartIndexAll PROVE Goal
  <2>1. /\ run'.pc = run.pc /\ run'.todo = run.todo \ {g} /\ disk[g] \notin Contents
        /\ run'.parseFailures = run.parseFailures /\ run'.storeErrors = run.storeErrors
    BY <1>1, <1>8 DEF WalkPast, Run
  <2>2. CASE f = g
    BY <1>2, <2>1, <2>2 DEF Done
  <2>3. CASE f # g
    BY <1>1, <1>2, <1>4, <1>8, <2>1, <2>3
  <2> QED
    BY <2>2, <2>3
<1>9. ASSUME NEW v \in Workers, NEW g \in Files, WalkTo(v, g), ~StartIndexAll PROVE Goal
  <2>1. /\ run'.pc = run.pc /\ run'.todo = run.todo \ {g}
        /\ run.parseFailures \subseteq run'.parseFailures
        /\ disk[g] \in Big => g \in run'.parseFailures
        /\ run'.storeErrors = run.storeErrors
    BY <1>1, <1>9 DEF WalkTo, Run
  <2>2. CASE f = g /\ disk[g] \in Big \cup Unreadable
    BY <1>2, <2>1, <2>2 DEF Done
  <2>3. CASE f = g /\ disk[g] \notin Big \cup Unreadable
    <3>1. task'[v].pc = "lookup" /\ task'[v].file = f
      BY <1>1, <1>9, <2>3 DEF WalkTo, Begin
    <3> QED
      BY <3>1 DEF Held
  <2>4. CASE f # g
    BY <1>1, <1>2, <1>4, <1>9, <2>1, <2>4
  <2> QED
    BY <2>2, <2>3, <2>4
<1>10. ASSUME NEW g \in Files, StatRow(g), ~StartIndexAll PROVE Goal
  <2>1. /\ run'.pc = run.pc /\ run'.todo = run.todo
        /\ run'.parseFailures = run.parseFailures /\ run'.storeErrors = run.storeErrors
    BY <1>1, <1>10 DEF StatRow, End, Run
  <2> QED
    BY <1>5, <1>10, <2>1
<1>11. ASSUME ListRows, ~StartIndexAll PROVE Goal
  <2>1. /\ run.pc = "walk" /\ run'.todo = run.todo
        /\ run'.parseFailures = run.parseFailures /\ run'.storeErrors = run.storeErrors
    BY <1>1, <1>11 DEF ListRows, Run
  <2> QED
    BY <1>1, <1>2, <1>4, <1>11, <2>1
<1>12. ~(WalkError \/ GiveUp \/ PruneError \/ DeleteFiles \/ IndexAllCrash)
  <2>1. WalkError => run'.pc = "drain"
    BY <1>1 DEF WalkError, Run
  <2>2. \A r : End(r) => run'.pc = "idle"
    BY <1>1 DEF End, Run
  <2>3. IndexAllCrash => run'.pc = "idle"
    BY DEF IndexAllCrash, NoRun
  <2> QED
    BY <2>1, <2>2, <2>3 DEF GiveUp, PruneError, DeleteFiles
<1> QED
  BY <1>3, <1>6, <1>7, <1>8, <1>9, <1>10, <1>11, <1>12
  DEF Next, Edit, HookStep, HookStart, HookCrash, WorkerStep, SweepStep, vars, Tasks

-----------------------------------------------------------------------------
(* The sweep                                                               *)

\* SweepIsExact is preserved: rows that appear during the sweep are hooks',
\* and an untouched row is doomed only when its file is not there.
LEMMA NextSweep == IndexInv /\ [Next]_vars => SweepIsExact'
<1> SUFFICES ASSUME IndexInv, [Next]_vars, run'.pc = "stat" PROVE SweepIsExact'
  BY DEF SweepIsExact
<1>1. /\ TypeOK /\ run \in Run /\ DOMAIN index \subseteq Files
      /\ DOMAIN index' \subseteq Files
      /\ run.doomed \subseteq Files
      /\ disk \in [Files -> Contents \cup {Gone, Blocked}]
      /\ run.pc # "stat" => run.doomed = {}
      /\ run.pc = "stat" => /\ \A f \in DOMAIN index \ touched :
                                 disk[f] \notin Contents => f \in run.check \cup run.doomed
                            /\ \A f \in run.doomed \ touched : disk[f] = Gone
      /\ run.pc = "stat" => WorkersIdle
  BY NextIndexType DEF IndexInv, TypeOK, Run, SweepIsExact, PoolIsWaitedFor
<1>2. ~StartIndexAll /\ ~DeleteFiles
  BY <1>1 DEF StartIndexAll, NoRun, DeleteFiles, End, Run
<1>3. \A f \in Files \ touched' : disk'[f] = disk[f] /\ f \notin touched
  BY <1>1, <1>2, UntouchedStep
<1>4. ASSUME run.pc = "stat"
      PROVE  \A f \in DOMAIN index' \ touched' : f \in DOMAIN index
  <2> SUFFICES ASSUME NEW f \in DOMAIN index', f \notin touched' PROVE f \in DOMAIN index
    OBVIOUS
  <2>1. \A t \in Tasks : Commit(t) => t \in Hooks
    BY <1>1, <1>4 DEF Tasks, Commit, WorkersIdle
  <2> QED
    BY <1>1, <1>2, <2>1, RowStep
<1>5. ASSUME run.pc = "stat", run'.check = run.check, run'.doomed = run.doomed
      PROVE  SweepIsExact'
  BY <1>1, <1>3, <1>4, <1>5 DEF SweepIsExact
<1>6. CASE UNCHANGED run
  BY <1>5, <1>6
<1>7. ASSUME NEW t \in Tasks, Lookup(t) \/ Commit(t) \/ StoreError(t) PROVE SweepIsExact'
  BY <1>1, <1>5, <1>7, TaskRun
<1>8. ASSUME NEW g \in Files, StatRow(g) PROVE SweepIsExact'
  <2>1. disk[g] # Blocked
    BY <1>1, <1>8 DEF StatRow, End, Run
  <2>2. /\ run.pc = "stat" /\ run'.check = run.check \ {g}
        /\ run'.doomed = IF disk[g] = Gone THEN run.doomed \cup {g} ELSE run.doomed
        /\ UNCHANGED <<disk, index, touched>>
    BY <1>1, <1>8, <2>1 DEF StatRow, Run
  <2> QED
    BY <1>1, <2>1, <2>2 DEF SweepIsExact
<1>9. CASE ListRows
  <2>1. /\ run'.check = DOMAIN index /\ run'.doomed = {}
        /\ UNCHANGED <<disk, index, touched>>
    BY <1>1, <1>9 DEF ListRows, Run
  <2> QED
    BY <2>1 DEF SweepIsExact
<1>10. ASSUME NEW f \in Files,
              WalkPast(f) \/ (\E w \in Workers : WalkTo(w, f)) PROVE FALSE
  <2>1. run.pc \in {"walk", "drain"} /\ run'.pc = run.pc
    BY <1>1, <1>10 DEF WalkPast, WalkTo, Walking, Run
  <2> QED
    BY <2>1
<1>11. ~(WalkError \/ GiveUp \/ PruneError \/ IndexAllCrash)
  <2>1. WalkError => run'.pc = "drain"
    BY <1>1 DEF WalkError, Run
  <2>2. \A r : End(r) => run'.pc = "idle"
    BY <1>1 DEF End, Run
  <2>3. IndexAllCrash => run'.pc = "idle"
    BY DEF IndexAllCrash, NoRun
  <2> QED
    BY <2>1, <2>2, <2>3 DEF GiveUp, PruneError
<1> QED
  BY <1>2, <1>6, <1>7, <1>8, <1>9, <1>10, <1>11
  DEF Next, Edit, HookStep, HookStart, HookCrash, WorkerStep, SweepStep, vars, Tasks

\* When the sweep ends a call without store errors, every untouched file is
\* settled.
LEMMA SuccessIsFresh ==
  ASSUME IndexInv, DeleteFiles, ~run.storeErrors,
         NEW f \in Files, f \notin touched'
  PROVE  Settled(f)' /\ (disk'[f] \in Big => f \in run'.parseFailures)
<1>1. /\ run \in Run /\ run.pc = "stat" /\ run.check = {} /\ run.todo = {}
      /\ WorkersIdle /\ UNCHANGED <<disk, touched>>
      /\ index' = [g \in DOMAIN index \ run.doomed |-> index[g]]
      /\ run'.parseFailures = run.parseFailures
  BY DEF IndexInv, TypeOK, PoolIsWaitedFor, DeleteFiles, End, Run
<1>2. Done(f)
  BY <1>1 DEF IndexInv, WalkedIsCovered, Held, WorkersIdle
<1>3. /\ f \in DOMAIN index /\ disk[f] \notin Contents => f \in run.doomed
      /\ f \in run.doomed => disk[f] = Gone
      /\ Gone \notin Contents
  BY <1>1, SymbolIndexAssumption DEF IndexInv, SweepIsExact
<1>4. CASE disk[f] \notin Contents
  BY <1>1, <1>3, <1>4, SymbolIndexAssumption DEF Settled
<1>5. CASE disk[f] \in Contents
  BY <1>1, <1>2, <1>3, <1>5 DEF Settled, Done, UpToDate
<1> QED
  BY <1>4, <1>5

\* A settled file stays settled until it is touched.
LEMMA SettledStep ==
  ASSUME IndexInv, [Next]_vars, NEW f \in Files, f \notin touched, f \notin touched',
         run.pc = "idle", Settled(f)
  PROVE  Settled(f)'
<1>1. TypeOK /\ disk'[f] = disk[f]
  BY UntouchedStep DEF IndexInv
<1>2. \A t \in Tasks : Commit(t) => t \in Hooks
  BY DEF IndexInv, PoolIsWaitedFor, Tasks, Commit, WorkersIdle
<1>3. f \in DOMAIN index <=> f \in DOMAIN index'
  BY <1>1, <1>2, RowStep DEF DeleteFiles
<1>4. f \in DOMAIN index => index'[f] = index[f]
  BY <1>1, <1>2, <1>3, RowStep DEF DeleteFiles
<1> QED
  BY <1>1, <1>3, <1>4 DEF Settled, UpToDate

\* The verdict "ok" is given when everything untouched is settled and is
\* withdrawn when the next call begins.
LEMMA NextFresh == IndexInv /\ [Next]_vars => FreshAfterIndexAll'
<1> SUFFICES ASSUME IndexInv, [Next]_vars, run'.result = "ok",
                    NEW f \in Files, f \notin touched'
             PROVE  Settled(f)' /\ (disk'[f] \in Big => f \in run'.parseFailures)
  BY DEF FreshAfterIndexAll
<1>1. /\ TypeOK /\ run \in Run /\ task \in [Tasks -> Task]
      /\ run.pc # "idle" => run.result = "none"
      /\ run.pc = "idle" => WorkersIdle
  BY DEF IndexInv, TypeOK, PoolIsWaitedFor
<1>2. ~StartIndexAll
  BY DEF StartIndexAll, NoRun
<1>3. disk'[f] = disk[f] /\ f \notin touched
  BY <1>1, <1>2, UntouchedStep
<1>4. ASSUME run.result = "ok", run.parseFailures \subseteq run'.parseFailures
      PROVE  Settled(f)' /\ (disk'[f] \in Big => f \in run'.parseFailures)
  <2>1. run.pc = "idle" /\ Settled(f) /\ (disk[f] \in Big => f \in run.parseFailures)
    BY <1>1, <1>3, <1>4 DEF IndexInv, FreshAfterIndexAll
  <2> QED
    BY <1>3, <1>4, <2>1, SettledStep
<1>5. ASSUME run'.result = run.result, run.parseFailures \subseteq run'.parseFailures
      PROVE  Settled(f)' /\ (disk'[f] \in Big => f \in run'.parseFailures)
  BY <1>4, <1>5
<1>6. ASSUME NEW t \in Tasks, Lookup(t) \/ Commit(t) \/ StoreError(t)
      PROVE  Settled(f)' /\ (disk'[f] \in Big => f \in run'.parseFailures)
  BY <1>1, <1>5, <1>6, TaskRun
<1>7. CASE UNCHANGED run
  BY <1>5, <1>7
<1>8. CASE DeleteFiles
  <2>1. ~run.storeErrors
    BY <1>1, <1>8 DEF DeleteFiles, End, Run
  <2> QED
    BY <1>8, <2>1, SuccessIsFresh
<1>9. ASSUME run.pc # "idle", run'.result = run.result PROVE FALSE
  BY <1>1, <1>9
<1>10. ASSUME NEW g \in Files, WalkPast(g) \/ StatRow(g) \/ (\E w \in Workers : WalkTo(w, g))
       PROVE  FALSE
  <2>1. WalkPast(g) => run.pc # "idle" /\ run'.result = run.result
    BY <1>1 DEF WalkPast, Walking, Run
  <2>2. (\E w \in Workers : WalkTo(w, g)) => run.pc # "idle" /\ run'.result = run.result
    BY <1>1 DEF WalkTo, Walking, Run
  <2>3. StatRow(g) => run.pc # "idle" /\ (run'.result = run.result \/ run'.result = "error")
    BY <1>1 DEF StatRow, End, Run
  <2> QED
    BY <1>9, <1>10, <2>1, <2>2, <2>3
<1>11. ~(WalkError \/ ListRows \/ GiveUp \/ PruneError \/ IndexAllCrash)
  <2>1. WalkError \/ ListRows => run.pc # "idle" /\ run'.result = run.result
    BY <1>1 DEF WalkError, ListRows, Run
  <2>2. GiveUp \/ PruneError => run'.result = "error"
    BY <1>1 DEF GiveUp, PruneError, End, Run
  <2>3. IndexAllCrash => run'.result = "none"
    BY DEF IndexAllCrash, NoRun
  <2> QED
    BY <1>9, <2>1, <2>2, <2>3
<1> QED
  BY <1>2, <1>6, <1>7, <1>8, <1>10, <1>11
  DEF Next, Edit, HookStep, HookStart, HookCrash, WorkerStep, SweepStep, vars, Tasks

-----------------------------------------------------------------------------
(* Theorems                                                                *)

\* At the start nothing is indexed and nothing runs.
LEMMA InitIndexInv == Init => IndexInv
<1> SUFFICES ASSUME Init PROVE IndexInv
  OBVIOUS
<1>1. TypeOK
  BY NoTaskType DEF Init, TypeOK
<1>2. TasksHoldText /\ WorkersAreCurrent
  BY DEF Init, TasksHoldText, WorkersAreCurrent, NoTask, Tasks
<1>3. PoolIsWaitedFor /\ WalkedIsCovered /\ SweepIsExact /\ FreshAfterIndexAll
  BY DEF Init, PoolIsWaitedFor, WalkedIsCovered, SweepIsExact, FreshAfterIndexAll,
         WorkersIdle, NoTask, NoRun, Tasks
<1> QED
  BY <1>1, <1>2, <1>3 DEF IndexInv

\* IndexInv is inductive.
LEMMA NextIndexInv == IndexInv /\ [Next]_vars => IndexInv'
BY NextIndexType, NextTasks, NextPool, NextCovered, NextSweep, NextFresh DEF IndexInv

\* IndexInv holds in every reachable state.
LEMMA IndexInvariant == Spec => []IndexInv
BY InitIndexInv, NextIndexInv, PTL DEF Spec

\* Every reachable state of the index has the types its columns declare.
THEOREM IndexTypeCorrect == Spec => []TypeOK
BY IndexInvariant, PTL DEF IndexInv

\* Success of `leonard index` means what it says: whatever hooks, edits and
\* failures happen meanwhile, every file they left alone is settled.
THEOREM SuccessMeansFresh == Spec => []FreshAfterIndexAll
BY IndexInvariant, PTL DEF IndexInv

\* Only commits and sweeps write rows, and a commit writes hash and symbols
\* of one parse: the two always match.
THEOREM HashesMatchSymbols == Spec => []HashMatchesSymbols
<1>1. Init => HashMatchesSymbols
  BY DEF Init, HashMatchesSymbols
<1>2. HashMatchesSymbols /\ [Next]_vars => HashMatchesSymbols'
  <2> SUFFICES ASSUME HashMatchesSymbols, [Next]_vars PROVE HashMatchesSymbols'
    OBVIOUS
  <2>1. CASE UNCHANGED index
    BY <2>1 DEF HashMatchesSymbols
  <2>2. ASSUME NEW t \in Tasks, Commit(t) PROVE HashMatchesSymbols'
    <3>1. PICK s \in ExtractOutcomes(task[t].data) :
            ReplaceFileSymbols(task[t].file, task[t].data, s)
      BY <2>2 DEF Commit
    <3> QED
      BY <3>1 DEF ReplaceFileSymbols, HashMatchesSymbols
  <2>3. CASE DeleteFiles
    BY <2>3 DEF DeleteFiles, HashMatchesSymbols
  <2> QED
    BY <2>1, <2>2, <2>3
    DEF Next, Edit, HookStep, HookStart, Lookup, StoreError, HookCrash, WorkerStep,
        WalkTo, StartIndexAll, SweepStep, WalkPast, StatRow, ListRows, GiveUp,
        WalkError, PruneError, IndexAllCrash, vars, Tasks
<1> QED
  BY <1>1, <1>2, PTL DEF Spec

\* The sweep takes the row of an untouched file only when the file is gone.
THEOREM SweepOnlyTakesTheDead == Spec => SweepSparesTheLiving
<1>1. ASSUME IndexInv, [Next]_vars, NEW f \in DOMAIN index \ DOMAIN index', f \notin touched
      PROVE  disk[f] = Gone
  <2>1. TypeOK /\ f \in Files
    BY <1>1 DEF IndexInv, TypeOK
  <2>2. DeleteFiles /\ f \in run.doomed
    BY <1>1, <2>1, RowStep
  <2> QED
    BY <1>1, <2>2 DEF IndexInv, SweepIsExact, DeleteFiles
<1>2. IndexInv /\ [Next]_vars =>
        [\A f \in DOMAIN index \ DOMAIN index' : f \in touched \/ disk[f] = Gone]_vars
  BY <1>1
<1> QED
  BY <1>2, IndexInvariant, PTL DEF Spec, SweepSparesTheLiving

=============================================================================
