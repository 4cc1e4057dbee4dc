----------------------------- MODULE TruthTree -----------------------------
(***************************************************************************)
(* The files of the ground-truth directory and the processes that read and *)
(* write them: a long-lived leonard-mcp, whose ground-truth adapter parses *)
(* them once and then polls their modification times; `leonard sync`,      *)
(* which has plugins rewrite facts.yaml; `leonard init`, which scaffolds   *)
(* what is missing; and the operator's editor (external).                  *)
(*                                                                         *)
(* Every write of a file gets a generation of its own, which is also its   *)
(* modification time: the clock of the file system is taken to be finer    *)
(* than the writes.  What a file says is the set of the generations whose  *)
(* edits it still contains.                                                *)
(***************************************************************************)
EXTENDS Naturals

CONSTANTS
  NFiles,     \* watched files, numbered in the order they are parsed
  Syncs,      \* `leonard sync` processes
  NPlugins,   \* plugins each of them runs, one after the other
  MaxWrites,  \* bound: writes of a watched file
  MaxStarts   \* bound: starts of the server

ASSUME TruthTreeAssumption ==
  /\ NFiles \in Nat \ {0}
  /\ NPlugins \in Nat
  /\ MaxWrites \in Nat
  /\ MaxStarts \in Nat

VARIABLES
  disk,      \* the watched files
  clock,     \* generations given out so far
  auditOK,   \* audit-log.md is absent or can be opened
  editor,    \* the operator's save in progress
  srv,       \* the adapter inside leonard-mcp
  starts,    \* starts of the server so far
  sync,      \* the `leonard sync` processes
  scaffold,  \* the file `leonard init` found missing, 0 for none
  missed,    \* history: files written between their first parse and the seed
  kept,      \* history: edits of facts.yaml nobody deleted
  raced      \* history: those of them that overlapped a sync or a scaffold

vars == <<disk, clock, auditOK, editor, srv, starts, sync, scaffold,
          missed, kept, raced>>

-----------------------------------------------------------------------------
Files == 1 .. NFiles      \* watchedFiles, in the order Init parses them
Facts == 1                \* facts.yaml

\* "empty": created or truncated, not yet written; "bad": does not parse
File == [form : {"missing", "empty", "ok", "bad"}, gen : Nat, has : SUBSET Nat]

Server == [pc : {"off", "load", "publish", "seed", "wait", "stat", "parse",
                 "swap"},
           k : Files,                   \* next file of the pass
           stop : BOOLEAN,              \* Close was called
           view : [Files -> Nat],       \* what the hooks and tools are served
           next : [Files -> Nat],       \* parsed, not yet published
           last : [Files -> Nat],       \* times of the last good pass
           current : [Files -> Nat]]    \* times of this pass

Sync == [pc : {"next", "run", "done"},
         left : 0 .. NPlugins,          \* plugins still to run
         has : SUBSET Nat]              \* facts.yaml as read for this plugin

\* live: the descriptor still is the file of that name
Editor == [file : Files \cup {0}, has : SUBSET Nat, live : BOOLEAN,
           overlap : BOOLEAN]

None == [f \in Files |-> 0]
Off == [pc |-> "off", k |-> 1, stop |-> FALSE, view |-> None, next |-> None,
        last |-> None, current |-> None]
NoSave == [file |-> 0, has |-> {}, live |-> TRUE, overlap |-> FALSE]

TypeOK ==
  /\ disk \in [Files -> File]
  /\ clock \in Nat
  /\ auditOK \in BOOLEAN
  /\ editor \in Editor
  /\ srv \in Server
  /\ starts \in Nat
  /\ sync \in [Syncs -> Sync]
  /\ scaffold \in Files \cup {0}
  /\ missed \subseteq Files
  /\ kept \subseteq Nat
  /\ raced \subseteq Nat

Init ==
  /\ disk = [f \in Files |-> [form |-> "missing", gen |-> 0, has |-> {}]]
  /\ clock = 0
  /\ auditOK = TRUE
  /\ editor = NoSave
  /\ srv = Off
  /\ starts = 0
  /\ sync = [s \in Syncs |-> [pc |-> "next", left |-> NPlugins, has |-> {}]]
  /\ scaffold = 0
  /\ missed = {}
  /\ kept = {}
  /\ raced = {}

-----------------------------------------------------------------------------
(* Files                                                                   *)

\* A file that does not exist has the zero time.
Mtime(f) == IF disk[f].form = "missing" THEN 0 ELSE disk[f].gen

\* What the loaders return: missing and empty files parse as empty.
Parsed(f) == IF disk[f].form = "ok" THEN disk[f].gen ELSE 0

\* f is written between Init's parse of it and the seeding of its time.
Unseen(f) ==
  \/ srv.pc = "load" /\ f < srv.k
  \/ srv.pc = "publish"
  \/ srv.pc = "seed" /\ srv.k <= f

Put(f, form, has) ==
  /\ clock < MaxWrites
  /\ clock' = clock + 1
  /\ disk' = [disk EXCEPT ![f] = [form |-> form, gen |-> clock + 1, has |-> has]]
  /\ missed' = IF Unseen(f) THEN missed \cup {f} ELSE missed

\* Somebody has read facts.yaml, or found it missing, and will replace it.
Replacing(S) == (\E s \in S : sync[s].pc = "run") \/ scaffold = Facts

-----------------------------------------------------------------------------
(* The operator's editor: opens with O_TRUNC, then writes                  *)

Truncate(f) ==
  /\ editor.file = 0
  /\ Put(f, "empty", {})
  /\ editor' = [file |-> f, has |-> disk[f].has, live |-> TRUE,
                overlap |-> Replacing(Syncs)]
  /\ UNCHANGED <<auditOK, srv, starts, sync, scaffold, kept, raced>>

\* The save adds one edit to what the editor had opened.  If the file was
\* replaced by a rename meanwhile, the text goes to the unlinked one.
Save ==
  /\ editor.file # 0
  /\ \E form \in {"ok", "bad"} :
       IF editor.live
       THEN Put(editor.file, form, editor.has \cup {clock + 1})
       ELSE /\ clock' = clock + 1
            /\ UNCHANGED <<disk, missed>>
  /\ editor.file = Facts => kept' = kept \cup {clock + 1}
  /\ editor.file # Facts => kept' = kept
  /\ raced' = IF editor.overlap THEN raced \cup {clock + 1} ELSE raced
  /\ editor' = NoSave
  /\ UNCHANGED <<auditOK, srv, starts, sync, scaffold>>

Delete(f) ==
  /\ editor.file = 0
  /\ disk[f].form # "missing"
  /\ Put(f, "missing", {})
  /\ kept' = IF f = Facts THEN kept \ disk[f].has ELSE kept
  /\ UNCHANGED <<auditOK, editor, srv, starts, sync, scaffold, raced>>

ChangeAudit ==
  /\ auditOK' = ~auditOK
  /\ UNCHANGED <<disk, clock, editor, srv, starts, sync, scaffold, missed, kept,
                 raced>>

-----------------------------------------------------------------------------
(* The adapter: Init                                                       *)

StartServer ==
  /\ srv.pc = "off"
  /\ starts < MaxStarts
  /\ starts' = starts + 1
  /\ srv' = [Off EXCEPT !.pc = "load"]
  /\ missed' = {}
  /\ UNCHANGED <<disk, clock, auditOK, editor, sync, scaffold, kept, raced>>

ServerOnly ==
  UNCHANGED <<disk, clock, auditOK, editor, starts, sync, scaffold, kept, raced>>

\* One file after another; a file that does not parse loads as empty.
Load ==
  /\ srv.pc = "load"
  /\ srv' = [srv EXCEPT !.next[srv.k] = Parsed(srv.k),
                        !.pc = IF srv.k = NFiles THEN "publish" ELSE "load",
                        !.k = IF srv.k = NFiles THEN 1 ELSE srv.k + 1]
  /\ missed' = missed /\ ServerOnly

\* An unreadable audit log makes Init fail: the adapter is not there.
Publish ==
  /\ srv.pc = "publish"
  /\ srv' = IF auditOK
            THEN [srv EXCEPT !.pc = "seed", !.view = srv.next, !.next = None]
            ELSE Off
  /\ missed' = missed /\ ServerOnly

\* startWatch stats the files for the first time, after they were parsed.
Seed ==
  /\ srv.pc = "seed"
  /\ srv' = [srv EXCEPT !.last[srv.k] = Mtime(srv.k),
                        !.pc = IF srv.k = NFiles THEN "wait" ELSE "seed",
                        !.k = IF srv.k = NFiles THEN 1 ELSE srv.k + 1]
  /\ missed' = missed /\ ServerOnly

-----------------------------------------------------------------------------
(* The adapter: the watch                                                  *)

\* A tick.  With stop closed select may still choose the ticker.
Tick ==
  /\ srv.pc = "wait"
  /\ srv' = [srv EXCEPT !.pc = "stat"]
  /\ missed' = missed /\ ServerOnly

\* snapshotMtimes, then the comparison with the last good pass
Stat ==
  /\ srv.pc = "stat"
  /\ LET seen == [srv.current EXCEPT ![srv.k] = Mtime(srv.k)]
     IN srv' = IF srv.k < NFiles
               THEN [srv EXCEPT !.current = seen, !.k = srv.k + 1]
               ELSE IF seen = srv.last
               THEN [srv EXCEPT !.current = None, !.pc = "wait", !.k = 1]
               ELSE [srv EXCEPT !.current = seen, !.pc = "parse", !.k = 1]
  /\ missed' = missed /\ ServerOnly

\* A pass that fails leaves the view and the times as they were.
GiveUp == [srv EXCEPT !.pc = "wait", !.k = 1, !.next = None, !.current = None]

\* Mutant: a file that does not parse is tried again at once.
ParseAgain ==
  /\ srv.pc = "parse"
  /\ srv' = IF disk[srv.k].form = "bad"
            THEN [srv EXCEPT !.k = 1]
            ELSE [srv EXCEPT !.next[srv.k] = Parsed(srv.k),
                             !.pc = IF srv.k = NFiles THEN "swap" ELSE "parse",
                             !.k = IF srv.k = NFiles THEN 1 ELSE srv.k + 1]
  /\ missed' = missed /\ ServerOnly

\* ReloadOnce: the same four parses, but the first that fails ends it.
Parse ==
  /\ srv.pc = "parse"
  /\ srv' = IF disk[srv.k].form = "bad"
            THEN GiveUp
            ELSE [srv EXCEPT !.next[srv.k] = Parsed(srv.k),
                             !.pc = IF srv.k = NFiles THEN "swap" ELSE "parse",
                             !.k = IF srv.k = NFiles THEN 1 ELSE srv.k + 1]
  /\ missed' = missed /\ ServerOnly

\* Mutant: the times are taken again after the parse.
SwapResampled ==
  /\ srv.pc = "swap"
  /\ IF auditOK
     THEN /\ srv' = [GiveUp EXCEPT !.view = srv.next,
                                   !.last = [f \in Files |-> Mtime(f)]]
          /\ missed' = {}
     ELSE srv' = GiveUp /\ missed' = missed
  /\ ServerOnly

\* Mutant: a failed pass is not tried again.
SwapOnce ==
  /\ srv.pc = "swap"
  /\ srv' = [GiveUp EXCEPT !.view = IF auditOK THEN srv.next ELSE srv.view,
                           !.last = srv.current]
  /\ missed' = IF auditOK THEN {} ELSE missed
  /\ ServerOnly

Swap ==
  /\ srv.pc = "swap"
  /\ IF auditOK
     THEN /\ srv' = [GiveUp EXCEPT !.view = srv.next, !.last = srv.current]
          /\ missed' = {}
     ELSE srv' = GiveUp /\ missed' = missed
  /\ ServerOnly

\* Close signals the watch, which ends when it is back in its select.
Close ==
  /\ srv.pc \in {"wait", "stat", "parse", "swap"}
  /\ ~srv.stop
  /\ srv' = [srv EXCEPT !.stop = TRUE]
  /\ missed' = missed /\ ServerOnly

WatchEnds ==
  /\ srv.pc = "wait"
  /\ srv.stop
  /\ srv' = Off
  /\ missed' = missed /\ ServerOnly

-----------------------------------------------------------------------------
(* leonard sync                                                            *)

Finish(s, has) ==
  [pc |-> IF sync[s].left = 1 THEN "done" ELSE "next",
   left |-> sync[s].left - 1, has |-> has]

\* The plugin is not trusted, or facts.yaml does not parse: the next one.
SkipPlugin(s) ==
  /\ sync[s].pc = "next" /\ sync[s].left > 0
  /\ sync' = [sync EXCEPT ![s] = Finish(s, {})]
  /\ UNCHANGED <<disk, clock, auditOK, editor, srv, starts, scaffold, missed,
                 kept, raced>>

\* Mutant: facts.yaml is read once, before the first plugin runs.
ReadFactsOnce(s) ==
  /\ sync[s].pc = "next" /\ sync[s].left > 0
  /\ disk[Facts].form # "bad"
  /\ sync' = [sync EXCEPT ![s].pc = "run",
                          ![s].has = IF sync[s].left = NPlugins
                                     THEN disk[Facts].has ELSE sync[s].has]
  /\ editor' = [editor EXCEPT !.overlap = (editor.file # 0)]
  /\ raced' = IF editor.file = Facts THEN raced \cup editor.has ELSE raced
  /\ UNCHANGED <<disk, clock, auditOK, srv, starts, scaffold, missed, kept>>

\* facts.yaml is read anew for each plugin.
ReadFacts(s) ==
  /\ sync[s].pc = "next" /\ sync[s].left > 0
  /\ disk[Facts].form # "bad"
  /\ sync' = [sync EXCEPT ![s].pc = "run", ![s].has = disk[Facts].has]
  /\ editor' = [editor EXCEPT !.overlap = (editor.file # 0)]
  /\ raced' = IF editor.file = Facts THEN raced \cup editor.has ELSE raced
  /\ UNCHANGED <<disk, clock, auditOK, srv, starts, scaffold, missed, kept>>

\* It fails, times out, has no changes, or --dry-run was given; or the
\* temporary file cannot be written.
PluginWritesNothing(s) ==
  /\ sync[s].pc = "run"
  /\ sync' = [sync EXCEPT ![s] = Finish(s, sync[s].has)]
  /\ UNCHANGED <<disk, clock, auditOK, editor, srv, starts, scaffold, missed,
                 kept, raced>>

\* The facts the plugin returned replace the file by a rename.
ReplaceFacts(s) ==
  /\ sync[s].pc = "run"
  /\ Put(Facts, "ok", sync[s].has \cup {clock + 1})
  /\ kept' = kept \cup {clock + 1}
  /\ raced' = IF Replacing(Syncs \ {s}) \/ editor.file = Facts
              THEN raced \cup {clock + 1} ELSE raced
  /\ editor' = IF editor.file = Facts THEN [editor EXCEPT !.live = FALSE]
               ELSE editor
  /\ sync' = [sync EXCEPT ![s] = Finish(s, sync[s].has)]
  /\ UNCHANGED <<auditOK, srv, starts, scaffold>>

SyncDies(s) ==
  /\ sync[s].pc # "done"
  /\ sync' = [sync EXCEPT ![s] = [pc |-> "done", left |-> 0, has |-> {}]]
  /\ UNCHANGED <<disk, clock, auditOK, editor, srv, starts, scaffold, missed,
                 kept, raced>>

-----------------------------------------------------------------------------
(* leonard init --adapter=ground-truth                                     *)

FindMissing(f) ==
  /\ scaffold = 0
  /\ disk[f].form = "missing"
  /\ scaffold' = f
  /\ UNCHANGED <<disk, clock, auditOK, editor, srv, starts, sync, missed, kept,
                 raced>>

\* The template; its text is nobody's edit.  os.WriteFile truncates and writes,
\* here at once: what comes between the two also comes after the stat.
WriteTemplate ==
  /\ scaffold # 0
  /\ Put(scaffold, "ok", {})
  /\ scaffold' = 0
  /\ UNCHANGED <<auditOK, editor, srv, starts, sync, kept, raced>>

-----------------------------------------------------------------------------
ServerStep == Load \/ Publish \/ Seed \/ Tick \/ Stat \/ Parse \/ Swap

Next ==
  \/ \E f \in Files : Truncate(f) \/ Delete(f) \/ FindMissing(f)
  \/ Save \/ ChangeAudit \/ WriteTemplate
  \/ StartServer \/ ServerStep \/ Close \/ WatchEnds
  \/ \E s \in Syncs : \/ SkipPlugin(s) \/ ReadFacts(s)
                      \/ PluginWritesNothing(s) \/ ReplaceFacts(s) \/ SyncDies(s)

Spec == Init /\ [][Next]_vars

\* The watch is a goroutine with a ticker; select chooses among what is ready
\* at random, so a closed stop channel is taken in the end.  Nothing is
\* assumed of the operator and of the commands.
WatchedSpec == Spec /\ WF_vars(ServerStep) /\ SF_vars(WatchEnds)

-----------------------------------------------------------------------------
\* Whenever the watch is content, because no time differs from its last good
\* pass, what it serves of a file that exists is what is on disk, save for the
\* files that were written between their first parse and the first stat:
\* watchLoop compares with times taken before the parse, so a save that
\* overlaps a reload is noticed on the next tick.  Of a file that does not
\* exist it may serve the old text: created after a pass took its time and
\* deleted before the next one, it has the zero time both times.
ContentMeansCurrent ==
  (srv.pc = "wait" /\ \A f \in Files : srv.last[f] = Mtime(f))
    => \A f \in Files \ missed :
         disk[f].form # "missing" => srv.view[f] = Parsed(f)

\* No edit of facts.yaml gets lost, by the operator or by a plugin that ran
\* before, unless its save overlapped the time between a sync's read and its
\* rename, or between a scaffold's stat and its write.
EditsSurvive ==
  kept \subseteq disk[Facts].has \cup raced
                 \cup (IF editor.file = Facts THEN editor.has ELSE {})

Readable == auditOK /\ \A f \in Files : disk[f].form \notin {"bad", "missing"}
Watching == srv.pc # "off" /\ ~srv.stop

\* When the files stay readable a server that keeps running serves them in the
\* end, after any sequence of failed passes, save for the missed ones.
CatchesUp ==
  <>[](Watching /\ Readable /\ missed = {})
    => <>[](\A f \in Files : srv.view[f] = Parsed(f))

\* Close waits for the watch to end, and it does end, also in the middle of a
\* pass over files that do not parse.
CloseEnds == srv.stop ~> srv.pc = "off"
=============================================================================
