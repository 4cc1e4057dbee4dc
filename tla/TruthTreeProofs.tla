-------------------------- MODULE TruthTreeProofs --------------------------
(***************************************************************************)
(* Proofs about TruthTree, for any number of files, syncs and plugins and  *)
(* any bounds, about what is read in those files, for any items, globs and *)
(* filters (ContentChecks), and about the code adapter's answer to an edit *)
(* (EditChecks), which rests on the same lemmas on sequences.              *)
(*                                                                         *)
(* The argument for ContentMeansCurrent pairs what was parsed of a file    *)
(* with the time that was taken before it: as every write has a time of    *)
(* its own, as long as the file has that time the parse is what it says.   *)
(* The argument for EditsSurvive follows facts.yaml through everybody who  *)
(* holds a text he will replace it with: that text has every edit but the  *)
(* raced ones.                                                             *)
(*                                                                         *)
(* A file is read line by line, so what is read of two parts of it is what *)
(* is read of the second after the first (ReadConcat).  Hence each item    *)
(* adds its own entry, whatever was read before, and TruthAlwaysRead is an *)
(* induction on the items.                                                 *)
(***************************************************************************)
EXTENDS TruthTree, ContentChecks, EditChecks,
        SequenceTheorems, FiniteSetTheorems, WellFoundedInduction, TLAPS

\* A plugin that runs was counted.
RunningIsLeft == \A s \in Syncs : sync[s].pc = "run" => sync[s].left > 0

-----------------------------------------------------------------------------
(* Types                                                                   *)

LEMMA ConstantTypes == Facts \in Files /\ Off \in Server /\ NoSave \in Editor
BY TruthTreeAssumption DEF Facts, Files, Off, Server, NoSave, Editor, None

LEMMA ParsedTypes ==
  ASSUME TypeOK, NEW f \in Files
  PROVE  Parsed(f) \in Nat /\ Mtime(f) \in Nat
BY DEF TypeOK, File, Parsed, Mtime

\* Writing a file keeps the tree well typed.
LEMMA PutTypes ==
  ASSUME TypeOK, NEW f \in Files, NEW form \in {"missing", "empty", "ok", "bad"},
         NEW has \in SUBSET Nat, Put(f, form, has)
  PROVE  disk' \in [Files -> File] /\ clock' \in Nat /\ missed' \subseteq Files
<1>1. [form |-> form, gen |-> clock + 1, has |-> has] \in File
  BY DEF TypeOK, File
<1> QED
  BY <1>1 DEF Put, TypeOK

\* The adapter's steps keep its record well typed.
LEMMA ServerTypes ==
  ASSUME TypeOK,
         StartServer \/ ServerStep \/ Close \/ WatchEnds
  PROVE  srv' \in Server
<1> USE TruthTreeAssumption, ConstantTypes
<1>1. srv \in Server /\ srv.k \in Files
  BY DEF TypeOK, Server
<1>2. Parsed(srv.k) \in Nat /\ Mtime(srv.k) \in Nat
  BY <1>1, ParsedTypes
<1>3. None \in [Files -> Nat]
  BY DEF None
<1>4. /\ 1 \in Files
      /\ srv.k # NFiles => srv.k + 1 \in Files
  BY <1>1 DEF Files
<1>5. /\ [srv.next EXCEPT ![srv.k] = Parsed(srv.k)] \in [Files -> Nat]
      /\ [srv.last EXCEPT ![srv.k] = Mtime(srv.k)] \in [Files -> Nat]
      /\ [srv.current EXCEPT ![srv.k] = Mtime(srv.k)] \in [Files -> Nat]
  BY <1>1, <1>2 DEF Server
<1>6. CASE StartServer
  BY <1>6 DEF StartServer, Server
<1>7. CASE Load
  BY <1>1, <1>4, <1>5, <1>7 DEF Load, Server
<1>8. CASE Publish
  BY <1>1, <1>3, <1>8 DEF Publish, Server
<1>9. CASE Seed
  BY <1>1, <1>4, <1>5, <1>9 DEF Seed, Server
<1>10. CASE Tick
  BY <1>1, <1>10 DEF Tick, Server
<1>11. CASE Stat
  <2> DEFINE seen == [srv.current EXCEPT ![srv.k] = Mtime(srv.k)]
  <2>1. seen \in [Files -> Nat]
    BY <1>5
  <2>2. srv.k < NFiles => srv.k # NFiles
    OBVIOUS
  <2> HIDE DEF seen
  <2>3. /\ srv.k < NFiles => [srv EXCEPT !.current = seen, !.k = srv.k + 1] \in Server
        /\ [srv EXCEPT !.current = None, !.pc = "wait", !.k = 1] \in Server
        /\ [srv EXCEPT !.current = seen, !.pc = "parse", !.k = 1] \in Server
    BY <1>1, <1>3, <1>4, <2>1, <2>2 DEF Server
  <2>4. srv' = IF srv.k < NFiles THEN [srv EXCEPT !.current = seen, !.k = srv.k + 1]
               ELSE IF seen = srv.last
               THEN [srv EXCEPT !.current = None, !.pc = "wait", !.k = 1]
               ELSE [srv EXCEPT !.current = seen, !.pc = "parse", !.k = 1]
    BY <1>11 DEF Stat, seen
  <2> QED
    BY <2>3, <2>4
<1>12. GiveUp \in Server
  BY <1>1, <1>3, <1>4 DEF GiveUp, Server
<1>13. CASE Parse
  BY <1>1, <1>4, <1>5, <1>12, <1>13 DEF Parse, Server
<1>14. CASE Swap
  BY <1>1, <1>12, <1>14 DEF Swap, Server
<1>15. CASE Close
  BY <1>1, <1>15 DEF Close, Server
<1>16. CASE WatchEnds
  BY <1>16 DEF WatchEnds
<1> QED
  BY <1>6, <1>7, <1>8, <1>9, <1>10, <1>11, <1>13, <1>14, <1>15, <1>16 DEF ServerStep

\* Starting, ending and killing a plugin keep the syncs well typed.
LEMMA SyncTypes ==
  ASSUME TypeOK, RunningIsLeft, NEW s \in Syncs,
         \/ SkipPlugin(s) \/ ReadFacts(s) \/ PluginWritesNothing(s)
         \/ ReplaceFacts(s) \/ SyncDies(s)
  PROVE  sync' \in [Syncs -> Sync] /\ RunningIsLeft'
<1> USE TruthTreeAssumption, ConstantTypes
<1>1. sync \in [Syncs -> Sync] /\ sync[s] \in Sync
  BY DEF TypeOK
<1>2. disk[Facts].has \in SUBSET Nat
  BY DEF TypeOK, File
<1>3. ASSUME NEW has \in SUBSET Nat, sync[s].left > 0
      PROVE  /\ Finish(s, has) \in Sync /\ Finish(s, has).pc # "run"
  BY <1>1, <1>3 DEF Finish, Sync
<1>4. CASE SkipPlugin(s)
  BY <1>1, <1>3, <1>4 DEF SkipPlugin, RunningIsLeft
<1>5. CASE ReadFacts(s)
  <2>1. [[sync[s] EXCEPT !.pc = "run"] EXCEPT !.has = disk[Facts].has] \in Sync
    BY <1>1, <1>2 DEF Sync
  <2>2. /\ sync' \in [Syncs -> Sync]
        /\ sync'[s].left = sync[s].left
        /\ \A t \in Syncs \ {s} : sync'[t] = sync[t]
    BY <1>1, <1>5, <2>1 DEF ReadFacts, Sync
  <2> QED
    BY <1>5, <2>2 DEF ReadFacts, RunningIsLeft
<1>6. ASSUME sync[s].pc = "run", sync' = [sync EXCEPT ![s] = Finish(s, sync[s].has)]
      PROVE  sync' \in [Syncs -> Sync] /\ RunningIsLeft'
  <2>1. sync[s].has \in SUBSET Nat
    BY <1>1 DEF Sync
  <2> QED
    BY <1>1, <1>3, <1>6, <2>1 DEF RunningIsLeft
<1>7. CASE PluginWritesNothing(s)
  BY <1>6, <1>7 DEF PluginWritesNothing
<1>8. CASE ReplaceFacts(s)
  BY <1>6, <1>8 DEF ReplaceFacts
<1>9. CASE SyncDies(s)
  <2>1. [pc |-> "done", left |-> 0, has |-> {}] \in Sync
    BY DEF Sync
  <2> QED
    BY <1>1, <1>9, <2>1 DEF SyncDies, RunningIsLeft
<1> QED
  BY <1>4, <1>5, <1>7, <1>8, <1>9

\* TypeOK is inductive, given that a running plugin was counted.
LEMMA NextTypes ==
  TypeOK /\ RunningIsLeft /\ [Next]_vars => TypeOK' /\ RunningIsLeft'
<1> SUFFICES ASSUME TypeOK, RunningIsLeft, [Next]_vars
             PROVE  TypeOK' /\ RunningIsLeft'
  OBVIOUS
<1> USE TruthTreeAssumption, ConstantTypes
<1>1. /\ disk \in [Files -> File] /\ clock \in Nat /\ auditOK \in BOOLEAN
      /\ editor \in Editor /\ srv \in Server /\ starts \in Nat
      /\ sync \in [Syncs -> Sync] /\ scaffold \in Files \cup {0}
      /\ missed \subseteq Files /\ kept \subseteq Nat /\ raced \subseteq Nat
  BY DEF TypeOK
<1>2. \A f \in Files : disk[f].has \in SUBSET Nat
  BY <1>1 DEF File
<1>3. ASSUME UNCHANGED sync PROVE RunningIsLeft'
  BY <1>3 DEF RunningIsLeft
<1>4. ASSUME NEW f \in Files, Truncate(f) PROVE TypeOK'
  <2>1. disk' \in [Files -> File] /\ clock' \in Nat /\ missed' \subseteq Files
    BY <1>4, PutTypes DEF Truncate
  <2>2. editor' \in Editor
    BY <1>2, <1>4 DEF Truncate, Editor, Replacing
  <2> QED
    BY <1>1, <1>4, <2>1, <2>2 DEF Truncate, TypeOK
<1>5. ASSUME Save PROVE TypeOK'
  <2>1. editor.has \cup {clock + 1} \in SUBSET Nat /\ clock + 1 \in Nat
    BY <1>1 DEF Editor
  <2>2. disk' \in [Files -> File] /\ clock' \in Nat /\ missed' \subseteq Files
    <3>1. CASE editor.live
      <4>1. editor.file \in Files
        BY <1>1, <1>5 DEF Save, Editor
      <4>2. PICK form \in {"ok", "bad"} : Put(editor.file, form, editor.has \cup {clock + 1})
        BY <1>5, <3>1 DEF Save
      <4> QED
        BY <2>1, <4>1, <4>2, PutTypes
    <3>2. CASE ~editor.live
      BY <1>1, <1>5, <2>1, <3>2 DEF Save
    <3> QED
      BY <3>1, <3>2
  <2>3. kept' \subseteq Nat /\ raced' \subseteq Nat /\ editor' \in Editor
    BY <1>1, <1>5, <2>1 DEF Save
  <2> QED
    BY <1>1, <1>5, <2>2, <2>3 DEF Save, TypeOK
<1>6. ASSUME NEW f \in Files, Delete(f) PROVE TypeOK'
  <2>1. disk' \in [Files -> File] /\ clock' \in Nat /\ missed' \subseteq Files
    BY <1>6, PutTypes DEF Delete
  <2> QED
    BY <1>1, <1>6, <2>1 DEF Delete, TypeOK
<1>7. ASSUME ChangeAudit PROVE TypeOK'
  BY <1>1, <1>7 DEF ChangeAudit, TypeOK
<1>8. CASE StartServer \/ ServerStep \/ Close \/ WatchEnds
  <2>1. srv' \in Server
    BY <1>8, ServerTypes
  <2>2. UNCHANGED <<disk, clock, auditOK, editor, sync, scaffold, kept, raced>>
    BY <1>8 DEF StartServer, ServerStep, Load, Publish, Seed, Tick, Stat, Parse, Swap,
                Close, WatchEnds, ServerOnly
  <2>3. missed' \subseteq Files /\ starts' \in Nat
    BY <1>1, <1>8 DEF StartServer, ServerStep, Load, Publish, Seed, Tick, Stat, Parse,
                      Swap, Close, WatchEnds, ServerOnly
  <2> QED
    BY <1>1, <1>3, <2>1, <2>2, <2>3 DEF TypeOK
<1>9. ASSUME NEW s \in Syncs,
             \/ SkipPlugin(s) \/ ReadFacts(s) \/ PluginWritesNothing(s) \/ SyncDies(s)
      PROVE  TypeOK' /\ RunningIsLeft'
  <2>1. sync' \in [Syncs -> Sync] /\ RunningIsLeft'
    BY <1>9, SyncTypes
  <2>2. editor' \in Editor /\ raced' \subseteq Nat
    BY <1>1, <1>9 DEF SkipPlugin, ReadFacts, PluginWritesNothing, SyncDies, Editor
  <2> QED
    BY <1>1, <1>9, <2>1, <2>2 DEF SkipPlugin, ReadFacts, PluginWritesNothing, SyncDies, TypeOK
<1>10. ASSUME NEW s \in Syncs, ReplaceFacts(s) PROVE TypeOK' /\ RunningIsLeft'
  <2>1. sync' \in [Syncs -> Sync] /\ RunningIsLeft'
    BY <1>10, SyncTypes
  <2>2. sync[s].has \cup {clock + 1} \in SUBSET Nat /\ clock + 1 \in Nat
    BY <1>1 DEF Sync
  <2>3. disk' \in [Files -> File] /\ clock' \in Nat /\ missed' \subseteq Files
    BY <1>10, <2>2, PutTypes DEF ReplaceFacts
  <2>4. editor' \in Editor /\ raced' \subseteq Nat /\ kept' \subseteq Nat
    BY <1>1, <1>10, <2>2 DEF ReplaceFacts, Editor
  <2> QED
    BY <1>1, <1>10, <2>1, <2>3, <2>4 DEF ReplaceFacts, TypeOK
<1>11. ASSUME NEW f \in Files, FindMissing(f) PROVE TypeOK'
  BY <1>1, <1>11 DEF FindMissing, TypeOK
<1>12. ASSUME WriteTemplate PROVE TypeOK'
  <2>1. scaffold \in Files
    BY <1>1, <1>12 DEF WriteTemplate
  <2>2. disk' \in [Files -> File] /\ clock' \in Nat /\ missed' \subseteq Files
    BY <1>12, <2>1, PutTypes DEF WriteTemplate
  <2> QED
    BY <1>1, <1>12, <2>2 DEF WriteTemplate, TypeOK
<1>13. CASE UNCHANGED vars
  BY <1>1, <1>3, <1>13 DEF vars, TypeOK
<1>14. ASSUME \/ \E f \in Files : Truncate(f) \/ Delete(f) \/ FindMissing(f)
              \/ Save \/ ChangeAudit \/ WriteTemplate
              \/ StartServer \/ ServerStep \/ Close \/ WatchEnds
       PROVE  TypeOK' /\ RunningIsLeft'
  <2>1. UNCHANGED sync
    BY <1>14 DEF Truncate, Delete, FindMissing, Save, ChangeAudit, WriteTemplate, StartServer,
                 ServerStep, Load, Publish, Seed, Tick, Stat, Parse, Swap, Close, WatchEnds,
                 ServerOnly
  <2> QED
    BY <1>3, <1>4, <1>5, <1>6, <1>7, <1>8, <1>11, <1>12, <1>14, <2>1
<1> QED
  BY <1>9, <1>10, <1>13, <1>14 DEF Next

\* The files, the adapter and the commands are well typed in every reachable
\* state, whoever writes when.
THEOREM TruthTypeCorrect == Spec => []TypeOK
<1>1. Init => TypeOK /\ RunningIsLeft
  BY TruthTreeAssumption, ConstantTypes
     DEF Init, TypeOK, RunningIsLeft, File, Sync
<1>2. TypeOK /\ RunningIsLeft /\ [Next]_vars => TypeOK' /\ RunningIsLeft'
  BY NextTypes
<1> QED
  BY <1>1, <1>2, PTL DEF Spec

-----------------------------------------------------------------------------
(* What is served                                                          *)

There(f) == disk[f].form # "missing"

\* What is served of f goes with the time of the last good pass, and what
\* this pass parsed of f with the time it took before.
Served(f) == There(f) /\ srv.last[f] = Mtime(f) => srv.view[f] = Parsed(f)
Fresh(f) == There(f) /\ srv.current[f] = Mtime(f) => srv.next[f] = Parsed(f)

\* No time is ahead of the clock, and only a missing file has the zero time.
TimesArePast ==
  \A f \in Files :
    /\ disk[f].gen <= clock
    /\ srv.last[f] <= clock
    /\ srv.current[f] <= clock

\* What the phases of Init and of a pass have established of each file.
Loaded ==
  /\ srv.pc = "load" => \A f \in Files \ missed : f < srv.k => srv.next[f] = Parsed(f)
  /\ srv.pc = "publish" => \A f \in Files \ missed : srv.next[f] = Parsed(f)
Seeded ==
  srv.pc = "seed" => \A f \in Files \ missed :
    IF f < srv.k THEN Served(f) ELSE srv.view[f] = Parsed(f)
Watched ==
  srv.pc \in {"wait", "stat", "parse", "swap"} => \A f \in Files \ missed : Served(f)
Reparsed ==
  /\ srv.pc = "parse" => \A f \in Files : f < srv.k => Fresh(f)
  /\ srv.pc = "swap" => \A f \in Files : Fresh(f)

ViewInv == TimesArePast /\ Loaded /\ Seeded /\ Watched /\ Reparsed

\* The types the steps below need.
LEMMA StateTypes ==
  ASSUME TypeOK
  PROVE  /\ disk \in [Files -> File] /\ clock \in Nat /\ missed \subseteq Files
         /\ \A f \in Files : f \in Nat /\ disk[f].gen \in Nat
         /\ srv.k \in Files /\ srv.k \in Nat
         /\ /\ srv.view \in [Files -> Nat] /\ srv.next \in [Files -> Nat]
            /\ srv.last \in [Files -> Nat] /\ srv.current \in [Files -> Nat]
<1>1. disk \in [Files -> File] /\ clock \in Nat /\ srv \in Server /\ missed \subseteq Files
  BY DEF TypeOK
<1>2. \A f \in Files : f \in Nat
  BY DEF Files
<1>3. \A f \in Files : disk[f].gen \in Nat
  BY <1>1 DEF File
<1> QED
  BY <1>1, <1>2, <1>3 DEF Server

\* A write of f moves its time past all that were taken, and of a file that
\* is between its parse and its first stat it is remembered.
LEMMA PutView ==
  ASSUME TypeOK, ViewInv, UNCHANGED srv,
         NEW f \in Files, NEW form, NEW has, Put(f, form, has)
  PROVE  ViewInv'
<1>1. /\ disk \in [Files -> File] /\ clock \in Nat
      /\ \A g \in Files : /\ srv.last[g] \in Nat /\ srv.current[g] \in Nat
                         /\ g \in Nat /\ disk[g].gen \in Nat
      /\ srv.k \in Files /\ srv.k \in Nat
  BY StateTypes
<1>2. /\ clock' = clock + 1
      /\ disk'[f].gen = clock + 1 /\ disk'[f].form = form
      /\ \A g \in Files \ {f} : disk'[g] = disk[g]
      /\ missed' = IF Unseen(f) THEN missed \cup {f} ELSE missed
  <2>1. disk' = [disk EXCEPT ![f] = [form |-> form, gen |-> clock + 1, has |-> has]]
    BY DEF Put
  <2>2. disk'[f] = [form |-> form, gen |-> clock + 1, has |-> has]
    BY <1>1, <2>1
  <2> QED
    BY <1>1, <2>1, <2>2 DEF Put
<1>3. \A g \in Files \ {f} :
        /\ Parsed(g)' = Parsed(g)
        /\ Served(g) => Served(g)'
        /\ Fresh(g) => Fresh(g)'
  BY <1>2 DEF Parsed, Served, Fresh, There, Mtime
<1>4. Served(f)' /\ Fresh(f)'
  <2>1. There(f)' => Mtime(f)' = clock + 1
    BY <1>2 DEF There, Mtime
  <2>2. srv'.last[f] <= clock /\ srv'.current[f] <= clock
    BY DEF ViewInv, TimesArePast
  <2> QED
    BY <1>1, <2>1, <2>2 DEF Served, Fresh
<1>5. TimesArePast'
  BY <1>1, <1>2 DEF ViewInv, TimesArePast
<1>6. Loaded'
  BY <1>2, <1>3 DEF ViewInv, Loaded, Unseen
<1>7. Seeded'
  <2>1. ASSUME srv.pc = "seed", NEW g \in Files \ missed'
        PROVE  IF g < srv.k THEN Served(g)' ELSE (srv.view[g] = Parsed(g)')
    <3>1. CASE g = f
      <4>1. ~Unseen(f)
        BY <1>2, <2>1, <3>1
      <4>2. f < srv.k
        BY <1>1, <2>1, <4>1 DEF Unseen
      <4> QED
        BY <1>4, <3>1, <4>2
    <3>2. CASE g # f
      BY <1>2, <1>3, <2>1, <3>2 DEF ViewInv, Seeded
    <3> QED
      BY <3>1, <3>2
  <2> QED
    BY <2>1 DEF Seeded
<1>8. Watched'
  BY <1>2, <1>3, <1>4 DEF ViewInv, Watched
<1>9. Reparsed'
  BY <1>3, <1>4 DEF ViewInv, Reparsed
<1> QED
  BY <1>5, <1>6, <1>7, <1>8, <1>9 DEF ViewInv

\* The adapter's own steps, during which no file changes.
LEMMA ServerView ==
  ASSUME TypeOK, ViewInv, UNCHANGED <<disk, clock>>,
         StartServer \/ ServerStep \/ Close \/ WatchEnds
  PROVE  ViewInv'
<1> USE TruthTreeAssumption
<1>1. /\ clock \in Nat /\ srv.k \in Files /\ srv.k \in Nat
      /\ \A f \in Files : f \in Nat /\ disk[f].gen \in Nat
      /\ srv.view \in [Files -> Nat] /\ srv.next \in [Files -> Nat]
      /\ srv.last \in [Files -> Nat] /\ srv.current \in [Files -> Nat]
  BY StateTypes
<1>2. srv \in Server
  BY DEF TypeOK
<1>3. /\ \A f \in Files : Parsed(f)' = Parsed(f) /\ Mtime(f)' = Mtime(f)
      /\ \A f \in Files : There(f)' = There(f)
  BY DEF Parsed, Mtime, There
<1>4. /\ \A f \in Files : Mtime(f) <= clock
      /\ None \in [Files -> Nat] /\ \A f \in Files : None[f] <= clock
  BY <1>1 DEF ViewInv, TimesArePast, Mtime, None
<1>5. \A f \in Files : f < srv.k \/ f = srv.k \/ f > srv.k
  BY <1>1
<1>6. srv.k = NFiles => \A f \in Files : f < srv.k \/ f = srv.k
  BY <1>1 DEF Files
<1>7. \A f \in Files : f < srv.k + 1 => f < srv.k \/ f = srv.k
  <2>1. \A n, k \in Nat : n < k + 1 => n < k \/ n = k
    OBVIOUS
  <2> QED
    BY <1>1, <2>1
<1>8. \A f \in Files : ~ (f < 1)
  BY DEF Files
<1>9. CASE StartServer
  <2>1. srv' = [Off EXCEPT !.pc = "load"] /\ missed' = {}
    BY <1>9 DEF StartServer
  <2>2. srv'.pc = "load" /\ srv'.k = 1 /\ srv'.last = None /\ srv'.current = None
    BY <2>1 DEF Off
  <2> QED
    BY <1>4, <1>8, <2>2
       DEF ViewInv, TimesArePast, Loaded, Seeded, Watched, Reparsed
<1>10. CASE Load
  <2>1. /\ srv.pc = "load" /\ missed' = missed
        /\ srv' = [srv EXCEPT !.next[srv.k] = Parsed(srv.k),
                              !.pc = IF srv.k = NFiles THEN "publish" ELSE "load",
                              !.k = IF srv.k = NFiles THEN 1 ELSE srv.k + 1]
    BY <1>10 DEF Load
  <2>2. /\ srv'.pc = IF srv.k = NFiles THEN "publish" ELSE "load"
        /\ srv'.k = IF srv.k = NFiles THEN 1 ELSE srv.k + 1
        /\ srv'.next = [srv.next EXCEPT ![srv.k] = Parsed(srv.k)]
        /\ srv'.last = srv.last /\ srv'.current = srv.current
    BY <1>2, <2>1 DEF Server
  <2>3. \A f \in Files \ missed : f < srv.k \/ f = srv.k => srv'.next[f] = Parsed(f)
    BY <1>1, <2>1, <2>2 DEF ViewInv, Loaded
  <2>4. TimesArePast'
    BY <2>2 DEF ViewInv, TimesArePast
  <2>5. Loaded'
    BY <1>3, <1>6, <1>7, <2>1, <2>2, <2>3 DEF Loaded
  <2> QED
    BY <2>2, <2>4, <2>5 DEF ViewInv, Seeded, Watched, Reparsed
<1>11. CASE Publish
  <2>1. srv.pc = "publish" /\ missed' = missed
    BY <1>11 DEF Publish
  <2>2. CASE auditOK
    <3>1. /\ srv'.pc = "seed" /\ srv'.k = srv.k /\ srv'.view = srv.next
          /\ srv'.last = srv.last /\ srv'.current = srv.current
      BY <1>2, <1>11, <2>2 DEF Publish, Server
    <3>2. \A f \in Files \ missed : srv.next[f] = Parsed(f)
      BY <2>1 DEF ViewInv, Loaded
    <3>3. Seeded'
      BY <1>3, <2>1, <3>1, <3>2 DEF Seeded, Served
    <3> QED
      BY <3>1, <3>3 DEF ViewInv, TimesArePast, Loaded, Watched, Reparsed
  <2>3. CASE ~auditOK
    <3>1. srv'.pc = "off" /\ srv'.last = None /\ srv'.current = None
      BY <1>11, <2>3 DEF Publish, Off
    <3> QED
      BY <1>4, <3>1 DEF ViewInv, TimesArePast, Loaded, Seeded, Watched, Reparsed
  <2> QED
    BY <2>2, <2>3
<1>12. CASE Seed
  <2>1. /\ srv.pc = "seed" /\ missed' = missed
        /\ srv' = [srv EXCEPT !.last[srv.k] = Mtime(srv.k),
                              !.pc = IF srv.k = NFiles THEN "wait" ELSE "seed",
                              !.k = IF srv.k = NFiles THEN 1 ELSE srv.k + 1]
    BY <1>12 DEF Seed
  <2>2. /\ srv'.pc = IF srv.k = NFiles THEN "wait" ELSE "seed"
        /\ srv'.k = IF srv.k = NFiles THEN 1 ELSE srv.k + 1
        /\ srv'.last = [srv.last EXCEPT ![srv.k] = Mtime(srv.k)]
        /\ srv'.view = srv.view /\ srv'.current = srv.current
    BY <1>2, <2>1 DEF Server
  <2>3. TimesArePast'
    BY <1>1, <1>4, <2>2 DEF ViewInv, TimesArePast
  <2>4. ASSUME NEW f \in Files \ missed
        PROVE  IF f < srv.k \/ f = srv.k THEN Served(f)' ELSE srv'.view[f] = Parsed(f)'
    BY <1>1, <1>3, <2>1, <2>2 DEF ViewInv, Seeded, Served
  <2>5. CASE srv.k = NFiles
    <3>1. \A f \in Files \ missed : Served(f)'
      BY <1>6, <2>4, <2>5
    <3> QED
      BY <2>1, <2>2, <2>3, <2>5, <3>1 DEF ViewInv, Loaded, Seeded, Watched, Reparsed
  <2>6. CASE srv.k # NFiles
    <3>1. srv'.pc = "seed" /\ srv'.k = srv.k + 1
      BY <2>2, <2>6
    <3>2. ASSUME NEW f \in Files \ missed
          PROVE  IF f < srv'.k THEN Served(f)' ELSE srv'.view[f] = Parsed(f)'
      <4>1. CASE f < srv'.k
        BY <1>7, <2>4, <3>1, <4>1
      <4>2. CASE ~ (f < srv'.k)
        <5>1. \A n, k \in Nat : ~ (n < k + 1) => ~ (n < k \/ n = k)
          OBVIOUS
        <5> QED
          BY <1>1, <2>4, <3>1, <4>2, <5>1
      <4> QED
        BY <4>1, <4>2
    <3>3. Seeded'
      BY <2>1, <3>2 DEF Seeded
    <3> QED
      BY <2>3, <3>1, <3>3 DEF ViewInv, Loaded, Watched, Reparsed
  <2> QED
    BY <2>5, <2>6
<1>13. ASSUME missed' = missed, srv.pc \in {"wait", "stat", "parse", "swap"},
              srv'.pc \in {"wait", "stat"},
              srv'.view = srv.view, srv'.last = srv.last,
              \A f \in Files : srv'.current[f] <= clock
       PROVE  ViewInv'
  <2>1. \A f \in Files : Served(f) => Served(f)'
    BY <1>3, <1>13 DEF Served
  <2> QED
    BY <1>13, <2>1 DEF ViewInv, TimesArePast, Loaded, Seeded, Watched, Reparsed
<1>14. CASE Tick
  <2>1. /\ srv.pc = "wait" /\ missed' = missed /\ srv'.pc = "stat"
        /\ srv'.view = srv.view /\ srv'.last = srv.last /\ srv'.current = srv.current
    BY <1>2, <1>14 DEF Tick, Server
  <2> QED
    BY <1>13, <2>1 DEF ViewInv, TimesArePast
<1>15. \A f \in Files : [srv.current EXCEPT ![srv.k] = Mtime(srv.k)][f] <= clock
  BY <1>1, <1>4 DEF ViewInv, TimesArePast
<1>16. CASE Stat
  <2> DEFINE seen == [srv.current EXCEPT ![srv.k] = Mtime(srv.k)]
  <2>1. \A f \in Files : seen[f] <= clock
    BY <1>15
  <2>2. srv' = IF srv.k < NFiles THEN [srv EXCEPT !.current = seen, !.k = srv.k + 1]
               ELSE IF seen = srv.last
               THEN [srv EXCEPT !.current = None, !.pc = "wait", !.k = 1]
               ELSE [srv EXCEPT !.current = seen, !.pc = "parse", !.k = 1]
    BY <1>16 DEF Stat
  <2> HIDE DEF seen
  <2>3. /\ srv.pc = "stat" /\ missed' = missed
        /\ srv'.view = srv.view /\ srv'.last = srv.last
        /\ srv'.current \in {seen, None}
        /\ srv'.pc \in {"stat", "wait", "parse"}
        /\ srv'.pc = "parse" => srv'.k = 1
    BY <1>2, <1>16, <2>2 DEF Stat, Server
  <2>4. \A f \in Files : srv'.current[f] <= clock
    BY <1>4, <2>1, <2>3
  <2>5. CASE srv'.pc # "parse"
    BY <1>13, <2>3, <2>4, <2>5
  <2>6. CASE srv'.pc = "parse"
    <3>1. \A f \in Files : Served(f) => Served(f)'
      BY <1>3, <2>3 DEF Served
    <3> QED
      BY <1>8, <2>3, <2>4, <2>6, <3>1
         DEF ViewInv, TimesArePast, Loaded, Seeded, Watched, Reparsed
  <2> QED
    BY <2>5, <2>6
<1>17. /\ GiveUp.pc = "wait" /\ GiveUp.view = srv.view /\ GiveUp.last = srv.last
       /\ GiveUp.current = None
  BY <1>2 DEF GiveUp, Server
<1>18. ASSUME srv.pc \in {"parse", "swap"}, srv' = GiveUp, missed' = missed PROVE ViewInv'
  BY <1>4, <1>13, <1>17, <1>18
<1>19. CASE Parse
  <2>1. srv.pc = "parse" /\ missed' = missed
    BY <1>19 DEF Parse
  <2>2. CASE disk[srv.k].form = "bad"
    BY <1>18, <1>19, <2>1, <2>2 DEF Parse
  <2>3. CASE disk[srv.k].form # "bad"
    <3>1. srv' = [srv EXCEPT !.next[srv.k] = Parsed(srv.k),
                             !.pc = IF srv.k = NFiles THEN "swap" ELSE "parse",
                             !.k = IF srv.k = NFiles THEN 1 ELSE srv.k + 1]
      BY <1>19, <2>3 DEF Parse
    <3>2. /\ srv'.pc = IF srv.k = NFiles THEN "swap" ELSE "parse"
          /\ srv'.k = IF srv.k = NFiles THEN 1 ELSE srv.k + 1
          /\ srv'.next = [srv.next EXCEPT ![srv.k] = Parsed(srv.k)]
          /\ srv'.view = srv.view /\ srv'.last = srv.last /\ srv'.current = srv.current
      BY <1>2, <3>1 DEF Server
    <3>3. \A f \in Files : Served(f) => Served(f)'
      BY <1>3, <3>2 DEF Served
    <3>4. \A f \in Files : f < srv.k \/ f = srv.k => Fresh(f)'
      BY <1>1, <1>3, <2>1, <3>2 DEF ViewInv, Reparsed, Fresh
    <3>5. TimesArePast' /\ Watched'
      BY <2>1, <3>2, <3>3 DEF ViewInv, TimesArePast, Watched
    <3>6. Reparsed'
      BY <1>6, <1>7, <3>2, <3>4 DEF Reparsed
    <3> QED
      BY <3>2, <3>5, <3>6 DEF ViewInv, Loaded, Seeded
  <2> QED
    BY <2>2, <2>3
<1>20. CASE Swap
  <2>1. srv.pc = "swap"
    BY <1>20 DEF Swap
  <2>2. CASE auditOK
    <3>1. srv' = [GiveUp EXCEPT !.view = srv.next, !.last = srv.current]
      BY <1>20, <2>2 DEF Swap
    <3>2. /\ srv'.pc = "wait" /\ srv'.view = srv.next
          /\ srv'.last = srv.current /\ srv'.current = None
      BY <1>2, <3>1 DEF GiveUp, Server
    <3>3. \A f \in Files : Served(f)'
      BY <1>3, <2>1, <3>2 DEF ViewInv, Reparsed, Fresh, Served
    <3> QED
      BY <1>4, <3>2, <3>3 DEF ViewInv, TimesArePast, Loaded, Seeded, Watched, Reparsed
  <2>3. CASE ~auditOK
    BY <1>18, <1>20, <2>1, <2>3 DEF Swap
  <2> QED
    BY <2>2, <2>3
<1>21. CASE Close
  <2>1. /\ missed' = missed /\ srv'.pc = srv.pc /\ srv'.k = srv.k
        /\ srv'.view = srv.view /\ srv'.next = srv.next
        /\ srv'.last = srv.last /\ srv'.current = srv.current
        /\ srv.pc \in {"wait", "stat", "parse", "swap"}
    BY <1>2, <1>21 DEF Close, Server
  <2>2. \A f \in Files : (Served(f) => Served(f)') /\ (Fresh(f) => Fresh(f)')
    BY <1>3, <2>1 DEF Served, Fresh
  <2> QED
    BY <2>1, <2>2 DEF ViewInv, TimesArePast, Loaded, Seeded, Watched, Reparsed
<1>22. CASE WatchEnds
  <2>1. srv'.pc = "off" /\ srv'.last = None /\ srv'.current = None
    BY <1>22 DEF WatchEnds, Off
  <2> QED
    BY <1>4, <2>1 DEF ViewInv, TimesArePast, Loaded, Seeded, Watched, Reparsed
<1> QED
  BY <1>9, <1>10, <1>11, <1>12, <1>14, <1>16, <1>19, <1>20, <1>21, <1>22 DEF ServerStep

\* ViewInv is inductive: a step writes one file, or it is the adapter's, or it
\* touches neither.
LEMMA NextView == TypeOK /\ ViewInv /\ [Next]_vars => ViewInv'
<1> SUFFICES ASSUME TypeOK, ViewInv, [Next]_vars PROVE ViewInv'
  OBVIOUS
<1> USE ConstantTypes
<1>1. ASSUME UNCHANGED <<disk, clock, srv, missed>> PROVE ViewInv'
  BY <1>1 DEF ViewInv, TimesArePast, Loaded, Seeded, Watched, Reparsed, Served, Fresh,
              There, Parsed, Mtime
<1>2. ASSUME NEW f \in Files, Truncate(f) PROVE ViewInv'
  BY <1>2, PutView DEF Truncate
<1>3. CASE Save
  <2>1. CASE editor.live
    <3>1. editor.file \in Files
      BY <1>3 DEF Save, TypeOK, Editor
    <3>2. PICK form \in {"ok", "bad"} : Put(editor.file, form, editor.has \cup {clock + 1})
      BY <1>3, <2>1 DEF Save
    <3> QED
      BY <1>3, <3>1, <3>2, PutView DEF Save
  <2>2. CASE ~editor.live
    <3>1. clock' = clock + 1 /\ UNCHANGED <<disk, missed, srv>>
      BY <1>3, <2>2 DEF Save
    <3>2. TimesArePast'
      BY <3>1, StateTypes DEF ViewInv, TimesArePast
    <3> QED
      BY <3>1, <3>2 DEF ViewInv, Loaded, Seeded, Watched, Reparsed, Served, Fresh,
                        There, Parsed, Mtime
  <2> QED
    BY <2>1, <2>2
<1>4. ASSUME NEW f \in Files, Delete(f) PROVE ViewInv'
  BY <1>4, PutView DEF Delete
<1>5. CASE StartServer \/ ServerStep \/ Close \/ WatchEnds
  <2>1. UNCHANGED <<disk, clock>>
    BY <1>5 DEF StartServer, ServerStep, Load, Publish, Seed, Tick, Stat, Parse, Swap,
                Close, WatchEnds, ServerOnly
  <2> QED
    BY <1>5, <2>1, ServerView
<1>6. ASSUME NEW s \in Syncs, ReplaceFacts(s) PROVE ViewInv'
  BY <1>6, PutView DEF ReplaceFacts
<1>7. CASE WriteTemplate
  <2>1. scaffold \in Files
    BY <1>7 DEF WriteTemplate, TypeOK
  <2> QED
    BY <1>7, <2>1, PutView DEF WriteTemplate
<1>8. ASSUME \/ ChangeAudit \/ \E f \in Files : FindMissing(f)
             \/ \E s \in Syncs : \/ SkipPlugin(s) \/ ReadFacts(s)
                                \/ PluginWritesNothing(s) \/ SyncDies(s)
             \/ UNCHANGED vars
      PROVE  ViewInv'
  BY <1>1, <1>8 DEF ChangeAudit, FindMissing, SkipPlugin, ReadFacts, PluginWritesNothing,
                    SyncDies, vars
<1> QED
  BY <1>2, <1>3, <1>4, <1>5, <1>6, <1>7, <1>8 DEF Next

\* A watch that sees no difference serves what is on disk, for any number of
\* files, whenever they are written: no save is missed but between the first
\* parse of a file and its first stat.
THEOREM ContentIsCurrent == Spec => []ContentMeansCurrent
<1>1. Init => TypeOK /\ RunningIsLeft /\ ViewInv
  BY TruthTreeAssumption, ConstantTypes
     DEF Init, TypeOK, RunningIsLeft, File, Sync, ViewInv, TimesArePast, Loaded, Seeded,
         Watched, Reparsed, Off, None
<1>2. TypeOK /\ RunningIsLeft /\ ViewInv /\ [Next]_vars
        => TypeOK' /\ RunningIsLeft' /\ ViewInv'
  BY NextTypes, NextView
<1>3. ViewInv => ContentMeansCurrent
  BY DEF ViewInv, Watched, Served, There, ContentMeansCurrent
<1> QED
  BY <1>1, <1>2, <1>3, PTL DEF Spec

-----------------------------------------------------------------------------
(* What becomes of an edit of facts.yaml                                   *)

\* A save that overlaps a command knows it; a file being saved exists, and
\* has no text as long as it is the one the editor has open.
OverlapIsKnown ==
  editor.file = Facts =>
    /\ Replacing(Syncs) \/ ~editor.live => editor.overlap
    /\ There(Facts)
    /\ editor.live => disk[Facts].has = {}

\* Whoever will replace the file holds all edits but the raced ones.
HoldersHaveAll ==
  /\ \A s \in Syncs : sync[s].pc = "run" => kept \subseteq sync[s].has \cup raced
  /\ scaffold = Facts => kept \subseteq raced
  /\ editor.file = Facts /\ ~editor.live => kept \subseteq disk[Facts].has \cup raced

MissingHasNothing == ~There(Facts) => disk[Facts].has = {}

EditInv == OverlapIsKnown /\ HoldersHaveAll /\ MissingHasNothing /\ EditsSurvive

\* facts.yaml after a write, and after a write of another file.
LEMMA PutFacts ==
  ASSUME TypeOK, NEW f \in Files, NEW form, NEW has, Put(f, form, has)
  PROVE  /\ clock' = clock + 1
         /\ f = Facts => disk'[Facts].has = has /\ disk'[Facts].form = form
         /\ f # Facts => disk'[Facts] = disk[Facts]
<1>1. disk \in [Files -> File] /\ Facts \in Files
  BY ConstantTypes DEF TypeOK
<1>2. disk' = [disk EXCEPT ![f] = [form |-> form, gen |-> clock + 1, has |-> has]]
  BY DEF Put
<1>3. f = Facts => disk'[Facts] = [form |-> form, gen |-> clock + 1, has |-> has]
  BY <1>1, <1>2
<1>4. f # Facts => disk'[Facts] = disk[Facts]
  BY <1>1, <1>2
<1> QED
  BY <1>3, <1>4 DEF Put

\* The operator's steps.
LEMMA EditorKeeps ==
  ASSUME TypeOK, EditInv,
         (\E f \in Files : Truncate(f) \/ Delete(f)) \/ Save
  PROVE  EditInv'
<1> USE ConstantTypes
<1>1. /\ editor \in Editor /\ sync \in [Syncs -> Sync]
      /\ Facts \in Nat /\ Facts # 0
  BY DEF TypeOK, Facts
<1>2. ASSUME NEW f \in Files, Truncate(f) PROVE EditInv'
  <2>1. /\ Put(f, "empty", {}) /\ editor.file = 0
        /\ editor' = [file |-> f, has |-> disk[f].has, live |-> TRUE,
                      overlap |-> Replacing(Syncs)]
        /\ UNCHANGED <<sync, scaffold, kept, raced>>
    BY <1>2 DEF Truncate
  <2>2. Replacing(Syncs)' = Replacing(Syncs)
    BY <2>1 DEF Replacing
  <2>3. OverlapIsKnown' /\ HoldersHaveAll' /\ MissingHasNothing'
    BY <2>1, <2>2, PutFacts
       DEF EditInv, OverlapIsKnown, HoldersHaveAll, MissingHasNothing, There
  <2>4. EditsSurvive'
    BY <1>1, <2>1, PutFacts DEF EditInv, EditsSurvive
  <2> QED
    BY <2>3, <2>4 DEF EditInv
<1>3. CASE Save
  <2>1. /\ editor' = NoSave /\ UNCHANGED <<sync, scaffold>>
        /\ editor.file # 0 /\ editor.file \in Files
        /\ editor.file = Facts => kept' = kept \cup {clock + 1}
        /\ editor.file # Facts => kept' = kept
        /\ raced' = IF editor.overlap THEN raced \cup {clock + 1} ELSE raced
    BY <1>1, <1>3 DEF Save, Editor
  <2>2. OverlapIsKnown'
    BY <1>1, <2>1 DEF OverlapIsKnown, NoSave
  <2>3. HoldersHaveAll'
    <3>1. Replacing(Syncs) /\ editor.file = Facts => kept' \ kept \subseteq raced'
      BY <2>1 DEF EditInv, OverlapIsKnown
    <3>2. kept' \ kept \subseteq raced' \/ ~Replacing(Syncs)
      BY <2>1, <3>1
    <3> QED
      BY <1>1, <2>1, <3>2 DEF EditInv, HoldersHaveAll, Replacing, NoSave
  <2>4. CASE editor.live
    <3>1. PICK form \in {"ok", "bad"} : Put(editor.file, form, editor.has \cup {clock + 1})
      BY <1>3, <2>4 DEF Save
    <3>2. MissingHasNothing'
      BY <2>1, <3>1, PutFacts DEF EditInv, MissingHasNothing, There
    <3>3. CASE editor.file = Facts
      <4>1. disk[Facts].has = {} /\ disk'[Facts].has = editor.has \cup {clock + 1}
        BY <2>1, <2>4, <3>1, <3>3, PutFacts DEF EditInv, OverlapIsKnown
      <4>2. EditsSurvive'
        BY <2>1, <3>3, <4>1 DEF EditInv, EditsSurvive
      <4> QED
        BY <2>2, <2>3, <3>2, <4>2 DEF EditInv
    <3>4. CASE editor.file # Facts
      <4>1. disk'[Facts] = disk[Facts]
        BY <2>1, <3>1, <3>4, PutFacts
      <4>2. EditsSurvive'
        BY <2>1, <3>4, <4>1 DEF EditInv, EditsSurvive
      <4> QED
        BY <2>2, <2>3, <3>2, <4>2 DEF EditInv
    <3> QED
      BY <3>3, <3>4
  <2>5. CASE ~editor.live
    <3>1. UNCHANGED disk
      BY <1>3, <2>5 DEF Save
    <3>2. EditsSurvive'
      BY <2>1, <2>5, <3>1 DEF EditInv, EditsSurvive, OverlapIsKnown, HoldersHaveAll
    <3>3. MissingHasNothing'
      BY <3>1 DEF EditInv, MissingHasNothing, There
    <3> QED
      BY <2>2, <2>3, <3>2, <3>3 DEF EditInv
  <2> QED
    BY <2>4, <2>5
<1>4. ASSUME NEW f \in Files, Delete(f) PROVE EditInv'
  <2>1. /\ Put(f, "missing", {}) /\ editor.file = 0
        /\ kept' = IF f = Facts THEN kept \ disk[f].has ELSE kept
        /\ UNCHANGED <<editor, sync, scaffold, raced>>
    BY <1>4 DEF Delete
  <2>2. OverlapIsKnown' /\ HoldersHaveAll'
    BY <1>1, <2>1 DEF EditInv, OverlapIsKnown, HoldersHaveAll
  <2>3. MissingHasNothing'
    BY <2>1, PutFacts DEF EditInv, MissingHasNothing, There
  <2>4. EditsSurvive'
    BY <1>1, <2>1, PutFacts DEF EditInv, EditsSurvive
  <2> QED
    BY <2>2, <2>3, <2>4 DEF EditInv
<1> QED
  BY <1>2, <1>3, <1>4

\* The steps of the syncs.
LEMMA SyncKeeps ==
  ASSUME TypeOK, EditInv, NEW s \in Syncs,
         \/ SkipPlugin(s) \/ ReadFacts(s) \/ PluginWritesNothing(s)
         \/ ReplaceFacts(s) \/ SyncDies(s)
  PROVE  EditInv'
<1> USE ConstantTypes
<1>1. /\ editor \in Editor /\ sync \in [Syncs -> Sync]
      /\ Facts \in Nat /\ Facts # 0
  BY DEF TypeOK, Facts
<1>2. \A has : Finish(s, has).pc # "run"
  BY DEF Finish
<1>3. ASSUME NEW r, r.pc # "run", sync' = [sync EXCEPT ![s] = r],
             UNCHANGED <<disk, editor, scaffold, kept, raced>>
      PROVE  EditInv'
  <2>1. /\ sync'[s].pc # "run" /\ \A t \in Syncs \ {s} : sync'[t] = sync[t]
        /\ Replacing(Syncs)' => Replacing(Syncs)
    BY <1>1, <1>3 DEF Replacing
  <2> QED
    BY <1>3, <2>1 DEF EditInv, OverlapIsKnown, HoldersHaveAll, MissingHasNothing,
                      EditsSurvive, There
<1>4. CASE SkipPlugin(s)
  BY <1>2, <1>3, <1>4 DEF SkipPlugin
<1>5. CASE PluginWritesNothing(s)
  BY <1>2, <1>3, <1>5 DEF PluginWritesNothing
<1>6. CASE SyncDies(s)
  <2>1. [pc |-> "done", left |-> 0, has |-> {}].pc # "run"
    OBVIOUS
  <2> QED
    BY <1>3, <1>6, <2>1 DEF SyncDies
<1>7. CASE ReadFacts(s)
  <2>1. /\ sync[s].pc = "next" /\ sync[s] \in Sync
        /\ sync' = [sync EXCEPT ![s] = [[sync[s] EXCEPT !.pc = "run"]
                                         EXCEPT !.has = disk[Facts].has]]
        /\ editor' = [editor EXCEPT !.overlap = (editor.file # 0)]
        /\ raced' = IF editor.file = Facts THEN raced \cup editor.has ELSE raced
        /\ UNCHANGED <<disk, scaffold, kept>>
    BY <1>1, <1>7 DEF ReadFacts
  <2>2. /\ editor'.file = editor.file /\ editor'.has = editor.has
        /\ editor'.live = editor.live /\ editor'.overlap = (editor.file # 0)
    BY <1>1, <2>1 DEF Editor
  <2>3. sync'[s].has = disk[Facts].has /\ \A t \in Syncs \ {s} : sync'[t] = sync[t]
    BY <1>1, <2>1 DEF Sync
  <2>4. kept \subseteq disk[Facts].has \cup raced' /\ raced \subseteq raced'
    BY <2>1 DEF EditInv, EditsSurvive
  <2>5. OverlapIsKnown'
    BY <1>1, <2>1, <2>2 DEF EditInv, OverlapIsKnown, There
  <2>6. HoldersHaveAll'
    BY <2>1, <2>2, <2>3, <2>4 DEF EditInv, HoldersHaveAll
  <2> QED
    BY <2>1, <2>4, <2>5, <2>6 DEF EditInv, MissingHasNothing, EditsSurvive, There
<1>8. CASE ReplaceFacts(s)
  <2>1. /\ sync[s].pc = "run"
        /\ Put(Facts, "ok", sync[s].has \cup {clock + 1})
        /\ kept' = kept \cup {clock + 1}
        /\ raced' = IF Replacing(Syncs \ {s}) \/ editor.file = Facts
                    THEN raced \cup {clock + 1} ELSE raced
        /\ editor' = IF editor.file = Facts THEN [editor EXCEPT !.live = FALSE] ELSE editor
        /\ sync' = [sync EXCEPT ![s] = Finish(s, sync[s].has)]
        /\ UNCHANGED scaffold
    BY <1>8 DEF ReplaceFacts
  <2>2. /\ sync'[s].pc # "run" /\ \A t \in Syncs \ {s} : sync'[t] = sync[t]
    BY <1>1, <1>2, <2>1
  <2>3. disk'[Facts].has = sync[s].has \cup {clock + 1} /\ disk'[Facts].form = "ok"
    BY <2>1, PutFacts
  <2>4. kept \subseteq sync[s].has \cup raced
    BY <2>1 DEF EditInv, HoldersHaveAll
  <2>5. /\ editor'.file = editor.file /\ editor'.overlap = editor.overlap
        /\ editor.file = Facts => ~editor'.live
    BY <1>1, <2>1 DEF Editor
  <2>6. Replacing(Syncs)
    BY <2>1 DEF Replacing
  <2>7. OverlapIsKnown' /\ MissingHasNothing'
    BY <2>3, <2>5, <2>6 DEF EditInv, OverlapIsKnown, MissingHasNothing, There
  <2>8. kept' \subseteq disk'[Facts].has \cup raced'
    BY <2>1, <2>3, <2>4
  <2>9. Replacing(Syncs \ {s}) => kept' \ kept \subseteq raced'
    BY <2>1
  <2>10. /\ \A t \in Syncs : sync'[t].pc = "run" => Replacing(Syncs \ {s})
         /\ scaffold = Facts => Replacing(Syncs \ {s})
    BY <2>2 DEF Replacing
  <2>11. HoldersHaveAll'
    <3>1. ASSUME NEW t \in Syncs, sync'[t].pc = "run"
          PROVE  kept' \subseteq sync'[t].has \cup raced'
      BY <2>1, <2>2, <2>9, <2>10, <3>1 DEF EditInv, HoldersHaveAll
    <3>2. scaffold' = Facts => kept' \subseteq raced'
      BY <2>1, <2>9, <2>10 DEF EditInv, HoldersHaveAll
    <3> QED
      BY <2>8, <3>1, <3>2 DEF HoldersHaveAll
  <2> QED
    BY <2>7, <2>8, <2>11 DEF EditInv, EditsSurvive
<1> QED
  BY <1>4, <1>5, <1>6, <1>7, <1>8

\* The steps of `leonard init`.
LEMMA ScaffoldKeeps ==
  ASSUME TypeOK, EditInv, (\E f \in Files : FindMissing(f)) \/ WriteTemplate
  PROVE  EditInv'
<1>1. ASSUME NEW f \in Files, FindMissing(f) PROVE EditInv'
  <2>1. /\ disk[f].form = "missing" /\ scaffold' = f
        /\ UNCHANGED <<disk, editor, sync, kept, raced>>
    BY <1>1 DEF FindMissing
  <2>2. f = Facts => editor.file # Facts /\ kept \subseteq raced
    BY <2>1 DEF EditInv, OverlapIsKnown, MissingHasNothing, EditsSurvive, There
  <2>3. OverlapIsKnown'
    BY <2>1, <2>2 DEF EditInv, OverlapIsKnown, Replacing, There
  <2> QED
    BY <2>1, <2>2, <2>3 DEF EditInv, HoldersHaveAll, MissingHasNothing, EditsSurvive, There
<1>2. CASE WriteTemplate
  <2>1. /\ scaffold \in Files /\ Put(scaffold, "ok", {}) /\ scaffold' = 0
        /\ UNCHANGED <<editor, sync, kept, raced>>
    BY <1>2 DEF WriteTemplate, TypeOK
  <2>2. Replacing(Syncs)' => Replacing(Syncs)
    BY <2>1 DEF Replacing, Facts
  <2>3. CASE scaffold = Facts
    <3>1. disk'[Facts].has = {} /\ disk'[Facts].form = "ok" /\ kept \subseteq raced
      BY <2>1, <2>3, PutFacts DEF EditInv, HoldersHaveAll
    <3> QED
      BY <2>1, <2>2, <3>1 DEF EditInv, OverlapIsKnown, HoldersHaveAll, MissingHasNothing,
                              EditsSurvive, There
  <2>4. CASE scaffold # Facts
    <3>1. disk'[Facts] = disk[Facts] /\ scaffold' # Facts
      BY <2>1, <2>4, PutFacts DEF Facts
    <3> QED
      BY <2>1, <2>2, <3>1 DEF EditInv, OverlapIsKnown, HoldersHaveAll, MissingHasNothing,
                              EditsSurvive, There
  <2> QED
    BY <2>3, <2>4
<1> QED
  BY <1>1, <1>2

\* EditInv is inductive.
LEMMA NextKeeps == TypeOK /\ EditInv /\ [Next]_vars => EditInv'
<1> SUFFICES ASSUME TypeOK, EditInv, [Next]_vars PROVE EditInv'
  OBVIOUS
<1>1. ASSUME UNCHANGED <<disk, editor, sync, scaffold, kept, raced>> PROVE EditInv'
  BY <1>1 DEF EditInv, OverlapIsKnown, HoldersHaveAll, MissingHasNothing, EditsSurvive,
              There, Replacing
<1>2. CASE StartServer \/ ServerStep \/ Close \/ WatchEnds \/ ChangeAudit \/ UNCHANGED vars
  BY <1>1, <1>2 DEF StartServer, ServerStep, Load, Publish, Seed, Tick, Stat, Parse, Swap,
                    Close, WatchEnds, ServerOnly, ChangeAudit, vars
<1> QED
  BY <1>2, EditorKeeps, SyncKeeps, ScaffoldKeeps DEF Next

\* Only an edit whose save overlapped a sync or a scaffold can be lost, for any
\* number of syncs and plugins that run and die at the same time.
THEOREM EditsAreKept == Spec => []EditsSurvive
<1>1. Init => TypeOK /\ RunningIsLeft /\ EditInv
  BY TruthTreeAssumption, ConstantTypes
     DEF Init, TypeOK, RunningIsLeft, File, Sync, EditInv, OverlapIsKnown, HoldersHaveAll,
         MissingHasNothing, EditsSurvive, There, NoSave, Facts
<1>2. TypeOK /\ RunningIsLeft /\ EditInv /\ [Next]_vars
        => TypeOK' /\ RunningIsLeft' /\ EditInv'
  BY NextTypes, NextKeeps
<1>3. EditInv => EditsSurvive
  BY DEF EditInv
<1> QED
  BY <1>1, <1>2, <1>3, PTL DEF Spec

-----------------------------------------------------------------------------
(* Sequences and places                                                    *)

\* A set of naturals has a least one.
LEMMA LeastNatural ==
  ASSUME NEW T \in SUBSET Nat, T # {}
  PROVE  \E m \in T : \A k \in T : m <= k
<1>1. IsWellFoundedOn(OpToRel(<, Nat), Nat)
  BY NatLessThanWellFounded
<1>2. PICK m \in T : \A y \in T : ~ (<<y, m>> \in OpToRel(<, Nat))
  BY <1>1, WFMin, T \subseteq Nat
<1>3. \A y \in T : ~ (y < m)
  BY <1>2 DEF OpToRel
<1> QED
  BY <1>3

\* Induction over the numbers in T.
LEMMA NatInductive ==
  ASSUME NEW T \in SUBSET Nat, 0 \in T, \A n \in T : n + 1 \in T
  PROVE  T = Nat
<1> SUFFICES ASSUME T # Nat PROVE FALSE
  OBVIOUS
<1>1. PICK m \in Nat \ T : \A k \in Nat \ T : m <= k
  BY LeastNatural
<1>2. m # 0 /\ m - 1 \in Nat
  BY <1>1
<1>3. m - 1 \in T
  BY <1>1, <1>2
<1> QED
  BY <1>1, <1>3

\* Induction up to a bound.
LEMMA UpTo ==
  ASSUME NEW N \in Nat, NEW T, 0 \in T, \A n \in 1 .. N : n - 1 \in T => n \in T
  PROVE  \A n \in 0 .. N : n \in T
<1> DEFINE U == {n \in Nat : n <= N => n \in T}
<1>1. 0 \in U
  OBVIOUS
<1>2. ASSUME NEW n \in U PROVE n + 1 \in U
  <2> SUFFICES ASSUME n + 1 <= N PROVE n + 1 \in T
    OBVIOUS
  <2>1. n + 1 \in 1 .. N /\ (n + 1) - 1 = n /\ n <= N
    OBVIOUS
  <2> QED
    BY <2>1
<1>3. U \in SUBSET Nat
  OBVIOUS
<1> HIDE DEF U
<1>4. U = Nat
  BY <1>1, <1>2, <1>3, NatInductive
<1> QED
  BY <1>4 DEF U

\* The least and the greatest of some places are of them.
LEMMA LeastPlace ==
  ASSUME NEW T \in SUBSET Nat, T # {}
  PROVE  Min(T) \in T
<1>1. \E m \in T : \A y \in T : m =< y
  BY LeastNatural
<1> QED
  BY <1>1, Zenon DEF Min

\* The greatest place is one of them, and no less than any.
LEMMA GreatestPlace ==
  ASSUME NEW n \in Nat, NEW T \in SUBSET (1 .. n), T # {}
  PROVE  Max(T) \in T /\ \A k \in T : Max(T) >= k
<1> DEFINE U == {n - k : k \in T}
<1>1. U \in SUBSET Nat /\ U # {}
  <2>1. \A k \in T : n - k \in Nat
    OBVIOUS
  <2>2. \A u \in U : u \in Nat
    BY <2>1
  <2>3. PICK k \in T : TRUE
    OBVIOUS
  <2>4. n - k \in U
    OBVIOUS
  <2> HIDE DEF U
  <2> QED
    BY <2>2, <2>4
<1> HIDE DEF U
<1>2. PICK m \in U : \A k \in U : m <= k
  BY <1>1, LeastNatural
<1>3. PICK g \in T : m = n - g
  BY <1>2 DEF U
<1>4. \A k \in T : n - g <= n - k
  BY <1>2, <1>3 DEF U
<1>5. \A k \in T : g >= k
  BY <1>4
<1>6. \E x \in T : \A y \in T : x >= y
  BY <1>5
<1> QED
  BY <1>6, Zenon DEF Max

\* The second part of a concatenation.
LEMMA EndOfConcat ==
  ASSUME NEW S, NEW s \in Seq(S), NEW t \in Seq(S)
  PROVE  SubSeq(s \o t, Len(s) + 1, Len(s) + Len(t)) = t
BY ConcatProperties, LenProperties

\* The elements of a concatenation.
LEMMA ToSetConcat ==
  ASSUME NEW S, NEW s \in Seq(S), NEW t \in Seq(S)
  PROVE  s \o t \in Seq(S) /\ ToSet(s \o t) = ToSet(s) \cup ToSet(t)
<1>1. /\ s \o t \in Seq(S) /\ Len(s) \in Nat /\ Len(t) \in Nat
      /\ Len(s \o t) = Len(s) + Len(t)
      /\ \A i \in 1 .. Len(s) + Len(t) : (s \o t)[i] = IF i <= Len(s) THEN s[i] ELSE t[i - Len(s)]
      /\ DOMAIN s = 1 .. Len(s) /\ DOMAIN t = 1 .. Len(t) /\ DOMAIN (s \o t) = 1 .. Len(s \o t)
  BY ConcatProperties, LenProperties
<1> DEFINE w == s \o t
<1> HIDE DEF w
<1>2. ASSUME NEW i \in 1 .. Len(s) PROVE s[i] \in ToSet(w)
  <2>1. i \in DOMAIN w /\ w[i] = s[i]
    BY <1>1 DEF w
  <2> QED
    BY <2>1 DEF ToSet
<1>3. ASSUME NEW i \in 1 .. Len(t) PROVE t[i] \in ToSet(w)
  <2>1. Len(s) + i \in DOMAIN w /\ w[Len(s) + i] = t[i]
    BY <1>1 DEF w
  <2> QED
    BY <2>1 DEF ToSet
<1>4. ASSUME NEW i \in DOMAIN w PROVE w[i] \in ToSet(s) \cup ToSet(t)
  <2>1. CASE i <= Len(s)
    <3>1. i \in DOMAIN s /\ w[i] = s[i]
      BY <1>1, <2>1 DEF w
    <3> QED
      BY <3>1 DEF ToSet
  <2>2. CASE i > Len(s)
    <3>1. i - Len(s) \in DOMAIN t /\ w[i] = t[i - Len(s)]
      BY <1>1, <2>2 DEF w
    <3> QED
      BY <3>1 DEF ToSet
  <2> QED
    BY <1>1, <2>1, <2>2 DEF w
<1>5. ToSet(w) = ToSet(s) \cup ToSet(t)
  BY <1>1, <1>2, <1>3, <1>4 DEF ToSet
<1> QED
  BY <1>1, <1>5 DEF w

-----------------------------------------------------------------------------
(* Flattened sequences                                                     *)

\* The flattened prefixes of a sequence of sequences.
FlattenedBy(c, seqs) ==
  /\ c[0] = <<>> /\ FlattenSeq(seqs) = c[Len(seqs)]
  /\ \A i \in 1 .. Len(seqs) : c[i] = c[i - 1] \o seqs[i]

\* What FlattenSeq computes, as an equation between neighbours.
LEMMA FlattenIs ==
  ASSUME NEW seqs, Len(seqs) \in Nat
  PROVE  \E f : /\ \A i \in 1 .. Len(seqs) : f[i] = IF i = 1 THEN seqs[i] ELSE f[i - 1] \o seqs[i]
                /\ Len(seqs) # 0 => FlattenSeq(seqs) = f[Len(seqs)]
<1> DEFINE N == Len(seqs)
           IsFlat(f, m) == f = [i \in 1 .. m |-> IF i = 1 THEN seqs[i] ELSE f[i - 1] \o seqs[i]]
           Flat == {m \in Nat : m <= N => \E f : IsFlat(f, m)}
<1>2. 0 \in Flat
  <2>1. 1 .. 0 = {}
    OBVIOUS
  <2> DEFINE f == [i \in {} |-> 0]
  <2>2. IsFlat(f, 0)
    BY <2>1
  <2> QED
    BY <2>2
<1>3. ASSUME NEW m \in Flat, m + 1 <= N PROVE \E g : IsFlat(g, m + 1)
  <2>1. m \in Nat /\ m <= N
    BY <1>3
  <2>2. \E f : IsFlat(f, m)
    BY <1>3, <2>1, Zenon
  <2>3. PICK f : IsFlat(f, m)
    BY <2>2, Zenon
  <2> DEFINE g == [i \in 1 .. m + 1 |->
                     IF i <= m THEN f[i] ELSE IF i = 1 THEN seqs[i] ELSE f[i - 1] \o seqs[i]]
             h == [i \in 1 .. m + 1 |-> IF i = 1 THEN seqs[i] ELSE g[i - 1] \o seqs[i]]
  <2>4. ASSUME NEW i \in 1 .. m + 1 PROVE g[i] = h[i]
    <3>1. CASE i <= m
      <4>1. i \in 1 .. m /\ (i # 1 => i - 1 \in 1 .. m + 1 /\ i - 1 <= m)
        BY <2>1, <3>1
      <4>2. f[i] = IF i = 1 THEN seqs[i] ELSE f[i - 1] \o seqs[i]
        BY <2>3, <4>1
      <4>3. g[i] = f[i] /\ (i # 1 => g[i - 1] = f[i - 1])
        BY <3>1, <4>1
      <4> QED
        BY <4>2, <4>3
    <3>2. CASE i > m
      <4>1. i # 1 => i - 1 \in 1 .. m + 1 /\ i - 1 <= m
        BY <2>1, <3>2
      <4>2. i # 1 => g[i - 1] = f[i - 1]
        BY <4>1
      <4> QED
        BY <3>2, <4>2
    <3> QED
      BY <3>1, <3>2
  <2>5. g = h
    BY <2>4
  <2> HIDE DEF g
  <2>6. IsFlat(g, m + 1)
    BY <2>5
  <2> QED
    BY <2>6
<1>4. Flat = Nat
  <2>1. ASSUME NEW m \in Flat PROVE m + 1 \in Flat
    <3>1. m \in Nat /\ m + 1 \in Nat
      OBVIOUS
    <3>2. m + 1 <= N => \E g : IsFlat(g, m + 1)
      BY <1>3
    <3> QED
      BY <3>1, <3>2, Zenon
  <2> HIDE DEF Flat
  <2>2. Flat \in SUBSET Nat
    BY DEF Flat
  <2> QED
    BY <1>2, <2>1, <2>2, NatInductive
<1>5. PICK e : IsFlat(e, N)
  <2>1. N <= N
    OBVIOUS
  <2>2. \E f : IsFlat(f, N)
    BY <1>4, <2>1, ZenonT(40)
  <2> QED
    BY <2>2, Zenon
<1> DEFINE flatten == CHOOSE f : IsFlat(f, N)
<1>6. IsFlat(flatten, N)
  BY <1>5, Zenon
<1>7. N # 0 => FlattenSeq(seqs) = flatten[N]
  BY Zenon DEF FlattenSeq
<1> HIDE DEF flatten
<1>8. \A i \in 1 .. N : flatten[i] = IF i = 1 THEN seqs[i] ELSE flatten[i - 1] \o seqs[i]
  BY <1>6
<1> QED
  BY <1>7, <1>8, Zenon

\* A sequence of sequences has flattened prefixes.
LEMMA FlattenPrefixes ==
  ASSUME NEW S, NEW seqs, Len(seqs) \in Nat, \A k \in 1 .. Len(seqs) : seqs[k] \in Seq(S),
         Len(seqs) = 0 => seqs = <<>>
  PROVE  \E c \in [0 .. Len(seqs) -> Seq(S)] : FlattenedBy(c, seqs)
<1> DEFINE N == Len(seqs)
<1>1. PICK f : /\ \A i \in 1 .. N : f[i] = IF i = 1 THEN seqs[i] ELSE f[i - 1] \o seqs[i]
               /\ N # 0 => FlattenSeq(seqs) = f[N]
  BY FlattenIs, Zenon
<1> DEFINE c == [i \in 0 .. N |-> IF i = 0 THEN <<>> ELSE f[i]]
           T == {i \in 0 .. N : c[i] \in Seq(S)}
<1>2. N \in Nat
  OBVIOUS
<1> HIDE DEF N
<1>3. c[0] = <<>> /\ 0 \in 0 .. N /\ N \in 0 .. N
  BY <1>2
<1>4. \A i \in 1 .. N : i \in 0 .. N /\ i - 1 \in 0 .. N /\ (i # 1 => i - 1 # 0) /\ i # 0
  BY <1>2
<1>5. ASSUME NEW i \in 1 .. N, i - 1 \in T PROVE i \in T /\ c[i] = c[i - 1] \o seqs[i]
  <2>1. c[i] = f[i] /\ (i # 1 => c[i - 1] = f[i - 1])
    BY <1>4
  <2>2. seqs[i] \in Seq(S) /\ c[i - 1] \in Seq(S)
    BY <1>5 DEF N
  <2>3. c[i] = c[i - 1] \o seqs[i]
    <3>1. CASE i = 1
      <4>1. c[i - 1] = <<>>
        BY <1>2, <1>3, <3>1
      <4>2. c[i] = seqs[i]
        BY <1>1, <2>1, <3>1
      <4> HIDE DEF c
      <4> QED
        BY <2>2, <4>1, <4>2, ConcatEmptySeq
    <3>2. CASE i # 1
      BY <1>1, <2>1, <3>2
    <3> QED
      BY <3>1, <3>2
  <2> HIDE DEF c
  <2>4. c[i - 1] \o seqs[i] \in Seq(S)
    BY <2>2, ToSetConcat
  <2> QED
    BY <1>4, <2>3, <2>4
<1>6. 0 \in T
  BY <1>3, EmptySeq
<1>7. \A i \in 0 .. N : i \in T
  <2> HIDE DEF T, c
  <2> QED
    BY <1>2, <1>5, <1>6, UpTo
<1>8. c \in [0 .. N -> Seq(S)]
  <2>1. \A i \in 0 .. N : c[i] \in Seq(S)
    BY <1>7
  <2>2. c = [i \in 0 .. N |-> c[i]]
    OBVIOUS
  <2> HIDE DEF c, T
  <2> QED
    BY <2>1, <2>2
<1>9. FlattenSeq(seqs) = c[N]
  <2>1. CASE N = 0
    <3>1. FlattenSeq(seqs) = seqs
      BY <2>1, Zenon DEF FlattenSeq, N
    <3>2. seqs = <<>>
      BY <2>1 DEF N
    <3> HIDE DEF c
    <3> QED
      BY <1>3, <2>1, <3>1, <3>2
  <2>2. CASE N # 0
    BY <1>1, <1>3, <2>2
  <2> QED
    BY <2>1, <2>2
<1> HIDE DEF c
<1>10. \A i \in 1 .. N : c[i] = c[i - 1] \o seqs[i]
  <2> SUFFICES ASSUME NEW i \in 1 .. N PROVE c[i] = c[i - 1] \o seqs[i]
    OBVIOUS
  <2>1. i - 1 \in T
    BY <1>4, <1>7
  <2> HIDE DEF T
  <2> QED
    BY <1>5, <2>1
<1> QED
  BY <1>3, <1>8, <1>9, <1>10, Zenon DEF N, FlattenedBy

\* What is in a flattened sequence.
LEMMA FlattenElements ==
  ASSUME NEW S, NEW seqs \in Seq(Seq(S))
  PROVE  /\ FlattenSeq(seqs) \in Seq(S)
         /\ ToSet(FlattenSeq(seqs)) = UNION {ToSet(seqs[k]) : k \in DOMAIN seqs}
<1> DEFINE N == Len(seqs)
           In(n) == UNION {ToSet(seqs[k]) : k \in 1 .. n}
<1>1. N \in Nat /\ DOMAIN seqs = 1 .. N /\ (\A k \in 1 .. N : seqs[k] \in Seq(S)) /\ (N = 0 => seqs = <<>>)
  BY LenProperties, ElementOfSeq, EmptySeq
<1>2. PICK c \in [0 .. N -> Seq(S)] : FlattenedBy(c, seqs)
  BY <1>1, FlattenPrefixes
<1>3. c[0] = <<>> /\ FlattenSeq(seqs) = c[N] /\ \A k \in 1 .. N : c[k] = c[k - 1] \o seqs[k]
  BY <1>2, Zenon DEF FlattenedBy
<1> HIDE DEF N
<1> DEFINE T == {n \in 0 .. N : ToSet(c[n]) = In(n)}
<1>4. 0 \in T
  <2>1. 1 .. 0 = {} /\ DOMAIN <<>> = {} /\ 0 \in 0 .. N
    BY <1>1
  <2>2. ToSet(c[0]) = {}
    BY <1>3, <2>1, Zenon DEF ToSet
  <2>3. In(0) = {}
    BY <2>1
  <2> HIDE DEF In
  <2> QED
    BY <2>1, <2>2, <2>3
<1>5. ASSUME NEW n \in 1 .. N, n - 1 \in T PROVE n \in T
  <2>1. n \in 0 .. N /\ n - 1 \in 0 .. N /\ (\A k \in 1 .. n : k = n \/ k \in 1 .. n - 1)
        /\ (\A k \in 1 .. n - 1 : k \in 1 .. n) /\ n \in 1 .. n
    BY <1>1
  <2>2. ToSet(c[n]) = ToSet(c[n - 1]) \cup ToSet(seqs[n])
    <3> DEFINE a == c[n - 1]
               b == seqs[n]
    <3>1. a \in Seq(S) /\ b \in Seq(S) /\ c[n] = a \o b
      BY <1>1, <1>3, <2>1
    <3> HIDE DEF a, b
    <3>2. ToSet(a \o b) = ToSet(a) \cup ToSet(b)
      BY <3>1, ToSetConcat
    <3> QED
      BY <3>1, <3>2, Zenon DEF a, b
  <2>3. In(n) = In(n - 1) \cup ToSet(seqs[n])
    BY <2>1, Zenon
  <2>4. ToSet(c[n - 1]) = In(n - 1)
    BY <1>5
  <2> HIDE DEF In
  <2> QED
    BY <2>1, <2>2, <2>3, <2>4
<1>6. ToSet(c[N]) = In(N)
  <2> HIDE DEF T
  <2>1. N \in 0 .. N
    BY <1>1
  <2>2. \A n \in 0 .. N : n \in T
    BY <1>1, <1>4, <1>5, UpTo
  <2> HIDE DEF In
  <2> QED
    BY <2>1, <2>2 DEF T
<1>7. c[N] \in Seq(S)
  <2>1. N \in 0 .. N
    BY <1>1
  <2> QED
    BY <2>1
<1> QED
  BY <1>1, <1>3, <1>6, <1>7, Zenon

-----------------------------------------------------------------------------
(* Files read line by line                                                 *)

\* What was made of a file, line by line.
ReadBy(r, file, st, lines) ==
  /\ ReadLines(file, st, lines) = r[Len(lines)] /\ r[0] = st
  /\ \A k \in 1 .. Len(lines) : r[k] = ReadFileLine(file, r[k - 1], lines[k])

\* A file has such intermediate results.
LEMMA ReadIs ==
  ASSUME NEW file, NEW st, NEW lines, Len(lines) \in Nat
  PROVE  \E r : ReadBy(r, file, st, lines)
<1> DEFINE N == Len(lines)
           Is(r, m) == r = [k \in 0 .. m |->
                              IF k = 0 THEN st ELSE ReadFileLine(file, r[k - 1], lines[k])]
           T == {m \in 0 .. N : \E r : Is(r, m)}
<1>1. 0 \in T
  <2> DEFINE r == [k \in 0 .. 0 |-> st]
             h == [k \in 0 .. 0 |-> IF k = 0 THEN st ELSE ReadFileLine(file, r[k - 1], lines[k])]
  <2>1. \A k \in 0 .. 0 : k = 0
    OBVIOUS
  <2>2. r = h
    BY <2>1
  <2> HIDE DEF r
  <2>3. Is(r, 0)
    BY <2>2
  <2> QED
    BY <2>3
<1>2. ASSUME NEW m \in 1 .. N, m - 1 \in T PROVE m \in T
  <2>1. PICK f : Is(f, m - 1)
    BY <1>2
  <2> DEFINE g == [k \in 0 .. m |-> IF k = m THEN ReadFileLine(file, f[m - 1], lines[m]) ELSE f[k]]
             h == [k \in 0 .. m |-> IF k = 0 THEN st ELSE ReadFileLine(file, g[k - 1], lines[k])]
  <2>2. m - 1 \in 0 .. m - 1 /\ m \in Nat /\ m # 0
    OBVIOUS
  <2>3. \A k \in 0 .. m - 1 : g[k] = f[k]
    BY <2>2
  <2>4. ASSUME NEW k \in 0 .. m PROVE g[k] = h[k]
    <3>1. CASE k = m
      <4>1. g[k - 1] = f[m - 1] /\ k # 0
        BY <2>2, <2>3, <3>1
      <4> QED
        BY <3>1, <4>1
    <3>2. CASE k # m
      <4>1. k \in 0 .. m - 1 /\ (k # 0 => k - 1 \in 0 .. m - 1)
        BY <2>2, <3>2
      <4>2. f[k] = IF k = 0 THEN st ELSE ReadFileLine(file, f[k - 1], lines[k])
        BY <2>1, <4>1
      <4>3. g[k] = f[k] /\ (k # 0 => g[k - 1] = f[k - 1])
        BY <2>3, <4>1
      <4> QED
        BY <4>2, <4>3
    <3> QED
      BY <3>1, <3>2
  <2>5. g = h
    BY <2>4
  <2> HIDE DEF g
  <2>6. Is(g, m)
    BY <2>5
  <2>7. m \in 0 .. N
    OBVIOUS
  <2> HIDE DEF Is
  <2> QED
    BY <2>6, <2>7, Zenon
<1>3. N \in T
  <2> HIDE DEF T
  <2>1. N \in 0 .. N
    OBVIOUS
  <2> QED
    BY <1>1, <1>2, <2>1, UpTo
<1>4. \E r : Is(r, N)
  BY <1>3, Zenon
<1> DEFINE reads == CHOOSE r : Is(r, N)
<1>5. Is(reads, N)
  BY <1>4, Zenon
<1>6. ReadLines(file, st, lines) = reads[N]
  BY Zenon DEF ReadLines
<1> HIDE DEF reads
<1>7. reads[0] = st /\ \A k \in 1 .. N : reads[k] = ReadFileLine(file, reads[k - 1], lines[k])
  BY <1>5
<1> QED
  BY <1>6, <1>7, Zenon DEF ReadBy

\* An empty file changes nothing.
LEMMA ReadNothing ==
  ASSUME NEW file, NEW st
  PROVE  ReadLines(file, st, <<>>) = st
<1>1. Len(<<>>) = 0 /\ Len(<<>>) \in Nat
  OBVIOUS
<1>2. PICK r : ReadBy(r, file, st, <<>>)
  BY <1>1, ReadIs
<1> QED
  BY <1>1, <1>2 DEF ReadBy

\* One line.
LEMMA ReadOne ==
  ASSUME NEW file, NEW st, NEW line
  PROVE  ReadLines(file, st, <<line>>) = ReadFileLine(file, st, line)
<1> DEFINE lines == <<line>>
<1>1. Len(lines) = 1 /\ Len(lines) \in Nat /\ lines[1] = line
  OBVIOUS
<1> HIDE DEF lines
<1>2. PICK r : ReadBy(r, file, st, lines)
  BY <1>1, ReadIs
<1>3. 1 \in 1 .. Len(lines) /\ 1 - 1 = 0
  BY <1>1
<1>4. r[1] = ReadFileLine(file, r[0], lines[1])
  BY <1>2, <1>3 DEF ReadBy
<1> QED
  BY <1>1, <1>2, <1>4, Zenon DEF lines, ReadBy

\* The second part of a file is read from what was made of the first.
LEMMA ReadConcat ==
  ASSUME NEW file, NEW st, NEW S, NEW a \in Seq(S), NEW b \in Seq(S)
  PROVE  ReadLines(file, st, a \o b) = ReadLines(file, ReadLines(file, st, a), b)
<1> DEFINE c == a \o b
           m == Len(a)
           n == Len(b)
<1>1. /\ m \in Nat /\ n \in Nat /\ Len(c) = m + n
      /\ \A i \in 1 .. m + n : c[i] = IF i <= m THEN a[i] ELSE b[i - m]
  BY ConcatProperties, LenProperties
<1> DEFINE mid == ReadLines(file, st, a)
<1>2. PICK ra : /\ mid = ra[m] /\ ra[0] = st
                /\ \A k \in 1 .. m : ra[k] = ReadFileLine(file, ra[k - 1], a[k])
  <2>1. PICK r : ReadBy(r, file, st, a)
    BY <1>1, ReadIs
  <2> QED
    BY <2>1, Zenon DEF ReadBy
<1>3. PICK rb : /\ ReadLines(file, mid, b) = rb[n] /\ rb[0] = mid
                /\ \A k \in 1 .. n : rb[k] = ReadFileLine(file, rb[k - 1], b[k])
  <2> HIDE DEF mid
  <2>1. PICK r : ReadBy(r, file, mid, b)
    BY <1>1, ReadIs
  <2> QED
    BY <2>1, Zenon DEF ReadBy
<1> HIDE DEF mid, m, n, c
<1>4. PICK rc : /\ ReadLines(file, st, c) = rc[m + n] /\ rc[0] = st
                /\ \A k \in 1 .. m + n : rc[k] = ReadFileLine(file, rc[k - 1], c[k])
  <2>1. Len(c) \in Nat
    BY <1>1
  <2>2. PICK r : ReadBy(r, file, st, c)
    BY <2>1, ReadIs
  <2> QED
    BY <1>1, <2>2 DEF ReadBy
<1> DEFINE A == {k \in 0 .. m : rc[k] = ra[k]}
           B == {k \in 0 .. n : rc[m + k] = rb[k]}
<1>5. \A k \in 0 .. m : k \in A
  <2>1. 0 \in A
    BY <1>1, <1>2, <1>4
  <2>2. ASSUME NEW k \in 1 .. m, k - 1 \in A PROVE k \in A
    <3>1. k \in 1 .. m + n /\ k \in 0 .. m /\ k <= m
      BY <1>1
    <3>2. rc[k] = ReadFileLine(file, rc[k - 1], a[k]) /\ rc[k - 1] = ra[k - 1]
      BY <1>1, <1>4, <2>2, <3>1
    <3> QED
      BY <1>2, <3>1, <3>2
  <2> HIDE DEF A
  <2> QED
    BY <1>1, <2>1, <2>2, UpTo
<1>6. \A k \in 0 .. n : k \in B
  <2>1. 0 \in B
    <3>1. m \in A /\ m + 0 = m /\ 0 \in 0 .. n
      BY <1>1, <1>5
    <3> QED
      BY <1>2, <1>3, <3>1
  <2>2. ASSUME NEW k \in 1 .. n, k - 1 \in B PROVE k \in B
    <3>1. m + k \in 1 .. m + n /\ k \in 0 .. n /\ ~ (m + k <= m) /\ (m + k) - m = k
          /\ (m + k) - 1 = m + (k - 1)
      BY <1>1
    <3>2. c[m + k] = b[k]
      BY <1>1, <3>1
    <3>3. rc[m + k] = ReadFileLine(file, rc[m + (k - 1)], c[m + k])
      BY <1>4, <3>1
    <3>4. rc[m + (k - 1)] = rb[k - 1]
      BY <2>2
    <3>5. rb[k] = ReadFileLine(file, rb[k - 1], b[k])
      BY <1>3
    <3>6. rc[m + k] = rb[k]
      BY <3>2, <3>3, <3>4, <3>5, Zenon
    <3> QED
      BY <3>1, <3>6
  <2> HIDE DEF B
  <2> QED
    BY <1>1, <2>1, <2>2, UpTo
<1>7. n \in B
  BY <1>1, <1>6
<1> QED
  BY <1>3, <1>4, <1>7, Zenon DEF c, mid

\* The two parts of a concatenation.
LEMMA AfterConcat ==
  ASSUME NEW S, NEW a \in Seq(S), NEW b \in Seq(S)
  PROVE  /\ After(a \o b, Len(a)) = b /\ SubSeq(a \o b, 1, Len(a)) = a
         /\ Len(a \o b) = Len(a) + Len(b) /\ a \o b \in Seq(S)
<1>1. /\ a \o b \in Seq(S) /\ Len(a \o b) = Len(a) + Len(b) /\ Len(a) \in Nat /\ Len(b) \in Nat
      /\ \A i \in 1 .. Len(a) + Len(b) : (a \o b)[i] = IF i <= Len(a) THEN a[i] ELSE b[i - Len(a)]
  BY ConcatProperties, LenProperties
<1>2. SubSeq(a \o b, Len(a) + 1, Len(a) + Len(b)) = b
  BY EndOfConcat
<1>3. SubSeq(a \o b, 1, Len(a)) = a
  <2> DEFINE w == a \o b
             m == Len(a)
  <2>1. \A i \in 1 .. m : w[i] = a[i] /\ a[i] \in S
    BY <1>1, ElementOfSeq
  <2>2. a \in [1 .. m -> S] /\ m \in Nat
    BY LenProperties
  <2> HIDE DEF w, m
  <2>3. SubSeq(w, 1, m) = [i \in 1 .. m |-> w[1 + i - 1]]
    BY <2>2
  <2>4. \A i \in 1 .. m : w[1 + i - 1] = a[i]
    BY <2>1, <2>2
  <2> QED
    BY <2>2, <2>3, <2>4 DEF w, m
<1> QED
  BY <1>1, <1>2, <1>3, Zenon DEF After

\* A word before others.
LEMMA WordBefore ==
  ASSUME NEW S, NEW v \in S, NEW b \in Seq(S)
  PROVE  /\ (<<v>> \o b)[1] = v /\ Len(<<v>> \o b) = 1 + Len(b) /\ Len(b) \in Nat
         /\ After(<<v>> \o b, 1) = b /\ <<v>> \o b \in Seq(S)
         /\ \A k \in 1 .. Len(b) : (<<v>> \o b)[k + 1] = b[k]
<1> DEFINE a == <<v>>
<1>1. a \in Seq(S) /\ Len(a) = 1 /\ a[1] = v
  OBVIOUS
<1> HIDE DEF a
<1>2. /\ Len(a \o b) = Len(a) + Len(b) /\ Len(b) \in Nat
      /\ \A i \in 1 .. Len(a) + Len(b) : (a \o b)[i] = IF i <= Len(a) THEN a[i] ELSE b[i - Len(a)]
  BY <1>1, ConcatProperties, LenProperties
<1>3. (a \o b)[1] = v
  BY <1>1, <1>2
<1>4. \A k \in 1 .. Len(b) : (a \o b)[k + 1] = b[k]
  <2> SUFFICES ASSUME NEW k \in 1 .. Len(b) PROVE (a \o b)[k + 1] = b[k]
    OBVIOUS
  <2>1. k + 1 \in 1 .. Len(a) + Len(b) /\ ~ (k + 1 <= Len(a)) /\ (k + 1) - Len(a) = k
    BY <1>1, <1>2
  <2> QED
    BY <1>2, <2>1
<1>5. After(a \o b, 1) = b /\ a \o b \in Seq(S)
  BY <1>1, AfterConcat
<1> QED
  BY <1>1, <1>2, <1>3, <1>4, <1>5, Zenon DEF a

\* A word behind others.
LEMMA WordBehind ==
  ASSUME NEW S, NEW v \in S, NEW a \in Seq(S)
  PROVE  /\ Last(a \o <<v>>) = v /\ Front(a \o <<v>>) = a
         /\ Len(a \o <<v>>) = Len(a) + 1 /\ a \o <<v>> # <<>>
<1> DEFINE b == <<v>>
<1>1. b \in Seq(S) /\ Len(b) = 1 /\ b[1] = v
  OBVIOUS
<1> HIDE DEF b
<1>2. /\ Len(a \o b) = Len(a) + Len(b) /\ Len(a) \in Nat /\ Len(a) + Len(b) = Len(a) + 1
      /\ \A i \in 1 .. Len(a) + Len(b) : (a \o b)[i] = IF i <= Len(a) THEN a[i] ELSE b[i - Len(a)]
  <2>1. Len(a \o b) = Len(a) + Len(b) /\ Len(a) \in Nat
        /\ \A i \in 1 .. Len(a) + Len(b) : (a \o b)[i] = IF i <= Len(a) THEN a[i] ELSE b[i - Len(a)]
    BY <1>1, ConcatProperties, LenProperties
  <2> QED
    BY <1>1, <2>1
<1>3. (a \o b)[Len(a) + 1] = v
  <2>1. Len(a) + 1 \in 1 .. Len(a) + Len(b) /\ ~ (Len(a) + 1 <= Len(a)) /\ (Len(a) + 1) - Len(a) = 1
    BY <1>1, <1>2
  <2> QED
    BY <1>1, <1>2, <2>1
<1>4. (Len(a) + 1) - 1 = Len(a) /\ Len(a) + 1 # 0
  BY <1>2
<1>5. SubSeq(a \o b, 1, Len(a)) = a
  BY <1>1, AfterConcat
<1>6. a \o b # <<>>
  <2>1. Len(<<>>) = 0
    OBVIOUS
  <2> QED
    BY <1>2, <1>4, <2>1, Zenon
<1> QED
  BY <1>2, <1>3, <1>4, <1>5, <1>6, Zenon DEF Last, Front, b

\* What ends a text ends what it is the end of.
LEMMA LastOfConcat ==
  ASSUME NEW S, NEW a \in Seq(S), NEW b \in Seq(S), b # <<>>
  PROVE  Last(a \o b) = Last(b) /\ a \o b # <<>>
<1>1. /\ Len(a \o b) = Len(a) + Len(b) /\ Len(a) \in Nat /\ Len(b) \in Nat /\ Len(b) # 0
      /\ \A i \in 1 .. Len(a) + Len(b) : (a \o b)[i] = IF i <= Len(a) THEN a[i] ELSE b[i - Len(a)]
  BY ConcatProperties, LenProperties, EmptySeq
<1>2. /\ Len(a) + Len(b) \in 1 .. Len(a) + Len(b) /\ ~ (Len(a) + Len(b) <= Len(a))
      /\ (Len(a) + Len(b)) - Len(a) = Len(b) /\ Len(a) + Len(b) # 0
  BY <1>1
<1>3. (a \o b)[Len(a) + Len(b)] = b[Len(b)]
  BY <1>1, <1>2
<1>4. a \o b # <<>>
  <2>1. Len(<<>>) = 0
    OBVIOUS
  <2> QED
    BY <1>1, <1>2, <2>1, Zenon
<1> QED
  BY <1>1, <1>3, <1>4, Zenon DEF Last

\* A set with such an element has it as its minimum.
LEMMA LeastIs ==
  ASSUME NEW T \in SUBSET Nat, NEW x \in T, \A y \in T : x <= y
  PROVE  Min(T) = x
<1> DEFINE m == Min(T)
<1>1. m \in T
  BY LeastPlace
<1>2. \E z \in T : \A y \in T : z =< y
  OBVIOUS
<1>3. \A y \in T : m =< y
  BY <1>2, Zenon DEF Min
<1> HIDE DEF m
<1>4. m = x
  BY <1>1, <1>3
<1> QED
  BY <1>4 DEF m

\* The separator between a claim and its reason is found where the two meet.
LEMMA SeparatorFound ==
  ASSUME NEW S, NEW text \in Seq(S), NEW reason \in Seq(S), text # <<>>, reason # <<>>,
         NEW n \in 1 .. 3, Separators[n] \in S,
         \A m \in 1 .. n : ~ \E k \in 2 .. Len(text) : text[k] = Separators[m],
         \A m \in 1 .. n - 1 : Separators[m] \notin ToSet(Front(reason))
  PROVE  SeparatorPlace(text \o (<<Separators[n]>> \o reason)) = Len(text) + 1
<1> DEFINE sep(i) == Separators[i]
           rest == <<sep(n)>> \o reason
           body == text \o rest
           t == Len(text)
           r == Len(reason)
           SepAt(m) == {k \in 2 .. Len(body) - 1 : body[k] = Separators[m]}
           Kinds == {m \in DOMAIN Separators : SepAt(m) # {}}
<1>1. t \in Nat /\ r \in Nat /\ t # 0 /\ r # 0
  BY LenProperties, EmptySeq
<1>2. /\ rest \in Seq(S) /\ Len(rest) = 1 + r /\ rest[1] = sep(n)
      /\ \A k \in 1 .. r : rest[k + 1] = reason[k]
  <2> DEFINE v == sep(n)
  <2>1. v \in S
    OBVIOUS
  <2> HIDE DEF v
  <2>2. /\ (<<v>> \o reason)[1] = v /\ Len(<<v>> \o reason) = 1 + Len(reason)
        /\ <<v>> \o reason \in Seq(S)
        /\ \A k \in 1 .. Len(reason) : (<<v>> \o reason)[k + 1] = reason[k]
    BY <2>1, WordBefore
  <2> QED
    BY <2>2, Zenon DEF v
<1> HIDE DEF rest, t, r
<1>3. /\ Len(body) = t + (1 + r)
      /\ \A k \in 1 .. t + (1 + r) : body[k] = IF k <= t THEN text[k] ELSE rest[k - t]
  <2>1. /\ Len(body) = Len(text) + Len(rest)
        /\ \A k \in 1 .. Len(text) + Len(rest) : body[k] = IF k <= Len(text) THEN text[k] ELSE rest[k - Len(text)]
    BY <1>2, ConcatProperties
  <2> QED
    BY <1>2, <2>1, Zenon DEF t
<1> HIDE DEF body
<1>4. \A k \in 2 .. t : body[k] = text[k]
  BY <1>1, <1>3
<1>5. body[t + 1] = sep(n)
  BY <1>1, <1>2, <1>3
<1>6. \A k \in t + 2 .. t + r : body[k] = reason[k - (t + 1)] /\ k - (t + 1) \in 1 .. r - 1
  <2> SUFFICES ASSUME NEW k \in t + 2 .. t + r
               PROVE  body[k] = reason[k - (t + 1)] /\ k - (t + 1) \in 1 .. r - 1
    OBVIOUS
  <2>1. /\ k \in 1 .. t + (1 + r) /\ ~ (k <= t) /\ k - t = (k - (t + 1)) + 1
        /\ k - (t + 1) \in 1 .. r - 1 /\ k - (t + 1) \in 1 .. r
    BY <1>1
  <2>2. body[k] = rest[k - t]
    BY <1>3, <2>1
  <2>3. rest[(k - (t + 1)) + 1] = reason[k - (t + 1)]
    BY <1>2, <2>1
  <2> QED
    BY <2>1, <2>2, <2>3
<1>7. \A j \in 1 .. r - 1 : reason[j] \in ToSet(Front(reason))
  <2> SUFFICES ASSUME NEW j \in 1 .. r - 1 PROVE reason[j] \in ToSet(Front(reason))
    OBVIOUS
  <2>1. /\ Front(reason) = SubSeq(reason, 1, r - 1)
        /\ DOMAIN SubSeq(reason, 1, r - 1) = 1 .. r - 1
        /\ SubSeq(reason, 1, r - 1)[j] = reason[j]
    <3>1. SubSeq(reason, 1, r - 1) = [i \in 1 .. r - 1 |-> reason[1 + i - 1]]
      BY <1>1
    <3>2. 1 + j - 1 = j
      OBVIOUS
    <3> QED
      BY <3>1, <3>2, Zenon DEF Front, r
  <2> QED
    BY <2>1, Zenon DEF ToSet
<1>8. /\ DOMAIN Separators = 1 .. 3 /\ n \in DOMAIN Separators
      /\ \A m \in 1 .. 3 : Separators[m] = Separators[n] => m = n
  BY DEF Separators
<1>9. t + 1 \in SepAt(n)
  <2>1. t + 1 \in 2 .. Len(body) - 1
    BY <1>1, <1>3
  <2> QED
    BY <1>5, <2>1, Zenon
<1>10. \A k \in SepAt(n) : t + 1 <= k
  <2> SUFFICES ASSUME NEW k \in SepAt(n), ~ (t + 1 <= k) PROVE FALSE
    OBVIOUS
  <2>1. k \in 2 .. t
    BY <1>1
  <2>2. body[k] = Separators[n]
    OBVIOUS
  <2>3. n \in 1 .. n
    OBVIOUS
  <2> QED
    BY <1>4, <2>1, <2>2, <2>3, Zenon DEF t
<1>11. ASSUME NEW m \in 1 .. n - 1, NEW k \in SepAt(m) PROVE FALSE
  <2>1. k \in 2 .. t + r /\ body[k] = Separators[m] /\ m \in 1 .. n /\ m \in 1 .. 3 /\ m # n
    BY <1>1, <1>3
  <2>2. k \in 2 .. t \/ k = t + 1 \/ k \in t + 2 .. t + r
    BY <1>1, <2>1
  <2>3. CASE k \in 2 .. t
    BY <1>4, <2>1, <2>3, Zenon DEF t
  <2>4. CASE k = t + 1
    BY <1>5, <1>8, <2>1, <2>4, Zenon
  <2>5. CASE k \in t + 2 .. t + r
    BY <1>6, <1>7, <2>1, <2>5, Zenon
  <2> QED
    BY <2>2, <2>3, <2>4, <2>5
<1> HIDE DEF SepAt
<1>12. n \in Kinds /\ \A m \in Kinds : n <= m
  <2>1. n \in Kinds
    BY <1>8, <1>9, Zenon
  <2>2. ASSUME NEW m \in Kinds PROVE n <= m
    <3>1. m \in 1 .. 3 /\ SepAt(m) # {}
      BY <1>8
    <3>2. ~ (m \in 1 .. n - 1)
      BY <1>11, <3>1
    <3> QED
      BY <3>1, <3>2
  <2> QED
    BY <2>1, <2>2
<1>13. Min(Kinds) = n
  <2>1. Kinds \in SUBSET Nat
    BY <1>8
  <2> HIDE DEF Kinds
  <2> QED
    BY <1>12, <2>1, LeastIs
<1>14. Min(SepAt(n)) = t + 1
  <2>1. SepAt(n) \in SUBSET Nat
    BY <1>1, <1>3 DEF SepAt
  <2>2. t + 1 \in Nat
    BY <1>1
  <2> QED
    BY <1>9, <1>10, <2>1, LeastIs
<1>15. SeparatorPlace(body) = IF Kinds = {} THEN 0 ELSE Min(SepAt(Min(Kinds)))
  BY Zenon DEF SeparatorPlace, SepAt
<1>16. Kinds # {}
  BY <1>12
<1> HIDE DEF Kinds
<1> QED
  BY <1>13, <1>14, <1>15, <1>16, Zenon DEF body, rest, t

\* A text without separators has none.
LEMMA NoSeparator ==
  ASSUME NEW S, NEW text \in Seq(S),
         \A n \in 1 .. 3 : ~ \E k \in 2 .. Len(Front(text)) : Front(text)[k] = Separators[n]
  PROVE  SeparatorPlace(text) = 0
<1> DEFINE SepAt(m) == {k \in 2 .. Len(text) - 1 : text[k] = Separators[m]}
           Kinds == {m \in DOMAIN Separators : SepAt(m) # {}}
           t == Len(text)
<1>1. t \in Nat /\ DOMAIN Separators = 1 .. 3
  BY LenProperties DEF Separators
<1> HIDE DEF t
<1>2. \A k \in 2 .. t - 1 : k \in 2 .. Len(Front(text)) /\ Front(text)[k] = text[k]
  <2> SUFFICES ASSUME NEW k \in 2 .. t - 1
               PROVE  k \in 2 .. Len(Front(text)) /\ Front(text)[k] = text[k]
    OBVIOUS
  <2>1. t - 1 \in Nat /\ k \in 1 .. t - 1 /\ 1 + k - 1 = k
    BY <1>1
  <2>2. SubSeq(text, 1, t - 1) = [i \in 1 .. t - 1 |-> text[1 + i - 1]]
    BY <1>1
  <2>3. Len(SubSeq(text, 1, t - 1)) = t - 1
    BY <1>1, <2>1, <2>2
  <2>4. Front(text) = SubSeq(text, 1, t - 1)
    BY Zenon DEF Front, t
  <2> QED
    BY <2>1, <2>2, <2>3, <2>4
<1>3. ASSUME NEW m \in 1 .. 3, NEW k \in SepAt(m) PROVE FALSE
  <2>1. k \in 2 .. t - 1 /\ text[k] = Separators[m]
    BY DEF t
  <2> QED
    BY <1>2, <2>1, Zenon
<1>4. Kinds = {}
  <2> HIDE DEF SepAt
  <2> QED
    BY <1>1, <1>3
<1>5. SeparatorPlace(text) = IF Kinds = {} THEN 0 ELSE Min(SepAt(Min(Kinds)))
  BY Zenon DEF SeparatorPlace
<1> QED
  BY <1>4, <1>5, Zenon

\* A claim between quotation marks is what is between them.
LEMMA QuotedText ==
  ASSUME NEW S, Quote \in S, NEW item, item.claim \in Seq(S)
  PROVE  /\ RuleText(item) \in Seq(S)
         /\ item.claim # <<>> => RuleText(item) # <<>>
         /\ RuleIsWritten(item) /\ item.claim # <<>> => Unquote(RuleText(item)) = item.claim
<1> DEFINE q == Quote
           c == item.claim
           text == <<q>> \o c \o <<q>>
           n == Len(c)
<1>1. q \in S /\ c \in Seq(S)
  OBVIOUS
<1>2. CASE ~ item.quoted
  <2>1. RuleText(item) = c
    BY <1>2, Zenon DEF RuleText
  <2>2. ASSUME RuleIsWritten(item), c # <<>> PROVE Unquote(c) = c
    <3>1. ~ (c[1] = q /\ Last(c) = q)
      BY <1>2, <2>2, Zenon DEF RuleIsWritten
    <3> QED
      BY <3>1, Zenon DEF Unquote
  <2> QED
    BY <1>1, <2>1, <2>2, Zenon
<1>3. CASE item.quoted
  <2>1. RuleText(item) = text
    BY <1>3, Zenon DEF RuleText
  <2>2. n \in Nat /\ \A i \in 1 .. n : c[i] \in S
    BY <1>1, LenProperties
  <2> HIDE DEF q, c
  <2>3. /\ text \in Seq(S) /\ Len(text) = n + 2 /\ text[1] = q /\ text[n + 2] = q
        /\ \A i \in 1 .. n : text[i + 1] = c[i]
    BY <1>1, <2>2
  <2> HIDE DEF text, n
  <2>4. text # <<>> /\ Len(text) > 1 /\ Last(text) = q
    <3>1. text # <<>> /\ Len(text) > 1
      BY <2>2, <2>3
    <3> QED
      BY <2>3, <3>1, Zenon DEF Last
  <2>5. SubSeq(text, 2, Len(text) - 1) = c
    <3>1. Len(text) - 1 = n + 1
      BY <2>2, <2>3
    <3>2. SubSeq(text, 2, n + 1) = [i \in 1 .. n |-> text[2 + i - 1]]
      BY <2>2, <2>3
    <3>3. \A i \in 1 .. n : text[2 + i - 1] = c[i]
      BY <2>2, <2>3
    <3>4. c = [i \in 1 .. n |-> c[i]]
      BY <1>1 DEF n
    <3> QED
      BY <3>1, <3>2, <3>3, <3>4
  <2>6. Unquote(text) = c
    BY <2>3, <2>4, <2>5, Zenon DEF Unquote, q
  <2> QED
    BY <2>1, <2>3, <2>4, <2>6, Zenon DEF c
<1> QED
  BY <1>2, <1>3

RuleWords(item) ==
  UNION {ToSet(item.heading), ToSet(item.claim), {Quote}, ToSet(item.reason), ToSet(item.fuzz),
         ToSet(item.more), {"##", "-", "X", item.sep}}

\* The texts of a rule are sequences of its words.
LEMMA RuleTypes ==
  ASSUME NEW item, RuleIsWritten(item)
  PROVE  /\ item.heading \in Seq(RuleWords(item)) /\ RuleText(item) \in Seq(RuleWords(item))
         /\ item.reason \in Seq(RuleWords(item)) /\ item.fuzz \in Seq(RuleWords(item))
         /\ item.more \in Seq(RuleWords(item))
         /\ "##" \in RuleWords(item) /\ "-" \in RuleWords(item) /\ "X" \in RuleWords(item)
         /\ item.sep \in RuleWords(item)
<1> DEFINE W == RuleWords(item)
<1>1. /\ item.heading \in Seq(ToSet(item.heading)) /\ item.claim \in Seq(ToSet(item.claim))
      /\ item.reason \in Seq(ToSet(item.reason)) /\ item.fuzz \in Seq(ToSet(item.fuzz))
      /\ item.more \in Seq(ToSet(item.more))
  <2>1. \/ item.fuzz = <<>> \/ item.fuzz = <<"{fuzz: exact}">> \/ item.fuzz = <<"{fuzz: 3}">>
    BY DEF RuleIsWritten
  <2>2. ASSUME NEW a PROVE <<a>> \in Seq(ToSet(<<a>>))
    <3>1. <<a>> \in Seq({a}) /\ DOMAIN <<a>> = {1} /\ <<a>>[1] = a
      OBVIOUS
    <3>2. ToSet(<<a>>) = {a}
      BY <3>1 DEF ToSet
    <3> QED
      BY <3>1, <3>2
  <2>3. item.fuzz \in Seq(ToSet(item.fuzz))
    BY <2>1, <2>2, EmptySeq, Zenon
  <2> QED
    BY <2>3, Zenon DEF RuleIsWritten, Prose, IsSequence
<1>2. /\ ToSet(item.heading) \subseteq W /\ ToSet(item.claim) \subseteq W /\ ToSet(item.reason) \subseteq W
      /\ Quote \in W
      /\ ToSet(item.fuzz) \subseteq W /\ ToSet(item.more) \subseteq W
      /\ "##" \in W /\ "-" \in W /\ "X" \in W /\ item.sep \in W
  BY DEF RuleWords
<1> HIDE DEF W
<1>3. item.heading \in Seq(W)
  BY <1>1, <1>2, SeqMonotonic
<1>4. RuleText(item) \in Seq(W)
  <2>1. item.claim \in Seq(W)
    BY <1>1, <1>2, SeqMonotonic
  <2> QED
    BY <1>2, <2>1, QuotedText
<1>5. item.reason \in Seq(W)
  BY <1>1, <1>2, SeqMonotonic
<1>6. item.fuzz \in Seq(W)
  BY <1>1, <1>2, SeqMonotonic
<1>7. item.more \in Seq(W)
  BY <1>1, <1>2, SeqMonotonic
<1> QED
  BY <1>2, <1>3, <1>4, <1>5, <1>6, <1>7, Zenon DEF W

\* The rule that a body with or without an annotation is.
LEMMA ParsedBody ==
  ASSUME NEW words, NEW body, NEW fuzz,
         \/ /\ words # <<>> /\ Last(words) \in DOMAIN Annotation
            /\ body = Front(words) /\ fuzz = Annotation[Last(words)]
         \/ /\ ~ (words # <<>> /\ Last(words) \in DOMAIN Annotation)
            /\ body = words /\ fuzz = DefaultFuzzThreshold
  PROVE  /\ SeparatorPlace(body) = 0 =>
              ParseRuleBody(words) = [text |-> Unquote(body), reason |-> <<>>, fuzz |-> fuzz]
         /\ SeparatorPlace(body) # 0 =>
              ParseRuleBody(words) = [text |-> Unquote(SubSeq(body, 1, SeparatorPlace(body) - 1)),
                                      reason |-> After(body, SeparatorPlace(body)), fuzz |-> fuzz]
<1> DEFINE annotated == words # <<>> /\ Last(words) \in DOMAIN Annotation
           b == IF annotated THEN Front(words) ELSE words
           sep == SeparatorPlace(b)
           f == IF annotated THEN Annotation[Last(words)] ELSE DefaultFuzzThreshold
<1>1. ParseRuleBody(words) =
        [text |-> Unquote(IF sep = 0 THEN b ELSE SubSeq(b, 1, sep - 1)),
         reason |-> IF sep = 0 THEN <<>> ELSE After(b, sep), fuzz |-> f]
  BY Zenon DEF ParseRuleBody
<1>2. b = body /\ f = fuzz
  <2>1. CASE annotated
    BY <2>1, Zenon
  <2>2. CASE ~ annotated
    BY <2>2, Zenon
  <2> QED
    BY <2>1, <2>2, Zenon
<1> HIDE DEF b, f
<1>3. CASE SeparatorPlace(body) = 0
  <2>1. (IF sep = 0 THEN b ELSE SubSeq(b, 1, sep - 1)) = body
        /\ (IF sep = 0 THEN <<>> ELSE After(b, sep)) = <<>>
    BY <1>2, <1>3, Zenon
  <2> QED
    BY <1>1, <1>2, <1>3, <2>1, Zenon
<1>4. CASE SeparatorPlace(body) # 0
  <2>1. (IF sep = 0 THEN b ELSE SubSeq(b, 1, sep - 1)) = SubSeq(body, 1, SeparatorPlace(body) - 1)
        /\ (IF sep = 0 THEN <<>> ELSE After(b, sep)) = After(body, SeparatorPlace(body))
    BY <1>2, <1>4, Zenon
  <2> QED
    BY <1>1, <1>2, <1>4, <2>1, Zenon
<1> QED
  BY <1>3, <1>4

RuleTail(item) == IF item.reason = <<>> THEN <<>> ELSE <<item.sep>> \o item.reason
RuleOf(item, reason) == [text |-> item.claim, reason |-> reason, fuzz |-> Tolerated(item)]

\* The body of a rule is parsed into the rule that is meant.
LEMMA RuleBody ==
  ASSUME NEW item, RuleIsWritten(item), item.claim # <<>>
  PROVE  /\ ParseRuleBody((RuleText(item) \o RuleTail(item)) \o item.fuzz) = RuleOf(item, item.reason)
         /\ RuleText(item) \o RuleTail(item) \in Seq(RuleWords(item))
<1> DEFINE W == RuleWords(item)
           text == RuleText(item)
           reason == item.reason
           tail == RuleTail(item)
           body == text \o tail
           words == body \o item.fuzz
           place == SeparatorPlace(body)
<1>0. /\ text # <<>> /\ item.claim = Unquote(text)
  <2>1. item.claim \in Seq(ToSet(item.claim)) /\ ToSet(item.claim) \subseteq W /\ Quote \in W
    BY DEF RuleIsWritten, IsSequence, RuleWords
  <2> HIDE DEF W
  <2>2. item.claim \in Seq(W)
    BY <2>1, SeqMonotonic
  <2> QED
    BY <2>1, <2>2, QuotedText, Zenon
<1>1. /\ text \in Seq(W) /\ reason \in Seq(W) /\ item.fuzz \in Seq(W) /\ item.sep \in W /\ text # <<>>
  BY <1>0, RuleTypes, Zenon
<1>2. /\ item.claim = Unquote(text)
      /\ \/ /\ item.fuzz = <<>> /\ Tolerated(item) = DefaultFuzzThreshold
            /\ Last(IF reason = <<>> THEN text ELSE reason) \notin DOMAIN Annotation
         \/ \E w \in DOMAIN Annotation : item.fuzz = <<w>> /\ Tolerated(item) = Annotation[w]
  <2> DEFINE exact == "{fuzz: exact}"
             three == "{fuzz: 3}"
  <2>1. /\ exact \in DOMAIN Annotation /\ Annotation[exact] = 0
        /\ three \in DOMAIN Annotation /\ Annotation[three] = 3
        /\ exact # three
    BY DEF Annotation
  <2>2. <<exact>> # <<three>> /\ <<exact>> # <<>> /\ <<three>> # <<>>
    BY <2>1
  <2>3. item.fuzz = <<>> \/ item.fuzz = <<exact>> \/ item.fuzz = <<three>>
    BY DEF RuleIsWritten
  <2>4. /\ item.fuzz = <<exact>> => Tolerated(item) = 0
        /\ item.fuzz = <<three>> => Tolerated(item) = 3
        /\ item.fuzz = <<>> => Tolerated(item) = DefaultFuzzThreshold
    BY <2>2 DEF Tolerated
  <2>5. item.fuzz = <<>> => Last(IF reason = <<>> THEN text ELSE reason) \notin DOMAIN Annotation
    BY Zenon DEF RuleIsWritten
  <2> HIDE DEF exact, three
  <2> QED
    BY <1>0, <2>1, <2>3, <2>4, <2>5, Zenon
<1>3. IF reason = <<>>
      THEN \A n \in DOMAIN Separators : ~ \E k \in 2 .. Len(Front(text)) : Front(text)[k] = Separators[n]
      ELSE \E n \in DOMAIN Separators :
             /\ item.sep = Separators[n]
             /\ \A m \in 1 .. n : ~ \E k \in 2 .. Len(text) : text[k] = Separators[m]
             /\ \A m \in 1 .. n - 1 : Separators[m] \notin ToSet(Front(reason))
  BY Zenon DEF RuleIsWritten
<1>4. DOMAIN Separators = 1 .. 3
  BY DEF Separators
<1>5. tail \in Seq(W) /\ (tail = <<>> <=> reason = <<>>)
  <2>1. CASE reason = <<>>
    BY <2>1, EmptySeq, Zenon DEF RuleTail
  <2>2. CASE reason # <<>>
    <3>1. tail = <<item.sep>> \o reason
      BY <2>2, Zenon DEF RuleTail
    <3>2. <<item.sep>> \o reason \in Seq(W) /\ Len(<<item.sep>> \o reason) = 1 + Len(reason) /\ Len(reason) \in Nat
      BY <1>1, WordBefore
    <3>3. Len(<<>>) = 0 /\ 1 + Len(reason) # 0
      BY <3>2
    <3> QED
      BY <2>2, <3>1, <3>2, <3>3, Zenon
  <2> QED
    BY <2>1, <2>2
<1>6. body \in Seq(W)
  BY <1>1, <1>5, ToSetConcat
<1>7. body # <<>> /\ Last(body) = Last(IF reason = <<>> THEN text ELSE reason)
  <2>1. CASE reason = <<>>
    <3>1. body = text
      BY <1>1, <1>5, <2>1, ConcatEmptySeq
    <3> QED
      BY <1>1, <2>1, <3>1, Zenon
  <2>2. CASE reason # <<>>
    <3>1. tail = <<item.sep>> \o reason
      BY <2>2, Zenon DEF RuleTail
    <3> DEFINE one == <<item.sep>>
    <3>2. one \in Seq(W)
      BY <1>1
    <3> HIDE DEF one
    <3>3. Last(one \o reason) = Last(reason) /\ one \o reason # <<>>
      BY <1>1, <2>2, <3>2, LastOfConcat
    <3>4. Last(body) = Last(tail) /\ body # <<>>
      BY <1>1, <1>5, <2>2, LastOfConcat
    <3> QED
      BY <2>2, <3>1, <3>3, <3>4, Zenon DEF one
  <2> QED
    BY <2>1, <2>2
<1> HIDE DEF body, tail
<1>8. \/ /\ words # <<>> /\ Last(words) \in DOMAIN Annotation
         /\ body = Front(words) /\ Tolerated(item) = Annotation[Last(words)]
      \/ /\ ~ (words # <<>> /\ Last(words) \in DOMAIN Annotation)
         /\ body = words /\ Tolerated(item) = DefaultFuzzThreshold
  <2>1. CASE /\ item.fuzz = <<>> /\ Tolerated(item) = DefaultFuzzThreshold
             /\ Last(IF reason = <<>> THEN text ELSE reason) \notin DOMAIN Annotation
    <3>1. words = body
      BY <1>6, <2>1, ConcatEmptySeq
    <3> QED
      BY <1>7, <2>1, <3>1, Zenon
  <2>2. CASE \E w \in DOMAIN Annotation : item.fuzz = <<w>> /\ Tolerated(item) = Annotation[w]
    <3>1. PICK w \in DOMAIN Annotation : item.fuzz = <<w>> /\ Tolerated(item) = Annotation[w]
      BY <2>2
    <3>2. w \in W
      <4>1. Len(<<w>>) = 1 /\ <<w>>[1] = w /\ 1 \in 1 .. 1
        OBVIOUS
      <4>2. 1 \in 1 .. Len(item.fuzz) /\ item.fuzz[1] = w
        BY <3>1, <4>1, Zenon
      <4>3. item.fuzz[1] \in W
        BY <1>1, <4>2, ElementOfSeq
      <4> QED
        BY <4>2, <4>3
    <3>3. Last(body \o <<w>>) = w /\ Front(body \o <<w>>) = body /\ body \o <<w>> # <<>>
      BY <1>6, <3>2, WordBehind
    <3> QED
      BY <3>1, <3>3, Zenon
  <2> QED
    BY <1>2, <2>1, <2>2, Zenon
<1> HIDE DEF words
<1>9. /\ place = 0 =>
           ParseRuleBody(words) = [text |-> Unquote(body), reason |-> <<>>, fuzz |-> Tolerated(item)]
      /\ place # 0 =>
           ParseRuleBody(words) = [text |-> Unquote(SubSeq(body, 1, place - 1)),
                                   reason |-> After(body, place), fuzz |-> Tolerated(item)]
  <2> DEFINE fuzz == Tolerated(item)
  <2> HIDE DEF fuzz
  <2>1. \/ /\ words # <<>> /\ Last(words) \in DOMAIN Annotation
           /\ body = Front(words) /\ fuzz = Annotation[Last(words)]
        \/ /\ ~ (words # <<>> /\ Last(words) \in DOMAIN Annotation)
           /\ body = words /\ fuzz = DefaultFuzzThreshold
    BY <1>8, Zenon DEF fuzz
  <2>2. /\ SeparatorPlace(body) = 0 =>
              ParseRuleBody(words) = [text |-> Unquote(body), reason |-> <<>>, fuzz |-> fuzz]
        /\ SeparatorPlace(body) # 0 =>
              ParseRuleBody(words) = [text |-> Unquote(SubSeq(body, 1, SeparatorPlace(body) - 1)),
                                      reason |-> After(body, SeparatorPlace(body)), fuzz |-> fuzz]
    BY <2>1, ParsedBody
  <2> QED
    BY <2>2, Zenon DEF fuzz
<1>10. ParseRuleBody(words) = RuleOf(item, reason)
  <2>1. CASE reason = <<>>
    <3>1. body = text
      BY <1>1, <1>5, <2>1, ConcatEmptySeq DEF body
    <3>2. \A n \in 1 .. 3 : ~ \E k \in 2 .. Len(Front(text)) : Front(text)[k] = Separators[n]
      BY <1>3, <1>4, <2>1, Zenon
    <3>3. SeparatorPlace(text) = 0
      BY <1>1, <3>2, NoSeparator
    <3>4. ParseRuleBody(words) = [text |-> Unquote(body), reason |-> <<>>, fuzz |-> Tolerated(item)]
      BY <1>9, <3>1, <3>3, Zenon
    <3> QED
      BY <1>2, <2>1, <3>1, <3>4, Zenon DEF RuleOf
  <2>2. CASE reason # <<>>
    <3>1. PICK n \in 1 .. 3 :
             /\ item.sep = Separators[n]
             /\ \A m \in 1 .. n : ~ \E k \in 2 .. Len(text) : text[k] = Separators[m]
             /\ \A m \in 1 .. n - 1 : Separators[m] \notin ToSet(Front(reason))
      BY <1>3, <1>4, <2>2, Zenon
    <3>2. Separators[n] \in W
      BY <1>1, <3>1
    <3>3. tail = <<Separators[n]>> \o reason
      BY <2>2, <3>1, Zenon DEF RuleTail, tail
    <3> HIDE DEF text, reason
    <3>4. SeparatorPlace(text \o (<<Separators[n]>> \o reason)) = Len(text) + 1
      BY <1>1, <2>2, <3>1, <3>2, SeparatorFound DEF text
    <3>5. place = Len(text) + 1
      BY <3>3, <3>4, Zenon DEF body
    <3>6. Len(text) \in Nat
      BY <1>1, LenProperties
    <3>7. place # 0 /\ place - 1 = Len(text)
      BY <3>5, <3>6
    <3>8. SubSeq(body, 1, Len(text)) = text
      BY <1>1, <1>5, AfterConcat DEF body
    <3>9. After(body, place) = reason
      <4> DEFINE v == Separators[n]
                 one == <<v>>
                 b == text \o one
      <4>1. one \in Seq(W) /\ Len(one) = 1
        BY <3>2
      <4> HIDE DEF one
      <4>2. b \in Seq(W) /\ Len(b) = Len(text) + 1
        BY <1>1, <4>1, AfterConcat
      <4>3. text \o (one \o reason) = (text \o one) \o reason
        BY <1>1, <4>1, ConcatAssociative
      <4>4. body = b \o reason
        BY <3>3, <4>3, Zenon DEF one, body
      <4> HIDE DEF b
      <4>5. After(b \o reason, Len(b)) = reason
        BY <1>1, <4>2, AfterConcat
      <4> QED
        BY <3>5, <4>2, <4>4, <4>5, Zenon
    <3> QED
      BY <1>2, <1>9, <3>7, <3>8, <3>9, Zenon DEF RuleOf, text
  <2> QED
    BY <2>1, <2>2
<1> QED
  BY <1>6, <1>10, Zenon DEF words, body, tail

RulesState(category, rules) == [ok |-> TRUE, category |-> category, rules |-> rules]

\* The fields of what is known of a rules file.
LEMMA RulesStateFields ==
  ASSUME NEW category, NEW rules, NEW next
  PROVE  /\ RulesState(category, rules).ok /\ RulesState(category, rules).category = category
         /\ RulesState(category, rules).rules = rules
         /\ [RulesState(category, rules) EXCEPT !.category = next] = RulesState(next, rules)
         /\ [RulesState(category, rules) EXCEPT !.rules = next] = RulesState(category, next)
<1> DEFINE st == RulesState(category, rules)
           yes == TRUE
<1>1. st = [ok |-> yes, category |-> category, rules |-> rules]
  BY Zenon DEF RulesState
<1> HIDE DEF st, yes
<1>2. st.ok = yes /\ st.category = category /\ st.rules = rules
  BY <1>1
<1>3. [st EXCEPT !.category = next] = [ok |-> yes, category |-> next, rules |-> rules]
  BY <1>1
<1>4. [st EXCEPT !.rules = next] = [ok |-> yes, category |-> category, rules |-> next]
  BY <1>1
<1> QED
  BY <1>2, <1>3, <1>4, Zenon DEF RulesState, st, yes

\* A rule with a longer reason.
LEMMA ReasonContinued ==
  ASSUME NEW category, NEW text, NEW reason, NEW fuzz, NEW more,
         NEW old, old = [category |-> category, rule |-> [text |-> text, reason |-> reason, fuzz |-> fuzz]]
  PROVE  /\ old.rule.reason = reason
         /\ [old EXCEPT !.rule.reason = more]
              = [category |-> category, rule |-> [text |-> text, reason |-> more, fuzz |-> fuzz]]
<1>1. old.rule.reason = reason
  OBVIOUS
<1>2. [old EXCEPT !.rule.reason = more] = [old EXCEPT !.rule = [old.rule EXCEPT !.reason = more]]
  OBVIOUS
<1>3. [old.rule EXCEPT !.reason = more] = [text |-> text, reason |-> more, fuzz |-> fuzz]
  OBVIOUS
<1>4. [old EXCEPT !.rule = [text |-> text, reason |-> more, fuzz |-> fuzz]] = [category |-> category, rule |-> [text |-> text, reason |-> more, fuzz |-> fuzz]]
  OBVIOUS
<1> QED
  BY <1>1, <1>2, <1>3, <1>4, Zenon

\* An EXCEPT of the last reason, one level at a time.
LEMMA DeepReason ==
  ASSUME NEW st, NEW last, NEW words
  PROVE  [st EXCEPT !.rules[last].rule.reason = @ \o words]
           = [st EXCEPT !.rules = [st.rules EXCEPT ![last] =
                [st.rules[last] EXCEPT !.rule.reason = st.rules[last].rule.reason \o words]]]
OBVIOUS

\* A line of do-not-claim.md is read by ReadRuleLine.
LEMMA ReadsRuleLine ==
  ASSUME NEW st, NEW line
  PROVE  ReadFileLine("rules", st, line) = ReadRuleLine(st, line)
<1>1. "rules" # "stories"
  OBVIOUS
<1> QED
  BY <1>1, Zenon DEF ReadFileLine

\* The head of a line is that of its words.
LEMMA StartsIs ==
  ASSUME NEW indented, NEW words, NEW heads
  PROVE  /\ Starts(Line(indented, words), heads) <=> Len(words) > 1 /\ words[1] \in heads
         /\ Line(indented, words).words = words /\ Line(indented, words).indented = indented
<1>1. Line(indented, words).words = words /\ Line(indented, words).indented = indented
  BY DEF Line
<1> QED
  BY <1>1, Zenon DEF Starts

\* A heading is the category from there on.
LEMMA RuleHeading ==
  ASSUME NEW W, "##" \in W, NEW heading \in Seq(W), heading # <<>>, NEW category, NEW rules
  PROVE  ReadRuleLine(RulesState(category, rules), Line(FALSE, <<"##">> \o heading))
           = RulesState(heading, rules)
<1> DEFINE hash == "##"
           words == <<hash>> \o heading
           line == Line(FALSE, words)
           st == RulesState(category, rules)
<1>1. words[1] = hash /\ Len(words) = 1 + Len(heading) /\ Len(heading) \in Nat /\ After(words, 1) = heading
  <2>1. hash \in W
    OBVIOUS
  <2> HIDE DEF hash
  <2> QED
    BY <2>1, WordBefore
<1>2. Len(heading) # 0
  BY EmptySeq
<1> HIDE DEF words
<1>3. Len(words) > 1
  <2> HIDE DEF hash
  <2> QED
    BY <1>1, <1>2
<1>4. Starts(line, {"##"}) /\ line.words = words
  BY <1>1, <1>3, StartsIs, Zenon DEF hash
<1>5. st.ok /\ [st EXCEPT !.category = heading] = RulesState(heading, rules)
  BY RulesStateFields
<1> HIDE DEF st, line
<1>6. ReadRuleLine(st, line) = [st EXCEPT !.category = After(line.words, 1)]
  BY <1>4, <1>5, Zenon DEF ReadRuleLine
<1> QED
  BY <1>1, <1>4, <1>5, <1>6, Zenon DEF st, line, words, hash

\* Prose changes nothing.
LEMMA RuleProse ==
  ASSUME NEW words, ~ Starts(Line(FALSE, words), {"##"}),
         ~ (Starts(Line(FALSE, words), {"-", "*"}) /\ words[2] \in Markers),
         NEW category, NEW rules
  PROVE  ReadRuleLine(RulesState(category, rules), Line(FALSE, words)) = RulesState(category, rules)
<1> DEFINE line == Line(FALSE, words)
           st == RulesState(category, rules)
<1>1. line.words = words /\ ~ line.indented
  BY StartsIs
<1>2. st.ok
  BY RulesStateFields
<1> HIDE DEF line, st
<1>3. ~ Starts(line, {"##"}) /\ ~ (Starts(line, {"-", "*"}) /\ line.words[2] \in Markers)
  BY <1>1, Zenon DEF line
<1>4. CASE Starts(line, {"-", "*"})
  BY <1>2, <1>3, <1>4, Zenon DEF ReadRuleLine, line, st
<1>5. CASE ~ Starts(line, {"-", "*"})
  BY <1>1, <1>2, <1>3, <1>5, Zenon DEF ReadRuleLine, line, st
<1> QED
  BY <1>4, <1>5

\* A marked bullet adds its rule.
LEMMA RuleBullet ==
  ASSUME NEW W, "-" \in W, "X" \in W, NEW body \in Seq(W), NEW rule, ParseRuleBody(body) = rule,
         rule.text # <<>>, body # <<>>, NEW category, NEW rules
  PROVE  ReadRuleLine(RulesState(category, rules), Line(FALSE, <<"-", "X">> \o body))
           = RulesState(category, Append(rules, [category |-> category, rule |-> rule]))
<1> DEFINE dash == "-"
           mark == "X"
           two == <<dash, mark>>
           words == two \o body
           line == Line(FALSE, words)
           st == RulesState(category, rules)
<1>1. /\ words[1] = dash /\ words[2] = mark /\ Len(words) > 1 /\ After(words, 2) = body
  <2>1. two \in Seq(W) /\ Len(two) = 2 /\ two[1] = dash /\ two[2] = mark
    <3>1. dash \in W /\ mark \in W
      OBVIOUS
    <3> HIDE DEF dash, mark
    <3> QED
      BY <3>1
  <2> HIDE DEF two, dash, mark
  <2>2. /\ Len(words) = Len(two) + Len(body) /\ Len(body) \in Nat
        /\ \A i \in 1 .. Len(two) + Len(body) : words[i] = IF i <= Len(two) THEN two[i] ELSE body[i - Len(two)]
    BY <2>1, ConcatProperties, LenProperties
  <2>3. After(words, Len(two)) = body
    BY <2>1, AfterConcat
  <2> HIDE DEF words
  <2>4. 1 \in 1 .. Len(two) + Len(body) /\ 2 \in 1 .. Len(two) + Len(body) /\ 1 <= Len(two) /\ 2 <= Len(two)
        /\ Len(words) > 1
    BY <2>1, <2>2
  <2> QED
    BY <2>1, <2>2, <2>3, <2>4
<1> HIDE DEF words, two
<1>2. dash # "##" /\ dash \in {"-", "*"} /\ mark \in Markers
  BY DEF Markers
<1>3. /\ line.words = words /\ ~ Starts(line, {"##"}) /\ Starts(line, {"-", "*"})
      /\ line.words[2] \in Markers
  <2>1. line.words = words
    BY StartsIs, Zenon
  <2>2. Starts(line, {"##"}) <=> Len(words) > 1 /\ words[1] \in {"##"}
    BY StartsIs, Zenon
  <2>3. Starts(line, {"-", "*"}) <=> Len(words) > 1 /\ words[1] \in {"-", "*"}
    BY StartsIs, Zenon
  <2> HIDE DEF line, dash, mark
  <2> QED
    BY <1>1, <1>2, <2>1, <2>2, <2>3, Zenon
<1> DEFINE next == Append(rules, [category |-> category, rule |-> rule])
<1>4. st.ok /\ st.category = category /\ st.rules = rules
      /\ [st EXCEPT !.rules = next] = RulesState(category, next)
  <2> HIDE DEF next
  <2> QED
    BY RulesStateFields
<1> HIDE DEF st, line, dash, mark
<1>5. ParseRuleBody(After(line.words, 2)) = rule
  BY <1>1, <1>3, Zenon
<1>6. ReadRuleLine(st, line)
        = [st EXCEPT !.rules = Append(st.rules, [category |-> st.category,
                                                 rule |-> ParseRuleBody(After(line.words, 2))])]
  BY <1>3, <1>4, <1>5, Zenon DEF ReadRuleLine
<1>7. ReadRuleLine(st, line) = RulesState(category, Append(rules, [category |-> category, rule |-> rule]))
  BY <1>4, <1>5, <1>6, Zenon
<1> QED
  BY <1>7, Zenon DEF st, line, words, two, dash, mark

RuleEntry(category, item, reason) == [category |-> category, rule |-> RuleOf(item, reason)]

Indented(words) == Line(TRUE, words)

\* An indented line that only continues what is above.
Continues(words) ==
  ~ Starts(Line(TRUE, words), {"##"}) /\ ~ Starts(Line(TRUE, words), {"-", "*"})

\* An indented line goes on with the reason of the last rule.
LEMMA RuleContinued ==
  ASSUME NEW T, NEW rules \in Seq(T), NEW category, NEW words, NEW item, NEW reason, Continues(words)
  PROVE  ReadRuleLine(RulesState(category, Append(rules, RuleEntry(category, item, reason))), Indented(words))
           = RulesState(category, Append(rules, RuleEntry(category, item, reason \o words)))
<1> DEFINE text == item.claim
           fuzz == Tolerated(item)
           old == RuleEntry(category, item, reason)
           new == RuleEntry(category, item, reason \o words)
<1>0. /\ old = [category |-> category, rule |-> [text |-> text, reason |-> reason, fuzz |-> fuzz]]
      /\ new = [category |-> category, rule |-> [text |-> text, reason |-> reason \o words, fuzz |-> fuzz]]
  BY Zenon DEF RuleOf, RuleEntry
<1>9. Indented(words) = Line(TRUE, words)
  BY Zenon DEF Indented
<1> HIDE DEF text, fuzz, old, new
<1> DEFINE line == Line(TRUE, words)
           st == RulesState(category, Append(rules, old))
           U == T \cup {old, new}
           all == Append(rules, old)
           last == Len(all)
<1>1. line.words = words /\ line.indented
  BY StartsIs
<1>2. st.ok /\ st.rules = all
  <2>1. st = RulesState(category, all)
    BY Zenon
  <2> HIDE DEF st, all
  <2> QED
    BY <2>1, RulesStateFields
<1>3. rules \in Seq(U) /\ old \in U /\ new \in U
  <2>1. T \subseteq U
    OBVIOUS
  <2> HIDE DEF U
  <2> QED
    BY <2>1, SeqMonotonic DEF U
<1>4. /\ all \in Seq(U) /\ last = Len(rules) + 1 /\ Len(rules) \in Nat
      /\ all[last] = old /\ last > 0 /\ last \in 1 .. last
      /\ \A i \in 1 .. Len(rules) : all[i] = rules[i]
  <2> HIDE DEF U
  <2>1. /\ all \in Seq(U) /\ last = Len(rules) + 1 /\ Len(rules) \in Nat
        /\ all[Len(rules) + 1] = old /\ \A i \in 1 .. Len(rules) : all[i] = rules[i]
    BY <1>3, AppendProperties, LenProperties
  <2> HIDE DEF all
  <2> QED
    BY <2>1
<1>5. [all EXCEPT ![last] = new] = Append(rules, new)
  <2> DEFINE a == [all EXCEPT ![last] = new]
             b == Append(rules, new)
  <2>1. DOMAIN all = 1 .. last
    <3> HIDE DEF U, all
    <3> QED
      BY <1>4, LenProperties
  <2>2. /\ b \in Seq(U) /\ Len(b) = Len(rules) + 1 /\ b[Len(rules) + 1] = new
        /\ \A i \in 1 .. Len(rules) : b[i] = rules[i]
    <3> HIDE DEF U
    <3> QED
      BY <1>3, AppendProperties
  <2>3. DOMAIN b = 1 .. last
    <3> HIDE DEF U, b, all
    <3> QED
      BY <1>4, <2>2, LenProperties
  <2>4. a = [i \in 1 .. last |-> IF i = last THEN new ELSE all[i]]
    <3> HIDE DEF all
    <3> QED
      BY <2>1
  <2>5. b = [i \in 1 .. last |-> b[i]]
    <3> HIDE DEF U, all
    <3>1. b \in [1 .. Len(b) -> U]
      BY <2>2, LenProperties
    <3> HIDE DEF b
    <3> QED
      BY <1>4, <2>2, <3>1
  <2>6. \A i \in 1 .. last : b[i] = IF i = last THEN new ELSE all[i]
    <3> HIDE DEF b, all, last
    <3> SUFFICES ASSUME NEW i \in 1 .. last PROVE b[i] = IF i = last THEN new ELSE all[i]
      OBVIOUS
    <3>1. i = last \/ i \in 1 .. Len(rules)
      BY <1>4
    <3>2. CASE i = last
      BY <1>4, <2>2, <3>2, Zenon
    <3>3. CASE i # last
      BY <1>4, <2>2, <3>1, <3>3, Zenon
    <3> QED
      BY <3>2, <3>3
  <2> HIDE DEF b, all, last, a
  <2> QED
    BY <2>4, <2>5, <2>6, Zenon DEF a, b
<1>6. [st EXCEPT !.rules[last].rule.reason = @ \o words] = RulesState(category, Append(rules, new))
  <2> DEFINE more == reason \o words
             next == Append(rules, new)
  <2>1. old.rule.reason = reason /\ [old EXCEPT !.rule.reason = more] = new
    <3> HIDE DEF more
    <3>1. new = [category |-> category, rule |-> [text |-> text, reason |-> more, fuzz |-> fuzz]]
      BY <1>0, Zenon DEF more
    <3>2. old.rule.reason = reason
          /\ [old EXCEPT !.rule.reason = more]
              = [category |-> category, rule |-> [text |-> text, reason |-> more, fuzz |-> fuzz]]
      BY <1>0, ReasonContinued
    <3> QED
      BY <3>1, <3>2, Zenon
  <2>2. [st EXCEPT !.rules = next] = RulesState(category, next)
    <3> HIDE DEF next
    <3> QED
      BY RulesStateFields
  <2> HIDE DEF st, all, last, next
  <2>3. [st EXCEPT !.rules[last].rule.reason = @ \o words]
          = [st EXCEPT !.rules = [st.rules EXCEPT ![last] =
               [st.rules[last] EXCEPT !.rule.reason = st.rules[last].rule.reason \o words]]]
    BY DeepReason
  <2>4. st.rules[last] = old
    BY <1>2, <1>4, Zenon
  <2>5. [st.rules[last] EXCEPT !.rule.reason = st.rules[last].rule.reason \o words] = new
    BY <2>1, <2>4, Zenon
  <2> QED
    BY <1>2, <1>5, <2>2, <2>3, <2>5, Zenon DEF next
<1>7. ~ Starts(line, {"##"}) /\ ~ Starts(line, {"-", "*"})
  BY Zenon DEF Continues
<1>8. ReadRuleLine(st, line) = [st EXCEPT !.rules[last].rule.reason = @ \o line.words]
  <2>1. Len(st.rules) = last
    BY <1>2, Zenon
  <2> HIDE DEF st, line, last
  <2> QED
    BY <1>1, <1>2, <1>4, <1>7, <2>1, Zenon DEF ReadRuleLine
<1> HIDE DEF st, line, last
<1> QED
  BY <1>1, <1>6, <1>8, <1>9, Zenon DEF st, line, old, new

\* Two lines.
LEMMA ReadTwo ==
  ASSUME NEW file, NEW st, NEW a, NEW b
  PROVE  ReadLines(file, st, <<a, b>>) = ReadFileLine(file, ReadFileLine(file, st, a), b)
<1> DEFINE S == {a, b}
           one == <<a>>
           two == <<b>>
<1>1. one \in Seq(S) /\ two \in Seq(S)
  <2>1. a \in S /\ b \in S
    OBVIOUS
  <2> HIDE DEF S
  <2> QED
    BY <2>1
<1>5. one \o two = <<a, b>>
  <2>1. Len(one) = 1 /\ Len(two) = 1 /\ one[1] = a /\ two[1] = b
    OBVIOUS
  <2>2. one \o two = [i \in 1 .. 2 |-> IF i <= 1 THEN one[i] ELSE two[i - 1]]
    BY <2>1
  <2>3. <<a, b>> = [i \in 1 .. 2 |-> IF i = 1 THEN a ELSE b]
    OBVIOUS
  <2> HIDE DEF one, two
  <2>4. \A i \in 1 .. 2 : (IF i <= 1 THEN one[i] ELSE two[i - 1]) = IF i = 1 THEN a ELSE b
    BY <2>1
  <2> QED
    BY <2>2, <2>3, <2>4, Zenon
<1> HIDE DEF S, one, two
<1>2. ReadLines(file, st, one \o two) = ReadLines(file, ReadLines(file, st, one), two)
  BY <1>1, ReadConcat
<1>3. ReadLines(file, st, one) = ReadFileLine(file, st, a)
  BY ReadOne DEF one
<1>4. ReadLines(file, ReadFileLine(file, st, a), two) = ReadFileLine(file, ReadFileLine(file, st, a), b)
  BY ReadOne DEF two
<1> QED
  BY <1>2, <1>3, <1>4, <1>5, Zenon

CategoryAfter(item, category) == IF item.heading # <<>> THEN item.heading ELSE category
EntryOf(item, category) ==
  IF item.claim = <<>> THEN <<>>
  ELSE << RuleEntry(category, item, item.reason \o item.more) >>

Associates(a, b, c) == (a \o b) \o c = a \o (b \o c)

\* Concatenation is associative.
LEMMA ThreeTexts ==
  ASSUME NEW S, NEW a \in Seq(S), NEW b \in Seq(S), NEW c \in Seq(S)
  PROVE  Associates(a, b, c)
BY ConcatAssociative DEF Associates
FourAssociate(a, b, c, d) == a \o ((b \o c) \o d) = ((a \o b) \o c) \o d

\* ... and so for four texts.
LEMMA FourTexts ==
  ASSUME NEW S, NEW a \in Seq(S), NEW b \in Seq(S), NEW c \in Seq(S), NEW d \in Seq(S)
  PROVE  FourAssociate(a, b, c, d)
<1>1. Associates(a, b, c)
  BY ThreeTexts
<1>2. Associates(a, b \o c, d)
  <2> DEFINE bc == b \o c
  <2>1. bc \in Seq(S)
    BY ToSetConcat
  <2> HIDE DEF bc
  <2>2. Associates(a, bc, d)
    BY <2>1, ThreeTexts
  <2> QED
    BY <2>2 DEF bc
<1> QED
  BY <1>1, <1>2, Zenon DEF Associates, FourAssociate

\* A rule, of three lines at most.
LEMMA RuleIsRead ==
  ASSUME NEW item, RuleIsWritten(item), item.claim # <<>>, item.heading = <<>>,
         NEW T, NEW rules \in Seq(T), NEW category
  PROVE  ReadLines("rules", RulesState(category, rules), RuleLines(item))
           = RulesState(category, Append(rules, RuleEntry(category, item, item.reason \o item.more)))
<1> DEFINE W == RuleWords(item)
           dash == "-"
           mark == "X"
           two == <<dash, mark>>
           tail == RuleTail(item)
           body == (RuleText(item) \o tail) \o item.fuzz
           st == RulesState(category, rules)
           first == Line(FALSE, two \o body)
           blank == Line(TRUE, <<>>)
           last == Line(TRUE, item.more)
           Old(reason) == RuleEntry(category, item, reason)
           Next0(reason) == RulesState(category, Append(rules, Old(reason)))
<1>1. /\ RuleText(item) \in Seq(W) /\ item.reason \in Seq(W) /\ item.fuzz \in Seq(W) /\ item.more \in Seq(W)
      /\ RuleText(item) \o tail \in Seq(W) /\ dash \in W /\ mark \in W
      /\ ParseRuleBody(body) = RuleOf(item, item.reason)
  BY RuleTypes, RuleBody, Zenon
<1>2. tail \in Seq(W)
  <2>1. CASE item.reason = <<>>
    BY <2>1, EmptySeq, Zenon DEF RuleTail
  <2>2. CASE item.reason # <<>>
    <3>1. <<item.sep>> \o item.reason \in Seq(W)
      <4>1. item.sep \in W
        BY RuleTypes, Zenon
      <4> HIDE DEF W, dash, mark
      <4> QED
        BY <1>1, <4>1, WordBefore
    <3> QED
      BY <2>2, <3>1, Zenon DEF RuleTail
  <2> QED
    BY <2>1, <2>2
<1>3. two \in Seq(W)
  <2> HIDE DEF W, dash, mark
  <2> QED
    BY <1>1
<1>4. body \in Seq(W) /\ body # <<>>
  <2> HIDE DEF W, dash, mark, tail
  <2>1. body \in Seq(W)
    BY <1>1, ToSetConcat
  <2>2. RuleText(item) \o tail # <<>>
    <3>1. RuleText(item) # <<>>
      <4>1. item.claim \in Seq(ToSet(item.claim)) /\ ToSet(item.claim) \subseteq W /\ Quote \in W
        BY DEF RuleIsWritten, IsSequence, RuleWords, W
      <4>2. item.claim \in Seq(W)
        BY <4>1, SeqMonotonic
      <4> QED
        BY <4>1, <4>2, QuotedText, Zenon
    <3> QED
      BY <1>1, <1>2, <3>1, ConcatEqualIffEmpty
  <2>3. body # <<>>
    BY <1>1, <2>2, ConcatEqualIffEmpty
  <2> QED
    BY <2>1, <2>3
<1>5. first = Line(FALSE, <<"-", "X">> \o RuleText(item) \o tail \o item.fuzz)
  <2>1. two \o body = ((two \o RuleText(item)) \o tail) \o item.fuzz
    <3> DEFINE text == RuleText(item)
               fuzz == item.fuzz
    <3>1. two \in Seq(W) /\ text \in Seq(W) /\ tail \in Seq(W) /\ fuzz \in Seq(W)
      BY <1>1, <1>2, <1>3
    <3> HIDE DEF W, two, tail, text, fuzz
    <3>2. FourAssociate(two, text, tail, fuzz)
      BY <3>1, FourTexts
    <3> QED
      BY <3>2, Zenon DEF FourAssociate, text, fuzz
  <2> QED
    BY <2>1, Zenon DEF two
<1>6. RuleLines(item) = <<first>> \o (IF item.more = <<>> THEN <<>> ELSE <<blank, last>>)
  BY <1>5, Zenon DEF RuleLines, RuleTail
<1>7. ReadFileLine("rules", st, first) = Next0(item.reason)
  <2>1. RuleOf(item, item.reason).text # <<>>
    <3>1. item.claim # <<>>
      BY Zenon DEF RuleIsWritten
    <3>2. RuleOf(item, item.reason).text = item.claim
      BY DEF RuleOf
    <3> QED
      BY <3>1, <3>2
  <2> DEFINE rule == RuleOf(item, item.reason)
  <2> HIDE DEF rule, W, body
  <2>2. "-" \in W /\ "X" \in W
    BY <1>1
  <2>3. ParseRuleBody(body) = rule /\ rule.text # <<>>
    BY <1>1, <2>1, Zenon DEF rule
  <2>4. ReadRuleLine(RulesState(category, rules), Line(FALSE, <<"-", "X">> \o body))
           = RulesState(category, Append(rules, [category |-> category, rule |-> rule]))
    BY <1>4, <2>2, <2>3, RuleBullet, Zenon
  <2> QED
    BY <2>4, ReadsRuleLine, Zenon DEF rule, two, RuleEntry
<1>8. ASSUME NEW words, NEW reason, Continues(words)
      PROVE  ReadFileLine("rules", Next0(reason), Line(TRUE, words)) = Next0(reason \o words)
  <2>1. ReadRuleLine(Next0(reason), Indented(words)) = Next0(reason \o words)
    <3> HIDE DEF st, first, blank, last, body, two, dash, mark, tail, W
    <3> QED
      BY <1>8, RuleContinued
  <2> HIDE DEF Next0
  <2> QED
    BY <2>1, ReadsRuleLine, Zenon DEF Indented
<1>9. Continues(<<>>)
  <2>1. ~ (Len(<<>>) > 1)
    OBVIOUS
  <2> QED
    BY <2>1, StartsIs, Zenon DEF Continues
<1>10. Continues(item.more)
  <2>1. ~ Starts(Line(FALSE, item.more), {"##", "-", "*"})
    BY Zenon DEF RuleIsWritten, Prose
  <2>2. ~ (Len(item.more) > 1 /\ item.more[1] \in {"##", "-", "*"})
    <3> DEFINE words == item.more
               heads == {"##", "-", "*"}
    <3> HIDE DEF words, heads
    <3>1. ~ Starts(Line(FALSE, words), heads)
      BY <2>1, Zenon DEF words, heads
    <3>2. ~ (Len(words) > 1 /\ words[1] \in heads)
      BY <3>1, StartsIs, Zenon
    <3> QED
      BY <3>2, Zenon DEF words, heads
  <2>3. ~ (Len(item.more) > 1 /\ item.more[1] \in {"##"}) /\ ~ (Len(item.more) > 1 /\ item.more[1] \in {"-", "*"})
    BY <2>2, Zenon
  <2> QED
    BY <2>3, StartsIs, Zenon DEF Continues
<1>11. item.reason \o <<>> = item.reason
  BY <1>1, ConcatEmptySeq
<1> HIDE DEF first, blank, last, st, Next0, Old
<1>12. ReadLines("rules", st, RuleLines(item)) = Next0(item.reason \o item.more)
  <2>1. CASE item.more = <<>>
    <3>1. <<first>> \o <<>> = <<first>>
      OBVIOUS
    <3>2. RuleLines(item) = <<first>>
      BY <1>6, <2>1, <3>1, Zenon
    <3> QED
      BY <1>7, <1>11, <2>1, <3>2, ReadOne, Zenon
  <2>2. CASE item.more # <<>>
    <3> DEFINE a == <<first>>
               b == <<blank, last>>
               S == {first, blank, last}
               file == "rules"
    <3>1. a \in Seq(S) /\ b \in Seq(S)
      BY DEF S
    <3>2. RuleLines(item) = a \o b
      BY <1>6, <2>2, Zenon
    <3> HIDE DEF S, a, b, file
    <3>3. ReadLines(file, st, a \o b) = ReadLines(file, ReadLines(file, st, a), b)
      BY <3>1, ReadConcat
    <3>4. ReadLines(file, st, a) = Next0(item.reason)
      BY <1>7, ReadOne, Zenon DEF a, file
    <3>5. ReadFileLine(file, Next0(item.reason), blank) = Next0(item.reason)
      BY <1>8, <1>9, <1>11, Zenon DEF file, blank
    <3>6. ReadFileLine(file, Next0(item.reason), last) = Next0(item.reason \o item.more)
      BY <1>8, <1>10, Zenon DEF file, last
    <3>7. ReadLines(file, Next0(item.reason), b) = Next0(item.reason \o item.more)
      <4> DEFINE now == Next0(item.reason)
      <4> HIDE DEF now
      <4>1. ReadLines(file, now, b) = ReadFileLine(file, ReadFileLine(file, now, blank), last)
        BY ReadTwo DEF b
      <4> QED
        BY <3>5, <3>6, <4>1, Zenon DEF now
    <3> QED
      BY <3>2, <3>3, <3>4, <3>7, Zenon DEF file
  <2> QED
    BY <2>1, <2>2
<1> QED
  BY <1>12, Zenon DEF st, Next0, Old

\* An item of do-not-claim.md is read as the entry it stands for.
LEMMA RuleItemRead ==
  ASSUME NEW item, RuleIsWritten(item), NEW T, NEW rules \in Seq(T), NEW category
  PROVE  ReadLines("rules", RulesState(category, rules), RuleLines(item))
           = RulesState(CategoryAfter(item, category),
                        rules \o EntryOf(item, CategoryAfter(item, category)))
<1> DEFINE st == RulesState(category, rules)
<1>1. item.heading # <<>> => item.claim = <<>>
  BY Zenon DEF RuleIsWritten
<1>2. CASE item.heading # <<>>
  <2>1. RuleLines(item) = << Line(FALSE, <<"##">> \o item.heading) >>
    BY <1>2, Zenon DEF RuleLines
  <2>2. ReadRuleLine(st, Line(FALSE, <<"##">> \o item.heading)) = RulesState(item.heading, rules)
    <3> DEFINE W == RuleWords(item)
    <3>1. item.heading \in Seq(W) /\ "##" \in W
      BY RuleTypes, Zenon
    <3> HIDE DEF W
    <3> QED
      BY <1>2, <3>1, RuleHeading
  <2>3. CategoryAfter(item, category) = item.heading /\ EntryOf(item, CategoryAfter(item, category)) = <<>>
    BY <1>1, <1>2, Zenon DEF CategoryAfter, EntryOf
  <2>4. rules \o <<>> = rules
    BY ConcatEmptySeq
  <2> QED
    BY <2>1, <2>2, <2>3, <2>4, ReadOne, ReadsRuleLine, Zenon
<1>3. CASE item.heading = <<>> /\ item.claim = <<>>
  <2>1. RuleLines(item) = << Line(FALSE, item.reason) >>
    BY <1>3, Zenon DEF RuleLines
  <2>2. ~ Starts(Line(FALSE, item.reason), {"##"})
        /\ ~ (Starts(Line(FALSE, item.reason), {"-", "*"}) /\ item.reason[2] \in Markers)
    BY <1>3, Zenon DEF RuleIsWritten, Prose
  <2>3. ReadRuleLine(st, Line(FALSE, item.reason)) = st
    BY <2>2, RuleProse
  <2>4. CategoryAfter(item, category) = category /\ EntryOf(item, CategoryAfter(item, category)) = <<>>
    BY <1>3, Zenon DEF CategoryAfter, EntryOf
  <2>5. rules \o <<>> = rules
    BY ConcatEmptySeq
  <2> DEFINE line == Line(FALSE, item.reason)
  <2>6. ReadLines("rules", st, <<line>>) = ReadRuleLine(st, line)
    <3> HIDE DEF line, st
    <3> QED
      BY ReadOne, ReadsRuleLine, Zenon
  <2>7. ReadLines("rules", st, RuleLines(item)) = st
    BY <2>1, <2>3, <2>6, Zenon
  <2> QED
    BY <2>4, <2>5, <2>7, Zenon
<1>4. CASE item.heading = <<>> /\ item.claim # <<>>
  <2> DEFINE entry == RuleEntry(category, item, item.reason \o item.more)
             one == <<entry>>
             U == T \cup {entry}
  <2>1. ReadLines("rules", st, RuleLines(item)) = RulesState(category, Append(rules, entry))
    BY <1>4, RuleIsRead
  <2>2. CategoryAfter(item, category) = category /\ EntryOf(item, CategoryAfter(item, category)) = one
    BY <1>4, Zenon DEF CategoryAfter, EntryOf
  <2> HIDE DEF entry
  <2>3. entry \in U /\ T \subseteq U
    OBVIOUS
  <2> HIDE DEF U
  <2>4. rules \in Seq(U)
    BY <2>3, SeqMonotonic
  <2>5. Append(rules, entry) = rules \o one
    BY <2>3, <2>4, AppendIsConcat
  <2> QED
    BY <2>1, <2>2, <2>5, Zenon
<1> QED
  BY <1>2, <1>3, <1>4, Zenon

\* A sequence is one of its own elements.
LEMMA OwnElements ==
  ASSUME NEW S, NEW s \in Seq(S)
  PROVE  s \in Seq(ToSet(s))
<1>1. s \in [1 .. Len(s) -> S] /\ Len(s) \in Nat /\ DOMAIN s = 1 .. Len(s)
  BY LenProperties
<1>2. \A i \in 1 .. Len(s) : s[i] \in ToSet(s)
  BY <1>1, Zenon DEF ToSet
<1>3. s \in [1 .. Len(s) -> ToSet(s)]
  BY <1>1, <1>2
<1> QED
  BY <1>1, <1>3

\* The lines of items as one sequence of lines, item after item.
LEMMA LinesFlattened ==
  ASSUME NEW N \in Nat, NEW seqs, seqs = [k \in 1 .. N |-> seqs[k]],
         \A k \in 1 .. N : seqs[k] \in Seq(ToSet(seqs[k]))
  PROVE  \E L : \E c \in [0 .. N -> Seq(L)] :
           FlattenedBy(c, seqs) /\ Len(seqs) = N /\ \A k \in 1 .. N : seqs[k] \in Seq(L)
<1> DEFINE L == UNION {ToSet(seqs[k]) : k \in 1 .. N}
<1>1. DOMAIN seqs = 1 .. N
  <2> DEFINE f == [k \in 1 .. N |-> seqs[k]]
  <2>1. DOMAIN f = 1 .. N
    OBVIOUS
  <2> HIDE DEF f
  <2> QED
    BY <2>1 DEF f
<1>2. \A k \in 1 .. N : seqs[k] \in Seq(L)
  <2> SUFFICES ASSUME NEW k \in 1 .. N PROVE seqs[k] \in Seq(L)
    OBVIOUS
  <2>1. ToSet(seqs[k]) \subseteq L
    OBVIOUS
  <2>2. seqs[k] \in Seq(ToSet(seqs[k]))
    OBVIOUS
  <2> HIDE DEF L
  <2> QED
    BY <2>1, <2>2, SeqMonotonic
<1> HIDE DEF L
<1>3. seqs \in Seq(Seq(L))
  <2>1. seqs \in [1 .. N -> Seq(L)]
    BY <1>2
  <2> QED
    BY <2>1
<1>4. Len(seqs) = N
  BY <1>1, <1>3, LenProperties
<1>5. Len(seqs) = 0 => seqs = <<>>
  BY <1>3, EmptySeq
<1>6. \E c \in [0 .. Len(seqs) -> Seq(L)] : FlattenedBy(c, seqs)
  BY <1>2, <1>4, <1>5, FlattenPrefixes
<1> QED
  BY <1>2, <1>4, <1>6, Zenon

\* The lines of an item are a sequence.
LEMMA RuleLinesAre ==
  ASSUME NEW item
  PROVE  RuleLines(item) \in Seq(ToSet(RuleLines(item)))
<1>1. \E S : RuleLines(item) \in Seq(S)
  <2>1. ASSUME NEW a PROVE <<a>> \in Seq({a})
    OBVIOUS
  <2>2. CASE item.heading # <<>>
    BY <2>1, <2>2, Zenon DEF RuleLines
  <2>3. CASE item.heading = <<>> /\ item.claim = <<>>
    BY <2>1, <2>3, Zenon DEF RuleLines
  <2>4. CASE item.heading = <<>> /\ item.claim # <<>>
    <3>1. PICK a, b : RuleLines(item) = <<a>> \o (IF item.more = <<>> THEN <<>> ELSE <<Line(TRUE, <<>>), b>>)
      BY <2>4, Zenon DEF RuleLines
    <3> DEFINE blank == Line(TRUE, <<>>)
               S == {a, b, blank}
               one == <<a>>
               two == <<blank, b>>
    <3>2. a \in S /\ b \in S /\ blank \in S
      OBVIOUS
    <3> HIDE DEF S, blank
    <3>3. one \in Seq(S) /\ two \in Seq(S)
      BY <3>2
    <3> HIDE DEF one, two
    <3>4. one \o two \in Seq(S) /\ one \o <<>> \in Seq(S)
      BY <3>3, ToSetConcat, ConcatEmptySeq
    <3>5. RuleLines(item) = one \o two \/ RuleLines(item) = one \o <<>>
      BY <3>1, Zenon DEF one, two, blank
    <3> QED
      BY <3>4, <3>5, Zenon
  <2> QED
    BY <2>2, <2>3, <2>4, Zenon
<1> QED
  BY <1>1, OwnElements, Zenon

\* The heading that a rule is under.
Category(items, k) ==
  LET headings == {j \in 1 .. k : items[j].heading # <<>>}
  IN IF headings = {} THEN <<>> ELSE items[Max(headings)].heading

\* The category changes at a heading only.
LEMMA NextCategory ==
  ASSUME NEW items, NEW k \in Nat \ {0}
  PROVE  Category(items, k) = CategoryAfter(items[k], Category(items, k - 1))
<1> DEFINE Headings(n) == {j \in 1 .. n : items[j].heading # <<>>}
<1>1. CASE items[k].heading # <<>>
  <2> DEFINE H == Headings(k)
  <2>1. k \in H /\ H \in SUBSET (1 .. k)
    BY <1>1
  <2>3. \A j \in H : j \in Int /\ j <= k
    OBVIOUS
  <2> HIDE DEF H
  <2>2. Max(H) \in H /\ \A j \in H : Max(H) >= j
    BY <2>1, GreatestPlace
  <2> DEFINE m == Max(H)
  <2>4. m \in H /\ m >= k
    BY <2>1, <2>2
  <2> HIDE DEF m
  <2>5. m = k
    BY <2>3, <2>4
  <2> QED
    BY <1>1, <2>1, <2>5, Zenon DEF Category, CategoryAfter, H, m
<1>2. CASE items[k].heading = <<>>
  <2>1. Headings(k) = Headings(k - 1)
    <3>1. \A j \in Headings(k) : j \in 1 .. k - 1
      <4> SUFFICES ASSUME NEW j \in Headings(k) PROVE j \in 1 .. k - 1
        OBVIOUS
      <4>1. j \in 1 .. k /\ j # k
        BY <1>2
      <4> QED
        BY <4>1
    <3>2. \A j \in 1 .. k - 1 : j \in 1 .. k
      OBVIOUS
    <3> QED
      BY <3>1, <3>2, Zenon
  <2> QED
    BY <1>2, <2>1, Zenon DEF Category, CategoryAfter
<1> QED
  BY <1>1, <1>2

\* do-not-claim.md is read as the rules the operator wrote.
LEMMA RulesAreRead ==
  ASSUME input.items \in BoundedSeq(RuleItems, MaxItems)
  PROVE  LET parsed == ParseRules(FlattenSeq([k \in DOMAIN input.items |-> RuleLines(input.items[k])]))
         IN parsed.ok /\ parsed.rules = RulesWritten
<1> DEFINE items == input.items
           lines == [k \in DOMAIN items |-> RuleLines(items[k])]
           entries == [k \in DOMAIN items |-> EntryOf(items[k], Category(items, k))]
<1>1. PICK N \in Nat : items \in [1 .. N -> RuleItems]
  BY ContentAssumption DEF BoundedSeq, SeqOf
<1>2. DOMAIN items = 1 .. N /\ \A k \in 1 .. N : RuleIsWritten(items[k])
  BY <1>1, ContentAssumption
<1> HIDE DEF items
<1>3. lines = [k \in 1 .. N |-> lines[k]] /\ \A k \in 1 .. N : lines[k] = RuleLines(items[k])
  BY <1>2
<1>4. entries = [k \in 1 .. N |-> entries[k]]
      /\ \A k \in 1 .. N : entries[k] = EntryOf(items[k], Category(items, k))
  BY <1>2
<1> HIDE DEF lines, entries
<1>5. PICK L : \E c \in [0 .. N -> Seq(L)] :
        FlattenedBy(c, lines) /\ Len(lines) = N /\ \A k \in 1 .. N : lines[k] \in Seq(L)
  <2>1. \A k \in 1 .. N : lines[k] \in Seq(ToSet(lines[k]))
    BY <1>3, RuleLinesAre, Zenon
  <2> QED
    BY <1>3, <2>1, LinesFlattened
<1>6. PICK c \in [0 .. N -> Seq(L)] :
        FlattenedBy(c, lines) /\ Len(lines) = N /\ \A k \in 1 .. N : lines[k] \in Seq(L)
  BY <1>5, Zenon
<1>7. PICK E : \E d \in [0 .. N -> Seq(E)] :
        FlattenedBy(d, entries) /\ Len(entries) = N /\ \A k \in 1 .. N : entries[k] \in Seq(E)
  <2>1. \A k \in 1 .. N : entries[k] \in Seq(ToSet(entries[k]))
    <3> SUFFICES ASSUME NEW k \in 1 .. N PROVE entries[k] \in Seq(ToSet(entries[k]))
      OBVIOUS
    <3>1. ASSUME NEW a PROVE <<a>> \in Seq({a})
      OBVIOUS
    <3>2. entries[k] = <<>> \/ \E a : entries[k] = <<a>>
      BY <1>4, Zenon DEF EntryOf
    <3>3. \E S : entries[k] \in Seq(S)
      BY <3>1, <3>2, EmptySeq, Zenon
    <3> QED
      BY <3>3, OwnElements, Zenon
  <2> QED
    BY <1>4, <2>1, LinesFlattened
<1>8. PICK d \in [0 .. N -> Seq(E)] :
        FlattenedBy(d, entries) /\ Len(entries) = N /\ \A k \in 1 .. N : entries[k] \in Seq(E)
  BY <1>7, Zenon
<1> DEFINE SoFar(k) == ReadLines("rules", NoRules, c[k]) = RulesState(Category(items, k), d[k])
           T == {k \in 0 .. N : SoFar(k)}
<1>9. 0 \in T
  <2>1. c[0] = <<>> /\ d[0] = <<>>
    BY <1>6, <1>8, Zenon DEF FlattenedBy
  <2>2. Category(items, 0) = <<>>
    <3>1. 1 .. 0 = {}
      OBVIOUS
    <3>2. {j \in 1 .. 0 : items[j].heading # <<>>} = {}
      BY <3>1, Zenon
    <3> QED
      BY <3>2, Zenon DEF Category
  <2>3. NoRules = RulesState(<<>>, <<>>)
    BY Zenon DEF NoRules, RulesState
  <2>4. SoFar(0)
    BY <2>1, <2>2, <2>3, ReadNothing, Zenon
  <2>5. 0 \in 0 .. N
    BY <1>1
  <2> HIDE DEF SoFar
  <2> QED
    BY <2>4, <2>5
<1>10. ASSUME NEW k \in 1 .. N, k - 1 \in T PROVE k \in T
  <2>1. SoFar(k - 1) /\ k - 1 \in 0 .. N /\ k \in 0 .. N /\ k \in Nat \ {0}
    BY <1>1, <1>10
  <2>2. /\ c[k] = c[k - 1] \o lines[k] /\ c[k - 1] \in Seq(L) /\ lines[k] \in Seq(L)
        /\ d[k] = d[k - 1] \o entries[k] /\ d[k - 1] \in Seq(E)
    <3> HIDE DEF T
    <3> QED
      BY <1>6, <1>8, <2>1 DEF FlattenedBy
  <2> DEFINE before == c[k - 1]
             line == lines[k]
             known == d[k - 1]
             cat == Category(items, k - 1)
             file == "rules"
             none == NoRules
             item == items[k]
  <2>3. ReadLines(file, none, before \o line) = ReadLines(file, ReadLines(file, none, before), line)
    <3>1. before \in Seq(L) /\ line \in Seq(L)
      BY <2>2
    <3> HIDE DEF before, line, file, none, T
    <3> QED
      BY <3>1, ReadConcat
  <2>4. ReadLines(file, none, before) = RulesState(cat, known)
    BY <2>1, Zenon
  <2>5. ReadLines("rules", RulesState(cat, known), RuleLines(item))
           = RulesState(CategoryAfter(item, cat), known \o EntryOf(item, CategoryAfter(item, cat)))
    <3>1. RuleIsWritten(item) /\ known \in Seq(E)
      BY <1>2, <2>2
    <3> HIDE DEF known, cat, item
    <3> QED
      BY <3>1, RuleItemRead
  <2>6. CategoryAfter(item, cat) = Category(items, k)
    BY <2>1, NextCategory
  <2>7. line = RuleLines(item) /\ entries[k] = EntryOf(item, Category(items, k))
    BY <1>3, <1>4, Zenon
  <2>8. SoFar(k)
    BY <2>2, <2>3, <2>4, <2>5, <2>6, <2>7, Zenon
  <2> HIDE DEF SoFar
  <2> QED
    BY <2>1, <2>8
<1>11. SoFar(N)
  <2> HIDE DEF T
  <2>1. N \in 0 .. N
    BY <1>1
  <2>2. \A k \in 0 .. N : k \in T
    BY <1>1, <1>9, <1>10, UpTo
  <2> HIDE DEF SoFar
  <2> QED
    BY <2>1, <2>2 DEF T
<1>12. ParseRules(FlattenSeq(lines)) = RulesState(Category(items, N), FlattenSeq(entries))
  BY <1>6, <1>8, <1>11, Zenon DEF ParseRules, FlattenedBy
<1>13. FlattenSeq(entries) = RulesWritten
  <2>1. ASSUME NEW k \in DOMAIN items
        PROVE  EntryOf(items[k], Category(items, k))
                 = LET headings(n) == {j \in 1 .. n : items[j].heading # <<>>}
                       category(n) == IF headings(n) = {} THEN <<>> ELSE items[Max(headings(n))].heading
                   IN IF items[k].claim = <<>> THEN <<>>
                      ELSE << [category |-> category(k),
                               rule |-> [text |-> items[k].claim, reason |-> items[k].reason \o items[k].more,
                                         fuzz |-> Tolerated(items[k])]] >>
    BY Zenon DEF EntryOf, RuleEntry, RuleOf, Category
  <2> QED
    BY <2>1, Zenon DEF RulesWritten, items, entries
<1>14. RulesState(Category(items, N), FlattenSeq(entries)).ok
       /\ RulesState(Category(items, N), FlattenSeq(entries)).rules = FlattenSeq(entries)
  BY RulesStateFields
<1> QED
  BY <1>12, <1>13, <1>14, Zenon DEF items, lines

StoriesState(current, section, stories) ==
  [ok |-> TRUE, current |-> current, section |-> section, stories |-> stories]

StoryTold(name, short, long, drift, sensitivity) ==
  [name |-> name, short |-> short, long |-> long, drift |-> drift, sensitivity |-> sensitivity]

\* The fields of a state, and what a change of one makes of it.
StateFields(st, current, section, stories) ==
  st.ok /\ st.current = current /\ st.section = section /\ st.stories = stories

StateChanges(c, s, W, next) ==
  /\ StateFields(StoriesState(c, s, W), c, s, W)
  /\ [StoriesState(c, s, W) EXCEPT !.current = next] = StoriesState(next, s, W)
  /\ [StoriesState(c, s, W) EXCEPT !.section = next] = StoriesState(c, next, W)

\* The fields of what is known of a stories file.
LEMMA StoriesStateFields ==
  ASSUME NEW c, NEW s, NEW W, NEW next
  PROVE  StateChanges(c, s, W, next)
<1> DEFINE st == StoriesState(c, s, W)
           yes == TRUE
<1>1. st = [ok |-> yes, current |-> c, section |-> s, stories |-> W]
  BY Zenon DEF StoriesState
<1> HIDE DEF st, yes
<1>2. st.ok = yes /\ st.current = c /\ st.section = s /\ st.stories = W
  BY <1>1
<1>3. [st EXCEPT !.current = next] = [ok |-> yes, current |-> next, section |-> s, stories |-> W]
  BY <1>1
<1>4. [st EXCEPT !.section = next] = [ok |-> yes, current |-> c, section |-> next, stories |-> W]
  BY <1>1
<1> QED
  BY <1>2, <1>3, <1>4, Zenon DEF StoriesState, StateFields, StateChanges, st, yes

StoryChanges(c, s, W, field, words) ==
  /\ [StoriesState(c, s, W) EXCEPT !.current[field] = @ \o words]
       = StoriesState([c EXCEPT ![field] = @ \o words], s, W)
  /\ [StoriesState(c, s, W) EXCEPT !.current.drift = Append(@, words)]
       = StoriesState([c EXCEPT !.drift = Append(@, words)], s, W)
  /\ [StoriesState(c, s, W) EXCEPT !.current.sensitivity = words]
       = StoriesState([c EXCEPT !.sensitivity = words], s, W)

\* A change of the story under way, as a change of the state.
LEMMA StoryWithin ==
  ASSUME NEW c, NEW s, NEW W, NEW field, NEW words
  PROVE  StoryChanges(c, s, W, field, words)
<1> DEFINE st == StoriesState(c, s, W)
           a == [c EXCEPT ![field] = @ \o words]
           b == [c EXCEPT !.drift = Append(@, words)]
           d == [c EXCEPT !.sensitivity = words]
<1>1. st.current = c
  <2>1. StateChanges(c, s, W, c)
    BY StoriesStateFields
  <2> QED
    BY <2>1, Zenon DEF StateChanges, StateFields
<1>2. [st EXCEPT !.current = a] = StoriesState(a, s, W)
  <2> HIDE DEF a
  <2>1. StateChanges(c, s, W, a)
    BY StoriesStateFields
  <2> QED
    BY <2>1, Zenon DEF StateChanges
<1>3. [st EXCEPT !.current = b] = StoriesState(b, s, W)
  <2> HIDE DEF b
  <2>1. StateChanges(c, s, W, b)
    BY StoriesStateFields
  <2> QED
    BY <2>1, Zenon DEF StateChanges
<1>4. [st EXCEPT !.current = d] = StoriesState(d, s, W)
  <2> HIDE DEF d
  <2>1. StateChanges(c, s, W, d)
    BY StoriesStateFields
  <2> QED
    BY <2>1, Zenon DEF StateChanges
<1> HIDE DEF st
<1>5. [st EXCEPT !.current[field] = @ \o words]
        = [st EXCEPT !.current = [st.current EXCEPT ![field] = st.current[field] \o words]]
  OBVIOUS
<1>6. [st EXCEPT !.current.drift = Append(@, words)]
        = [st EXCEPT !.current = [st.current EXCEPT !.drift = Append(st.current.drift, words)]]
  OBVIOUS
<1>7. [st EXCEPT !.current.sensitivity = words]
        = [st EXCEPT !.current = [st.current EXCEPT !.sensitivity = words]]
  OBVIOUS
<1>8. [st EXCEPT !.current[field] = @ \o words] = StoriesState(a, s, W)
  BY <1>1, <1>2, <1>5, Zenon
<1>9. [st EXCEPT !.current.drift = Append(@, words)] = StoriesState(b, s, W)
  BY <1>1, <1>3, <1>6, Zenon
<1>10. [st EXCEPT !.current.sensitivity = words] = StoriesState(d, s, W)
  BY <1>1, <1>4, <1>7, Zenon
<1> QED
  BY <1>8, <1>9, <1>10, Zenon DEF st, StoryChanges

StoryMore(n, s, l, d, e, words) ==
  LET story == StoryTold(n, s, l, d, e) IN
  /\ [story EXCEPT !["short"] = @ \o words] = StoryTold(n, s \o words, l, d, e)
  /\ [story EXCEPT !["long"] = @ \o words] = StoryTold(n, s, l \o words, d, e)
  /\ [story EXCEPT !.drift = Append(@, words)] = StoryTold(n, s, l, Append(d, words), e)
  /\ [story EXCEPT !.sensitivity = words] = StoryTold(n, s, l, d, words)
  /\ story.sensitivity = e

\* What a longer text makes of a story.
LEMMA StoryGrows ==
  ASSUME NEW n, NEW s, NEW l, NEW d, NEW e, NEW words
  PROVE  StoryMore(n, s, l, d, e, words)
<1> DEFINE story == StoryTold(n, s, l, d, e)
           sw == s \o words
           lw == l \o words
           dw == Append(d, words)
<1>1. story = [name |-> n, short |-> s, long |-> l, drift |-> d, sensitivity |-> e]
  BY Zenon DEF StoryTold
<1> HIDE DEF story, sw, lw, dw
<1>2. story.name = n /\ story.short = s /\ story.long = l /\ story.drift = d /\ story.sensitivity = e
  BY <1>1
<1>3. [story EXCEPT !.short = sw] = [name |-> n, short |-> sw, long |-> l, drift |-> d, sensitivity |-> e]
  BY <1>1
<1>4. [story EXCEPT !.long = lw] = [name |-> n, short |-> s, long |-> lw, drift |-> d, sensitivity |-> e]
  BY <1>1
<1>5. [story EXCEPT !.drift = dw] = [name |-> n, short |-> s, long |-> l, drift |-> dw, sensitivity |-> e]
  BY <1>1
<1>6. [story EXCEPT !.sensitivity = words]
        = [name |-> n, short |-> s, long |-> l, drift |-> d, sensitivity |-> words]
  BY <1>1
<1>7. [story EXCEPT !["short"] = @ \o words] = StoryTold(n, s \o words, l, d, e)
  BY <1>2, <1>3, Zenon DEF StoryTold, sw
<1>8. [story EXCEPT !["long"] = @ \o words] = StoryTold(n, s, l \o words, d, e)
  BY <1>2, <1>4, Zenon DEF StoryTold, lw
<1>9. [story EXCEPT !.drift = Append(@, words)] = StoryTold(n, s, l, Append(d, words), e)
  BY <1>2, <1>5, Zenon DEF StoryTold, dw
<1>10. [story EXCEPT !.sensitivity = words] = StoryTold(n, s, l, d, words)
  BY <1>6, Zenon DEF StoryTold
<1> QED
  BY <1>2, <1>7, <1>8, <1>9, <1>10, Zenon DEF story, StoryMore

Committed(c, s, W, next) ==
  [StoriesState(c, s, W) EXCEPT !.stories = next, !.current = NoStory, !.section = ""]
    = StoriesState(NoStory, "", next)

\* What keeping a story makes of the state.
LEMMA CommitChanges ==
  ASSUME NEW c, NEW s, NEW W, NEW next
  PROVE  Committed(c, s, W, next)
<1> DEFINE st == StoriesState(c, s, W)
           yes == TRUE
           no == NoStory
           none == ""
<1>1. st = [ok |-> yes, current |-> c, section |-> s, stories |-> W]
  BY Zenon DEF StoriesState
<1> HIDE DEF st, yes, no, none
<1> DEFINE st1 == [st EXCEPT !.stories = next]
           st2 == [st1 EXCEPT !.current = no]
           st3 == [st2 EXCEPT !.section = none]
<1>2. [st EXCEPT !.stories = next, !.current = no, !.section = none] = st3
  OBVIOUS
<1>3. st1 = [ok |-> yes, current |-> c, section |-> s, stories |-> next]
  BY <1>1
<1> HIDE DEF st1
<1>4. st2 = [ok |-> yes, current |-> no, section |-> s, stories |-> next]
  BY <1>3
<1> HIDE DEF st2
<1>5. st3 = [ok |-> yes, current |-> no, section |-> none, stories |-> next]
  BY <1>4
<1> HIDE DEF st3
<1> QED
  BY <1>2, <1>5, Zenon DEF StoriesState, st, yes, no, none, Committed

\* A line of stories.md is read by ReadStoryLine.
LEMMA ReadsStoryLine ==
  ASSUME NEW st, NEW line
  PROVE  ReadFileLine("stories", st, line) = ReadStoryLine(st, line)
<1>1. "stories" # "rules"
  OBVIOUS
<1> QED
  BY <1>1, Zenon DEF ReadFileLine

OpensTo(line, w, c, s, W) ==
  ReadStoryLine(StoriesState(c, s, W), line) = StoriesState(c, IF w \in DOMAIN Sections THEN w ELSE "", W)

\* A section heading opens its section, an unknown one closes it.
LEMMA SectionOpens ==
  ASSUME NEW line, NEW w, line.words = <<"###", w>>, NEW c, c # NoStory, NEW s, NEW W
  PROVE  OpensTo(line, w, c, s, W)
<1> DEFINE st == StoriesState(c, s, W)
           next == IF w \in DOMAIN Sections THEN w ELSE ""
           hashes == "###"
<1>1. Len(line.words) > 1 /\ line.words[1] = hashes /\ line.words[2] = w
  <2> DEFINE words == <<hashes, w>>
  <2>1. line.words = words
    OBVIOUS
  <2> HIDE DEF hashes
  <2>2. Len(words) = 2 /\ words[1] = hashes /\ words[2] = w
    OBVIOUS
  <2>3. 2 > 1
    OBVIOUS
  <2> HIDE DEF words
  <2> QED
    BY <2>1, <2>2, <2>3, Zenon
<1>2. hashes # "##"
  OBVIOUS
<1>3. Starts(line, {"###"}) /\ ~ Starts(line, {"##"})
  BY <1>1, <1>2, Zenon DEF Starts
<1>4. (IF Starts(line, {"###"}) /\ line.words[2] \in DOMAIN Sections THEN Sections[line.words[2]] ELSE "") = next
  <2>1. ASSUME w \in DOMAIN Sections PROVE Sections[w] = w
    BY <2>1, Zenon DEF Sections
  <2> QED
    BY <1>1, <1>3, <2>1, Zenon
<1>5. StateFields(st, c, s, W) /\ [st EXCEPT !.section = next] = StoriesState(c, next, W)
  <2> HIDE DEF next
  <2>1. StateChanges(c, s, W, next)
    BY StoriesStateFields
  <2> QED
    BY <2>1, Zenon DEF StateChanges
<1> HIDE DEF st, next
<1>6. st.ok /\ st.current # NoStory
  BY <1>5, Zenon DEF StateFields
<1>7. ReadStoryLine(st, line)
        = [st EXCEPT !.section = IF Starts(line, {"###"}) /\ line.words[2] \in DOMAIN Sections
                                   THEN Sections[line.words[2]] ELSE ""]
  BY <1>3, <1>6, Zenon DEF ReadStoryLine
<1>8. ReadStoryLine(st, line) = StoriesState(c, next, W)
  BY <1>4, <1>5, <1>7, Zenon
<1> QED
  BY <1>8, Zenon DEF st, next, OpensTo

\* A line of the story that opens nothing.
TellsOn(line) == ~ Starts(line, {"##"}) /\ ~ Starts(line, {"###"})

\* What a story becomes with such a line, section by section.
ToldOn(line, c, s, W) ==
  /\ s \in {"short", "long"} =>
       ReadStoryLine(StoriesState(c, s, W), line) = StoriesState([c EXCEPT ![s] = @ \o line.words], s, W)
  /\ s = "drift" /\ Starts(line, {"-"}) =>
       ReadStoryLine(StoriesState(c, s, W), line)
         = StoriesState([c EXCEPT !.drift = Append(@, After(line.words, 1))], s, W)
  /\ s = "sensitivity" /\ c.sensitivity = <<>> =>
       ReadStoryLine(StoriesState(c, s, W), line)
         = StoriesState([c EXCEPT !.sensitivity = line.words], s, W)
  /\ s = "" \/ (s = "sensitivity" /\ c.sensitivity # <<>>) =>
       ReadStoryLine(StoriesState(c, s, W), line) = StoriesState(c, s, W)

\* A line that opens nothing belongs to the section that is open.
LEMMA StoryText ==
  ASSUME NEW line, TellsOn(line), NEW c, c # NoStory, NEW s, NEW W
  PROVE  ToldOn(line, c, s, W)
<1> DEFINE st == StoriesState(c, s, W)
           words == line.words
           after == After(words, 1)
<1>1. StateFields(st, c, s, W)
  <2>1. StateChanges(c, s, W, c)
    BY StoriesStateFields
  <2> QED
    BY <2>1, Zenon DEF StateChanges
<1>2. [st EXCEPT !.current[s] = @ \o words] = StoriesState([c EXCEPT ![s] = @ \o words], s, W)
  <2> HIDE DEF words
  <2>1. StoryChanges(c, s, W, s, words)
    BY StoryWithin
  <2> QED
    BY <2>1, Zenon DEF StoryChanges
<1>3. [st EXCEPT !.current.drift = Append(@, after)] = StoriesState([c EXCEPT !.drift = Append(@, after)], s, W)
  <2> HIDE DEF after
  <2>1. StoryChanges(c, s, W, s, after)
    BY StoryWithin
  <2> QED
    BY <2>1, Zenon DEF StoryChanges
<1>4. [st EXCEPT !.current.sensitivity = words] = StoriesState([c EXCEPT !.sensitivity = words], s, W)
  <2> HIDE DEF words
  <2>1. StoryChanges(c, s, W, s, words)
    BY StoryWithin
  <2> QED
    BY <2>1, Zenon DEF StoryChanges
<1> HIDE DEF st
<1>5. st.ok /\ st.current = c /\ st.current # NoStory /\ st.section = s /\ ~ Starts(line, {"##"})
      /\ ~ Starts(line, {"###"})
  BY <1>1, Zenon DEF StateFields, TellsOn
<1>6. ReadStoryLine(st, line)
        = CASE s \in {"short", "long"} -> [st EXCEPT !.current[st.section] = @ \o words]
            [] s = "drift" /\ Starts(line, {"-"}) -> [st EXCEPT !.current.drift = Append(@, after)]
            [] s = "sensitivity" /\ c.sensitivity = <<>> -> [st EXCEPT !.current.sensitivity = words]
            [] OTHER -> st
  BY <1>5, Zenon DEF ReadStoryLine
<1>7. /\ "short" # "drift" /\ "short" # "sensitivity" /\ "short" # ""
      /\ "long" # "drift" /\ "long" # "sensitivity" /\ "long" # ""
      /\ "drift" # "sensitivity" /\ "drift" # "" /\ "sensitivity" # ""
  OBVIOUS
<1>8. CASE s \in {"short", "long"}
  <2>1. s # "drift" /\ s # "sensitivity" /\ s # ""
    BY <1>7, <1>8, Zenon
  <2>2. ReadStoryLine(st, line) = [st EXCEPT !.current[st.section] = @ \o words]
    BY <1>6, <1>8, <2>1, Zenon
  <2> QED
    BY <1>2, <1>5, <2>1, <2>2, Zenon DEF st, ToldOn
<1>9. CASE s = "drift"
  <2>1. s \notin {"short", "long"} /\ s # "sensitivity" /\ s # ""
    BY <1>7, <1>9, Zenon
  <2>2. CASE Starts(line, {"-"})
    <3>1. ReadStoryLine(st, line) = [st EXCEPT !.current.drift = Append(@, after)]
      BY <1>6, <1>9, <2>1, <2>2, Zenon
    <3> QED
      BY <1>3, <2>1, <3>1, Zenon DEF st, ToldOn
  <2>3. CASE ~ Starts(line, {"-"})
    BY <2>1, <2>3, Zenon DEF ToldOn
  <2> QED
    BY <2>2, <2>3
<1>10. CASE s = "sensitivity"
  <2>1. s \notin {"short", "long"} /\ s # "drift" /\ s # ""
    BY <1>7, <1>10, Zenon
  <2>2. CASE c.sensitivity = <<>>
    <3>1. ReadStoryLine(st, line) = [st EXCEPT !.current.sensitivity = words]
      BY <1>6, <1>10, <2>1, <2>2, Zenon
    <3> QED
      BY <1>4, <2>1, <2>2, <3>1, Zenon DEF st, ToldOn
  <2>3. CASE c.sensitivity # <<>>
    <3>1. ReadStoryLine(st, line) = st
      BY <1>6, <2>1, <2>3, Zenon
    <3> QED
      BY <2>1, <2>3, <3>1, Zenon DEF st, ToldOn
  <2> QED
    BY <2>2, <2>3
<1>11. CASE s = ""
  <2>1. s \notin {"short", "long"} /\ s # "drift" /\ s # "sensitivity"
    BY <1>7, <1>11, Zenon
  <2>2. ReadStoryLine(st, line) = st
    BY <1>6, <2>1, Zenon
  <2> QED
    BY <2>1, <2>2, Zenon DEF st, ToldOn
<1>12. CASE s \notin {"short", "long"} /\ s # "drift" /\ s # "sensitivity" /\ s # ""
  BY <1>12, Zenon DEF ToldOn
<1> QED
  BY <1>8, <1>9, <1>10, <1>11, <1>12, Zenon

\* What a line is that begins with this word.
BeginsWith(words, head, rest) ==
  /\ words[1] = head /\ words[2] = rest[1] /\ Len(words) > 1
  /\ After(words, 1) = rest /\ After(words, 2) = After(rest, 1)

\* The words of a heading after its mark.
LEMMA HeadingWords ==
  ASSUME NEW V, NEW hash \in V, NEW title \in Seq(V), title # <<>>
  PROVE  BeginsWith(<<hash>> \o title, hash, title)
<1> DEFINE words == <<hash>> \o title
<1>1. /\ words[1] = hash /\ Len(words) = 1 + Len(title) /\ Len(title) \in Nat
      /\ After(words, 1) = title
      /\ \A k \in 1 .. Len(title) : words[k + 1] = title[k]
  BY WordBefore
<1>2. Len(title) # 0
  BY EmptySeq
<1> HIDE DEF words
<1>3. Len(words) > 1 /\ words[2] = title[1]
  <2>1. 1 \in 1 .. Len(title) /\ 1 + 1 = 2
    BY <1>1, <1>2
  <2> QED
    BY <1>1, <1>2, <2>1
<1>4. After(words, 2) = After(title, 1)
  <2> DEFINE n == Len(title)
  <2>1. SubSeq(words, 3, 1 + n) = [i \in 1 .. n - 1 |-> words[i + 2]]
    <3>1. SubSeq(words, 3, 1 + n) = [i \in 1 .. (1 + (1 + n) - 3) |-> words[3 + i - 1]]
      BY <1>1
    <3>2. 1 + (1 + n) - 3 = n - 1 /\ \A i \in 1 .. n - 1 : 3 + i - 1 = i + 2
      BY <1>1
    <3> QED
      BY <3>1, <3>2
  <2>2. SubSeq(title, 2, n) = [i \in 1 .. n - 1 |-> title[i + 1]]
    <3>1. SubSeq(title, 2, n) = [i \in 1 .. (1 + n - 2) |-> title[2 + i - 1]]
      BY <1>1
    <3>2. 1 + n - 2 = n - 1 /\ \A i \in 1 .. n - 1 : 2 + i - 1 = i + 1
      BY <1>1
    <3> QED
      BY <3>1, <3>2
  <2>3. \A i \in 1 .. n - 1 : words[i + 2] = title[i + 1]
    <3> SUFFICES ASSUME NEW i \in 1 .. n - 1 PROVE words[i + 2] = title[i + 1]
      OBVIOUS
    <3>1. i + 1 \in 1 .. n /\ (i + 1) + 1 = i + 2
      BY <1>1
    <3> QED
      BY <1>1, <3>1
  <2>4. SubSeq(words, 3, 1 + n) = SubSeq(title, 2, n)
    BY <2>1, <2>2, <2>3, Zenon
  <2>5. 2 + 1 = 3 /\ 1 + 1 = 2
    OBVIOUS
  <2> QED
    BY <1>1, <2>4, <2>5, Zenon DEF After
<1> QED
  BY <1>1, <1>3, <1>4, Zenon DEF words, BeginsWith

\* A story begins with its name and nothing else.
LEMMA StoryBegins ==
  ASSUME NEW n
  PROVE  [NoStory EXCEPT !.name = n] = StoryTold(n, <<>>, <<>>, <<>>, <<>>)
<1> DEFINE no == NoStory
           e == <<>>
<1>1. no = [name |-> e, short |-> e, long |-> e, drift |-> e, sensitivity |-> e]
  BY Zenon DEF NoStory
<1> HIDE DEF no, e
<1>2. [no EXCEPT !.name = n] = [name |-> n, short |-> e, long |-> e, drift |-> e, sensitivity |-> e]
  BY <1>1
<1> QED
  BY <1>2, Zenon DEF StoryTold, no, e

\* A heading keeps the story before it and begins its own.
LEMMA StoryHeading ==
  ASSUME NEW st, st.ok, NEW W, Commit(st) = StoriesState(NoStory, "", W), NEW item, StoryIsWritten(item)
  PROVE  ReadStoryLine(st, Line(FALSE, <<"##">> \o item.title))
           = StoriesState(StoryTold(item.name, <<>>, <<>>, <<>>, <<>>), "", W)
<1> DEFINE hash == "##"
           title == item.title
           V == ToSet(title) \cup {hash}
           words == <<hash>> \o title
           line == Line(FALSE, words)
           name == IF Starts(line, {"##"}) /\ line.words[2] = "STORY:" THEN After(line.words, 2)
                   ELSE After(line.words, 1)
           told == StoryTold(item.name, <<>>, <<>>, <<>>, <<>>)
<1>1. /\ title # <<>> /\ title \in Seq(ToSet(title)) /\ item.name # <<>>
      /\ item.name = IF title[1] = "STORY:" THEN After(title, 1) ELSE title
  BY Zenon DEF StoryIsWritten, IsSequence
<1>2. hash \in V /\ ToSet(title) \subseteq V
  OBVIOUS
<1> HIDE DEF V, hash, title
<1>3. title \in Seq(V)
  BY <1>1, <1>2, SeqMonotonic
<1>4. /\ words[1] = hash /\ words[2] = title[1] /\ Len(words) > 1
      /\ After(words, 1) = title /\ After(words, 2) = After(title, 1)
  <2>1. BeginsWith(words, hash, title)
    BY <1>2, <1>3, <1>1, HeadingWords
  <2> QED
    BY <2>1, Zenon DEF BeginsWith
<1> HIDE DEF words
<1>8. line.words = words /\ Starts(line, {"##"})
  <2>1. line.words = words
    BY StartsIs, Zenon
  <2> HIDE DEF line
  <2> QED
    BY <1>4, <2>1, Zenon DEF Starts, hash
<1> HIDE DEF line
<1>9. name = item.name
  <2>1. CASE title[1] = "STORY:"
    BY <1>1, <1>4, <1>8, <2>1, Zenon
  <2>2. CASE title[1] # "STORY:"
    BY <1>1, <1>4, <1>8, <2>2, Zenon
  <2> QED
    BY <2>1, <2>2
<1>10. [NoStory EXCEPT !.name = item.name] = told
  BY StoryBegins, Zenon
<1>11. [StoriesState(NoStory, "", W) EXCEPT !.current = told] = StoriesState(told, "", W)
  <2> DEFINE none == ""
             no == NoStory
  <2> HIDE DEF told, none, no
  <2>1. [StoriesState(no, none, W) EXCEPT !.current = told] = StoriesState(told, none, W)
    <3>1. StateChanges(no, none, W, told)
      BY StoriesStateFields
    <3> QED
      BY <3>1, Zenon DEF StateChanges
  <2> QED
    BY <2>1, Zenon DEF none, no
<1> HIDE DEF name, told
<1>12. name # <<>>
  BY <1>1, <1>9, Zenon
<1>13. ReadStoryLine(st, line) = [Commit(st) EXCEPT !.current = [NoStory EXCEPT !.name = name]]
  BY <1>8, <1>12, Zenon DEF ReadStoryLine, name
<1>14. ReadStoryLine(st, line) = StoriesState(told, "", W)
  BY <1>9, <1>10, <1>11, <1>13, Zenon
<1> QED
  BY <1>14, Zenon DEF line, words, hash, title, told

ReadOn(file, st, a, b) ==
  IsSequence(a \o b) /\ ReadLines(file, st, a \o b) = ReadLines(file, ReadLines(file, st, a), b)

\* Lines after lines.
LEMMA ReadJoined ==
  ASSUME NEW file, NEW st, NEW a, NEW b, IsSequence(a), IsSequence(b)
  PROVE  ReadOn(file, st, a, b)
<1> DEFINE S == ToSet(a) \cup ToSet(b)
<1>1. a \in Seq(ToSet(a)) /\ b \in Seq(ToSet(b))
  BY Zenon DEF IsSequence
<1>2. ToSet(a) \subseteq S /\ ToSet(b) \subseteq S
  OBVIOUS
<1> HIDE DEF S
<1>3. a \in Seq(S) /\ b \in Seq(S)
  BY <1>1, <1>2, SeqMonotonic
<1>4. a \o b \in Seq(S)
  BY <1>3, ToSetConcat
<1>5. IsSequence(a \o b)
  BY <1>4, OwnElements, Zenon DEF IsSequence
<1>6. ReadLines(file, st, a \o b) = ReadLines(file, ReadLines(file, st, a), b)
  BY <1>3, ReadConcat
<1> QED
  BY <1>5, <1>6, Zenon DEF ReadOn

\* Short sequences are sequences.
LEMMA FewLines ==
  ASSUME NEW a, NEW b, NEW c
  PROVE  IsSequence(<<a>>) /\ IsSequence(<<a, b>>) /\ IsSequence(<<a, b, c>>) /\ IsSequence(<<>>)
<1> DEFINE S == {a, b, c}
<1>1. a \in S /\ b \in S /\ c \in S
  OBVIOUS
<1> HIDE DEF S
<1>2. <<a>> \in Seq(S) /\ <<a, b>> \in Seq(S) /\ <<a, b, c>> \in Seq(S) /\ <<>> \in Seq(S)
  BY <1>1
<1> QED
  BY <1>2, OwnElements, Zenon DEF IsSequence

\* Three lines.
LEMMA ReadThree ==
  ASSUME NEW file, NEW st, NEW a, NEW b, NEW c
  PROVE  ReadLines(file, st, <<a, b, c>>)
           = ReadFileLine(file, ReadFileLine(file, ReadFileLine(file, st, a), b), c)
<1> DEFINE two == <<a, b>>
           one == <<c>>
           after == ReadFileLine(file, ReadFileLine(file, st, a), b)
<1>1. two \o one = <<a, b, c>>
  <2>1. Len(two) = 2 /\ Len(one) = 1 /\ two[1] = a /\ two[2] = b /\ one[1] = c
    OBVIOUS
  <2>2. two \o one = [i \in 1 .. 3 |-> IF i <= 2 THEN two[i] ELSE one[i - 2]]
    BY <2>1
  <2>3. <<a, b, c>> = [i \in 1 .. 3 |-> IF i = 1 THEN a ELSE IF i = 2 THEN b ELSE c]
    OBVIOUS
  <2> HIDE DEF one, two
  <2>4. \A i \in 1 .. 3 : (IF i <= 2 THEN two[i] ELSE one[i - 2]) = IF i = 1 THEN a ELSE IF i = 2 THEN b ELSE c
    BY <2>1
  <2> QED
    BY <2>2, <2>3, <2>4, Zenon
<1>2. ReadOn(file, st, two, one)
  <2>1. IsSequence(two) /\ IsSequence(one)
    BY FewLines, Zenon
  <2> HIDE DEF two, one
  <2> QED
    BY <2>1, ReadJoined
<1>3. ReadLines(file, st, two) = after
  BY ReadTwo
<1> HIDE DEF after
<1>4. ReadLines(file, after, one) = ReadFileLine(file, after, c)
  BY ReadOne, Zenon
<1> QED
  BY <1>1, <1>2, <1>3, <1>4, Zenon DEF ReadOn, after

\* Prose opens nothing.
LEMMA ProseTellsOn ==
  ASSUME NEW words, Prose(words, {"##", "###"}), NEW line, line.words = words
  PROVE  TellsOn(line)
<1>1. ~ Starts(Line(FALSE, words), {"##", "###"})
  BY Zenon DEF Prose
<1> DEFINE heads == {"##", "###"}
<1>2. ~ (Len(words) > 1 /\ words[1] \in heads)
  <2>1. ~ Starts(Line(FALSE, words), heads)
    BY <1>1, Zenon
  <2> HIDE DEF heads
  <2> QED
    BY <2>1, StartsIs, Zenon
<1>3. ~ (Len(words) > 1 /\ words[1] \in {"##"}) /\ ~ (Len(words) > 1 /\ words[1] \in {"###"})
  BY <1>2, Zenon
<1> QED
  BY <1>3, Zenon DEF TellsOn, Starts

\* A story with a name is a story.
LEMMA StoryBegun ==
  ASSUME NEW n, n # <<>>, NEW s, NEW l, NEW d, NEW e
  PROVE  StoryTold(n, s, l, d, e) # NoStory
<1>1. NoStory.name = <<>>
  BY DEF NoStory
<1>2. StoryTold(n, s, l, d, e).name = n
  BY DEF StoryTold
<1> QED
  BY <1>1, <1>2

\* A part of a sequence grows by the next element.
LEMMA AppendedPart ==
  ASSUME NEW S, NEW s \in Seq(S), NEW k \in 1 .. Len(s)
  PROVE  Append(SubSeq(s, 1, k - 1), s[k]) = SubSeq(s, 1, k)
<1>1. Len(s) \in Nat /\ k \in Nat /\ \A i \in 1 .. Len(s) : s[i] \in S
  BY LenProperties, ElementOfSeq
<1> DEFINE a == SubSeq(s, 1, k - 1)
           b == SubSeq(s, 1, k)
           c == Append(a, s[k])
<1>2. a \in Seq(S) /\ Len(a) = k - 1 /\ \A i \in 1 .. k - 1 : a[i] = s[i]
  <2>1. a = [i \in 1 .. k - 1 |-> s[1 + i - 1]]
    BY <1>1
  <2> QED
    BY <1>1, <2>1
<1>3. b \in Seq(S) /\ Len(b) = k /\ \A i \in 1 .. k : b[i] = s[i]
  <2>1. b = [i \in 1 .. k |-> s[1 + i - 1]]
    BY <1>1
  <2> QED
    BY <1>1, <2>1
<1> HIDE DEF a, b
<1>4. /\ c \in Seq(S) /\ Len(c) = k /\ \A i \in 1 .. k - 1 : c[i] = a[i]
      /\ c[k] = s[k]
  <2>1. /\ c \in Seq(S) /\ Len(c) = Len(a) + 1 /\ \A i \in 1 .. Len(a) : c[i] = a[i]
        /\ c[Len(a) + 1] = s[k]
    BY <1>1, <1>2, AppendProperties
  <2> HIDE DEF c
  <2> QED
    BY <1>1, <1>2, <2>1
<1> HIDE DEF c
<1>5. \A i \in 1 .. Len(c) : c[i] = b[i]
  BY <1>1, <1>2, <1>3, <1>4
<1>6. c = b
  BY <1>3, <1>4, <1>5, SeqEqual
<1> QED
  BY <1>6 DEF a, b, c

\* A bullet of the drift section, and what it says.
LEMMA DriftLine ==
  ASSUME NEW words, IsSequence(words), words # <<>>, NEW line, line = Line(FALSE, <<"-">> \o words)
  PROVE  TellsOn(line) /\ Starts(line, {"-"}) /\ After(line.words, 1) = words
<1> DEFINE dash == "-"
           V == ToSet(words) \cup {dash}
           all == <<dash>> \o words
<1>1. words \in Seq(ToSet(words)) /\ ToSet(words) \subseteq V /\ dash \in V
  BY Zenon DEF IsSequence
<1> HIDE DEF V
<1>2. words \in Seq(V)
  BY <1>1, SeqMonotonic
<1>3. line.words = all
  BY StartsIs, Zenon
<1>4. dash # "##" /\ dash # "###"
  OBVIOUS
<1>5. BeginsWith(all, dash, words)
  <2> HIDE DEF dash
  <2> QED
    BY <1>1, <1>2, HeadingWords
<1> HIDE DEF all
<1>6. all[1] = dash /\ Len(all) > 1 /\ After(all, 1) = words
  BY <1>5, Zenon DEF BeginsWith
<1> QED
  BY <1>3, <1>4, <1>6, Zenon DEF TellsOn, Starts

DriftLines(drift) == [k \in DOMAIN drift |-> Line(FALSE, <<"-">> \o drift[k])]

DriftRead(drift, n, s, l, e, W) ==
  /\ ReadLines("stories", StoriesState(StoryTold(n, s, l, <<>>, e), "drift", W), DriftLines(drift))
       = StoriesState(StoryTold(n, s, l, drift, e), "drift", W)
  /\ IsSequence(DriftLines(drift))

\* The bullets of a drift section are read one by one.
LEMMA DriftIsRead ==
  ASSUME NEW drift, IsSequence(drift), \A words \in ToSet(drift) : IsSequence(words) /\ words # <<>>,
         NEW n, n # <<>>, NEW s, NEW l, NEW e, NEW W
  PROVE  DriftRead(drift, n, s, l, e, W)
<1> DEFINE N == Len(drift)
           lines == DriftLines(drift)
           file == "stories"
           section == "drift"
           At0(k) == StoriesState(StoryTold(n, s, l, SubSeq(drift, 1, k), e), section, W)
<1>1. drift \in Seq(ToSet(drift))
  BY Zenon DEF IsSequence
<1>2. N \in Nat /\ DOMAIN drift = 1 .. N
  BY <1>1, LenProperties
<1>3. \A k \in 1 .. N : lines[k] = Line(FALSE, <<"-">> \o drift[k])
  BY <1>2, Zenon DEF DriftLines
<1>4. Len(lines) = N /\ IsSequence(lines)
  <2>1. lines = [k \in 1 .. N |-> lines[k]]
    BY <1>2, Zenon DEF DriftLines
  <2> DEFINE S == {lines[k] : k \in 1 .. N}
  <2>2. \A k \in 1 .. N : lines[k] \in S
    OBVIOUS
  <2> HIDE DEF lines, S, N
  <2>3. lines \in [1 .. N -> S]
    BY <2>1, <2>2
  <2>4. lines \in Seq(S) /\ Len(lines) = N
    <3>1. lines \in Seq(S)
      BY <1>2, <2>3
    <3>2. DOMAIN lines = 1 .. N
      BY <2>3
    <3> QED
      BY <1>2, <3>1, <3>2, LenProperties
  <2> QED
    BY <2>4, OwnElements, Zenon DEF IsSequence
<1>5. PICK r : ReadBy(r, file, At0(0), lines)
  <2> HIDE DEF lines, file, At0, N
  <2> QED
    BY <1>2, <1>4, ReadIs
<1>6. /\ ReadLines(file, At0(0), lines) = r[N] /\ r[0] = At0(0)
      /\ \A k \in 1 .. N : r[k] = ReadFileLine(file, r[k - 1], lines[k])
  BY <1>4, <1>5, Zenon DEF ReadBy
<1>7. ASSUME NEW k \in 1 .. N PROVE ReadFileLine(file, At0(k - 1), lines[k]) = At0(k)
  <2> DEFINE line == lines[k]
             words == drift[k]
             before == SubSeq(drift, 1, k - 1)
             story == StoryTold(n, s, l, before, e)
  <2>1. IsSequence(words) /\ words # <<>>
    BY <1>2, Zenon DEF ToSet
  <2>2. TellsOn(line) /\ Starts(line, {"-"}) /\ After(line.words, 1) = words
    BY <1>3, <2>1, DriftLine, Zenon
  <2>3. Append(before, words) = SubSeq(drift, 1, k)
    <3> DEFINE S == ToSet(drift)
    <3> HIDE DEF S, file, section
    <3>1. 1 \in 1 .. N /\ k \in 1 .. N
      BY <1>2
    <3>2. drift \in Seq(S)
      BY <1>1 DEF S
    <3> QED
      BY <3>1, <3>2, AppendedPart
  <2>4. story # NoStory
    BY StoryBegun, Zenon
  <2>5. [story EXCEPT !.drift = Append(@, words)] = StoryTold(n, s, l, Append(before, words), e)
    <3>1. StoryMore(n, s, l, before, e, words)
      <4> HIDE DEF before, words, file, section
      <4> QED
        BY StoryGrows
    <3> QED
      BY <3>1, Zenon DEF StoryMore
  <2>6. ReadStoryLine(StoriesState(story, "drift", W), line)
          = StoriesState([story EXCEPT !.drift = Append(@, After(line.words, 1))], "drift", W)
    <3> HIDE DEF line, story, file
    <3>1. ToldOn(line, story, section, W)
      <4> HIDE DEF section
      <4> QED
        BY <2>2, <2>4, StoryText
    <3> QED
      BY <2>2, <3>1, Zenon DEF ToldOn
  <2> QED
    BY <2>2, <2>3, <2>5, <2>6, ReadsStoryLine, Zenon
<1> DEFINE T == {k \in 0 .. N : r[k] = At0(k)}
<1> HIDE DEF file, At0, lines
<1>8. \A k \in 0 .. N : k \in T
  <2>1. 0 \in T
    BY <1>2, <1>6
  <2>2. ASSUME NEW k \in 1 .. N, k - 1 \in T PROVE k \in T
    <3>1. k \in 0 .. N /\ r[k - 1] = At0(k - 1)
      BY <1>2, <2>2
    <3>2. r[k] = At0(k)
      BY <1>6, <1>7, <3>1, Zenon
    <3> QED
      BY <3>1, <3>2
  <2> HIDE DEF T
  <2> QED
    BY <1>2, <2>1, <2>2, UpTo
<1>9. r[N] = At0(N)
  BY <1>2, <1>8
<1>10. SubSeq(drift, 1, 0) = <<>> /\ SubSeq(drift, 1, N) = drift
  <2> DEFINE S == ToSet(drift)
  <2>1. drift \in Seq(S)
    BY <1>1
  <2> HIDE DEF S
  <2> QED
    BY <2>1
<1>11. ReadLines(file, At0(0), lines) = At0(N)
  BY <1>6, <1>9, Zenon
<1> QED
  BY <1>4, <1>10, <1>11, Zenon DEF At0, file, lines, DriftRead

SectionLine(w) == Line(FALSE, <<"###", w>>)

TextRead(w, words, c, s, W) ==
  ReadLines("stories", StoriesState(c, s, W), <<SectionLine(w), Line(FALSE, words)>>)
    = StoriesState([c EXCEPT ![w] = @ \o words], w, W)

\* A section of text is read into its field.
LEMMA TextSection ==
  ASSUME NEW w \in {"short", "long"}, NEW words, Prose(words, {"##", "###"}),
         NEW c, c # NoStory, NEW s, NEW W
  PROVE  TextRead(w, words, c, s, W)
<1> DEFINE line == Line(FALSE, words)
           head == SectionLine(w)
           file == "stories"
           st == StoriesState(c, s, W)
           open == StoriesState(c, w, W)
<1>1. line.words = words /\ head.words = <<"###", w>>
  BY StartsIs, Zenon DEF SectionLine
<1>2. ReadStoryLine(st, head) = open
  <2>1. ReadStoryLine(st, head) = StoriesState(c, IF w \in DOMAIN Sections THEN w ELSE "", W)
    <3>1. OpensTo(head, w, c, s, W)
      <4> HIDE DEF head
      <4> QED
        BY <1>1, SectionOpens
    <3> QED
      BY <3>1, Zenon DEF OpensTo
  <2>2. w \in DOMAIN Sections
    BY Zenon DEF Sections
  <2> QED
    BY <2>1, <2>2, Zenon
<1>3. ReadStoryLine(open, line) = StoriesState([c EXCEPT ![w] = @ \o line.words], w, W)
  <2>1. TellsOn(line)
    BY <1>1, ProseTellsOn, Zenon
  <2>2. ToldOn(line, c, w, W)
    <3> HIDE DEF line
    <3> QED
      BY <2>1, StoryText
  <2> QED
    BY <2>2, Zenon DEF ToldOn
<1> HIDE DEF line, head, st, open
<1>4. ReadLines(file, st, <<head, line>>) = ReadFileLine(file, ReadFileLine(file, st, head), line)
  <2> HIDE DEF file
  <2> QED
    BY ONLY ReadTwo
<1>5. ReadLines(file, st, <<head, line>>) = StoriesState([c EXCEPT ![w] = @ \o words], w, W)
  BY <1>1, <1>2, <1>3, <1>4, ReadsStoryLine, Zenon
<1> QED
  BY <1>5, Zenon DEF line, head, st, TextRead

SensitivityLines(item) ==
  IF item.sensitivity = <<>> THEN <<>>
  ELSE << Line(FALSE, <<"###", "sensitivity">>), Line(FALSE, item.sensitivity), Line(TRUE, item.preface) >>

\* The sensitivity is its first line; what is indented under it is nothing.
SensitivityRead(item, n, s, l, d, W) ==
  \E section :
    ReadLines("stories", StoriesState(StoryTold(n, s, l, d, <<>>), "drift", W), SensitivityLines(item))
      = StoriesState(StoryTold(n, s, l, d, item.sensitivity), section, W)

\* A sensitivity section is read as its text.
LEMMA SensitivityIsRead ==
  ASSUME NEW item, Prose(item.sensitivity, {"##", "###"}), Prose(item.preface, {"##", "###"}),
         NEW n, n # <<>>, NEW s, NEW l, NEW d, NEW W
  PROVE  SensitivityRead(item, n, s, l, d, W)
<1> DEFINE told == StoryTold(n, s, l, d, <<>>)
           st == StoriesState(told, "drift", W)
           file == "stories"
           sens == item.sensitivity
           more == StoryTold(n, s, l, d, sens)
<1>1. CASE sens = <<>>
  BY <1>1, ReadNothing, Zenon DEF SensitivityLines, SensitivityRead
<1>2. CASE sens # <<>>
  <2> DEFINE head == SectionLine("sensitivity")
             line == Line(FALSE, sens)
             blank == Line(TRUE, item.preface)
             section == "sensitivity"
             open == StoriesState(told, section, W)
             done1 == StoriesState(more, section, W)
  <2>1. head.words = <<"###", section>> /\ line.words = sens /\ blank.words = item.preface
    BY StartsIs, Zenon DEF SectionLine
  <2>2. told # NoStory /\ more # NoStory
    BY StoryBegun, Zenon
  <2>3. ReadStoryLine(st, head) = open
    <3> DEFINE drift == "drift"
    <3>1. ReadStoryLine(StoriesState(told, drift, W), head)
            = StoriesState(told, IF section \in DOMAIN Sections THEN section ELSE "", W)
      <4>1. OpensTo(head, section, told, drift, W)
        <5> HIDE DEF head, section, told, drift
        <5> QED
          BY <2>1, <2>2, SectionOpens
      <4> QED
        BY <4>1, Zenon DEF OpensTo
    <3>2. section \in DOMAIN Sections
      BY Zenon DEF Sections
    <3> QED
      BY <3>1, <3>2, Zenon
  <2>4. TellsOn(line) /\ TellsOn(blank)
    BY <2>1, ProseTellsOn, Zenon
  <2>5. StoryMore(n, s, l, d, <<>>, sens)
    <3> DEFINE e == <<>>
    <3> HIDE DEF e, sens
    <3> QED
      BY StoryGrows
  <2>6. told.sensitivity = <<>> /\ [told EXCEPT !.sensitivity = sens] = more
    BY <2>5, Zenon DEF StoryMore
  <2>7. more.sensitivity = sens
    <3> HIDE DEF sens
    <3>1. StoryMore(n, s, l, d, sens, sens)
      BY StoryGrows
    <3> QED
      BY <3>1, Zenon DEF StoryMore
  <2>8. ReadStoryLine(open, line) = done1
    <3>1. ToldOn(line, told, section, W)
      <4> HIDE DEF line, told, section
      <4> QED
        BY <2>2, <2>4, StoryText
    <3> QED
      BY <2>1, <2>6, <3>1, Zenon DEF ToldOn
  <2>9. ReadStoryLine(done1, blank) = done1
    <3>1. ToldOn(blank, more, section, W)
      <4> HIDE DEF blank, more, section
      <4> QED
        BY <2>2, <2>4, StoryText
    <3> QED
      BY <1>2, <2>7, <3>1, Zenon DEF ToldOn
  <2> HIDE DEF head, line, blank, open, done1, st
  <2>10. ReadLines(file, st, <<head, line, blank>>)
           = ReadFileLine(file, ReadFileLine(file, ReadFileLine(file, st, head), line), blank)
    <3> HIDE DEF file
    <3> QED
      BY ONLY ReadThree
  <2>11. ReadLines(file, st, <<head, line, blank>>) = done1
    BY <2>3, <2>8, <2>9, <2>10, ReadsStoryLine, Zenon
  <2>12. SensitivityLines(item) = <<head, line, blank>>
    BY <1>2, Zenon DEF SensitivityLines, SectionLine, head, line, blank
  <2> QED
    BY <2>11, <2>12, Zenon DEF st, done1, SensitivityRead
<1> QED
  BY <1>1, <1>2

StoryOf(item) == StoryTold(item.name, item.short, item.long, item.drift, item.sensitivity)

\* A story is read as it is told, and the stories before it are kept.
LEMMA StoryIsRead ==
  ASSUME NEW item, StoryIsWritten(item), NEW st, st.ok, NEW W, Commit(st) = StoriesState(NoStory, "", W)
  PROVE  /\ ReadLines("stories", st, StoryLines(item)) = StoriesState(StoryOf(item), "long", W)
         /\ IsSequence(StoryLines(item))
<1> DEFINE n == item.name
           e == <<>>
           short == item.short
           drift == item.drift
           sens == item.sensitivity
           file == "stories"
           Told(s, l, d, x, section) == StoriesState(StoryTold(n, s, l, d, x), section, W)
           a == << Line(FALSE, <<"##">> \o item.title), Line(FALSE, item.preface) >>
           b == << SectionLine("short"), Line(FALSE, short) >>
           c == << SectionLine("drift") >>
           d == DriftLines(drift)
           f == SensitivityLines(item)
           g == << SectionLine("notes"), Line(TRUE, item.preface) >>
           h == << SectionLine("long"), Line(FALSE, item.long) >>
           ab == a \o b
           abc == ab \o c
           abcd == abc \o d
           abcdf == abcd \o f
           abcdfg == abcdf \o g
<1>1. /\ n # <<>> /\ Prose(item.preface, {"##", "###"}) /\ Prose(short, {"##", "###"})
      /\ Prose(item.long, {"##", "###"}) /\ Prose(sens, {"##", "###"})
      /\ IsSequence(drift) /\ \A words \in ToSet(drift) : IsSequence(words) /\ words # <<>>
  BY Zenon DEF StoryIsWritten
<1>2. StoryLines(item) = abcdfg \o h
  BY Zenon DEF StoryLines, SectionLine, DriftLines, SensitivityLines
<1>3. \A s, l, x, y : StoryTold(n, s, l, x, y) # NoStory
  BY <1>1, StoryBegun, Zenon
<1>4. \A words \in {item.preface, short, item.long, sens} : e \o words = words
  <2> SUFFICES ASSUME NEW words \in {item.preface, short, item.long, sens} PROVE e \o words = words
    OBVIOUS
  <2>1. words \in Seq(ToSet(words))
    BY <1>1, Zenon DEF Prose, IsSequence
  <2> DEFINE S == ToSet(words)
  <2>2. words \in Seq(S)
    BY <2>1
  <2> HIDE DEF S
  <2> QED
    BY ONLY <2>2, ConcatEmptySeq
<1>5. ReadLines(file, st, a) = Told(e, e, e, e, "")
  <2> DEFINE head == Line(FALSE, <<"##">> \o item.title)
             line == Line(FALSE, item.preface)
             story == StoryTold(n, e, e, e, e)
             none == ""
             begun == StoriesState(story, none, W)
  <2>1. ReadStoryLine(st, head) = begun
    BY StoryHeading, Zenon
  <2>2. line.words = item.preface
    BY StartsIs, Zenon
  <2>3. TellsOn(line) /\ story # NoStory
    BY <1>1, <1>3, <2>2, ProseTellsOn, Zenon
  <2>4. ReadStoryLine(begun, line) = begun
    <3>1. ToldOn(line, story, none, W)
      <4> HIDE DEF line, story, none
      <4> QED
        BY <2>3, StoryText
    <3> QED
      BY <3>1, Zenon DEF ToldOn
  <2> HIDE DEF head, line, begun
  <2>5. ReadLines(file, st, <<head, line>>) = ReadFileLine(file, ReadFileLine(file, st, head), line)
    <3> HIDE DEF file
    <3> QED
      BY ONLY ReadTwo
  <2>6. ReadLines(file, st, <<head, line>>) = begun
    BY <2>1, <2>4, <2>5, ReadsStoryLine, Zenon
  <2> QED
    BY <2>6, Zenon DEF head, line, begun
<1>6. ReadLines(file, Told(e, e, e, e, ""), b) = Told(short, e, e, e, "short")
  <2> DEFINE story == StoryTold(n, e, e, e, e)
             w == "short"
  <2>1. ReadLines(file, StoriesState(story, "", W), b) = StoriesState([story EXCEPT ![w] = @ \o short], w, W)
    <3> DEFINE none == ""
    <3>1. story # NoStory /\ w \in {"short", "long"} /\ Prose(short, {"##", "###"})
      BY <1>1, <1>3, Zenon
    <3>2. TextRead(w, short, story, none, W)
      <4> HIDE DEF story, w, none, short
      <4> QED
        BY <3>1, TextSection
    <3> QED
      BY <3>2, Zenon DEF TextRead
  <2>2. [story EXCEPT ![w] = @ \o short] = StoryTold(n, e \o short, e, e, e)
    <3>1. StoryMore(n, e, e, e, e, short)
      <4> HIDE DEF n, e, short
      <4> QED
        BY ONLY StoryGrows
    <3> QED
      BY <3>1, Zenon DEF StoryMore
  <2> QED
    BY <1>4, <2>1, <2>2, Zenon
<1>7. ReadLines(file, Told(short, e, e, e, "short"), c) = Told(short, e, e, e, "drift")
  <2> DEFINE story == StoryTold(n, short, e, e, e)
             w == "drift"
             line == SectionLine(w)
             before == "short"
             stb == StoriesState(story, before, W)
  <2>1. line.words = <<"###", w>>
    BY StartsIs, Zenon DEF SectionLine
  <2>2. ReadStoryLine(stb, line) = StoriesState(story, IF w \in DOMAIN Sections THEN w ELSE "", W)
    <3>1. story # NoStory
      BY <1>3, Zenon
    <3>2. OpensTo(line, w, story, before, W)
      <4> HIDE DEF story, w, line, before
      <4> QED
        BY <2>1, <3>1, SectionOpens
    <3> QED
      BY <3>2, Zenon DEF OpensTo
  <2>3. w \in DOMAIN Sections
    BY Zenon DEF Sections
  <2>4. ReadLines(file, stb, <<line>>) = ReadFileLine(file, stb, line)
    <3> HIDE DEF line, file, stb
    <3> QED
      BY ReadOne, Zenon
  <2> QED
    BY <2>2, <2>3, <2>4, ReadsStoryLine, Zenon
<1>8. ReadLines(file, Told(short, e, e, e, "drift"), d) = Told(short, e, drift, e, "drift")
  <2>1. DriftRead(drift, n, short, e, e, W)
    <3> HIDE DEF n, e, short, drift
    <3> QED
      BY <1>1, DriftIsRead
  <2> QED
    BY <2>1, Zenon DEF DriftRead
<1>9. PICK section : ReadLines(file, Told(short, e, drift, e, "drift"), f) = Told(short, e, drift, sens, section)
  <2>1. \E section :
           ReadLines("stories", StoriesState(StoryTold(n, short, e, drift, <<>>), "drift", W), SensitivityLines(item))
             = StoriesState(StoryTold(n, short, e, drift, item.sensitivity), section, W)
    <3>1. SensitivityRead(item, n, short, e, drift, W)
      <4> HIDE DEF n, e, short, drift
      <4> QED
        BY <1>1, SensitivityIsRead
    <3> QED
      BY <3>1, Zenon DEF SensitivityRead
  <2> QED
    BY <2>1, Zenon
<1>10. ReadLines(file, Told(short, e, drift, sens, section), g) = Told(short, e, drift, sens, "")
  <2> DEFINE story == StoryTold(n, short, e, drift, sens)
             w == "notes"
             head == SectionLine(w)
             line == Line(TRUE, item.preface)
             none == ""
             stb == StoriesState(story, section, W)
             open == StoriesState(story, none, W)
  <2>1. head.words = <<"###", w>> /\ line.words = item.preface
    BY StartsIs, Zenon DEF SectionLine
  <2>2. story # NoStory
    BY <1>3, Zenon
  <2>3. ReadStoryLine(stb, head) = open
    <3>1. ReadStoryLine(stb, head) = StoriesState(story, IF w \in DOMAIN Sections THEN w ELSE "", W)
      <4>1. OpensTo(head, w, story, section, W)
        <5> HIDE DEF story, w, head
        <5> QED
          BY <2>1, <2>2, SectionOpens
      <4> QED
        BY <4>1, Zenon DEF OpensTo
    <3>2. w \notin DOMAIN Sections
      BY DEF Sections
    <3> QED
      BY <3>1, <3>2, Zenon
  <2>4. TellsOn(line)
    BY <1>1, <2>1, ProseTellsOn, Zenon
  <2>5. ReadStoryLine(open, line) = open
    <3>1. ToldOn(line, story, none, W)
      <4> HIDE DEF line, story, none
      <4> QED
        BY <2>2, <2>4, StoryText
    <3> QED
      BY <3>1, Zenon DEF ToldOn
  <2> HIDE DEF head, line, open, stb
  <2>6. ReadLines(file, stb, <<head, line>>) = ReadFileLine(file, ReadFileLine(file, stb, head), line)
    <3> HIDE DEF file
    <3> QED
      BY ONLY ReadTwo
  <2>7. ReadLines(file, stb, <<head, line>>) = open
    BY <2>3, <2>5, <2>6, ReadsStoryLine, Zenon
  <2> QED
    BY <2>7, Zenon DEF head, line, open, stb
<1>11. ReadLines(file, Told(short, e, drift, sens, ""), h) = Told(short, item.long, drift, sens, "long")
  <2> DEFINE story == StoryTold(n, short, e, drift, sens)
             w == "long"
             long == item.long
  <2>1. ReadLines(file, StoriesState(story, "", W), h) = StoriesState([story EXCEPT ![w] = @ \o long], w, W)
    <3> DEFINE none == ""
    <3>1. story # NoStory /\ w \in {"short", "long"} /\ Prose(long, {"##", "###"})
      BY <1>1, <1>3, Zenon
    <3>2. TextRead(w, long, story, none, W)
      <4> HIDE DEF story, w, none, long
      <4> QED
        BY <3>1, TextSection
    <3> QED
      BY <3>2, Zenon DEF TextRead
  <2>2. [story EXCEPT ![w] = @ \o long] = StoryTold(n, short, e \o long, drift, sens)
    <3>1. StoryMore(n, short, e, drift, sens, long)
      <4> HIDE DEF n, e, short, drift, sens, long
      <4> QED
        BY ONLY StoryGrows
    <3> QED
      BY <3>1, Zenon DEF StoryMore
  <2> QED
    BY <1>4, <2>1, <2>2, Zenon
<1>12. /\ IsSequence(a) /\ IsSequence(b) /\ IsSequence(c) /\ IsSequence(d) /\ IsSequence(f)
       /\ IsSequence(g) /\ IsSequence(h)
  <2>1. IsSequence(d)
    <3>1. DriftRead(drift, n, e, e, e, W)
      <4> HIDE DEF drift, n, e
      <4> QED
        BY <1>1, DriftIsRead
    <3> QED
      BY <3>1, Zenon DEF DriftRead
  <2>2. IsSequence(f)
    BY FewLines, Zenon DEF SensitivityLines
  <2>3. IsSequence(a) /\ IsSequence(b) /\ IsSequence(c) /\ IsSequence(g) /\ IsSequence(h)
    BY FewLines, Zenon
  <2> QED
    BY <2>1, <2>2, <2>3
<1> HIDE DEF a, b, c, d, f, g, h, file, Told, ab, abc, abcd, abcdf, abcdfg
<1>13. ReadOn(file, st, a, b)
  BY <1>12, ReadJoined
<1>14. IsSequence(ab)
  BY <1>13, Zenon DEF ReadOn, ab
<1>15. ReadOn(file, st, ab, c)
  BY <1>12, <1>14, ReadJoined
<1>16. IsSequence(abc)
  BY <1>15, Zenon DEF ReadOn, abc
<1>17. ReadOn(file, st, abc, d)
  BY <1>12, <1>16, ReadJoined
<1>18. IsSequence(abcd)
  BY <1>17, Zenon DEF ReadOn, abcd
<1>19. ReadOn(file, st, abcd, f)
  BY <1>12, <1>18, ReadJoined
<1>20. IsSequence(abcdf)
  BY <1>19, Zenon DEF ReadOn, abcdf
<1>21. ReadOn(file, st, abcdf, g)
  BY <1>12, <1>20, ReadJoined
<1>22. IsSequence(abcdfg)
  BY <1>21, Zenon DEF ReadOn, abcdfg
<1>23. ReadOn(file, st, abcdfg, h)
  BY <1>12, <1>22, ReadJoined
<1>24. ReadLines(file, st, abc) = Told(short, e, e, e, "drift")
  BY <1>5, <1>6, <1>7, <1>13, <1>15, Zenon DEF ReadOn, ab, abc
<1>25. ReadLines(file, st, abcdf) = Told(short, e, drift, sens, section)
  BY <1>8, <1>9, <1>17, <1>19, <1>24, Zenon DEF ReadOn, abcd, abcdf
<1>26. ReadLines(file, st, abcdfg \o h) = Told(short, item.long, drift, sens, "long")
  BY <1>10, <1>11, <1>21, <1>23, <1>25, Zenon DEF ReadOn, abcdfg
<1> QED
  BY <1>2, <1>23, <1>26, Zenon DEF ReadOn, Told, StoryOf, file

\* The stories of the first k items that no later one of these replaces.
StoriesKept(items, k) ==
  LET last == {i \in 1 .. k : \A j \in i + 1 .. k : items[j].name # items[i].name}
  IN {StoryOf(items[i]) : i \in last}

\* The name of a story.
LEMMA StoryNamed ==
  ASSUME NEW item
  PROVE  StoryOf(item).name = item.name
<1>1. ASSUME NEW n, NEW s, NEW l, NEW d, NEW e
      PROVE  [name |-> n, short |-> s, long |-> l, drift |-> d, sensitivity |-> e].name = n
  OBVIOUS
<1> QED
  BY <1>1, Zenon DEF StoryOf, StoryTold

\* One more story replaces those of its name.
LEMMA KeptNext ==
  ASSUME NEW items, NEW k \in Nat \ {0}
  PROVE  StoriesKept(items, k) = {s \in StoriesKept(items, k - 1) : s.name # StoryOf(items[k]).name} \cup {StoryOf(items[k])}
<1> DEFINE last(n) == {i \in 1 .. n : \A j \in i + 1 .. n : items[j].name # items[i].name}
           new == StoryOf(items[k])
<1>1. new.name = items[k].name
  BY StoryNamed
<1>2. k \in last(k)
  OBVIOUS
<1>3. \A i \in last(k) : i = k \/ (i \in last(k - 1) /\ items[i].name # items[k].name)
  <2> SUFFICES ASSUME NEW i \in last(k), i # k PROVE i \in last(k - 1) /\ items[i].name # items[k].name
    OBVIOUS
  <2>1. i \in 1 .. k /\ i # k /\ i \in 1 .. k - 1 /\ k \in i + 1 .. k
    OBVIOUS
  <2>2. items[k].name # items[i].name
    BY <2>1
  <2>3. ASSUME NEW j \in i + 1 .. k - 1 PROVE items[j].name # items[i].name
    <3>1. j \in i + 1 .. k
      BY <2>1
    <3> QED
      BY <3>1
  <2> QED
    BY <2>1, <2>2, <2>3
<1>4. \A i \in last(k - 1) : items[i].name # items[k].name => i \in last(k)
  <2> SUFFICES ASSUME NEW i \in last(k - 1), items[i].name # items[k].name PROVE i \in last(k)
    OBVIOUS
  <2>1. i \in 1 .. k - 1 /\ i \in 1 .. k
    OBVIOUS
  <2>2. ASSUME NEW j \in i + 1 .. k PROVE items[j].name # items[i].name
    <3>1. j = k \/ j \in i + 1 .. k - 1
      BY <2>1
    <3> QED
      BY <3>1
  <2> QED
    BY <2>1, <2>2
<1>5. \A n : StoriesKept(items, n) = {StoryOf(items[i]) : i \in last(n)}
  BY Zenon DEF StoriesKept
<1> HIDE DEF last
<1>6. ASSUME NEW s \in StoriesKept(items, k) PROVE s \in {x \in StoriesKept(items, k - 1) : x.name # new.name} \cup {new}
  <2>1. PICK i \in last(k) : s = StoryOf(items[i])
    <3>1. s \in {StoryOf(items[i]) : i \in last(k)}
      BY <1>5, <1>6, Zenon
    <3> QED
      BY <3>1
  <2>2. CASE i = k
    BY <2>1, <2>2, Zenon
  <2>3. CASE i \in last(k - 1) /\ items[i].name # items[k].name
    <3>1. s.name # new.name
      BY <1>1, <2>1, <2>3, StoryNamed, Zenon
    <3>2. s \in StoriesKept(items, k - 1)
      BY <1>5, <2>1, <2>3, Zenon
    <3> QED
      BY <3>1, <3>2, Zenon
  <2> QED
    BY <1>3, <2>2, <2>3, Zenon
<1>7. ASSUME NEW s \in {x \in StoriesKept(items, k - 1) : x.name # new.name} \cup {new} PROVE s \in StoriesKept(items, k)
  <2>1. CASE s = new
    BY <1>2, <1>5, <2>1, Zenon
  <2>2. CASE s \in StoriesKept(items, k - 1) /\ s.name # new.name
    <3>1. PICK i \in last(k - 1) : s = StoryOf(items[i])
      <4>1. s \in {StoryOf(items[i]) : i \in last(k - 1)}
        BY <1>5, <2>2, Zenon
      <4> QED
        BY <4>1
    <3>2. items[i].name # items[k].name
      BY <1>1, <2>2, <3>1, StoryNamed, Zenon
    <3> QED
      BY <1>4, <1>5, <3>1, <3>2, Zenon
  <2> QED
    BY <1>7, <2>1, <2>2, Zenon
<1> QED
  BY <1>6, <1>7, Zenon

\* Keeping a story does the same.
LEMMA CommitKeeps ==
  ASSUME NEW c, c # NoStory, NEW s, NEW W
  PROVE  /\ StoriesState(c, s, W).ok
         /\ Commit(StoriesState(c, s, W)) = StoriesState(NoStory, "", {x \in W : x.name # c.name} \cup {c})
<1> DEFINE st == StoriesState(c, s, W)
           next == {x \in W : x.name # c.name} \cup {c}
<1>1. StateFields(st, c, s, W)
  <2>1. StateChanges(c, s, W, c)
    BY StoriesStateFields
  <2> QED
    BY <2>1, Zenon DEF StateChanges
<1>2. [st EXCEPT !.stories = next, !.current = NoStory, !.section = ""] = StoriesState(NoStory, "", next)
  <2>1. Committed(c, s, W, next)
    <3> HIDE DEF next
    <3> QED
      BY CommitChanges
  <2> QED
    BY <2>1, Zenon DEF Committed
<1> HIDE DEF st
<1>3. Commit(st) = [st EXCEPT !.stories = {x \in st.stories : x.name # st.current.name} \cup {st.current},
                              !.current = NoStory, !.section = ""]
  <2>1. st.current # NoStory
    BY <1>1, Zenon DEF StateFields
  <2> QED
    BY <2>1, Zenon DEF Commit
<1>4. {x \in st.stories : x.name # st.current.name} \cup {st.current} = next
  BY <1>1, Zenon DEF StateFields
<1> QED
  BY <1>1, <1>2, <1>3, <1>4, Zenon DEF StateFields, st

\* stories.md is read as the stories the operator wrote.
LEMMA StoriesAreRead ==
  ASSUME input.items \in BoundedSeq(StoryItems, MaxItems)
  PROVE  LET parsed == ParseStories(FlattenSeq([k \in DOMAIN input.items |-> StoryLines(input.items[k])]))
         IN parsed.ok /\ parsed.stories = StoriesWritten
<1> DEFINE items == input.items
           lines == [k \in DOMAIN items |-> StoryLines(items[k])]
<1>1. PICK N \in Nat : items \in [1 .. N -> StoryItems]
  BY ContentAssumption DEF BoundedSeq, SeqOf
<1>2. DOMAIN items = 1 .. N /\ Len(items) = N /\ \A k \in 1 .. N : StoryIsWritten(items[k])
  BY <1>1, ContentAssumption
<1> HIDE DEF items
<1>3. lines = [k \in 1 .. N |-> lines[k]] /\ \A k \in 1 .. N : lines[k] = StoryLines(items[k])
  BY <1>2
<1> HIDE DEF lines
<1>4. \A k \in 1 .. N : lines[k] \in Seq(ToSet(lines[k]))
  <2> SUFFICES ASSUME NEW k \in 1 .. N PROVE lines[k] \in Seq(ToSet(lines[k]))
    OBVIOUS
  <2> DEFINE no == StoriesState(NoStory, "", {})
             item == items[k]
  <2>1. no.ok /\ no.current = NoStory
    <3>1. StateChanges(NoStory, "", {}, NoStory)
      BY StoriesStateFields
    <3> QED
      BY <3>1, Zenon DEF StateChanges, StateFields
  <2>2. Commit(no) = no
    BY <2>1, Zenon DEF Commit
  <2>3. StoryIsWritten(item) /\ no.ok /\ Commit(no) = StoriesState(NoStory, "", {})
    BY <1>2, <2>1, <2>2, Zenon
  <2>4. IsSequence(StoryLines(item))
    <3> HIDE DEF no, item
    <3> QED
      BY <2>3, StoryIsRead, Zenon
  <2> QED
    BY <1>3, <2>4, Zenon DEF IsSequence
<1>5. PICK L : \E c \in [0 .. N -> Seq(L)] :
        FlattenedBy(c, lines) /\ Len(lines) = N /\ \A k \in 1 .. N : lines[k] \in Seq(L)
  BY <1>3, <1>4, LinesFlattened
<1>6. PICK c \in [0 .. N -> Seq(L)] :
        FlattenedBy(c, lines) /\ Len(lines) = N /\ \A k \in 1 .. N : lines[k] \in Seq(L)
  BY <1>5, Zenon
<1> DEFINE St(k) == ReadLines("stories", NoStories, c[k])
           SoFar(k) == St(k).ok /\ Commit(St(k)) = StoriesState(NoStory, "", StoriesKept(items, k))
           T == {k \in 0 .. N : SoFar(k)}
<1>7. 0 \in T
  <2>1. c[0] = <<>>
    BY <1>6, Zenon DEF FlattenedBy
  <2>2. StoriesKept(items, 0) = {}
    <3>1. 1 .. 0 = {}
      OBVIOUS
    <3> QED
      BY <3>1, Zenon DEF StoriesKept
  <2>3. NoStories = StoriesState(NoStory, "", {})
    BY Zenon DEF NoStories, StoriesState
  <2>4. NoStories.ok /\ NoStories.current = NoStory
    <3>1. StateChanges(NoStory, "", {}, NoStory)
      BY StoriesStateFields
    <3> QED
      BY <2>3, <3>1, Zenon DEF StateChanges, StateFields
  <2>5. Commit(NoStories) = NoStories
    BY <2>4, Zenon DEF Commit
  <2>6. SoFar(0)
    BY <2>1, <2>2, <2>3, <2>4, <2>5, ReadNothing, Zenon
  <2>7. 0 \in 0 .. N
    BY <1>1
  <2> HIDE DEF SoFar
  <2> QED
    BY <2>6, <2>7
<1>8. ASSUME NEW k \in 1 .. N, k - 1 \in T PROVE k \in T
  <2>1. SoFar(k - 1) /\ k - 1 \in 0 .. N /\ k \in 0 .. N /\ k \in Nat \ {0}
    <3>1. SoFar(k - 1)
      BY <1>8, Zenon
    <3> HIDE DEF SoFar, T
    <3>2. k - 1 \in 0 .. N /\ k \in 0 .. N /\ k \in Nat \ {0}
      BY <1>1
    <3> QED
      BY <3>1, <3>2
  <2>2. /\ c[k] = c[k - 1] \o lines[k] /\ c[k - 1] \in Seq(L) /\ lines[k] \in Seq(L)
    <3> HIDE DEF T
    <3> QED
      BY <1>6, <2>1 DEF FlattenedBy
  <2> DEFINE before == c[k - 1]
             line == lines[k]
             file == "stories"
             none == NoStories
             item == items[k]
             st == St(k - 1)
             W == StoriesKept(items, k - 1)
             new == StoryOf(item)
             long == "long"
  <2>3. ReadLines(file, none, before \o line) = ReadLines(file, ReadLines(file, none, before), line)
    <3>1. before \in Seq(L) /\ line \in Seq(L)
      BY <2>2
    <3> HIDE DEF before, line, file, none, T
    <3> QED
      BY <3>1, ReadConcat
  <2>4. ReadLines("stories", st, StoryLines(item)) = StoriesState(new, long, W)
    <3>1. StoryIsWritten(item) /\ st.ok /\ Commit(st) = StoriesState(NoStory, "", W)
      BY <1>2, <2>1, Zenon
    <3> HIDE DEF st, item, W
    <3> QED
      BY <3>1, StoryIsRead, Zenon DEF new
  <2>5. new # NoStory
    <3>1. item.name # <<>>
      <4>1. StoryIsWritten(item)
        BY <1>2, Zenon
      <4> QED
        BY <4>1, Zenon DEF StoryIsWritten
    <3>2. new.name # <<>>
      BY <3>1, StoryNamed, Zenon
    <3>3. NoStory.name = <<>>
      BY DEF NoStory
    <3> QED
      BY <3>2, <3>3, Zenon
  <2>6. /\ StoriesState(new, long, W).ok
        /\ Commit(StoriesState(new, long, W)) = StoriesState(NoStory, "", {x \in W : x.name # new.name} \cup {new})
    <3> HIDE DEF new, W, long
    <3> QED
      BY <2>5, CommitKeeps, Zenon
  <2>7. StoriesKept(items, k) = {x \in W : x.name # new.name} \cup {new}
    BY <2>1, KeptNext, Zenon
  <2>8. SoFar(k)
    <3>1. St(k) = StoriesState(new, long, W)
      BY <1>3, <2>2, <2>3, <2>4, Zenon
    <3> QED
      BY <2>6, <2>7, <3>1, Zenon
  <2> HIDE DEF SoFar
  <2> QED
    BY <2>1, <2>8
<1>9. SoFar(N)
  <2> HIDE DEF T
  <2>1. N \in 0 .. N
    BY <1>1
  <2>2. \A k \in 0 .. N : k \in T
    BY <1>1, <1>7, <1>8, UpTo
  <2> HIDE DEF SoFar
  <2> QED
    BY <2>1, <2>2 DEF T
<1>10. StoriesKept(items, N) = StoriesWritten
  <2>1. ASSUME NEW k PROVE StoryOf(items[k]) = [name |-> items[k].name, short |-> items[k].short,
           long |-> items[k].long, drift |-> items[k].drift, sensitivity |-> items[k].sensitivity]
    BY Zenon DEF StoryOf, StoryTold
  <2> QED
    BY <1>2, <2>1, Zenon DEF StoriesWritten, StoriesKept, items
<1>11. LET st == StoriesState(NoStory, "", StoriesKept(items, N)) IN st.ok /\ st.stories = StoriesKept(items, N)
  <2> DEFINE W == StoriesKept(items, N)
  <2>1. StateChanges(NoStory, "", W, NoStory)
    BY StoriesStateFields
  <2> QED
    BY <2>1, Zenon DEF StateChanges, StateFields
<1> QED
  BY <1>6, <1>9, <1>10, <1>11, Zenon DEF ParseStories, FlattenedBy, items, lines

-----------------------------------------------------------------------------
(* Globs                                                                   *)

IsStars(p) == p = "**"

\* Segment p of a glob takes the segments of a name between places i and j.
Takes(p, np, i, j) == IF IsStars(p) THEN i <= j ELSE j = i + 1 /\ MatchSegment(p, np[j])

\* A glob takes a name: the places where its segments end.
Ends(pp, np, e) ==
  /\ e \in [0 .. Len(pp) -> 0 .. Len(np)]
  /\ e[0] = 0 /\ e[Len(pp)] = Len(np)
  /\ \A k \in 1 .. Len(pp) : Takes(pp[k], np, e[k - 1], e[k])

Earlier(np, p, rest) ==
  {k \in 0 .. Len(np) : IF p = "**" THEN \E j \in rest : k <= j
                        ELSE k + 1 \in rest /\ MatchSegment(p, np[k + 1])}

\* What matchSegs made of a glob, from its last segment on.
MatchedBy(f, pp, np) ==
  /\ MatchSegs(pp, np) <=> 0 \in f[Len(pp)]
  /\ f[0] = {Len(np)}
  /\ \A n \in 1 .. Len(pp) : f[n] = Earlier(np, pp[Len(pp) - n + 1], f[n - 1])

\* matchSegs has such intermediate results.
LEMMA MatchedIs ==
  ASSUME NEW pp, Len(pp) \in Nat, NEW np
  PROVE  \E f : MatchedBy(f, pp, np)
<1> DEFINE N == Len(pp)
           first == {Len(np)}
           Is(r, m) == r = [n \in 0 .. m |->
                              IF n = 0 THEN first ELSE Earlier(np, pp[N - n + 1], r[n - 1])]
           T == {m \in 0 .. N : \E r : Is(r, m)}
<1>0. N \in Nat
  OBVIOUS
<1> HIDE DEF N, first
<1>1. 0 \in T
  <2> DEFINE r == [n \in 0 .. 0 |-> first]
             h == [n \in 0 .. 0 |-> IF n = 0 THEN first ELSE Earlier(np, pp[N - n + 1], r[n - 1])]
  <2>1. \A n \in 0 .. 0 : n = 0
    OBVIOUS
  <2>2. r = h
    BY <2>1
  <2> HIDE DEF r
  <2>3. Is(r, 0)
    BY <2>2
  <2>4. 0 \in 0 .. N
    BY <1>0
  <2> QED
    BY <2>3, <2>4
<1>2. ASSUME NEW m \in 1 .. N, m - 1 \in T PROVE m \in T
  <2>1. PICK f : Is(f, m - 1)
    BY <1>2
  <2> DEFINE g == [n \in 0 .. m |-> IF n = m THEN Earlier(np, pp[N - m + 1], f[m - 1]) ELSE f[n]]
             h == [n \in 0 .. m |-> IF n = 0 THEN first ELSE Earlier(np, pp[N - n + 1], g[n - 1])]
  <2>2. m - 1 \in 0 .. m - 1 /\ m \in Nat /\ m # 0
    BY <1>0
  <2>3. \A n \in 0 .. m - 1 : g[n] = f[n]
    BY <2>2
  <2>4. ASSUME NEW n \in 0 .. m PROVE g[n] = h[n]
    <3>1. CASE n = m
      <4>1. g[n - 1] = f[m - 1] /\ n # 0
        BY <2>2, <2>3, <3>1
      <4> QED
        BY <3>1, <4>1
    <3>2. CASE n # m
      <4>1. n \in 0 .. m - 1 /\ (n # 0 => n - 1 \in 0 .. m - 1)
        BY <2>2, <3>2
      <4>2. f[n] = IF n = 0 THEN first ELSE Earlier(np, pp[N - n + 1], f[n - 1])
        BY <2>1, <4>1
      <4>3. g[n] = f[n] /\ (n # 0 => g[n - 1] = f[n - 1])
        BY <2>3, <4>1
      <4> QED
        BY <4>2, <4>3
    <3> QED
      BY <3>1, <3>2
  <2>5. g = h
    BY <2>4
  <2> HIDE DEF g
  <2>6. Is(g, m)
    BY <2>5
  <2>7. m \in 0 .. N
    BY <1>0
  <2> HIDE DEF Is
  <2> QED
    BY <2>6, <2>7, Zenon
<1>3. N \in T
  <2> HIDE DEF T
  <2>1. N \in 0 .. N
    BY <1>0
  <2> QED
    BY <1>0, <1>1, <1>2, <2>1, UpTo
<1>4. \E r : Is(r, N)
  BY <1>3, Zenon
<1> DEFINE matched == CHOOSE r : Is(r, N)
<1>5. Is(matched, N)
  BY <1>4, Zenon
<1>6. MatchSegs(pp, np) <=> 0 \in matched[N]
  BY Zenon DEF MatchSegs, Earlier, N, first
<1> HIDE DEF matched
<1>7. matched[0] = first /\ \A n \in 1 .. N : matched[n] = Earlier(np, pp[N - n + 1], matched[n - 1])
  BY <1>0, <1>5
<1> QED
  BY <1>6, <1>7, Zenon DEF MatchedBy, N, first

\* One step of matchSegs back.
LEMMA EarlierIs ==
  ASSUME NEW np, Len(np) \in Nat, NEW p, NEW rest, NEW k \in 0 .. Len(np)
  PROVE  k \in Earlier(np, p, rest) <=> \E j \in rest : Takes(p, np, k, j)
<1>1. CASE p = "**"
  BY <1>1, Zenon DEF Earlier, Takes, IsStars
<1>2. CASE p # "**"
  BY <1>2, Zenon DEF Earlier, Takes, IsStars
<1> QED
  BY <1>1, <1>2

\* A place behind the first of a range.
LEMMA NextPlace ==
  ASSUME NEW P \in Nat, NEW m \in 1 .. P, NEW i \in m .. P, i # m
  PROVE  i \in m + 1 .. P /\ i - 1 \in m .. P
OBVIOUS

\* matchSegs finds such places whenever there are some.
LEMMA SegsAreMatched ==
  ASSUME NEW pp, NEW np, Len(pp) \in Nat, Len(np) \in Nat
  PROVE  MatchSegs(pp, np) <=> \E e : Ends(pp, np, e)
<1> DEFINE P == Len(pp)
           N == Len(np)
           FromHere(e, n, k) ==
             e[P - n] = k /\ e[P] = N /\ \A i \in P - n + 1 .. P : Takes(pp[i], np, e[i - 1], e[i])
           Back(n, k) == \E e \in [0 .. P -> 0 .. N] : FromHere(e, n, k)
<1>1. P \in Nat /\ N \in Nat
  OBVIOUS
<1>2. PICK f : MatchedBy(f, pp, np)
  BY <1>1, MatchedIs
<1> DEFINE Right(n) == \A k : k \in f[n] <=> k \in 0 .. N /\ Back(n, k)
           T == {n \in 0 .. P : Right(n)}
<1>3. f[0] = {N} /\ \A n \in 1 .. P : f[n] = Earlier(np, pp[P - n + 1], f[n - 1])
  BY <1>2, Zenon DEF MatchedBy
<1> HIDE DEF P, N
<1>4. 0 \in T
  <2>1. ASSUME NEW k, k \in f[0] PROVE k \in 0 .. N /\ Back(0, k)
    <3> DEFINE e == [i \in 0 .. P |-> N]
    <3>1. k = N /\ N \in 0 .. N
      BY <1>1, <1>3, <2>1
    <3>2. e \in [0 .. P -> 0 .. N] /\ e[P - 0] = N /\ e[P] = N
      BY <1>1
    <3>3. ~ \E i \in P - 0 + 1 .. P : TRUE
      BY <1>1
    <3> HIDE DEF e
    <3> QED
      BY <3>1, <3>2, <3>3
  <2>2. ASSUME NEW k, Back(0, k) PROVE k \in f[0]
    <3>1. P - 0 = P
      BY <1>1
    <3>2. k = N
      BY <2>2, <3>1
    <3> QED
      BY <1>3, <3>2
  <2>3. 0 \in 0 .. P
    BY <1>1
  <2>4. Right(0)
    <3> HIDE DEF Back
    <3> QED
      BY <2>1, <2>2
  <2> HIDE DEF Right
  <2> QED
    BY <2>3, <2>4
<1>5. ASSUME NEW n \in 1 .. P, n - 1 \in T PROVE n \in T
  <2> DEFINE m == P - n + 1
  <2>1. /\ m \in 1 .. P /\ m - 1 = P - n /\ P - (n - 1) = m /\ m - 1 \in 0 .. P /\ n \in 0 .. P
        /\ P - (n - 1) + 1 = m + 1 /\ m \in 0 .. P
    BY <1>1
  <2>2. Right(n - 1)
    BY <1>5, Zenon
  <2>3. f[n] = Earlier(np, pp[m], f[n - 1])
    BY <1>3
  <2> HIDE DEF m
  <2>4. ASSUME NEW k \in 0 .. N, NEW j \in f[n - 1], Takes(pp[m], np, k, j) PROVE Back(n, k)
    <3>1. Back(n - 1, j)
      BY <2>2, Zenon
    <3>2. PICK e \in [0 .. P -> 0 .. N] : FromHere(e, n - 1, j)
      BY <3>1
    <3> DEFINE g == [e EXCEPT ![m - 1] = k]
    <3>3. /\ g \in [0 .. P -> 0 .. N] /\ g[m - 1] = k
          /\ \A i \in m .. P : i \in 0 .. P /\ g[i] = e[i]
      BY <1>1, <2>1
    <3>4. m \in m .. P /\ P \in m .. P
      BY <1>1, <2>1
    <3>5. e[m] = j /\ e[P] = N /\ \A i \in m + 1 .. P : Takes(pp[i], np, e[i - 1], e[i])
      BY <2>1, <3>2
    <3> HIDE DEF g
    <3>6. ASSUME NEW i \in m .. P PROVE Takes(pp[i], np, g[i - 1], g[i])
      <4>1. CASE i = m
        BY <2>4, <3>3, <3>4, <3>5, <4>1
      <4>2. CASE i # m
        <5>1. i \in m + 1 .. P /\ i - 1 \in m .. P
          BY ONLY <1>1, <2>1, <4>2, i \in m .. P, NextPlace
        <5> QED
          BY <3>3, <3>5, <5>1
      <4> QED
        BY <4>1, <4>2
    <3>7. FromHere(g, n, k)
      <4>1. m = P - n + 1
        BY DEF m
      <4>2. g[P - n] = k /\ g[P] = N
        BY <2>1, <3>3, <3>4, <3>5
      <4> QED
        BY <3>6, <4>1, <4>2
    <3> HIDE DEF FromHere
    <3> QED
      BY <3>3, <3>7
  <2>5. ASSUME NEW k \in 0 .. N, Back(n, k) PROVE \E j \in f[n - 1] : Takes(pp[m], np, k, j)
    <3>1. PICK e \in [0 .. P -> 0 .. N] : FromHere(e, n, k)
      BY <2>5
    <3>2. e[m - 1] = k /\ e[P] = N /\ \A i \in m .. P : Takes(pp[i], np, e[i - 1], e[i])
      <4>1. m = P - n + 1
        BY DEF m
      <4> QED
        BY <2>1, <3>1, <4>1
    <3>3. m \in m .. P /\ e[m] \in 0 .. N /\ \A i \in m + 1 .. P : i \in m .. P
      BY <1>1, <2>1
    <3>4. FromHere(e, n - 1, e[m])
      BY <2>1, <3>2, <3>3
    <3>5. e[m] \in f[n - 1]
      <4> HIDE DEF FromHere
      <4>1. Back(n - 1, e[m])
        BY <3>4
      <4> HIDE DEF Back
      <4> QED
        BY <2>2, <3>3, <4>1, Zenon
    <3> QED
      BY <3>2, <3>3, <3>5
  <2> HIDE DEF Back
  <2>6. \A k \in 0 .. N : k \in f[n] <=> \E j \in f[n - 1] : Takes(pp[m], np, k, j)
    <3> SUFFICES ASSUME NEW k \in 0 .. N PROVE k \in f[n] <=> \E j \in f[n - 1] : Takes(pp[m], np, k, j)
      OBVIOUS
    <3> DEFINE p == pp[m]
               rest == f[n - 1]
    <3>1. k \in Earlier(np, p, rest) <=> \E j \in rest : Takes(p, np, k, j)
      <4> HIDE DEF p, rest
      <4> QED
        BY <1>1, EarlierIs DEF N
    <3> QED
      BY <2>3, <3>1
  <2>7. \A k : k \in f[n] => k \in 0 .. N
    BY <2>3, Zenon DEF Earlier, N
  <2>8. Right(n)
    BY <2>4, <2>5, <2>6, <2>7, Zenon
  <2> HIDE DEF Right
  <2> QED
    BY <2>1, <2>8
<1>6. Right(P)
  <2> HIDE DEF T
  <2>1. P \in 0 .. P
    BY <1>1
  <2>2. \A n \in 0 .. P : n \in T
    BY <1>1, <1>4, <1>5, UpTo
  <2> HIDE DEF Right
  <2> QED
    BY <2>1, <2>2 DEF T
<1>7. Back(P, 0) <=> \E e : Ends(pp, np, e)
  <2>1. P - P = 0 /\ 0 + 1 = 1
    BY <1>1
  <2>2. \A e : FromHere(e, P, 0) <=> e[0] = 0 /\ e[P] = N /\ \A i \in 1 .. P : Takes(pp[i], np, e[i - 1], e[i])
    BY <2>1
  <2> HIDE DEF FromHere
  <2> QED
    BY <2>2, Zenon DEF Ends, P, N
<1>8. 0 \in 0 .. N
  BY <1>1
<1> QED
  BY <1>2, <1>6, <1>7, <1>8, Zenon DEF MatchedBy, P

\* What the segments of a sequence of sequences are in their flattening.
PartsOf(N, c, seqs) ==
  /\ \A k \in 1 .. N :
       /\ Len(c[k]) = Len(c[k - 1]) + Len(seqs[k])
       /\ \A j \in 1 .. Len(c[k]) :
            c[k][j] = IF j <= Len(c[k - 1]) THEN c[k - 1][j] ELSE seqs[k][j - Len(c[k - 1])]
  /\ \A k \in 0 .. N : /\ Len(c[k]) \in Nat /\ Len(c[k]) <= Len(c[N])
                       /\ \A j \in 1 .. Len(c[k]) : c[N][j] = c[k][j]

\* Every segment is where it was put.
LEMMA FlattenedWithin ==
  ASSUME NEW S, NEW N \in Nat, NEW c \in [0 .. N -> Seq(S)], NEW seqs,
         \A k \in 1 .. N : seqs[k] \in Seq(S) /\ c[k] = c[k - 1] \o seqs[k]
  PROVE  PartsOf(N, c, seqs)
<1>1. \A k \in 0 .. N : Len(c[k]) \in Nat /\ c[k] \in Seq(S)
  BY LenProperties
<1>2. ASSUME NEW k \in 1 .. N
      PROVE  /\ Len(c[k]) = Len(c[k - 1]) + Len(seqs[k]) /\ Len(seqs[k]) \in Nat
             /\ \A j \in 1 .. Len(c[k]) :
                  c[k][j] = IF j <= Len(c[k - 1]) THEN c[k - 1][j] ELSE seqs[k][j - Len(c[k - 1])]
  <2> DEFINE a == c[k - 1]
             b == seqs[k]
  <2>1. a \in Seq(S) /\ b \in Seq(S) /\ c[k] = a \o b
    <3>1. k - 1 \in 0 .. N
      OBVIOUS
    <3> QED
      BY <1>1, <3>1
  <2> HIDE DEF a, b
  <2>2. /\ Len(a \o b) = Len(a) + Len(b) /\ Len(b) \in Nat
        /\ \A j \in 1 .. Len(a) + Len(b) : (a \o b)[j] = IF j <= Len(a) THEN a[j] ELSE b[j - Len(a)]
    BY <2>1, ConcatProperties, LenProperties
  <2> QED
    BY <2>1, <2>2 DEF a, b
<1> DEFINE Holds(i, k) == Len(c[i]) <= Len(c[k]) /\ \A j \in 1 .. Len(c[i]) : c[k][j] = c[i][j]
           T == {k \in 0 .. N : \A i \in 0 .. k : Holds(i, k)}
<1>3. 0 \in T
  <2>1. 0 \in 0 .. N /\ \A i \in 0 .. 0 : i = 0
    OBVIOUS
  <2>2. Len(c[0]) <= Len(c[0])
    BY <1>1, <2>1
  <2> QED
    BY <2>1, <2>2
<1>4. ASSUME NEW k \in 1 .. N, k - 1 \in T PROVE k \in T
  <2>1. k \in 0 .. N /\ k - 1 \in 0 .. N
    OBVIOUS
  <2>2. ASSUME NEW i \in 0 .. k PROVE Holds(i, k)
    <3>1. CASE i = k
      <4>1. Len(c[i]) <= Len(c[i])
        BY <1>1, <2>1, <3>1
      <4> QED
        BY <3>1, <4>1
    <3>2. CASE i # k
      <4>1. i \in 0 .. k - 1 /\ i \in 0 .. N
        BY <3>2
      <4>2. Holds(i, k - 1)
        BY <1>4, <4>1
      <4>3. Len(c[i]) \in Nat /\ Len(c[k - 1]) \in Nat /\ Len(seqs[k]) \in Nat
            /\ Len(c[k]) = Len(c[k - 1]) + Len(seqs[k])
        BY <1>1, <1>2, <2>1, <4>1
      <4> HIDE DEF T
      <4>7. Len(c[i]) <= Len(c[k - 1]) /\ Len(c[k - 1]) <= Len(c[k]) /\ Len(c[i]) <= Len(c[k])
            /\ Len(c[k]) \in Nat
        <5> DEFINE x == Len(c[i])
                   y == Len(c[k - 1])
                   z == Len(seqs[k])
                   w == Len(c[k])
        <5>1. x \in Nat /\ y \in Nat /\ z \in Nat /\ w = y + z /\ x <= y
          BY <4>2, <4>3
        <5> HIDE DEF x, y, z, w
        <5>2. x <= y /\ y <= w /\ x <= w /\ w \in Nat
          BY ONLY <5>1
        <5> QED
          BY <5>2, Zenon DEF x, y, w
      <4>4. \A j \in 1 .. Len(c[i]) : c[k][j] = c[k - 1][j] /\ c[k - 1][j] = c[i][j]
        <5> SUFFICES ASSUME NEW j \in 1 .. Len(c[i]) PROVE c[k][j] = c[k - 1][j] /\ c[k - 1][j] = c[i][j]
          OBVIOUS
        <5>1. c[k - 1][j] = c[i][j] /\ Len(c[i]) <= Len(c[k - 1])
          BY <4>2
        <5>2. j \in 1 .. Len(c[k]) /\ j <= Len(c[k - 1])
          <6> DEFINE x == Len(c[i])
                     y == Len(c[k - 1])
                     w == Len(c[k])
          <6>1. x \in Nat /\ y \in Nat /\ w \in Nat /\ x <= y /\ x <= w /\ j \in 1 .. x
            BY <4>3, <4>7
          <6> HIDE DEF x, y, w
          <6>2. j \in 1 .. w /\ j <= y
            BY ONLY <6>1
          <6> QED
            BY <6>2, Zenon DEF y, w
        <5> QED
          BY <1>2, <5>1, <5>2
      <4>5. Len(c[i]) <= Len(c[k])
        BY <4>7
      <4>6. \A j \in 1 .. Len(c[i]) : c[k][j] = c[i][j]
        BY <4>4
      <4> QED
        BY <4>5, <4>6
    <3> QED
      BY <3>1, <3>2
  <2> QED
    BY <2>1, <2>2
<1>5. N \in T
  <2> HIDE DEF T
  <2>1. N \in 0 .. N
    OBVIOUS
  <2> QED
    BY <1>3, <1>4, <2>1, UpTo
<1>6. \A k \in 0 .. N : Holds(k, N)
  BY <1>5
<1> QED
  BY <1>1, <1>2, <1>6, Zenon DEF PartsOf

\* The segments a segment of a glob stands for, n of them if it is `**`.
Spread(p, n) == IF p = "**" THEN [j \in 1 .. n |-> "*"] ELSE <<p>>

\* How many segments, and which.
LEMMA SpreadIs ==
  ASSUME NEW p, NEW n, IsStars(p) => n \in Nat
  PROVE  /\ Len(Spread(p, n)) = IF IsStars(p) THEN n ELSE 1
         /\ Spread(p, n) \in Seq({"*", p})
         /\ \A j \in 1 .. Len(Spread(p, n)) : Spread(p, n)[j] = IF IsStars(p) THEN "*" ELSE p
<1> DEFINE star == "*"
           s == Spread(p, n)
           S == {star, p}
<1>1. CASE IsStars(p)
  <2>1. s = [j \in 1 .. n |-> star] /\ n \in Nat
    BY <1>1, Zenon DEF IsStars, Spread
  <2>2. star \in S
    OBVIOUS
  <2> HIDE DEF s, star, S
  <2>3. Len(s) = n /\ s \in Seq(S) /\ \A j \in 1 .. Len(s) : s[j] = star
    BY <2>1, <2>2
  <2> QED
    BY <1>1, <2>3, Zenon DEF s, star, S
<1>2. CASE ~ IsStars(p)
  <2>1. s = <<p>>
    BY <1>2, Zenon DEF IsStars, Spread
  <2>2. p \in S
    OBVIOUS
  <2> HIDE DEF s, star, S
  <2>3. Len(s) = 1 /\ s \in Seq(S) /\ \A j \in 1 .. Len(s) : s[j] = p
    BY <2>1, <2>2
  <2> QED
    BY <1>2, <2>3, Zenon DEF s, star, S
<1> QED
  BY <1>1, <1>2

StarsOf(glob) == {k \in DOMAIN glob : glob[k] = "**"}
SpreadBy(glob, n) == [k \in DOMAIN glob |-> Spread(glob[k], n[k])]

\* GlobCovers, with the operators used here.
LEMMA CoversBySpread ==
  ASSUME NEW glob, NEW name
  PROVE  GlobCovers(glob, name)
           <=> \E n \in [StarsOf(glob) -> 0 .. Len(name)] :
                 LET s == FlattenSeq(SpreadBy(glob, n))
                 IN Len(s) = Len(name) /\ \A k \in DOMAIN name : MatchSegment(s[k], name[k])
<1> DEFINE stars == StarsOf(glob)
           old(n) == FlattenSeq([k \in DOMAIN glob |->
                       IF k \in stars THEN [j \in 1 .. n[k] |-> "*"] ELSE <<glob[k]>>])
<1>1. ASSUME NEW n PROVE old(n) = FlattenSeq(SpreadBy(glob, n))
  <2>1. ASSUME NEW k \in DOMAIN glob
        PROVE  (IF k \in stars THEN [j \in 1 .. n[k] |-> "*"] ELSE <<glob[k]>>) = Spread(glob[k], n[k])
    BY Zenon DEF StarsOf, Spread
  <2>2. [k \in DOMAIN glob |-> IF k \in stars THEN [j \in 1 .. n[k] |-> "*"] ELSE <<glob[k]>>] = SpreadBy(glob, n)
    BY <2>1, Zenon DEF SpreadBy
  <2> QED
    BY <2>2, Zenon
<1>2. ASSUME NEW p, NEW x PROVE p \in {"*", x} <=> MatchSegment(p, x)
  BY Zenon DEF MatchSegment
<1>3. GlobCovers(glob, name)
        <=> \E n \in [stars -> 0 .. Len(name)] :
              Len(old(n)) = Len(name) /\ \A k \in DOMAIN name : old(n)[k] \in {"*", name[k]}
  BY Zenon DEF GlobCovers, StarsOf
<1> HIDE DEF old, stars
<1> QED
  BY <1>1, <1>2, <1>3, Zenon DEF stars

\* How long the flattening is at each segment, and what it has there.
SpreadTo(glob, n, c) ==
  /\ c[0] = <<>> /\ c[Len(glob)] = FlattenSeq(SpreadBy(glob, n))
  /\ \A k \in 0 .. Len(glob) : /\ Len(c[k]) \in Nat /\ Len(c[k]) <= Len(c[Len(glob)])
                               /\ \A j \in 1 .. Len(c[k]) : c[Len(glob)][j] = c[k][j]
  /\ \A k \in 1 .. Len(glob) :
       /\ Len(c[k]) = Len(c[k - 1]) + IF IsStars(glob[k]) THEN n[k] ELSE 1
       /\ \A j \in 1 .. Len(c[k]) :
            c[k][j] = IF j <= Len(c[k - 1]) THEN c[k - 1][j] ELSE IF IsStars(glob[k]) THEN "*" ELSE glob[k]

\* A spread has such prefixes.
LEMMA SpreadSoFar ==
  ASSUME NEW glob, IsSequence(glob), NEW n, \A k \in StarsOf(glob) : n[k] \in Nat
  PROVE  \E c : SpreadTo(glob, n, c)
<1> DEFINE P == Len(glob)
           seqs == SpreadBy(glob, n)
           star == "*"
           S == {star} \cup ToSet(glob)
<1>1. glob \in Seq(ToSet(glob))
  BY Zenon DEF IsSequence
<1>2. P \in Nat /\ DOMAIN glob = 1 .. P
  BY <1>1, LenProperties
<1>3. \A k \in 1 .. P : IsStars(glob[k]) => n[k] \in Nat
  BY <1>2, Zenon DEF StarsOf, IsStars
<1>4. seqs = [k \in 1 .. P |-> seqs[k]] /\ \A k \in 1 .. P : seqs[k] = Spread(glob[k], n[k])
  BY <1>2, Zenon DEF SpreadBy
<1> HIDE DEF P, seqs
<1>5. ASSUME NEW k \in 1 .. P
      PROVE  /\ Len(seqs[k]) = IF IsStars(glob[k]) THEN n[k] ELSE 1
             /\ seqs[k] \in Seq(ToSet(seqs[k]))
             /\ \A j \in 1 .. Len(seqs[k]) : seqs[k][j] = IF IsStars(glob[k]) THEN star ELSE glob[k]
  <2> DEFINE p == glob[k]
             m == n[k]
             s == Spread(p, m)
  <2>1. IsStars(p) => m \in Nat
    BY <1>3, Zenon
  <2>2. /\ Len(s) = IF IsStars(p) THEN m ELSE 1
        /\ s \in Seq({star, p})
        /\ \A j \in 1 .. Len(s) : s[j] = IF IsStars(p) THEN star ELSE p
    <3> HIDE DEF p, m
    <3> QED
      BY <2>1, SpreadIs, Zenon
  <2>3. s \in Seq(ToSet(s))
    <3> DEFINE W == {star, p}
    <3>1. s \in Seq(W)
      BY <2>2, Zenon
    <3> HIDE DEF s, W
    <3> QED
      BY <3>1, OwnElements
  <2>4. seqs[k] = s
    BY <1>4, Zenon
  <2> QED
    BY <2>2, <2>3, <2>4, Zenon
<1> HIDE DEF star
<1>6. PICK L : \E c \in [0 .. P -> Seq(L)] :
        FlattenedBy(c, seqs) /\ Len(seqs) = P /\ \A k \in 1 .. P : seqs[k] \in Seq(L)
  BY <1>2, <1>4, <1>5, LinesFlattened
<1>7. PICK c \in [0 .. P -> Seq(L)] :
        FlattenedBy(c, seqs) /\ Len(seqs) = P /\ \A k \in 1 .. P : seqs[k] \in Seq(L)
  BY <1>6, Zenon
<1>8. c[0] = <<>> /\ c[P] = FlattenSeq(seqs)
      /\ \A k \in 1 .. P : seqs[k] \in Seq(L) /\ c[k] = c[k - 1] \o seqs[k]
  BY <1>7, Zenon DEF FlattenedBy
<1>9. /\ \A k \in 1 .. P :
           /\ Len(c[k]) = Len(c[k - 1]) + Len(seqs[k])
           /\ \A j \in 1 .. Len(c[k]) :
                c[k][j] = IF j <= Len(c[k - 1]) THEN c[k - 1][j] ELSE seqs[k][j - Len(c[k - 1])]
      /\ \A k \in 0 .. P : /\ Len(c[k]) \in Nat /\ Len(c[k]) <= Len(c[P])
                           /\ \A j \in 1 .. Len(c[k]) : c[P][j] = c[k][j]
  <2>1. PartsOf(P, c, seqs)
    BY <1>2, <1>8, FlattenedWithin
  <2> QED
    BY <2>1, Zenon DEF PartsOf
<1>10. ASSUME NEW k \in 1 .. P, NEW j \in 1 .. Len(c[k])
       PROVE  c[k][j] = IF j <= Len(c[k - 1]) THEN c[k - 1][j] ELSE IF IsStars(glob[k]) THEN star ELSE glob[k]
  <2>1. CASE j <= Len(c[k - 1])
    BY <1>9, <2>1
  <2>2. CASE ~ (j <= Len(c[k - 1]))
    <3>1. k - 1 \in 0 .. P /\ k \in 0 .. P
      BY <1>2
    <3>2. Len(c[k - 1]) \in Nat /\ Len(c[k]) = Len(c[k - 1]) + Len(seqs[k]) /\ Len(c[k]) \in Nat
      BY <1>9, <3>1
    <3>3. Len(seqs[k]) \in Nat
      BY <1>8, LenProperties
    <3>4. j - Len(c[k - 1]) \in 1 .. Len(seqs[k])
      <4> DEFINE x == Len(c[k - 1])
                 y == Len(seqs[k])
      <4>1. j \in 1 .. x + y /\ x \in Nat /\ y \in Nat /\ ~ (j <= x)
        BY <2>2, <3>2, <3>3
      <4> HIDE DEF x, y
      <4>2. j - x \in 1 .. y
        BY <4>1
      <4> QED
        BY <4>2, Zenon DEF x, y
    <3>5. c[k][j] = seqs[k][j - Len(c[k - 1])]
      BY <1>9, <2>2
    <3> QED
      BY <1>5, <2>2, <3>4, <3>5
  <2> QED
    BY <2>1, <2>2
<1>11. \A k \in 1 .. P : Len(c[k]) = Len(c[k - 1]) + IF IsStars(glob[k]) THEN n[k] ELSE 1
  BY <1>5, <1>9
<1>12. SpreadTo(glob, n, c)
  BY <1>8, <1>9, <1>10, <1>11, Zenon DEF SpreadTo, P, seqs, star
<1> QED
  BY <1>12, Zenon

SpreadStep(c, k, p, m) ==
  /\ Len(c[k]) = Len(c[k - 1]) + IF IsStars(p) THEN m ELSE 1
  /\ \A j \in 1 .. Len(c[k]) :
       c[k][j] = IF j <= Len(c[k - 1]) THEN c[k - 1][j] ELSE IF IsStars(p) THEN "*" ELSE p

\* A glob covers a name when there are places for its segments to end.
LEMMA CoversByEnds ==
  ASSUME NEW glob, IsSequence(glob), NEW name, IsSequence(name)
  PROVE  GlobCovers(glob, name) <=> \E e : Ends(glob, name, e)
<1> DEFINE P == Len(glob)
           N == Len(name)
           CoveredBy(n) == LET s == FlattenSeq(SpreadBy(glob, n))
                         IN Len(s) = N /\ \A k \in DOMAIN name : MatchSegment(s[k], name[k])
<1>1. P \in Nat /\ DOMAIN glob = 1 .. P /\ N \in Nat /\ DOMAIN name = 1 .. N
  <2>1. glob \in Seq(ToSet(glob)) /\ name \in Seq(ToSet(name))
    BY Zenon DEF IsSequence
  <2> QED
    BY <2>1, LenProperties
<1>2. GlobCovers(glob, name) <=> \E n \in [StarsOf(glob) -> 0 .. N] : CoveredBy(n)
  BY CoversBySpread, Zenon
<1>3. \A k \in 1 .. P : k \in StarsOf(glob) <=> IsStars(glob[k])
  BY <1>1, Zenon DEF StarsOf, IsStars
<1>0. StarsOf(glob) \subseteq 1 .. P
  BY <1>1, Zenon DEF StarsOf
<1> HIDE DEF P, N
<1>4. ASSUME NEW n \in [StarsOf(glob) -> 0 .. N], CoveredBy(n) PROVE \E e : Ends(glob, name, e)
  <2>1. \A k \in StarsOf(glob) : n[k] \in Nat
    BY <1>1
  <2>2. PICK c : SpreadTo(glob, n, c)
    BY <2>1, SpreadSoFar
  <2>3. /\ c[0] = <<>> /\ c[P] = FlattenSeq(SpreadBy(glob, n))
        /\ \A k \in 0 .. P : /\ Len(c[k]) \in Nat /\ Len(c[k]) <= Len(c[P])
                             /\ \A j \in 1 .. Len(c[k]) : c[P][j] = c[k][j]
        /\ \A k \in 1 .. P : SpreadStep(c, k, glob[k], n[k])
    BY <2>2, Zenon DEF SpreadTo, SpreadStep, P
  <2>4. Len(c[P]) = N /\ \A j \in 1 .. N : MatchSegment(c[P][j], name[j])
    BY <1>1, <1>4, <2>3, Zenon
  <2> DEFINE e == [k \in 0 .. P |-> Len(c[k])]
  <2>5. e \in [0 .. P -> 0 .. N] /\ \A k \in 0 .. P : e[k] = Len(c[k])
    BY <1>1, <2>3, <2>4
  <2>6. e[0] = 0 /\ e[P] = N
    <3>1. 0 \in 0 .. P /\ P \in 0 .. P /\ Len(<<>>) = 0
      BY <1>1
    <3> HIDE DEF e
    <3> QED
      BY <2>3, <2>4, <2>5, <3>1
  <2> HIDE DEF e
  <2>7. ASSUME NEW k \in 1 .. P PROVE Takes(glob[k], name, e[k - 1], e[k])
    <3> DEFINE a == Len(c[k - 1])
               b == Len(c[k])
               p == glob[k]
    <3>1. /\ k \in 0 .. P /\ k - 1 \in 0 .. P
      BY <1>1
    <3>2. a \in Nat /\ b \in Nat /\ b <= N /\ e[k - 1] = a /\ e[k] = b
      BY <2>3, <2>4, <2>5, <3>1
    <3>3. b = a + (IF IsStars(p) THEN n[k] ELSE 1)
          /\ \A j \in 1 .. b : c[k][j] = IF j <= a THEN c[k - 1][j] ELSE IF IsStars(p) THEN "*" ELSE p
      BY <2>3, Zenon DEF SpreadStep
    <3>4. IsStars(p) => n[k] \in Nat
      BY <1>3, <2>1, Zenon
    <3>5. \A j \in 1 .. b : c[P][j] = c[k][j]
      BY <2>3, <3>1
    <3> HIDE DEF a, b, p
    <3>6. CASE IsStars(p)
      <4>1. a <= b
        BY <3>2, <3>3, <3>4, <3>6
      <4> QED
        BY <3>2, <3>6, <4>1, Zenon DEF Takes, p
    <3>7. CASE ~ IsStars(p)
      <4>1. b = a + 1 /\ b \in 1 .. b /\ b \in 1 .. N /\ ~ (b <= a)
        BY <1>1, <3>2, <3>3, <3>7
      <4>2. c[P][b] = p
        BY <3>3, <3>5, <3>7, <4>1, Zenon
      <4>3. MatchSegment(p, name[b])
        BY <2>4, <4>1, <4>2, Zenon
      <4> QED
        BY <3>2, <3>7, <4>1, <4>3, Zenon DEF Takes, p
    <3> QED
      BY <3>6, <3>7
  <2> QED
    BY <2>5, <2>6, <2>7, Zenon DEF Ends, P, N
<1>5. ASSUME NEW e, Ends(glob, name, e) PROVE \E n \in [StarsOf(glob) -> 0 .. N] : CoveredBy(n)
  <2>1. /\ e \in [0 .. P -> 0 .. N] /\ e[0] = 0 /\ e[P] = N
        /\ \A k \in 1 .. P : Takes(glob[k], name, e[k - 1], e[k])
    BY <1>5, Zenon DEF Ends, P, N
  <2> DEFINE n == [k \in StarsOf(glob) |-> e[k] - e[k - 1]]
  <2>2. \A k \in 1 .. P : /\ k \in 0 .. P /\ k - 1 \in 0 .. P
                          /\ e[k] \in Nat /\ e[k - 1] \in Nat /\ e[k] <= N
    BY <1>1, <2>1
  <2>3. ASSUME NEW k \in StarsOf(glob) PROVE n[k] = e[k] - e[k - 1] /\ n[k] \in 0 .. N
    <3>1. k \in 1 .. P /\ IsStars(glob[k])
      BY <1>0, <1>3
    <3>2. e[k - 1] <= e[k]
      BY <2>1, <3>1, Zenon DEF Takes
    <3>3. e[k] \in Nat /\ e[k - 1] \in Nat /\ e[k] <= N
      BY <2>2, <3>1
    <3>4. n[k] = e[k] - e[k - 1]
      BY Zenon
    <3> HIDE DEF n
    <3> DEFINE a == e[k - 1]
               b == e[k]
    <3>5. a \in Nat /\ b \in Nat /\ b <= N /\ a <= b
      BY <3>2, <3>3
    <3> HIDE DEF a, b
    <3>6. b - a \in 0 .. N
      BY <1>1, <3>5
    <3> QED
      BY <3>4, <3>6, Zenon DEF a, b
  <2>4. n \in [StarsOf(glob) -> 0 .. N]
    BY <2>3
  <2> HIDE DEF n
  <2>5. \A k \in StarsOf(glob) : n[k] \in Nat
    BY <1>1, <2>3
  <2>6. PICK c : SpreadTo(glob, n, c)
    BY <2>5, SpreadSoFar
  <2>7. /\ c[0] = <<>> /\ c[P] = FlattenSeq(SpreadBy(glob, n))
        /\ \A k \in 1 .. P : SpreadStep(c, k, glob[k], n[k])
    BY <2>6, Zenon DEF SpreadTo, SpreadStep, P
  <2> DEFINE Agree(k) == Len(c[k]) = e[k] /\ \A j \in 1 .. e[k] : MatchSegment(c[k][j], name[j])
             T == {k \in 0 .. P : Agree(k)}
  <2>8. 0 \in T
    <3>1. Len(<<>>) = 0 /\ 0 \in 0 .. P /\ ~ \E j \in 1 .. 0 : TRUE
      BY <1>1
    <3>2. Agree(0)
      BY <2>1, <2>7, <3>1
    <3> QED
      BY <3>1, <3>2
  <2>9. ASSUME NEW k \in 1 .. P, k - 1 \in T PROVE k \in T
    <3> DEFINE a == e[k - 1]
               b == e[k]
               p == glob[k]
    <3>1. k \in 0 .. P /\ k - 1 \in 0 .. P /\ a \in Nat /\ b \in Nat
      BY <2>2
    <3>2. Len(c[k - 1]) = a /\ \A j \in 1 .. a : MatchSegment(c[k - 1][j], name[j])
      BY <2>9
    <3>3. Len(c[k]) = a + (IF IsStars(p) THEN n[k] ELSE 1)
          /\ \A j \in 1 .. Len(c[k]) : c[k][j] = IF j <= a THEN c[k - 1][j] ELSE IF IsStars(p) THEN "*" ELSE p
      <4>1. SpreadStep(c, k, p, n[k])
        BY <2>7, Zenon
      <4> QED
        BY <3>2, <4>1, Zenon DEF SpreadStep
    <3>4. Takes(p, name, a, b)
      BY <2>1, Zenon
    <3>5. IsStars(p) => n[k] = b - a
      BY <1>3, <2>3, Zenon
    <3>6. ~ IsStars(p) => b = a + 1 /\ MatchSegment(p, name[b])
      BY <3>4, Zenon DEF Takes
    <3>7. \A x : MatchSegment("*", x)
      BY Zenon DEF MatchSegment
    <3> HIDE DEF a, b, p, T
    <3>8. Len(c[k]) = b
      BY <3>1, <3>3, <3>5, <3>6
    <3>9. ASSUME NEW j \in 1 .. b PROVE MatchSegment(c[k][j], name[j])
      <4>1. CASE j <= a
        <5>1. j \in 1 .. a
          BY <3>1, <4>1
        <5> QED
          BY <3>2, <3>3, <3>8, <4>1, <5>1
      <4>2. CASE ~ (j <= a) /\ IsStars(p)
        BY <3>3, <3>7, <3>8, <4>2, Zenon
      <4>3. CASE ~ (j <= a) /\ ~ IsStars(p)
        <5>1. j = b
          BY <3>1, <3>6, <4>3
        <5> QED
          BY <3>3, <3>6, <3>8, <4>3, <5>1, Zenon
      <4> QED
        BY <4>1, <4>2, <4>3
    <3>10. Agree(k)
      BY <3>8, <3>9, Zenon DEF b
    <3> HIDE DEF Agree
    <3> QED
      BY <3>1, <3>10 DEF T
  <2>10. Agree(P)
    <3> HIDE DEF T
    <3>1. P \in 0 .. P
      BY <1>1
    <3>2. \A k \in 0 .. P : k \in T
      BY <1>1, <2>8, <2>9, UpTo
    <3> HIDE DEF Agree
    <3> QED
      BY <3>1, <3>2 DEF T
  <2>11. CoveredBy(n)
    BY <1>1, <2>1, <2>7, <2>10, Zenon
  <2> HIDE DEF CoveredBy
  <2> QED
    BY <2>4, <2>11
<1> QED
  BY <1>2, <1>4, <1>5, Zenon

\* A glob without `**` ends each segment one place further.
LEMMA EndsOneByOne ==
  ASSUME NEW glob, IsSequence(glob), \A k \in DOMAIN glob : ~ IsStars(glob[k]),
         NEW name, IsSequence(name)
  PROVE  (\E e : Ends(glob, name, e))
           <=> Len(glob) = Len(name) /\ \A k \in DOMAIN name : MatchSegment(glob[k], name[k])
<1> DEFINE P == Len(glob)
           N == Len(name)
<1>1. P \in Nat /\ DOMAIN glob = 1 .. P /\ N \in Nat /\ DOMAIN name = 1 .. N
  <2>1. glob \in Seq(ToSet(glob)) /\ name \in Seq(ToSet(name))
    BY Zenon DEF IsSequence
  <2> QED
    BY <2>1, LenProperties
<1>2. \A k \in 1 .. P : ~ IsStars(glob[k])
  BY <1>1
<1> HIDE DEF P, N
<1>3. ASSUME NEW e, Ends(glob, name, e) PROVE P = N /\ \A k \in 1 .. N : MatchSegment(glob[k], name[k])
  <2>1. /\ e \in [0 .. P -> 0 .. N] /\ e[0] = 0 /\ e[P] = N
        /\ \A k \in 1 .. P : Takes(glob[k], name, e[k - 1], e[k])
    BY <1>3, Zenon DEF Ends, P, N
  <2>2. \A k \in 1 .. P : e[k] = e[k - 1] + 1 /\ MatchSegment(glob[k], name[e[k]])
    BY <1>2, <2>1, Zenon DEF Takes
  <2> DEFINE T == {k \in 0 .. P : e[k] = k}
  <2>3. 0 \in T
    BY <1>1, <2>1
  <2>4. ASSUME NEW k \in 1 .. P, k - 1 \in T PROVE k \in T
    <3>1. e[k - 1] = k - 1 /\ e[k] = e[k - 1] + 1
      BY <2>2, <2>4
    <3> HIDE DEF T
    <3>2. k \in 0 .. P /\ e[k] = k
      BY <1>1, <3>1
    <3> QED
      BY <3>2 DEF T
  <2>5. \A k \in 0 .. P : k \in T
    <3> HIDE DEF T
    <3> QED
      BY <1>1, <2>3, <2>4, UpTo
  <2>6. P = N
    BY <1>1, <2>1, <2>5
  <2>7. \A k \in 1 .. P : e[k] = k
    BY <1>1, <2>5
  <2> QED
    BY <2>2, <2>6, <2>7
<1>4. ASSUME P = N, \A k \in 1 .. N : MatchSegment(glob[k], name[k]) PROVE \E e : Ends(glob, name, e)
  <2> DEFINE e == [k \in 0 .. P |-> k]
  <2>1. e \in [0 .. P -> 0 .. N] /\ e[0] = 0 /\ e[P] = N
    BY <1>1, <1>4
  <2>2. \A k \in 1 .. P : e[k] = k /\ e[k] = e[k - 1] + 1
    BY <1>1
  <2> HIDE DEF e
  <2>3. \A k \in 1 .. P : Takes(glob[k], name, e[k - 1], e[k])
    BY <1>2, <1>4, <2>2, Zenon DEF Takes
  <2> QED
    BY <2>1, <2>3, Zenon DEF Ends, P, N
<1> QED
  BY <1>1, <1>3, <1>4, Zenon DEF P, N

\* matchGlob finds that a glob covers a name exactly when it does.
LEMMA GlobIsRead ==
  ASSUME NEW glob, IsSequence(glob), NEW name, IsSequence(name)
  PROVE  MatchGlob(glob, name) <=> GlobCovers(glob, name)
<1>1. Len(glob) \in Nat /\ Len(name) \in Nat /\ DOMAIN glob = 1 .. Len(glob)
  <2>1. glob \in Seq(ToSet(glob)) /\ name \in Seq(ToSet(name))
    BY Zenon DEF IsSequence
  <2> QED
    BY <2>1, LenProperties
<1>2. "**" \in ToSet(glob) <=> \E k \in DOMAIN glob : IsStars(glob[k])
  BY Zenon DEF ToSet, IsStars
<1>3. CASE "**" \in ToSet(glob)
  BY <1>1, <1>3, CoversByEnds, SegsAreMatched, Zenon DEF MatchGlob
<1>4. CASE ~ "**" \in ToSet(glob)
  BY <1>2, <1>4, CoversByEnds, EndsOneByOne, Zenon DEF MatchGlob
<1> QED
  BY <1>3, <1>4

\* Globs do what they look like for every path of the project.
LEMMA ExemptIsRead ==
  ASSUME NEW glob, IsSequence(glob), NEW name, IsSequence(name), name # <<>>
  PROVE  IsExemptFromMatcher(<<"p">> \o name, <<"p">>, <<"p", "truth">>, {glob})
           <=> \/ name[1] = "truth"
               \/ name[1] \notin DotDotNames /\ GlobCovers(glob, name)
<1> DEFINE p == "p"
           t == "truth"
           S == ToSet(name) \cup {p, t}
           root == <<p>>
           truth == <<p, t>>
           path == root \o name
           N == Len(name)
<1>1. p \in S /\ t \in S /\ name \in Seq(S)
  <2>1. name \in Seq(ToSet(name)) /\ ToSet(name) \subseteq S
    BY Zenon DEF IsSequence
  <2> DEFINE E == ToSet(name)
  <2>2. name \in Seq(E) /\ E \subseteq S
    BY <2>1
  <2>3. p \in S /\ t \in S
    OBVIOUS
  <2> HIDE DEF E, S, p, t
  <2> QED
    BY <2>2, <2>3, SeqMonotonic
<1> HIDE DEF p, t, S
<1>2. root \in Seq(S) /\ truth \in Seq(S) /\ Len(root) = 1 /\ Len(truth) = 2 /\ root[1] = p
      /\ truth[1] = p /\ truth[2] = t /\ root # <<>> /\ truth # <<>>
  BY <1>1
<1>3. N \in Nat /\ N # 0
  BY <1>1, LenProperties, EmptySeq
<1> HIDE DEF root, truth
<1>4. /\ path \in Seq(S) /\ Len(path) = N + 1
      /\ \A i \in 1 .. N + 1 : path[i] = IF i <= 1 THEN root[i] ELSE name[i - 1]
  <2> HIDE DEF N
  <2>1. root \in Seq(S) /\ name \in Seq(S) /\ Len(root) = 1 /\ Len(name) = N
    BY <1>1, <1>2 DEF N
  <2>2. root \o name \in Seq(S)
    BY <2>1, ToSetConcat
  <2>3. Len(root \o name) = Len(root) + Len(name)
    BY <2>1, ConcatProperties
  <2>4. \A i \in 1 .. Len(root) + Len(name) :
          (root \o name)[i] = IF i <= Len(root) THEN root[i] ELSE name[i - Len(root)]
    BY <2>1, ConcatProperties
  <2>5. N + 1 = 1 + N
    BY <1>3
  <2> QED
    BY <2>1, <2>2, <2>3, <2>4, <2>5, Zenon
<1> HIDE DEF path
<1>5. path[1] = p /\ path[2] = name[1] /\ path # <<>> /\ path # root
  <2>1. 1 \in 1 .. N + 1 /\ 2 \in 1 .. N + 1 /\ 1 <= 1 /\ ~ (2 <= 1) /\ 2 - 1 = 1
    BY <1>3
  <2>2. path[1] = p /\ path[2] = name[1]
    BY <1>2, <1>4, <2>1
  <2>3. Len(path) # 1 /\ Len(path) # 0
    BY <1>3, <1>4
  <2> QED
    BY <1>2, <2>2, <2>3
<1>6. IsPrefix(root, path)
  <2>1. SubSeq(root, 1, 1) = SubSeq(path, 1, 1)
    <3>1. SubSeq(root, 1, 1) = [i \in 1 .. 1 |-> root[i]] /\ SubSeq(path, 1, 1) = [i \in 1 .. 1 |-> path[i]]
      BY <1>2, <1>3, <1>4
    <3>2. \A i \in 1 .. 1 : root[i] = path[i]
      BY <1>2, <1>5
    <3> QED
      BY <3>1, <3>2
  <2>2. 1 <= N + 1
    BY <1>3
  <2> QED
    BY <1>2, <1>4, <2>1, <2>2 DEF IsPrefix
<1>7. IsPrefix(truth, path) <=> name[1] = t
  <2>1. SubSeq(truth, 1, 2) = [i \in 1 .. 2 |-> truth[i]] /\ SubSeq(path, 1, 2) = [i \in 1 .. 2 |-> path[i]]
    BY <1>2, <1>3, <1>4
  <2>2. SubSeq(truth, 1, 2) = SubSeq(path, 1, 2) <=> name[1] = t
    <3> DEFINE f == [i \in 1 .. 2 |-> truth[i]]
               g == [i \in 1 .. 2 |-> path[i]]
    <3>1. f[2] = t /\ g[2] = name[1]
      BY <1>2, <1>5
    <3>2. ASSUME name[1] = t PROVE \A i \in 1 .. 2 : truth[i] = path[i]
      <4>1. \A i \in 1 .. 2 : i = 1 \/ i = 2
        OBVIOUS
      <4> QED
        BY <1>2, <1>5, <3>2, <4>1
    <3>3. name[1] = t => f = g
      BY <3>2
    <3> HIDE DEF f, g
    <3>4. f = g <=> name[1] = t
      BY <3>1, <3>3
    <3> QED
      BY <2>1, <3>4 DEF f, g
  <2>3. 2 <= N + 1
    BY <1>3
  <2> QED
    BY <1>2, <1>4, <2>2, <2>3 DEF IsPrefix
<1>8. After(path, Len(root)) = name
  <2>1. After(path, 1) = [i \in 1 .. N |-> path[2 + i - 1]]
    BY <1>3, <1>4 DEF After
  <2>2. \A i \in 1 .. N : path[2 + i - 1] = name[i]
    <3> SUFFICES ASSUME NEW i \in 1 .. N PROVE path[2 + i - 1] = name[i]
      OBVIOUS
    <3>1. 2 + i - 1 \in 1 .. N + 1 /\ ~ (2 + i - 1 <= 1) /\ 2 + i - 1 - 1 = i
      BY <1>3
    <3> QED
      BY <1>4, <3>1
  <2>3. name = [i \in 1 .. N |-> name[i]]
    BY <1>1
  <2> QED
    BY <1>2, <2>1, <2>2, <2>3
<1>9. IsExemptFromMatcher(path, root, truth, {glob})
        <=> \/ IsPrefix(truth, path)
            \/ IsPrefix(root, path) /\ name[1] \notin DotDotNames /\ MatchGlob(glob, name)
  BY <1>2, <1>5, <1>8, Zenon DEF IsExemptFromMatcher
<1>10. MatchGlob(glob, name) <=> GlobCovers(glob, name)
  BY GlobIsRead
<1> QED
  BY <1>6, <1>7, <1>9, <1>10, Zenon DEF p, t, root, truth, path

-----------------------------------------------------------------------------
(* Filters                                                                 *)

\* What the rules of one list say.
EntriesOf(kind) == {EntryWritten(f) : f \in {g \in ToSet(input.rules) : g.list = kind}}

\* A value that lists these entries, unless it is no list.
ListsAs(v, E) ==
  /\ ListOrAbsent(v) <=> NotAString \notin E
  /\ NotAString \notin E => Entries(v) = E

\* The fields of a YAML list.
LEMMA ListIs ==
  ASSUME NEW items
  PROVE  List(items).type = "list" /\ List(items).items = items
<1> DEFINE list == "list"
<1>1. ASSUME NEW t PROVE [type |-> t, items |-> items].type = t /\ [type |-> t, items |-> items].items = items
  OBVIOUS
<1>2. List(items) = [type |-> list, items |-> items]
  BY Zenon DEF List
<1> QED
  BY <1>1, <1>2, Zenon

\* The types of other YAML values.
LEMMA TypeIs ==
  Absent.type = "absent" /\ NotAString.type = "other"
<1>1. ASSUME NEW t PROVE [type |-> t].type = t
  OBVIOUS
<1> QED
  BY <1>1, Zenon DEF Absent, NotAString

\* A list of filters.yaml has the entries of its rules.
LEMMA EntriesListed ==
  ASSUME NEW kind, input.rules \in BoundedSeq(Filters, MaxFilters)
  PROVE  ListsAs(YamlList(kind), EntriesOf(kind))
<1> DEFINE rules == input.rules
           seqs == [k \in DOMAIN rules |-> IF rules[k].list = kind THEN <<EntryWritten(rules[k])>> ELSE <<>>]
           entries == FlattenSeq(seqs)
           E == EntriesOf(kind)
<1>1. PICK N \in Nat : rules \in [1 .. N -> Filters]
  BY DEF BoundedSeq, SeqOf
<1>2. DOMAIN rules = 1 .. N
  BY <1>1
<1> DEFINE S == {EntryWritten(rules[k]) : k \in 1 .. N}
<1>3. seqs \in Seq(Seq(S)) /\ DOMAIN seqs = 1 .. N
  <2> HIDE DEF rules
  <2>1. ASSUME NEW k \in 1 .. N
        PROVE  (IF rules[k].list = kind THEN <<EntryWritten(rules[k])>> ELSE <<>>) \in Seq(S)
    <3> DEFINE e == EntryWritten(rules[k])
    <3>1. e \in S
      OBVIOUS
    <3> HIDE DEF S, e
    <3>2. <<e>> \in Seq(S) /\ <<>> \in Seq(S)
      BY <3>1
    <3> QED
      BY <3>2, Zenon DEF e
  <2> HIDE DEF S
  <2>2. seqs \in [1 .. N -> Seq(S)]
    BY <1>2, <2>1
  <2> QED
    BY <2>2
<1>4. entries \in Seq(S) /\ ToSet(entries) = UNION {ToSet(seqs[k]) : k \in 1 .. N}
  <2> HIDE DEF S, seqs
  <2> QED
    BY <1>3, FlattenElements
<1>5. ASSUME NEW k \in 1 .. N
      PROVE  /\ rules[k].list = kind => ToSet(seqs[k]) = {EntryWritten(rules[k])}
             /\ rules[k].list # kind => ToSet(seqs[k]) = {}
  <2> HIDE DEF rules
  <2>1. seqs[k] = IF rules[k].list = kind THEN <<EntryWritten(rules[k])>> ELSE <<>>
    BY <1>2
  <2>2. ASSUME NEW e PROVE ToSet(<<e>>) = {e}
    <3>1. DOMAIN <<e>> = {1} /\ <<e>>[1] = e
      OBVIOUS
    <3> QED
      BY <3>1 DEF ToSet
  <2>3. ToSet(<<>>) = {}
    <3>1. DOMAIN <<>> = {}
      OBVIOUS
    <3> QED
      BY <3>1, Zenon DEF ToSet
  <2> HIDE DEF seqs
  <2> QED
    BY <2>1, <2>2, <2>3, Zenon
<1>6. \A f : f \in ToSet(rules) <=> \E k \in 1 .. N : f = rules[k]
  BY <1>2, Zenon DEF ToSet
<1> HIDE DEF seqs, rules, S, E
<1>7. ToSet(entries) = E
  <2>1. ASSUME NEW e \in ToSet(entries) PROVE e \in E
    <3>1. PICK k \in 1 .. N : e \in ToSet(seqs[k])
      BY <1>4, <2>1, Zenon
    <3>2. rules[k].list = kind /\ e = EntryWritten(rules[k])
      BY <1>5, <3>1
    <3> QED
      BY <1>6, <3>2, Zenon DEF E, EntriesOf, rules
  <2>2. ASSUME NEW e \in E PROVE e \in ToSet(entries)
    <3>1. \E f \in {g \in ToSet(input.rules) : g.list = kind} : e = EntryWritten(f)
      BY <2>2, Zenon DEF E, EntriesOf
    <3>3. PICK f \in ToSet(rules) : f.list = kind /\ e = EntryWritten(f)
      BY <3>1, Zenon DEF rules
    <3>4. PICK k \in 1 .. N : f = rules[k]
      BY <1>6, Zenon
    <3>2. e = EntryWritten(rules[k]) /\ rules[k].list = kind
      BY <3>3, <3>4, Zenon
    <3> QED
      BY <1>4, <1>5, <3>2
  <2> QED
    BY <2>1, <2>2
<1>8. entries = <<>> <=> E = {}
  <2>1. ASSUME entries = <<>> PROVE E = {}
    <3>1. DOMAIN <<>> = {}
      OBVIOUS
    <3> QED
      BY <1>7, <2>1, <3>1, Zenon DEF ToSet
  <2>2. ASSUME entries # <<>> PROVE E # {}
    <3> HIDE DEF entries
    <3>1. Len(entries) \in Nat /\ Len(entries) # 0 /\ DOMAIN entries = 1 .. Len(entries)
      BY <1>4, <2>2, LenProperties, EmptySeq
    <3>2. 1 \in DOMAIN entries
      BY <3>1
    <3>3. entries[1] \in ToSet(entries)
      BY <3>2, Zenon DEF ToSet
    <3> QED
      BY <1>7, <3>3
  <2> QED
    BY <2>1, <2>2
<1>9. YamlList(kind) = IF entries = <<>> THEN Absent
                       ELSE IF NotAString \in ToSet(entries) THEN NotAString ELSE List(entries)
  BY Zenon DEF YamlList, rules, seqs
<1> HIDE DEF entries
<1>10. CASE E = {}
  <2>1. YamlList(kind) = Absent
    BY <1>8, <1>9, <1>10, Zenon
  <2> QED
    BY <1>10, <2>1, TypeIs, Zenon DEF ListsAs, ListOrAbsent, Entries, E
<1>11. CASE E # {} /\ NotAString \in E
  <2>1. YamlList(kind) = NotAString
    BY <1>7, <1>8, <1>9, <1>11, Zenon
  <2>2. "other" \notin {"absent", "list"}
    OBVIOUS
  <2>3. ~ ListOrAbsent(NotAString)
    BY <2>2, TypeIs, Zenon DEF ListOrAbsent
  <2> QED
    BY <1>11, <2>1, <2>3, Zenon DEF ListsAs, E
<1>12. CASE E # {} /\ NotAString \notin E
  <2>1. YamlList(kind) = List(entries)
    BY <1>7, <1>8, <1>9, <1>12, Zenon
  <2>2. "list" # "absent"
    OBVIOUS
  <2>3. ListOrAbsent(List(entries)) /\ Entries(List(entries)) = ToSet(entries)
    BY <2>2, ListIs, Zenon DEF ListOrAbsent, Entries
  <2> QED
    BY <1>7, <1>12, <2>1, <2>3, Zenon DEF ListsAs, E
<1> QED
  BY <1>10, <1>11, <1>12

\* ... and a list of one rule that rule.
LEMMA OneListed ==
  ASSUME NEW e
  PROVE  Entries(List(<<e>>)) = {e}
<1>1. ToSet(<<e>>) = {e}
  <2>1. DOMAIN <<e>> = {1} /\ <<e>>[1] = e
    OBVIOUS
  <2> QED
    BY <2>1 DEF ToSet
<1>2. "list" # "absent"
  OBVIOUS
<1> QED
  BY <1>1, <1>2, ListIs, Zenon DEF Entries

\* What a rule without a mistake says in YAML.
LEMMA EntryOfRule ==
  ASSUME NEW f, FilterIsWritten(f), f.mistake \notin {"no list", "no map"}
  PROVE  /\ EntryWritten(f).type = "map" /\ EntryWritten(f).pattern = PatternWritten(f)
         /\ f.list = "paths" => EntryWritten(f).forbidden = ValuesWritten(f)
         /\ f.list = "contents" =>
              EntryWritten(f).required = IF f.omitted THEN Absent ELSE Str(f.required)
<1> DEFINE req == IF f.omitted THEN Absent ELSE Str(f.required)
           map == "map"
<1>1. ASSUME NEW a, NEW b
      PROVE  /\ [type |-> map, pattern |-> a, forbidden |-> b].type = map
             /\ [type |-> map, pattern |-> a, forbidden |-> b].pattern = a
             /\ [type |-> map, pattern |-> a, forbidden |-> b].forbidden = b
             /\ [type |-> map, pattern |-> a, required |-> b].type = map
             /\ [type |-> map, pattern |-> a, required |-> b].pattern = a
             /\ [type |-> map, pattern |-> a, required |-> b].required = b
  OBVIOUS
<1>2. "no list" # "no map" /\ "paths" # "contents"
  OBVIOUS
<1>3. CASE f.list = "paths"
  <2>1. EntryWritten(f) = [type |-> map, pattern |-> PatternWritten(f), forbidden |-> ValuesWritten(f)]
    <3> DEFINE e == [type |-> map, pattern |-> PatternWritten(f), forbidden |-> ValuesWritten(f)]
               x == [type |-> map, pattern |-> PatternWritten(f), required |-> req]
    <3>1. EntryWritten(f) = CASE f.mistake = "no list" -> NotAString
             [] f.mistake = "no map" -> List(<<>>)
             [] f.mistake \notin {"no list", "no map"} /\ f.list = "paths" -> e
             [] f.mistake \notin {"no list", "no map"} /\ f.list = "contents" -> x
      BY Zenon DEF EntryWritten
    <3> HIDE DEF e, x
    <3>2. EntryWritten(f) = e
      BY <1>2, <1>3, <3>1
    <3> QED
      BY <3>2, Zenon DEF e
  <2> DEFINE e == EntryWritten(f)
             a == PatternWritten(f)
             b == ValuesWritten(f)
  <2> HIDE DEF e, a, b
  <2>2. e = [type |-> map, pattern |-> a, forbidden |-> b]
    BY <2>1, Zenon DEF e, a, b
  <2>3. e.type = map /\ e.pattern = a /\ e.forbidden = b
    BY <2>2
  <2>4. f.list # "contents"
    BY <1>2, <1>3, Zenon
  <2> QED
    BY <2>3, <2>4, Zenon DEF e, a, b
<1>4. CASE f.list = "contents"
  <2>1. EntryWritten(f) = [type |-> map, pattern |-> PatternWritten(f), required |-> req]
    <3> DEFINE e == [type |-> map, pattern |-> PatternWritten(f), forbidden |-> ValuesWritten(f)]
               x == [type |-> map, pattern |-> PatternWritten(f), required |-> req]
    <3>1. EntryWritten(f) = CASE f.mistake = "no list" -> NotAString
             [] f.mistake = "no map" -> List(<<>>)
             [] f.mistake \notin {"no list", "no map"} /\ f.list = "paths" -> e
             [] f.mistake \notin {"no list", "no map"} /\ f.list = "contents" -> x
      BY Zenon DEF EntryWritten
    <3> HIDE DEF e, x
    <3>2. EntryWritten(f) = x
      BY <1>2, <1>4, <3>1
    <3> QED
      BY <3>2, Zenon DEF x
  <2> DEFINE e == EntryWritten(f)
             a == PatternWritten(f)
             b == req
  <2> HIDE DEF e, a, b
  <2>2. e = [type |-> map, pattern |-> a, required |-> b]
    BY <2>1, Zenon DEF e, a, b
  <2>3. e.type = map /\ e.pattern = a /\ e.required = b
    BY <2>2
  <2>4. f.list # "paths"
    BY <1>2, <1>4, Zenon
  <2> QED
    BY <2>3, <2>4, Zenon DEF e, a, b
<1> QED
  BY <1>3, <1>4, Zenon DEF FilterIsWritten

\* The fields of a string and of a pattern.
LEMMA StringIs ==
  ASSUME NEW v
  PROVE  Str(v).type = "string" /\ Str(v).value = v
BY DEF Str

LEMMA PatternIs ==
  ASSUME NEW w, NEW g, NEW c
  PROVE  /\ Pattern(w, g, c).word = w /\ Pattern(w, g, c).group = g
         /\ Pattern(w, g, c).compiles = c
BY DEF Pattern

\* A list of strings lists strings, and these.
LEMMA ValuesListed ==
  ASSUME NEW values, IsSequence(values)
  PROVE  LET list == List([k \in DOMAIN values |-> Str(values[k])])
         IN ForbiddenOK(list) /\ {s.value : s \in Entries(list)} = ToSet(values)
<1> DEFINE strs == [k \in DOMAIN values |-> Str(values[k])]
           all == ToSet(strs)
<1>1. \A s : s \in all <=> \E k \in DOMAIN values : s = Str(values[k])
  <2>1. DOMAIN strs = DOMAIN values /\ \A k \in DOMAIN values : strs[k] = Str(values[k])
    OBVIOUS
  <2> HIDE DEF strs
  <2> QED
    BY <2>1, Zenon DEF ToSet
<1> HIDE DEF strs, all
<1>2. List(strs).type = "list" /\ List(strs).items = strs
  BY ListIs
<1>3. ForbiddenOK(List(strs))
  <2>1. \A s \in all : s.type = "string"
    <3>1. \A v : Str(v).type = "string"
      BY StringIs, Zenon
    <3> QED
      BY <1>1, <3>1, Zenon
  <2>2. \A s \in ToSet(List(strs).items) : s.type = "string"
    BY <1>2, <2>1, Zenon DEF all
  <2> QED
    BY <1>2, <2>2, Zenon DEF ForbiddenOK
<1>4. Entries(List(strs)) = all
  <2>1. "list" # "absent"
    OBVIOUS
  <2> QED
    BY <1>2, <2>1, Zenon DEF Entries, all
<1>5. {s.value : s \in all} = ToSet(values)
  <2>1. ASSUME NEW v \in {s.value : s \in all} PROVE v \in ToSet(values)
    <3>1. PICK s \in all : v = s.value
      BY <2>1
    <3>2. PICK k \in DOMAIN values : s = Str(values[k])
      BY <1>1, Zenon
    <3> QED
      BY <3>1, <3>2, StringIs, Zenon DEF ToSet
  <2>2. ASSUME NEW v \in ToSet(values) PROVE v \in {s.value : s \in all}
    <3>1. PICK k \in DOMAIN values : v = values[k]
      BY <2>2, Zenon DEF ToSet
    <3>2. Str(values[k]) \in all /\ Str(values[k]).value = v
      BY <1>1, <3>1, StringIs, Zenon
    <3> QED
      BY <3>2
  <2> QED
    BY <2>1, <2>2
<1> QED
  BY <1>3, <1>4, <1>5, Zenon DEF strs

\* A value that is no string shows.
LEMMA BadValueShows == ~ ForbiddenOK(List(<<NotAString>>))
<1> DEFINE bad == <<NotAString>>
<1>1. NotAString \in ToSet(bad)
  <2>1. DOMAIN bad = {1} /\ bad[1] = NotAString
    OBVIOUS
  <2> QED
    BY <2>1 DEF ToSet
<1>2. "list" # "absent" /\ "other" # "string"
  OBVIOUS
<1> QED
  BY <1>1, <1>2, ListIs, TypeIs, Zenon DEF ForbiddenOK

\* Every mistake shows in the entry, and nothing else does.
LEMMA MistakesShow ==
  ASSUME NEW f, FilterIsWritten(f)
  PROVE  /\ f.list = "paths" \/ f.list = "contents"
         /\ f.list = "paths" => (f.mistake = "none" <=> PathEntryOK(EntryWritten(f)))
         /\ f.list = "contents" => (f.mistake = "none" <=> ContentEntryOK(EntryWritten(f)))
<1> DEFINE e == EntryWritten(f)
<1>0. /\ "other" # "map" /\ "list" # "map" /\ "absent" # "string"
      /\ "none" \notin {"no list", "no map", "no pattern", "bad pattern", "bad value"}
      /\ "no list" # "no map"
      /\ "no pattern" \notin {"no list", "no map", "bad pattern", "bad value"}
      /\ "bad pattern" \notin {"no list", "no map", "no pattern", "bad value"}
      /\ "bad value" \notin {"no list", "no map", "no pattern", "bad pattern"}
      /\ "paths" # "contents"
  OBVIOUS
<1>1. /\ f.list = "paths" \/ f.list = "contents"
      /\ f.mistake \in {"none", "no list", "no map", "no pattern", "bad pattern", "bad value"}
      /\ f.list = "contents" => f.mistake # "bad value"
      /\ f.word.spelling # "" /\ IsSequence(f.values)
  BY Zenon DEF FilterIsWritten, Mistakes
<1>2. CASE f.mistake = "no list" \/ f.mistake = "no map"
  <2>1. e = NotAString \/ e = List(<<>>)
    <3> DEFINE a == [type |-> "map", pattern |-> PatternWritten(f), forbidden |-> ValuesWritten(f)]
               x == [type |-> "map", pattern |-> PatternWritten(f),
                     required |-> IF f.omitted THEN Absent ELSE Str(f.required)]
    <3>1. e = CASE f.mistake = "no list" -> NotAString
             [] f.mistake = "no map" -> List(<<>>)
             [] f.mistake \notin {"no list", "no map"} /\ f.list = "paths" -> a
             [] f.mistake \notin {"no list", "no map"} /\ f.list = "contents" -> x
      BY Zenon DEF EntryWritten
    <3> HIDE DEF e, a, x
    <3> QED
      BY <1>0, <1>2, <3>1
  <2>2. e.type # "map"
    BY <1>0, <2>1, TypeIs, ListIs, Zenon
  <2> QED
    BY <1>0, <1>1, <1>2, <2>2, Zenon DEF PathEntryOK, ContentEntryOK
<1>3. CASE f.mistake \notin {"no list", "no map"}
  <2>1. /\ e.type = "map" /\ e.pattern = PatternWritten(f)
        /\ f.list = "paths" => e.forbidden = ValuesWritten(f)
    BY <1>3, EntryOfRule, Zenon
  <2>2. PatternOK(PatternWritten(f)) <=> f.mistake \notin {"no pattern", "bad pattern"}
    <3>1. CASE f.mistake = "no pattern"
      <4>1. PatternWritten(f) = Absent
        BY <3>1, Zenon DEF PatternWritten
      <4> QED
        BY <1>0, <3>1, <4>1, TypeIs, Zenon DEF PatternOK
    <3>2. CASE f.mistake # "no pattern"
      <4> DEFINE p == Pattern(f.word, f.group, f.mistake # "bad pattern")
      <4>1. PatternWritten(f) = Str(p)
        BY <3>2, Zenon DEF PatternWritten
      <4>2. f.word # NoText
        <5>1. NoText.spelling = ""
          BY DEF NoText, Name
        <5> QED
          BY <1>1, <5>1, Zenon
      <4>3. p.word = f.word /\ p.compiles = (f.mistake # "bad pattern")
        <5> DEFINE ok == f.mistake # "bad pattern"
        <5> HIDE DEF ok
        <5>1. Pattern(f.word, f.group, ok).word = f.word /\ Pattern(f.word, f.group, ok).compiles = ok
          BY PatternIs
        <5> QED
          BY <5>1, Zenon DEF ok
      <4> HIDE DEF p
      <4>4. Str(p).type = "string" /\ Str(p).value = p
        BY StringIs
      <4> QED
        BY <3>2, <4>1, <4>2, <4>3, <4>4, Zenon DEF PatternOK
    <3> QED
      BY <3>1, <3>2
  <2>3. ForbiddenOK(ValuesWritten(f)) <=> f.mistake # "bad value"
    <3>1. CASE f.mistake = "bad value"
      BY <3>1, BadValueShows, Zenon DEF ValuesWritten
    <3>2. CASE f.mistake # "bad value" /\ f.omitted
      BY <3>2, TypeIs, Zenon DEF ValuesWritten, ForbiddenOK
    <3>3. CASE f.mistake # "bad value" /\ ~ f.omitted
      BY <1>1, <3>3, ValuesListed, Zenon DEF ValuesWritten
    <3> QED
      BY <3>1, <3>2, <3>3
  <2>4. f.mistake = "none" <=> f.mistake \notin {"no pattern", "bad pattern", "bad value"}
    BY <1>0, <1>1, <1>3, Zenon
  <2> HIDE DEF e
  <2> QED
    BY <1>0, <1>1, <2>1, <2>2, <2>3, <2>4, Zenon DEF PathEntryOK, ContentEntryOK, e
<1> QED
  BY <1>2, <1>3

PlacesOf(word, path) == {k \in 1 .. Len(path) - 1 : path[k] = word}

\* What a rule captures is what stands behind the first place of its word.
LEMMA CapturesIs ==
  ASSUME NEW path, Len(path) \in Nat, NEW word, NEW pattern, pattern.word = word
  PROVE  /\ PlacesOf(word, path) = {} => Captures(pattern, path) = {}
         /\ PlacesOf(word, path) # {} =>
              Captures(pattern, path)
                = {IF pattern.group THEN path[Min(PlacesOf(word, path)) + 1] ELSE NoText}
<1> DEFINE at == {k \in 1 .. Len(path) - 1 : path[k] = word}
           c(k) == IF pattern.group THEN path[k + 1] ELSE NoText
           first == {j \in at : \A i \in at : j <= i}
<1>1. Captures(pattern, path) = {c(k) : k \in first}
  BY Zenon DEF Captures
<1>2. at \in SUBSET Nat
  OBVIOUS
<1> HIDE DEF at, c
<1>3. CASE at = {}
  <2>1. first = {}
    BY <1>3
  <2> HIDE DEF first
  <2>2. {c(k) : k \in first} = {}
    BY <2>1
  <2> QED
    BY <1>1, <1>3, <2>2, Zenon DEF at, PlacesOf
<1>4. CASE at # {}
  <2> DEFINE m == Min(at)
  <2>1. PICK x \in at : \A y \in at : x <= y
    BY <1>2, <1>4, LeastNatural
  <2>2. m = x
    BY <1>2, <2>1, LeastIs
  <2> HIDE DEF m
  <2>3. first = {m}
    <3>1. m \in at /\ \A y \in at : m <= y
      BY <2>1, <2>2, Zenon
    <3>2. \A j \in first : j = m
      <4> SUFFICES ASSUME NEW j \in first PROVE j = m
        OBVIOUS
      <4>1. j \in at /\ j <= m /\ m <= j
        BY <3>1
      <4> QED
        BY <1>2, <3>1, <4>1
    <3>3. m \in first
      BY <3>1
    <3> QED
      BY <3>2, <3>3
  <2> HIDE DEF first
  <2>4. {c(k) : k \in first} = {c(m)}
    BY <2>3
  <2> QED
    BY <1>1, <1>4, <2>4, Zenon DEF at, m, c, PlacesOf
<1> QED
  BY <1>3, <1>4

\* A rule alone forbids what the operator forbids by it.
LEMMA FilterJudged ==
  ASSUME NEW f, FilterIsWritten(f), f.mistake = "none", NEW edit, IsSequence(edit.path)
  PROVE  /\ f.list = "paths" =>
              (Forbids(f, edit) <=> \E pf \in PathFilters(List(<<EntryWritten(f)>>)) :
                                      PathForbidden(pf, edit.path))
         /\ f.list = "contents" =>
              (Forbids(f, edit) <=> \E cf \in ContentFilters(List(<<EntryWritten(f)>>)) :
                                      DisclosureMissing(cf, edit.content))
<1> DEFINE e == EntryWritten(f)
           p == Pattern(f.word, f.group, f.mistake # "bad pattern")
           path == edit.path
           at == {k \in 1 .. Len(path) - 1 : path[k] = f.word}
           V == {s.value : s \in Entries(e.forbidden)}
           req == IF e.required.type = "string" THEN e.required.value ELSE NoText
           pf == [pattern |-> p, forbidden |-> V]
           cf == [pattern |-> p, required |-> req]
<1>0. /\ "none" \notin {"no list", "no map", "no pattern", "bad pattern", "bad value"}
      /\ "paths" # "contents" /\ "absent" # "string"
  OBVIOUS
<1>1. /\ e.pattern = PatternWritten(f)
      /\ f.list = "paths" => e.forbidden = ValuesWritten(f)
      /\ f.list = "contents" => e.required = IF f.omitted THEN Absent ELSE Str(f.required)
  BY <1>0, EntryOfRule, Zenon
<1>2. e.pattern.value = p
  <2>1. f.mistake # "no pattern"
    BY <1>0, Zenon
  <2>2. PatternWritten(f) = Str(p)
    BY <2>1, Zenon DEF PatternWritten
  <2> HIDE DEF e, p
  <2> QED
    BY <1>1, <2>2, StringIs, Zenon
<1>3. p.word = f.word /\ p.group = f.group
  BY PatternIs
<1> HIDE DEF e, p
<1>4. /\ PathFilters(List(<<e>>)) = {pf} /\ ContentFilters(List(<<e>>)) = {cf}
  <2> DEFINE PF(x) == [pattern |-> x.pattern.value, forbidden |-> {s.value : s \in Entries(x.forbidden)}]
             CF(x) == [pattern |-> x.pattern.value,
                       required |-> IF x.required.type = "string" THEN x.required.value ELSE NoText]
  <2>1. PathFilters(List(<<e>>)) = {PF(x) : x \in {e}} /\ ContentFilters(List(<<e>>)) = {CF(x) : x \in {e}}
    BY OneListed, Zenon DEF PathFilters, ContentFilters
  <2>2. PF(e) = pf /\ CF(e) = cf
    BY <1>2, Zenon
  <2> HIDE DEF PF, CF, pf, cf
  <2>3. {PF(x) : x \in {e}} = {PF(e)} /\ {CF(x) : x \in {e}} = {CF(e)}
    OBVIOUS
  <2> QED
    BY <2>1, <2>2, <2>3, Zenon
<1>5. pf.pattern = p /\ pf.forbidden = V /\ cf.pattern = p /\ cf.required = req
  <2> HIDE DEF V, req
  <2> QED
    OBVIOUS
<1> HIDE DEF pf, cf
<1>6. CASE f.list = "paths"
  <2>1. V = ToSet(f.values) /\ (V = {} <=> f.values = <<>>)
    <3>1. IsSequence(f.values) /\ f.mistake # "bad value" /\ (f.omitted => f.values = <<>>)
      BY <1>0, Zenon DEF FilterIsWritten
    <3>2. ToSet(f.values) = {} <=> f.values = <<>>
      <4>1. f.values \in Seq(ToSet(f.values))
        BY <3>1, Zenon DEF IsSequence
      <4> DEFINE T == ToSet(f.values)
                 s == f.values
      <4>2. s \in Seq(T)
        BY <4>1
      <4>3. T = {} => s = <<>>
        <5> HIDE DEF T, s
        <5>1. ASSUME T = {}, s # <<>> PROVE FALSE
          <6>1. Len(s) \in Nat /\ Len(s) # 0
            BY <4>2, <5>1, LenProperties, EmptySeq
          <6>2. 1 \in 1 .. Len(s)
            BY <6>1
          <6>3. s[1] \in T
            BY <4>2, <6>2, ElementOfSeq
          <6> QED
            BY <5>1, <6>3
        <5> QED
          BY <5>1
      <4>4. ToSet(<<>>) = {}
        <5>1. DOMAIN <<>> = {}
          OBVIOUS
        <5> QED
          BY <5>1, Zenon DEF ToSet
      <4> QED
        BY <4>3, <4>4, Zenon
    <3>3. V = ToSet(f.values)
      <4>1. CASE f.omitted
        <5>1. e.forbidden = Absent
          BY <1>1, <1>6, <3>1, <4>1, Zenon DEF ValuesWritten
        <5>2. Entries(e.forbidden) = {}
          BY <5>1, TypeIs, Zenon DEF Entries
        <5>3. V = {}
          BY <5>2
        <5> QED
          BY <3>1, <3>2, <4>1, <5>3, Zenon
      <4>2. CASE ~ f.omitted
        <5>1. e.forbidden = List([k \in DOMAIN f.values |-> Str(f.values[k])])
          BY <1>1, <1>6, <3>1, <4>2, Zenon DEF ValuesWritten
        <5> QED
          BY <3>1, <5>1, ValuesListed, Zenon
      <4> QED
        BY <4>1, <4>2
    <3> QED
      BY <3>2, <3>3, Zenon
  <2>2. \A v \in V : v.spelling # ""
    BY <2>1, Zenon DEF FilterIsWritten
  <2>3. Forbids(f, edit) <=> /\ at # {}
                             /\ \/ f.values = <<>>
                                \/ f.group /\ \E v \in ToSet(f.values) : v.spelling = path[Min(at) + 1].spelling
    BY <1>6, Zenon DEF Forbids
  <2>4. Len(path) \in Nat
    <3>1. path \in Seq(ToSet(path))
      BY Zenon DEF IsSequence
    <3> QED
      BY <3>1, LenProperties
  <2>5. /\ at = {} => Captures(p, path) = {}
        /\ at # {} => Captures(p, path) = {IF p.group THEN path[Min(at) + 1] ELSE NoText}
    <3> DEFINE w == f.word
    <3>1. p.word = w
      BY <1>3
    <3> HIDE DEF path, w
    <3>2. /\ PlacesOf(w, path) = {} => Captures(p, path) = {}
          /\ PlacesOf(w, path) # {} =>
               Captures(p, path) = {IF p.group THEN path[Min(PlacesOf(w, path)) + 1] ELSE NoText}
      BY <2>4, <3>1, CapturesIs
    <3>3. PlacesOf(w, path) = at
      BY Zenon DEF w, path, PlacesOf
    <3> HIDE DEF at
    <3> QED
      BY <3>2, <3>3, Zenon
  <2>6. PathForbidden(pf, path)
          <=> \E c \in Captures(p, path) : V = {} \/ \E v \in V : v.spelling = c.spelling
    BY <1>5, Zenon DEF PathForbidden, EqualFold
  <2> HIDE DEF V, at, path
  <2>7. CASE at = {}
    <3>1. ~ PathForbidden(pf, path)
      BY <2>5, <2>6, <2>7, Zenon
    <3> QED
      BY <1>0, <1>4, <1>6, <2>3, <2>7, <3>1, Zenon DEF e, path
  <2>8. CASE at # {} /\ f.group
    <3> DEFINE c == path[Min(at) + 1]
    <3>1. Captures(p, path) = {c}
      BY <1>3, <2>5, <2>8, Zenon
    <3>2. PathForbidden(pf, path) <=> (V = {} \/ \E v \in V : v.spelling = c.spelling)
      BY <2>6, <3>1, Zenon
    <3>3. PathForbidden(pf, path) <=> Forbids(f, edit)
      BY <2>1, <2>3, <2>8, <3>2, Zenon
    <3> QED
      BY <1>0, <1>4, <1>6, <3>3, Zenon DEF e, path
  <2>9. CASE at # {} /\ ~ f.group
    <3>1. Captures(p, path) = {NoText}
      BY <1>3, <2>5, <2>9, Zenon
    <3>2. NoText.spelling = ""
      BY DEF NoText, Name
    <3>3. PathForbidden(pf, path) <=> V = {}
      BY <2>2, <2>6, <3>1, <3>2, Zenon
    <3>4. PathForbidden(pf, path) <=> Forbids(f, edit)
      BY <2>1, <2>3, <2>9, <3>3, Zenon
    <3> QED
      BY <1>0, <1>4, <1>6, <3>4, Zenon DEF e, path
  <2> QED
    BY <2>7, <2>8, <2>9
<1>7. CASE f.list = "contents"
  <2>1. req = f.required
    <3>1. CASE f.omitted
      <4>1. e.required = Absent /\ f.required = NoText
        BY <1>1, <1>7, <3>1, Zenon DEF FilterIsWritten
      <4> QED
        BY <1>0, <4>1, TypeIs, Zenon
    <3>2. CASE ~ f.omitted
      <4>1. e.required = Str(f.required)
        BY <1>1, <1>7, <3>2, Zenon
      <4> QED
        BY <4>1, StringIs, Zenon
    <3> QED
      BY <3>1, <3>2
  <2>2. DisclosureMissing(cf, edit.content)
          <=> /\ f.word \in ToSet(edit.content) /\ f.required # NoText
              /\ ~ \E word \in ToSet(edit.content) : word.spelling = f.required.spelling
    BY <1>3, <1>5, <2>1, Zenon DEF DisclosureMissing, EqualFold
  <2>3. Forbids(f, edit)
          <=> /\ f.word \in ToSet(edit.content) /\ f.required # NoText
              /\ \A word \in ToSet(edit.content) : ~ (word.spelling = f.required.spelling)
    BY <1>0, <1>7, Zenon DEF Forbids
  <2>4. DisclosureMissing(cf, edit.content) <=> Forbids(f, edit)
    BY <2>2, <2>3, Zenon
  <2> QED
    BY <1>0, <1>4, <1>7, <2>4, Zenon DEF e
<1> QED
  BY <1>6, <1>7, Zenon DEF FilterIsWritten

\* An edit is judged by what every rule of filters.yaml means by itself.
LEMMA FiltersAreRead ==
  ASSUME input.rules \in BoundedSeq(Filters, MaxFilters), input.edit \in FilteredEdits
  PROVE  FiltersAnswer([paths |-> YamlList("paths"), contents |-> YamlList("contents")],
                       input.edit.path, input.edit.content)
           = IF \E f \in ToSet(input.rules) : f.mistake # "none" THEN "malformed"
             ELSE IF \E f \in ToSet(input.rules) : Forbids(f, input.edit) THEN "deny"
             ELSE "pass"
<1> DEFINE rules == ToSet(input.rules)
           P == YamlList("paths")
           C == YamlList("contents")
           file == [paths |-> P, contents |-> C]
           path == input.edit.path
           content == input.edit.content
           PE == EntriesOf("paths")
           CE == EntriesOf("contents")
<1>1. \A f \in rules : FilterIsWritten(f)
  <2>1. PICK N \in Nat : input.rules \in [1 .. N -> Filters]
    BY DEF BoundedSeq, SeqOf
  <2>2. \A k \in DOMAIN input.rules : input.rules[k] \in Filters
    BY <2>1
  <2>3. \A f \in rules : f \in Filters
    BY <2>2, Zenon DEF ToSet
  <2> QED
    BY <2>3, ContentAssumption, Zenon
<1>2. ListsAs(P, PE) /\ ListsAs(C, CE)
  BY EntriesListed, Zenon
<1>3. file.paths = P /\ file.contents = C
  <2> HIDE DEF P, C
  <2> QED
    OBVIOUS
<1> HIDE DEF file, P, C
<1>4. ~ PathEntryOK(NotAString) /\ ~ ContentEntryOK(NotAString)
  <2>1. "other" # "map"
    OBVIOUS
  <2> QED
    BY <2>1, TypeIs, Zenon DEF PathEntryOK, ContentEntryOK
<1>5. \A f \in rules :
        /\ f.list = "paths" \/ f.list = "contents"
        /\ f.list = "paths" => (f.mistake = "none" <=> PathEntryOK(EntryWritten(f)))
        /\ f.list = "contents" => (f.mistake = "none" <=> ContentEntryOK(EntryWritten(f)))
  BY <1>1, MistakesShow, Zenon
<1>6. FileOK(file) <=> (\A e \in PE : PathEntryOK(e)) /\ (\A e \in CE : ContentEntryOK(e))
  BY <1>2, <1>3, <1>4, Zenon DEF FileOK, ListsAs
<1>7. /\ \A e : e \in PE <=> \E f \in rules : f.list = "paths" /\ e = EntryWritten(f)
      /\ \A e : e \in CE <=> \E f \in rules : f.list = "contents" /\ e = EntryWritten(f)
  BY Zenon DEF EntriesOf
<1> HIDE DEF PE, CE, rules
<1>8. FileOK(file) <=> \A f \in rules : f.mistake = "none"
  <2>1. ASSUME FileOK(file), NEW f \in rules PROVE f.mistake = "none"
    <3>1. CASE f.list = "paths"
      <4>1. EntryWritten(f) \in PE
        BY <1>7, <3>1, Zenon
      <4> QED
        BY <1>5, <1>6, <2>1, <3>1, <4>1, Zenon
    <3>2. CASE f.list = "contents"
      <4>1. EntryWritten(f) \in CE
        BY <1>7, <3>2, Zenon
      <4> QED
        BY <1>5, <1>6, <2>1, <3>2, <4>1, Zenon
    <3> QED
      BY <1>5, <3>1, <3>2, Zenon
  <2>2. ASSUME \A f \in rules : f.mistake = "none" PROVE FileOK(file)
    <3>1. ASSUME NEW e \in PE PROVE PathEntryOK(e)
      <4>1. PICK f \in rules : f.list = "paths" /\ e = EntryWritten(f)
        BY <1>7, Zenon
      <4> QED
        BY <1>5, <2>2, <4>1, Zenon
    <3>2. ASSUME NEW e \in CE PROVE ContentEntryOK(e)
      <4>1. PICK f \in rules : f.list = "contents" /\ e = EntryWritten(f)
        BY <1>7, Zenon
      <4> QED
        BY <1>5, <2>2, <4>1, Zenon
    <3> QED
      BY <1>6, <3>1, <3>2, Zenon
  <2> QED
    BY <2>1, <2>2, Zenon
<1>9. CASE ~ FileOK(file)
  BY <1>8, <1>9, Zenon DEF FiltersAnswer, rules, file, P, C
<1>10. CASE FileOK(file)
  <2>1. NotAString \notin PE /\ NotAString \notin CE
    BY <1>4, <1>6, <1>10, Zenon
  <2>2. Entries(P) = PE /\ Entries(C) = CE
    BY <1>2, <2>1, Zenon DEF ListsAs
  <2> DEFINE Moves(e) == \E pf \in PathFilters(List(<<e>>)) : PathForbidden(pf, path)
             Misses(e) == \E cf \in ContentFilters(List(<<e>>)) : DisclosureMissing(cf, content)
  <2>3. (\E pf \in PathFilters(P) : PathForbidden(pf, path))
          <=> \E e \in PE : Moves(e)
    <3> DEFINE pf(e) == [pattern |-> e.pattern.value,
                         forbidden |-> {s.value : s \in Entries(e.forbidden)}]
    <3>1. PathFilters(P) = {pf(e) : e \in PE}
      BY <2>2, Zenon DEF PathFilters
    <3>2. ASSUME NEW e PROVE PathFilters(List(<<e>>)) = {pf(x) : x \in {e}}
      BY OneListed, Zenon DEF PathFilters
    <3> HIDE DEF pf
    <3>3. \A e : Moves(e) <=> PathForbidden(pf(e), path)
      BY <3>2, Zenon
    <3> HIDE DEF Moves
    <3> QED
      BY <3>1, <3>3, Zenon
  <2>4. (\E cf \in ContentFilters(C) : DisclosureMissing(cf, content))
          <=> \E e \in CE : Misses(e)
    <3> DEFINE cf(e) == [pattern |-> e.pattern.value,
                         required |-> IF e.required.type = "string" THEN e.required.value ELSE NoText]
    <3>1. ContentFilters(C) = {cf(e) : e \in CE}
      BY <2>2, Zenon DEF ContentFilters
    <3>2. ASSUME NEW e PROVE ContentFilters(List(<<e>>)) = {cf(x) : x \in {e}}
      BY OneListed, Zenon DEF ContentFilters
    <3> HIDE DEF cf
    <3>3. \A e : Misses(e) <=> DisclosureMissing(cf(e), content)
      BY <3>2, Zenon
    <3> HIDE DEF Misses
    <3> QED
      BY <3>1, <3>3, Zenon
  <2>5. ASSUME NEW f \in rules
        PROVE  /\ f.list = "paths" => (Forbids(f, input.edit) <=> Moves(EntryWritten(f)))
               /\ f.list = "contents" => (Forbids(f, input.edit) <=> Misses(EntryWritten(f)))
    <3>1. f.mistake = "none" /\ FilterIsWritten(f)
      BY <1>1, <1>8, <1>10, Zenon
    <3>2. IsSequence(input.edit.path)
      BY ContentAssumption, Zenon
    <3> QED
      BY <3>1, <3>2, FilterJudged, Zenon
  <2> HIDE DEF Moves, Misses
  <2>6. (\E f \in rules : Forbids(f, input.edit))
          <=> (\E e \in PE : Moves(e)) \/ (\E e \in CE : Misses(e))
    <3>1. ASSUME NEW f \in rules, Forbids(f, input.edit)
          PROVE  (\E e \in PE : Moves(e)) \/ (\E e \in CE : Misses(e))
      <4>1. CASE f.list = "paths"
        <5>1. EntryWritten(f) \in PE /\ Moves(EntryWritten(f))
          BY <1>7, <2>5, <3>1, <4>1, Zenon
        <5> QED
          BY <5>1, Zenon
      <4>2. CASE f.list = "contents"
        <5>1. EntryWritten(f) \in CE /\ Misses(EntryWritten(f))
          BY <1>7, <2>5, <3>1, <4>2, Zenon
        <5> QED
          BY <5>1, Zenon
      <4> QED
        BY <1>5, <4>1, <4>2, Zenon
    <3>2. ASSUME NEW e \in PE, Moves(e) PROVE \E f \in rules : Forbids(f, input.edit)
      <4>1. PICK f \in rules : f.list = "paths" /\ e = EntryWritten(f)
        BY <1>7, Zenon
      <4> QED
        BY <2>5, <3>2, <4>1, Zenon
    <3>3. ASSUME NEW e \in CE, Misses(e) PROVE \E f \in rules : Forbids(f, input.edit)
      <4>1. PICK f \in rules : f.list = "contents" /\ e = EntryWritten(f)
        BY <1>7, Zenon
      <4> QED
        BY <2>5, <3>3, <4>1, Zenon
    <3> QED
      BY <3>1, <3>2, <3>3, Zenon
  <2>7. FiltersAnswer(file, path, content)
          = IF \E f \in rules : f.mistake # "none" THEN "malformed"
            ELSE IF \E f \in rules : Forbids(f, input.edit) THEN "deny" ELSE "pass"
    <3>1. ~ \E f \in rules : f.mistake # "none"
      BY <1>8, <1>10, Zenon
    <3>2. FiltersAnswer(file, path, content)
            = IF \/ \E pf \in PathFilters(P) : PathForbidden(pf, path)
                 \/ \E cf \in ContentFilters(C) : DisclosureMissing(cf, content)
              THEN "deny" ELSE "pass"
      BY <1>3, <1>10, Zenon DEF FiltersAnswer
    <3> QED
      BY <2>3, <2>4, <2>6, <3>1, <3>2, Zenon
  <2> QED
    BY <2>7, Zenon DEF rules, file, P, C
<1> QED
  BY <1>9, <1>10

-----------------------------------------------------------------------------
(* The operator's files                                                    *)

\* What an input of each form is made of.
LEMMA ContentForms ==
  ASSUME ContentInput
  PROVE  /\ input.form = "rules" => input.items \in BoundedSeq(RuleItems, MaxItems)
         /\ input.form = "stories" => input.items \in BoundedSeq(StoryItems, MaxItems)
         /\ input.form = "glob" => input.pattern \in Globs /\ input.name \in PathNames
         /\ input.form = "filters" =>
              input.rules \in BoundedSeq(Filters, MaxFilters) /\ input.edit \in FilteredEdits
<1> DEFINE rules == "rules"
           stories == "stories"
           glob == "glob"
           filters == "filters"
           RuleSeqs == BoundedSeq(RuleItems, MaxItems)
           StorySeqs == BoundedSeq(StoryItems, MaxItems)
           FilterSeqs == BoundedSeq(Filters, MaxFilters)
<1>1. rules # stories /\ rules # glob /\ rules # filters /\ stories # glob /\ stories # filters /\ glob # filters
  OBVIOUS
<1>2. \/ input \in [form : {rules}, items : RuleSeqs]
      \/ input \in [form : {stories}, items : StorySeqs]
      \/ input \in [form : {glob}, pattern : Globs, name : PathNames]
      \/ input \in [form : {filters}, rules : FilterSeqs, edit : FilteredEdits]
  BY Zenon DEF ContentInput, ListInputs, GlobInputs, FilterInputs
<1> HIDE DEF rules, stories, glob, filters, RuleSeqs, StorySeqs, FilterSeqs
<1>3. CASE input \in [form : {rules}, items : RuleSeqs]
  <2>1. input.form = rules /\ input.items \in RuleSeqs
    BY <1>3
  <2> QED
    BY <1>1, <2>1, Zenon DEF rules, stories, glob, filters, RuleSeqs
<1>4. CASE input \in [form : {stories}, items : StorySeqs]
  <2>1. input.form = stories /\ input.items \in StorySeqs
    BY <1>4
  <2> QED
    BY <1>1, <2>1, Zenon DEF rules, stories, glob, filters, StorySeqs
<1>5. CASE input \in [form : {glob}, pattern : Globs, name : PathNames]
  <2>1. input.form = glob /\ input.pattern \in Globs /\ input.name \in PathNames
    BY <1>5
  <2> QED
    BY <1>1, <2>1, Zenon DEF rules, stories, glob, filters
<1>6. CASE input \in [form : {filters}, rules : FilterSeqs, edit : FilteredEdits]
  <2>1. input.form = filters /\ input.rules \in FilterSeqs /\ input.edit \in FilteredEdits
    BY <1>6
  <2> QED
    BY <1>1, <2>1, Zenon DEF rules, stories, glob, filters, FilterSeqs
<1> QED
  BY <1>2, <1>3, <1>4, <1>5, <1>6, Zenon

\* What the operator wrote in do-not-claim.md, stories.md, the globs of exempt
\* paths and filters.yaml is what the adapter reads there.
THEOREM TruthAlwaysRead == ContentSpec => []TruthIsReadAsWritten
<1> DEFINE Inv == ContentInput /\ TruthIsReadAsWritten
<1>1. ContentInit => Inv
  BY Zenon DEF ContentInit, TruthIsReadAsWritten, Done
<1>2. Inv /\ [ContentNext]_examVars => Inv'
  <2> SUFFICES ASSUME Inv, [ContentNext]_examVars PROVE Inv'
    OBVIOUS
  <2>0. /\ "rules" # "stories" /\ "rules" # "glob" /\ "rules" # "filters" /\ "stories" # "glob"
        /\ "stories" # "filters" /\ "glob" # "filters"
    OBVIOUS
  <2>1. CASE ParseRulesFile
    <3> DEFINE parsed == ParseRules(FlattenSeq([k \in DOMAIN input.items |-> RuleLines(input.items[k])]))
    <3>1. input.form = "rules" /\ input' = input /\ answer' = parsed
      BY <2>1, Zenon DEF ParseRulesFile, Answer
    <3>2. parsed.ok /\ parsed.rules = RulesWritten
      BY <3>1, ContentForms, RulesAreRead, Zenon
    <3>3. ContentInput' /\ RulesWritten' = RulesWritten
      BY <3>1, Zenon DEF ContentInput, RulesWritten
    <3>4. answer'.ok /\ answer'.rules = RulesWritten'
      BY <3>1, <3>2, <3>3, Zenon
    <3>5. input'.form \in {"rules"} /\ input'.form \notin {"stories"} /\ input'.form \notin {"filters"}
          /\ input'.form \notin {"glob"}
      BY <2>0, <3>1, Zenon
    <3> QED
      BY <3>3, <3>4, <3>5, Zenon DEF TruthIsReadAsWritten, Done
  <2>2. CASE ParseStoriesFile
    <3> DEFINE parsed == ParseStories(FlattenSeq([k \in DOMAIN input.items |-> StoryLines(input.items[k])]))
    <3>1. input.form = "stories" /\ input' = input /\ answer' = parsed
      BY <2>2, Zenon DEF ParseStoriesFile, Answer
    <3>2. parsed.ok /\ parsed.stories = StoriesWritten
      BY <3>1, ContentForms, StoriesAreRead, Zenon
    <3>3. ContentInput' /\ StoriesWritten' = StoriesWritten
      BY <3>1, Zenon DEF ContentInput, StoriesWritten
    <3>4. answer'.ok /\ answer'.stories = StoriesWritten'
      BY <3>1, <3>2, <3>3, Zenon
    <3>5. input'.form \notin {"rules"} /\ input'.form \notin {"filters"} /\ input'.form \notin {"glob"}
      BY <2>0, <3>1, Zenon
    <3> QED
      BY <3>3, <3>4, <3>5, Zenon DEF TruthIsReadAsWritten, Done
  <2>3. CASE AskExempt
    <3> DEFINE glob == input.pattern
               name == input.name
               exempt == IsExemptFromMatcher(<<"p">> \o name, <<"p">>, <<"p", "truth">>, {glob})
               meant == name[1] = "truth" \/ (name[1] \notin DotDotNames /\ GlobCovers(glob, name))
    <3>1. input.form = "glob" /\ input' = input /\ answer' = exempt
      BY <2>3, Zenon DEF AskExempt, Answer
    <3>2. IsSequence(glob) /\ IsSequence(name) /\ name # <<>>
      BY <3>1, ContentForms, ContentAssumption, Zenon
    <3>3. exempt <=> meant
      <4> HIDE DEF glob, name
      <4> QED
        BY <3>2, ExemptIsRead, Zenon
    <3>4. ContentInput' /\ input'.name = name /\ input'.pattern = glob
      BY <3>1, Zenon DEF ContentInput
    <3>5. input'.form \notin {"rules"} /\ input'.form \notin {"stories"} /\ input'.form \notin {"filters"}
      BY <2>0, <3>1, Zenon
    <3>6. input'.name[1] \notin DotDotNames =>
            (answer' <=> input'.name[1] = "truth" \/ GlobCovers(input'.pattern, input'.name))
      BY <3>1, <3>3, <3>4, Zenon
    <3> QED
      BY <3>4, <3>5, <3>6, Zenon DEF TruthIsReadAsWritten, Done
  <2>4. CASE ApplyFilters
    <3> DEFINE meant == IF \E f \in ToSet(input.rules) : f.mistake # "none" THEN "malformed"
                        ELSE IF \E f \in ToSet(input.rules) : Forbids(f, input.edit) THEN "deny"
                        ELSE "pass"
    <3>1. /\ input.form = "filters" /\ input' = input
          /\ answer' = FiltersAnswer([paths |-> YamlList("paths"), contents |-> YamlList("contents")],
                                     input.edit.path, input.edit.content)
      BY <2>4, Zenon DEF ApplyFilters, Answer
    <3>2. answer' = meant
      BY <3>1, ContentForms, FiltersAreRead, Zenon
    <3>3. ContentInput' /\ meant' = meant
      BY <3>1, Zenon DEF ContentInput
    <3>4. input'.form \notin {"rules"} /\ input'.form \notin {"stories"} /\ input'.form \notin {"glob"}
      BY <2>0, <3>1, Zenon
    <3> QED
      BY <3>2, <3>3, <3>4, Zenon DEF TruthIsReadAsWritten, Done
  <2>5. CASE UNCHANGED examVars
    <3>1. input' = input /\ done' = done /\ answer' = answer
      BY <2>5 DEF examVars
    <3>2. ContentInput' = ContentInput
      BY <3>1, Zenon DEF ContentInput
    <3>3. TruthIsReadAsWritten' = TruthIsReadAsWritten
      BY <3>1, Zenon DEF TruthIsReadAsWritten, Done, RulesWritten, StoriesWritten
    <3> QED
      BY <3>2, <3>3, Zenon
  <2> QED
    BY <2>1, <2>2, <2>3, <2>4, <2>5, Zenon DEF ContentNext
<1>3. Inv => TruthIsReadAsWritten
  OBVIOUS
<1> QED
  BY <1>1, <1>2, <1>3, PTL DEF ContentSpec

-----------------------------------------------------------------------------
(* The code adapter's verdict on an edit                                   *)

LEMMA StartOfConcat ==
  ASSUME NEW S, NEW s \in Seq(S), NEW t \in Seq(S), NEW a \in Nat, NEW b \in Nat, b <= Len(s)
  PROVE  SubSeq(s \o t, a + 1, b) = SubSeq(s, a + 1, b)
<1>1. /\ s \o t \in Seq(S) /\ \A i \in 1 .. Len(s) : (s \o t)[i] = s[i]
      /\ Len(s) \in Nat /\ Len(t) \in Nat /\ Len(s \o t) = Len(s) + Len(t)
  BY ConcatProperties, LenProperties
<1> DEFINE w == s \o t
<1>2. \A i \in a + 1 .. b : w[i] = s[i]
  BY <1>1
<1> HIDE DEF w
<1>3. SubSeq(w, a + 1, b) = [i \in 1 .. (1 + b - (a + 1)) |-> w[i + (a + 1) - 1]]
  OBVIOUS
<1>4. SubSeq(s, a + 1, b) = [i \in 1 .. (1 + b - (a + 1)) |-> s[i + (a + 1) - 1]]
  OBVIOUS
<1>5. \A i \in 1 .. (1 + b - (a + 1)) : i + (a + 1) - 1 \in a + 1 .. b
  OBVIOUS
<1> QED
  BY <1>2, <1>3, <1>4, <1>5 DEF w

\* A function that takes its value at n from the one at n - 1.
Recursive(g, base, step, N) ==
  g = [n \in 0 .. N |-> IF n = 0 THEN base ELSE step[<<g[n - 1], n>>]]

LEMMA RecursionExists ==
  ASSUME NEW X, NEW base \in X, NEW N \in Nat, NEW step \in [X \X (1 .. N) -> X]
  PROVE  \E g : Recursive(g, base, step, N) /\ \A n \in 0 .. N : g[n] \in X
<1> DEFINE Is(g, m) == /\ g = [n \in 0 .. m |-> IF n = 0 THEN base ELSE step[<<g[n - 1], n>>]]
                       /\ \A n \in 0 .. m : g[n] \in X
           T == {m \in 0 .. N : \E g : Is(g, m)}
<1>1. 0 \in T
  <2> DEFINE g == [n \in 0 .. 0 |-> base]
             h == [n \in 0 .. 0 |-> IF n = 0 THEN base ELSE step[<<g[n - 1], n>>]]
  <2>1. \A n \in 0 .. 0 : n = 0
    OBVIOUS
  <2>2. g = h /\ \A n \in 0 .. 0 : g[n] \in X
    BY <2>1
  <2> HIDE DEF g
  <2>3. Is(g, 0)
    BY <2>2
  <2> QED
    BY <2>3
<1>2. ASSUME NEW m \in 1 .. N, m - 1 \in T PROVE m \in T
  <2>1. PICK f : Is(f, m - 1)
    BY <1>2
  <2> DEFINE g == [n \in 0 .. m |-> IF n = m THEN step[<<f[m - 1], m>>] ELSE f[n]]
             h == [n \in 0 .. m |-> IF n = 0 THEN base ELSE step[<<g[n - 1], n>>]]
  <2>2. f[m - 1] \in X /\ m - 1 \in 0 .. m - 1 /\ m \in Nat
    BY <1>2, <2>1
  <2>3. \A n \in 0 .. m - 1 : g[n] = f[n]
    BY <2>2
  <2>4. ASSUME NEW n \in 0 .. m PROVE g[n] = h[n] /\ g[n] \in X
    <3>1. CASE n = m
      <4>1. g[n - 1] = f[m - 1] /\ n # 0
        BY <2>2, <2>3, <3>1
      <4>2. step[<<f[m - 1], m>>] \in X
        BY <2>2
      <4> QED
        BY <3>1, <4>1, <4>2
    <3>2. CASE n # m
      <4>1. n \in 0 .. m - 1 /\ (n # 0 => n - 1 \in 0 .. m - 1)
        BY <2>2, <3>2
      <4>2. f[n] = (IF n = 0 THEN base ELSE step[<<f[n - 1], n>>]) /\ f[n] \in X
        BY <2>1, <4>1
      <4>3. g[n] = f[n] /\ (n # 0 => g[n - 1] = f[n - 1])
        BY <2>3, <4>1
      <4> QED
        BY <4>2, <4>3
    <3> QED
      BY <3>1, <3>2
  <2>5. g = h
    BY <2>4
  <2> HIDE DEF g
  <2>6. Is(g, m)
    BY <2>4, <2>5
  <2>7. m \in 0 .. N
    OBVIOUS
  <2> HIDE DEF Is
  <2> QED
    BY <2>6, <2>7, Zenon
<1> HIDE DEF T
<1>3. N \in 0 .. N /\ \A n \in 0 .. N : n \in T
  BY <1>1, <1>2, UpTo
<1>4. N \in T
  BY <1>3
<1> QED
  BY <1>4, Zenon DEF T, Recursive

\* Where an edit's path leads.

LEMMA StepsUpNext ==
  ASSUME NEW path, NEW i \in Nat, NEW n \in Nat, i <= n + 1
  PROVE  /\ StepsUp(path, i, n) \in Nat
         /\ StepsUp(path, i, n + 1) = StepsUp(path, i, n) + (IF path[n + 1] = ".." THEN 1 ELSE 0)
<1> DEFINE S == {k \in i .. n : path[k] = ".."}
           T == {k \in i .. n + 1 : path[k] = ".."}
<1>1. S \subseteq i .. n /\ IsFiniteSet(i .. n)
  BY FS_Interval
<1>2. IsFiniteSet(S) /\ Cardinality(S) \in Nat /\ n + 1 \notin S
  BY <1>1, FS_Subset, FS_CardinalityType
<1>3. T = IF path[n + 1] = ".." THEN S \cup {n + 1} ELSE S
  <2>1. \A k : k \in i .. n + 1 <=> k \in i .. n \/ k = n + 1
    OBVIOUS
  <2> QED
    BY <2>1
<1> HIDE DEF S, T
<1>4. Cardinality(S \cup {n + 1}) = Cardinality(S) + 1
  BY <1>2, FS_AddElement
<1>5. Cardinality(T) = Cardinality(S) + (IF path[n + 1] = ".." THEN 1 ELSE 0)
  BY <1>2, <1>3, <1>4
<1> QED
  BY <1>2, <1>5 DEF StepsUp, S, T

LEMMA NoStepsUp ==
  ASSUME NEW path, NEW i \in Nat
  PROVE  StepsUp(path, i + 1, i) = 0
<1>1. {k \in i + 1 .. i : path[k] = ".."} = {}
  OBVIOUS
<1> QED
  BY <1>1, FS_EmptySet, Zenon DEF StepsUp

\* The first n segments of a path do not climb out of the k-th.
Stays(path, k, n) == \A m \in k .. n : 2 * StepsUp(path, k + 1, m) <= m - k

\* What is left of the first n segments are those that are not climbed out of:
\* the one at place p of what is left stands at at[p].
LeftAt(path, left, n, at) ==
  /\ at \in [1 .. Len(left) -> 1 .. n]
  /\ \A p \in 1 .. Len(left) :
       /\ left[p] = path[at[p]] /\ left[p] # ".." /\ Stays(path, at[p], n)
       /\ n - at[p] - 2 * StepsUp(path, at[p] + 1, n) = Len(left) - p
  /\ \A k \in 1 .. n : path[k] # ".." /\ Stays(path, k, n) => \E p \in 1 .. Len(left) : at[p] = k

Left(path, left, n) == \E at : LeftAt(path, left, n, at)

LEMMA JoinedLeft ==
  ASSUME NEW S, NEW path \in Seq(S), NEW left \in Seq(S), NEW n \in 1 .. Len(path),
         Left(path, left, n - 1)
  PROVE  Joined(left, path[n]) \in Seq(S) /\ Left(path, Joined(left, path[n]), n)
<1> DEFINE N == Len(left)
           next == Joined(left, path[n])
<1>1. PICK at : LeftAt(path, left, n - 1, at)
  BY Zenon DEF Left
<1>2. /\ n \in Nat /\ n - 1 \in Nat /\ N \in Nat /\ path[n] \in S
      /\ at \in [1 .. N -> 1 .. n - 1]
  BY <1>1, LenProperties DEF LeftAt
<1>3. \A k \in 1 .. n - 1 : StepsUp(path, k + 1, n - 1) \in Nat
                           /\ StepsUp(path, k + 1, n) = StepsUp(path, k + 1, n - 1)
                                                         + (IF path[n] = ".." THEN 1 ELSE 0)
  <2> SUFFICES ASSUME NEW k \in 1 .. n - 1
               PROVE  StepsUp(path, k + 1, n - 1) \in Nat
                      /\ StepsUp(path, k + 1, n) = StepsUp(path, k + 1, n - 1)
                                                    + (IF path[n] = ".." THEN 1 ELSE 0)
    BY Zenon
  <2> DEFINE i == k + 1
             m == n - 1
  <2>1. i \in Nat /\ m \in Nat /\ i <= m + 1 /\ m + 1 = n
    BY <1>2
  <2> HIDE DEF i, m
  <2>2. /\ StepsUp(path, i, m) \in Nat
        /\ StepsUp(path, i, m + 1) = StepsUp(path, i, m) + (IF path[m + 1] = ".." THEN 1 ELSE 0)
    BY <2>1, StepsUpNext, Zenon
  <2>3. /\ StepsUp(path, i, m) \in Nat
        /\ StepsUp(path, i, n) = StepsUp(path, i, m) + (IF path[n] = ".." THEN 1 ELSE 0)
    BY <2>1, <2>2, Zenon
  <2> QED
    BY <2>3, Zenon DEF i, m
<1>4. StepsUp(path, n + 1, n) = 0
  BY <1>2, NoStepsUp
<1>5. \A k \in 1 .. n - 1 : Stays(path, k, n) <=> /\ Stays(path, k, n - 1)
                                                  /\ 2 * StepsUp(path, k + 1, n) <= n - k
  <2> SUFFICES ASSUME NEW k \in 1 .. n - 1
               PROVE  Stays(path, k, n) <=> /\ Stays(path, k, n - 1)
                                            /\ 2 * StepsUp(path, k + 1, n) <= n - k
    BY Zenon
  <2>1. \A m : m \in k .. n <=> m \in k .. n - 1 \/ m = n
    BY <1>2
  <2> QED
    BY <2>1, Zenon DEF Stays
<1>6. Stays(path, n, n)
  <2>1. \A m \in n .. n : m = n
    BY <1>2
  <2>2. 2 * StepsUp(path, n + 1, n) <= n - n
    BY <1>2, <1>4
  <2> QED
    BY <2>1, <2>2, Zenon DEF Stays
<1>7. /\ \A p \in 1 .. N :
           /\ left[p] = path[at[p]] /\ left[p] # ".." /\ Stays(path, at[p], n - 1)
           /\ (n - 1) - at[p] - 2 * StepsUp(path, at[p] + 1, n - 1) = N - p
      /\ \A k \in 1 .. n - 1 : path[k] # ".." /\ Stays(path, k, n - 1)
                                 => \E p \in 1 .. N : at[p] = k
  BY <1>1, Zenon DEF LeftAt
<1>8. CASE path[n] # ".."
  <2> DEFINE to == [p \in 1 .. N + 1 |-> IF p = N + 1 THEN n ELSE at[p]]
  <2>1. next = Append(left, path[n])
    BY <1>8, Zenon DEF Joined
  <2>2. /\ next \in Seq(S) /\ Len(next) = N + 1 /\ next[N + 1] = path[n]
        /\ \A p \in 1 .. N : next[p] = left[p]
    BY <1>2, <2>1, AppendProperties
  <2> HIDE DEF next, N
  <2>3. to \in [1 .. N + 1 -> 1 .. n]
    BY <1>2
  <2>4. to[N + 1] = n /\ \A p \in 1 .. N : to[p] = at[p] /\ at[p] \in 1 .. n - 1
    BY <1>2
  <2> HIDE DEF to
  <2>5. ASSUME NEW p \in 1 .. N + 1
        PROVE  /\ next[p] = path[to[p]] /\ next[p] # ".." /\ Stays(path, to[p], n)
               /\ n - to[p] - 2 * StepsUp(path, to[p] + 1, n) = (N + 1) - p
    <3>1. CASE p = N + 1
      <4>1. to[p] = n /\ next[p] = path[n] /\ n - n - 2 * 0 = (N + 1) - p
        BY <1>2, <2>2, <2>4, <3>1
      <4> QED
        BY <1>4, <1>6, <1>8, <4>1, Zenon
    <3>2. CASE p # N + 1
      <4>1. p \in 1 .. N /\ to[p] = at[p] /\ at[p] \in 1 .. n - 1 /\ next[p] = left[p]
        BY <1>2, <2>2, <2>4, <3>2
      <4>2. /\ left[p] = path[at[p]] /\ left[p] # ".." /\ Stays(path, at[p], n - 1)
            /\ (n - 1) - at[p] - 2 * StepsUp(path, at[p] + 1, n - 1) = N - p
        BY <1>7, <4>1, Zenon
      <4>3. /\ StepsUp(path, at[p] + 1, n) = StepsUp(path, at[p] + 1, n - 1)
            /\ StepsUp(path, at[p] + 1, n) \in Nat
        BY <1>3, <1>8, <4>1
      <4>4. /\ n - at[p] - 2 * StepsUp(path, at[p] + 1, n) = (N + 1) - p
            /\ 2 * StepsUp(path, at[p] + 1, n) <= n - at[p]
        <5> DEFINE u == StepsUp(path, at[p] + 1, n)
                   a == at[p]
        <5>1. /\ u \in Nat /\ a \in Nat /\ n \in Nat /\ N \in Nat /\ p \in Nat /\ p <= N
              /\ (n - 1) - a - 2 * u = N - p
          BY <1>2, <4>1, <4>2, <4>3
        <5> HIDE DEF u, a
        <5>2. n - a - 2 * u = (N + 1) - p /\ 2 * u <= n - a
          BY <5>1
        <5> QED
          BY <5>2 DEF u, a
      <4>5. Stays(path, at[p], n)
        BY <1>5, <4>1, <4>2, <4>4, Zenon
      <4> QED
        BY <4>1, <4>2, <4>4, <4>5
    <3> QED
      BY <3>1, <3>2
  <2>6. ASSUME NEW k \in 1 .. n, path[k] # "..", Stays(path, k, n)
        PROVE  \E p \in 1 .. N + 1 : to[p] = k
    <3>1. CASE k = n
      BY <1>2, <2>4, <3>1
    <3>2. CASE k # n
      <4>1. k \in 1 .. n - 1
        BY <1>2, <3>2
      <4>2. PICK p \in 1 .. N : at[p] = k
        BY <1>5, <1>7, <2>6, <4>1, Zenon
      <4>3. p \in 1 .. N + 1 /\ to[p] = k
        BY <1>2, <2>4, <4>2
      <4> QED
        BY <4>3
    <3> QED
      BY <3>1, <3>2
  <2>7. LeftAt(path, next, n, to)
    BY <2>2, <2>3, <2>5, <2>6 DEF LeftAt
  <2> QED
    BY <2>2, <2>7, Zenon DEF Left, next
<1>9. CASE path[n] = ".."
  <2> DEFINE M == IF N = 0 THEN 0 ELSE N - 1
             to == [p \in 1 .. M |-> at[p]]
  <2>1. next = SubSeq(left, 1, N - 1)
    BY <1>9, Zenon DEF Joined
  <2>2. /\ next \in Seq(S) /\ Len(next) = M
        /\ \A p \in 1 .. M : next[p] = left[p]
    <3>1. CASE N = 0
      <4>1. next = <<>>
        BY <2>1, <3>1
      <4> QED
        BY <3>1, <4>1
    <3>2. CASE N # 0
      <4> DEFINE m == N - 1
      <4>1. m \in Int /\ 1 \in Int /\ m \in Nat /\ m - 1 + 1 = m /\ M = m
        BY <1>2, <3>2
      <4>2. \A i \in 1 .. m : left[i] \in S
        BY <1>2
      <4> HIDE DEF m
      <4>3. /\ SubSeq(left, 1, m) \in Seq(S)
            /\ Len(SubSeq(left, 1, m)) = IF 1 <= m THEN m - 1 + 1 ELSE 0
            /\ \A i \in 1 .. m - 1 + 1 : SubSeq(left, 1, m)[i] = left[1 + i - 1]
        BY <4>1, <4>2, SubSeqProperties
      <4>4. next = SubSeq(left, 1, m)
        BY <2>1, Zenon DEF m
      <4> HIDE DEF next, M
      <4>5. Len(next) = M
        BY <4>1, <4>3, <4>4
      <4>6. \A i \in 1 .. M : next[i] = left[i]
        BY <4>1, <4>3, <4>4
      <4> QED
        BY <4>3, <4>4, <4>5, <4>6, Zenon
    <3> QED
      BY <3>1, <3>2
  <2>3. M \in Nat /\ \A p \in 1 .. M : p \in 1 .. N /\ N = M + 1
    BY <1>2
  <2> HIDE DEF next, N, M
  <2>8. \A p \in 1 .. M : at[p] \in 1 .. n - 1
    BY <1>2, <2>3
  <2>4. to \in [1 .. M -> 1 .. n] /\ \A p \in 1 .. M : to[p] = at[p] /\ at[p] \in 1 .. n - 1
    BY <1>2, <2>8
  <2> HIDE DEF to
  <2>5. ASSUME NEW p \in 1 .. M
        PROVE  /\ next[p] = path[to[p]] /\ next[p] # ".." /\ Stays(path, to[p], n)
               /\ n - to[p] - 2 * StepsUp(path, to[p] + 1, n) = M - p
    <3>1. p \in 1 .. N /\ N = M + 1 /\ to[p] = at[p] /\ at[p] \in 1 .. n - 1 /\ next[p] = left[p]
      BY <2>2, <2>3, <2>4
    <3>2. /\ left[p] = path[at[p]] /\ left[p] # ".." /\ Stays(path, at[p], n - 1)
          /\ (n - 1) - at[p] - 2 * StepsUp(path, at[p] + 1, n - 1) = N - p
      BY <1>7, <3>1, Zenon
    <3>3. /\ StepsUp(path, at[p] + 1, n) = StepsUp(path, at[p] + 1, n - 1) + 1
          /\ StepsUp(path, at[p] + 1, n - 1) \in Nat
      BY <1>3, <1>9, <3>1
    <3>4. /\ n - at[p] - 2 * StepsUp(path, at[p] + 1, n) = M - p
          /\ 2 * StepsUp(path, at[p] + 1, n) <= n - at[p]
      <4> DEFINE u == StepsUp(path, at[p] + 1, n)
                 v == StepsUp(path, at[p] + 1, n - 1)
                 a == at[p]
      <4>1. /\ v \in Nat /\ u = v + 1 /\ a \in Nat /\ n \in Nat /\ M \in Nat /\ N = M + 1
            /\ p \in Nat /\ p <= M /\ (n - 1) - a - 2 * v = N - p
        BY <1>2, <2>3, <3>1, <3>2, <3>3
      <4> HIDE DEF u, v, a
      <4>2. n - a - 2 * u = M - p /\ 2 * u <= n - a
        BY <4>1
      <4> QED
        BY <4>2 DEF u, a
    <3>5. Stays(path, at[p], n)
      BY <1>5, <3>1, <3>2, <3>4, Zenon
    <3> QED
      BY <3>1, <3>2, <3>4, <3>5
  <2>6. ASSUME NEW k \in 1 .. n, path[k] # "..", Stays(path, k, n)
        PROVE  \E p \in 1 .. M : to[p] = k
    <3>1. k \in 1 .. n - 1
      BY <1>2, <1>9, <2>6
    <3>2. Stays(path, k, n - 1) /\ 2 * StepsUp(path, k + 1, n) <= n - k
      BY <1>5, <2>6, <3>1, Zenon
    <3>3. PICK p \in 1 .. N : at[p] = k
      BY <1>7, <2>6, <3>1, <3>2, Zenon
    <3>4. (n - 1) - k - 2 * StepsUp(path, k + 1, n - 1) = N - p
      BY <1>7, <3>3
    <3>5. /\ StepsUp(path, k + 1, n) = StepsUp(path, k + 1, n - 1) + 1
          /\ StepsUp(path, k + 1, n - 1) \in Nat
      BY <1>3, <1>9, <3>1
    <3>6. p <= N - 1
      BY <1>2, <3>1, <3>2, <3>4, <3>5
    <3>7. p \in 1 .. M
      BY <1>2, <3>6 DEF M
    <3> QED
      BY <2>4, <3>3, <3>7
  <2>7. LeftAt(path, next, n, to)
    BY <2>2, <2>4, <2>5, <2>6 DEF LeftAt
  <2> QED
    BY <2>2, <2>7, Zenon DEF Left, next
<1> QED
  BY <1>8, <1>9

\* A cleaned path is in the operator's directory if it leads there.
LEMMA CleanedLeads ==
  ASSUME NEW path, IsSequence(path)
  PROVE  IsUnderLeonardDir(path) <=> LeadsInto(path)
<1> DEFINE S == ToSet(path)
           N == Len(path)
           X == Seq(S)
           base == <<>>
           Is(f) == f = [k \in 0 .. N |-> IF k = 0 THEN <<>> ELSE Joined(f[k - 1], path[k])]
           step == [q \in X \X (1 .. N) |-> Joined(q[1], path[q[2]])]
           cleaned == CHOOSE f : Is(f)
<1>1. path \in Seq(S) /\ N \in Nat /\ DOMAIN path = 1 .. N /\ \A k \in 1 .. N : path[k] \in S
  BY LenProperties DEF IsSequence, ToSet
<1>2. Clean(path) = cleaned[N]
  BY Zenon DEF Clean
<1>3. base \in X
  OBVIOUS
<1>4. \A x \in X : \A k \in 1 .. N : Joined(x, path[k]) \in X
  <2> SUFFICES ASSUME NEW x \in X, NEW k \in 1 .. N PROVE Joined(x, path[k]) \in X
    BY Zenon
  <2>1. path[k] \in S /\ Len(x) \in Nat
    BY <1>1, LenProperties
  <2>2. Append(x, path[k]) \in X
    BY <2>1, AppendProperties
  <2>3. SubSeq(x, 1, Len(x) - 1) \in X
    <3>1. CASE Len(x) = 0
      <4>1. SubSeq(x, 1, Len(x) - 1) = <<>>
        BY <3>1
      <4> QED
        BY <4>1
    <3>2. CASE Len(x) # 0
      <4>1. \A i \in 1 .. Len(x) - 1 : i \in 1 .. Len(x)
        BY <2>1
      <4> QED
        BY <2>1, <3>2, <4>1, SubSeqProperties
    <3> QED
      BY <3>1, <3>2
  <2> QED
    BY <2>2, <2>3, Zenon DEF Joined
<1> HIDE DEF X, base, N
<1>5. Is(cleaned)
  <2>1. step \in [X \X (1 .. N) -> X]
    BY <1>4
  <2> HIDE DEF step
  <2>3. \E g : Recursive(g, base, step, N) /\ \A i \in 0 .. N : g[i] \in X
    BY <1>1, <1>3, <2>1, RecursionExists, Zenon
  <2>4. PICK g : /\ g = [i \in 0 .. N |-> IF i = 0 THEN base ELSE step[<<g[i - 1], i>>]]
                 /\ \A i \in 0 .. N : g[i] \in X
    BY <2>3, Zenon DEF Recursive
  <2>5. \A i \in 1 .. N : g[i - 1] \in X
    BY <1>1, <2>4
  <2>6. \A i \in 1 .. N : step[<<g[i - 1], i>>] = Joined(g[i - 1], path[i])
    BY <2>5 DEF step
  <2>7. \A i \in 0 .. N : (IF i = 0 THEN base ELSE step[<<g[i - 1], i>>])
                           = (IF i = 0 THEN <<>> ELSE Joined(g[i - 1], path[i]))
    BY <1>1, <2>6 DEF base
  <2>8. [i \in 0 .. N |-> IF i = 0 THEN base ELSE step[<<g[i - 1], i>>]]
          = [i \in 0 .. N |-> IF i = 0 THEN <<>> ELSE Joined(g[i - 1], path[i])]
    BY <2>7, Zenon
  <2>9. Is(g)
    BY <2>4, <2>8, Zenon
  <2> QED
    BY <2>9, Zenon
<1> HIDE DEF cleaned, step
<1>6. cleaned[0] = <<>> /\ \A i \in 1 .. N : cleaned[i] = Joined(cleaned[i - 1], path[i])
  BY <1>1, <1>5
<1>7. \A n \in 0 .. N : cleaned[n] \in X /\ Left(path, cleaned[n], n)
  <2> DEFINE T == {n \in 0 .. N : cleaned[n] \in X /\ Left(path, cleaned[n], n)}
  <2>1. 0 \in T
    <3>1. LeftAt(path, <<>>, 0, <<>>)
      BY DEF LeftAt
    <3> QED
      BY <1>1, <1>3, <1>6, <3>1 DEF Left, base
  <2>2. ASSUME NEW n \in 1 .. N, n - 1 \in T PROVE n \in T
    <3>1. cleaned[n - 1] \in X /\ Left(path, cleaned[n - 1], n - 1)
      BY <2>2
    <3>2. n \in 1 .. Len(path) /\ cleaned[n] = Joined(cleaned[n - 1], path[n]) /\ n \in 0 .. N
      BY <1>1, <1>6 DEF N
    <3>3. Joined(cleaned[n - 1], path[n]) \in X /\ Left(path, Joined(cleaned[n - 1], path[n]), n)
      BY <1>1, <3>1, <3>2, JoinedLeft, Zenon DEF X
    <3> QED
      BY <3>2, <3>3, Zenon
  <2> HIDE DEF T
  <2>3. \A n \in 0 .. N : n \in T
    BY <1>1, <2>1, <2>2, UpTo
  <2> QED
    BY <2>3 DEF T
<1>8. cleaned[N] \in X /\ Left(path, cleaned[N], N)
  BY <1>1, <1>7
<1> DEFINE left == cleaned[N]
<1>9. PICK at : LeftAt(path, left, N, at)
  BY <1>8, Zenon DEF Left
<1>10. ToSet(left) = {left[p] : p \in 1 .. Len(left)}
  BY <1>8, LenProperties DEF ToSet, X
<1> HIDE DEF left
<1>11. IsUnderLeonardDir(path) <=> \E p \in 1 .. Len(left) : left[p] \in LeonardDir
  BY <1>2, <1>10 DEF IsUnderLeonardDir, left
<1>12. ".." \notin LeonardDir
  BY DEF LeonardDir
<1>13. LeadsInto(path) <=> \E k \in 1 .. N : path[k] \in LeonardDir /\ Stays(path, k, N)
  BY <1>1, Zenon DEF LeadsInto, Stays, N
<1>14. /\ at \in [1 .. Len(left) -> 1 .. N]
       /\ \A p \in 1 .. Len(left) : left[p] = path[at[p]] /\ Stays(path, at[p], N)
       /\ \A k \in 1 .. N : path[k] # ".." /\ Stays(path, k, N)
                              => \E p \in 1 .. Len(left) : at[p] = k
  BY <1>9, Zenon DEF LeftAt
<1>15. \A p \in 1 .. Len(left) : at[p] \in 1 .. N
  BY <1>14
<1>16. LeadsInto(path) => IsUnderLeonardDir(path)
  <2> SUFFICES ASSUME NEW k \in 1 .. N, path[k] \in LeonardDir, Stays(path, k, N)
               PROVE  \E p \in 1 .. Len(left) : left[p] \in LeonardDir
    BY <1>11, <1>13, Zenon
  <2>1. path[k] # ".."
    BY <1>12
  <2>2. PICK p \in 1 .. Len(left) : at[p] = k
    BY <1>14, <2>1, Zenon
  <2> QED
    BY <1>14, <2>2, Zenon
<1>17. IsUnderLeonardDir(path) => LeadsInto(path)
  BY <1>11, <1>13, <1>14, <1>15, Zenon
<1> QED
  BY <1>16, <1>17

LEMMA AreElements ==
  ASSUME NEW S, NEW s \in Seq(S)
  PROVE  IsSequence(s)
<1>1. Len(s) \in Nat /\ DOMAIN s = 1 .. Len(s) /\ s \in [1 .. Len(s) -> S]
  BY LenProperties
<1>2. \A i \in 1 .. Len(s) : s[i] \in ToSet(s)
  BY <1>1 DEF ToSet
<1>3. s \in [1 .. Len(s) -> ToSet(s)]
  BY <1>1, <1>2
<1> QED
  BY <1>1, <1>3 DEF IsSequence

\* Where the links in a path lead is a path.
LEMMA ResolvedIsPath ==
  ASSUME NEW path, IsSequence(path), NEW real,
         <<>> \in DOMAIN real, \A p \in DOMAIN real : IsSequence(real[p])
  PROVE  IsSequence(Resolved(path, real))
<1> DEFINE T == {k \in 0 .. Len(path) : SubSeq(path, 1, k) \in DOMAIN real}
           n == Max(T)
           first == real[SubSeq(path, 1, n)]
           rest == SubSeq(path, n + 1, Len(path))
           S == ToSet(first) \cup ToSet(path)
<1>1. path \in Seq(ToSet(path)) /\ Len(path) \in Nat
  BY LenProperties DEF IsSequence
<1>2. 0 \in T
  <2>1. SubSeq(path, 1, 0) = <<>>
    BY <1>1, SubSeqEmpty
  <2>2. SubSeq(path, 1, 0) \in DOMAIN real
    BY <2>1, Zenon
  <2>3. 0 \in 0 .. Len(path)
    BY <1>1
  <2> QED
    BY <2>2, <2>3, Zenon
<1>3. n \in T
  <2> DEFINE U == T \ {0}
             len == Len(path)
  <2>1. len \in Nat /\ U \in SUBSET (1 .. len)
    BY <1>1
  <2>2. \A k \in T : k = 0 \/ k \in U
    OBVIOUS
  <2>3. T \subseteq Nat
    BY <1>1
  <2> HIDE DEF T, U, len
  <2>4. CASE U = {}
    BY <1>2, <2>2, <2>4 DEF Max
  <2>5. CASE U # {}
    <3>1. Max(U) \in U /\ \A k \in U : Max(U) >= k
      BY <2>1, <2>5, GreatestPlace
    <3> DEFINE m == Max(U)
    <3>2. m \in T /\ m \in Nat
      BY <2>1, <3>1 DEF U
    <3> HIDE DEF m
    <3>3. \A k \in T : m >= k
      BY <2>2, <2>3, <3>1, <3>2 DEF m
    <3>4. \E x \in T : \A y \in T : x >= y
      BY <3>2, <3>3
    <3> QED
      BY <3>4, Zenon DEF Max
  <2> QED
    BY <2>4, <2>5
<1>4. n \in 0 .. Len(path) /\ SubSeq(path, 1, n) \in DOMAIN real
  BY <1>3
<1> HIDE DEF T, n
<1>5. IsSequence(first)
  BY <1>4
<1> HIDE DEF first
<1>6. rest \in Seq(ToSet(path))
  <2>1. \A i \in n + 1 .. Len(path) : path[i] \in ToSet(path)
    BY <1>1, <1>4
  <2>2. n + 1 \in Int /\ Len(path) \in Int
    BY <1>1, <1>4
  <2> QED
    BY <2>1, <2>2, SubSeqProperties
<1> HIDE DEF rest
<1>7. first \in Seq(S) /\ rest \in Seq(S)
  BY <1>5, <1>6, SeqMonotonic DEF IsSequence
<1>8. first \o rest \in Seq(S)
  BY <1>7, ConcatProperties
<1>9. Resolved(path, real) = first \o rest
  BY Zenon DEF Resolved, first, rest, n, T
<1> QED
  BY <1>8, <1>9, AreElements, Zenon

\* The packages that a list of imports gives a name to.
Named(x, imps, env) == {imp.path : imp \in {i \in ToSet(imps) : NameOf(i, env) = x}}

\* A name is a package's that is not named as its path suggests, or one that
\* the package may be taken to have.
Misled(x, imps, env) ==
  \E imp \in ToSet(imps) : /\ imp.name = "" /\ ~ Suggests(imp.path, env.packageName[imp.path])
                          /\ x \in {env.packageName[imp.path]} \cup ToSet(imp.path)

\* The name a path is taken for is part of it, and the one that it suggests.
LEMMA AliasOfPath ==
  ASSUME NEW path, IsSequence(path), path # <<>>
  PROVE  /\ DefaultPackageAlias(path) \in ToSet(path)
         /\ \A name : Suggests(path, name) => DefaultPackageAlias(path) = name
<1> DEFINE N == Len(path)
<1>1. path \in Seq(ToSet(path)) /\ N \in Nat /\ N # 0 /\ \A i \in 1 .. N : path[i] \in ToSet(path)
  BY EmptySeq, LenProperties DEF IsSequence
<1>2. Last(path) = path[N]
  BY Zenon DEF Last
<1>3. N > 1 => Last(Front(path)) = path[N - 1]
  <2> SUFFICES ASSUME N > 1 PROVE Last(Front(path)) = path[N - 1]
    OBVIOUS
  <2> DEFINE m == N - 1
             front == SubSeq(path, 1, m)
  <2>1. m \in Int /\ 1 <= m /\ \A i \in 1 .. m : path[i] \in ToSet(path)
    BY <1>1
  <2>2. Front(path) = front
    BY Zenon DEF Front
  <2> HIDE DEF m
  <2>3. Len(front) = m /\ front[m] = path[m]
    BY <2>1, SubSeqProperties
  <2> HIDE DEF front
  <2>4. Last(Front(path)) = path[m]
    BY <2>2, <2>3, Zenon DEF Last
  <2> QED
    BY <2>4 DEF m
<1> HIDE DEF N
<1>4. DefaultPackageAlias(path)
        = IF path[N] \in Versions /\ N > 1 THEN Last(Front(path)) ELSE path[N]
  BY <1>2, Zenon DEF DefaultPackageAlias, N
<1>5. DefaultPackageAlias(path)
        = IF path[N] \in Versions /\ N > 1 THEN path[N - 1] ELSE path[N]
  BY <1>3, <1>4
<1>6. \A name : Suggests(path, name)
                 <=> \/ path[N] = name /\ (name \notin Versions \/ N = 1)
                     \/ path[N] \in Versions /\ N > 1 /\ path[N - 1] = name
  BY <1>2, Zenon DEF Suggests, N
<1>7. N \in 1 .. N /\ (N > 1 => N - 1 \in 1 .. N) /\ (N = 1 => ~ (N > 1))
  BY <1>1
<1> DEFINE alias == DefaultPackageAlias(path)
<1>8. alias \in ToSet(path)
  BY <1>1, <1>5, <1>7, Zenon
<1> HIDE DEF alias
<1>9. ASSUME NEW name, Suggests(path, name) PROVE alias = name
  <2>1. CASE path[N] = name /\ (name \notin Versions \/ N = 1)
    BY <1>5, <1>7, <2>1, Zenon DEF alias
  <2>2. CASE path[N] \in Versions /\ N > 1 /\ path[N - 1] = name
    BY <1>5, <2>2, Zenon DEF alias
  <2> QED
    BY <1>6, <1>9, <2>1, <2>2, Zenon
<1> QED
  BY <1>8, <1>9, Zenon DEF alias

\* Any other name is taken for what it is.
LEMMA AliasesAreNames ==
  ASSUME NEW imp, IsSequence(imp.path), imp.path # <<>>, NEW env, NEW x,
         imp.name = "" /\ ~ Suggests(imp.path, env.packageName[imp.path])
           => x \notin {env.packageName[imp.path]} \cup ToSet(imp.path)
  PROVE  ImportAlias(imp) = x <=> NameOf(imp, env) = x
<1>1. CASE imp.name # ""
  BY <1>1, Zenon DEF ImportAlias, NameOf
<1>2. CASE imp.name = ""
  <2> DEFINE name == env.packageName[imp.path]
             alias == DefaultPackageAlias(imp.path)
  <2>1. ImportAlias(imp) = alias /\ NameOf(imp, env) = name
    BY <1>2, Zenon DEF ImportAlias, NameOf
  <2>2. alias \in ToSet(imp.path) /\ (Suggests(imp.path, name) => alias = name)
    BY AliasOfPath, Zenon
  <2>3. ~ Suggests(imp.path, name) => x # name /\ x \notin ToSet(imp.path)
    BY <1>2, Zenon
  <2> HIDE DEF name, alias
  <2> QED
    BY <2>1, <2>2, <2>3, Zenon
<1> QED
  BY <1>1, <1>2

\* What the file's imports are collected under is what Go knows them by.
LEMMA CollectedAreNamed ==
  ASSUME NEW imps, NEW env, Importable(imps, env), NEW x, x \notin Nameless, ~ Misled(x, imps, env)
  PROVE  /\ x \in DOMAIN CollectImports(imps) <=> Named(x, imps, env) # {}
         /\ x \in DOMAIN CollectImports(imps) =>
              Named(x, imps, env) = {CollectImports(imps)[x]}
<1> DEFINE at == {k \in DOMAIN imps : ImportAlias(imps[k]) = x}
           names == {ImportAlias(imps[k]) : k \in DOMAIN imps} \ {"_", "."}
<1>1. imps \in Seq(ToSet(imps))
  BY Zenon DEF Importable, IsSequence
<1>2. Len(imps) \in Nat /\ DOMAIN imps = 1 .. Len(imps)
  BY <1>1, LenProperties
<1>3. ToSet(imps) = {imps[k] : k \in DOMAIN imps}
  BY Zenon DEF ToSet
<1>4. \A k \in DOMAIN imps : ImportAlias(imps[k]) = x <=> NameOf(imps[k], env) = x
  <2> SUFFICES ASSUME NEW imp \in ToSet(imps)
               PROVE  ImportAlias(imp) = x <=> NameOf(imp, env) = x
    BY <1>3
  <2>1. IsSequence(imp.path) /\ imp.path # <<>>
    BY Zenon DEF Importable
  <2>2. imp.name = "" /\ ~ Suggests(imp.path, env.packageName[imp.path])
          => x \notin {env.packageName[imp.path]} \cup ToSet(imp.path)
    BY Zenon DEF Misled
  <2> QED
    BY <2>1, <2>2, AliasesAreNames, Zenon
<1>5. DOMAIN CollectImports(imps) = names
  BY Zenon DEF CollectImports
<1>6. x \in names <=> at # {}
  BY Zenon DEF Nameless
<1>7. at # {} <=> Named(x, imps, env) # {}
  BY <1>3, <1>4 DEF Named
<1>8. ASSUME at # {} PROVE Named(x, imps, env) = {CollectImports(imps)[x]}
  <2>1. at \in SUBSET (1 .. Len(imps))
    BY <1>2
  <2>2. Max(at) \in at
    BY <1>2, <1>8, <2>1, GreatestPlace
  <2>3. CollectImports(imps)[x] = imps[Max(at)].path
    BY <1>6, <1>8, Zenon DEF CollectImports
  <2> DEFINE last == imps[Max(at)]
  <2>4. last \in ToSet(imps) /\ NameOf(last, env) = x
    BY <1>3, <1>4, <2>2
  <2> HIDE DEF last
  <2>5. \A i \in ToSet(imps) : NameOf(i, env) = x => i.path = last.path
    BY <2>4, Zenon DEF Importable
  <2>6. Named(x, imps, env) = {last.path}
    BY <2>4, <2>5 DEF Named
  <2> QED
    BY <2>3, <2>6 DEF last
<1> QED
  BY <1>5, <1>6, <1>7, <1>8, Zenon

\* The project's packages of a name.
Packages(x, env) ==
  {env.module \o f.dir : f \in {g \in ToSet(env.tree) : /\ ~ g.skipped
                                                 /\ g.package = x /\ x # "main"}}

LEMMA SiblingsAreMeant ==
  ASSUME NEW env, NEW x, IsSequence(env.tree), env.module # <<>>
  PROVE  LET siblings == ReadSiblingPackages(env.tree, env.module)
         IN /\ x \in DOMAIN siblings <=> Packages(x, env) # {}
            /\ x \in DOMAIN siblings => siblings[x] \in Packages(x, env)
<1> DEFINE tree == env.tree
           siblings == ReadSiblingPackages(env.tree, env.module)
           files == {k \in DOMAIN tree : ~ tree[k].skipped /\ tree[k].package # "main"}
           names == {tree[k].package : k \in files}
           at == {k \in files : tree[k].package = x}
<1>1. Len(tree) \in Nat /\ DOMAIN tree = 1 .. Len(tree)
  BY LenProperties DEF IsSequence
<1>2. ToSet(tree) = {tree[k] : k \in DOMAIN tree}
  BY Zenon DEF ToSet
<1>3. DOMAIN siblings = names
  BY Zenon DEF ReadSiblingPackages
<1>4. x \in names <=> at # {}
  OBVIOUS
<1>5. \A k \in DOMAIN tree : k \in at <=> ~ tree[k].skipped /\ tree[k].package = x /\ x # "main"
  BY Zenon
<1>6. at # {} <=> Packages(x, env) # {}
  <2>1. at # {} <=> \E k \in DOMAIN tree :
                        ~ tree[k].skipped /\ tree[k].package = x /\ x # "main"
    BY <1>5, Zenon
  <2>2. Packages(x, env) # {} <=> \E f \in ToSet(tree) :
                                 ~ f.skipped /\ f.package = x /\ x # "main"
    BY Zenon DEF Packages
  <2> QED
    BY <1>2, <2>1, <2>2, Zenon
<1>7. ASSUME at # {} PROVE siblings[x] \in Packages(x, env)
  <2>1. at \in SUBSET Nat
    BY <1>1
  <2>2. Min(at) \in at
    BY <1>7, <2>1, LeastPlace
  <2>3. siblings[x] = env.module \o tree[Min(at)].dir
    BY <1>4, <1>7, Zenon DEF ReadSiblingPackages
  <2> QED
    BY <1>2, <1>5, <2>2, <2>3, Zenon DEF Packages
<1> QED
  BY <1>3, <1>4, <1>6, <1>7

\* All of them are in the project.
LEMMA PackagesAreTracked ==
  ASSUME NEW env, NEW x, IsSequence(env.module), IsSequence(env.tree),
         \A k \in DOMAIN env.tree : IsSequence(env.tree[k].dir),
         NEW path \in Packages(x, env)
  PROVE  IsPrefix(env.module, path)
<1>1. PICK k \in DOMAIN env.tree : path = env.module \o env.tree[k].dir
  BY DEF Packages, ToSet
<1> DEFINE m == env.module
           d == env.tree[k].dir
           S == ToSet(m) \cup ToSet(d)
<1>2. m \in Seq(ToSet(m)) /\ d \in Seq(ToSet(d))
  BY DEF IsSequence
<1>3. m \in Seq(S) /\ d \in Seq(S)
  BY <1>2, SeqMonotonic
<1> HIDE DEF m, d, S
<1>4. Len(m) \in Nat /\ Len(d) \in Nat /\ Len(m \o d) = Len(m) + Len(d)
  BY <1>3, LenProperties, ConcatProperties
<1>5. SubSeq(m \o d, 0 + 1, Len(m)) = SubSeq(m, 0 + 1, Len(m))
  BY <1>3, <1>4, StartOfConcat
<1>6. IsPrefix(m, m \o d)
  BY <1>4, <1>5 DEF IsPrefix
<1> QED
  BY <1>1, <1>6 DEF m, d

\* A name stands for a package of the project in the guard's eyes exactly when
\* it does in Go's.
LEMMA TrackedIsMeant ==
  ASSUME NEW e \in Edits, NEW env \in Environments, NEW x, x \notin Nameless,
         ~ Misguided(x, e, env)
  PROVE  LET aliases == Aliases(e.content, env)
         IN x \in DOMAIN aliases /\ IsTrackedImport(aliases[x], env.module)
              <=> \E path \in PackagesMeant(x, e, env) :
                    env.module # <<>> /\ IsPrefix(env.module, path)
<1> DEFINE own == CollectImports(Imports(e.content))
           file == CollectImports(env.fileImports)
           siblings == ReadSiblingPackages(env.tree, env.module)
           aliases == Aliases(e.content, env)
           first == Named(x, Imports(e.content), env)
           second == Named(x, env.fileImports, env)
           third == Packages(x, env)
           meant == PackagesMeant(x, e, env)
           InProject(path) == env.module # <<>> /\ IsPrefix(env.module, path)
<1> SUFFICES x \in DOMAIN aliases /\ IsTrackedImport(aliases[x], env.module)
               <=> \E path \in meant : InProject(path)
  BY Zenon
<1>1. /\ Importable(Imports(e.content), env) /\ Importable(env.fileImports, env)
      /\ IsSequence(env.module) /\ IsSequence(env.tree)
      /\ \A k \in DOMAIN env.tree : IsSequence(env.tree[k].dir)
  BY EditAssumption, Zenon
<1>12. ~ Misled(x, Imports(e.content), env) /\ ~ Misled(x, env.fileImports, env)
  BY Zenon DEF Misguided, Misled
<1>2. /\ x \in DOMAIN own <=> first # {}
      /\ x \in DOMAIN own => first = {own[x]}
  BY <1>1, <1>12, CollectedAreNamed, Zenon
<1>3. /\ x \in DOMAIN file <=> second # {}
      /\ x \in DOMAIN file => second = {file[x]}
  BY <1>1, <1>12, CollectedAreNamed, Zenon
<1>4. env.module # <<>> => /\ x \in DOMAIN siblings <=> third # {}
                           /\ x \in DOMAIN siblings => siblings[x] \in third
  BY <1>1, SiblingsAreMeant
<1>5. \A path \in third : IsPrefix(env.module, path)
  BY <1>1, PackagesAreTracked
<1>6. meant = IF first # {} THEN first ELSE IF second # {} THEN second ELSE third
  BY Zenon DEF PackagesMeant, Named, Packages
<1>7. /\ x \in DOMAIN aliases <=> x \in DOMAIN own \/ x \in DOMAIN file \/ x \in DOMAIN siblings
      /\ x \in DOMAIN aliases =>
           aliases[x] = IF x \in DOMAIN own THEN own[x]
                        ELSE IF x \in DOMAIN file THEN file[x] ELSE siblings[x]
  <2> DEFINE imports == Extended(own, file)
  <2>1. DOMAIN imports = DOMAIN own \cup DOMAIN file
    BY Zenon DEF Extended
  <2>2. \A y \in DOMAIN imports : imports[y] = IF y \in DOMAIN own THEN own[y] ELSE file[y]
    BY Zenon DEF Extended
  <2>3. aliases = Extended(imports, siblings)
    BY Zenon DEF Aliases
  <2> HIDE DEF imports, siblings, own, file, aliases
  <2>4. DOMAIN aliases = DOMAIN imports \cup DOMAIN siblings
    BY <2>3, Zenon DEF Extended
  <2>5. \A y \in DOMAIN aliases :
          aliases[y] = IF y \in DOMAIN imports THEN imports[y] ELSE siblings[y]
    BY <2>3, <2>4, Zenon DEF Extended
  <2> QED
    BY <2>1, <2>2, <2>4, <2>5, Zenon
<1>8. \A path : IsTrackedImport(path, env.module) <=> InProject(path)
  BY Zenon DEF IsTrackedImport
<1> HIDE DEF own, file, siblings, aliases, first, second, third, meant, InProject
<1>9. CASE x \in DOMAIN own
  <2>1. meant = {own[x]} /\ x \in DOMAIN aliases /\ aliases[x] = own[x]
    BY <1>2, <1>6, <1>7, <1>9, Zenon
  <2> QED
    BY <1>8, <2>1, Zenon
<1>10. CASE x \notin DOMAIN own /\ x \in DOMAIN file
  <2>1. meant = {file[x]} /\ x \in DOMAIN aliases /\ aliases[x] = file[x]
    BY <1>2, <1>3, <1>6, <1>7, <1>10, Zenon
  <2> QED
    BY <1>8, <2>1, Zenon
<1>11. CASE x \notin DOMAIN own /\ x \notin DOMAIN file
  <2>1. meant = third
    BY <1>2, <1>3, <1>6, <1>11
  <2>2. CASE env.module = <<>>
    BY <1>8, <2>2 DEF InProject
  <2>3. CASE env.module # <<>>
    BY <1>4, <1>5, <1>7, <1>8, <1>11, <2>1, <2>3 DEF InProject
  <2> QED
    BY <2>2, <2>3
<1> QED
  BY <1>9, <1>10, <1>11, Zenon

\* The references of some content that are looked up in vain: those that Go
\* takes for what nothing is called, but for the packages it is misguided about.
LEMMA FabricatedAreUnknown ==
  ASSUME NEW e \in Edits, NEW env \in Environments
  PROVE  LET refs == UNION {e.content[k].refs : k \in DOMAIN e.content}
         IN /\ env.store = "open" =>
                 /\ (\E r \in refs : Unknown(r, e, env) /\ ~ Misguided(r.x, e, env))
                      => Fabricated(e.content, env) # {}
                 /\ Fabricated(e.content, env) # {}
                      => \E r \in refs : \/ Unknown(r, e, env)
                                         \/ Misguided(r.x, e, env) /\ r.sel \notin env.symbols
            /\ env.store = "none" => Fabricated(e.content, env) = {}
            /\ env.store = "failing" =>
                 (Fabricated(e.content, env) # {} => Asked(e.content, env) # {})
<1> DEFINE refs == UNION {e.content[k].refs : k \in DOMAIN e.content}
           aliases == Aliases(e.content, env)
           tracked(r) == r.x \in DOMAIN aliases /\ IsTrackedImport(aliases[r.x], env.module)
<1>1. \A r \in refs : r.x \notin Nameless
  BY EditAssumption, Zenon
<1>2. \A r \in refs : ~ Misguided(r.x, e, env) =>
                         (Unknown(r, e, env) <=> tracked(r) /\ r.sel \notin env.symbols)
  <2> SUFFICES ASSUME NEW r \in refs, ~ Misguided(r.x, e, env)
               PROVE  Unknown(r, e, env) <=> tracked(r) /\ r.sel \notin env.symbols
    BY Zenon
  <2>1. tracked(r) <=> \E path \in PackagesMeant(r.x, e, env) :
                         env.module # <<>> /\ IsPrefix(env.module, path)
    BY <1>1, TrackedIsMeant
  <2> QED
    BY <2>1, Zenon DEF Unknown
<1>3. Asked(e.content, env) = {r \in refs : tracked(r)}
  BY Zenon DEF Asked
<1>4. env.store = "open" =>
        Fabricated(e.content, env) = {r \in Asked(e.content, env) : r.sel \notin env.symbols}
  BY DEF Fabricated
<1>5. env.store = "none" => Fabricated(e.content, env) = {}
  BY DEF Fabricated
<1>6. Fabricated(e.content, env) \subseteq Asked(e.content, env)
  BY DEF Fabricated
<1> HIDE DEF refs, tracked
<1>7. env.store = "open" =>
        ((\E r \in refs : Unknown(r, e, env) /\ ~ Misguided(r.x, e, env))
           => Fabricated(e.content, env) # {})
  BY <1>2, <1>3, <1>4, Zenon
<1>8. env.store = "open" =>
        (Fabricated(e.content, env) # {}
           => \E r \in refs : \/ Unknown(r, e, env)
                              \/ Misguided(r.x, e, env) /\ r.sel \notin env.symbols)
  BY <1>2, <1>3, <1>4, Zenon
<1>9. Fabricated(e.content, env) # {} => Asked(e.content, env) # {}
  BY <1>6, Zenon
<1> QED
  BY <1>5, <1>7, <1>8, <1>9, Zenon DEF refs

\* What is the operator's to edit is taken for it, and a command that names the
\* operator's directory may be.
LEMMA OperatorsOwnLeads ==
  ASSUME NEW e \in Edits, NEW env \in Environments
  PROVE  LET command == IF e.tool = "Bash" THEN e.command ELSE <<>>
         IN /\ IsOperators(e, env) => OperatorsOwn(e, env)
            /\ (\E k \in DOMAIN command : PlainlyNamesDir(command, k)) => OperatorsOwn(e, env)
            /\ OperatorsOwn(e, env) => \/ IsOperators(e, env)
                                       \/ \E k \in DOMAIN command : NamesDir(command, k)
<1> DEFINE command == IF e.tool = "Bash" THEN e.command ELSE <<>>
<1>1. /\ IsSequence(e.path) /\ IsSequence(e.command)
      /\ <<>> \in DOMAIN env.real /\ \A path \in DOMAIN env.real : IsSequence(env.real[path])
  BY EditAssumption, Zenon
<1>2. IsSequence(Resolved(e.path, env.real))
  BY <1>1, ResolvedIsPath, Zenon
<1>3. /\ IsUnderLeonardDir(e.path) <=> LeadsInto(e.path)
      /\ IsUnderLeonardDir(Resolved(e.path, env.real)) <=> LeadsInto(Resolved(e.path, env.real))
  BY <1>1, <1>2, CleanedLeads, Zenon
<1>4. OperatorsOwn(e, env)
        <=> IsOperators(e, env) \/ (e.tool = "Bash" /\ BashTouchesLeonardDir(e.command))
  BY <1>3, Zenon DEF OperatorsOwn, IsUnderLeonardDirResolved, IsOperators
<1>5. DOMAIN <<>> = {}
  OBVIOUS
<1>6. \A k \in DOMAIN e.command :
        PlainlyNamesDir(e.command, k) => BashTouchesLeonardDir(e.command)
  <2> DEFINE c == e.command
             N == Len(c)
  <2>1. N \in Nat /\ DOMAIN c = 1 .. N
    BY <1>1, LenProperties DEF IsSequence
  <2> HIDE DEF c, N
  <2> SUFFICES ASSUME NEW k \in DOMAIN c, PlainlyNamesDir(c, k) PROVE BashTouchesLeonardDir(c)
    BY Zenon DEF c
  <2>2. c[k] \in LeonardDir
    BY Zenon DEF PlainlyNamesDir, NamesDir
  <2>3. CASE k + 1 \in DOMAIN c /\ c[k + 1] = "/"
    <3>1. k < N
      BY <2>1, <2>3
    <3> QED
      BY <2>2, <2>3, <3>1, Zenon DEF BashTouchesLeonardDir, N
  <2>4. CASE \A n \in {k - 1, k + 1} \cap DOMAIN c : c[n] = " "
    <3>1. PieceIn(c, k - 1, {" "}) /\ PieceIn(c, k + 1, {" "})
      BY <2>4, Zenon DEF PieceIn
    <3> QED
      BY <2>2, <3>1, Zenon DEF BashTouchesLeonardDir
  <2>5. CASE k > 1 /\ k = N /\ c[k - 1] = "/"
    <3>1. k + 1 \notin DOMAIN c
      BY <2>1, <2>5
    <3>2. PieceIn(c, k - 1, {"/"}) /\ PieceIn(c, k + 1, {"/"})
      BY <2>5, <3>1, Zenon DEF PieceIn
    <3> QED
      BY <2>2, <3>2, Zenon DEF BashTouchesLeonardDir
  <2> QED
    BY <2>3, <2>4, <2>5, Zenon DEF PlainlyNamesDir, N
<1>7. BashTouchesLeonardDir(e.command) => \E k \in DOMAIN e.command : NamesDir(e.command, k)
  BY Zenon DEF BashTouchesLeonardDir, NamesDir
<1>8. CASE e.tool = "Bash"
  <2>1. command = e.command
    BY <1>8
  <2> HIDE DEF command
  <2>2. /\ IsOperators(e, env) => OperatorsOwn(e, env)
        /\ (\E k \in DOMAIN command : PlainlyNamesDir(command, k)) => OperatorsOwn(e, env)
        /\ OperatorsOwn(e, env) => \/ IsOperators(e, env)
                                   \/ \E k \in DOMAIN command : NamesDir(command, k)
    BY <1>4, <1>6, <1>7, <1>8, <2>1, Zenon
  <2> QED
    BY <2>2, Zenon DEF command
<1>9. CASE e.tool # "Bash"
  <2>1. command = <<>>
    BY <1>9
  <2> HIDE DEF command
  <2>2. /\ IsOperators(e, env) => OperatorsOwn(e, env)
        /\ (\E k \in DOMAIN command : PlainlyNamesDir(command, k)) => OperatorsOwn(e, env)
        /\ OperatorsOwn(e, env) => \/ IsOperators(e, env)
                                   \/ \E k \in DOMAIN command : NamesDir(command, k)
    BY <1>4, <1>5, <1>9, <2>1, Zenon
  <2> QED
    BY <2>2, Zenon DEF command
<1> QED
  BY <1>8, <1>9

LEMMA EditVerdict ==
  ASSUME NEW e \in Edits, NEW env \in Environments, e.tool # "MultiEdit"
  PROVE  LET refs == UNION {e.content[k].refs : k \in DOMAIN e.content}
             verdict == CodeAdapterPreEdit(e, env)
             other == OperatorsOwn(e, env) \/ Len(e.content) > env.maxSnippet
         IN /\ \/ other
               \/ /\ Checked(e, env)
                  /\ \E r \in refs : Unknown(r, e, env) /\ ~ Misguided(r.x, e, env)
               => verdict = "deny"
            /\ verdict = "deny" =>
                 \/ other
                 \/ /\ Checked(e, env)
                    /\ \E r \in refs : \/ Unknown(r, e, env)
                                       \/ Misguided(r.x, e, env) /\ r.sel \notin env.symbols
<1> DEFINE p == [tool |-> e.tool, path |-> e.path, go |-> e.go, command |-> e.command,
                 content |-> PreEditContent(e), edits |-> <<>>]
           refs == UNION {e.content[k].refs : k \in DOMAIN e.content}
           snippets == SnippetsForTool(p)
           scanned == {s \in ToSet(snippets) : s # <<>> /\ Parses(s)}
           lookups == UNION {Asked(s, env) : s \in scanned}
           unknown == \E r \in refs : Unknown(r, e, env) /\ ~ Misguided(r.x, e, env)
           doubtful == \E r \in refs : \/ Unknown(r, e, env)
                                       \/ Misguided(r.x, e, env) /\ r.sel \notin env.symbols
           parses == Parses(e.content)
           fabricated == /\ ~ (env.store = "failing" /\ lookups # {})
                         /\ \E s \in scanned : Fabricated(s, env) # {}
<1>1. /\ e.tool \in {"Edit", "Write", "NotebookEdit", "Bash"} /\ e.edits = <<>>
      /\ e.tool = "Bash" => e.content = <<>>
      /\ env.maxSnippet \in Nat /\ env.maxEdits \in Nat \ {0}
      /\ env.store \in {"open", "none", "failing"}
      /\ e.content \in Seq(ToSet(e.content))
  BY EditAssumption DEF IsSequence
<1>2. PreEditContent(e) = e.content
  <2>1. Len(<<>>) = 0
    OBVIOUS
  <2>2. FlattenSeq(<<>>) = <<>>
    BY <2>1, Zenon DEF FlattenSeq
  <2> QED
    BY <1>1, <2>2, Zenon DEF PreEditContent
<1>3. snippets = IF e.tool = "Bash" THEN <<>> ELSE << e.content >>
  BY <1>1, <1>2 DEF SnippetsForTool
<1>4. /\ e.tool = "Bash" => ToSet(snippets) = {} /\ Len(snippets) = 0
      /\ e.tool # "Bash" => ToSet(snippets) = {e.content} /\ Len(snippets) = 1
  BY <1>3 DEF ToSet
<1>5. OperatorsOwn(p, env) <=> OperatorsOwn(e, env)
  BY Zenon DEF OperatorsOwn
<1>6. OverSize(p, env) <=> Len(e.content) > env.maxSnippet
  <2>1. e.tool = "Bash" => Len(e.content) = 0
    BY <1>1
  <2> HIDE DEF p, snippets
  <2>2. OverSize(p, env) <=> \/ Len(snippets) > env.maxEdits
                            \/ \E s \in ToSet(snippets) : Len(s) > env.maxSnippet
    BY Zenon DEF OverSize, snippets
  <2>3. Len(e.content) \in Nat
    BY <1>1
  <2>4. CASE e.tool = "Bash"
    <3>1. Len(snippets) = 0 /\ \A s \in ToSet(snippets) : FALSE
      BY <1>4, <2>4
    <3>2. ~ (Len(snippets) > env.maxEdits) /\ ~ (Len(e.content) > env.maxSnippet)
      BY <1>1, <2>1, <2>4, <3>1
    <3> QED
      BY <2>2, <3>1, <3>2, Zenon
  <2>5. CASE e.tool # "Bash"
    <3>1. Len(snippets) = 1 /\ ToSet(snippets) = {e.content}
      BY <1>4, <2>5
    <3>2. ~ (Len(snippets) > env.maxEdits)
      BY <1>1, <3>1
    <3> QED
      BY <2>2, <3>1, <3>2, Zenon
  <2> QED
    BY <2>4, <2>5
<1>7. p.go = e.go /\ p.path = e.path
  OBVIOUS
<1>8. CodeAdapterPreEdit(e, env) = "deny"
        <=> \/ OperatorsOwn(p, env) \/ OverSize(p, env)
            \/ p.go /\ IsPrefix(env.root, Resolved(p.path, env.real)) /\ fabricated
  <2>1. CodeAdapterPreEdit(e, env) = DecidePreEdit(p, env)
    BY Zenon DEF CodeAdapterPreEdit
  <2> HIDE DEF p
  <2>2. "deny" # "pass"
    OBVIOUS
  <2>3. DecidePreEdit(p, env) = "deny"
          <=> \/ OperatorsOwn(p, env) \/ OverSize(p, env)
              \/ p.go /\ IsPrefix(env.root, Resolved(p.path, env.real)) /\ fabricated
    BY <2>2, Zenon DEF DecidePreEdit
  <2> QED
    BY <2>1, <2>3, Zenon
<1>9. e.content = <<>> => refs = {}
  OBVIOUS
<1>10. /\ parses /\ env.store = "open" /\ unknown => fabricated
       /\ fabricated => parses /\ env.store = "open" /\ doubtful
  <2> HIDE DEF snippets, refs, unknown, doubtful
  <2>1. CASE e.content = <<>>
    <3>1. \A s \in ToSet(snippets) : s = <<>>
      BY <1>4, <2>1
    <3>2. scanned = {}
      BY <3>1, Zenon
    <3>3. ~ unknown
      BY <1>9, <2>1, Zenon DEF unknown
    <3> QED
      BY <3>2, <3>3, Zenon
  <2>2. CASE e.content # <<>>
    <3>1. e.tool # "Bash"
      BY <1>1, <2>2
    <3>2. ToSet(snippets) = {e.content}
      BY <1>4, <3>1
    <3>3. /\ env.store = "open" => /\ unknown => Fabricated(e.content, env) # {}
                                   /\ Fabricated(e.content, env) # {} => doubtful
          /\ env.store = "none" => Fabricated(e.content, env) = {}
          /\ env.store = "failing" =>
               (Fabricated(e.content, env) # {} => Asked(e.content, env) # {})
      BY FabricatedAreUnknown, Zenon DEF refs, unknown, doubtful
    <3> HIDE DEF parses
    <3>4. CASE ~ parses
      <4>1. scanned = {}
        BY <3>2, <3>4, Zenon DEF parses
      <4> QED
        BY <3>4, <4>1, Zenon
    <3>5. CASE parses
      <4>1. scanned = {e.content}
        BY <2>2, <3>2, <3>5, Zenon DEF parses
      <4> HIDE DEF scanned
      <4>2. lookups = Asked(e.content, env)
        BY <4>1
      <4> HIDE DEF lookups
      <4>3. fabricated <=> /\ ~ (env.store = "failing" /\ Asked(e.content, env) # {})
                           /\ Fabricated(e.content, env) # {}
        BY <4>1, <4>2, Zenon
      <4> QED
        BY <1>1, <3>3, <3>5, <4>3
    <3> QED
      BY <3>4, <3>5, Zenon
  <2> QED
    BY <2>1, <2>2
<1> HIDE DEF p, refs, snippets, scanned, lookups, fabricated, unknown, doubtful, parses
<1>11. Checked(e, env) <=> e.go /\ IsPrefix(env.root, Resolved(e.path, env.real)) /\ parses
                             /\ env.store = "open"
  BY Zenon DEF Checked, parses
<1>12. /\ \/ OperatorsOwn(e, env) \/ Len(e.content) > env.maxSnippet
          \/ Checked(e, env) /\ unknown
          => CodeAdapterPreEdit(e, env) = "deny"
       /\ CodeAdapterPreEdit(e, env) = "deny"
          => \/ OperatorsOwn(e, env) \/ Len(e.content) > env.maxSnippet
             \/ Checked(e, env) /\ doubtful
  BY <1>5, <1>6, <1>7, <1>8, <1>10, <1>11, Zenon
<1> QED
  BY <1>12, Zenon DEF refs, unknown, doubtful

\* What was answered is the guard's answer to the edit examined.
JudgedInv ==
  \E e \in Edits, env \in Environments :
    /\ input = [form |-> "edit", edit |-> e, env |-> env]
    /\ done => answer = CodeAdapterPreEdit(e, env)

\* EditChecks: for any project, any packages in it whatever their names, any
\* imports in the edit and in the file, and any path with any links in it, the
\* guard denies the edits of the operator's directory, and the references to the
\* project that nothing in the index is called, as Go resolves them; and nothing
\* else but where a package is not named as its path suggests, or a command
\* names the directory.
THEOREM EditsAreJudgedRight == EditSpec => []EditsAreJudged
<1>1. EditInit => JudgedInv
  BY DEF EditInit, EditInput, JudgedInv
<1>2. JudgedInv /\ [JudgeEdit]_examVars => JudgedInv'
  <2> SUFFICES ASSUME JudgedInv, [JudgeEdit]_examVars PROVE JudgedInv'
    OBVIOUS
  <2>1. PICK e \in Edits, env \in Environments :
               /\ input = [form |-> "edit", edit |-> e, env |-> env]
               /\ done => answer = CodeAdapterPreEdit(e, env)
    BY DEF JudgedInv
  <2>2. CASE JudgeEdit
    <3>1. input.edit = e /\ input.env = env
      BY <2>1
    <3>2. input' = input /\ answer' = CodeAdapterPreEdit(input.edit, input.env)
      BY <2>2, Zenon DEF JudgeEdit, Answer
    <3>3. /\ input' = [form |-> "edit", edit |-> e, env |-> env]
          /\ answer' = CodeAdapterPreEdit(e, env)
      BY <2>1, <3>1, <3>2, Zenon
    <3> QED
      BY <3>3, Zenon DEF JudgedInv
  <2>3. CASE UNCHANGED examVars
    <3>1. input' = input /\ done' = done /\ answer' = answer
      BY <2>3 DEF examVars
    <3>2. /\ input' = [form |-> "edit", edit |-> e, env |-> env]
          /\ done' => answer' = CodeAdapterPreEdit(e, env)
      BY <2>1, <3>1, Zenon
    <3> QED
      BY <3>2, Zenon DEF JudgedInv
  <2> QED
    BY <2>2, <2>3
<1>3. JudgedInv => EditsAreJudged
  <2> SUFFICES ASSUME JudgedInv, done, input.edit.tool # "MultiEdit" PROVE EditsAreJudged
    BY Zenon DEF EditsAreJudged, Done
  <2>1. PICK e \in Edits, env \in Environments :
               /\ input = [form |-> "edit", edit |-> e, env |-> env]
               /\ answer = CodeAdapterPreEdit(e, env)
    BY DEF JudgedInv
  <2>2. input.edit = e /\ input.env = env
    BY <2>1
  <2>3. e.tool # "MultiEdit"
    BY <2>2
  <2> DEFINE refs == UNION {e.content[k].refs : k \in DOMAIN e.content}
             command == IF e.tool = "Bash" THEN e.command ELSE <<>>
             oversize == Len(e.content) > env.maxSnippet
             unknown == \E r \in refs : Unknown(r, e, env) /\ ~ Misguided(r.x, e, env)
             doubtful == \E r \in refs : \/ Unknown(r, e, env)
                                         \/ Misguided(r.x, e, env) /\ r.sel \notin env.symbols
             plain == \E k \in DOMAIN command : PlainlyNamesDir(command, k)
             named == \E k \in DOMAIN command : NamesDir(command, k)
  <2>4. /\ OperatorsOwn(e, env) \/ oversize \/ (Checked(e, env) /\ unknown) => answer = "deny"
        /\ answer = "deny" => OperatorsOwn(e, env) \/ oversize \/ (Checked(e, env) /\ doubtful)
    BY <2>1, <2>3, EditVerdict, Zenon
  <2>5. /\ IsOperators(e, env) \/ plain => OperatorsOwn(e, env)
        /\ OperatorsOwn(e, env) => IsOperators(e, env) \/ named
    BY OperatorsOwnLeads, Zenon
  <2> HIDE DEF refs, command, oversize, unknown, doubtful, plain, named
  <2>6. /\ IsOperators(e, env) \/ oversize \/ plain \/ (Checked(e, env) /\ unknown)
           => answer = "deny"
        /\ answer = "deny"
           => IsOperators(e, env) \/ oversize \/ named \/ (Checked(e, env) /\ doubtful)
    BY <2>4, <2>5, Zenon
  <2> QED
    BY <2>2, <2>6, Zenon
       DEF EditsAreJudged, refs, command, oversize, unknown, doubtful, plain, named
<1> QED
  BY <1>1, <1>2, <1>3, PTL DEF EditSpec
=============================================================================
