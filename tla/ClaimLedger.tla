---------------------------- MODULE ClaimLedger ----------------------------
(***************************************************************************)
(* The claims table of .leonard/leonard.db and everything that writes it:  *)
(* the post-edit hook processes (one short-lived process per edit, several *)
(* sessions may have one running at the same time), the record_claim tool  *)
(* of leonard-mcp and the `leonard claims resolve | purge` commands.       *)
(*                                                                         *)
(* A hook indexes the edited file, runs the project verifier, inserts one  *)
(* claim and, when everything was clean, issues two UPDATEs that mark      *)
(* other claims as superseded.  Each store call is one SQLite statement,   *)
(* hence atomic, but nothing holds the four steps together: every other    *)
(* process may act between them and the hook may die between them.         *)
(*                                                                         *)
(* Rows written by a hook always name a tool: Claude Code sends tool_name  *)
(* with every call.  The foreign key of superseded_by_claim_id is not      *)
(* modelled: SupersederSound says that no DELETE would ever meet it.       *)
(*                                                                         *)
(* The project tree is abstracted to a version number and to whether the   *)
(* verifier passes on it.  recorded_at is abstracted to the position of    *)
(* the INSERT among all INSERTs, so clocks are taken not to run backwards. *)
(***************************************************************************)
EXTENDS Naturals

CONSTANTS
  Files,       \* files of the project
  Hooks,       \* slots for concurrently running post-edit processes
  NoFile,      \* a claim or an idle hook that names no file
  MaxRecords,  \* bound: INSERTs into the claims table
  MaxEdits     \* bound: changes of the project tree

ASSUME ClaimLedgerAssumption ==
  /\ NoFile \notin Files
  /\ MaxRecords \in Nat
  /\ MaxEdits \in Nat

VARIABLES
  tree,        \* version of the project tree on disk
  clean,       \* does the verifier pass on that version?
  claims,      \* the claims table: id -> row
  recorded,    \* how many rows were ever inserted
  hook,        \* the post-edit processes
  turns        \* history: have the sessions taken turns so far?

vars == <<tree, clean, claims, recorded, hook, turns>>

-----------------------------------------------------------------------------
(* A post-edit hook passes the path ResolveSafe returned, which is         *)
(* absolute.  record_claim stores the text its caller sent: "as given"     *)
(* stands for a path relative to the project.                              *)
Forms == {"resolved", "as given"}

Verdicts == {"ok", "failed", "skipped"}     \* vet_ok = 1, 0 and NULL

Claim == [file : Files \cup {NoFile}, form : Forms,
          auto : BOOLEAN,                   \* tool != ''
          verified : BOOLEAN,
          vet : Verdicts,
          by : Nat,                         \* superseded_by_claim_id, 0 is NULL
          at : Nat,                         \* recorded_at
          seen : Nat]                       \* version the verifier looked at

Hook == [pc : {"idle", "vet", "record", "file", "rest"},
         file : Files \cup {NoFile},
         indexOK : BOOLEAN,
         vet : Verdicts,
         seen : Nat,
         claim : Nat]

Idle == [pc |-> "idle", file |-> NoFile, indexOK |-> FALSE,
         vet |-> "skipped", seen |-> 0, claim |-> 0]

TypeOK ==
  /\ tree \in Nat
  /\ clean \in BOOLEAN
  /\ DOMAIN claims \subseteq Nat \ {0}
  /\ claims \in [DOMAIN claims -> Claim]
  /\ recorded \in Nat
  /\ hook \in [Hooks -> Hook]
  /\ turns \in BOOLEAN

Init ==
  /\ tree = 0
  /\ clean \in BOOLEAN
  /\ claims = [i \in {} |-> 0]
  /\ recorded = 0
  /\ hook = [h \in Hooks |-> Idle]
  /\ turns = TRUE

-----------------------------------------------------------------------------
(* Queries and helpers of the store                                        *)

\* Mutant: ids are packed, a deleted row's id is handed out at once.
NextIdLowestFree(id) ==
  /\ id \notin DOMAIN claims
  /\ \A j \in 1 .. id - 1 : j \in DOMAIN claims

\* The rowid SQLite gives the next INSERT: one above the largest present.
\* The column is INTEGER PRIMARY KEY without AUTOINCREMENT.
NextId(id) ==
  /\ \A i \in DOMAIN claims : i < id
  /\ id = 1 \/ (id - 1) \in DOMAIN claims

\* Mutant: the supersession filter is forgotten.
UnverifiedWithSuperseded == {i \in DOMAIN claims : ~claims[i].verified}

\* get_unverified_claims, the Stop hook and `leonard claims unverified`
Unverified ==
  {i \in DOMAIN claims : ~claims[i].verified /\ claims[i].by = 0}

Insert(id, row) ==
  claims' = [i \in DOMAIN claims \cup {id} |-> IF i = id THEN row ELSE claims[i]]

\* UPDATE claims SET superseded_by_claim_id = k on the rows of S
Supersede(S, k) ==
  claims' = [i \in DOMAIN claims |->
               IF i \in S THEN [claims[i] EXCEPT !.by = k] ELSE claims[i]]

-----------------------------------------------------------------------------
(* The environment                                                         *)

\* Somebody changes the project: an agent's edit, an editor, a checkout.
Edit ==
  /\ tree < MaxEdits
  /\ tree' = tree + 1
  /\ clean' \in BOOLEAN
  /\ UNCHANGED <<claims, recorded, hook>>

-----------------------------------------------------------------------------
(* The post-edit hook, one action per step another process can observe     *)

\* The process starts on an existing, contained path and re-indexes it.
\* Escaped and missing paths answer the model and touch nothing.
StartHook(h) ==
  /\ hook[h].pc = "idle"
  /\ \E f \in Files, ok \in BOOLEAN :
       hook' = [hook EXCEPT ![h] =
                  [Idle EXCEPT !.pc = "vet", !.file = f, !.indexOK = ok]]
  /\ UNCHANGED <<tree, clean, claims, recorded>>

\* The verifier passes only on a clean tree; a timeout or a missing tool is
\* an ordinary failure; with no go.mod and no configured command it does
\* not run.
VetOutcomes == {"failed", "skipped"} \cup (IF clean THEN {"ok"} ELSE {})

\* Mutant: a clean verdict may come from a cache filled at the start.
RunVetCached(h) ==
  /\ hook[h].pc = "vet"
  /\ \E v \in {"ok", "failed"} :
       hook' = [hook EXCEPT ![h] =
                  [hook[h] EXCEPT !.pc = "record", !.vet = v,
                                  !.seen = IF v = "ok" THEN 0 ELSE tree]]
  /\ UNCHANGED <<tree, clean, claims, recorded>>

RunVet(h) ==
  /\ hook[h].pc = "vet"
  /\ \E v \in VetOutcomes :
       hook' = [hook EXCEPT ![h] =
                  [hook[h] EXCEPT !.pc = "record", !.vet = v, !.seen = tree]]
  /\ UNCHANGED <<tree, clean, claims, recorded>>

\* Mutant: a fresh index is enough to call the edit verified.
HookVerifiedByIndex(h) == hook[h].indexOK

HookVerified(h) == hook[h].indexOK /\ hook[h].vet # "failed"

HookRow(h) ==
  [file |-> hook[h].file, form |-> "resolved", auto |-> TRUE,
   verified |-> HookVerified(h), vet |-> hook[h].vet,
   by |-> 0, at |-> recorded + 1, seen |-> hook[h].seen]

\* INSERT the claim.  Only a verified claim whose verifier really ran goes
\* on to supersede others.
RecordClaim(h) ==
  /\ hook[h].pc = "record"
  /\ recorded < MaxRecords
  /\ \E id \in 1 .. MaxRecords :
       /\ NextId(id)
       /\ Insert(id, HookRow(h))
       /\ hook' = [hook EXCEPT ![h] =
                     IF HookVerified(h) /\ hook[h].vet # "skipped"
                     THEN [Idle EXCEPT !.pc = "file", !.file = hook[h].file, !.claim = id]
                     ELSE Idle]
  /\ recorded' = recorded + 1
  /\ UNCHANGED <<tree, clean>>

SupersedeClaimsForFile(h) ==
  /\ hook[h].pc = "file"
  /\ Supersede({i \in Unverified : /\ claims[i].file = hook[h].file
                                   /\ claims[i].form = "resolved"
                                   /\ i # hook[h].claim},
               hook[h].claim)
  /\ hook' = [hook EXCEPT ![h].pc = "rest"]
  /\ UNCHANGED <<tree, clean, recorded>>

SupersedeOutstandingFailures(h) ==
  /\ hook[h].pc = "rest"
  /\ Supersede({i \in Unverified : claims[i].vet = "failed" /\ i # hook[h].claim},
               hook[h].claim)
  /\ hook' = [hook EXCEPT ![h] = Idle]
  /\ UNCHANGED <<tree, clean, recorded>>

\* A busy or failing database: the INSERT aborts the handler, a failed
\* UPDATE is logged and the handler goes on.
StoreError(h) ==
  /\ hook[h].pc \in {"record", "file", "rest"}
  /\ hook' = [hook EXCEPT ![h] =
                IF hook[h].pc = "file" THEN [hook[h] EXCEPT !.pc = "rest"] ELSE Idle]
  /\ UNCHANGED <<tree, clean, claims, recorded>>

\* Claude Code's timeout, the 55 s budget's watchdog or a kill ends the
\* process; every state it kept was in memory.
Crash(h) ==
  /\ hook[h].pc # "idle"
  /\ hook' = [hook EXCEPT ![h] = Idle]
  /\ UNCHANGED <<tree, clean, claims, recorded>>

-----------------------------------------------------------------------------
(* leonard-mcp and the leonard CLI                                         *)

\* record_claim leaves tool and vet_ok NULL.
McpRow(f, form, v) ==
  [file |-> f, form |-> form, auto |-> FALSE, verified |-> v,
   vet |-> "skipped", by |-> 0, at |-> recorded + 1, seen |-> 0]

McpRecordClaim ==
  /\ recorded < MaxRecords
  /\ \E id \in 1 .. MaxRecords, f \in Files \cup {NoFile}, form \in Forms,
        v \in BOOLEAN :
       /\ f = NoFile => form = "as given"
       /\ NextId(id)
       /\ Insert(id, McpRow(f, form, v))
  /\ recorded' = recorded + 1
  /\ UNCHANGED <<tree, clean, hook>>

ResolveClaim ==
  /\ \E i \in DOMAIN claims : claims' = [claims EXCEPT ![i].verified = TRUE]
  /\ UNCHANGED <<tree, clean, recorded, hook>>

\* Mutant: purge goes by age alone.
PurgeByAge ==
  /\ \E olderThan \in 1 .. MaxRecords + 1 :
       claims' = [i \in {j \in DOMAIN claims :
                            ~(claims[j].auto /\ claims[j].at < olderThan)} |->
                    claims[i]]
  /\ UNCHANGED <<tree, clean, recorded, hook>>

\* `leonard claims purge --age N`: any cut-off the flag can express
PurgeSupersededClaims ==
  /\ \E olderThan \in 1 .. MaxRecords + 1 :
       LET old == {i \in DOMAIN claims : /\ claims[i].auto
                                         /\ claims[i].by # 0
                                         /\ claims[i].at < olderThan}
       IN  claims' = [i \in DOMAIN claims \ old |-> claims[i]]
  /\ UNCHANGED <<tree, clean, recorded, hook>>

-----------------------------------------------------------------------------
HookStep(h) ==
  \/ StartHook(h)
  \/ RunVet(h)
  \/ RecordClaim(h)
  \/ SupersedeClaimsForFile(h)
  \/ SupersedeOutstandingFailures(h)
  \/ StoreError(h)
  \/ Crash(h)

OtherWriters == McpRecordClaim \/ ResolveClaim \/ PurgeSupersededClaims

\* Sessions take turns while a hook runs only with every other one idle, and
\* the other writers act only between hooks.  Edits are never restricted.
\* turns is a history variable: it records this of the past and steers nothing.
Alone(S) == turns' = (turns /\ \A g \in Hooks \ S : hook[g].pc = "idle")

Next ==
  \/ Edit /\ UNCHANGED turns
  \/ \E h \in Hooks : HookStep(h) /\ Alone({h})
  \/ OtherWriters /\ Alone({})

Spec == Init /\ [][Next]_vars

-----------------------------------------------------------------------------
(* What holds whatever the interleaving                                    *)

\* A row a hook wrote after a clean verifier run and that nothing superseded.
CleanRow(k) ==
  /\ k \in DOMAIN claims
  /\ claims[k].auto /\ claims[k].verified /\ claims[k].vet = "ok"
  /\ claims[k].by = 0

\* A superseded row points at a row that is still there, that a hook wrote
\* after a clean verifier run, and that nothing superseded in turn: the
\* link never dangles after a purge, and following it once ends the search.
SupersederSound ==
  \A i \in DOMAIN claims : claims[i].by # 0 => CleanRow(claims[i].by)

\* The claim a hook is about to point other rows at is such a row, however
\* long the hook is held up between its INSERT and its UPDATEs.
PendingSound ==
  \A h \in Hooks : hook[h].pc \in {"file", "rest"} => CleanRow(hook[h].claim)

\* Stop and get_unverified_claims never lose an open claim by accident: in
\* one step it stays open, or the operator resolved it, or it now points at
\* a claim whose verifier run was clean.  It is never deleted while open.
OpenClaimsAreSettled ==
  [][\A i \in Unverified : \/ i \in Unverified'
                           \/ /\ i \in DOMAIN claims'
                              /\ \/ claims'[i].verified
                                 \/ /\ claims'[i].by \in DOMAIN claims'
                                    /\ claims'[claims'[i].by].vet = "ok"]_vars

\* The first supersession of a row is the one on record: while the row
\* exists, no later clean run re-attributes it to itself.
SupersessionIsFinal ==
  [][\A i \in DOMAIN claims \cap DOMAIN claims' :
       claims[i].by # 0 => claims'[i].by = claims[i].by]_vars

-----------------------------------------------------------------------------
(* What holds as long as the sessions have taken turns, and only then      *)

\* The failure a clean run hides was observed on a tree no newer than the
\* one that run looked at, so the clean run does say the failure is gone.
HiddenFailureIsStale ==
  turns => \A i \in DOMAIN claims :
             LET k == claims[i].by
             IN  k # 0 /\ claims[i].vet = "failed" => claims[i].seen <= claims[k].seen

\* No id an operator was shown comes to name another claim, although
\* SQLite hands the largest rowid out again once its row is deleted: the
\* newest row is never one that purge may delete.
IdsAreNeverReused == turns => \A i \in DOMAIN claims : claims[i].at = i

=============================================================================
