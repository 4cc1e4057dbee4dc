------------------------- MODULE ClaimLedgerProofs -------------------------
(***************************************************************************)
(* Proofs about ClaimLedger, for any set of files, any number of hook      *)
(* processes and any bounds.                                               *)
(*                                                                         *)
(* The argument for SupersederSound: an id gets into somebody's superseded *)
(* column only from a hook that is between its INSERT and its UPDATEs, so  *)
(* it is enough that such a hook's own row stays a CleanRow (PendingSound).*)
(* The UPDATEs touch unverified rows only and purge deletes superseded     *)
(* rows only; a CleanRow is neither.                                       *)
(*                                                                         *)
(* The last section is about the time the sessions take turns: a hook that *)
(* is not idle is alone, so what it saw and the claim it inserted are      *)
(* still the latest when it issues its UPDATEs (SerialInv).                *)
(***************************************************************************)
EXTENDS ClaimLedger, TLAPS

LedgerInv == TypeOK /\ PendingSound /\ SupersederSound

\* The next rowid is new.
LEMMA NextIdIsNew ==
  ASSUME NEW id \in Nat, NextId(id)
  PROVE  id \notin DOMAIN claims
BY DEF NextId

-----------------------------------------------------------------------------
(* Type correctness, one lemma per shape of change                         *)

\* Adding a well-typed row keeps the table well typed.
LEMMA InsertType ==
  ASSUME TypeOK, NEW id \in Nat \ {0}, NEW row \in Claim, Insert(id, row)
  PROVE  /\ DOMAIN claims' = DOMAIN claims \cup {id}
         /\ DOMAIN claims' \subseteq Nat \ {0}
         /\ claims' \in [DOMAIN claims' -> Claim]
BY DEF TypeOK, Insert

\* So does superseding some of its rows, which also keeps every other
\* column and every other row.
LEMMA SupersedeType ==
  ASSUME TypeOK, NEW S, NEW k \in Nat, Supersede(S, k)
  PROVE  /\ DOMAIN claims' = DOMAIN claims
         /\ claims' \in [DOMAIN claims' -> Claim]
         /\ \A i \in DOMAIN claims : i \notin S => claims'[i] = claims[i]
         /\ \A i \in DOMAIN claims : i \in S =>
              claims'[i] = [claims[i] EXCEPT !.by = k]
<1>1. DOMAIN claims' = DOMAIN claims
  BY DEF Supersede
<1>2. \A i \in DOMAIN claims : i \notin S => claims'[i] = claims[i]
  BY DEF Supersede
<1>3. \A i \in DOMAIN claims : i \in S => claims'[i] = [claims[i] EXCEPT !.by = k]
  BY DEF Supersede
<1>4. ASSUME NEW i \in DOMAIN claims PROVE claims'[i] \in Claim
  <2>1. claims[i] \in Claim
    BY DEF TypeOK
  <2>2. [claims[i] EXCEPT !.by = k] \in Claim
    BY <2>1 DEF Claim
  <2> QED
    BY <1>2, <1>3, <2>1, <2>2
<1>5. claims' \in [DOMAIN claims' -> Claim]
  BY <1>1, <1>4 DEF Supersede
<1> QED
  BY <1>1, <1>2, <1>3, <1>5

\* A hook process that ended is of the hooks' type.
LEMMA IdleType == Idle \in Hook
BY DEF Idle, Hook, Verdicts

\* What a post-edit hook inserts is a row of the claims table.
LEMMA HookRowType ==
  ASSUME TypeOK, NEW h \in Hooks
  PROVE  HookRow(h) \in Claim
<1>1. ASSUME NEW b \in BOOLEAN
      PROVE  [file |-> hook[h].file, form |-> "resolved", auto |-> TRUE,
              verified |-> b, vet |-> hook[h].vet, by |-> 0,
              at |-> recorded + 1, seen |-> hook[h].seen] \in Claim
  <2>1. /\ hook[h].file \in Files \cup {NoFile}
        /\ hook[h].vet \in Verdicts
        /\ hook[h].seen \in Nat
        /\ recorded + 1 \in Nat
    BY DEF TypeOK, Hook
  <2> QED
    BY <2>1, Zenon DEF Claim, Forms
<1>2. HookVerified(h) \in BOOLEAN
  BY DEF HookVerified, TypeOK, Hook
<1> QED
  BY <1>1, <1>2, Zenon DEF HookRow

\* What record_claim inserts is a row of the claims table.
LEMMA McpRowType ==
  ASSUME TypeOK, NEW f \in Files \cup {NoFile}, NEW form \in Forms,
         NEW v \in BOOLEAN
  PROVE  McpRow(f, form, v) \in Claim
BY DEF McpRow, TypeOK, Claim, Verdicts

\* TypeOK is inductive.
LEMMA NextType == TypeOK /\ [Next]_vars => TypeOK'
<1> SUFFICES ASSUME TypeOK, [Next]_vars PROVE TypeOK'
  OBVIOUS
<1> USE ClaimLedgerAssumption
<1>0. turns' \in BOOLEAN
  BY Zenon DEF TypeOK, Next, Alone, vars
<1> USE <1>0
<1>1. CASE Edit
  BY <1>1 DEF Edit, TypeOK
<1>2. ASSUME NEW h \in Hooks, StartHook(h) PROVE TypeOK'
  <2>1. PICK f \in Files, ok \in BOOLEAN :
          hook' = [hook EXCEPT ![h] =
                     [Idle EXCEPT !.pc = "vet", !.file = f, !.indexOK = ok]]
    BY <1>2 DEF StartHook
  <2>2. [Idle EXCEPT !.pc = "vet", !.file = f, !.indexOK = ok] \in Hook
    BY DEF Idle, Hook, Verdicts
  <2> QED
    BY <1>2, <2>1, <2>2 DEF StartHook, TypeOK
<1>3. ASSUME NEW h \in Hooks, RunVet(h) PROVE TypeOK'
  <2>1. PICK v \in Verdicts :
          hook' = [hook EXCEPT ![h] =
                     [hook[h] EXCEPT !.pc = "record", !.vet = v, !.seen = tree]]
    BY <1>3 DEF RunVet, VetOutcomes, Verdicts
  <2> QED
    BY <1>3, <2>1 DEF RunVet, TypeOK, Hook
<1>4. ASSUME NEW h \in Hooks, RecordClaim(h) PROVE TypeOK'
  <2>1. PICK id \in 1 .. MaxRecords :
          /\ Insert(id, HookRow(h))
          /\ hook' = [hook EXCEPT ![h] =
                     IF HookVerified(h) /\ hook[h].vet # "skipped"
                     THEN [Idle EXCEPT !.pc = "file", !.file = hook[h].file, !.claim = id]
                     ELSE Idle]
    BY <1>4 DEF RecordClaim
  <2>2. [Idle EXCEPT !.pc = "file", !.file = hook[h].file, !.claim = id] \in Hook
    <3>1. hook[h].file \in Files \cup {NoFile} /\ id \in Nat
      BY DEF TypeOK, Hook
    <3> QED
      BY <3>1 DEF Idle, Hook, Verdicts
  <2>3. hook' \in [Hooks -> Hook]
    BY <2>1, <2>2, IdleType DEF TypeOK
  <2>4. /\ DOMAIN claims' \subseteq Nat \ {0}
        /\ claims' \in [DOMAIN claims' -> Claim]
    <3>1. id \in Nat \ {0} /\ HookRow(h) \in Claim
      BY HookRowType
    <3> QED
      BY <2>1, <3>1, InsertType
  <2> QED
    BY <1>4, <2>3, <2>4 DEF RecordClaim, TypeOK
<1>5. ASSUME NEW h \in Hooks, SupersedeClaimsForFile(h) PROVE TypeOK'
  <2>1. hook[h].claim \in Nat
    BY DEF TypeOK, Hook
  <2>2. hook' \in [Hooks -> Hook]
    BY <1>5 DEF SupersedeClaimsForFile, TypeOK, Hook
  <2> QED
    BY <1>5, <2>1, <2>2, SupersedeType DEF SupersedeClaimsForFile, TypeOK
<1>6. ASSUME NEW h \in Hooks, SupersedeOutstandingFailures(h) PROVE TypeOK'
  <2>1. hook[h].claim \in Nat
    BY DEF TypeOK, Hook
  <2>2. hook' \in [Hooks -> Hook]
    BY <1>6, IdleType DEF SupersedeOutstandingFailures, TypeOK
  <2> QED
    BY <1>6, <2>1, <2>2, SupersedeType DEF SupersedeOutstandingFailures, TypeOK
<1>7. ASSUME NEW h \in Hooks, StoreError(h) PROVE TypeOK'
  BY <1>7, IdleType DEF StoreError, TypeOK, Hook
<1>8. ASSUME NEW h \in Hooks, Crash(h) PROVE TypeOK'
  BY <1>8, IdleType DEF Crash, TypeOK
<1>9. CASE McpRecordClaim
  <2>1. PICK id \in 1 .. MaxRecords, f \in Files \cup {NoFile}, form \in Forms,
             v \in BOOLEAN : Insert(id, McpRow(f, form, v))
    BY <1>9, Zenon DEF McpRecordClaim
  <2>2. /\ DOMAIN claims' \subseteq Nat \ {0}
        /\ claims' \in [DOMAIN claims' -> Claim]
    <3>1. id \in Nat \ {0} /\ McpRow(f, form, v) \in Claim
      BY McpRowType
    <3> QED
      BY <2>1, <3>1, InsertType
  <2>3. recorded' = recorded + 1 /\ UNCHANGED <<tree, clean, hook>>
    BY <1>9, Zenon DEF McpRecordClaim
  <2> QED
    BY <2>2, <2>3 DEF TypeOK
<1>10. CASE ResolveClaim
  <2>1. PICK i \in DOMAIN claims : claims' = [claims EXCEPT ![i].verified = TRUE]
    BY <1>10 DEF ResolveClaim
  <2>2. [claims[i] EXCEPT !.verified = TRUE] \in Claim
    BY DEF TypeOK, Claim
  <2> QED
    BY <1>10, <2>1, <2>2 DEF ResolveClaim, TypeOK
<1>11. CASE PurgeSupersededClaims
  BY <1>11 DEF PurgeSupersededClaims, TypeOK
<1>12. CASE UNCHANGED vars
  BY <1>12 DEF vars, TypeOK
<1> QED
  BY <1>1, <1>2, <1>3, <1>4, <1>5, <1>6, <1>7, <1>8, <1>9, <1>10, <1>11, <1>12
  DEF Next, HookStep, OtherWriters

\* An empty store and no process running is of the right type.
LEMMA InitType == Init => TypeOK
BY DEF Init, TypeOK, Idle, Hook, Verdicts

\* Every reachable state of the ledger has the types its columns declare.
THEOREM TypeCorrect == Spec => []TypeOK
BY InitType, NextType, PTL DEF Spec

-----------------------------------------------------------------------------
(* Supersession links                                                      *)

\* No step of anybody changes or deletes a clean row.
LEMMA CleanRowStable ==
  ASSUME TypeOK, [Next]_vars, NEW k, CleanRow(k)
  PROVE  k \in DOMAIN claims' /\ claims'[k] = claims[k]
<1> DEFINE r == claims[k]
<1>1. k \in DOMAIN claims /\ r \in Claim /\ k \in Nat
  BY DEF CleanRow, TypeOK
<1>3. ASSUME NEW id \in Nat, NextId(id), NEW row, Insert(id, row)
      PROVE  k \in DOMAIN claims' /\ claims'[k] = r
  BY <1>1, <1>3, NextIdIsNew DEF Insert
<1>4. ASSUME NEW S, S \subseteq Unverified, NEW j, Supersede(S, j)
      PROVE  k \in DOMAIN claims' /\ claims'[k] = r
  <2>1. k \notin S
    BY <1>4 DEF CleanRow, Unverified
  <2> QED
    BY <1>1, <1>4, <2>1 DEF Supersede
<1>5. ASSUME UNCHANGED claims PROVE k \in DOMAIN claims' /\ claims'[k] = r
  BY <1>1, <1>5
<1>6. CASE Edit \/ UNCHANGED vars
  BY <1>5, <1>6 DEF Edit, vars
<1>7. ASSUME NEW h \in Hooks, HookStep(h)
      PROVE  k \in DOMAIN claims' /\ claims'[k] = r
  <2>1. CASE StartHook(h) \/ RunVet(h) \/ StoreError(h) \/ Crash(h)
    BY <1>5, <2>1 DEF StartHook, RunVet, StoreError, Crash
  <2>2. CASE RecordClaim(h)
    BY <1>3, <2>2 DEF RecordClaim
  <2>3. CASE SupersedeClaimsForFile(h)
    <3> DEFINE S == {i \in Unverified : /\ claims[i].file = hook[h].file
                                        /\ claims[i].form = "resolved"
                                        /\ i # hook[h].claim}
    <3>1. S \subseteq Unverified /\ Supersede(S, hook[h].claim)
      BY <2>3 DEF SupersedeClaimsForFile
    <3> HIDE DEF S
    <3> QED
      BY <1>4, <3>1
  <2>4. CASE SupersedeOutstandingFailures(h)
    <3> DEFINE S == {i \in Unverified : claims[i].vet = "failed" /\ i # hook[h].claim}
    <3>1. S \subseteq Unverified /\ Supersede(S, hook[h].claim)
      BY <2>4 DEF SupersedeOutstandingFailures
    <3> HIDE DEF S
    <3> QED
      BY <1>4, <3>1
  <2> QED
    BY <1>7, <2>1, <2>2, <2>3, <2>4 DEF HookStep
<1>8. CASE McpRecordClaim
  <2>1. PICK id \in 1 .. MaxRecords, f \in Files \cup {NoFile}, form \in Forms,
             v \in BOOLEAN : NextId(id) /\ Insert(id, McpRow(f, form, v))
    BY <1>8, Zenon DEF McpRecordClaim
  <2> QED
    BY <1>3, <2>1
<1>9. CASE ResolveClaim
  <2>1. PICK i \in DOMAIN claims : claims' = [claims EXCEPT ![i].verified = TRUE]
    BY <1>9 DEF ResolveClaim
  <2>2. CASE i = k
    BY <1>1, <2>1, <2>2 DEF CleanRow, Claim
  <2> QED
    BY <1>1, <2>1, <2>2
<1>10. CASE PurgeSupersededClaims
  BY <1>1, <1>10 DEF PurgeSupersededClaims, CleanRow
<1> QED
  BY <1>6, <1>7, <1>8, <1>9, <1>10 DEF Next, OtherWriters

\* A hook's row is clean from the moment the hook may point at it.
LEMMA NextPending ==
  ASSUME TypeOK, PendingSound, [Next]_vars
  PROVE  PendingSound'
<1> SUFFICES ASSUME NEW g \in Hooks, hook'[g].pc \in {"file", "rest"}
             PROVE  LET k == hook'[g].claim
                    IN  /\ k \in DOMAIN claims'
                        /\ claims'[k].auto /\ claims'[k].verified
                        /\ claims'[k].vet = "ok" /\ claims'[k].by = 0
  BY DEF PendingSound, CleanRow
<1>1. CASE hook[g].pc \in {"file", "rest"} /\ hook'[g].claim = hook[g].claim
  <2>1. PICK k : k = hook[g].claim
    OBVIOUS
  <2>2. CleanRow(k)
    BY <1>1, <2>1 DEF PendingSound
  <2> QED
    BY <1>1, <2>1, <2>2, CleanRowStable DEF CleanRow
<1>2. CASE RecordClaim(g)
  <2>1. PICK id \in 1 .. MaxRecords :
          /\ NextId(id)
          /\ Insert(id, HookRow(g))
          /\ hook' = [hook EXCEPT ![g] =
                     IF HookVerified(g) /\ hook[g].vet # "skipped"
                     THEN [Idle EXCEPT !.pc = "file", !.file = hook[g].file, !.claim = id]
                     ELSE Idle]
    BY <1>2 DEF RecordClaim
  <2>2. HookVerified(g) /\ hook[g].vet # "skipped"
    BY <2>1 DEF TypeOK, Idle
  <2>3. hook'[g].claim = id
    BY <2>1, <2>2 DEF TypeOK, Idle
  <2>4. hook[g].vet = "ok"
    BY <2>2 DEF HookVerified, TypeOK, Hook, Verdicts
  <2>5. id \in DOMAIN claims' /\ claims'[id] = HookRow(g)
    BY <2>1 DEF Insert
  <2> QED
    BY <2>2, <2>3, <2>4, <2>5 DEF HookRow
<1>3. hook'[g] = hook[g] \/ HookStep(g)
  <2>1. CASE UNCHANGED hook
    BY <2>1
  <2>2. ASSUME NEW h \in Hooks, HookStep(h), h # g PROVE hook'[g] = hook[g]
    BY <2>2 DEF HookStep, StartHook, RunVet, RecordClaim, SupersedeClaimsForFile,
         SupersedeOutstandingFailures, StoreError, Crash, TypeOK
  <2>3. CASE Edit \/ OtherWriters \/ UNCHANGED vars
    BY <2>1, <2>3 DEF Edit, OtherWriters, McpRecordClaim, ResolveClaim,
         PurgeSupersededClaims, vars
  <2> QED
    BY <2>2, <2>3 DEF Next
<1>4. CASE hook'[g] = hook[g]
  BY <1>1, <1>4
<1>5. CASE StartHook(g) \/ RunVet(g) \/ SupersedeOutstandingFailures(g) \/ Crash(g)
  <2>1. CASE StartHook(g)
    BY <2>1 DEF StartHook, TypeOK, Idle
  <2>2. CASE RunVet(g)
    <3>1. PICK v : hook' = [hook EXCEPT ![g] =
                     [hook[g] EXCEPT !.pc = "record", !.vet = v, !.seen = tree]]
      BY <2>2 DEF RunVet
    <3> QED
      BY <3>1 DEF TypeOK, Hook
  <2>3. CASE SupersedeOutstandingFailures(g) \/ Crash(g)
    BY <2>3 DEF SupersedeOutstandingFailures, Crash, TypeOK, Idle
  <2> QED
    BY <1>5, <2>1, <2>2, <2>3
<1>6. CASE SupersedeClaimsForFile(g) \/ StoreError(g)
  BY <1>1, <1>6 DEF SupersedeClaimsForFile, StoreError, TypeOK, Hook, Idle
<1> QED
  BY <1>2, <1>3, <1>4, <1>5, <1>6 DEF HookStep

\* A step leaves a row's link alone or points it at a pending hook's row.
LEMMA LinkComesFromHook ==
  ASSUME TypeOK, [Next]_vars, NEW i \in DOMAIN claims', claims'[i].by # 0
  PROVE  \/ i \in DOMAIN claims /\ claims'[i].by = claims[i].by
         \/ \E h \in Hooks : /\ hook[h].pc \in {"file", "rest"}
                             /\ i \in Unverified
                             /\ claims'[i].by = hook[h].claim
<1> DEFINE Goal == \/ i \in DOMAIN claims /\ claims'[i].by = claims[i].by
                   \/ \E h \in Hooks : /\ hook[h].pc \in {"file", "rest"}
                                       /\ i \in Unverified
                                       /\ claims'[i].by = hook[h].claim
<1> SUFFICES Goal
  OBVIOUS
<1>1. ASSUME NEW id, NEW row, row.by = 0, Insert(id, row) PROVE Goal
  BY <1>1 DEF Insert
<1>2. ASSUME NEW S, S \subseteq Unverified, NEW h \in Hooks,
             hook[h].pc \in {"file", "rest"}, Supersede(S, hook[h].claim)
      PROVE  Goal
  <2>1. i \in DOMAIN claims
    BY <1>2 DEF Supersede
  <2>2. CASE i \in S
    <3>1. claims'[i] = [claims[i] EXCEPT !.by = hook[h].claim]
      BY <1>2, <2>1, <2>2 DEF Supersede
    <3>2. claims'[i].by = hook[h].claim
      BY <2>1, <3>1 DEF TypeOK, Claim
    <3> QED
      BY <1>2, <2>2, <3>2
  <2>3. CASE i \notin S
    BY <1>2, <2>1, <2>3 DEF Supersede
  <2> QED
    BY <2>2, <2>3
<1>3. CASE Edit \/ UNCHANGED vars
  BY <1>3 DEF Edit, vars
<1>4. ASSUME NEW h \in Hooks, HookStep(h) PROVE Goal
  <2>1. CASE StartHook(h) \/ RunVet(h) \/ StoreError(h) \/ Crash(h)
    BY <2>1 DEF StartHook, RunVet, StoreError, Crash
  <2>2. CASE RecordClaim(h)
    BY <1>1, <2>2 DEF RecordClaim, HookRow
  <2>3. CASE SupersedeClaimsForFile(h)
    <3> DEFINE S == {j \in Unverified : /\ claims[j].file = hook[h].file
                                        /\ claims[j].form = "resolved"
                                        /\ j # hook[h].claim}
    <3>1. /\ S \subseteq Unverified /\ Supersede(S, hook[h].claim)
          /\ hook[h].pc \in {"file", "rest"}
      BY <2>3 DEF SupersedeClaimsForFile
    <3> HIDE DEF S
    <3> QED
      BY <1>2, <3>1
  <2>4. CASE SupersedeOutstandingFailures(h)
    <3> DEFINE S == {j \in Unverified : claims[j].vet = "failed" /\ j # hook[h].claim}
    <3>1. /\ S \subseteq Unverified /\ Supersede(S, hook[h].claim)
          /\ hook[h].pc \in {"file", "rest"}
      BY <2>4 DEF SupersedeOutstandingFailures
    <3> HIDE DEF S
    <3> QED
      BY <1>2, <3>1
  <2> QED
    BY <1>4, <2>1, <2>2, <2>3, <2>4 DEF HookStep
<1>5. CASE McpRecordClaim
  <2>1. PICK id \in 1 .. MaxRecords, f \in Files \cup {NoFile}, form \in Forms,
             v \in BOOLEAN : Insert(id, McpRow(f, form, v))
    BY <1>5, Zenon DEF McpRecordClaim
  <2> QED
    BY <1>1, <2>1 DEF McpRow
<1>6. CASE ResolveClaim
  BY <1>6 DEF ResolveClaim, TypeOK, Claim
<1>7. CASE PurgeSupersededClaims
  BY <1>7 DEF PurgeSupersededClaims
<1> QED
  BY <1>3, <1>4, <1>5, <1>6, <1>7 DEF Next, OtherWriters

\* LedgerInv is inductive: a new link leads to a pending hook's row, an old
\* one to a row that was clean, and clean rows are stable.
LEMMA NextLedgerInv == LedgerInv /\ [Next]_vars => LedgerInv'
<1> SUFFICES ASSUME LedgerInv, [Next]_vars PROVE LedgerInv'
  OBVIOUS
<1>1. TypeOK' /\ PendingSound'
  BY NextType, NextPending DEF LedgerInv
<1>2. ASSUME NEW i \in DOMAIN claims', claims'[i].by # 0
      PROVE  LET k == claims'[i].by
             IN  /\ k \in DOMAIN claims'
                 /\ claims'[k].auto /\ claims'[k].verified
                 /\ claims'[k].vet = "ok" /\ claims'[k].by = 0
  <2>1. PICK k : k = claims'[i].by
    OBVIOUS
  <2>2. CleanRow(k)
    <3>1. CASE i \in DOMAIN claims /\ k = claims[i].by
      BY <1>2, <2>1, <3>1 DEF LedgerInv, SupersederSound
    <3>2. CASE \E h \in Hooks : hook[h].pc \in {"file", "rest"} /\ k = hook[h].claim
      BY <3>2 DEF LedgerInv, PendingSound
    <3> QED
      BY <1>2, <2>1, <3>1, <3>2, LinkComesFromHook DEF LedgerInv
  <2> QED
    BY <2>1, <2>2, CleanRowStable DEF CleanRow, LedgerInv
<1> QED
  BY <1>1, <1>2 DEF LedgerInv, SupersederSound, CleanRow

\* No links and no pending hooks at the start.
LEMMA InitLedgerInv == Init => LedgerInv
BY InitType DEF Init, LedgerInv, PendingSound, SupersederSound, Idle

\* LedgerInv holds in every reachable state.
LEMMA LedgerInvariant == Spec => []LedgerInv
BY InitLedgerInv, NextLedgerInv, PTL DEF Spec

\* Whatever hooks, tools and commands do to the table at the same time, and
\* wherever a hook dies, a superseded claim points at a present claim of a
\* clean verifier run that is not superseded itself.
THEOREM SupersedersAreSound == Spec => []SupersederSound
BY LedgerInvariant, PTL DEF LedgerInv

\* The claim a hook points other rows at stays clean while the hook waits.
THEOREM PendingClaimsAreClean == Spec => []PendingSound
BY LedgerInvariant, PTL DEF LedgerInv

-----------------------------------------------------------------------------
(* What a step may do to a row                                             *)

\* A row is kept as it is, resolved, superseded while open by a hook's clean
\* row, or deleted when it was superseded before.
LEMMA RowFate ==
  ASSUME TypeOK, [Next]_vars, NEW i \in DOMAIN claims
  PROVE  \/ i \in DOMAIN claims' /\ claims'[i] = claims[i]
         \/ /\ i \in DOMAIN claims'
            /\ claims'[i] = [claims[i] EXCEPT !.verified = TRUE]
         \/ \E h \in Hooks : /\ hook[h].pc \in {"file", "rest"}
                             /\ i \in Unverified
                             /\ i \in DOMAIN claims'
                             /\ claims'[i] = [claims[i] EXCEPT !.by = hook[h].claim]
         \/ i \notin DOMAIN claims' /\ claims[i].by # 0
<1> DEFINE Kept == i \in DOMAIN claims' /\ claims'[i] = claims[i]
           Resolved == /\ i \in DOMAIN claims'
                       /\ claims'[i] = [claims[i] EXCEPT !.verified = TRUE]
           Hidden == \E h \in Hooks :
                       /\ hook[h].pc \in {"file", "rest"}
                       /\ i \in Unverified
                       /\ i \in DOMAIN claims'
                       /\ claims'[i] = [claims[i] EXCEPT !.by = hook[h].claim]
           Purged == i \notin DOMAIN claims' /\ claims[i].by # 0
<1> SUFFICES Kept \/ Resolved \/ Hidden \/ Purged
  OBVIOUS
<1>1. ASSUME NEW id \in Nat, NextId(id), NEW row, Insert(id, row) PROVE Kept
  BY <1>1, NextIdIsNew DEF Insert, TypeOK
<1>2. ASSUME NEW S, S \subseteq Unverified, NEW h \in Hooks,
             hook[h].pc \in {"file", "rest"}, Supersede(S, hook[h].claim)
      PROVE  Kept \/ Hidden
  <2>1. CASE i \in S
    BY <1>2, <2>1 DEF Supersede
  <2>2. CASE i \notin S
    BY <1>2, <2>2 DEF Supersede
  <2> QED
    BY <2>1, <2>2
<1>3. CASE Edit \/ UNCHANGED vars
  BY <1>3 DEF Edit, vars
<1>4. ASSUME NEW h \in Hooks, HookStep(h) PROVE Kept \/ Hidden
  <2>1. CASE StartHook(h) \/ RunVet(h) \/ StoreError(h) \/ Crash(h)
    BY <2>1 DEF StartHook, RunVet, StoreError, Crash
  <2>2. CASE RecordClaim(h)
    <3>1. PICK id \in 1 .. MaxRecords : NextId(id) /\ Insert(id, HookRow(h))
      BY <2>2 DEF RecordClaim
    <3> QED
      BY <1>1, <3>1
  <2>3. CASE SupersedeClaimsForFile(h)
    <3> DEFINE S == {j \in Unverified : /\ claims[j].file = hook[h].file
                                        /\ claims[j].form = "resolved"
                                        /\ j # hook[h].claim}
    <3>1. /\ S \subseteq Unverified /\ Supersede(S, hook[h].claim)
          /\ hook[h].pc \in {"file", "rest"}
      BY <2>3 DEF SupersedeClaimsForFile
    <3> HIDE DEF S
    <3> QED
      BY <1>2, <3>1
  <2>4. CASE SupersedeOutstandingFailures(h)
    <3> DEFINE S == {j \in Unverified : claims[j].vet = "failed" /\ j # hook[h].claim}
    <3>1. /\ S \subseteq Unverified /\ Supersede(S, hook[h].claim)
          /\ hook[h].pc \in {"file", "rest"}
      BY <2>4 DEF SupersedeOutstandingFailures
    <3> HIDE DEF S
    <3> QED
      BY <1>2, <3>1
  <2> QED
    BY <1>4, <2>1, <2>2, <2>3, <2>4 DEF HookStep
<1>5. CASE McpRecordClaim
  <2>1. PICK id \in 1 .. MaxRecords, f \in Files \cup {NoFile}, form \in Forms,
             v \in BOOLEAN : NextId(id) /\ Insert(id, McpRow(f, form, v))
    BY <1>5, Zenon DEF McpRecordClaim
  <2> QED
    BY <1>1, <2>1
<1>6. CASE ResolveClaim
  BY <1>6 DEF ResolveClaim, TypeOK
<1>7. CASE PurgeSupersededClaims
  BY <1>7 DEF PurgeSupersededClaims
<1> QED
  BY <1>3, <1>4, <1>5, <1>6, <1>7 DEF Next, OtherWriters

\* While a superseded row exists its superseder never changes: of two clean
\* runs that race for it, the first UPDATE wins for good.
THEOREM FirstSupersederWins == Spec => SupersessionIsFinal
<1>1. ASSUME TypeOK, [Next]_vars,
             NEW i \in DOMAIN claims, i \in DOMAIN claims', claims[i].by # 0
      PROVE  claims'[i].by = claims[i].by
  BY <1>1, RowFate DEF TypeOK, Claim, Unverified
<1>2. TypeOK /\ [Next]_vars =>
        [\A i \in DOMAIN claims \cap DOMAIN claims' :
           claims[i].by # 0 => claims'[i].by = claims[i].by]_vars
  BY <1>1
<1> QED
  BY <1>2, TypeCorrect, PTL DEF Spec, SupersessionIsFinal

\* An open claim leaves the list of open claims only because it was resolved
\* or because a clean verifier run, whose claim is there to be read,
\* superseded it; it is never deleted while open.
THEOREM OpenClaimsAreNotLost == Spec => OpenClaimsAreSettled
<1> DEFINE SettledOrOpen(i) ==
      \/ i \in Unverified'
      \/ /\ i \in DOMAIN claims'
         /\ \/ claims'[i].verified
            \/ /\ claims'[i].by \in DOMAIN claims'
               /\ claims'[claims'[i].by].vet = "ok"
<1>1. ASSUME LedgerInv, [Next]_vars, NEW i \in Unverified PROVE SettledOrOpen(i)
  <2>1. i \in DOMAIN claims /\ claims[i] \in Claim /\ claims[i].by = 0
    BY <1>1 DEF LedgerInv, TypeOK, Unverified
  <2>2. CASE i \in DOMAIN claims' /\ claims'[i] = claims[i]
    BY <1>1, <2>2 DEF Unverified
  <2>3. CASE /\ i \in DOMAIN claims'
             /\ claims'[i] = [claims[i] EXCEPT !.verified = TRUE]
    BY <2>1, <2>3 DEF Claim
  <2>4. ASSUME NEW h \in Hooks, hook[h].pc \in {"file", "rest"}, i \in DOMAIN claims',
               claims'[i] = [claims[i] EXCEPT !.by = hook[h].claim]
        PROVE  SettledOrOpen(i)
    <3>1. PICK k : k = hook[h].claim
      OBVIOUS
    <3>2. CleanRow(k)
      BY <1>1, <2>4, <3>1 DEF LedgerInv, PendingSound
    <3>3. k \in DOMAIN claims' /\ claims'[k].vet = "ok"
      BY <1>1, <3>2, CleanRowStable DEF LedgerInv, CleanRow
    <3>4. claims'[i].by = k
      BY <2>1, <2>4, <3>1 DEF Claim
    <3> QED
      BY <2>4, <3>3, <3>4
  <2> QED
    BY <1>1, <2>1, <2>2, <2>3, <2>4, RowFate DEF LedgerInv
<1>2. LedgerInv /\ [Next]_vars => [\A i \in Unverified : SettledOrOpen(i)]_vars
  BY <1>1
<1> QED
  BY <1>2, LedgerInvariant, PTL DEF Spec, OpenClaimsAreSettled

-----------------------------------------------------------------------------
(* Sessions that take turns                                                *)

\* The newest row carries the newest id and nothing superseded it, so purge
\* leaves it in place and the next id has never been used.
IdsInOrder ==
  /\ \A i \in DOMAIN claims : i <= recorded /\ claims[i].at = i
  /\ recorded # 0 => recorded \in DOMAIN claims /\ claims[recorded].by = 0

\* What a hook holds between its verifier run and its last UPDATE is at
\* least as recent as every row of the table.
SeenInOrder ==
  /\ \A i \in DOMAIN claims : claims[i].seen <= tree
  /\ \A h \in Hooks : hook[h].pc = "record" =>
       hook[h].seen <= tree /\ \A i \in DOMAIN claims : claims[i].seen <= hook[h].seen
  /\ \A h \in Hooks : hook[h].pc \in {"file", "rest"} =>
       /\ hook[h].claim = recorded
       /\ \A i \in DOMAIN claims : claims[i].seen <= claims[recorded].seen

LinksInOrder ==
  \A i \in DOMAIN claims :
    claims[i].by # 0 => claims[i].seen <= claims[claims[i].by].seen

SerialInv == LedgerInv /\ IdsInOrder /\ SeenInOrder /\ LinksInOrder

\* A step of sessions that still take turns after it.
SerialNext ==
  \/ Edit
  \/ \E h \in Hooks : /\ \A g \in Hooks \ {h} : hook[g].pc = "idle"
                      /\ HookStep(h)
  \/ (\A h \in Hooks : hook[h].pc = "idle") /\ OtherWriters

SerialStep == [Next]_vars /\ [SerialNext]_vars

\* Sessions that take turns after a step did so before it, and during it.
LEMMA TurnsAreKept ==
  ASSUME [Next]_vars, turns'
  PROVE  turns /\ SerialStep
<1>1. CASE Edit /\ UNCHANGED turns
  BY <1>1 DEF SerialNext, SerialStep
<1>2. ASSUME NEW h \in Hooks, HookStep(h), Alone({h}) PROVE turns /\ SerialStep
  BY <1>2, Zenon DEF SerialNext, SerialStep, Alone
<1>3. CASE OtherWriters /\ Alone({})
  BY <1>3 DEF SerialNext, SerialStep, Alone
<1>4. CASE UNCHANGED vars
  BY <1>4 DEF SerialStep, vars
<1> QED
  BY <1>1, <1>2, <1>3, <1>4 DEF Next

\* While a hook is busy it is the only one to act, apart from edits.
LEMMA BusyHookIsAlone ==
  ASSUME SerialStep, NEW g \in Hooks, hook[g].pc # "idle", ~HookStep(g)
  PROVE  UNCHANGED <<claims, recorded, hook>>
<1>1. CASE Edit \/ UNCHANGED vars
  BY <1>1 DEF Edit, vars
<1> QED
  BY <1>1 DEF SerialNext, SerialStep

\* A step inserts the next row or inserts nothing.
LEMMA InsertOrNot ==
  ASSUME TypeOK, [Next]_vars
  PROVE  \/ recorded' = recorded /\ DOMAIN claims' \subseteq DOMAIN claims
         \/ \E id \in Nat \ {0}, row \in Claim :
              /\ NextId(id) /\ Insert(id, row)
              /\ row.at = recorded + 1 /\ row.by = 0
              /\ \/ row.seen = 0
                 \/ \E h \in Hooks : hook[h].pc = "record" /\ row.seen = hook[h].seen
              /\ recorded' = recorded + 1
<1> DEFINE Kept == recorded' = recorded /\ DOMAIN claims' \subseteq DOMAIN claims
           Added == \E id \in Nat \ {0}, row \in Claim :
              /\ NextId(id) /\ Insert(id, row)
              /\ row.at = recorded + 1 /\ row.by = 0
              /\ \/ row.seen = 0
                 \/ \E h \in Hooks : hook[h].pc = "record" /\ row.seen = hook[h].seen
              /\ recorded' = recorded + 1
<1> SUFFICES Kept \/ Added
  OBVIOUS
<1>1. CASE Edit \/ UNCHANGED vars
  BY <1>1 DEF Edit, vars
<1>2. ASSUME NEW h \in Hooks, HookStep(h) PROVE Kept \/ Added
  <2>1. CASE StartHook(h) \/ RunVet(h) \/ StoreError(h) \/ Crash(h)
    BY <2>1 DEF StartHook, RunVet, StoreError, Crash
  <2>2. CASE RecordClaim(h)
    <3>1. PICK id \in 1 .. MaxRecords : NextId(id) /\ Insert(id, HookRow(h))
      BY <2>2 DEF RecordClaim
    <3>2. hook[h].pc = "record" /\ recorded' = recorded + 1
      BY <2>2 DEF RecordClaim
    <3>3. /\ HookRow(h).at = recorded + 1 /\ HookRow(h).by = 0
          /\ HookRow(h).seen = hook[h].seen
      BY DEF HookRow
    <3>4. HookRow(h) \in Claim /\ id \in Nat \ {0}
      BY HookRowType
    <3> QED
      BY <3>1, <3>2, <3>3, <3>4
  <2>3. CASE SupersedeClaimsForFile(h) \/ SupersedeOutstandingFailures(h)
    BY <2>3 DEF SupersedeClaimsForFile, SupersedeOutstandingFailures, Supersede
  <2> QED
    BY <1>2, <2>1, <2>2, <2>3 DEF HookStep
<1>3. CASE McpRecordClaim
  <2>1. PICK id \in 1 .. MaxRecords, f \in Files \cup {NoFile}, form \in Forms,
             v \in BOOLEAN : NextId(id) /\ Insert(id, McpRow(f, form, v))
    BY <1>3, Zenon DEF McpRecordClaim
  <2>2. recorded' = recorded + 1
    BY <1>3 DEF McpRecordClaim
  <2>3. /\ McpRow(f, form, v).at = recorded + 1 /\ McpRow(f, form, v).by = 0
        /\ McpRow(f, form, v).seen = 0
    BY DEF McpRow
  <2>4. McpRow(f, form, v) \in Claim /\ id \in Nat \ {0}
    BY McpRowType
  <2> QED
    BY <2>1, <2>2, <2>3, <2>4
<1>4. CASE ResolveClaim \/ PurgeSupersededClaims
  BY <1>4 DEF ResolveClaim, PurgeSupersededClaims
<1> QED
  BY <1>1, <1>2, <1>3, <1>4 DEF Next, OtherWriters

\* No UPDATE touches when a row was recorded or what its verifier saw.
LEMMA RowsKeepTheirTimes ==
  ASSUME TypeOK, [Next]_vars, NEW i \in DOMAIN claims, i \in DOMAIN claims'
  PROVE  claims'[i].at = claims[i].at /\ claims'[i].seen = claims[i].seen
<1>1. claims[i] \in Claim
  BY DEF TypeOK
<1>2. ASSUME NEW k PROVE /\ [claims[i] EXCEPT !.by = k].at = claims[i].at
                         /\ [claims[i] EXCEPT !.by = k].seen = claims[i].seen
  BY <1>1 DEF Claim
<1>3. /\ [claims[i] EXCEPT !.verified = TRUE].at = claims[i].at
      /\ [claims[i] EXCEPT !.verified = TRUE].seen = claims[i].seen
  BY <1>1 DEF Claim
<1> QED
  BY <1>2, <1>3, RowFate

\* When the newest row is in place, the next rowid is the next number.
LEMMA NextIdIsNext ==
  ASSUME TypeOK, IdsInOrder, NEW id \in Nat \ {0}, NextId(id)
  PROVE  id = recorded + 1
BY DEF TypeOK, IdsInOrder, NextId

LEMMA SerialIds ==
  ASSUME SerialInv, SerialStep PROVE IdsInOrder'
<1>1. TypeOK /\ [Next]_vars /\ recorded \in Nat
  BY DEF SerialStep, SerialInv, LedgerInv, TypeOK
<1>2. /\ \A i \in DOMAIN claims : i <= recorded /\ claims[i].at = i
      /\ recorded # 0 => recorded \in DOMAIN claims /\ claims[recorded].by = 0
      /\ DOMAIN claims \subseteq Nat
  BY <1>1 DEF SerialInv, IdsInOrder, TypeOK
<1>3. CASE recorded' = recorded /\ DOMAIN claims' \subseteq DOMAIN claims
  <2>1. \A i \in DOMAIN claims' : i <= recorded /\ claims'[i].at = i
    BY <1>1, <1>2, <1>3, RowsKeepTheirTimes
  <2>2. ASSUME recorded # 0
        PROVE  recorded \in DOMAIN claims' /\ claims'[recorded].by = 0
    <3>1. recorded \in DOMAIN claims /\ claims[recorded].by = 0 /\ claims[recorded] \in Claim
      BY <1>1, <1>2, <2>2 DEF TypeOK
    <3>2. ASSUME NEW h \in Hooks, hook[h].pc \in {"file", "rest"}
          PROVE  recorded \notin Unverified
      <4>1. hook[h].claim = recorded /\ CleanRow(hook[h].claim)
        BY <3>2 DEF SerialInv, SeenInOrder, LedgerInv, PendingSound
      <4> QED
        BY <4>1 DEF CleanRow, Unverified
    <3>3. [claims[recorded] EXCEPT !.verified = TRUE].by = 0
      BY <3>1 DEF Claim
    <3> QED
      BY <1>1, <3>1, <3>2, <3>3, RowFate
  <2> QED
    BY <1>3, <2>1, <2>2 DEF IdsInOrder
<1>4. ASSUME NEW id \in Nat \ {0}, NEW row \in Claim, NextId(id), Insert(id, row),
             row.at = recorded + 1, row.by = 0, recorded' = recorded + 1
      PROVE  IdsInOrder'
  <2>1. id = recorded + 1
    BY <1>1, <1>4, NextIdIsNext DEF SerialInv
  <2>2. /\ DOMAIN claims' = DOMAIN claims \cup {id}
        /\ claims'[id] = row
        /\ \A i \in DOMAIN claims : i # id => claims'[i] = claims[i]
    BY <1>4 DEF Insert
  <2> QED
    BY <1>1, <1>2, <1>4, <2>1, <2>2 DEF IdsInOrder
<1> QED
  BY <1>1, <1>3, <1>4, InsertOrNot

LEMMA SerialLinks ==
  ASSUME SerialInv, SerialStep PROVE LinksInOrder'
<1>1. TypeOK /\ [Next]_vars /\ LedgerInv
  BY DEF SerialStep, SerialInv, LedgerInv
<1>2. ASSUME NEW i \in DOMAIN claims', claims'[i].by # 0
      PROVE  claims'[i].seen <= claims'[claims'[i].by].seen
  <2>1. PICK k : k = claims'[i].by
    OBVIOUS
  <2>2. i \in DOMAIN claims /\ CleanRow(k) /\ claims[i].seen <= claims[k].seen
    <3>1. CASE i \in DOMAIN claims /\ k = claims[i].by
      BY <1>1, <1>2, <2>1, <3>1 DEF SerialInv, LinksInOrder, LedgerInv, SupersederSound
    <3>2. ASSUME NEW h \in Hooks, hook[h].pc \in {"file", "rest"}, i \in Unverified,
                 k = hook[h].claim
          PROVE  i \in DOMAIN claims /\ CleanRow(k) /\ claims[i].seen <= claims[k].seen
      <4>1. i \in DOMAIN claims /\ k = recorded
        BY <3>2 DEF Unverified, SerialInv, SeenInOrder
      <4> QED
        BY <1>1, <3>2, <4>1 DEF SerialInv, SeenInOrder, LedgerInv, PendingSound
    <3> QED
      BY <1>1, <1>2, <2>1, <3>1, <3>2, LinkComesFromHook
  <2>3. claims'[k] = claims[k]
    BY <1>1, <2>2, CleanRowStable
  <2>4. claims'[i].seen = claims[i].seen
    BY <1>1, <1>2, <2>2, RowsKeepTheirTimes
  <2> QED
    BY <2>1, <2>2, <2>3, <2>4
<1> QED
  BY <1>2 DEF LinksInOrder

\* The tree's version only grows.
LEMMA TreeGrows ==
  ASSUME TypeOK, [Next]_vars
  PROVE  tree \in Nat /\ tree' \in Nat /\ tree <= tree'
<1>1. tree \in Nat
  BY DEF TypeOK
<1>2. CASE Edit
  BY <1>1, <1>2 DEF Edit
<1>3. ASSUME NEW h \in Hooks, HookStep(h) PROVE tree' = tree
  BY <1>3 DEF HookStep, StartHook, RunVet, RecordClaim, SupersedeClaimsForFile,
       SupersedeOutstandingFailures, StoreError, Crash
<1>4. ASSUME OtherWriters \/ UNCHANGED vars PROVE tree' = tree
  BY <1>4, Zenon DEF OtherWriters, McpRecordClaim, ResolveClaim, PurgeSupersededClaims, vars
<1>5. Edit \/ (\E h \in Hooks : HookStep(h)) \/ OtherWriters \/ UNCHANGED vars
  BY Zenon DEF Next
<1> QED
  BY <1>1, <1>2, <1>3, <1>4, <1>5

\* A process moves by its own steps only.
LEMMA OthersStay ==
  ASSUME TypeOK, [Next]_vars, NEW g \in Hooks, ~HookStep(g)
  PROVE  hook'[g] = hook[g]
<1>1. ASSUME NEW h \in Hooks, HookStep(h), h # g PROVE hook'[g] = hook[g]
  BY <1>1 DEF HookStep, StartHook, RunVet, RecordClaim, SupersedeClaimsForFile,
       SupersedeOutstandingFailures, StoreError, Crash, TypeOK
<1>2. CASE Edit \/ OtherWriters \/ UNCHANGED vars
  BY <1>2 DEF Edit, OtherWriters, McpRecordClaim, ResolveClaim, PurgeSupersededClaims, vars
<1> QED
  BY <1>1, <1>2 DEF Next

\* No row was seen on a later tree than today's.
LEMMA SerialRowsSeen ==
  ASSUME SerialInv, SerialStep
  PROVE  \A i \in DOMAIN claims' : claims'[i].seen <= tree'
<1>1. TypeOK /\ [Next]_vars
  BY DEF SerialStep, SerialInv, LedgerInv
<1>2. tree \in Nat /\ tree' \in Nat /\ tree <= tree'
  BY <1>1, TreeGrows
<1>3. \A i \in DOMAIN claims : claims[i].seen \in Nat /\ claims[i].seen <= tree
  BY <1>1 DEF SerialInv, SeenInOrder, TypeOK, Claim
<1>4. ASSUME NEW i \in DOMAIN claims', i \in DOMAIN claims
      PROVE  claims'[i].seen <= tree'
  <2>1. claims'[i].seen = claims[i].seen
    BY <1>1, <1>4, RowsKeepTheirTimes
  <2> QED
    BY <1>2, <1>3, <1>4, <2>1
<1>5. ASSUME NEW id \in Nat \ {0}, NEW row \in Claim, Insert(id, row),
             \/ row.seen = 0
             \/ \E h \in Hooks : hook[h].pc = "record" /\ row.seen = hook[h].seen
      PROVE  \A i \in DOMAIN claims' : claims'[i].seen <= tree'
  <2>1. row.seen \in Nat /\ row.seen <= tree
    BY <1>2, <1>5 DEF SerialInv, SeenInOrder, Claim
  <2>2. \A i \in DOMAIN claims' : i \notin DOMAIN claims => claims'[i] = row
    BY <1>5 DEF Insert
  <2> QED
    BY <1>2, <1>4, <2>1, <2>2
<1> QED
  BY <1>1, <1>4, <1>5, InsertOrNot

LEMMA SerialSeen ==
  ASSUME SerialInv, SerialStep PROVE SeenInOrder'
<1> DEFINE Holds(r, rec, tab, t) ==
      /\ r.pc = "record" => r.seen <= t /\ \A i \in DOMAIN tab : tab[i].seen <= r.seen
      /\ r.pc \in {"file", "rest"} =>
           r.claim = rec /\ \A i \in DOMAIN tab : tab[i].seen <= tab[rec].seen
<1>1. TypeOK /\ [Next]_vars /\ LedgerInv /\ hook \in [Hooks -> Hook]
  BY DEF SerialStep, SerialInv, LedgerInv, TypeOK
<1>2. \A i \in DOMAIN claims' : claims'[i].seen <= tree'
  BY SerialRowsSeen
<1>3. \A h \in Hooks : Holds(hook[h], recorded, claims, tree)
  BY DEF SerialInv, SeenInOrder
<1>4. ASSUME NEW g \in Hooks PROVE Holds(hook'[g], recorded', claims', tree')
  <2>1. CASE HookStep(g)
    <3>1. CASE StartHook(g)
      BY <1>1, <3>1 DEF StartHook, Idle
    <3>2. CASE RunVet(g)
      <4>1. PICK v : hook' = [hook EXCEPT ![g] =
                       [hook[g] EXCEPT !.pc = "record", !.vet = v, !.seen = tree]]
        BY <3>2 DEF RunVet
      <4>2. hook'[g].pc = "record" /\ hook'[g].seen = tree
        BY <1>1, <4>1 DEF Hook
      <4>3. tree' = tree /\ tree \in Nat
        BY <1>1, <3>2 DEF RunVet, TypeOK
      <4> QED
        BY <1>2, <4>2, <4>3
    <3>3. CASE RecordClaim(g)
      <4>1. PICK id \in 1 .. MaxRecords :
              /\ NextId(id)
              /\ Insert(id, HookRow(g))
              /\ hook' = [hook EXCEPT ![g] =
                     IF HookVerified(g) /\ hook[g].vet # "skipped"
                     THEN [Idle EXCEPT !.pc = "file", !.file = hook[g].file, !.claim = id]
                     ELSE Idle]
        BY <3>3 DEF RecordClaim
      <4>2. hook[g].pc = "record" /\ recorded' = recorded + 1
        BY <3>3 DEF RecordClaim
      <4>3. id \in Nat \ {0} /\ id = recorded + 1
        BY <1>1, <4>1, NextIdIsNext DEF SerialInv
      <4>4. hook'[g].pc \in {"idle", "file"} /\ (hook'[g].pc = "file" => hook'[g].claim = id)
        BY <1>1, <4>1 DEF Idle
      <4>5. /\ DOMAIN claims' = DOMAIN claims \cup {id}
            /\ claims'[id].seen = hook[g].seen
            /\ \A i \in DOMAIN claims : i # id => claims'[i] = claims[i]
        BY <4>1 DEF Insert, HookRow
      <4>6. hook[g].seen \in Nat /\ \A i \in DOMAIN claims : claims[i].seen <= hook[g].seen
        BY <1>1, <1>3, <4>2 DEF Hook
      <4>7. \A i \in DOMAIN claims' : claims'[i].seen <= claims'[id].seen
        BY <4>5, <4>6
      <4> QED
        BY <4>2, <4>3, <4>4, <4>7
    <3>4. CASE SupersedeClaimsForFile(g)
      <4>1. hook[g].pc = "file" /\ recorded' = recorded
        BY <3>4 DEF SupersedeClaimsForFile
      <4>2. hook'[g].pc = "rest" /\ hook'[g].claim = hook[g].claim
        BY <1>1, <3>4 DEF SupersedeClaimsForFile, Hook
      <4>3. DOMAIN claims' = DOMAIN claims
        BY <3>4 DEF SupersedeClaimsForFile, Supersede
      <4>4. recorded \in DOMAIN claims
        <5>1. hook[g].claim = recorded
          BY <1>3, <4>1
        <5> QED
          BY <1>1, <4>1, <5>1 DEF LedgerInv, PendingSound, CleanRow
      <4>5. \A i \in DOMAIN claims : claims'[i].seen = claims[i].seen
        BY <1>1, <4>3, RowsKeepTheirTimes
      <4> QED
        BY <1>3, <4>1, <4>2, <4>3, <4>4, <4>5
    <3>5. CASE SupersedeOutstandingFailures(g) \/ Crash(g)
      BY <1>1, <3>5 DEF SupersedeOutstandingFailures, Crash, Idle
    <3>6. CASE StoreError(g)
      <4>1. CASE hook[g].pc = "file"
        <5>1. hook'[g].pc = "rest" /\ hook'[g].claim = hook[g].claim
          BY <1>1, <3>6, <4>1 DEF StoreError, Hook
        <5>2. UNCHANGED <<tree, claims, recorded>>
          BY <3>6 DEF StoreError
        <5> QED
          BY <1>3, <4>1, <5>1, <5>2
      <4>2. CASE hook[g].pc # "file"
        BY <1>1, <3>6, <4>2 DEF StoreError, Idle
      <4> QED
        BY <4>1, <4>2
    <3> QED
      BY <2>1, <3>1, <3>2, <3>3, <3>4, <3>5, <3>6 DEF HookStep
  <2>2. CASE ~HookStep(g) /\ hook[g].pc # "idle"
    <3>1. UNCHANGED <<claims, recorded, hook>>
      BY <2>2, BusyHookIsAlone
    <3>2. hook[g].seen \in Nat /\ tree \in Nat /\ tree' \in Nat /\ tree <= tree'
      BY <1>1, TreeGrows DEF Hook
    <3> QED
      BY <1>3, <3>1, <3>2
  <2>3. CASE ~HookStep(g) /\ hook[g].pc = "idle"
    <3>1. hook'[g] = hook[g]
      BY <1>1, <2>3, OthersStay
    <3> QED
      BY <2>3, <3>1
  <2> QED
    BY <2>1, <2>2, <2>3
<1> QED
  BY <1>2, <1>4 DEF SeenInOrder

LEMMA SerialInvariant == Spec => [](turns => SerialInv)
<1>1. Init => (turns => SerialInv)
  BY InitLedgerInv DEF Init, SerialInv, IdsInOrder, SeenInOrder, LinksInOrder, Idle
<1>2. (turns => SerialInv) /\ [Next]_vars => (turns => SerialInv)'
  <2> SUFFICES ASSUME turns => SerialInv, [Next]_vars, turns' PROVE SerialInv'
    OBVIOUS
  <2>1. SerialInv /\ SerialStep
    BY TurnsAreKept
  <2> QED
    BY <2>1, NextLedgerInv, SerialIds, SerialSeen, SerialLinks DEF SerialInv
<1> QED
  BY <1>1, <1>2, PTL DEF Spec

\* As long as sessions have taken turns, a clean run hides no failure seen on
\* a later tree than the one it looked at (SupersedeOutstandingFailures).
THEOREM HiddenFailuresAreStale == Spec => []HiddenFailureIsStale
<1>1. (turns => SerialInv) => HiddenFailureIsStale
  BY DEF SerialInv, LinksInOrder, HiddenFailureIsStale
<1> QED
  BY <1>1, SerialInvariant, PTL

\* Nor has an id an operator was shown come to name another claim, although
\* the column has no AUTOINCREMENT: the newest row is never purged.
THEOREM IdsNameOneClaim == Spec => []IdsAreNeverReused
<1>1. (turns => SerialInv) => IdsAreNeverReused
  BY DEF SerialInv, IdsInOrder, IdsAreNeverReused
<1> QED
  BY <1>1, SerialInvariant, PTL

=============================================================================
