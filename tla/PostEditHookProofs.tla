------------------------- MODULE PostEditHookProofs -------------------------
(***************************************************************************)
(* Proofs about PostEditHook, for any hooks, sessions, edits, adapters,    *)
(* commands and any bounds.                                                *)
(***************************************************************************)
EXTENDS PostEditHook, FiniteSetTheorems, TLAPS

\* The operator is asked about a command.
ACommandIsShown == operator.pc # "idle" => operator.shown \in Commands

\* Where a hook is that has a claim, or has no need of one.
PastRecord ==
  {"pending", "stat", "truncate", "header", "append", "draft", "reply", "done"}

-----------------------------------------------------------------------------
(* Types                                                                   *)

\* The next adapter's first step is a step of a hook that has not begun it.
LEMMA NextAdapter ==
  ASSUME NEW h
  PROVE  /\ AfterCode(h) \in {"pending", "draft", "reply"}
         /\ AfterGroundTruth(h) \in {"draft", "reply"}
BY DEF AfterCode, AfterGroundTruth

\* What a step of a hook leaves in its place.
LEMMA HookTypes ==
  ASSUME TypeOK, NEW h \in Hooks, StartHook(h) \/ HookStep(h) \/ Watchdog(h)
  PROVE  hook' \in [Hooks -> Hook]
<1> USE PostEditHookAssumption, NextAdapter
<1>1. /\ hook \in [Hooks -> Hook] /\ hook[h] \in Hook
      /\ config \in Commands \cup {NoCommand, Malformed}
  BY DEF TypeOK
<1>2. ASSUME NEW r \in Hook, Set(h, r) PROVE hook' \in [Hooks -> Hook]
  BY <1>1, <1>2 DEF Set
<1>3. ASSUME NEW pc \in {"ready", "trust", "vet", "hung", "record", "pending", "stat",
                         "truncate", "header", "append", "draft", "reply"} \cup Ended
      PROVE  [hook[h] EXCEPT !.pc = pc] \in Hook
  BY <1>1 DEF Hook
<1>4. CASE StartHook(h)
  <2>1. ASSUME config # Malformed, NEW pc \in {"trust", AfterCode(h)}
        PROVE  [hook[h] EXCEPT !.cfg = config, !.pc = pc] \in Hook
    BY <1>1, <2>1 DEF Hook
  <2> QED
    BY <1>2, <1>3, <1>4, <2>1 DEF StartHook, Ended
<1>5. CASE CheckTrust(h)
  <2>1. PICK yes \in BOOLEAN :
          Set(h, IF hook[h].edit.where = "inside"
                 THEN [hook[h] EXCEPT !.pc = "vet",
                         !.runner = IF yes THEN hook[h].cfg ELSE DefaultVet]
                 ELSE [hook[h] EXCEPT !.pc = AfterCode(h), !.told = TRUE])
    BY <1>5 DEF CheckTrust
  <2>2. \A c \in Commands \cup {NoCommand, Malformed} :
          [hook[h] EXCEPT !.pc = "vet", !.runner = c] \in Hook
    BY <1>1 DEF Hook
  <2>3. (IF yes THEN hook[h].cfg ELSE DefaultVet) \in Commands \cup {NoCommand, Malformed}
    BY <1>1 DEF Hook, DefaultVet
  <2>4. [hook[h] EXCEPT !.pc = AfterCode(h), !.told = TRUE] \in Hook
    BY <1>1 DEF Hook
  <2> QED
    BY <1>2, <2>1, <2>2, <2>3, <2>4
<1>6. CASE RunVet(h)
  <2>1. \A ok \in BOOLEAN : \A v \in {"ok", "failed"} :
          /\ [hook[h] EXCEPT !.pc = "record", !.indexed = ok] \in Hook
          /\ [hook[h] EXCEPT !.pc = "record", !.indexed = ok, !.vet = v] \in Hook
    BY <1>1 DEF Hook
  <2> QED
    BY <1>2, <1>3, <1>6, <2>1 DEF RunVet
<1>7. CASE RecordClaim(h)
  <2>1. /\ [hook[h] EXCEPT !.pc = AfterCode(h), !.told = ModelContext(h)] \in Hook
        /\ [hook[h] EXCEPT !.pc = AfterCode(h), !.lost = TRUE] \in Hook
    BY <1>1 DEF Hook, ModelContext, Failed
  <2> QED
    BY <1>2, <1>7, <2>1 DEF RecordClaim
<1>8. CASE \/ NothingPending(h) \/ AppendPendingAudit(h) \/ StatAudit(h)
           \/ TruncateAudit(h) \/ WriteHeader(h) \/ AppendAudit(h)
           \/ DraftDecision(h) \/ Reply(h) \/ Watchdog(h)
  <2>1. \E pc \in {"stat", "truncate", "header", "append", "draft", "reply", "done", "killed"} :
          Set(h, [hook[h] EXCEPT !.pc = pc])
    BY <1>8 DEF NothingPending, AppendPendingAudit, StatAudit, TruncateAudit,
                WriteHeader, AppendAudit, DraftDecision, Reply, Watchdog
  <2> QED
    BY <1>2, <1>3, <2>1 DEF Ended
<1> QED
  BY <1>4, <1>5, <1>6, <1>7, <1>8 DEF HookStep

\* A line of the pending log, whole or cut off.
LEMMA PendingTypes ==
  ASSUME TypeOK, NEW h \in Hooks, NEW whole \in BOOLEAN
  PROVE  WithEntry(h, whole) \in Seq(Line)
<1> DEFINE long == hook[h].edit.flags = "long"
<1>1. pending \in Seq(Line)
  BY DEF TypeOK
<1>2. long \in BOOLEAN
  OBVIOUS
<1>3. CASE ~OnOpenLine
  <2>1. [of |-> {h}, closed |-> whole, json |-> whole, long |-> long] \in Line
    BY <1>2 DEF Line
  <2> QED
    BY <1>1, <1>3, <2>1 DEF WithEntry
<1>4. CASE OnOpenLine
  <2>1. LastLine \in Line /\ Len(pending) \in DOMAIN pending
    BY <1>1, <1>4 DEF OnOpenLine, LastLine
  <2>2. LastLine.long \in BOOLEAN /\ LastLine.of \cup {h} \in SUBSET Hooks
    BY <2>1 DEF Line
  <2>3. (LastLine.long \/ long) \in BOOLEAN
    OBVIOUS
  <2>4. [of |-> LastLine.of \cup {h}, closed |-> whole, json |-> FALSE,
         long |-> LastLine.long \/ long] \in Line
    BY <2>2, <2>3 DEF Line
  <2> HIDE DEF long
  <2>5. ASSUME NEW r \in Line PROVE [pending EXCEPT ![Len(pending)] = r] \in Seq(Line)
    BY <1>1, <2>1
  <2> QED
    BY <1>4, <2>4, <2>5 DEF WithEntry, long
<1> QED
  BY <1>3, <1>4

LEMMA TypeInit == Init => TypeOK /\ ACommandIsShown
<1> SUFFICES ASSUME Init PROVE TypeOK /\ ACommandIsShown
  OBVIOUS
<1> USE PostEditHookAssumption
<1>1. \A s \in Sessions, e \in Edits, on \in Enabled : Ready(s, e, on) \in Hook
  BY DEF Ready, Hook
<1>2. hook \in [Hooks -> Hook]
  BY <1>1 DEF Init
<1>3. operator \in [pc : {"idle", "ask", "write"}, shown : Commands \cup {NoCommand}]
  BY DEF Init
<1>4. audit \in [header : BOOLEAN, entries : Seq(Hooks)] /\ pending \in Seq(Line)
  BY DEF Init
<1>5. events \in Nat /\ faults \in Nat
  BY DEF Init
<1> QED
  BY <1>2, <1>3, <1>4, <1>5 DEF Init, TypeOK, ACommandIsShown

\* What the operator does.
LEMMA TypeCli ==
  ASSUME TypeOK, ACommandIsShown,
         EditConfig \/ ShowCommand \/ Confirm \/ WriteTrustedFingerprint \/ Decline
  PROVE  TypeOK' /\ ACommandIsShown'
<1>1. /\ operator \in [pc : {"idle", "ask", "write"}, shown : Commands \cup {NoCommand}]
      /\ operator.pc # "idle" => operator.shown \in Commands
  BY DEF TypeOK, ACommandIsShown
<1>2. ASSUME EditConfig PROVE TypeOK' /\ ACommandIsShown'
  BY <1>1, <1>2 DEF TypeOK, ACommandIsShown, EditConfig, fileVars, history
<1>3. ASSUME ShowCommand PROVE TypeOK' /\ ACommandIsShown'
  BY <1>1, <1>3 DEF TypeOK, ACommandIsShown, ShowCommand, fileVars, history
<1>4. ASSUME Confirm PROVE TypeOK' /\ ACommandIsShown'
  <2>1. [operator EXCEPT !.pc = "write"]
          \in [pc : {"idle", "ask", "write"}, shown : Commands \cup {NoCommand}]
    BY <1>1
  <2> QED
    BY <1>1, <1>4, <2>1 DEF TypeOK, ACommandIsShown, Confirm, fileVars, history
<1>5. ASSUME WriteTrustedFingerprint PROVE TypeOK' /\ ACommandIsShown'
  <2>1. approved' \in [Hooks -> SUBSET Commands]
    BY <1>1, <1>5 DEF TypeOK, WriteTrustedFingerprint, Approve
  <2> QED
    BY <1>1, <1>5, <2>1 DEF TypeOK, ACommandIsShown, WriteTrustedFingerprint, Approve, fileVars
<1>6. ASSUME Decline PROVE TypeOK' /\ ACommandIsShown'
  BY <1>1, <1>6 DEF TypeOK, ACommandIsShown, Decline, fileVars, history
<1> QED
  BY <1>2, <1>3, <1>4, <1>5, <1>6

\* What a hook does.
LEMMA TypeHook ==
  ASSUME TypeOK, ACommandIsShown, NEW h \in Hooks,
         StartHook(h) \/ HookStep(h) \/ Watchdog(h)
  PROVE  TypeOK' /\ ACommandIsShown'
<1> USE PostEditHookAssumption
<1>1. hook' \in [Hooks -> Hook]
  BY HookTypes
<1>2. Fine \/ Fault => faults' \in Nat
  BY DEF TypeOK, Fine, Fault
<1>3. UNCHANGED cliVars => ACommandIsShown'
  BY DEF ACommandIsShown, cliVars
<1>4. ASSUME StartHook(h) PROVE TypeOK' /\ ACommandIsShown'
  <2>1. approved' \in [Hooks -> SUBSET Commands]
    BY <1>4 DEF TypeOK, StartHook
  <2> QED
    BY <1>1, <1>2, <1>3, <1>4, <2>1 DEF TypeOK, StartHook, cliVars, fileVars
<1>5. ASSUME \/ CheckTrust(h) \/ RunVet(h) \/ NothingPending(h) \/ StatAudit(h)
             \/ Reply(h) \/ Watchdog(h)
      PROVE  TypeOK' /\ ACommandIsShown'
  <2>1. UNCHANGED <<cliVars, fileVars, history>> /\ (Fine \/ Fault)
    BY <1>5 DEF CheckTrust, RunVet, NothingPending, StatAudit, Reply, Watchdog
  <2> QED
    BY <1>1, <1>2, <1>3, <2>1 DEF TypeOK, cliVars, fileVars, history
<1>6. ASSUME RecordClaim(h) PROVE TypeOK' /\ ACommandIsShown'
  BY <1>1, <1>2, <1>3, <1>6 DEF TypeOK, RecordClaim, cliVars, history
<1>7. ASSUME AppendPendingAudit(h) PROVE TypeOK' /\ ACommandIsShown'
  <2>1. WithEntry(h, TRUE) \in Seq(Line) /\ WithEntry(h, FALSE) \in Seq(Line)
    BY PendingTypes
  <2>2. \/ pending' = WithEntry(h, TRUE) \/ pending' = WithEntry(h, FALSE)
        \/ pending' = pending
    BY <1>7 DEF AppendPendingAudit
  <2>3. pending' \in Seq(Line)
    BY <2>1, <2>2 DEF TypeOK
  <2> QED
    BY <1>1, <1>2, <1>3, <1>7, <2>3 DEF TypeOK, AppendPendingAudit, cliVars
<1>8. ASSUME TruncateAudit(h) PROVE TypeOK' /\ ACommandIsShown'
  <2>1. /\ audit' = [header |-> FALSE, entries |-> <<>>] \/ audit' = audit
        /\ Fine \/ Fault
        /\ UNCHANGED <<cliVars, claims, pending, drafts, history>>
    BY <1>8, Zenon DEF TruncateAudit
  <2>2. audit' \in [header : BOOLEAN, entries : Seq(Hooks)]
    <3>1. audit \in [header : BOOLEAN, entries : Seq(Hooks)]
      BY DEF TypeOK
    <3>2. [header |-> FALSE, entries |-> <<>>] \in [header : BOOLEAN, entries : Seq(Hooks)]
      OBVIOUS
    <3> QED
      BY <2>1, <3>1, <3>2, Zenon
  <2> QED
    BY <1>1, <1>2, <1>3, <2>1, <2>2 DEF TypeOK, cliVars, history
<1>9. ASSUME WriteHeader(h) PROVE TypeOK' /\ ACommandIsShown'
  <2>1. audit.entries \in Seq(Hooks)
    BY DEF TypeOK
  <2>2. audit.entries # <<>> => Tail(audit.entries) \in Seq(Hooks)
    BY <2>1
  <2> DEFINE entries == IF audit.header \/ audit.entries = <<>>
                        THEN audit.entries ELSE Tail(audit.entries)
             headed == [header |-> TRUE, entries |-> entries]
  <2>3. audit \in [header : BOOLEAN, entries : Seq(Hooks)]
    BY DEF TypeOK
  <2>4. headed \in [header : BOOLEAN, entries : Seq(Hooks)]
    <3>1. entries \in Seq(Hooks)
      BY <2>1, <2>2
    <3> QED
      BY <3>1
  <2>5. /\ audit' = headed \/ audit' \in {audit, headed}
        /\ Fine \/ Fault
        /\ UNCHANGED <<cliVars, claims, pending, drafts, history>>
    BY <1>9, Zenon DEF WriteHeader
  <2> HIDE DEF headed
  <2>6. audit' \in [header : BOOLEAN, entries : Seq(Hooks)]
    BY <2>3, <2>4, <2>5
  <2> QED
    BY <1>1, <1>2, <1>3, <2>5, <2>6 DEF TypeOK, cliVars, history
<1>10. ASSUME AppendAudit(h) PROVE TypeOK' /\ ACommandIsShown'
  <2>1. audit \in [header : BOOLEAN, entries : Seq(Hooks)]
    BY DEF TypeOK
  <2>2. [audit EXCEPT !.entries = Append(@, h)] \in [header : BOOLEAN, entries : Seq(Hooks)]
    BY <2>1
  <2>3. added' \subseteq Hooks /\ exposed' \subseteq Hooks
    BY <1>10 DEF TypeOK, AppendAudit
  <2> QED
    BY <1>1, <1>2, <1>3, <1>10, <2>1, <2>2, <2>3 DEF TypeOK, AppendAudit, cliVars
<1>11. ASSUME DraftDecision(h) PROVE TypeOK' /\ ACommandIsShown'
  BY <1>1, <1>2, <1>3, <1>11 DEF TypeOK, DraftDecision, cliVars, history
<1> QED
  BY <1>4, <1>5, <1>6, <1>7, <1>8, <1>9, <1>10, <1>11 DEF HookStep

LEMMA TypeNext ==
  ASSUME TypeOK, ACommandIsShown, [Next]_vars
  PROVE  TypeOK' /\ ACommandIsShown'
<1>1. CASE UNCHANGED vars
  BY <1>1 DEF TypeOK, ACommandIsShown, vars, cliVars, fileVars, history
<1>2. CASE Next
  BY <1>2, TypeCli, TypeHook DEF Next
<1> QED
  BY <1>1, <1>2

\* The files, the processes and the histories keep their types.
THEOREM PostEditTypeCorrect == Spec => [](TypeOK /\ ACommandIsShown)
BY TypeInit, TypeNext, PTL DEF Spec

-----------------------------------------------------------------------------
(* What a step leaves of a hook                                            *)

\* Nobody else's process changes; of the hook itself only the place it is at,
\* but for the steps that read config.toml, choose, run and record.
LEMMA StepsOfAHook ==
  ASSUME TypeOK, NEW h \in Hooks, StartHook(h) \/ HookStep(h) \/ Watchdog(h)
  PROVE  /\ \A g \in Hooks : g # h => hook'[g] = hook[g]
         /\ \/ StartHook(h) \/ CheckTrust(h) \/ RunVet(h) \/ RecordClaim(h)
            \/ /\ hook'[h].runner = hook[h].runner /\ hook'[h].vet = hook[h].vet
               /\ hook'[h].indexed = hook[h].indexed
               /\ hook'[h].told = hook[h].told /\ hook'[h].lost = hook[h].lost
               /\ claims' = claims
               /\ \/ hook[h].pc \in PastRecord /\ hook'[h].pc \in PastRecord
                  \/ hook'[h].pc = "killed"
<1>1. hook \in [Hooks -> Hook] /\ hook[h] \in Hook
  BY DEF TypeOK
<1>2. ASSUME NEW r, Set(h, r)
      PROVE  hook'[h] = r /\ \A g \in Hooks : g # h => hook'[g] = hook[g]
  BY <1>1, <1>2 DEF Set
<1>3. \E r : Set(h, r)
  <2>1. CASE StartHook(h)
    BY <2>1 DEF StartHook
  <2>2. CASE HookStep(h)
    <3>1. CASE CheckTrust(h)
      BY <3>1 DEF CheckTrust
    <3>2. CASE RunVet(h)
      BY <3>2 DEF RunVet
    <3>3. CASE RecordClaim(h)
      BY <3>3 DEF RecordClaim
    <3> QED
      BY <2>2, <3>1, <3>2, <3>3 DEF HookStep, NothingPending, AppendPendingAudit, StatAudit,
         TruncateAudit, WriteHeader, AppendAudit, DraftDecision, Reply
  <2>3. CASE Watchdog(h)
    BY <2>3 DEF Watchdog
  <2> QED
    BY <2>1, <2>2, <2>3
<1>4. ASSUME NEW pc, Set(h, [hook[h] EXCEPT !.pc = pc])
      PROVE  /\ hook'[h].runner = hook[h].runner /\ hook'[h].vet = hook[h].vet
             /\ hook'[h].indexed = hook[h].indexed
             /\ hook'[h].told = hook[h].told /\ hook'[h].lost = hook[h].lost
             /\ hook'[h].pc = pc
  BY <1>1, <1>2, <1>4 DEF Hook
<1>5. ASSUME NothingPending(h) \/ AppendPendingAudit(h) \/ StatAudit(h)
             \/ TruncateAudit(h) \/ WriteHeader(h) \/ AppendAudit(h)
             \/ DraftDecision(h) \/ Reply(h)
      PROVE  /\ hook[h].pc \in PastRecord /\ claims' = claims
             /\ \E pc \in PastRecord : Set(h, [hook[h] EXCEPT !.pc = pc])
  <2>1. AfterGroundTruth(h) \in PastRecord
    BY NextAdapter DEF PastRecord
  <2> QED
    BY <1>5, <2>1 DEF PastRecord, NothingPending, AppendPendingAudit, StatAudit,
       TruncateAudit, WriteHeader, AppendAudit, DraftDecision, Reply, fileVars
<1>6. ASSUME Watchdog(h)
      PROVE  claims' = claims /\ Set(h, [hook[h] EXCEPT !.pc = "killed"])
  BY <1>6 DEF Watchdog, fileVars
<1> QED
  BY <1>2, <1>3, <1>4, <1>5, <1>6 DEF HookStep

LEMMA RunVetSets ==
  ASSUME TypeOK, NEW h \in Hooks, RunVet(h)
  PROVE  /\ hook'[h].runner = hook[h].runner
         /\ hook'[h].pc \in {"record", "hung"}
<1>1. hook \in [Hooks -> Hook] /\ hook[h] \in Hook
  BY DEF TypeOK
<1>2. PICK ok \in BOOLEAN, v \in {"ok", "failed"} :
        \/ Set(h, [hook[h] EXCEPT !.pc = "record", !.indexed = ok])
        \/ Set(h, [hook[h] EXCEPT !.pc = "record", !.indexed = ok, !.vet = v])
        \/ Set(h, [hook[h] EXCEPT !.pc = "hung"])
  BY DEF RunVet
<1>3. CASE Set(h, [hook[h] EXCEPT !.pc = "record", !.indexed = ok])
  BY <1>1, <1>3 DEF Set, Hook
<1>4. CASE Set(h, [hook[h] EXCEPT !.pc = "record", !.indexed = ok, !.vet = v])
  BY <1>1, <1>4 DEF Set, Hook
<1>5. CASE Set(h, [hook[h] EXCEPT !.pc = "hung"])
  BY <1>1, <1>5 DEF Set, Hook
<1> QED
  BY <1>2, <1>3, <1>4, <1>5

LEMMA RecordClaimSets ==
  ASSUME TypeOK, NEW h \in Hooks, RecordClaim(h)
  PROVE  /\ hook'[h].runner = hook[h].runner
         /\ hook'[h].vet = hook[h].vet /\ hook'[h].indexed = hook[h].indexed
         /\ hook'[h].pc = AfterCode(h)
         /\ \/ claims' = claims \cup {h} /\ hook'[h].told = Failed(h)
            \/ claims' = claims /\ hook'[h].lost
<1>1. hook \in [Hooks -> Hook] /\ hook[h] \in Hook
  BY DEF TypeOK
<1>2. CASE /\ Set(h, [hook[h] EXCEPT !.pc = AfterCode(h), !.told = ModelContext(h)])
           /\ claims' = claims \cup {h}
  BY <1>1, <1>2 DEF Set, Hook, ModelContext
<1>3. CASE /\ Set(h, [hook[h] EXCEPT !.pc = AfterCode(h), !.lost = TRUE])
           /\ claims' = claims
  BY <1>1, <1>3 DEF Set, Hook
<1> QED
  BY <1>2, <1>3 DEF RecordClaim

-----------------------------------------------------------------------------
(* Only approved commands run                                              *)

\* While a hook runs, the stored fingerprint is one of a command approved
\* since before it began.
TrustIsApproved ==
  \A h \in Hooks : hook[h].pc \notin Ended \cup {"ready"} /\ trust # NoCommand
                     => trust \in approved[h]

ApprovalInv == TrustIsApproved /\ OnlyApprovedRuns

LEMMA ApprovalInit == Init => ApprovalInv
<1> SUFFICES ASSUME Init PROVE ApprovalInv
  OBVIOUS
<1>1. \A h \in Hooks : hook[h].pc = "ready" /\ hook[h].runner = NoCommand
  BY DEF Init, Ready
<1> QED
  BY <1>1, PostEditHookAssumption DEF ApprovalInv, TrustIsApproved, OnlyApprovedRuns

LEMMA ApprovalCli ==
  ASSUME TypeOK, ApprovalInv,
         EditConfig \/ ShowCommand \/ Confirm \/ WriteTrustedFingerprint \/ Decline
  PROVE  ApprovalInv'
<1>1. hook' = hook
  BY DEF EditConfig, ShowCommand, Confirm, WriteTrustedFingerprint, Decline
<1>2. \A h \in Hooks : approved[h] \subseteq approved'[h]
  BY DEF TypeOK, EditConfig, ShowCommand, Confirm, WriteTrustedFingerprint, Decline, Approve,
         history
<1>3. OnlyApprovedRuns'
  BY <1>1, <1>2 DEF ApprovalInv, OnlyApprovedRuns
<1>4. CASE WriteTrustedFingerprint
  <2>1. \A h \in Hooks : hook[h].pc \notin Ended => operator.shown \in approved'[h]
    BY <1>4 DEF WriteTrustedFingerprint, Approve
  <2>2. trust' = operator.shown
    BY <1>4 DEF WriteTrustedFingerprint
  <2> QED
    BY <1>1, <1>3, <2>1, <2>2 DEF ApprovalInv, TrustIsApproved
<1>5. CASE EditConfig \/ ShowCommand \/ Confirm \/ Decline
  <2>1. trust' = trust \/ trust' = NoCommand
    BY <1>5 DEF EditConfig, ShowCommand, Confirm, Decline
  <2> QED
    BY <1>1, <1>2, <1>3, <2>1 DEF ApprovalInv, TrustIsApproved
<1> QED
  BY <1>4, <1>5

LEMMA ApprovalHook ==
  ASSUME TypeOK, ApprovalInv, NEW h \in Hooks, StartHook(h) \/ HookStep(h) \/ Watchdog(h)
  PROVE  ApprovalInv'
<1> USE PostEditHookAssumption
<1>1. hook \in [Hooks -> Hook] /\ hook[h] \in Hook
  BY DEF TypeOK
<1>2. \A g \in Hooks : g # h => hook'[g] = hook[g]
  BY StepsOfAHook
<1>3. trust' = trust
  BY DEF StartHook, HookStep, CheckTrust, RunVet, RecordClaim, NothingPending,
     AppendPendingAudit, StatAudit, TruncateAudit, WriteHeader, AppendAudit, DraftDecision,
     Reply, Watchdog, cliVars
<1>4. \A g \in Hooks : g # h => approved'[g] = approved[g]
  BY DEF TypeOK, StartHook, HookStep, CheckTrust, RunVet, RecordClaim, NothingPending,
     AppendPendingAudit, StatAudit, TruncateAudit, WriteHeader, AppendAudit, DraftDecision,
     Reply, Watchdog, history
<1>5. SUFFICES /\ (hook'[h].pc \notin Ended \cup {"ready"} /\ trust # NoCommand
                    => trust \in approved'[h])
               /\ (hook'[h].runner \in Commands => hook'[h].runner \in approved'[h])
  BY <1>2, <1>3, <1>4 DEF ApprovalInv, TrustIsApproved, OnlyApprovedRuns
<1>6. CASE StartHook(h)
  <2>1. trust # NoCommand => trust \in approved'[h]
    BY <1>6 DEF StartHook, TypeOK
  <2>2. approved[h] \subseteq approved'[h]
    BY <1>6 DEF StartHook, TypeOK
  <2>3. hook'[h].runner = hook[h].runner
    <3>1. ASSUME NEW pc PROVE [hook[h] EXCEPT !.pc = pc].runner = hook[h].runner
      BY <1>1 DEF Hook
    <3>2. ASSUME NEW pc PROVE [hook[h] EXCEPT !.cfg = config, !.pc = pc].runner = hook[h].runner
      BY <1>1 DEF Hook
    <3> QED
      BY <1>1, <1>6, <3>1, <3>2 DEF StartHook, Set
  <2> QED
    BY <2>1, <2>2, <2>3 DEF ApprovalInv, OnlyApprovedRuns
<1>7. CASE CheckTrust(h)
  <2>1. /\ hook[h].pc = "trust"
        /\ approved' = approved
    BY <1>7 DEF CheckTrust, history
  <2>2. trust # NoCommand => trust \in approved[h]
    BY <2>1 DEF ApprovalInv, TrustIsApproved, Ended
  <2>3. PICK yes \in BOOLEAN :
          /\ yes => VerifyCommandTrusted(h)
          /\ Set(h, IF hook[h].edit.where = "inside"
                    THEN [hook[h] EXCEPT !.pc = "vet",
                            !.runner = IF yes THEN hook[h].cfg ELSE DefaultVet]
                    ELSE [hook[h] EXCEPT !.pc = AfterCode(h), !.told = TRUE])
    <3>1. VerifyCommandTrusted(h) \in BOOLEAN
      BY DEF VerifyCommandTrusted
    <3> QED
      BY <1>7, <3>1 DEF CheckTrust
  <2>4. CASE hook[h].edit.where = "inside"
    <3>1. hook'[h].runner = IF yes THEN hook[h].cfg ELSE DefaultVet
      BY <1>1, <2>3, <2>4 DEF Set, Hook
    <3> QED
      BY <2>1, <2>2, <2>3, <3>1 DEF VerifyCommandTrusted, DefaultVet
  <2>5. CASE hook[h].edit.where # "inside"
    <3>1. hook'[h].runner = hook[h].runner
      BY <1>1, <2>3, <2>5 DEF Set, Hook
    <3> QED
      BY <2>1, <2>2, <3>1 DEF ApprovalInv, OnlyApprovedRuns
  <2> QED
    BY <2>4, <2>5
<1>8. CASE (HookStep(h) /\ ~CheckTrust(h)) \/ Watchdog(h)
  <2>1. approved' = approved
    BY <1>8 DEF HookStep, RunVet, RecordClaim, NothingPending, AppendPendingAudit, StatAudit,
       TruncateAudit, WriteHeader, AppendAudit, DraftDecision, Reply, Watchdog, history
  <2>2. hook'[h].runner = hook[h].runner
    <3>1. CASE RunVet(h)
      BY <3>1, RunVetSets
    <3>2. CASE RecordClaim(h)
      BY <3>2, RecordClaimSets
    <3>3. CASE Watchdog(h)
      BY <1>1, <3>3 DEF Watchdog, Set, Hook
    <3>4. CASE HookStep(h) /\ ~CheckTrust(h) /\ ~RunVet(h) /\ ~RecordClaim(h)
      <4>1. ~StartHook(h)
        BY <3>4 DEF HookStep, NothingPending, AppendPendingAudit, StatAudit, TruncateAudit,
           WriteHeader, AppendAudit, DraftDecision, Reply, StartHook
      <4> QED
        BY <3>4, <4>1, StepsOfAHook
    <3> QED
      BY <1>8, <3>1, <3>2, <3>3, <3>4
  <2>3. hook'[h].pc \notin Ended \cup {"ready"} => hook[h].pc \notin Ended \cup {"ready"}
    BY <1>8 DEF HookStep, RunVet, RecordClaim, NothingPending, AppendPendingAudit, StatAudit,
       TruncateAudit, WriteHeader, AppendAudit, DraftDecision, Reply, Watchdog, Ended
  <2> QED
    BY <2>1, <2>2, <2>3 DEF ApprovalInv, TrustIsApproved, OnlyApprovedRuns
<1> QED
  BY <1>6, <1>7, <1>8

\* Whatever happens to config.toml and the trust file meanwhile, a configured
\* command that ran had been approved.
THEOREM OnlyTheApprovedRun == Spec => []OnlyApprovedRuns
<1>1. ASSUME TypeOK, ApprovalInv, [Next]_vars PROVE ApprovalInv'
  <2>1. CASE UNCHANGED vars
    BY <1>1, <2>1 DEF ApprovalInv, TrustIsApproved, OnlyApprovedRuns, vars, cliVars, history
  <2> QED
    BY <1>1, <2>1, ApprovalCli, ApprovalHook DEF Next
<1>2. ApprovalInv => OnlyApprovedRuns
  BY DEF ApprovalInv
<1> QED
  BY <1>1, <1>2, ApprovalInit, PostEditTypeCorrect, PTL DEF Spec

-----------------------------------------------------------------------------
(* A failure is told                                                       *)

\* Nothing has failed before the verifier ran; after the claim was recorded a
\* failure is told and in the ledger.
TellInv ==
  \A h \in Hooks :
    /\ hook[h].pc \in {"ready", "trust"} => ~Failed(h)
    /\ hook[h].pc \in PastRecord /\ Failed(h) /\ ~hook[h].lost
         => hook[h].told /\ h \in claims

LEMMA TellInit == Init => TellInv
BY DEF Init, Ready, TellInv, Failed, PastRecord

LEMMA TellHook ==
  ASSUME TypeOK, TellInv, NEW h \in Hooks, StartHook(h) \/ HookStep(h) \/ Watchdog(h)
  PROVE  TellInv'
<1>1. hook \in [Hooks -> Hook] /\ hook[h] \in Hook
  BY DEF TypeOK
<1>2. \A g \in Hooks : g # h => hook'[g] = hook[g]
  BY StepsOfAHook
<1>3. claims \subseteq claims'
  BY DEF StartHook, HookStep, CheckTrust, RunVet, RecordClaim, NothingPending,
     AppendPendingAudit, StatAudit, TruncateAudit, WriteHeader, AppendAudit, DraftDecision,
     Reply, Watchdog, fileVars
<1>4. SUFFICES /\ hook'[h].pc \in {"ready", "trust"} => ~Failed(h)'
               /\ hook'[h].pc \in PastRecord /\ Failed(h)' /\ ~hook'[h].lost
                    => hook'[h].told /\ h \in claims'
  BY <1>2, <1>3 DEF TellInv, Failed
<1>5. CASE StartHook(h)
  <2>1. hook'[h].vet = hook[h].vet /\ hook'[h].indexed = hook[h].indexed
    <3>1. ASSUME NEW pc
          PROVE  /\ [hook[h] EXCEPT !.pc = pc].vet = hook[h].vet
                 /\ [hook[h] EXCEPT !.pc = pc].indexed = hook[h].indexed
                 /\ [hook[h] EXCEPT !.cfg = config, !.pc = pc].vet = hook[h].vet
                 /\ [hook[h] EXCEPT !.cfg = config, !.pc = pc].indexed = hook[h].indexed
      BY <1>1 DEF Hook
    <3> QED
      BY <1>1, <1>5, <3>1 DEF StartHook, Set
  <2> QED
    BY <1>5, <2>1 DEF StartHook, TellInv, Failed
<1>6. CASE CheckTrust(h)
  <2>1. PICK yes \in BOOLEAN :
          Set(h, IF hook[h].edit.where = "inside"
                 THEN [hook[h] EXCEPT !.pc = "vet",
                         !.runner = IF yes THEN hook[h].cfg ELSE DefaultVet]
                 ELSE [hook[h] EXCEPT !.pc = AfterCode(h), !.told = TRUE])
    BY <1>6 DEF CheckTrust
  <2>2. hook'[h].vet = hook[h].vet /\ hook'[h].indexed = hook[h].indexed
    <3>1. CASE hook[h].edit.where = "inside"
      BY <1>1, <2>1, <3>1 DEF Set, Hook
    <3>2. CASE hook[h].edit.where # "inside"
      BY <1>1, <2>1, <3>2 DEF Set, Hook
    <3> QED
      BY <3>1, <3>2
  <2> QED
    BY <1>6, <2>2 DEF CheckTrust, TellInv, Failed
<1>7. CASE RunVet(h)
  BY <1>7, RunVetSets DEF PastRecord
<1>8. CASE RecordClaim(h)
  BY <1>8, RecordClaimSets, NextAdapter DEF Failed
<1>9. CASE ~StartHook(h) /\ ~CheckTrust(h) /\ ~RunVet(h) /\ ~RecordClaim(h)
  BY <1>9, StepsOfAHook DEF TellInv, Failed, PastRecord
<1> QED
  BY <1>5, <1>6, <1>7, <1>8, <1>9

\* A hook that ended well after a failure has told the model and recorded it.
THEOREM FailuresAreTold == Spec => []FailureIsTold
<1>1. ASSUME TypeOK, TellInv, [Next]_vars PROVE TellInv'
  <2>1. CASE UNCHANGED vars
    BY <1>1, <2>1 DEF TellInv, Failed, vars, fileVars
  <2>2. CASE EditConfig \/ ShowCommand \/ Confirm \/ WriteTrustedFingerprint \/ Decline
    BY <1>1, <2>2 DEF TellInv, Failed, EditConfig, ShowCommand, Confirm,
       WriteTrustedFingerprint, Decline, fileVars
  <2> QED
    BY <1>1, <2>1, <2>2, TellHook DEF Next
<1>2. TellInv => FailureIsTold
  BY DEF TellInv, FailureIsTold, PastRecord
<1> QED
  BY <1>1, <1>2, TellInit, PostEditTypeCorrect, PTL DEF Spec

-----------------------------------------------------------------------------
(* Entries of audit-log.md stay                                            *)

\* While somebody writes a header, every entry there is, is exposed to it.
HeaderOverExposed ==
  (\E g \in Hooks : hook[g].pc \in {"truncate", "header"}) => added \subseteq exposed

AuditInv == AuditEntriesStay /\ HeaderOverExposed

LEMMA AuditInit == Init => AuditInv
BY DEF Init, AuditInv, AuditEntriesStay, HeaderOverExposed

LEMMA AuditHook ==
  ASSUME TypeOK, AuditInv, NEW h \in Hooks, StartHook(h) \/ HookStep(h) \/ Watchdog(h)
  PROVE  AuditInv'
<1> USE NextAdapter
<1>1. /\ hook \in [Hooks -> Hook] /\ hook[h] \in Hook
      /\ audit \in [header : BOOLEAN, entries : Seq(Hooks)]
  BY DEF TypeOK
<1>2. \A g \in Hooks : g # h => hook'[g] = hook[g]
  BY StepsOfAHook
<1>3. ASSUME NEW pc, Set(h, [hook[h] EXCEPT !.pc = pc]) PROVE hook'[h].pc = pc
  BY <1>1, <1>3 DEF Set, Hook
<1>4. CASE TruncateAudit(h) \/ WriteHeader(h)
  <2>1. added \subseteq exposed /\ added' = added /\ exposed' = exposed
    BY <1>4 DEF AuditInv, HeaderOverExposed, TruncateAudit, WriteHeader, history
  <2> QED
    BY <2>1 DEF AuditInv, AuditEntriesStay, HeaderOverExposed
<1>5. CASE AppendAudit(h)
  <2>1. CASE UNCHANGED <<audit, added, exposed>>
    <3>1. hook'[h].pc \notin {"truncate", "header"}
      BY <1>3, <1>5 DEF AppendAudit
    <3> QED
      BY <1>2, <2>1, <3>1 DEF AuditInv, AuditEntriesStay, HeaderOverExposed
  <2>2. CASE /\ audit' = [audit EXCEPT !.entries = Append(@, h)]
             /\ added' = added \cup {h}
             /\ exposed' = IF \E g \in Hooks : hook[g].pc \in {"truncate", "header"}
                           THEN exposed \cup {h} ELSE exposed
    <3>1. hook'[h].pc \notin {"truncate", "header"}
      BY <1>3, <1>5 DEF AppendAudit
    <3>2. CASE \E g \in Hooks : hook[g].pc \in {"truncate", "header"}
      BY <2>2, <3>2 DEF AuditInv, AuditEntriesStay, HeaderOverExposed
    <3>3. CASE ~\E g \in Hooks : hook[g].pc \in {"truncate", "header"}
      <4>1. HeaderOverExposed'
        BY <1>2, <3>1, <3>3 DEF HeaderOverExposed
      <4>2. audit'.entries = Append(audit.entries, h) /\ audit.entries \in Seq(Hooks)
        BY <1>1, <2>2
      <4>3. {audit.entries[i] : i \in DOMAIN audit.entries} \cup {h}
              \subseteq {audit'.entries[i] : i \in DOMAIN audit'.entries}
        BY <4>2
      <4> QED
        BY <2>2, <3>3, <4>1, <4>3 DEF AuditInv, AuditEntriesStay
    <3> QED
      BY <3>2, <3>3
  <2> QED
    BY <1>5, <2>1, <2>2 DEF AppendAudit
<1>6. CASE StatAudit(h)
  <2>1. UNCHANGED <<audit, added, exposed>>
    BY <1>6 DEF StatAudit, fileVars, history
  <2>2. CASE AuditEmpty
    <3>1. added \subseteq exposed
      BY <1>1, <2>2 DEF AuditEmpty, AuditInv, AuditEntriesStay
    <3> QED
      BY <2>1, <3>1 DEF AuditInv, AuditEntriesStay, HeaderOverExposed
  <2>3. CASE ~AuditEmpty
    <3>1. hook'[h].pc \notin {"truncate", "header"}
      BY <1>3, <1>6, <2>3 DEF StatAudit
    <3> QED
      BY <1>2, <2>1, <3>1 DEF AuditInv, AuditEntriesStay, HeaderOverExposed
  <2> QED
    BY <2>2, <2>3
<1>7. CASE \/ StartHook(h) \/ CheckTrust(h) \/ RunVet(h) \/ RecordClaim(h)
           \/ NothingPending(h) \/ AppendPendingAudit(h) \/ DraftDecision(h)
           \/ Reply(h) \/ Watchdog(h)
  <2>1. UNCHANGED <<audit, added, exposed>>
    BY <1>7 DEF StartHook, CheckTrust, RunVet, RecordClaim, NothingPending,
       AppendPendingAudit, DraftDecision, Reply, Watchdog, fileVars, history
  <2>2. hook'[h].pc \notin {"truncate", "header"}
    <3>1. CASE StartHook(h)
      <4>1. ASSUME NEW pc PROVE [hook[h] EXCEPT !.cfg = config, !.pc = pc].pc = pc
        BY <1>1 DEF Hook
      <4>2. CASE Set(h, [hook[h] EXCEPT !.cfg = config,
                           !.pc = IF "code" \in hook[h].adapters
                                  THEN "trust" ELSE AfterCode(h)])
        BY <1>1, <4>1, <4>2 DEF Set
      <4> QED
        BY <1>3, <3>1, <4>2 DEF StartHook
    <3>2. CASE CheckTrust(h)
      <4>1. PICK yes \in BOOLEAN :
              Set(h, IF hook[h].edit.where = "inside"
                     THEN [hook[h] EXCEPT !.pc = "vet",
                             !.runner = IF yes THEN hook[h].cfg ELSE DefaultVet]
                     ELSE [hook[h] EXCEPT !.pc = AfterCode(h), !.told = TRUE])
        BY <3>2 DEF CheckTrust
      <4>2. CASE hook[h].edit.where = "inside"
        BY <1>1, <4>1, <4>2 DEF Set, Hook
      <4>3. CASE hook[h].edit.where # "inside"
        BY <1>1, <4>1, <4>3 DEF Set, Hook
      <4> QED
        BY <4>2, <4>3
    <3>3. CASE RunVet(h)
      BY <3>3, RunVetSets
    <3>4. CASE RecordClaim(h)
      BY <3>4, RecordClaimSets
    <3>5. CASE NothingPending(h) \/ AppendPendingAudit(h) \/ DraftDecision(h)
               \/ Reply(h) \/ Watchdog(h)
      BY <1>3, <3>5 DEF NothingPending, AppendPendingAudit, DraftDecision, Reply, Watchdog
    <3> QED
      BY <1>7, <3>1, <3>2, <3>3, <3>4, <3>5
  <2> QED
    BY <1>2, <2>1, <2>2 DEF AuditInv, AuditEntriesStay, HeaderOverExposed
<1> QED
  BY <1>4, <1>5, <1>6, <1>7 DEF HookStep

\* An entry of audit-log.md goes only if it was written under a pending header.
THEOREM AuditEntriesAreKept == Spec => []AuditEntriesStay
<1>1. ASSUME TypeOK, AuditInv, [Next]_vars PROVE AuditInv'
  <2>1. CASE UNCHANGED vars
    BY <1>1, <2>1 DEF AuditInv, AuditEntriesStay, HeaderOverExposed, vars, fileVars, history
  <2>2. CASE EditConfig \/ ShowCommand \/ Confirm \/ WriteTrustedFingerprint \/ Decline
    BY <1>1, <2>2 DEF AuditInv, AuditEntriesStay, HeaderOverExposed, EditConfig, ShowCommand,
       Confirm, WriteTrustedFingerprint, Approve, Decline, fileVars, history
  <2> QED
    BY <1>1, <2>1, <2>2, AuditHook DEF Next
<1>2. AuditInv => AuditEntriesStay
  BY DEF AuditInv
<1> QED
  BY <1>1, <1>2, AuditInit, PostEditTypeCorrect, PTL DEF Spec

-----------------------------------------------------------------------------
(* What is flagged is reported                                             *)

\* Where a hook is that has not yet been at pending-audit.log.
BeforeEntry == {"ready", "trust", "vet", "hung", "record", "pending"}

\* A line holds what hooks wrote.  One that is not JSON has a cut off entry,
\* and whatever its make, it has at most one whole entry: the one that closed
\* it.  Only the last line may be open.
LineIsAccounted(i) ==
  /\ pending[i].of \subseteq logged \cup torn
  /\ pending[i].json => pending[i].closed
  /\ ~ pending[i].json => pending[i].of \cap torn # {}
  /\ \A g, h \in pending[i].of \cap logged : g = h
  /\ ~ pending[i].closed => pending[i].of \cap logged = {} /\ i = Len(pending)

LinesAreAccounted == \A i \in DOMAIN pending : LineIsAccounted(i)
EntriesAreOnOneLine ==
  \A i, j \in DOMAIN pending : i # j => pending[i].of \cap pending[j].of = {}
WholeEntriesAreOnLines == \A h \in logged : \E i \in DOMAIN pending : h \in pending[i].of
EntriesComeLate == \A h \in logged \cup torn : hook[h].pc \notin BeforeEntry

LogInv ==
  /\ LinesAreAccounted /\ EntriesAreOnOneLine /\ WholeEntriesAreOnLines
  /\ EntriesComeLate /\ IsFiniteSet(torn)

LEMMA LogInit == Init => LogInv
BY FS_EmptySet DEF Init, LogInv, LinesAreAccounted, EntriesAreOnOneLine,
   WholeEntriesAreOnLines, EntriesComeLate

\* The entry of a hook that had none goes on a line: on a new one, or at the
\* end of the one that was left open.
LEMMA LogAppend ==
  ASSUME TypeOK, LogInv, NEW h \in Hooks, h \notin logged \cup torn, NEW whole \in BOOLEAN,
         pending' = WithEntry(h, whole),
         logged' = (IF whole THEN logged \cup {h} ELSE logged),
         torn' = (IF whole THEN torn ELSE torn \cup {h})
  PROVE  LinesAreAccounted' /\ EntriesAreOnOneLine' /\ WholeEntriesAreOnLines'
<1> DEFINE n == Len(pending)
<1>1. /\ pending \in Seq(Line) /\ n \in Nat /\ DOMAIN pending = 1 .. n
      /\ logged \subseteq Hooks /\ torn \subseteq Hooks
      /\ \A i \in 1 .. n : pending[i] \in Line
  BY DEF TypeOK
<1>2. \A i \in 1 .. n : LineIsAccounted(i) /\ h \notin pending[i].of
  BY <1>1 DEF LogInv, LinesAreAccounted, LineIsAccounted
<1>3. logged \subseteq logged' /\ torn \subseteq torn'
  OBVIOUS
<1>4. ASSUME NEW i \in 1 .. n, pending'[i] = pending[i],
             ~ pending[i].closed => Len(pending') = n
      PROVE  LineIsAccounted(i)'
  <2>1. LineIsAccounted(i) /\ h \notin pending[i].of
    BY <1>2
  <2>2. pending[i].of \cap logged' = pending[i].of \cap logged
    BY <2>1
  <2> QED
    BY <1>3, <1>4, <2>1, <2>2 DEF LineIsAccounted
<1>5. CASE OnOpenLine
  <2>1. n \in 1 .. n /\ ~ pending[n].closed
    BY <1>1, <1>5 DEF OnOpenLine, LastLine
  <2> DEFINE r == [of |-> pending[n].of \cup {h}, closed |-> whole, json |-> FALSE,
                   long |-> pending[n].long \/ hook[h].edit.flags = "long"]
  <2>2. /\ pending' = [pending EXCEPT ![n] = r]
        /\ r.of = pending[n].of \cup {h} /\ r.closed = whole /\ r.json = FALSE
    BY <1>5 DEF WithEntry, LastLine
  <2> HIDE DEF r
  <2>3. /\ DOMAIN pending' = 1 .. n /\ pending'[n] = r
        /\ \A i \in 1 .. n : i # n => pending'[i] = pending[i]
    BY <1>1, <2>1, <2>2
  <2>4. Len(pending') = n
    BY <1>1, <2>2
  <2>5. LineIsAccounted(n) /\ h \notin pending[n].of /\ pending[n].of \cap logged = {}
    BY <1>2, <2>1 DEF LineIsAccounted
  <2>6. ~ pending[n].json
    BY <2>1, <2>5 DEF LineIsAccounted
  <2>7. LineIsAccounted(n)'
    <3>1. r.of \subseteq logged' \cup torn' /\ r.of \cap torn' # {}
      BY <1>3, <2>2, <2>5, <2>6 DEF LineIsAccounted
    <3>2. r.of \cap logged' \subseteq {h} /\ (~ whole => r.of \cap logged' = {})
      BY <2>2, <2>5
    <3> QED
      BY <2>2, <2>3, <2>4, <3>1, <3>2 DEF LineIsAccounted
  <2>8. EntriesAreOnOneLine'
    <3>1. \A i \in 1 .. n : i # n => pending[i].of \cap r.of = {}
      BY <1>1, <1>2, <2>1, <2>2 DEF LogInv, EntriesAreOnOneLine
    <3> QED
      BY <1>1, <2>3, <3>1 DEF LogInv, EntriesAreOnOneLine
  <2>9. WholeEntriesAreOnLines'
    <3>1. \A i \in 1 .. n : pending[i].of \subseteq pending'[i].of
      BY <2>2, <2>3
    <3> QED
      BY <1>1, <2>1, <2>2, <2>3, <3>1 DEF LogInv, WholeEntriesAreOnLines
  <2> QED
    BY <1>4, <2>3, <2>4, <2>7, <2>8, <2>9 DEF LinesAreAccounted
<1>6. CASE ~ OnOpenLine
  <2>1. PICK r : /\ pending' = Append(pending, r)
                 /\ r.of = {h} /\ r.closed = whole /\ r.json = whole
    BY <1>6 DEF WithEntry
  <2>2. /\ DOMAIN pending' = 1 .. n + 1 /\ Len(pending') = n + 1 /\ pending'[n + 1] = r
        /\ \A i \in 1 .. n : pending'[i] = pending[i]
    BY <1>1, <2>1
  <2>3. \A i \in 1 .. n : pending[i].closed
    <3>1. ASSUME NEW i \in 1 .. n, ~ pending[i].closed PROVE FALSE
      <4>1. i = n
        BY <1>2, <3>1 DEF LineIsAccounted
      <4> QED
        BY <1>1, <1>6, <3>1, <4>1 DEF OnOpenLine, LastLine
    <3> QED
      BY <3>1
  <2>4. \A i \in 1 .. n : LineIsAccounted(i)'
    BY <1>4, <2>2, <2>3
  <2>5. ASSUME NEW i, i = n + 1 PROVE LineIsAccounted(i)'
    <3>1. /\ r.of \subseteq logged' \cup torn'
          /\ ~ whole => r.of \cap torn' # {} /\ r.of \cap logged' = {}
      BY <2>1
    <3>2. \A g, k \in r.of \cap logged' : g = k
      BY <2>1
    <3>3. pending'[i] = r /\ i = Len(pending')
      BY <2>2, <2>5
    <3> QED
      BY <2>1, <3>1, <3>2, <3>3 DEF LineIsAccounted
  <2>6. EntriesAreOnOneLine'
    <3>1. \A i \in 1 .. n : pending[i].of \cap r.of = {}
      BY <1>2, <2>1
    <3>2. \A i \in 1 .. n + 1 : i \in 1 .. n \/ i = n + 1
      BY <1>1
    <3> QED
      BY <1>1, <2>2, <3>1, <3>2 DEF LogInv, EntriesAreOnOneLine
  <2>7. WholeEntriesAreOnLines'
    BY <1>1, <2>1, <2>2 DEF LogInv, WholeEntriesAreOnLines
  <2>8. \A i \in 1 .. n + 1 : i \in 1 .. n \/ i = n + 1
    BY <1>1
  <2>9. LinesAreAccounted'
    <3> SUFFICES ASSUME NEW i \in 1 .. n + 1 PROVE LineIsAccounted(i)'
      BY <2>2 DEF LinesAreAccounted
    <3> QED
      BY <2>4, <2>5, <2>8
  <2> QED
    BY <2>6, <2>7, <2>9
<1> QED
  BY <1>5, <1>6

LEMMA LogHook ==
  ASSUME TypeOK, LogInv, NEW h \in Hooks, StartHook(h) \/ HookStep(h) \/ Watchdog(h)
  PROVE  LogInv'
<1>1. hook \in [Hooks -> Hook] /\ hook[h] \in Hook /\ logged \subseteq Hooks /\ torn \subseteq Hooks
  BY DEF TypeOK
<1>2. \A g \in Hooks : g # h => hook'[g] = hook[g]
  BY StepsOfAHook
<1>3. CASE AppendPendingAudit(h)
  <2>1. h \notin logged \cup torn
    BY <1>3 DEF AppendPendingAudit, LogInv, EntriesComeLate, BeforeEntry
  <2>2. hook'[h].pc = "stat"
    BY <1>1, <1>3 DEF AppendPendingAudit, Set, Hook
  <2>3. logged' \subseteq logged \cup {h} /\ torn' \subseteq torn \cup {h}
    BY <1>3 DEF AppendPendingAudit
  <2>4. EntriesComeLate'
    BY <1>1, <1>2, <2>2, <2>3 DEF LogInv, EntriesComeLate, BeforeEntry
  <2>5. IsFiniteSet(torn')
    <3>1. torn' = torn \/ torn' = torn \cup {h}
      BY <1>3 DEF AppendPendingAudit
    <3> QED
      BY <3>1, FS_AddElement DEF LogInv
  <2>6. LinesAreAccounted' /\ EntriesAreOnOneLine' /\ WholeEntriesAreOnLines'
    <3>1. CASE pending' = WithEntry(h, TRUE) /\ logged' = logged \cup {h} /\ torn' = torn
      BY <2>1, <3>1, LogAppend
    <3>2. CASE pending' = WithEntry(h, FALSE) /\ torn' = torn \cup {h} /\ logged' = logged
      BY <2>1, <3>2, LogAppend
    <3>3. CASE UNCHANGED <<pending, logged, torn>>
      BY <3>3 DEF LogInv, LinesAreAccounted, LineIsAccounted, EntriesAreOnOneLine,
         WholeEntriesAreOnLines
    <3> QED
      BY <1>3, <3>1, <3>2, <3>3 DEF AppendPendingAudit
  <2> QED
    BY <2>4, <2>5, <2>6 DEF LogInv
<1>4. CASE ~ AppendPendingAudit(h)
  <2>1. UNCHANGED <<pending, logged, torn>>
    BY <1>4 DEF StartHook, HookStep, CheckTrust, RunVet, RecordClaim, NothingPending,
       StatAudit, TruncateAudit, WriteHeader, AppendAudit, DraftDecision, Reply, Watchdog,
       fileVars, history
  <2>2. hook[h].pc \notin BeforeEntry => hook'[h].pc \notin BeforeEntry
    <3>1. CASE StartHook(h) \/ CheckTrust(h) \/ RunVet(h) \/ RecordClaim(h)
      BY <3>1 DEF StartHook, CheckTrust, RunVet, RecordClaim, BeforeEntry
    <3>2. CASE StatAudit(h) \/ TruncateAudit(h) \/ WriteHeader(h) \/ AppendAudit(h)
               \/ NothingPending(h) \/ DraftDecision(h) \/ Reply(h) \/ Watchdog(h)
      <4>1. \E pc \in {"stat", "truncate", "header", "append", "draft", "reply", "done", "killed"} :
              Set(h, [hook[h] EXCEPT !.pc = pc]) \/ hook[h].pc = "pending"
        BY <3>2, NextAdapter DEF NothingPending, StatAudit, TruncateAudit, WriteHeader,
           AppendAudit, DraftDecision, Reply, Watchdog
      <4> QED
        BY <1>1, <4>1 DEF Set, Hook, BeforeEntry
    <3> QED
      BY <1>4, <3>1, <3>2 DEF HookStep
  <2>3. EntriesComeLate'
    BY <1>1, <1>2, <2>1, <2>2 DEF LogInv, EntriesComeLate
  <2> QED
    BY <2>1, <2>3 DEF LogInv, LinesAreAccounted, LineIsAccounted, EntriesAreOnOneLine,
       WholeEntriesAreOnLines
<1> QED
  BY <1>3, <1>4

\* An entry that Stop does not see is the whole one of a line with a cut off
\* one: there are as many of the latter.
LEMMA LogConclusion == TypeOK /\ LogInv => FlaggedClaimsAreReported
<1> SUFFICES ASSUME TypeOK, LogInv, \A i \in DOMAIN pending : ~ pending[i].long
             PROVE  Cardinality({h \in logged : h \notin Reported(hook[h].session)})
                      <= Cardinality(torn)
  BY DEF FlaggedClaimsAreReported
<1> DEFINE Unseen == {h \in logged : h \notin Reported(hook[h].session)}
           With(t) == CHOOSE h \in Unseen : \E i \in DOMAIN pending : {h, t} \subseteq pending[i].of
           Behind == {With(t) : t \in torn}
<1>1. Unseen \subseteq Behind
  <2> SUFFICES ASSUME NEW h \in Unseen PROVE h \in Behind
    OBVIOUS
  <2>1. h \in Hooks /\ h \in logged
    BY DEF TypeOK
  <2>2. PICK i \in DOMAIN pending : h \in pending[i].of
    BY <2>1 DEF LogInv, WholeEntriesAreOnLines
  <2>3. ~ pending[i].json
    <3>1. h \notin Reported(hook[h].session)
      OBVIOUS
    <3> DEFINE OnJSON == UNION {pending[j].of : j \in {k \in DOMAIN pending : pending[k].json}}
               Here == {g \in Hooks : hook[g].session = hook[h].session}
    <3>2. Reported(hook[h].session) = OnJSON \cap Here
      BY DEF Reported
    <3>3. ASSUME pending[i].json PROVE h \in Reported(hook[h].session)
      <4>1. pending[i].of \in {pending[j].of : j \in {k \in DOMAIN pending : pending[k].json}}
        BY <2>2, <3>3
      <4>2. h \in OnJSON
        BY <2>2, <4>1
      <4>3. h \in Here
        BY <2>1
      <4> HIDE DEF OnJSON, Here
      <4> QED
        BY <3>2, <4>2, <4>3
    <3> QED
      BY <3>1, <3>3
  <2>4. PICK t \in torn : t \in pending[i].of
    BY <2>2, <2>3 DEF LogInv, LinesAreAccounted, LineIsAccounted
  <2>5. ASSUME NEW g \in Unseen, NEW j \in DOMAIN pending, {g, t} \subseteq pending[j].of
        PROVE  g = h
    <3>1. j = i
      BY <2>2, <2>4, <2>5 DEF LogInv, EntriesAreOnOneLine
    <3> QED
      BY <2>1, <2>2, <2>5, <3>1 DEF LogInv, LinesAreAccounted, LineIsAccounted
  <2>6. With(t) = h
    <3>1. h \in Unseen /\ {h, t} \subseteq pending[i].of
      BY <2>2, <2>4
    <3> HIDE DEF Unseen
    <3> QED
      BY <2>2, <2>5, <3>1
  <2> QED
    BY <2>4, <2>6
<1>2. IsFiniteSet(torn)
  BY DEF LogInv
<1>3. IsFiniteSet(Behind) /\ Cardinality(Behind) <= Cardinality(torn)
  <2> DEFINE f == [t \in torn |-> With(t)]
  <2>1. f \in Surjection(torn, Behind)
    BY DEF Surjection
  <2> HIDE DEF f, Behind
  <2> QED
    BY <1>2, <2>1, FS_Surjection
<1>4. Cardinality(Unseen) <= Cardinality(Behind)
  <2> HIDE DEF Unseen, Behind
  <2> QED
    BY <1>1, <1>3, FS_Subset
<1>5. Cardinality(Unseen) \in Nat /\ Cardinality(Behind) \in Nat /\ Cardinality(torn) \in Nat
  <2> HIDE DEF Unseen, Behind
  <2>1. IsFiniteSet(Unseen)
    BY <1>1, <1>3, FS_Subset
  <2> QED
    BY <1>2, <1>3, <2>1, FS_CardinalityType
<1> HIDE DEF Unseen, Behind
<1>6. Cardinality(Unseen) <= Cardinality(torn)
  BY <1>3, <1>4, <1>5
<1> QED
  BY <1>6 DEF Unseen

\* Whatever is cut off, by a full disk or in the middle of other hooks'
\* writes, each cut off line hides at most one whole entry from Stop.
THEOREM FlaggedClaimsReachStop == Spec => []FlaggedClaimsAreReported
<1>1. ASSUME TypeOK, LogInv, [Next]_vars PROVE LogInv'
  <2>1. CASE UNCHANGED vars
    BY <1>1, <2>1 DEF LogInv, LinesAreAccounted, LineIsAccounted, EntriesAreOnOneLine,
       WholeEntriesAreOnLines, EntriesComeLate, vars, fileVars, history
  <2>2. CASE EditConfig \/ ShowCommand \/ Confirm \/ WriteTrustedFingerprint \/ Decline
    <3>1. UNCHANGED <<pending, logged, torn, hook>>
      BY <2>2 DEF EditConfig, ShowCommand, Confirm, WriteTrustedFingerprint, Approve,
         Decline, fileVars, history
    <3> QED
      BY <1>1, <3>1 DEF LogInv, LinesAreAccounted, LineIsAccounted, EntriesAreOnOneLine,
         WholeEntriesAreOnLines, EntriesComeLate
  <2> QED
    BY <1>1, <2>1, <2>2, LogHook DEF Next
<1> QED
  BY <1>1, LogInit, LogConclusion, PostEditTypeCorrect, PTL DEF Spec
=============================================================================
