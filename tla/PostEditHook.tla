---------------------------- MODULE PostEditHook ----------------------------
(***************************************************************************)
(* Post-edit hook processes from the start of leonard-hook to its exit:    *)
(* config.toml is read, the code adapter decides which verifier may run,   *)
(* indexes, verifies and records a claim; the ground-truth adapter appends *)
(* what it flagged to pending-audit.log and audit-log.md; the self-logging *)
(* adapter drafts a decision; one response is written at the very end.     *)
(* Meanwhile somebody edits config.toml, the operator approves a verifier  *)
(* command with `leonard config trust`, other hooks write the same files   *)
(* and the watchdog, or a signal, may end a hook anywhere.                 *)
(*                                                                         *)
(* ClaimLedger and SymbolIndex hold what the code adapter does to the      *)
(* store; here a claim is only recorded or not.  SHA-256 fingerprints are  *)
(* taken to be as different as the commands.                               *)
(***************************************************************************)
EXTENDS Naturals, Sequences, FiniteSets

CONSTANTS
  Hooks,      \* post-edit processes, one per edit
  Sessions,   \* Claude sessions
  Edits,      \* the tool calls that may be reported
  Enabled,    \* sets of adapters config.toml may enable (and that initialise)
  HasGoMod,   \* go.mod at the project root: the default verifier runs
  Commands,   \* texts for [post_edit.verify].command
  NoCommand,  \* none configured; no fingerprint stored
  Malformed,  \* a config.toml that does not decode
  MaxEvents,  \* bound: changes of config.toml and `config trust` commands
  MaxFaults   \* bound: I/O failures

\* `decodes`: the envelope is JSON within the size limit and names a file;
\* `where`: the file is in the project, outside of it, or not on disk;
\* `flags`: nothing, claims to report, so many that the line is over a MiB,
\* or a file of the truth tree itself; `drafts`: its tier wants a rationale.
Edit == [decodes : BOOLEAN, where : {"inside", "outside", "gone"},
         flags : {"none", "claims", "long", "tree"}, drafts : BOOLEAN]

ASSUME PostEditHookAssumption ==
  /\ Edits \subseteq Edit
  /\ Enabled \subseteq SUBSET {"code", "ground-truth", "self-logging"}
  /\ HasGoMod \in BOOLEAN
  /\ {NoCommand, Malformed} \cap Commands = {} /\ NoCommand # Malformed
  /\ MaxEvents \in Nat /\ MaxFaults \in Nat

VARIABLES
  config,    \* what config.toml says
  trust,     \* the command whose fingerprint is in the trust file
  operator,  \* `leonard config trust`: where it is and the command it showed
  events,    \* changes of config.toml and trust commands so far
  hook,      \* the post-edit processes
  claims,    \* the hooks whose claim was inserted
  pending,   \* the lines of pending-audit.log
  audit,     \* audit-log.md
  drafts,    \* the hooks with a line in pending-decisions.log
  faults,    \* I/O failures so far
  approved,  \* history: per hook, the commands approved since before it ended
  logged,    \* history: hooks whose audit line was written whole
  torn,      \* history: audit lines that were cut off
  added,     \* history: hooks that appended to audit-log.md
  exposed    \* history: those that did while another wrote the header

cliVars == <<config, trust, operator, events>>
fileVars == <<claims, pending, audit, drafts>>
history == <<approved, logged, torn, added, exposed>>
vars == <<cliVars, hook, fileVars, faults, history>>

-----------------------------------------------------------------------------
Ended == {"done", "rejected", "broken", "killed"}   \* exit 0, 2, 1 and 1

\* `runner`: the command the verifier was run with, Malformed stands for the
\* default `go vet`; `told`: additionalContext is not empty.
Hook == [pc : {"ready", "trust", "vet", "hung", "record", "pending",
               "stat", "truncate", "header", "append", "draft", "reply"}
              \cup Ended,
         session : Sessions, edit : Edits, adapters : Enabled,
         cfg : Commands \cup {NoCommand}, runner : Commands \cup {NoCommand, Malformed},
         indexed : BOOLEAN, vet : {"skipped", "ok", "failed"},
         told : BOOLEAN, lost : BOOLEAN]

\* A line of pending-audit.log: the entries on it, whether it has its newline,
\* whether it is one JSON object, whether it is longer than Stop's buffer.
Line == [of : SUBSET Hooks, closed : BOOLEAN, json : BOOLEAN, long : BOOLEAN]

DefaultVet == Malformed

Ready(s, e, on) ==
  [pc |-> "ready", session |-> s, edit |-> e, adapters |-> on,
   cfg |-> NoCommand, runner |-> NoCommand, indexed |-> TRUE,
   vet |-> "skipped", told |-> FALSE, lost |-> FALSE]

TypeOK ==
  /\ config \in Commands \cup {NoCommand, Malformed}
  /\ trust \in Commands \cup {NoCommand}
  /\ operator \in [pc : {"idle", "ask", "write"}, shown : Commands \cup {NoCommand}]
  /\ events \in Nat
  /\ hook \in [Hooks -> Hook]
  /\ claims \subseteq Hooks
  /\ pending \in Seq(Line)
  /\ audit \in [header : BOOLEAN, entries : Seq(Hooks)]
  /\ drafts \subseteq Hooks
  /\ faults \in Nat
  /\ approved \in [Hooks -> SUBSET Commands]
  /\ logged \subseteq Hooks /\ torn \subseteq Hooks
  /\ added \subseteq Hooks /\ exposed \subseteq Hooks

Init ==
  /\ config \in Commands \cup {NoCommand}
  /\ trust \in Commands \cup {NoCommand}
  /\ operator = [pc |-> "idle", shown |-> NoCommand]
  /\ events \in 0 .. MaxEvents   \* how much of the bound is left varies
  /\ hook \in [Hooks -> {Ready(s, e, on) : s \in Sessions, e \in Edits, on \in Enabled}]
  /\ claims = {} /\ pending = <<>> /\ drafts = {}
  /\ audit = [header |-> FALSE, entries |-> <<>>]
  /\ faults = 0
  /\ approved = [h \in Hooks |-> {}]
  /\ logged = {} /\ torn = {} /\ added = {} /\ exposed = {}

-----------------------------------------------------------------------------
(* Operator and project                                                    *)

EditConfig ==
  /\ events < MaxEvents /\ events' = events + 1
  /\ config' \in (Commands \cup {NoCommand, Malformed}) \ {config}
  /\ UNCHANGED <<trust, operator, hook, fileVars, faults, history>>

\* `leonard config trust` shows the command it read and asks.
ShowCommand ==
  /\ events < MaxEvents /\ events' = events + 1
  /\ operator.pc = "idle"
  /\ config \in Commands
  /\ operator' = [pc |-> "ask", shown |-> config]
  /\ UNCHANGED <<config, trust, hook, fileVars, faults, history>>

\* A yes: the trust file is opened, which empties it.
Confirm ==
  /\ operator.pc = "ask"
  /\ operator' = [operator EXCEPT !.pc = "write"]
  /\ trust' = NoCommand
  /\ UNCHANGED <<config, events, hook, fileVars, faults, history>>

Approve(c) ==
  /\ approved' = [h \in Hooks |-> IF hook[h].pc \in Ended THEN approved[h]
                                  ELSE approved[h] \cup {c}]
  /\ UNCHANGED <<logged, torn, added, exposed>>

\* Mutant: the fingerprint is taken of what config.toml says by now.
WriteCurrent ==
  /\ operator.pc = "write"
  /\ trust' = IF config = Malformed THEN NoCommand ELSE config
  /\ operator' = [pc |-> "idle", shown |-> NoCommand]
  /\ Approve(operator.shown)
  /\ UNCHANGED <<config, events, hook, fileVars, faults>>

\* The fingerprint of the command that was shown is written.
WriteTrustedFingerprint ==
  /\ operator.pc = "write"
  /\ trust' = operator.shown
  /\ operator' = [pc |-> "idle", shown |-> NoCommand]
  /\ Approve(operator.shown)
  /\ UNCHANGED <<config, events, hook, fileVars, faults>>

Decline ==
  /\ operator.pc = "ask"
  /\ operator' = [pc |-> "idle", shown |-> NoCommand]
  /\ UNCHANGED <<config, trust, events, hook, fileVars, faults, history>>

-----------------------------------------------------------------------------
(* Steps of a hook                                                         *)

Set(h, r) == hook' = [hook EXCEPT ![h] = r]
Fault == faults < MaxFaults /\ faults' = faults + 1
Fine == faults' = faults

\* The first step of the next adapter: the dispatcher goes on after an error.
AfterGroundTruth(h) ==
  IF "self-logging" \in hook[h].adapters THEN "draft" ELSE "reply"
AfterCode(h) ==
  IF "ground-truth" \in hook[h].adapters THEN "pending" ELSE AfterGroundTruth(h)

\* LoadEnabled reads config.toml, then the envelope is decoded.
StartHook(h) ==
  /\ hook[h].pc = "ready"
  /\ Set(h, IF config = Malformed
            THEN [hook[h] EXCEPT !.pc = "broken"]
            ELSE IF ~hook[h].edit.decodes
            THEN [hook[h] EXCEPT !.pc = "rejected"]
            ELSE [hook[h] EXCEPT !.cfg = config,
                    !.pc = IF "code" \in hook[h].adapters
                            THEN "trust" ELSE AfterCode(h)])
  /\ approved' = [approved EXCEPT ![h] = @ \cup ({trust} \ {NoCommand})]
  /\ Fine
  /\ UNCHANGED <<cliVars, fileVars, logged, torn, added, exposed>>

VerifyCommandTrusted(h) == hook[h].cfg # NoCommand /\ trust = hook[h].cfg

\* The configured command, if its fingerprint is the stored one; the default
\* otherwise, also when the trust file cannot be read.  A path outside the
\* project and a file that is not there end the adapter's part with a message.
CheckTrust(h) ==
  /\ hook[h].pc = "trust"
  /\ \E yes \in BOOLEAN :
       /\ IF yes = VerifyCommandTrusted(h) THEN Fine ELSE ~yes /\ Fault
       /\ Set(h, IF hook[h].edit.where = "inside"
                 THEN [hook[h] EXCEPT !.pc = "vet",
                         !.runner = IF yes THEN hook[h].cfg ELSE DefaultVet]
                 ELSE [hook[h] EXCEPT !.pc = AfterCode(h), !.told = TRUE])
  /\ UNCHANGED <<cliVars, fileVars, history>>

\* The file is indexed, then verified.  The default verifier needs a go.mod.
\* A command that exceeds its timeout is killed and has failed, but the runner
\* waits for everybody who holds its output: it may not come back.
RunVet(h) ==
  /\ hook[h].pc = "vet"
  /\ \E ok \in BOOLEAN :
       IF hook[h].runner = DefaultVet /\ ~HasGoMod
       THEN Set(h, [hook[h] EXCEPT !.pc = "record", !.indexed = ok])
       ELSE \/ \E v \in {"ok", "failed"} :
                 Set(h, [hook[h] EXCEPT !.pc = "record", !.indexed = ok, !.vet = v])
            \/ Set(h, [hook[h] EXCEPT !.pc = "hung"])
  /\ Fine
  /\ UNCHANGED <<cliVars, fileVars, history>>

Failed(h) == hook[h].vet = "failed" \/ ~hook[h].indexed

\* Mutant: only the verifier's verdict reaches the model.
VetFailed(h) == hook[h].vet = "failed"

\* modelContext: empty iff the index is fresh and the verifier did not fail
ModelContext(h) == Failed(h)

\* When the INSERT fails the adapter returns the error instead of its context,
\* and the dispatcher logs it and goes on.
RecordClaim(h) ==
  /\ hook[h].pc = "record"
  /\ \/ /\ claims' = claims \cup {h}
        /\ Set(h, [hook[h] EXCEPT !.pc = AfterCode(h), !.told = ModelContext(h)])
        /\ Fine
     \/ /\ Set(h, [hook[h] EXCEPT !.pc = AfterCode(h), !.lost = TRUE])
        /\ claims' = claims
        /\ Fault
  /\ UNCHANGED <<cliVars, pending, audit, drafts, history>>

-----------------------------------------------------------------------------
(* The audit trail                                                         *)

LastLine == pending[Len(pending)]
OnOpenLine == pending # <<>> /\ ~LastLine.closed

\* Mutant: the log is opened without O_APPEND and truncated.
WithEntryAlone(h, whole) ==
  << [of |-> {h}, closed |-> whole, json |-> whole,
      long |-> hook[h].edit.flags = "long"] >>

\* The bytes go to the end of the file; after a line that was cut off they
\* continue it.
WithEntry(h, whole) ==
  IF OnOpenLine
  THEN [pending EXCEPT ![Len(pending)] =
          [of |-> LastLine.of \cup {h}, closed |-> whole, json |-> FALSE,
           long |-> LastLine.long \/ hook[h].edit.flags = "long"]]
  ELSE Append(pending, [of |-> {h}, closed |-> whole, json |-> whole,
                        long |-> hook[h].edit.flags = "long"])

\* Nothing flagged; or an edit of the truth tree, which has no pending entry.
NothingPending(h) ==
  /\ hook[h].pc = "pending"
  /\ hook[h].edit.where = "outside" \/ hook[h].edit.flags \in {"none", "tree"}
  /\ Set(h, [hook[h] EXCEPT !.pc =
              IF hook[h].edit.where # "outside" /\ hook[h].edit.flags = "tree"
              THEN "stat" ELSE AfterGroundTruth(h)])
  /\ Fine
  /\ UNCHANGED <<cliVars, fileVars, history>>

\* One write; it fails, or stops half way when the disk is full.
AppendPendingAudit(h) ==
  /\ hook[h].pc = "pending"
  /\ hook[h].edit.where # "outside"
  /\ hook[h].edit.flags \in {"claims", "long"}
  /\ Set(h, [hook[h] EXCEPT !.pc = "stat"])
  /\ \/ pending' = WithEntry(h, TRUE) /\ logged' = logged \cup {h} /\ torn' = torn /\ Fine
     \/ pending' = WithEntry(h, FALSE) /\ torn' = torn \cup {h} /\ logged' = logged /\ Fault
     \/ UNCHANGED <<pending, logged, torn>> /\ Fault
  /\ UNCHANGED <<cliVars, claims, audit, drafts, approved, added, exposed>>

AuditEmpty == ~audit.header /\ audit.entries = <<>>

\* Mutant: an edit of the truth tree starts the file anew.
StatAuditForTree(h) ==
  /\ hook[h].pc = "stat"
  /\ Set(h, [hook[h] EXCEPT !.pc = IF AuditEmpty \/ hook[h].edit.flags = "tree"
                                   THEN "truncate" ELSE "append"])
  /\ Fine
  /\ UNCHANGED <<cliVars, fileVars, history>>

\* stat: a file that is absent or empty gets a header first.
StatAudit(h) ==
  /\ hook[h].pc = "stat"
  /\ \/ /\ Set(h, [hook[h] EXCEPT !.pc = IF AuditEmpty THEN "truncate" ELSE "append"])
        /\ Fine
     \/ Set(h, [hook[h] EXCEPT !.pc = AfterGroundTruth(h)]) /\ Fault
  /\ UNCHANGED <<cliVars, fileVars, history>>

\* os.WriteFile opens with O_TRUNC ...
TruncateAudit(h) ==
  /\ hook[h].pc = "truncate"
  /\ \/ /\ audit' = [header |-> FALSE, entries |-> <<>>]
        /\ Set(h, [hook[h] EXCEPT !.pc = "header"])
        /\ Fine
     \/ /\ Set(h, [hook[h] EXCEPT !.pc = AfterGroundTruth(h)])
        /\ audit' = audit
        /\ Fault
  /\ UNCHANGED <<cliVars, claims, pending, drafts, history>>

\* ... and writes at offset 0: over the beginning of whatever is there by now.
\* A write that stops half way has written a header all the same.
WriteHeader(h) ==
  LET headed == [header |-> TRUE,
                 entries |-> IF audit.header \/ audit.entries = <<>>
                             THEN audit.entries ELSE Tail(audit.entries)]
  IN
  /\ hook[h].pc = "header"
  /\ \/ /\ audit' = headed
        /\ Set(h, [hook[h] EXCEPT !.pc = "append"])
        /\ Fine
     \/ /\ audit' \in {audit, headed}
        /\ Set(h, [hook[h] EXCEPT !.pc = AfterGroundTruth(h)])
        /\ Fault
  /\ UNCHANGED <<cliVars, claims, pending, drafts, history>>

AppendAudit(h) ==
  /\ hook[h].pc = "append"
  /\ Set(h, [hook[h] EXCEPT !.pc = AfterGroundTruth(h)])
  /\ \/ /\ audit' = [audit EXCEPT !.entries = Append(@, h)]
        /\ added' = added \cup {h}
        /\ exposed' = IF \E g \in Hooks : hook[g].pc \in {"truncate", "header"}
                      THEN exposed \cup {h} ELSE exposed
        /\ Fine
     \/ UNCHANGED <<audit, added, exposed>> /\ Fault
  /\ UNCHANGED <<cliVars, claims, pending, drafts, approved, logged, torn>>

\* The self-logging adapter: its errors are swallowed.
DraftDecision(h) ==
  /\ hook[h].pc = "draft"
  /\ Set(h, [hook[h] EXCEPT !.pc = "reply"])
  /\ \/ /\ drafts' = IF hook[h].edit.drafts /\ hook[h].edit.where # "outside"
                     THEN drafts \cup {h} ELSE drafts
        /\ Fine
     \/ drafts' = drafts /\ Fault
  /\ UNCHANGED <<cliVars, claims, pending, audit, history>>

\* The aggregated response is the last thing the process writes.
Reply(h) ==
  /\ hook[h].pc = "reply"
  /\ Set(h, [hook[h] EXCEPT !.pc = "done"])
  /\ Fine
  /\ UNCHANGED <<cliVars, fileVars, history>>

\* Mutant: cancelling the context is all that is done.
WatchdogOfVet(h) ==
  /\ hook[h].pc = "vet"
  /\ Set(h, [hook[h] EXCEPT !.pc = "killed"])
  /\ Fine
  /\ UNCHANGED <<cliVars, fileVars, history>>

\* 65 s are over, or a signal: the process exits with 1 where it is.
Watchdog(h) ==
  /\ hook[h].pc \notin Ended \cup {"ready"}
  /\ Set(h, [hook[h] EXCEPT !.pc = "killed"])
  /\ Fine
  /\ UNCHANGED <<cliVars, fileVars, history>>

-----------------------------------------------------------------------------
HookStep(h) ==
  \/ CheckTrust(h) \/ RunVet(h) \/ RecordClaim(h)
  \/ NothingPending(h) \/ AppendPendingAudit(h)
  \/ StatAudit(h) \/ TruncateAudit(h) \/ WriteHeader(h) \/ AppendAudit(h)
  \/ DraftDecision(h) \/ Reply(h)

Next ==
  \/ EditConfig \/ ShowCommand \/ Confirm \/ WriteTrustedFingerprint \/ Decline
  \/ \E h \in Hooks : StartHook(h) \/ HookStep(h) \/ Watchdog(h)

Spec == Init /\ [][Next]_vars

\* The process runs, and its watchdog goroutine fires when its time is over.
Fairness == \A h \in Hooks : WF_vars(HookStep(h)) /\ WF_vars(Watchdog(h))

-----------------------------------------------------------------------------
\* What the Stop hook of session s reads from pending-audit.log: lines that
\* are not JSON are skipped, one over the scanner's buffer fails the read.
Reported(s) ==
  IF \E i \in DOMAIN pending : pending[i].long THEN {}
  ELSE (UNION {pending[i].of : i \in {j \in DOMAIN pending : pending[j].json}})
       \cap {h \in Hooks : hook[h].session = s}

\* Whatever happens to config.toml and to the trust file, the only configured
\* commands that run are those the operator was shown and approved, the last
\* of them before the hook began or one approved while it ran.
OnlyApprovedRuns ==
  \A h \in Hooks : hook[h].runner \in Commands => hook[h].runner \in approved[h]

\* A hook that ends normally after a failed verifier or index has recorded a
\* claim and tells the model, unless the INSERT failed: then the failure is
\* known to nobody, although the process exits with 0.
FailureIsTold ==
  \A h \in Hooks : hook[h].pc = "done" /\ Failed(h) /\ ~hook[h].lost
                     => hook[h].told /\ h \in claims

\* audit-log.md is append-only: an entry stays, unless it was appended while
\* another hook was about to write the header.
AuditEntriesStay ==
  added \ exposed \subseteq {audit.entries[i] : i \in DOMAIN audit.entries}

\* Each audit line that was cut off takes at most one whole entry with it; all
\* others are reported at Stop, as long as no line exceeds the buffer.
FlaggedClaimsAreReported ==
  (\A i \in DOMAIN pending : ~pending[i].long)
    => Cardinality({h \in logged : h \notin Reported(hook[h].session)})
         <= Cardinality(torn)

\* A hook that started ends, however long its verifier holds on.
HooksEnd ==
  \A h \in Hooks : (hook[h].pc # "ready") ~> (hook[h].pc \in Ended)
=============================================================================
