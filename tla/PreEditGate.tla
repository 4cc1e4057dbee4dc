---------------------------- MODULE PreEditGate ----------------------------
(***************************************************************************)
(* The pre-edit hook: one process per proposed edit, which asks the code,  *)
(* ground-truth and self-logging adapters in turn and denies the edit when *)
(* one of them does.  The ground-truth guards and the rationale guard      *)
(* block only while the operator's trust marker is in place, and a         *)
(* single-use token on disk bypasses them.  Tokens and markers are plain   *)
(* files: hooks read a token and unlink it in two steps, and the           *)
(* operator's commands write a file by truncating it first.                *)
(*                                                                         *)
(* All edits here are edits of one file, so there is one override token    *)
(* and one trivial token.  What an edit contains is reduced to the guards  *)
(* that object to it.                                                      *)
(***************************************************************************)
EXTENDS Naturals

CONSTANTS
  Hooks,           \* pre-edit processes
  Edits,           \* the edits a session may propose
  Enabled,         \* the adapters config.toml enables
  MarkersAtStart,  \* the sets of markers that may exist already; that of
                   \* self-logging is written by hand, by no command
  MaxGrants,       \* bound: tokens the operator issues
  MaxEvents        \* bound: I/O failures and commands about trust markers

Adapters == {"code", "ground-truth", "self-logging"}
Guards   == {"code", "path", "content", "claim", "rationale"}
Kinds    == {"override", "trivial"}

\* `hits` are the guards that object to the edit; `named` says whether the
\* tool call names its file (Bash does not, and only its command is scanned);
\* `confirmed` whether an environment variable of the session lists the file.
Edit == [hits : SUBSET Guards, named : BOOLEAN, confirmed : BOOLEAN]

ASSUME PreEditGateAssumption ==
  /\ Edits \subseteq Edit
  /\ \A e \in Edits : e.named \/ e.hits \subseteq {"code", "claim"}
  /\ Enabled \subseteq Adapters
  /\ MarkersAtStart \subseteq SUBSET Adapters
  /\ MaxGrants \in Nat /\ MaxEvents \in Nat

VARIABLES
  token,     \* kind -> {} no file, {0} an empty file, {n} the n-th grant
  marker,    \* adapter -> state of its trust marker
  operator,  \* the command the operator is running
  grants,    \* tokens issued so far
  expired,   \* the grants that are past their five minutes
  hook,      \* the running pre-edit processes
  log,       \* the grants with a line in pending-decisions.log
  faults,    \* I/O failures so far
  trusts,    \* commands about trust markers so far
  gone,      \* history: grants whose file was unlinked or overwritten
  asked,     \* history: adapters the operator ran `config trust` for
  since      \* history of each hook's lifetime

fileVars == <<token, marker, operator, grants, expired, trusts, asked>>
vars == <<fileVars, hook, log, faults, gone, since>>

-----------------------------------------------------------------------------
\* The order in which the adapters, and the guards of one adapter, are asked.
Rank == [path |-> 1, content |-> 2, claim |-> 3, rationale |-> 4]

Adapter(g) ==
  CASE g = "code"      -> "code"
    [] g = "rationale" -> "self-logging"
    [] OTHER           -> "ground-truth"

Kind(g) == IF g = "rationale" THEN "trivial" ELSE "override"

First(S) == CHOOSE g \in S : \A o \in S : Rank[g] <= Rank[o]

\* Filters and the rationale guard look for a token before they look at the
\* trust marker, the forbidden-claim guard after it.
Entry(S) ==
  CASE S = {}                        -> "answer"
    [] S # {} /\ First(S) = "claim" -> "trust"
    [] OTHER                         -> "read"

NoEdit == [hits |-> {}, named |-> TRUE, confirmed |-> FALSE]

Hook == [pc    : {"idle", "read", "remove", "draft", "trust", "answer"},
         edit  : Edits \cup {NoEdit},
         up    : SUBSET Adapters,          \* the adapters that have a say
         todo  : SUBSET (Guards \ {"code"}),  \* objections not dealt with yet
         grant : Nat,                      \* the grant read, 0 if unusable
         used  : SUBSET (Guards \X Nat),   \* the bypasses so far
         by    : Adapters \cup {"none"}]   \* the first adapter to deny

NoHook == [pc |-> "idle", edit |-> NoEdit, up |-> {}, todo |-> {},
           grant |-> 0, used |-> {}, by |-> "none"]

\* What held throughout a hook's life: `gone` grants were spent or expired
\* before it began, `firm` markers were in place all the time, `cold` ones
\* never, and `asked` is what the operator had asked for when it began.
Since == [gone : SUBSET Nat, firm : SUBSET Adapters, cold : SUBSET Adapters,
          asked : SUBSET Adapters]

NotBegun == [gone |-> {}, firm |-> {}, cold |-> {}, asked |-> {}]

Operator == [doing : {"nothing", "grant", "trust"}, kind : Kinds, linked : BOOLEAN]

AtRest == [doing |-> "nothing", kind |-> "override", linked |-> FALSE]

There == {a \in Adapters : marker[a] = "there"}

TypeOK ==
  /\ token \in [Kinds -> SUBSET Nat]
  /\ marker \in [Adapters -> {"absent", "empty", "there"}]
  /\ operator \in Operator
  /\ grants \in Nat
  /\ expired \subseteq Nat
  /\ hook \in [Hooks -> Hook]
  /\ log \subseteq Nat
  /\ faults \in Nat
  /\ trusts \in Nat
  /\ gone \subseteq Nat
  /\ asked \subseteq Adapters
  /\ since \in [Hooks -> Since]

Init ==
  /\ token = [k \in Kinds |-> {}]
  /\ \E there \in MarkersAtStart :
       marker = [a \in Adapters |-> IF a \in there THEN "there" ELSE "absent"]
  /\ operator = AtRest
  /\ grants = 0
  /\ expired = {}
  /\ hook = [h \in Hooks |-> NoHook]
  /\ log = {}
  /\ faults = 0
  /\ trusts = 0
  /\ gone = {}
  /\ asked = {}
  /\ since = [h \in Hooks |-> NotBegun]

-----------------------------------------------------------------------------
(* The operator's commands                                                 *)

EventsLeft == faults + trusts < MaxEvents

\* os.WriteFile truncates (or creates) the token, then writes it: `linked`
\* says that the file opened is still the one at the token's path.
OpenToken(k) ==
  /\ operator.doing = "nothing"
  /\ grants < MaxGrants
  /\ token' = [token EXCEPT ![k] = {0}]
  /\ gone' = gone \cup (token[k] \ {0})
  /\ operator' = [doing |-> "grant", kind |-> k, linked |-> TRUE]
  /\ UNCHANGED <<marker, grants, expired, trusts, asked, hook, log, faults, since>>

WriteToken ==
  /\ operator.doing = "grant"
  /\ grants' = grants + 1
  /\ token' = IF operator.linked THEN [token EXCEPT ![operator.kind] = {grants + 1}]
                                 ELSE token
  /\ gone' = IF operator.linked THEN gone ELSE gone \cup {grants + 1}
  /\ operator' = AtRest
  /\ UNCHANGED <<marker, expired, trusts, asked, hook, log, faults, since>>

Expire ==
  /\ \E g \in 1 .. grants : g \notin expired \cup gone /\ expired' = expired \cup {g}
  /\ UNCHANGED <<token, marker, operator, grants, trusts, asked, hook, log, faults, gone, since>>

SetMarker(a, state) ==
  /\ marker' = [marker EXCEPT ![a] = state]
  /\ since' = [h \in Hooks |->
       [since[h] EXCEPT !.firm = IF state = "there" THEN @ ELSE @ \ {a},
                        !.cold = IF state = "there" THEN @ \ {a} ELSE @]]

\* `leonard config trust` knows the targets verifier, ground-truth and sync;
\* any other one is an error.
OpenMarker ==
  /\ operator.doing = "nothing"
  /\ EventsLeft
  /\ trusts' = trusts + 1
  /\ SetMarker("ground-truth", "empty")
  /\ operator' = [AtRest EXCEPT !.doing = "trust"]
  /\ UNCHANGED <<token, grants, expired, asked, hook, log, faults, gone>>

WriteMarker ==
  /\ operator.doing = "trust"
  /\ SetMarker("ground-truth", "there")
  /\ asked' = asked \cup {"ground-truth"}
  /\ operator' = AtRest
  /\ UNCHANGED <<token, grants, expired, trusts, hook, log, faults, gone>>

UnknownTarget ==
  /\ operator.doing = "nothing"
  /\ EventsLeft
  /\ trusts' = trusts + 1
  /\ asked' = asked \cup {"self-logging"}
  /\ UNCHANGED <<token, marker, operator, grants, expired, hook, log, faults, gone, since>>

\* The documented way to withdraw trust is to remove the file.
RemoveMarker(a) ==
  /\ operator.doing = "nothing"
  /\ marker[a] # "absent"
  /\ EventsLeft
  /\ trusts' = trusts + 1
  /\ SetMarker(a, "absent")
  /\ asked' = asked \ {a}
  /\ UNCHANGED <<token, operator, grants, expired, hook, log, faults, gone>>

-----------------------------------------------------------------------------
(* A pre-edit process                                                      *)

Fault == EventsLeft /\ faults' = faults + 1

\* An adapter whose Init fails is left out, and one whose PreEdit returns an
\* error other than ErrDecode has no say either: any of them, or all.
LoadEnabled(up) ==
  \/ up = Enabled /\ UNCHANGED faults
  \/ up \subseteq Enabled /\ up # Enabled /\ Fault

Objections(e, up) == {g \in e.hits \ {"code"} : Adapter(g) \in up}

Begin(e, up, by) ==
  [pc |-> Entry(Objections(e, up)), edit |-> e, up |-> up,
   todo |-> Objections(e, up), grant |-> 0, used |-> {}, by |-> by]

\* The code adapter comes first and touches no file of this model.  It denies
\* fabricated references, paths under .leonard/ and payloads it rejects.
HandlePreEdit(h) ==
  /\ hook[h].pc = "idle"
  /\ \E e \in Edits, up \in SUBSET Adapters :
       LET objects == "code" \in e.hits /\ "code" \in up
       IN /\ LoadEnabled(up)
          /\ hook' = [hook EXCEPT ![h] = Begin(e, up, IF objects THEN "code" ELSE "none")]
  /\ since' = [since EXCEPT ![h] = [gone |-> gone \cup expired, firm |-> There,
                                    cold |-> Adapters \ There, asked |-> asked]]
  /\ UNCHANGED <<fileVars, log, gone>>

Settle(r, rest) == [r EXCEPT !.pc = Entry(rest), !.todo = rest, !.grant = 0]

\* The guard at hand lets the edit pass; the next one is asked.
Pass(r) == Settle(r, r.todo \ {First(r.todo)})

\* An adapter that denies asks no further guard of its own; the adapters
\* after it are asked all the same, and the first denial is the answer.
Deny(r) ==
  LET a == Adapter(First(r.todo)) IN
  [Settle(r, {o \in r.todo : Adapter(o) # a})
     EXCEPT !.by = IF r.by = "none" THEN a ELSE r.by]

\* Without a usable token the forbidden-claim guard, which knows it is
\* trusted, denies; the rationale guard looks at the environment; the others
\* go on to the trust marker.
Miss(r) ==
  LET g == First(r.todo) IN
  CASE g = "claim"                          -> Deny(r)
    [] g = "rationale" /\ r.edit.confirmed -> Pass(r)
    [] OTHER                                -> [r EXCEPT !.pc = "trust", !.grant = 0]

\* No token, or one that cannot be read.
NoToken(h) ==
  LET k == Kind(First(hook[h].todo)) IN
  /\ hook[h].pc = "read"
  /\ \/ token[k] = {} /\ UNCHANGED faults
     \/ token[k] # {} /\ Fault
  /\ hook' = [hook EXCEPT ![h] = Miss(hook[h])]
  /\ UNCHANGED <<fileVars, log, gone, since>>

\* Lstat, ReadFile and the tests of what was read.
ReadToken(h) ==
  /\ hook[h].pc = "read"
  /\ \E n \in token[Kind(First(hook[h].todo))] :
       hook' = [hook EXCEPT ![h] = [hook[h] EXCEPT
                  !.pc = "remove", !.grant = IF n \in expired THEN 0 ELSE n]]
  /\ UNCHANGED <<fileVars, log, faults, gone, since>>

\* The unlink goes by path: it takes whatever file is there by now.
Unlink(k) ==
  /\ token' = [token EXCEPT ![k] = {}]
  /\ gone' = gone \cup (token[k] \ {0})
  /\ operator' = IF operator.doing = "grant" /\ operator.kind = k
                   THEN [operator EXCEPT !.linked = FALSE] ELSE operator

\* A failed unlink is ignored, the token stays and still counts.
Consume(k) ==
  \/ Unlink(k) /\ UNCHANGED faults
  \/ token[k] # {} /\ Fault /\ UNCHANGED <<token, gone, operator>>

\* Mutant: the bypass of one guard is the verdict of the adapter.
BypassAdapter(r) ==
  LET g == First(r.todo)
      spent == [r EXCEPT !.used = @ \cup {<<g, r.grant>>}]
  IN IF g = "rationale" THEN [spent EXCEPT !.pc = "draft"]
     ELSE Settle(spent, {o \in r.todo : Adapter(o) # Adapter(g)})

\* Mutant: every guard takes its token and goes on.
BypassUnlogged(r) ==
  Pass([r EXCEPT !.used = @ \cup {<<First(r.todo), r.grant>>}])

Bypass(r) ==
  LET g == First(r.todo)
      spent == [r EXCEPT !.used = @ \cup {<<g, r.grant>>}]
  IN IF g = "rationale" THEN [spent EXCEPT !.pc = "draft"] ELSE Pass(spent)

\* Mutant: the token is left for the CLI to clean up.
LeaveToken(h) ==
  /\ hook[h].pc = "remove"
  /\ gone' = gone \cup token[Kind(First(hook[h].todo))]
  /\ hook' = [hook EXCEPT ![h] = IF hook[h].grant = 0 THEN Miss(hook[h]) ELSE Bypass(hook[h])]
  /\ UNCHANGED <<fileVars, log, faults, since>>

\* os.Remove, for a usable token and for one that is expired or unreadable.
RemoveToken(h) ==
  /\ hook[h].pc = "remove"
  /\ Consume(Kind(First(hook[h].todo)))
  /\ hook' = [hook EXCEPT ![h] = IF hook[h].grant = 0 THEN Miss(hook[h]) ELSE Bypass(hook[h])]
  /\ UNCHANGED <<marker, grants, expired, trusts, asked, log, since>>

\* The bypass of the rationale guard leaves a line in pending-decisions.log.
AppendDraft(h) ==
  /\ hook[h].pc = "draft"
  /\ \/ log' = log \cup {hook[h].grant} /\ UNCHANGED faults
     \/ Fault /\ UNCHANGED log
  /\ hook' = [hook EXCEPT ![h] = Pass(hook[h])]
  /\ UNCHANGED <<fileVars, gone, since>>

\* A marker file that is not empty.
AdapterTrusted(a) == marker[a] = "there"

Trusted(h) ==
  LET r == hook[h] IN
  IF First(r.todo) = "claim" /\ r.edit.named THEN [r EXCEPT !.pc = "read"] ELSE Deny(r)

\* A marker that cannot be read counts as none.
CheckTrust(h) ==
  LET a == Adapter(First(hook[h].todo)) IN
  /\ hook[h].pc = "trust"
  /\ \/ /\ hook' = [hook EXCEPT ![h] = IF AdapterTrusted(a) THEN Trusted(h) ELSE Pass(hook[h])]
        /\ UNCHANGED <<faults, since>>
     \/ /\ Fault
        /\ hook' = [hook EXCEPT ![h] = Pass(hook[h])]
        /\ since' = [since EXCEPT ![h] = [since[h] EXCEPT !.firm = @ \ {a}]]
  /\ UNCHANGED <<fileVars, log, gone>>

\* The edit is denied if some adapter denied it, else it proceeds.
Answer(h) ==
  /\ hook[h].pc = "answer"
  /\ hook' = [hook EXCEPT ![h] = NoHook]
  /\ since' = [since EXCEPT ![h] = NotBegun]
  /\ UNCHANGED <<fileVars, log, faults, gone>>

\* A kill, the time budget or an unreadable config.toml: exit code 1, with
\* which the edit proceeds.
Die(h) ==
  /\ hook[h].pc \notin {"idle", "answer"}
  /\ hook' = [hook EXCEPT ![h] = NoHook]
  /\ since' = [since EXCEPT ![h] = NotBegun]
  /\ UNCHANGED <<fileVars, log, faults, gone>>

-----------------------------------------------------------------------------
HookStep(h) ==
  \/ HandlePreEdit(h) \/ NoToken(h) \/ ReadToken(h) \/ RemoveToken(h)
  \/ AppendDraft(h) \/ CheckTrust(h) \/ Answer(h) \/ Die(h)

Next ==
  \/ \E k \in Kinds : OpenToken(k)
  \/ WriteToken
  \/ Expire
  \/ OpenMarker
  \/ WriteMarker
  \/ UnknownTarget
  \/ \E a \in Adapters : RemoveMarker(a)
  \/ \E h \in Hooks : HookStep(h)

Spec == Init /\ [][Next]_vars

-----------------------------------------------------------------------------
(* What the gate promises                                                  *)

Answered(h) == hook[h].pc = "answer"

BypassedBy(h) == {u[1] : u \in hook[h].used}

\* An edit proceeds only if each guard that objects to it, whose adapter ran
\* and was trusted from the hook's start to its answer, was bypassed with a
\* token of its own (HandlePreEdit, AggregatePreEdit, GroundTruthAdapter.PreEdit):
\* no error, no missing token and no other adapter's pass makes up for it.
ObjectionsNeedBypass ==
  \A h \in Hooks : Answered(h) /\ hook[h].by = "none" =>
    \A g \in hook[h].edit.hits :
      \/ Adapter(g) \notin hook[h].up
      \/ g \in BypassedBy(h)
      \/ g = "rationale" /\ hook[h].edit.confirmed
      \/ g # "code" /\ Adapter(g) \notin since[h].firm

\* An adapter whose marker was never in place during the hook's life does not
\* block (AdapterTrusted): an install nobody has trusted stops no work, and
\* neither does a `config trust` that is halfway through.
UntrustedNeverBlocks ==
  \A h \in Hooks : hook[h].by \in {"ground-truth", "self-logging"} =>
    hook[h].by \notin since[h].cold

\* A token that was unlinked, or past its five minutes, before a hook began
\* bypasses nothing in that hook (consumeOverrideToken, consumeTrivialToken),
\* whatever the operator and the other hooks do to the file meanwhile.
NoLateBypass ==
  \A h \in Hooks : \A u \in hook[h].used : u[2] \notin since[h].gone

\* While no I/O fails, an edit that a trivial token let through has left the
\* line for `leonard truth-history` before the answer is given.
TrivialBypassIsLogged ==
  \A h \in Hooks : Answered(h) /\ faults = 0 =>
    \A u \in hook[h].used : u[1] = "rationale" => u[2] \in log

\* cmd/leonard/override.go:46 and truth_edit.go:46: a token is single-use, the
\* next matching PreEdit consumes it.  So no two hooks get past a guard with
\* the same token.
TokenIsSingleUse ==
  \A g, h \in Hooks : g # h =>
    \A u \in hook[g].used, v \in hook[h].used : u[2] # v[2]

\* docs/self-logging.md:69-72: a require-tier edit is denied when the operator
\* ran `leonard config trust self-logging` and no bypass is active.
RequireTierBlocks ==
  \A h \in Hooks :
    /\ Answered(h) /\ "rationale" \in hook[h].edit.hits
    /\ "self-logging" \in hook[h].up \cap since[h].asked
    /\ "rationale" \notin BypassedBy(h) /\ ~hook[h].edit.confirmed
    => hook[h].by # "none"
=============================================================================
