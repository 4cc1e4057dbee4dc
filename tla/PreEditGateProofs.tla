------------------------- MODULE PreEditGateProofs -------------------------
(***************************************************************************)
(* Proofs about PreEditGate for any number of hooks, tokens and failures.  *)
(* HookInv says what one process carries from step to step; TokensAreFresh *)
(* and SinceIsPast tie it to the files; LogInv is about the drafts' log.   *)
(***************************************************************************)
EXTENDS PreEditGate, TLAPS

Texts == Guards \ {"code"}

\* A process that is asking a guard has an objection left, one that answers
\* has none; the guard that writes a draft is the rationale guard.
Flow(r) ==
  /\ r.pc \in {"idle", "answer"} => r.todo = {}
  /\ r.pc \in {"read", "remove", "draft", "trust"} => r.todo # {}
  /\ r.pc = "draft" => "rationale" \in {u[1] : u \in r.used} /\ First(r.todo) = "rationale"

\* The objection of g is still on the list or was dealt with.
Settled(g, r, s) ==
  \/ Adapter(g) \notin r.up
  \/ g \in {u[1] : u \in r.used}
  \/ g = "rationale" /\ r.edit.confirmed
  \/ g # "code" /\ Adapter(g) \notin s.firm

Covered(r, s) ==
  r.pc # "idle" /\ r.by = "none" =>
    \A g \in r.edit.hits : g \in r.todo \/ Settled(g, r, s)

\* Who denied, or is about to deny for want of a token, was trusted at some time.
Trusting(r, s) ==
  /\ r.by \in {"ground-truth", "self-logging"} => r.by \notin s.cold
  /\ r.pc \in {"read", "remove"} /\ First(r.todo) = "claim" => "ground-truth" \notin s.cold

\* Nothing this process used, or is about to use, was gone when it began.
Timely(r, s) ==
  /\ \A u \in r.used : u[2] \notin s.gone
  /\ r.pc = "remove" /\ r.grant # 0 => r.grant \notin s.gone

HookInv(r, s) == Flow(r) /\ Covered(r, s) /\ Trusting(r, s) /\ Timely(r, s)

-----------------------------------------------------------------------------
LEMMA FirstIsMember ==
  ASSUME NEW S \in SUBSET Texts, S # {}
  PROVE  First(S) \in S
<1>0. /\ Rank["path"] = 1 /\ Rank["content"] = 2
      /\ Rank["claim"] = 3 /\ Rank["rationale"] = 4
  BY DEF Rank
<1>1. \A o \in S : o \in {"path", "content", "claim", "rationale"}
  BY DEF Texts, Guards
<1>2. \E g \in S : \A o \in S : Rank[g] <= Rank[o]
  <2>1. CASE "path" \in S
    BY <1>0, <1>1, <2>1
  <2>2. CASE "path" \notin S /\ "content" \in S
    BY <1>0, <1>1, <2>2
  <2>3. CASE "path" \notin S /\ "content" \notin S /\ "claim" \in S
    BY <1>0, <1>1, <2>3
  <2>4. CASE S = {"rationale"}
    BY <1>0, <2>4
  <2>. QED  BY <1>1, <2>1, <2>2, <2>3, <2>4
<1>. QED  BY <1>2 DEF First

LEMMA EntryIsState ==
  ASSUME NEW S \in SUBSET Texts
  PROVE  /\ Entry(S) \in {"answer", "trust", "read"}
         /\ Entry(S) = "answer" <=> S = {}
         /\ Entry(S) = "read" => First(S) # "claim"
BY DEF Entry

LEMMA SettleFields ==
  ASSUME NEW r \in Hook, NEW rest \in SUBSET Texts
  PROVE  /\ Settle(r, rest) \in Hook
         /\ Settle(r, rest).pc = Entry(rest)
         /\ Settle(r, rest).todo = rest
         /\ Settle(r, rest).edit = r.edit
         /\ Settle(r, rest).up = r.up
         /\ Settle(r, rest).used = r.used
         /\ Settle(r, rest).by = r.by
<1>1. Entry(rest) \in {"answer", "trust", "read"}
  BY EntryIsState
<1>. QED  BY <1>1 DEF Settle, Hook, Texts

LEMMA PassKeeps ==
  ASSUME NEW r \in Hook, NEW s \in Since, HookInv(r, s),
         r.pc \notin {"idle", "answer"},
         Settled(First(r.todo), r, s)
  PROVE  Pass(r) \in Hook /\ HookInv(Pass(r), s) /\ Pass(r).pc # "remove"
<1>. DEFINE g == First(r.todo)
            rest == r.todo \ {g}
            q == Settle(r, rest)
<1>1. rest \in SUBSET Texts
  BY DEF Hook, Texts
<1>2. /\ q \in Hook /\ q.pc = Entry(rest) /\ q.todo = rest /\ q.edit = r.edit
      /\ q.up = r.up /\ q.used = r.used /\ q.by = r.by
  BY <1>1, SettleFields
<1>3. /\ Entry(rest) \in {"answer", "trust", "read"}
      /\ Entry(rest) = "answer" <=> rest = {}
      /\ Entry(rest) = "read" => First(rest) # "claim"
  BY <1>1, EntryIsState
<1>4. Flow(q)
  BY <1>2, <1>3 DEF Flow
<1>5. Covered(q, s)
  <2>. SUFFICES ASSUME r.by = "none", NEW o \in r.edit.hits
                PROVE  o \in rest \/ Settled(o, q, s)
    BY <1>2 DEF Covered
  <2>1. o \in r.todo \/ Settled(o, r, s)
    BY DEF HookInv, Covered
  <2>2. Settled(o, r, s) => Settled(o, q, s)
    BY <1>2 DEF Settled
  <2>3. CASE o = g
    BY <2>2, <2>3
  <2>. QED  BY <2>1, <2>2, <2>3
<1>6. Trusting(q, s)
  BY <1>2, <1>3 DEF HookInv, Trusting
<1>7. Timely(q, s)
  BY <1>2, <1>3 DEF HookInv, Timely
<1>. QED  BY <1>2, <1>3, <1>4, <1>5, <1>6, <1>7 DEF Pass, HookInv

LEMMA DenyKeeps ==
  ASSUME NEW r \in Hook, NEW s \in Since, HookInv(r, s),
         r.pc \notin {"idle", "answer"},
         Adapter(First(r.todo)) \notin s.cold
  PROVE  Deny(r) \in Hook /\ HookInv(Deny(r), s) /\ Deny(r).pc # "remove"
<1>. DEFINE a == Adapter(First(r.todo))
            rest == {o \in r.todo : Adapter(o) # a}
            q == Settle(r, rest)
            d == Deny(r)
<1>1. rest \in SUBSET Texts
  BY DEF Hook, Texts
<1>2. /\ q \in Hook /\ q.pc = Entry(rest) /\ q.todo = rest /\ q.edit = r.edit
      /\ q.up = r.up /\ q.used = r.used /\ q.by = r.by
  BY <1>1, SettleFields
<1>3. /\ Entry(rest) \in {"answer", "trust", "read"}
      /\ Entry(rest) = "answer" <=> rest = {}
      /\ Entry(rest) = "read" => First(rest) # "claim"
  BY <1>1, EntryIsState
<1>4. a \in Adapters /\ r.by \in Adapters \cup {"none"}
  BY DEF Adapter, Adapters, Hook
<1>5. d = [q EXCEPT !.by = IF r.by = "none" THEN a ELSE r.by]
  BY DEF Deny
<1>6. d \in Hook
  BY <1>2, <1>4, <1>5 DEF Hook
<1>7. /\ d.pc = Entry(rest) /\ d.todo = rest /\ d.used = r.used
      /\ d.by = IF r.by = "none" THEN a ELSE r.by
  BY <1>2, <1>5 DEF Hook
<1>8. d.by # "none"
  BY <1>4, <1>7 DEF Adapters
<1>9. Flow(d) /\ Covered(d, s)
  BY <1>3, <1>7, <1>8 DEF Flow, Covered
<1>10. Trusting(d, s) /\ Timely(d, s)
  BY <1>3, <1>7 DEF HookInv, Trusting, Timely
<1>. HIDE DEF d
<1>. QED  BY <1>3, <1>6, <1>7, <1>9, <1>10 DEF HookInv, d

\* Moving on to another question about the same guard.
LEMMA TurnKeeps ==
  ASSUME NEW r \in Hook, NEW s \in Since, HookInv(r, s),
         r.pc \notin {"idle", "answer"},
         NEW pc \in {"read", "remove", "trust"}, NEW n \in Nat,
         pc = "remove" /\ n # 0 => n \notin s.gone,
         pc # "trust" /\ First(r.todo) = "claim" => "ground-truth" \notin s.cold
  PROVE  LET q == [r EXCEPT !.pc = pc, !.grant = n]
         IN q \in Hook /\ q.pc = pc /\ HookInv(q, s)
<1>. DEFINE q == [r EXCEPT !.pc = pc, !.grant = n]
<1>1. q \in Hook
  BY DEF Hook
<1>2. /\ q.pc = pc /\ q.grant = n /\ q.todo = r.todo /\ q.edit = r.edit
      /\ q.up = r.up /\ q.used = r.used /\ q.by = r.by
  BY DEF Hook
<1>3. r.todo # {}
  BY DEF HookInv, Flow, Hook
<1>4. Flow(q)
  BY <1>2, <1>3 DEF Flow
<1>5. Covered(q, s)
  <2>. SUFFICES ASSUME r.by = "none", NEW o \in r.edit.hits
                PROVE  o \in r.todo \/ Settled(o, q, s)
    BY <1>2 DEF Covered
  <2>1. o \in r.todo \/ Settled(o, r, s)
    BY DEF HookInv, Covered
  <2>. QED  BY <1>2, <2>1 DEF Settled
<1>6. Trusting(q, s) /\ Timely(q, s)
  BY <1>2 DEF HookInv, Trusting, Timely
<1>. QED  BY <1>1, <1>2, <1>4, <1>5, <1>6 DEF HookInv

LEMMA MissKeeps ==
  ASSUME NEW r \in Hook, NEW s \in Since, HookInv(r, s),
         r.pc \in {"read", "remove"}
  PROVE  Miss(r) \in Hook /\ HookInv(Miss(r), s) /\ Miss(r).pc # "remove"
<1>. DEFINE g == First(r.todo)
<1>1. CASE g = "claim"
  <2>1. Adapter(g) = "ground-truth"
    BY <1>1 DEF Adapter
  <2>2. Adapter(g) \notin s.cold
    BY <1>1, <2>1 DEF HookInv, Trusting
  <2>3. Deny(r) \in Hook /\ HookInv(Deny(r), s) /\ Deny(r).pc # "remove"
    BY <2>2, DenyKeeps
  <2>. QED  BY <1>1, <2>3 DEF Miss
<1>2. CASE g = "rationale" /\ r.edit.confirmed
  <2>1. Settled(g, r, s)
    BY <1>2 DEF Settled
  <2>2. Pass(r) \in Hook /\ HookInv(Pass(r), s) /\ Pass(r).pc # "remove"
    BY <2>1, PassKeeps
  <2>. QED  BY <1>2, <2>2 DEF Miss
<1>3. CASE g # "claim" /\ ~(g = "rationale" /\ r.edit.confirmed)
  <2>. DEFINE q == [r EXCEPT !.pc = "trust", !.grant = 0]
  <2>1. q \in Hook /\ q.pc = "trust" /\ HookInv(q, s)
    BY TurnKeeps
  <2>2. Miss(r) = q
    BY <1>3 DEF Miss
  <2>. QED  BY <2>1, <2>2
<1>. QED  BY <1>1, <1>2, <1>3

LEMMA BypassKeeps ==
  ASSUME NEW r \in Hook, NEW s \in Since, HookInv(r, s),
         r.pc = "remove", r.grant # 0
  PROVE  Bypass(r) \in Hook /\ HookInv(Bypass(r), s) /\ Bypass(r).pc # "remove"
<1>. DEFINE g == First(r.todo)
            more == r.used \cup {<<g, r.grant>>}
            spent == [r EXCEPT !.used = r.used \cup {<<g, r.grant>>}]
<1>1. r.todo # {} /\ r.todo \in SUBSET Texts
  BY DEF HookInv, Flow, Hook, Texts
<1>2. g \in Texts
  BY <1>1, FirstIsMember
<1>3. spent \in Hook
  <2>1. r.grant \in Nat /\ r.used \in SUBSET (Guards \X Nat)
    BY DEF Hook
  <2>2. more \in SUBSET (Guards \X Nat)
    BY <1>2, <2>1 DEF Texts
  <2>. QED  BY <2>2 DEF Hook
<1>4. /\ spent.pc = "remove" /\ spent.used = more /\ spent.todo = r.todo
      /\ spent.edit = r.edit /\ spent.up = r.up /\ spent.by = r.by
      /\ spent.grant = r.grant
  BY DEF Hook
<1>5. g \in {u[1] : u \in more} /\ \A u \in r.used : u[1] \in {v[1] : v \in more}
  <2>1. <<g, r.grant>> \in more /\ <<g, r.grant>>[1] = g
    OBVIOUS
  <2>2. g \in {u[1] : u \in more}
    BY <2>1
  <2>. QED  BY <2>2
<1>6. HookInv(spent, s)
  <2>1. Flow(spent)
    BY <1>1, <1>4 DEF Flow
  <2>2. Covered(spent, s)
    <3>. SUFFICES ASSUME r.by = "none", NEW o \in r.edit.hits
                  PROVE  o \in r.todo \/ Settled(o, spent, s)
      BY <1>4 DEF Covered
    <3>1. o \in r.todo \/ Settled(o, r, s)
      BY DEF HookInv, Covered
    <3>2. Settled(o, r, s) => Settled(o, spent, s)
      BY <1>4, <1>5 DEF Settled
    <3>. QED  BY <3>1, <3>2
  <2>3. Trusting(spent, s)
    BY <1>4 DEF HookInv, Trusting
  <2>4. Timely(spent, s)
    BY <1>4 DEF HookInv, Timely
  <2>. QED  BY <2>1, <2>2, <2>3, <2>4 DEF HookInv
<1>7. CASE g = "rationale"
  <2>. DEFINE q == [spent EXCEPT !.pc = "draft"]
  <2>1. q \in Hook
    BY <1>3 DEF Hook
  <2>2. /\ q.pc = "draft" /\ q.used = more /\ q.todo = r.todo
        /\ q.edit = r.edit /\ q.up = r.up /\ q.by = r.by
    BY <1>3, <1>4 DEF Hook
  <2>3. Flow(q)
    BY <1>1, <1>5, <1>7, <2>2 DEF Flow
  <2>4. Covered(q, s)
    BY <1>4, <1>6, <2>2 DEF HookInv, Covered, Settled
  <2>5. Trusting(q, s) /\ Timely(q, s)
    BY <1>4, <1>6, <2>2 DEF HookInv, Trusting, Timely
  <2>6. Bypass(r) = q
    BY <1>7 DEF Bypass
  <2>. QED  BY <2>1, <2>2, <2>3, <2>4, <2>5, <2>6 DEF HookInv
<1>8. CASE g # "rationale"
  <2>1. Settled(First(spent.todo), spent, s)
    BY <1>4, <1>5 DEF Settled
  <2>. HIDE DEF spent
  <2>2. Pass(spent) \in Hook /\ HookInv(Pass(spent), s) /\ Pass(spent).pc # "remove"
    BY <1>3, <1>4, <1>6, <2>1, PassKeeps
  <2>3. Bypass(r) = Pass(spent)
    BY <1>8 DEF Bypass, spent
  <2>. QED  BY <2>2, <2>3
<1>. QED  BY <1>7, <1>8

\* What a process relies on survives when less is known of its lifetime.
LEMMA SinceShrinks ==
  ASSUME NEW r \in Hook, NEW s \in Since, NEW t \in Since, HookInv(r, s),
         t.gone = s.gone, t.firm \subseteq s.firm, t.cold \subseteq s.cold
  PROVE  HookInv(r, t)
<1>1. Covered(r, t)
  BY DEF HookInv, Covered, Settled
<1>2. Trusting(r, t) /\ Timely(r, t)
  BY DEF HookInv, Trusting, Timely
<1>. QED  BY <1>1, <1>2 DEF HookInv

-----------------------------------------------------------------------------
\* Every grant is in one place at most: the file of one kind, or gone.
TokensAreFresh ==
  /\ \A k \in Kinds : token[k] \subseteq 0 .. grants
  /\ token["override"] \cap token["trivial"] \subseteq {0}
  /\ gone \subseteq 1 .. grants
  /\ expired \subseteq 1 .. grants
  /\ \A k \in Kinds : token[k] \cap gone = {}

\* What is recorded of a hook's lifetime is the past.
SinceIsPast ==
  \A h \in Hooks :
    /\ since[h].gone \subseteq gone \cup expired
    /\ since[h].firm \subseteq There
    /\ since[h].cold \cap There = {}

HooksAreSound == \A h \in Hooks : HookInv(hook[h], since[h])

GateInv == TypeOK /\ TokensAreFresh /\ SinceIsPast /\ HooksAreSound

LEMMA Started == Init => GateInv
<1>. SUFFICES ASSUME Init PROVE GateInv
  OBVIOUS
<1>1. \A h \in Hooks : hook[h] = NoHook /\ since[h] = NotBegun
  BY DEF Init
<1>2. NoHook \in Hook /\ NotBegun \in Since
  BY DEF NoHook, NotBegun, Hook, Since, NoEdit, Adapters
<1>3. TypeOK
  <2>1. hook \in [Hooks -> Hook] /\ since \in [Hooks -> Since]
    BY <1>2 DEF Init
  <2>2. token \in [Kinds -> SUBSET Nat] /\ operator \in Operator
    BY DEF Init, AtRest, Operator, Kinds
  <2>3. marker \in [Adapters -> {"absent", "empty", "there"}]
    BY DEF Init
  <2>. QED  BY <2>1, <2>2, <2>3 DEF Init, TypeOK
<1>4. TokensAreFresh
  BY DEF Init, TokensAreFresh, Kinds
<1>5. SinceIsPast
  <2>1. NotBegun.gone = {} /\ NotBegun.firm = {} /\ NotBegun.cold = {}
    BY DEF NotBegun
  <2>. QED  BY <1>1, <2>1 DEF SinceIsPast
<1>6. HookInv(NoHook, NotBegun)
  BY DEF HookInv, Flow, Covered, Trusting, Timely, NoHook, NotBegun
<1>7. HooksAreSound
  BY <1>1, <1>6 DEF HooksAreSound
<1>. QED  BY <1>3, <1>4, <1>5, <1>7 DEF GateInv

\* A step of one process that leaves the files and the history of lifetimes.
LEMMA OwnStep ==
  ASSUME GateInv, NEW h \in Hooks, NEW q \in Hook, HookInv(q, since[h]),
         hook' = [hook EXCEPT ![h] = q], since' = since
  PROVE  hook' \in [Hooks -> Hook] /\ since' \in [Hooks -> Since] /\ HooksAreSound'
<1>1. hook \in [Hooks -> Hook] /\ since \in [Hooks -> Since]
  BY DEF GateInv, TypeOK
<1>2. \A g \in Hooks : hook'[g] = IF g = h THEN q ELSE hook[g]
  BY <1>1
<1>. QED  BY <1>1, <1>2 DEF GateInv, HooksAreSound

\* A process begins or ends: its history is reset with it.
LEMMA OwnLife ==
  ASSUME GateInv, NEW h \in Hooks, NEW q \in Hook, NEW s \in Since, HookInv(q, s),
         hook' = [hook EXCEPT ![h] = q], since' = [since EXCEPT ![h] = s],
         s.gone \subseteq gone \cup expired, s.firm \subseteq There,
         s.cold \cap There = {},
         UNCHANGED <<gone, expired, marker>>
  PROVE  /\ hook' \in [Hooks -> Hook] /\ since' \in [Hooks -> Since]
         /\ HooksAreSound' /\ SinceIsPast'
<1>1. hook \in [Hooks -> Hook] /\ since \in [Hooks -> Since]
  BY DEF GateInv, TypeOK
<1>2. \A g \in Hooks : /\ hook'[g] = IF g = h THEN q ELSE hook[g]
                       /\ since'[g] = IF g = h THEN s ELSE since[g]
  BY <1>1
<1>3. There' = There
  BY DEF There
<1>4. HooksAreSound'
  BY <1>1, <1>2 DEF GateInv, HooksAreSound
<1>5. SinceIsPast'
  BY <1>2, <1>3 DEF GateInv, SinceIsPast
<1>. QED  BY <1>1, <1>4, <1>5

\* The files of the tokens change, no process moves.
LEMMA HooksStay ==
  ASSUME GateInv, UNCHANGED <<hook, since>>
  PROVE  HooksAreSound'
BY DEF GateInv, HooksAreSound

LEMMA LivesStay ==
  ASSUME GateInv, UNCHANGED <<marker, since>>,
         gone \subseteq gone', expired \subseteq expired'
  PROVE  SinceIsPast'
<1>1. There' = There
  BY DEF There
<1>. SUFFICES ASSUME NEW h \in Hooks
              PROVE  /\ since'[h].gone \subseteq gone' \cup expired'
                     /\ since'[h].firm \subseteq There'
                     /\ since'[h].cold \cap There' = {}
  BY DEF SinceIsPast
<1>2. /\ since[h].gone \subseteq gone \cup expired
      /\ since[h].firm \subseteq There
      /\ since[h].cold \cap There = {}
  BY DEF GateInv, SinceIsPast
<1>. QED  BY <1>1, <1>2

LEMMA OpenTokenStep ==
  ASSUME GateInv, NEW k \in Kinds, OpenToken(k)
  PROVE  GateInv'
<1>1. TypeOK'
  <2>1. token' \in [Kinds -> SUBSET Nat] /\ gone' \subseteq Nat
    <3>1. token \in [Kinds -> SUBSET Nat] /\ gone \subseteq Nat
      BY DEF GateInv, TypeOK
    <3>2. token' = [token EXCEPT ![k] = {0}] /\ gone' = gone \cup (token[k] \ {0})
      BY DEF OpenToken
    <3>3. token[k] \subseteq Nat /\ {0} \in SUBSET Nat
      BY <3>1
    <3>. QED  BY <3>1, <3>2, <3>3
  <2>2. operator' \in Operator
    BY DEF OpenToken, Operator
  <2>. QED  BY <2>1, <2>2 DEF GateInv, TypeOK, OpenToken
<1>2. TokensAreFresh'
  <2>1. /\ \A j \in Kinds : token'[j] = IF j = k THEN {0} ELSE token[j]
        /\ gone' = gone \cup (token[k] \ {0})
        /\ grants' = grants /\ expired' = expired /\ grants \in Nat
    BY DEF GateInv, TypeOK, OpenToken
  <2>2. /\ \A j \in Kinds : token[j] \subseteq 0 .. grants /\ token[j] \cap gone = {}
        /\ token["override"] \cap token["trivial"] \subseteq {0}
        /\ gone \subseteq 1 .. grants /\ expired \subseteq 1 .. grants
    BY DEF GateInv, TokensAreFresh
  <2>3. token[k] \ {0} \subseteq 1 .. grants
    BY <2>1, <2>2
  <2>4. \A j \in Kinds : j # k => token[j] \cap token[k] \subseteq {0}
    BY <2>2 DEF Kinds
  <2>5. \A j \in Kinds : token'[j] \subseteq 0 .. grants'
    BY <2>1, <2>2
  <2>6. \A j \in Kinds : token'[j] \cap gone' = {}
    <3>. SUFFICES ASSUME NEW j \in Kinds PROVE token'[j] \cap gone' = {}
      OBVIOUS
    <3>1. 0 \notin gone'
      BY <2>1, <2>2
    <3>2. CASE j = k
      BY <2>1, <3>1, <3>2
    <3>3. CASE j # k
      BY <2>1, <2>2, <2>4, <3>3
    <3>. QED  BY <3>2, <3>3
  <2>7. token'["override"] \cap token'["trivial"] \subseteq {0}
    BY <2>1, <2>2 DEF Kinds
  <2>8. gone' \subseteq 1 .. grants' /\ expired' \subseteq 1 .. grants'
    BY <2>1, <2>2, <2>3
  <2>. QED  BY <2>5, <2>6, <2>7, <2>8 DEF TokensAreFresh
<1>3. SinceIsPast'
  BY LivesStay DEF OpenToken
<1>4. HooksAreSound'
  BY HooksStay DEF OpenToken
<1>. QED  BY <1>1, <1>2, <1>3, <1>4 DEF GateInv

LEMMA WriteTokenStep ==
  ASSUME GateInv, WriteToken
  PROVE  GateInv'
<1>. DEFINE n == grants + 1
            k == operator.kind
<1>1. /\ grants \in Nat /\ n \in Nat /\ grants' = n /\ k \in Kinds
      /\ token \in [Kinds -> SUBSET Nat] /\ expired' = expired
  BY DEF GateInv, TypeOK, WriteToken, Operator
<1>2. /\ \A j \in Kinds : token[j] \subseteq 0 .. grants /\ token[j] \cap gone = {}
      /\ token["override"] \cap token["trivial"] \subseteq {0}
      /\ gone \subseteq 1 .. grants /\ expired \subseteq 1 .. grants
  BY DEF GateInv, TokensAreFresh
<1>3. 0 .. grants \subseteq 0 .. n /\ 1 .. grants \subseteq 1 .. n /\ n \notin 0 .. grants
  BY <1>1
<1>4. token' \in [Kinds -> SUBSET Nat] /\ gone' \subseteq Nat
  <2>1. CASE operator.linked
    BY <1>1, <2>1 DEF WriteToken, GateInv, TypeOK
  <2>2. CASE ~operator.linked
    BY <1>1, <2>2 DEF WriteToken, GateInv, TypeOK
  <2>. QED  BY <2>1, <2>2
<1>5. TypeOK'
  <2>1. operator' \in Operator
    BY DEF WriteToken, AtRest, Operator, Kinds
  <2>. QED  BY <1>1, <1>4, <2>1 DEF GateInv, TypeOK, WriteToken
<1>6. TokensAreFresh'
  <2>1. CASE operator.linked
    <3>1. /\ \A j \in Kinds : token'[j] = IF j = k THEN {n} ELSE token[j]
          /\ gone' = gone
      BY <1>1, <2>1 DEF WriteToken
    <3>2. \A j \in Kinds : token'[j] \subseteq 0 .. n /\ token'[j] \cap gone' = {}
      <4>1. n \notin gone
        BY <1>1, <1>2
      <4>2. {n} \subseteq 0 .. n
        BY <1>1
      <4>. QED  BY <1>2, <1>3, <3>1, <4>1, <4>2
    <3>3. token'["override"] \cap token'["trivial"] \subseteq {0}
      BY <1>2, <1>3, <3>1 DEF Kinds
    <3>. QED  BY <1>1, <1>2, <1>3, <3>1, <3>2, <3>3 DEF TokensAreFresh
  <2>2. CASE ~operator.linked
    <3>1. token' = token /\ gone' = gone \cup {n}
      BY <2>2 DEF WriteToken
    <3>2. \A j \in Kinds : token'[j] \subseteq 0 .. n /\ token'[j] \cap gone' = {}
      BY <1>2, <1>3, <3>1
    <3>3. gone' \subseteq 1 .. n
      BY <1>1, <1>2, <1>3, <3>1
    <3>. QED  BY <1>1, <1>2, <1>3, <3>1, <3>2, <3>3 DEF TokensAreFresh
  <2>. QED  BY <2>1, <2>2
<1>7. SinceIsPast'
  <2>1. gone \subseteq gone'
    BY DEF WriteToken
  <2>. QED  BY <2>1, LivesStay DEF WriteToken
<1>8. HooksAreSound'
  BY HooksStay DEF WriteToken
<1>. QED  BY <1>5, <1>6, <1>7, <1>8 DEF GateInv

LEMMA ExpireStep ==
  ASSUME GateInv, Expire
  PROVE  GateInv'
<1>1. PICK g \in 1 .. grants : expired' = expired \cup {g}
  BY DEF Expire
<1>2. TypeOK'
  BY <1>1 DEF GateInv, TypeOK, Expire
<1>3. TokensAreFresh'
  BY <1>1 DEF GateInv, TokensAreFresh, Expire
<1>4. SinceIsPast'
  BY <1>1, LivesStay DEF Expire
<1>5. HooksAreSound'
  BY HooksStay DEF Expire
<1>. QED  BY <1>2, <1>3, <1>4, <1>5 DEF GateInv

\* A marker changes: the lifetimes are adjusted with it.
LEMMA MarkerStep ==
  ASSUME GateInv, NEW a \in Adapters, NEW state \in {"absent", "empty", "there"},
         SetMarker(a, state), UNCHANGED <<token, grants, expired, hook, gone>>
  PROVE  /\ marker' \in [Adapters -> {"absent", "empty", "there"}]
         /\ since' \in [Hooks -> Since]
         /\ TokensAreFresh' /\ SinceIsPast' /\ HooksAreSound'
<1>. DEFINE F(h) == IF state = "there" THEN since[h].firm ELSE since[h].firm \ {a}
            C(h) == IF state = "there" THEN since[h].cold \ {a} ELSE since[h].cold
            cut(h) == [since[h] EXCEPT !.firm = F(h), !.cold = C(h)]
<1>1. marker \in [Adapters -> {"absent", "empty", "there"}] /\ since \in [Hooks -> Since]
      /\ hook \in [Hooks -> Hook]
  BY DEF GateInv, TypeOK
<1>2. marker' \in [Adapters -> {"absent", "empty", "there"}]
      /\ \A b \in Adapters : marker'[b] = IF b = a THEN state ELSE marker[b]
  BY <1>1 DEF SetMarker
<1>3. There' = IF state = "there" THEN There \cup {a} ELSE There \ {a}
  BY <1>1, <1>2 DEF There
<1>4. since' = [h \in Hooks |-> cut(h)]
  BY <1>1 DEF SetMarker
<1>5. \A h \in Hooks :
        /\ since'[h] \in Since
        /\ since'[h].gone = since[h].gone
        /\ since'[h].firm = F(h)
        /\ since'[h].cold = C(h)
  <2>. SUFFICES ASSUME NEW h \in Hooks
                PROVE  /\ cut(h) \in Since /\ cut(h).gone = since[h].gone
                       /\ cut(h).firm = F(h) /\ cut(h).cold = C(h)
    <3>. HIDE DEF cut, F, C
    <3>. QED  BY <1>4
  <2>1. since[h] \in Since /\ since[h].firm \subseteq Adapters /\ since[h].cold \subseteq Adapters
    BY <1>1 DEF Since
  <2>2. F(h) \in SUBSET Adapters /\ C(h) \in SUBSET Adapters
    BY <2>1
  <2>. HIDE DEF F, C
  <2>. QED  BY <2>1, <2>2 DEF Since
<1>6. since' \in [Hooks -> Since]
  <2>. HIDE DEF cut, F, C
  <2>. QED  BY <1>4, <1>5
<1>7. TokensAreFresh'
  BY DEF GateInv, TokensAreFresh
<1>8. SinceIsPast'
  <2>. SUFFICES ASSUME NEW h \in Hooks
                PROVE  /\ since'[h].gone \subseteq gone' \cup expired'
                       /\ since'[h].firm \subseteq There'
                       /\ since'[h].cold \cap There' = {}
    BY DEF SinceIsPast
  <2>1. /\ since[h].gone \subseteq gone \cup expired
        /\ since[h].firm \subseteq There
        /\ since[h].cold \cap There = {}
    BY DEF GateInv, SinceIsPast
  <2>. HIDE DEF cut
  <2>. QED  BY <1>3, <1>5, <2>1
<1>9. HooksAreSound'
  <2>. SUFFICES ASSUME NEW h \in Hooks PROVE HookInv(hook[h], since'[h])
    BY DEF HooksAreSound
  <2>1. HookInv(hook[h], since[h]) /\ hook[h] \in Hook /\ since[h] \in Since
    BY <1>1 DEF GateInv, HooksAreSound
  <2>2. /\ since'[h] \in Since /\ since'[h].gone = since[h].gone
        /\ since'[h].firm \subseteq since[h].firm /\ since'[h].cold \subseteq since[h].cold
    BY <1>5
  <2>. HIDE DEF cut
  <2>. QED  BY <2>1, <2>2, SinceShrinks
<1>. QED  BY <1>2, <1>6, <1>7, <1>8, <1>9

LEMMA OperatorStep ==
  ASSUME GateInv,
         OpenMarker \/ WriteMarker \/ UnknownTarget \/ \E a \in Adapters : RemoveMarker(a)
  PROVE  GateInv'
<1>0. "ground-truth" \in Adapters /\ "self-logging" \in Adapters
  BY DEF Adapters
<1>1. CASE OpenMarker
  <2>1. operator' \in Operator
    BY <1>1 DEF OpenMarker, AtRest, Operator, Kinds
  <2>2. /\ marker' \in [Adapters -> {"absent", "empty", "there"}]
        /\ since' \in [Hooks -> Since]
        /\ TokensAreFresh' /\ SinceIsPast' /\ HooksAreSound'
    BY <1>0, <1>1, MarkerStep DEF OpenMarker
  <2>3. TypeOK'
    BY <1>1, <2>1, <2>2 DEF GateInv, TypeOK, OpenMarker
  <2>. QED  BY <2>2, <2>3 DEF GateInv
<1>2. CASE WriteMarker
  <2>1. operator' \in Operator
    BY <1>2 DEF WriteMarker, AtRest, Operator, Kinds
  <2>2. /\ marker' \in [Adapters -> {"absent", "empty", "there"}]
        /\ since' \in [Hooks -> Since]
        /\ TokensAreFresh' /\ SinceIsPast' /\ HooksAreSound'
    BY <1>0, <1>2, MarkerStep DEF WriteMarker
  <2>3. TypeOK'
    BY <1>0, <1>2, <2>1, <2>2 DEF GateInv, TypeOK, WriteMarker
  <2>. QED  BY <2>2, <2>3 DEF GateInv
<1>3. CASE UnknownTarget
  <2>1. TypeOK'
    BY <1>0, <1>3 DEF GateInv, TypeOK, UnknownTarget
  <2>2. TokensAreFresh'
    BY <1>3 DEF GateInv, TokensAreFresh, UnknownTarget
  <2>3. SinceIsPast' /\ HooksAreSound'
    BY <1>3, LivesStay, HooksStay DEF UnknownTarget
  <2>. QED  BY <2>1, <2>2, <2>3 DEF GateInv
<1>4. CASE \E a \in Adapters : RemoveMarker(a)
  <2>1. PICK a \in Adapters : RemoveMarker(a)
    BY <1>4
  <2>2. /\ marker' \in [Adapters -> {"absent", "empty", "there"}]
        /\ since' \in [Hooks -> Since]
        /\ TokensAreFresh' /\ SinceIsPast' /\ HooksAreSound'
    BY <2>1, MarkerStep DEF RemoveMarker
  <2>3. TypeOK'
    BY <2>1, <2>2 DEF GateInv, TypeOK, RemoveMarker
  <2>. QED  BY <2>2, <2>3 DEF GateInv
<1>. QED  BY <1>1, <1>2, <1>3, <1>4

-----------------------------------------------------------------------------
\* The files stay, and the steps of one process keep what it carries.
LEMMA FilesStay ==
  ASSUME GateInv, UNCHANGED <<fileVars, gone>>, hook' \in [Hooks -> Hook],
         since' \in [Hooks -> Since], log' \subseteq Nat, faults' \in Nat
  PROVE  TypeOK' /\ TokensAreFresh'
<1>1. TypeOK'
  BY DEF GateInv, TypeOK, fileVars
<1>2. TokensAreFresh'
  BY DEF GateInv, TokensAreFresh, fileVars
<1>. QED  BY <1>1, <1>2

LEMMA FaultIsCounted ==
  ASSUME GateInv, Fault \/ UNCHANGED faults
  PROVE  faults' \in Nat
BY DEF GateInv, TypeOK, Fault

LEMMA HandlePreEditStep ==
  ASSUME GateInv, NEW h \in Hooks, HandlePreEdit(h)
  PROVE  GateInv'
<1>1. PICK e \in Edits, up \in SUBSET Adapters :
        /\ LoadEnabled(up)
        /\ hook' = [hook EXCEPT ![h] =
             Begin(e, up, IF "code" \in e.hits /\ "code" \in up THEN "code" ELSE "none")]
  BY DEF HandlePreEdit
<1>. DEFINE by == IF "code" \in e.hits /\ "code" \in up THEN "code" ELSE "none"
            todo == Objections(e, up)
            q == Begin(e, up, by)
            s == [gone |-> gone \cup expired, firm |-> There,
                  cold |-> Adapters \ There, asked |-> asked]
<1>2. e \in Edit
  BY PreEditGateAssumption
<1>3. todo \in SUBSET Texts /\ \A g \in e.hits : g = "code" \/ Adapter(g) \notin up \/ g \in todo
  BY <1>2 DEF Objections, Texts, Edit
<1>4. /\ Entry(todo) \in {"answer", "trust", "read"}
      /\ Entry(todo) = "answer" <=> todo = {}
      /\ Entry(todo) = "read" => First(todo) # "claim"
  BY <1>3, EntryIsState
<1>5. q = [pc |-> Entry(todo), edit |-> e, up |-> up, todo |-> todo,
           grant |-> 0, used |-> {}, by |-> by]
  BY DEF Begin
<1>6. q \in Hook
  <2>1. by \in Adapters \cup {"none"}
    BY DEF Adapters
  <2>. HIDE DEF q, todo, by
  <2>. QED  BY <1>3, <1>4, <1>5, <2>1 DEF Hook, Texts
<1>7. s \in Since
  BY DEF GateInv, TypeOK, Since, There
<1>8. HookInv(q, s)
  <2>1. Flow(q) /\ Timely(q, s)
    <3>. HIDE DEF q, todo, by
    <3>. QED  BY <1>4, <1>5 DEF Flow, Timely
  <2>2. Trusting(q, s)
    <3>1. by \notin {"ground-truth", "self-logging"}
      OBVIOUS
    <3>. HIDE DEF q, todo, by
    <3>. QED  BY <1>4, <1>5, <3>1 DEF Trusting
  <2>3. Covered(q, s)
    <3>. SUFFICES ASSUME by = "none", NEW g \in e.hits
                  PROVE  g \in todo \/ Adapter(g) \notin up
      BY <1>5 DEF Covered, Settled
    <3>1. Adapter("code") = "code"
      BY DEF Adapter
    <3>. QED  BY <1>3, <3>1
  <2>. QED  BY <2>1, <2>2, <2>3 DEF HookInv
<1>. HIDE DEF q
<1>9. hook' = [hook EXCEPT ![h] = q] /\ since' = [since EXCEPT ![h] = s]
  BY <1>1 DEF HandlePreEdit, q
<1>10. s.gone = gone \cup expired /\ s.firm = There /\ s.cold = Adapters \ There
  OBVIOUS
<1>. HIDE DEF s
<1>11. UNCHANGED <<fileVars, log, gone>>
  BY DEF HandlePreEdit
<1>12. UNCHANGED <<gone, expired, marker>>
  BY <1>11 DEF fileVars
<1>13. /\ hook' \in [Hooks -> Hook] /\ since' \in [Hooks -> Since]
       /\ HooksAreSound' /\ SinceIsPast'
  BY <1>6, <1>7, <1>8, <1>9, <1>10, <1>12, OwnLife
<1>14. faults' \in Nat
  BY <1>1, FaultIsCounted DEF LoadEnabled
<1>15. log' \subseteq Nat
  BY <1>11 DEF GateInv, TypeOK
<1>. QED  BY <1>11, <1>13, <1>14, <1>15, FilesStay DEF GateInv

\* The end of a process, with an answer or without one.
LEMMA EndStep ==
  ASSUME GateInv, NEW h \in Hooks, Answer(h) \/ Die(h)
  PROVE  GateInv'
<1>1. /\ hook' = [hook EXCEPT ![h] = NoHook] /\ since' = [since EXCEPT ![h] = NotBegun]
      /\ UNCHANGED <<fileVars, log, faults, gone>>
  BY DEF Answer, Die
<1>2. NoHook \in Hook /\ NotBegun \in Since
  BY DEF NoHook, NotBegun, Hook, Since, NoEdit, Adapters
<1>3. HookInv(NoHook, NotBegun)
  BY DEF HookInv, Flow, Covered, Trusting, Timely, NoHook, NotBegun
<1>4. NotBegun.gone = {} /\ NotBegun.firm = {} /\ NotBegun.cold = {}
  BY DEF NotBegun
<1>5. UNCHANGED <<gone, expired, marker>>
  BY <1>1 DEF fileVars
<1>6. /\ hook' \in [Hooks -> Hook] /\ since' \in [Hooks -> Since]
      /\ HooksAreSound' /\ SinceIsPast'
  BY <1>1, <1>2, <1>3, <1>4, <1>5, OwnLife
<1>7. log' \subseteq Nat /\ faults' \in Nat
  BY <1>1 DEF GateInv, TypeOK
<1>. QED  BY <1>1, <1>6, <1>7, FilesStay DEF GateInv

\* A step of a process that changes no file: it is enough to look at its record.
LEMMA QuietStep ==
  ASSUME GateInv, NEW h \in Hooks, NEW q \in Hook, HookInv(q, since[h]),
         hook' = [hook EXCEPT ![h] = q], UNCHANGED <<fileVars, gone, since>>,
         log' \subseteq Nat, Fault \/ UNCHANGED faults
  PROVE  GateInv'
<1>1. hook' \in [Hooks -> Hook] /\ since' \in [Hooks -> Since] /\ HooksAreSound'
  BY OwnStep
<1>2. UNCHANGED <<marker, since>> /\ gone' = gone /\ expired' = expired
  BY DEF fileVars
<1>3. SinceIsPast'
  BY <1>2, LivesStay
<1>4. faults' \in Nat
  BY FaultIsCounted
<1>. QED  BY <1>1, <1>3, <1>4, FilesStay DEF GateInv

LEMMA Carried ==
  ASSUME GateInv, NEW h \in Hooks
  PROVE  /\ hook[h] \in Hook /\ since[h] \in Since /\ HookInv(hook[h], since[h])
         /\ since[h].gone \subseteq gone \cup expired
         /\ since[h].firm \subseteq There /\ since[h].cold \cap There = {}
BY DEF GateInv, TypeOK, HooksAreSound, SinceIsPast

\* A process that asks a guard has that guard's objection in hand.
LEMMA InHand ==
  ASSUME NEW r \in Hook, NEW s \in Since, HookInv(r, s),
         r.pc \in {"read", "remove", "draft", "trust"}
  PROVE  First(r.todo) \in r.todo /\ First(r.todo) \in Texts
<1>1. r.todo # {} /\ r.todo \in SUBSET Texts
  BY DEF HookInv, Flow, Hook, Texts
<1>. QED  BY <1>1, FirstIsMember

LEMMA NoTokenStep ==
  ASSUME GateInv, NEW h \in Hooks, NoToken(h)
  PROVE  GateInv'
<1>1. /\ hook[h].pc = "read" /\ hook' = [hook EXCEPT ![h] = Miss(hook[h])]
      /\ UNCHANGED <<fileVars, log, gone, since>>
      /\ Fault \/ UNCHANGED faults
  BY DEF NoToken
<1>2. hook[h] \in Hook /\ since[h] \in Since /\ HookInv(hook[h], since[h])
  BY Carried
<1>3. Miss(hook[h]) \in Hook /\ HookInv(Miss(hook[h]), since[h]) /\ Miss(hook[h]).pc # "remove"
  BY <1>1, <1>2, MissKeeps
<1>4. log' \subseteq Nat
  BY <1>1 DEF GateInv, TypeOK
<1>. QED  BY <1>1, <1>3, <1>4, QuietStep

LEMMA ReadTokenStep ==
  ASSUME GateInv, NEW h \in Hooks, ReadToken(h)
  PROVE  GateInv'
<1>. DEFINE k == Kind(First(hook[h].todo))
<1>1. PICK n \in token[k] :
        hook' = [hook EXCEPT ![h] = [hook[h] EXCEPT
                   !.pc = "remove", !.grant = IF n \in expired THEN 0 ELSE n]]
  BY DEF ReadToken
<1>2. hook[h].pc = "read" /\ UNCHANGED <<fileVars, log, faults, gone, since>>
  BY DEF ReadToken
<1>3. /\ hook[h] \in Hook /\ since[h] \in Since /\ HookInv(hook[h], since[h])
      /\ since[h].gone \subseteq gone \cup expired
  BY Carried
<1>. DEFINE m == IF n \in expired THEN 0 ELSE n
            q == [hook[h] EXCEPT !.pc = "remove", !.grant = m]
<1>4. k \in Kinds
  BY DEF Kind, Kinds
<1>5. n \in Nat /\ n \notin gone
  BY <1>4 DEF GateInv, TypeOK, TokensAreFresh
<1>6. m \in Nat /\ (m # 0 => m \notin since[h].gone)
  BY <1>3, <1>5
<1>7. First(hook[h].todo) = "claim" => "ground-truth" \notin since[h].cold
  BY <1>2, <1>3 DEF HookInv, Trusting
<1>8. q \in Hook /\ HookInv(q, since[h])
  <2>. HIDE DEF m
  <2>. QED  BY <1>2, <1>3, <1>6, <1>7, TurnKeeps
<1>9. hook' = [hook EXCEPT ![h] = q]
  BY <1>1
<1>10. log' \subseteq Nat
  BY <1>2 DEF GateInv, TypeOK
<1>. HIDE DEF q
<1>. QED  BY <1>2, <1>8, <1>9, <1>10, QuietStep

LEMMA RemoveTokenStep ==
  ASSUME GateInv, NEW h \in Hooks, RemoveToken(h)
  PROVE  GateInv'
<1>. DEFINE k == Kind(First(hook[h].todo))
            q == IF hook[h].grant = 0 THEN Miss(hook[h]) ELSE Bypass(hook[h])
<1>1. /\ hook[h].pc = "remove" /\ Consume(k) /\ hook' = [hook EXCEPT ![h] = q]
      /\ UNCHANGED <<marker, grants, expired, trusts, asked, log, since>>
  BY DEF RemoveToken
<1>2. hook[h] \in Hook /\ since[h] \in Since /\ HookInv(hook[h], since[h])
  BY Carried
<1>3. q \in Hook /\ HookInv(q, since[h])
  <2>1. CASE hook[h].grant = 0
    <3>1. Miss(hook[h]) \in Hook /\ HookInv(Miss(hook[h]), since[h]) /\ Miss(hook[h]).pc # "remove"
      BY <1>1, <1>2, MissKeeps
    <3>. QED  BY <2>1, <3>1
  <2>2. CASE hook[h].grant # 0
    <3>1. Bypass(hook[h]) \in Hook /\ HookInv(Bypass(hook[h]), since[h]) /\ Bypass(hook[h]).pc # "remove"
      BY <1>1, <1>2, <2>2, BypassKeeps
    <3>. QED  BY <2>2, <3>1
  <2>. QED  BY <2>1, <2>2
<1>. HIDE DEF q
<1>4. hook' \in [Hooks -> Hook] /\ since' \in [Hooks -> Since] /\ HooksAreSound'
  BY <1>1, <1>3, OwnStep
<1>5. k \in Kinds /\ token \in [Kinds -> SUBSET Nat] /\ gone \subseteq Nat /\ operator \in Operator
  BY DEF Kind, Kinds, GateInv, TypeOK
<1>. HIDE DEF k
<1>6. /\ \/ token' = [token EXCEPT ![k] = {}] /\ gone' = gone \cup (token[k] \ {0})
         \/ token' = token /\ gone' = gone
      /\ faults' \in Nat
  BY <1>1, FaultIsCounted DEF Consume, Unlink
<1>7. operator' \in Operator
  BY <1>1, <1>5 DEF Consume, Unlink, Operator
<1>8. TypeOK'
  <2>1. token' \in [Kinds -> SUBSET Nat] /\ gone' \subseteq Nat
    BY <1>5, <1>6
  <2>. QED  BY <1>1, <1>4, <1>6, <1>7, <2>1 DEF GateInv, TypeOK
<1>9. TokensAreFresh'
  <2>1. /\ \A j \in Kinds : token[j] \subseteq 0 .. grants /\ token[j] \cap gone = {}
        /\ token["override"] \cap token["trivial"] \subseteq {0}
        /\ gone \subseteq 1 .. grants /\ expired \subseteq 1 .. grants /\ grants \in Nat
    BY DEF GateInv, TypeOK, TokensAreFresh
  <2>2. CASE token' = [token EXCEPT ![k] = {}] /\ gone' = gone \cup (token[k] \ {0})
    <3>1. \A j \in Kinds : token'[j] = IF j = k THEN {} ELSE token[j]
      BY <1>5, <2>2
    <3>2. token[k] \ {0} \subseteq 1 .. grants
      BY <1>5, <2>1
    <3>3. \A j \in Kinds : j # k => token[j] \cap token[k] \subseteq {0}
      BY <1>5, <2>1 DEF Kinds
    <3>4. \A j \in Kinds : token'[j] \subseteq 0 .. grants /\ token'[j] \cap gone' = {}
      BY <2>1, <2>2, <3>1, <3>3
    <3>5. token'["override"] \cap token'["trivial"] \subseteq {0}
      BY <2>1, <3>1 DEF Kinds
    <3>6. gone' \subseteq 1 .. grants
      BY <2>1, <2>2, <3>2
    <3>. QED  BY <1>1, <2>1, <3>4, <3>5, <3>6 DEF TokensAreFresh
  <2>3. CASE token' = token /\ gone' = gone
    BY <1>1, <2>1, <2>3 DEF TokensAreFresh
  <2>. QED  BY <1>6, <2>2, <2>3
<1>10. SinceIsPast'
  <2>1. UNCHANGED <<marker, since>> /\ gone \subseteq gone' /\ expired \subseteq expired'
    BY <1>1, <1>6
  <2>. QED  BY <2>1, LivesStay
<1>. QED  BY <1>4, <1>8, <1>9, <1>10 DEF GateInv

LEMMA AppendDraftStep ==
  ASSUME GateInv, NEW h \in Hooks, AppendDraft(h)
  PROVE  GateInv'
<1>1. /\ hook[h].pc = "draft" /\ hook' = [hook EXCEPT ![h] = Pass(hook[h])]
      /\ UNCHANGED <<fileVars, gone, since>>
      /\ log' \in {log, log \cup {hook[h].grant}}
      /\ Fault \/ UNCHANGED faults
  BY DEF AppendDraft
<1>2. hook[h] \in Hook /\ since[h] \in Since /\ HookInv(hook[h], since[h])
  BY Carried
<1>3. Settled(First(hook[h].todo), hook[h], since[h])
  BY <1>1, <1>2 DEF HookInv, Flow, Settled
<1>4. Pass(hook[h]) \in Hook /\ HookInv(Pass(hook[h]), since[h]) /\ Pass(hook[h]).pc # "remove"
  BY <1>1, <1>2, <1>3, PassKeeps
<1>5. log' \subseteq Nat
  <2>1. hook[h].grant \in Nat /\ log \subseteq Nat
    BY <1>2 DEF Hook, GateInv, TypeOK
  <2>. QED  BY <1>1, <2>1
<1>. QED  BY <1>1, <1>4, <1>5, QuietStep

LEMMA CheckTrustStep ==
  ASSUME GateInv, NEW h \in Hooks, CheckTrust(h)
  PROVE  GateInv'
<1>. DEFINE r == hook[h]
            g == First(r.todo)
            a == Adapter(g)
<1>1. r.pc = "trust" /\ UNCHANGED <<fileVars, log, gone>>
  BY DEF CheckTrust
<1>2. /\ r \in Hook /\ since[h] \in Since /\ HookInv(r, since[h])
      /\ since[h].firm \subseteq There /\ since[h].cold \cap There = {}
  BY Carried
<1>3. g \in Texts /\ a \in Adapters /\ g # "code"
  <2>1. g \in Texts
    BY <1>1, <1>2, InHand
  <2>. QED  BY <2>1 DEF Texts, Adapter, Adapters
<1>4. log' \subseteq Nat
  BY <1>1 DEF GateInv, TypeOK
<1>5. CASE /\ hook' = [hook EXCEPT ![h] = IF AdapterTrusted(a) THEN Trusted(h) ELSE Pass(r)]
           /\ UNCHANGED <<faults, since>>
  <2>1. CASE AdapterTrusted(a)
    <3>1. a \notin since[h].cold
      BY <1>2, <1>3, <2>1 DEF AdapterTrusted, There
    <3>2. Trusted(h) \in Hook /\ HookInv(Trusted(h), since[h])
      <4>1. CASE g = "claim" /\ r.edit.named
        <5>. DEFINE q == [r EXCEPT !.pc = "read"]
        <5>1. a = "ground-truth"
          BY <4>1 DEF Adapter
        <5>2. q \in Hook
          BY <1>2 DEF Hook
        <5>3. /\ q.pc = "read" /\ q.todo = r.todo /\ q.edit = r.edit /\ q.grant = r.grant
              /\ q.up = r.up /\ q.used = r.used /\ q.by = r.by
          BY <1>2 DEF Hook
        <5>4. Flow(q)
          BY <1>1, <1>2, <5>3 DEF HookInv, Flow
        <5>5. Covered(q, since[h])
          BY <1>1, <1>2, <5>3 DEF HookInv, Covered, Settled
        <5>6. Trusting(q, since[h]) /\ Timely(q, since[h])
          BY <1>2, <3>1, <5>1, <5>3 DEF HookInv, Trusting, Timely
        <5>7. Trusted(h) = q
          BY <4>1 DEF Trusted
        <5>. QED  BY <5>2, <5>4, <5>5, <5>6, <5>7 DEF HookInv
      <4>2. CASE ~(g = "claim" /\ r.edit.named)
        <5>1. Trusted(h) = Deny(r)
          BY <4>2 DEF Trusted
        <5>2. Deny(r) \in Hook /\ HookInv(Deny(r), since[h]) /\ Deny(r).pc # "remove"
          BY <1>1, <1>2, <3>1, DenyKeeps
        <5>. QED  BY <5>1, <5>2
      <4>. QED  BY <4>1, <4>2
    <3>3. hook' = [hook EXCEPT ![h] = Trusted(h)]
      BY <1>5, <2>1
    <3>. QED  BY <1>1, <1>4, <1>5, <3>2, <3>3, QuietStep
  <2>2. CASE ~AdapterTrusted(a)
    <3>1. a \notin since[h].firm
      BY <1>2, <2>2 DEF AdapterTrusted, There
    <3>2. Settled(g, r, since[h])
      BY <1>3, <3>1 DEF Settled
    <3>3. Pass(r) \in Hook /\ HookInv(Pass(r), since[h]) /\ Pass(r).pc # "remove"
      BY <1>1, <1>2, <3>2, PassKeeps
    <3>4. hook' = [hook EXCEPT ![h] = Pass(r)]
      BY <1>5, <2>2
    <3>. QED  BY <1>1, <1>4, <1>5, <3>3, <3>4, QuietStep
  <2>. QED  BY <2>1, <2>2
<1>6. CASE /\ Fault
           /\ hook' = [hook EXCEPT ![h] = Pass(r)]
           /\ since' = [since EXCEPT ![h] = [since[h] EXCEPT !.firm = @ \ {a}]]
  <2>. DEFINE s == [since[h] EXCEPT !.firm = since[h].firm \ {a}]
  <2>1. s \in Since
    <3>1. since[h].firm \ {a} \in SUBSET Adapters
      BY <1>2 DEF Since
    <3>. QED  BY <1>2, <3>1 DEF Since
  <2>2. s.gone = since[h].gone /\ s.firm = since[h].firm \ {a} /\ s.cold = since[h].cold
    BY <1>2 DEF Since
  <2>3. since' = [since EXCEPT ![h] = s]
    BY <1>6
  <2>. HIDE DEF s
  <2>4. HookInv(r, s)
    BY <1>2, <2>1, <2>2, SinceShrinks
  <2>5. Settled(g, r, s)
    BY <1>3, <2>2 DEF Settled
  <2>6. Pass(r) \in Hook /\ HookInv(Pass(r), s) /\ Pass(r).pc # "remove"
    BY <1>1, <1>2, <2>1, <2>4, <2>5, PassKeeps
  <2>7. /\ s.gone \subseteq gone \cup expired /\ s.firm \subseteq There
        /\ s.cold \cap There = {} /\ UNCHANGED <<gone, expired, marker>>
    <3>1. since[h].gone \subseteq gone \cup expired
      BY Carried
    <3>. QED  BY <1>1, <1>2, <2>2, <3>1 DEF fileVars
  <2>8. /\ hook' \in [Hooks -> Hook] /\ since' \in [Hooks -> Since]
        /\ HooksAreSound' /\ SinceIsPast'
    BY <1>6, <2>1, <2>3, <2>6, <2>7, OwnLife
  <2>9. faults' \in Nat
    BY <1>6, FaultIsCounted
  <2>. QED  BY <1>1, <1>4, <2>8, <2>9, FilesStay DEF GateInv
<1>. QED  BY <1>5, <1>6 DEF CheckTrust

LEMMA StutterStep == GateInv /\ UNCHANGED vars => GateInv'
<1>. SUFFICES ASSUME GateInv, UNCHANGED vars PROVE GateInv'
  OBVIOUS
<1>1. UNCHANGED <<fileVars, gone>> /\ UNCHANGED <<hook, since, log, faults>>
  BY DEF vars
<1>2. TypeOK' /\ TokensAreFresh'
  BY <1>1, FilesStay DEF GateInv, TypeOK
<1>3. SinceIsPast'
  BY <1>1, LivesStay DEF fileVars
<1>4. HooksAreSound'
  BY <1>1, HooksStay
<1>. QED  BY <1>2, <1>3, <1>4 DEF GateInv

LEMMA GateInvIsInductive == GateInv /\ [Next]_vars => GateInv'
<1>. SUFFICES ASSUME GateInv, [Next]_vars PROVE GateInv'
  OBVIOUS
<1>1. CASE \E k \in Kinds : OpenToken(k)
  BY <1>1, OpenTokenStep
<1>2. CASE WriteToken
  BY <1>2, WriteTokenStep
<1>3. CASE Expire
  BY <1>3, ExpireStep
<1>4. CASE OpenMarker \/ WriteMarker \/ UnknownTarget \/ \E a \in Adapters : RemoveMarker(a)
  BY <1>4, OperatorStep
<1>5. ASSUME NEW h \in Hooks, HookStep(h) PROVE GateInv'
  <2>1. CASE HandlePreEdit(h)
    BY <2>1, HandlePreEditStep
  <2>2. CASE NoToken(h)
    BY <2>2, NoTokenStep
  <2>3. CASE ReadToken(h)
    BY <2>3, ReadTokenStep
  <2>4. CASE RemoveToken(h)
    BY <2>4, RemoveTokenStep
  <2>5. CASE AppendDraft(h)
    BY <2>5, AppendDraftStep
  <2>6. CASE CheckTrust(h)
    BY <2>6, CheckTrustStep
  <2>7. CASE Answer(h) \/ Die(h)
    BY <2>7, EndStep
  <2>. QED  BY <1>5, <2>1, <2>2, <2>3, <2>4, <2>5, <2>6, <2>7 DEF HookStep
<1>6. CASE UNCHANGED vars
  BY <1>6, StutterStep
<1>. QED  BY <1>1, <1>2, <1>3, <1>4, <1>5, <1>6 DEF Next

\* The invariant, for every set of hooks and edits and every bound.
THEOREM GateInvariant == Spec => []GateInv
BY Started, GateInvIsInductive, PTL DEF Spec

\* The files, the running processes and the history are well typed.
THEOREM GateTypeCorrect == Spec => []TypeOK
<1>1. GateInv => TypeOK
  BY DEF GateInv
<1>. QED  BY <1>1, GateInvariant, PTL

\* No objection is lost between the adapters (AggregatePreEdit): an edit
\* proceeds only past guards that were bypassed or untrusted at some time.
THEOREM NoObjectionIsLost == Spec => []ObjectionsNeedBypass
<1>1. GateInv => ObjectionsNeedBypass
  <2>. SUFFICES ASSUME GateInv, NEW h \in Hooks, hook[h].pc = "answer",
                       hook[h].by = "none", NEW g \in hook[h].edit.hits
                PROVE  Settled(g, hook[h], since[h])
    BY DEF ObjectionsNeedBypass, Answered, BypassedBy, Settled
  <2>1. HookInv(hook[h], since[h])
    BY Carried
  <2>. QED  BY <2>1 DEF HookInv, Flow, Covered
<1>. QED  BY <1>1, GateInvariant, PTL

\* Trust is what gives an adapter the power to deny (AdapterTrusted): one that
\* was never trusted while a hook ran has not denied its edit.
THEOREM OnlyTheTrustedBlock == Spec => []UntrustedNeverBlocks
<1>1. GateInv => UntrustedNeverBlocks
  <2>. SUFFICES ASSUME GateInv, NEW h \in Hooks,
                       hook[h].by \in {"ground-truth", "self-logging"}
                PROVE  hook[h].by \notin since[h].cold
    BY DEF UntrustedNeverBlocks
  <2>1. HookInv(hook[h], since[h])
    BY Carried
  <2>. QED  BY <2>1 DEF HookInv, Trusting
<1>. QED  BY <1>1, GateInvariant, PTL

\* A token that was spent, replaced or expired before a hook began bypasses
\* nothing in it (consumeOverrideToken, consumeTrivialToken).
THEOREM TokensEndInTime == Spec => []NoLateBypass
<1>1. GateInv => NoLateBypass
  <2>. SUFFICES ASSUME GateInv, NEW h \in Hooks, NEW u \in hook[h].used
                PROVE  u[2] \notin since[h].gone
    BY DEF NoLateBypass
  <2>1. HookInv(hook[h], since[h])
    BY Carried
  <2>. QED  BY <2>1 DEF HookInv, Timely
<1>. QED  BY <1>1, GateInvariant, PTL

-----------------------------------------------------------------------------
(* The line a trivial bypass leaves                                        *)

\* Each bypass of the rationale guard has its line, or is about to write it.
Drafted(r) ==
  \A u \in r.used : u[1] = "rationale" =>
    u[2] \in log \/ (r.pc = "draft" /\ u[2] = r.grant)

LogInv == faults = 0 => \A h \in Hooks : Drafted(hook[h])

\* The guards' answers other than a bypass keep the list of bypasses.
LEMMA UsedIsKept ==
  ASSUME NEW r \in Hook
  PROVE  /\ Pass(r).used = r.used /\ Pass(r).pc # "draft"
         /\ Deny(r).used = r.used
         /\ Miss(r).used = r.used
<1>1. ASSUME NEW rest \in SUBSET Texts
      PROVE  /\ Settle(r, rest) \in Hook /\ Settle(r, rest).used = r.used
             /\ Settle(r, rest).pc # "draft"
  BY <1>1, SettleFields, EntryIsState
<1>2. /\ r.todo \ {First(r.todo)} \in SUBSET Texts
      /\ {o \in r.todo : Adapter(o) # Adapter(First(r.todo))} \in SUBSET Texts
  BY DEF Hook, Texts
<1>3. Pass(r).used = r.used /\ Pass(r).pc # "draft"
  BY <1>1, <1>2 DEF Pass
<1>4. Deny(r).used = r.used
  <2>. DEFINE q == Settle(r, {o \in r.todo : Adapter(o) # Adapter(First(r.todo))})
  <2>1. q \in Hook /\ q.used = r.used
    BY <1>1, <1>2
  <2>2. Deny(r) = [q EXCEPT !.by = IF r.by = "none" THEN Adapter(First(r.todo)) ELSE r.by]
    BY DEF Deny
  <2>. HIDE DEF q
  <2>. QED  BY <2>1, <2>2 DEF Hook
<1>5. Miss(r).used = r.used
  <2>1. [r EXCEPT !.pc = "trust", !.grant = 0].used = r.used
    BY DEF Hook
  <2>. QED  BY <1>3, <1>4, <2>1 DEF Miss
<1>. QED  BY <1>3, <1>4, <1>5

\* A bypass of the rationale guard goes on to write its line.
LEMMA BypassDrafts ==
  ASSUME NEW r \in Hook, r.todo # {},
         \A u \in r.used : u[1] = "rationale" => u[2] \in log
  PROVE  Drafted(Bypass(r))
<1>. DEFINE g == First(r.todo)
            spent == [r EXCEPT !.used = r.used \cup {<<g, r.grant>>}]
<1>1. spent.used = r.used \cup {<<g, r.grant>>} /\ spent.grant = r.grant
  BY DEF Hook
<1>2. CASE g = "rationale"
  <2>. DEFINE q == [spent EXCEPT !.pc = "draft"]
  <2>1. q.pc = "draft" /\ q.used = spent.used /\ q.grant = r.grant
    BY DEF Hook
  <2>2. Bypass(r) = q
    BY <1>2 DEF Bypass
  <2>. HIDE DEF q
  <2>. QED  BY <1>1, <2>1, <2>2 DEF Drafted
<1>3. CASE g # "rationale"
  <2>1. Bypass(r) = Pass(spent)
    BY <1>3 DEF Bypass
  <2>2. spent \in Hook
    <3>1. g \in Texts
      BY FirstIsMember DEF Hook, Texts
    <3>2. r.used \cup {<<g, r.grant>>} \in SUBSET (Guards \X Nat)
      BY <3>1 DEF Hook, Texts
    <3>. QED  BY <3>2 DEF Hook
  <2>3. Pass(spent).used = spent.used
    BY <2>2, UsedIsKept
  <2>. HIDE DEF spent
  <2>. QED  BY <1>1, <1>3, <2>1, <2>3 DEF Drafted
<1>. QED  BY <1>2, <1>3

\* A step of the operator or of the clock leaves the hooks and the log alone.
LEMMA OperatorIsQuiet ==
  ASSUME \/ \E k \in Kinds : OpenToken(k)
         \/ WriteToken \/ Expire \/ OpenMarker \/ WriteMarker \/ UnknownTarget
         \/ \E a \in Adapters : RemoveMarker(a)
         \/ UNCHANGED vars
  PROVE  UNCHANGED <<hook, log, faults>>
BY DEF OpenToken, WriteToken, Expire, OpenMarker, WriteMarker, UnknownTarget,
       RemoveMarker, SetMarker, vars

\* Failures are never forgotten and the log only grows.
LEMMA HookStepGrows ==
  ASSUME GateInv, NEW h \in Hooks, HookStep(h)
  PROVE  /\ faults' = 0 => faults = 0
         /\ log \subseteq log'
         /\ \A g \in Hooks : g # h => hook'[g] = hook[g]
<1>1. faults \in Nat /\ hook \in [Hooks -> Hook]
  BY DEF GateInv, TypeOK
<1>2. CASE HandlePreEdit(h)
  BY <1>1, <1>2 DEF HandlePreEdit, LoadEnabled, Fault
<1>3. CASE NoToken(h) \/ ReadToken(h)
  <2>1. /\ UNCHANGED faults \/ Fault
        /\ log' = log
    BY <1>3 DEF NoToken, ReadToken
  <2>2. PICK q : hook' = [hook EXCEPT ![h] = q]
    BY <1>3 DEF NoToken, ReadToken
  <2>. QED  BY <1>1, <2>1, <2>2 DEF Fault
<1>4. CASE RemoveToken(h)
  <2>1. /\ UNCHANGED faults \/ Fault
        /\ log' = log
        /\ hook' = [hook EXCEPT ![h] = IF hook[h].grant = 0 THEN Miss(hook[h])
                                                             ELSE Bypass(hook[h])]
    BY <1>4 DEF RemoveToken, Consume
  <2>. QED  BY <1>1, <2>1 DEF Fault
<1>5. CASE AppendDraft(h) \/ CheckTrust(h)
  BY <1>1, <1>5 DEF AppendDraft, CheckTrust, Fault
<1>6. CASE Answer(h) \/ Die(h)
  BY <1>1, <1>6 DEF Answer, Die
<1>. QED  BY <1>2, <1>3, <1>4, <1>5, <1>6 DEF HookStep

LEMMA LogInvStep == GateInv /\ LogInv /\ [Next]_vars => LogInv'
<1>. SUFFICES ASSUME GateInv, LogInv, [Next]_vars, faults' = 0, NEW g \in Hooks
              PROVE  Drafted(hook[g])'
  BY DEF LogInv
<1>0. hook \in [Hooks -> Hook] /\ faults \in Nat
  BY DEF GateInv, TypeOK
<1>1. ASSUME hook'[g] = hook[g], log \subseteq log', faults = 0 PROVE Drafted(hook[g])'
  BY <1>1 DEF LogInv, Drafted
<1>2. ASSUME UNCHANGED <<hook, log, faults>> PROVE Drafted(hook[g])'
  BY <1>1, <1>2
<1>3. ASSUME NEW h \in Hooks, HookStep(h) PROVE Drafted(hook[g])'
  <2>1. faults = 0 /\ log \subseteq log' /\ (g # h => hook'[g] = hook[g])
    BY <1>3, HookStepGrows
  <2>2. CASE g # h
    BY <1>1, <2>1, <2>2
  <2>3. CASE g = h
    <3>. DEFINE r == hook[h]
    <3>1. Drafted(r) /\ r \in Hook /\ HookInv(r, since[h])
      BY <1>0, <2>1, Carried DEF LogInv
    <3>2. r.pc # "draft" => \A u \in r.used : u[1] = "rationale" => u[2] \in log
      BY <3>1 DEF Drafted
    <3>3. ASSUME NEW q, hook' = [hook EXCEPT ![h] = q], r.pc # "draft", q.used = r.used
          PROVE  Drafted(hook[g])'
      BY <1>0, <2>1, <2>3, <3>2, <3>3 DEF Drafted
    <3>4. ASSUME NEW q, hook' = [hook EXCEPT ![h] = q], q.used = {}
          PROVE  Drafted(hook[g])'
      BY <1>0, <2>3, <3>4 DEF Drafted
    <3>5. CASE HandlePreEdit(h)
      <4>1. PICK e \in Edits, up \in SUBSET Adapters :
              hook' = [hook EXCEPT ![h] =
                Begin(e, up, IF "code" \in e.hits /\ "code" \in up THEN "code" ELSE "none")]
        BY <3>5 DEF HandlePreEdit
      <4>2. Begin(e, up, IF "code" \in e.hits /\ "code" \in up THEN "code" ELSE "none").used = {}
        BY DEF Begin
      <4>. QED  BY <3>4, <4>1, <4>2
    <3>6. CASE NoToken(h)
      <4>1. r.pc = "read" /\ hook' = [hook EXCEPT ![h] = Miss(r)]
        BY <3>6 DEF NoToken
      <4>. QED  BY <3>1, <3>3, <4>1, UsedIsKept
    <3>7. CASE ReadToken(h)
      <4>1. PICK n : hook' = [hook EXCEPT ![h] = [hook[h] EXCEPT
                       !.pc = "remove", !.grant = IF n \in expired THEN 0 ELSE n]]
        BY <3>7 DEF ReadToken
      <4>2. r.pc = "read"
        BY <3>7 DEF ReadToken
      <4>3. [r EXCEPT !.pc = "remove", !.grant = IF n \in expired THEN 0 ELSE n].used = r.used
        BY <3>1 DEF Hook
      <4>. QED  BY <3>3, <4>1, <4>2, <4>3
    <3>8. CASE RemoveToken(h)
      <4>1. /\ r.pc = "remove" /\ log' = log
            /\ hook' = [hook EXCEPT ![h] = IF r.grant = 0 THEN Miss(r) ELSE Bypass(r)]
        BY <3>8 DEF RemoveToken
      <4>2. CASE r.grant = 0
        BY <3>1, <3>3, <4>1, <4>2, UsedIsKept
      <4>3. CASE r.grant # 0
        <5>1. r.todo # {}
          BY <3>1, <4>1 DEF HookInv, Flow
        <5>2. Drafted(Bypass(r))
          BY <3>1, <3>2, <4>1, <5>1, BypassDrafts
        <5>3. hook'[g] = Bypass(r)
          BY <1>0, <2>3, <4>1, <4>3
        <5>. QED  BY <4>1, <5>2, <5>3 DEF Drafted
      <4>. QED  BY <4>2, <4>3
    <3>9. CASE AppendDraft(h)
      <4>1. hook' = [hook EXCEPT ![h] = Pass(r)]
        BY <3>9 DEF AppendDraft
      <4>2. log' = log \cup {r.grant}
        BY <1>0, <2>1, <3>9 DEF AppendDraft, Fault
      <4>3. Pass(r).used = r.used
        BY <3>1, UsedIsKept
      <4>. QED  BY <1>0, <2>3, <3>1, <4>1, <4>2, <4>3 DEF Drafted
    <3>10. CASE CheckTrust(h)
      <4>1. /\ r.pc = "trust"
            /\ \/ hook' = [hook EXCEPT ![h] = Pass(r)]
               \/ hook' = [hook EXCEPT ![h] = Trusted(h)]
        BY <3>10 DEF CheckTrust
      <4>2. Trusted(h).used = r.used
        <5>1. [r EXCEPT !.pc = "read"].used = r.used /\ Deny(r).used = r.used
          BY <3>1, UsedIsKept DEF Hook
        <5>. QED  BY <5>1 DEF Trusted
      <4>. QED  BY <3>1, <3>3, <4>1, <4>2, UsedIsKept
    <3>11. CASE Answer(h) \/ Die(h)
      <4>1. hook' = [hook EXCEPT ![h] = NoHook] /\ NoHook.used = {}
        BY <3>11 DEF Answer, Die, NoHook
      <4>. QED  BY <3>4, <4>1
    <3>. QED  BY <1>3, <3>5, <3>6, <3>7, <3>8, <3>9, <3>10, <3>11 DEF HookStep
  <2>. QED  BY <2>2, <2>3
<1>. QED  BY <1>2, <1>3, OperatorIsQuiet DEF Next

\* A trivial bypass is never silent while the disk works
\* (consumeTrivialToken, appendPendingDecision): when the edit is answered,
\* the log holds the line of every token that bypassed the rationale guard.
THEOREM TrivialBypassesLeaveALine == Spec => []TrivialBypassIsLogged
<1>1. Init => LogInv
  BY DEF Init, LogInv, Drafted, NoHook
<1>2. LogInv => TrivialBypassIsLogged
  BY DEF LogInv, Drafted, TrivialBypassIsLogged, Answered
<1>3. Spec => []LogInv
  BY <1>1, LogInvStep, GateInvariant, PTL DEF Spec
<1>. QED  BY <1>2, <1>3, PTL

=============================================================================
