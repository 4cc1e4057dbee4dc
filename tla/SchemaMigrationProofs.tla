----------------------- MODULE SchemaMigrationProofs -----------------------
(***************************************************************************)
(* Proofs about SchemaMigration, for any number of processes and versions. *)
(* A step that collides is what keeps a late process from migrating from a *)
(* version that is history: either its own last step or the last step of   *)
(* the file collides, since neither is repeatable.                         *)
(***************************************************************************)
EXTENDS SchemaMigration, TLAPS

\* What a call knows: a version that was recorded once, and that is out of
\* date only if a program has written its own, not repeatable, since.
Reading ==
  \A h \in Opens : open[h].pc = "migrate" =>
    /\ open[h].current < Target[h]
    /\ open[h].current <= version
    /\ open[h].current < version => version \notin Repeatable

\* The holder of the write lock is the one call that is about to commit, and
\* the version it migrates from is the recorded one.
Writing ==
  /\ \A h \in Opens : h \in writer <=> open[h].pc = "commit"
  /\ \A g, h \in writer : g = h
  /\ \A h \in writer : open[h].current = version /\ version < Target[h]

Served == \A h \in Opens : open[h].pc = "ready" => Target[h] <= version

MigrationInv == TypeOK /\ VersionTellsSchema /\ Reading /\ Writing /\ Served

-----------------------------------------------------------------------------
LEMMA ConstantsAreTyped ==
  /\ Newest \in Nat /\ Steps = 1 .. Newest
  /\ \A h \in Opens : Target[h] \in 1 .. Newest /\ Target[h] \notin Repeatable
BY SchemaMigrationAssumption DEF Steps

LEMMA Started == Init => MigrationInv
<1>. SUFFICES ASSUME Init PROVE MigrationInv
  OBVIOUS
<1>1. \A h \in Opens : open[h].pc = "closed"
  BY DEF Init, NotOpen
<1>2. TypeOK
  <2>1. version \in 0 .. Newest
    BY SchemaMigrationAssumption DEF Init
  <2>2. NotOpen \in Open
    BY ConstantsAreTyped DEF NotOpen, Open
  <2>. QED  BY <2>1, <2>2 DEF Init, TypeOK
<1>3. VersionTellsSchema
  BY DEF Init, VersionTellsSchema
<1>4. Reading /\ Writing /\ Served
  BY <1>1 DEF Init, Reading, Writing, Served
<1>. QED  BY <1>2, <1>3, <1>4 DEF MigrationInv

\* One call moves and the file stays as it is.
LEMMA CallMoves ==
  ASSUME MigrationInv, NEW h \in Opens, NEW q \in Open,
         open' = [open EXCEPT ![h] = q], UNCHANGED <<version, ran>>,
         writer' = writer \ {h}, meta' \in BOOLEAN,
         q.pc # "commit",
         q.pc = "ready" => Target[h] <= version,
         q.pc = "migrate" => /\ q.current < Target[h] /\ q.current <= version
                             /\ q.current < version => version \notin Repeatable
  PROVE  MigrationInv'
<1>1. open \in [Opens -> Open] /\ writer \subseteq Opens
  BY DEF MigrationInv, TypeOK
<1>2. \A g \in Opens : open'[g] = IF g = h THEN q ELSE open[g]
  BY <1>1
<1>3. TypeOK'
  BY <1>1 DEF MigrationInv, TypeOK
<1>4. VersionTellsSchema'
  BY DEF MigrationInv, VersionTellsSchema
<1>5. Reading'
  BY <1>2 DEF MigrationInv, Reading
<1>6. Writing'
  BY <1>1, <1>2 DEF MigrationInv, Writing
<1>7. Served'
  BY <1>2 DEF MigrationInv, Served
<1>. QED  BY <1>3, <1>4, <1>5, <1>6, <1>7 DEF MigrationInv

LEMMA GotoIsTyped ==
  ASSUME MigrationInv, NEW h \in Opens, NEW pc \in {"closed", "ready", "commit"}
  PROVE  LET q == [open[h] EXCEPT !.pc = pc]
         IN q \in Open /\ q.pc = pc /\ q.current = open[h].current
BY DEF MigrationInv, TypeOK, Open

LEMMA EarlyStep ==
  ASSUME MigrationInv, NEW h \in Opens,
         CreateMeta(h) \/ ReadVersion(h) \/ MigrateFails(h) \/ Busy(h) \/ Close(h)
  PROVE  MigrationInv'
<1>0. /\ version \in 0 .. Newest /\ Target[h] \in 1 .. Newest /\ Newest \in Nat
      /\ meta \in BOOLEAN /\ writer \subseteq Opens
      /\ h \in writer <=> open[h].pc = "commit"
  BY ConstantsAreTyped DEF MigrationInv, TypeOK, Writing
<1>1. CASE CreateMeta(h)
  <2>. DEFINE q == [pc |-> "read", current |-> 0]
  <2>1. q \in Open /\ q.pc = "read"
    BY <1>0 DEF Open
  <2>2. open' = [open EXCEPT ![h] = q] /\ writer' = writer \ {h} /\ meta' \in BOOLEAN
    BY <1>0, <1>1 DEF CreateMeta
  <2>. HIDE DEF q
  <2>. QED  BY <1>1, <2>1, <2>2, CallMoves DEF CreateMeta
<1>2. CASE ReadVersion(h)
  <2>. DEFINE v == Verdict(version, Target[h])
              q == [pc |-> v, current |-> version]
  <2>1. /\ v \in {"closed", "ready", "migrate"}
        /\ v = "ready" => Target[h] = version
        /\ v = "migrate" => version < Target[h]
    BY <1>0 DEF Verdict
  <2>2. q \in Open /\ q.pc = v /\ q.current = version
    <3>. HIDE DEF v
    <3>. QED  BY <1>0, <2>1 DEF Open
  <2>3. open' = [open EXCEPT ![h] = q] /\ writer' = writer \ {h} /\ meta' \in BOOLEAN
    BY <1>0, <1>2 DEF ReadVersion
  <2>. HIDE DEF q, v
  <2>4. UNCHANGED <<version, ran>>
    BY <1>2 DEF ReadVersion
  <2>5. /\ q.pc # "commit"
        /\ q.pc = "ready" => Target[h] <= version
        /\ q.pc = "migrate" => /\ q.current < Target[h] /\ q.current <= version
                               /\ q.current < version => version \notin Repeatable
    BY <1>0, <2>1, <2>2
  <2>6. q \in Open
    BY <2>2
  <2>. QED  BY <2>3, <2>4, <2>5, <2>6, CallMoves
<1>3. CASE MigrateFails(h) \/ Busy(h)
  <2>. DEFINE q == [open[h] EXCEPT !.pc = "closed"]
  <2>1. q \in Open /\ q.pc = "closed"
    BY GotoIsTyped
  <2>2. open' = [open EXCEPT ![h] = q] /\ writer' = writer \ {h} /\ meta' \in BOOLEAN
    BY <1>0, <1>3 DEF MigrateFails, Busy, Goto
  <2>3. UNCHANGED <<version, ran>>
    BY <1>3 DEF MigrateFails, Busy
  <2>. HIDE DEF q
  <2>. QED  BY <2>1, <2>2, <2>3, CallMoves
<1>4. CASE Close(h)
  <2>1. NotOpen \in Open /\ NotOpen.pc = "closed"
    BY <1>0 DEF Open, NotOpen
  <2>. QED  BY <1>0, <1>4, <2>1, CallMoves DEF Close
<1>. QED  BY <1>1, <1>2, <1>3, <1>4

\* A migration that does not collide starts from the recorded version.
LEMMA MigrateIsCurrent ==
  ASSUME MigrationInv, NEW h \in Opens, open[h].pc = "migrate", ~Collides(h)
  PROVE  open[h].current = version /\ version < Target[h]
<1>1. /\ open[h].current \in 0 .. Newest /\ version \in 0 .. Newest /\ Newest \in Nat
      /\ Target[h] \in 1 .. Newest /\ Target[h] \notin Repeatable /\ Steps = 1 .. Newest
  BY ConstantsAreTyped DEF MigrationInv, TypeOK, Open
<1>2. /\ open[h].current < Target[h] /\ open[h].current <= version
      /\ open[h].current < version => version \notin Repeatable
  BY DEF MigrationInv, Reading
<1>3. SUFFICES ASSUME open[h].current < version PROVE FALSE
  BY <1>1, <1>2
<1>4. \A s \in 1 .. Newest : s <= version => ran[s] = 1
  BY <1>1 DEF MigrationInv, VersionTellsSchema
<1>5. CASE version <= Target[h]
  <2>1. version \in Missing(h) \ Repeatable /\ ran[version] = 1
    BY <1>1, <1>2, <1>3, <1>4, <1>5 DEF Missing
  <2>. QED  BY <2>1 DEF Collides
<1>6. CASE Target[h] < version
  <2>1. Target[h] \in Missing(h) \ Repeatable /\ ran[Target[h]] = 1
    BY <1>1, <1>2, <1>3, <1>4, <1>6 DEF Missing
  <2>. QED  BY <2>1 DEF Collides
<1>. QED  BY <1>1, <1>5, <1>6

LEMMA MigrateStep ==
  ASSUME MigrationInv, NEW h \in Opens, Migrate(h)
  PROVE  MigrationInv'
<1>. DEFINE q == [open[h] EXCEPT !.pc = "commit"]
<1>1. q \in Open /\ q.pc = "commit" /\ q.current = open[h].current
  BY GotoIsTyped
<1>2. open[h].current = version /\ version < Target[h]
  BY MigrateIsCurrent DEF Migrate
<1>3. /\ open' = [open EXCEPT ![h] = q] /\ writer = {} /\ writer' = {h}
      /\ UNCHANGED <<meta, version, ran>>
  BY DEF Migrate, Goto
<1>. HIDE DEF q
<1>4. open \in [Opens -> Open]
  BY DEF MigrationInv, TypeOK
<1>5. \A g \in Opens : open'[g] = IF g = h THEN q ELSE open[g]
  BY <1>3, <1>4
<1>6. TypeOK'
  BY <1>1, <1>3, <1>4 DEF MigrationInv, TypeOK
<1>7. VersionTellsSchema'
  BY <1>3 DEF MigrationInv, VersionTellsSchema
<1>8. Reading' /\ Served'
  BY <1>1, <1>3, <1>5 DEF MigrationInv, Reading, Served
<1>9. Writing'
  BY <1>1, <1>2, <1>3, <1>5 DEF MigrationInv, Writing
<1>. QED  BY <1>6, <1>7, <1>8, <1>9 DEF MigrationInv

LEMMA CommitStep ==
  ASSUME MigrationInv, NEW h \in Opens, Commit(h)
  PROVE  MigrationInv' /\ version < version'
<1>. DEFINE q == [open[h] EXCEPT !.pc = "ready"]
            new == Target[h]
<1>1. q \in Open /\ q.pc = "ready"
  BY GotoIsTyped
<1>2. writer = {h} /\ open[h].current = version /\ version < new
  BY DEF MigrationInv, TypeOK, Writing, Commit
<1>3. /\ open' = [open EXCEPT ![h] = q] /\ writer' = {} /\ version' = new /\ meta' = meta
      /\ ran' = [s \in Steps |-> IF s \in Missing(h) THEN ran[s] + 1 ELSE ran[s]]
  BY <1>2 DEF Commit, Goto, Recorded
<1>. HIDE DEF q
<1>4. /\ open \in [Opens -> Open] /\ version \in 0 .. Newest /\ Newest \in Nat
      /\ new \in 1 .. Newest /\ new \notin Repeatable /\ Steps = 1 .. Newest
      /\ ran \in [Steps -> Nat] /\ meta \in BOOLEAN
  BY ConstantsAreTyped DEF MigrationInv, TypeOK
<1>5. \A g \in Opens : open'[g] = IF g = h THEN q ELSE open[g]
  BY <1>3, <1>4
<1>6. VersionTellsSchema'
  <2>. SUFFICES ASSUME NEW s \in Steps
                PROVE  ran'[s] = IF s <= new THEN 1 ELSE 0
    BY <1>3 DEF VersionTellsSchema
  <2>1. s \in Missing(h) <=> version < s /\ s <= new
    BY <1>2, <1>4 DEF Missing
  <2>2. ran[s] = IF s <= version THEN 1 ELSE 0
    BY DEF MigrationInv, VersionTellsSchema
  <2>3. ran'[s] = IF s \in Missing(h) THEN ran[s] + 1 ELSE ran[s]
    BY <1>3
  <2>. QED  BY <1>2, <1>4, <2>1, <2>2, <2>3
<1>7. TypeOK'
  <2>1. ran' \in [Steps -> Nat]
    BY <1>3, <1>4
  <2>2. open' \in [Opens -> Open]
    BY <1>1, <1>3, <1>4
  <2>. QED  BY <1>3, <1>4, <2>1, <2>2 DEF TypeOK
<1>8. Reading'
  <2>. SUFFICES ASSUME NEW g \in Opens, open'[g].pc = "migrate"
                PROVE  /\ open'[g].current < Target[g]
                       /\ open'[g].current <= new
    BY <1>3, <1>4 DEF Reading
  <2>1. open'[g] = open[g] /\ open[g].current \in 0 .. Newest
    BY <1>1, <1>4, <1>5 DEF Open
  <2>2. open[g].current < Target[g] /\ open[g].current <= version
    BY <2>1 DEF MigrationInv, Reading
  <2>. QED  BY <1>2, <1>4, <2>1, <2>2
<1>9. Writing'
  <2>. SUFFICES ASSUME NEW g \in Opens PROVE open'[g].pc # "commit"
    BY <1>3 DEF Writing
  <2>. QED  BY <1>1, <1>2, <1>5 DEF MigrationInv, Writing
<1>10. Served'
  <2>. SUFFICES ASSUME NEW g \in Opens, open'[g].pc = "ready" PROVE Target[g] <= new
    BY <1>3 DEF Served
  <2>1. CASE g = h
    BY <1>4, <2>1
  <2>2. CASE g # h
    <3>1. Target[g] <= version /\ Target[g] \in 1 .. Newest
      BY <1>5, <2>2, ConstantsAreTyped DEF MigrationInv, Served
    <3>. QED  BY <1>2, <1>4, <3>1
  <2>. QED  BY <2>1, <2>2
<1>. QED  BY <1>2, <1>3, <1>6, <1>7, <1>8, <1>9, <1>10 DEF MigrationInv

LEMMA MigrationInvIsInductive ==
  ASSUME MigrationInv, [Next]_vars
  PROVE  MigrationInv' /\ version' >= version
<1>0. version \in Nat
  BY ConstantsAreTyped DEF MigrationInv, TypeOK
<1>1. ASSUME NEW h \in Opens, CreateMeta(h) \/ Step(h) \/ Close(h)
      PROVE  MigrationInv' /\ version' >= version
  <2>1. CASE CreateMeta(h) \/ ReadVersion(h) \/ MigrateFails(h) \/ Busy(h) \/ Close(h)
    <3>1. version' = version
      BY <2>1 DEF CreateMeta, ReadVersion, MigrateFails, Busy, Close
    <3>. QED  BY <1>0, <2>1, <3>1, EarlyStep
  <2>2. CASE Migrate(h)
    <3>1. version' = version
      BY <2>2 DEF Migrate
    <3>. QED  BY <1>0, <2>2, <3>1, MigrateStep
  <2>3. CASE Commit(h)
    <3>1. MigrationInv' /\ version < version'
      BY <2>3, CommitStep
    <3>2. version' \in Nat
      BY <3>1, ConstantsAreTyped DEF MigrationInv, TypeOK
    <3>. QED  BY <1>0, <3>1, <3>2
  <2>. QED  BY <1>1, <2>1, <2>2, <2>3 DEF Step
<1>2. CASE UNCHANGED vars
  <2>1. MigrationInv'
    BY <1>2 DEF vars, MigrationInv, TypeOK, VersionTellsSchema, Reading, Writing, Served
  <2>. QED  BY <1>0, <1>2, <2>1 DEF vars
<1>. QED  BY <1>1, <1>2 DEF Next

\* The invariant, for every number of processes and every mixture of programs.
THEOREM MigrationInvariant == Spec => []MigrationInv
<1>1. MigrationInv /\ [Next]_vars => MigrationInv'
  BY MigrationInvIsInductive
<1>. QED  BY <1>1, Started, PTL DEF Spec

\* Versions, counts of steps and open calls are well typed.
THEOREM MigrationTypeCorrect == Spec => []TypeOK
<1>1. MigrationInv => TypeOK
  BY DEF MigrationInv
<1>. QED  BY <1>1, MigrationInvariant, PTL

\* Each step of the schema is committed once and the recorded version says
\* which (migrate), although the version is read outside the transaction.
THEOREM StepsRunOnce == Spec => []VersionTellsSchema
<1>1. MigrationInv => VersionTellsSchema
  BY DEF MigrationInv
<1>. QED  BY <1>1, MigrationInvariant, PTL

\* What Open returned stays usable while other programs migrate the file.
THEOREM OpenStoresAreServed == Spec => []ReadyIsServed
<1>1. MigrationInv => ReadyIsServed
  <2>. SUFFICES ASSUME MigrationInv, NEW h \in Opens, open[h].pc = "ready",
                       NEW s \in 1 .. Target[h]
                PROVE  ran[s] > 0
    BY DEF ReadyIsServed
  <2>1. /\ Target[h] <= version /\ Target[h] \in 1 .. Newest /\ Newest \in Nat
        /\ version \in 0 .. Newest /\ Steps = 1 .. Newest
    BY ConstantsAreTyped DEF MigrationInv, Served, TypeOK
  <2>2. s \in Steps /\ s <= version
    BY <2>1
  <2>3. ran[s] = 1
    BY <2>2 DEF MigrationInv, VersionTellsSchema
  <2>. QED  BY <2>3
<1>. QED  BY <1>1, MigrationInvariant, PTL

\* No program takes the recorded version back.
THEOREM VersionsOnlyGrow == Spec => NeverDowngraded
<1>1. MigrationInv /\ [Next]_vars => [version' >= version]_vars
  BY MigrationInvIsInductive
<1>. QED  BY <1>1, MigrationInvariant, PTL DEF Spec, NeverDowngraded

=============================================================================
