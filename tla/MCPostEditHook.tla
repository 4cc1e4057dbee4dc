-------------------------- MODULE MCPostEditHook --------------------------
\* Instances of PostEditHook for TLC.
EXTENDS PostEditHook, TLC

CONSTANTS h1, h2

MCHooks == {h1, h2}
All == {"code", "ground-truth", "self-logging"}
MCEnabled == {{"code"}, {"ground-truth", "self-logging"}, All}

Inside(flags, wants) ==
  [decodes |-> TRUE, where |-> "inside", flags |-> flags, drafts |-> wants]
Claims == Inside("claims", FALSE)
Tree == Inside("tree", TRUE)
Long == Inside("long", FALSE)
Clean == Inside("none", FALSE)
Outside == [Claims EXCEPT !.where = "outside"]
Gone == [Clean EXCEPT !.where = "gone"]
Undecodable == [Clean EXCEPT !.decodes = FALSE]

MCEdits == {Claims, Tree, Long, Clean, Outside, Gone, Undecodable}

Are(e1, e2, on) ==
  /\ hook[h1].edit = e1 /\ hook[h2].edit = e2
  /\ \A h \in Hooks : hook[h].adapters = on

\* A hook of the code adapter while config.toml and the approvals change, and
\* hooks that end early.  Then all adapters, nothing changing any more: two
\* audit lines meet, one of them for the truth tree or too long for Stop.
MCInit ==
  /\ Init
  /\ \/ /\ events = 0
        /\ \/ Are(Clean, Undecodable, {"code"})
           \/ Are(Gone, Undecodable, {"code"}) /\ trust = NoCommand
     \/ /\ events = MaxEvents /\ config = NoCommand /\ trust = NoCommand
        /\ \/ Are(Claims, Claims, All)
           \/ Are(Claims, Tree, {"ground-truth", "self-logging"})
           \/ Are(Long, Outside, All)

MCSpec == MCInit /\ [][Next]_vars /\ Fairness
=============================================================================
