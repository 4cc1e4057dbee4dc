--------------------------- MODULE MCPreEditGate ---------------------------
\* Instances of PreEditGate for TLC.
EXTENDS PreEditGate, TLC

CONSTANTS h1, h2

MCHooks == {h1, h2}
OneHook == {h1}
Symmetry == Permutations(MCHooks)

MCEnabled == Adapters
MCMarkers == {{"self-logging"}, {"ground-truth", "self-logging"}}
NoMarkers == {{}}

EditWith(hits) == [hits |-> hits, named |-> TRUE, confirmed |-> FALSE]

\* A Bash command that the code guard and the forbidden-claim guard object to,
\* an edit that trips two ground-truth guards in a file that wants a rationale,
\* one that lacks a disclosure and whose rationale is confirmed.
MCEdits ==
  { [hits |-> {"code", "claim"}, named |-> FALSE, confirmed |-> FALSE],
    EditWith({"path", "claim", "rationale"}),
    [hits |-> {"content", "rationale"}, named |-> TRUE, confirmed |-> TRUE] }

RationaleEdits == {EditWith({"rationale"})}
FilterEdits == {EditWith({"path"})}
=============================================================================
