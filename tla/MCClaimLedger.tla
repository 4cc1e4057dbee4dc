--------------------------- MODULE MCClaimLedger ---------------------------
(* Small instances of ClaimLedger for TLC.                                 *)
EXTENDS ClaimLedger, TLC

Symmetry == Permutations(Hooks) \cup Permutations(Files)

=============================================================================
