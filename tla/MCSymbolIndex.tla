-------------------------- MODULE MCSymbolIndex --------------------------
(* Small instances of SymbolIndex for TLC.                                 *)
EXTENDS SymbolIndex, TLC

Symmetry == Permutations(Files) \cup Permutations(Workers) \cup Permutations(Hooks)

=============================================================================
