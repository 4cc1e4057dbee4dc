-------------------------- MODULE MCDecisionLog --------------------------
(* Small instances of DecisionLog for TLC.                                 *)
EXTENDS DecisionLog

=============================================================================
