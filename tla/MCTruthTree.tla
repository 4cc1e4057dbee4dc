---------------------------- MODULE MCTruthTree ----------------------------
\* Instances of TruthTree for TLC.
EXTENDS TruthTree

CONSTANT s1

OneSync == {s1}
=============================================================================
