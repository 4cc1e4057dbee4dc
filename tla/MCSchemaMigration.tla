------------------------- MODULE MCSchemaMigration -------------------------
\* An instance of SchemaMigration for TLC: the versions of store.go, and a
\* program of the version before.
EXTENDS SchemaMigration

CONSTANTS o1, o2, o3

MCOpens == {o1, o2, o3}
MCTarget == [h \in MCOpens |-> IF h = o1 THEN 8 ELSE 9]
MCRepeatable == {7}
MCStart == {0, 6, 7, 8, 9}
=============================================================================
