------------------------- MODULE MCLakehouseMirror -------------------------
EXTENDS LakehouseMirror

CONSTANTS t1, t2, k1, k2

Scenario(tables, keys, c, f, r, p) ==
    [tables |-> tables, keys |-> keys, commits |-> c, faults |-> f, reads |-> r, pragmas |-> p]

\* Commits on one table of two rows, with a crash or a failed seal, and with a
\* read; mirroring switched twice, without and with a crash or a failed save; two
\* tables of one row, with a crash and with switching; two failures in a row.
MCBudget ==
    {Scenario({t1}, {k1, k2}, 3, 1, 0, 0), Scenario({t1}, {k1, k2}, 3, 0, 1, 0),
     Scenario({t1}, {k1, k2}, 2, 0, 0, 2), Scenario({t1}, {k1, k2}, 1, 1, 0, 2),
     Scenario({t1, t2}, {k1}, 3, 1, 0, 0), Scenario({t1, t2}, {k1}, 1, 1, 0, 2),
     Scenario({t1}, {k1}, 1, 2, 0, 2)}

\* Commits and one crash.
MCCrash == {Scenario({t1}, {k1, k2}, 3, 1, 0, 0)}

\* Commits alone.
MCSteady == {Scenario({t1}, {k1, k2}, 3, 0, 0, 0)}
=============================================================================
