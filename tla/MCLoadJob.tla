------------------------------ MODULE MCLoadJob ------------------------------
EXTENDS LoadJob, TLC

CONSTANTS l1, l2, l3, p1, p2, p3

MCLoaders == {l1, l2, l3}
MCPairs == {p1, p2, p3}
\* A rerun of load_job: one pair was loaded before.
MCPreloaded == {p1}
\* Loaders started with different solver filters whose pairs overlap.
MCPairsOf == [l \in Loaders |-> IF l = l3 THEN {p1, p2} ELSE {p1, p2, p3}]

=============================================================================
