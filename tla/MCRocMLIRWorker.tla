-------------------------- MODULE MCRocMLIRWorker --------------------------
EXTENDS RocMLIRWorker, TLC

CONSTANTS j1, j2, j3, w1, w2

MCJobs == {j1, j2, j3}
MCWorkers == {w1, w2}
\* Two jobs share a config, so the claim order leaves a choice.
MCConfigOf == [j \in Jobs |-> IF j = j3 THEN 2 ELSE 1]
MCParseAll == {"row", "bad", "dberror", "raise"}
MCParseRaise == {"row", "raise"}

=============================================================================
