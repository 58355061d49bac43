\* Two workers polling three rows (two on config 1, one on config 2), with
\* every outcome of the command and of the result parse.
CONSTANTS
  j1 = j1  j2 = j2  j3 = j3  w1 = w1  w2 = w2
  NoJob = NoJob
  Jobs <- MCJobs
  Workers <- MCWorkers
  ConfigOf <- MCConfigOf
  ParseOutcomes <- MCParseAll
SPECIFICATION WFairSpec
INVARIANT WTypeOK ExclusiveClaim ResultRowFinal
PROPERTY JobsResolved
\* An idle worker with no row to claim sleeps and polls again.
CHECK_DEADLOCK FALSE
