CONSTANTS
  j1 = j1  j2 = j2  j3 = j3  w1 = w1  w2 = w2
  NoJob = NoJob
  Jobs <- MCJobs
  Workers <- MCWorkers
  ConfigOf <- MCConfigOf
  ParseOutcomes <- MCParseRaise
SPECIFICATION WSpec
PROPERTY CompletedIsFinal
CHECK_DEADLOCK FALSE
