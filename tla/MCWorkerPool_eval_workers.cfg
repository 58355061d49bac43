CONSTANTS
  NumMachines = 2
  MaxIds = 2
  RowCounts <- MCRowCounts
  GpuLims = {0, 1}
  FinStepVals <- MCFinStepVals
  ValidFinSteps <- MCValidFinSteps
  EvalNamed <- MCEvalNamed
SPECIFICATION PSpec
INVARIANT EvalWorkerPerGpu
\* compose_worker_list returns.
CHECK_DEADLOCK FALSE
