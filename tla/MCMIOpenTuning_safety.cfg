\* Three drivers (one compile, two eval) claiming batches of two over three
\* rows; config 2 has valid=0, apply_async may fail, an exception may escape
\* the eval handler; no redelivery.
CONSTANTS
  j1 = j1  j2 = j2  j3 = j3  c1 = c1  e1 = e1  e2 = e2
  NoDriver = NoDriver
  Jobs <- MCJobs
  Drivers <- MCDrivers3
  StepOf <- MCStepOf3
  ConfigOf <- MCConfigOf
  FinStepsOf <- MCFinStepsBoth
  ValidConfigs = {1}
  ClaimNum = 2
  MaxJobRetries = 3
  MaxRedeliver = 0
  DispatchCanFail = TRUE
  EvalCanRaise = TRUE
SPECIFICATION Spec
INVARIANT TypeOK ExclusiveOwnership SnapshotsCurrent IInv
PROPERTY TerminalStable JobLifecycleRefined
CHECK_DEADLOCK FALSE
