CONSTANTS
  j1 = j1  j2 = j2  j3 = j3  c1 = c1  e1 = e1  e2 = e2
  NoDriver = NoDriver
  Jobs <- MCJobs
  Drivers <- MCDriversCE
  StepOf <- MCStepOfCE
  ConfigOf <- MCConfigOf
  FinStepsOf <- MCFinStepsBoth
  ValidConfigs = {1, 2}
  ClaimNum = 2
  MaxJobRetries = 3
  MaxRedeliver = 0
  DispatchCanFail = FALSE
  EvalCanRaise = FALSE
SPECIFICATION Spec
INVARIANT ErroredOnlyOnJobFailure
CHECK_DEADLOCK FALSE
