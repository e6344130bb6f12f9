SPECIFICATION KernelSpec
CONSTANTS
  None = None
  Workers = {w1, w2}
  MaxJobs = 3
INVARIANTS
  JobHasOnePlace
  BootInOrder
  
PROPERTIES
  StopReturns
  BootEnds
  MotorStops
CHECK_DEADLOCK FALSE
