SPECIFICATION Spec
CONSTANTS
  c1 = c1
  c2 = c2
  Cpus <- const_OneCpu
  Pids <- const_Pids
PROPERTY CallReturns
CHECK_DEADLOCK FALSE
