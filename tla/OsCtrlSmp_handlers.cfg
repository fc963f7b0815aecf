SPECIFICATION SmpSpec
CONSTANTS
  Cpus <- const_Cpus
  Pids <- const_Pids
  NIrqs = 2
INVARIANTS HandlersSound Settled
PROPERTY Restores
CHECK_DEADLOCK FALSE
