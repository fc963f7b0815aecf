SPECIFICATION Spec
CONSTANTS
  Cpus <- const_TwoCpus
  Pids <- const_Two
  First <- const_One
  BklUsers <- const_Two
INVARIANTS QueuedOnce BklHeldByRunner
PROPERTIES NoSwitchWhileForced ReturnsWithoutBkl
CHECK_DEADLOCK FALSE
