SPECIFICATION Spec
CONSTANTS
  Cpus <- const_OneCpu
  Pids <- const_Two
  First <- const_Two
  BklUsers <- const_One
PROPERTY Returns
CHECK_DEADLOCK FALSE
