SPECIFICATION Spec
CONSTANTS
  Pids <- const_Pids
  Bursts <- const_Bursts
  MaxCsw = 1
INVARIANT Consistent
PROPERTIES StopRestores Protected Released
