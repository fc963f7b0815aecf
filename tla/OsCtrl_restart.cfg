SPECIFICATION Spec
CONSTANTS
  Pids <- const_Pids
  Bursts <- const_Bursts
  MaxCsw = 0
PROPERTY StartProtects
