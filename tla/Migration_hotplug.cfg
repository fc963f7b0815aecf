SPECIFICATION Spec
CONSTANTS
  None = None
  p1 = p1
  p2 = p2
  Cpus <- const_Cpus
  Tasks <- const_Tasks
  Offlinable <- const_Offlinable
  Callers <- const_Callers
  Sleepers <- const_Sleepers
  Forcible <- const_Forcible
INVARIANTS WellPlaced Served NobodyLeftBehind
PROPERTY ForcedStays
CHECK_DEADLOCK FALSE
