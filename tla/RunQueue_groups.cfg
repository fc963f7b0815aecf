SPECIFICATION QueuesSpec
CONSTANTS
  t1 = t1
  t2 = t2
  t3 = t3
  w1 = w1
  root = root
  g1 = g1
  g2 = g2
  None = None
  CPUs <- const_CPUs
  Tasks <- const_Tasks
  Watchers <- const_Watchers
  WithMm <- const_WithMm
  Watched <- const_Watched
  MaxSwitches <- const_Switches
  Groups <- const_Groups
  Root = root
  RtTasks <- const_RtTasks
  Writers <- const_Writers
  Periods <- const_Periods
  Runtimes <- const_Runtimes
  INF = 9
  Full = 2
INVARIANTS LockHoldsTask LocksAcyclic SwitchCountsReferences BandwidthAdmitted NobodyStarves
PROPERTIES InactiveStaysOff
CONSTRAINTS StillPromised SleepersWoken
SYMMETRY Alike
CHECK_DEADLOCK FALSE
