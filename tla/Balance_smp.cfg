SPECIFICATION Spec
CONSTANTS
  t1 = t1
  t2 = t2
  t3 = t3
  CPUs = {0, 1, 2}
  Tasks = {t1, t2, t3}
  Settings <- MCSettings
  Depth = 2
  Scale = 8
  Pct = 125
  Tries = 0
  AtOnce = 1
  Huge = 1000000
  None = None
CHECK_DEADLOCK FALSE
PROPERTIES AlikeConserving
