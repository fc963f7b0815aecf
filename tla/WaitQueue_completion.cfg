SPECIFICATION Spec
CONSTANTS
  t1 = t1
  t2 = t2
  Waiters <- const_Waiters
  Sleepers <- const_Sleepers
  Forcible <- const_Forcible
  Half = 2
  MaxPosts = 2
INVARIANT WaitersSound
PROPERTIES InOrder Delivered
CHECK_DEADLOCK FALSE
