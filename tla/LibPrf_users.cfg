SPECIFICATION LibSpec
CONSTANTS
  Pids <- const_Pids
  Bursts <- const_Bursts
  MaxCsw = 256
  Durations <- const_Durations
  L1Cost = 2
  Second = 4
  LongLimit = 9
  U64 = 64
  Strays <- const_Strays
  Garbage <- const_Garbage
INVARIANT ResultsTrue
PROPERTY StopReturnsTheMachine
