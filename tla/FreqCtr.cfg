SPECIFICATION FairSpec
CONSTANTS
  Threads = {t1, t2}
  Period = 2
  Wrap = 16
  Boot = 14
  Incs = {1}
  Freqs = {0, 1, 2}
  MaxTicks = 6
  MaxEvents = 2
INVARIANTS NoEventLost SnapshotConsistent NeverOvercounts PeriodNotAhead NoRoomMeansWait
PROPERTIES UpdateEnds
CHECK_DEADLOCK FALSE
