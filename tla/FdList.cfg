SPECIFICATION FairSpec
CONSTANTS
  t1 = t1
  t2 = t2
  Threads <- MCThreads2
  NFds = 3
  Starts <- MCStarts
INVARIANTS WellLinked ActivePolled
PROPERTIES UpdatesSeen
CHECK_DEADLOCK FALSE
