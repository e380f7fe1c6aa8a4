SPECIFICATION FairSpec
CONSTANTS
  NbThread = 2
  InitTids <- BoundOrShared
  Calls = {"wakeup", "schedule", "destroy", "self"}
  MaxCalls = 3
  MaxNow = 3
INVARIANTS OneRunner QueuedOnce FreedIsUnused
PROPERTIES WakeupRuns TimerRuns DestroyEnds
CHECK_DEADLOCK FALSE
