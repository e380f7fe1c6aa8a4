SPECIFICATION Spec
CONSTANTS
  Threads <- TwoThreads
  Layouts <- BothLayouts
  Kinds = {TRUE, FALSE}
  MaxConns = 2
  MaxTakeovers = 2
  NONE = NONE
INVARIANTS ClosedOnce HandlerOnItsThread ActiveIsPolled PolledKnown DeletedIsClosed
CHECK_DEADLOCK FALSE
