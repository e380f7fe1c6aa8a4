SPECIFICATION FairSpec
CONSTANTS
  Threads = {1, 2, 3}
  Groups = 2
  Group <- FirstAlone
  MayIsolate <- OneKind
  MaxCalls = 4
  NONE = 0
INVARIANTS FullIsolationMeansIdle
PROPERTIES ImplementsExclusion 
CHECK_DEADLOCK FALSE
