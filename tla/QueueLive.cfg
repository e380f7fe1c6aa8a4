SPECIFICATION FairSpec
CONSTANTS
  s1 = s1 s2 = s2 s3 = s3 a = a b = b
  Streams = {s1, s2}
  Servers = {a, b}
  Groups = {1}
  Admin = admin Px = px NULL = NULL
  Group <- OneGroup
  Key <- SameKey
  Wants <- Mixed
  MaxConn <- OneSlot
  MaxQueue <- NoMaxQueue
  MaxSelfUse = 1
  MaxPoll = 2
  Redisp = TRUE
  Persist = FALSE
  EarlyFails = TRUE
  Timeouts = TRUE
  MaxRetries = 1
  Downs = {}
  MaxFlaps = 0
INVARIANTS IInv
PROPERTIES EveryRequestEnds
