SPECIFICATION Spec
CONSTANTS
  s1 = s1 s2 = s2 s3 = s3 a = a b = b
  Streams = {s1, s3}
  Servers = {a}
  Groups = {1, 2}
  Admin = admin Px = px NULL = NULL
  Group <- TwoGroups
  Key <- SameKey
  Wants <- OneBalanced
  MaxConn <- OneSlot
  MaxQueue <- NoMaxQueue
  MaxSelfUse = 1
  MaxPoll = 2
  Redisp = FALSE
  Persist = FALSE
  EarlyFails = FALSE
  Timeouts = TRUE
  MaxRetries = 0
  Downs = {"maint", "drain"}
  MaxFlaps = 1
INVARIANTS EntryAlive NothingLeaked CountersSettle
