SPECIFICATION Spec
CONSTANTS
  s1 = s1 s2 = s2 s3 = s3 a = a b = b
  Streams = {s1, s2}
  Servers = {a}
  Groups = {1}
  Admin = admin Px = px NULL = NULL
  Group <- OneGroup
  Key <- SameKey
  Wants <- Balanced
  MaxConn <- OneSlot
  MaxQueue <- NoMaxQueue
  MaxSelfUse = 1
  MaxPoll = 2
  Redisp = FALSE
  Persist = FALSE
  EarlyFails = FALSE
  Timeouts = FALSE
  MaxRetries = 0
  Downs = {}
  MaxFlaps = 0
INVARIANT NoRequestStranded
