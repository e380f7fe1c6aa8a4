SPECIFICATION Spec
CONSTANTS
  sa = sa
  sb = sb
  sc = sc
  cli = cli
  dns = dns
  NONE = NONE
  Servers = {sa, sb, sc}
  Track <- MCChain
  HasCheck = {sa}
  HasAgent = {sb}
  Slow = {sa}
  Resolved = {sc}
  Disabled = {{}}
  InitStates = {"down"}
  Rise = 2
  Fall = 2
  Threads = {cli}
  Commands = {"disable", "enable"}
  MaxCommands = 2
  MaxChanges = 2
INVARIANT FailedIsDown
CHECK_DEADLOCK FALSE
