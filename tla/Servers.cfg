SPECIFICATION FairSpec
CONSTANTS
  sa = sa
  sb = sb
  sc = sc
  cli = cli
  dns = dns
  NONE = NONE
  Servers = {sa, sb, sc}
  Track <- MCChain
  HasCheck = {sa}
  HasAgent = {sb}
  Slow = {sa}
  Resolved = {sc}
  Disabled = {{}, {sa}}
  InitStates = {"none"}
  Rise = 2
  Fall = 2
  Threads = {cli, dns}
  Commands = {"ready", "drain", "maint", "health", "agent", "disable", "enable", "dns", "fail-check", "sudden-death", "mark-down"}
  MaxCommands = 2
  MaxChanges = 1
INVARIANTS Applied InheritedExact TrackerFollows
PROPERTIES Settles
CHECK_DEADLOCK FALSE
