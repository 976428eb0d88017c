SPECIFICATION FairSpec
CONSTANTS
  daemon = daemon
  cli = cli
  c1 = c1
  c2 = c2
  Name = {p}
  Vm = {v1, v2, v3, v4}
  Proc = {daemon}
  Daemon = {daemon}
  Killable = {}
  Client = {c1}
  Home <- InDaemon
  MaxSize = 2
  MaxTemplate = 2
  MaxQueued = 1
  Mishaps = FALSE
  NoPool = NoPool
INVARIANTS TypeOK MembersPaused NoneAbandoned
PROPERTIES PoolConverges
