SPECIFICATION Spec
CONSTANTS
  daemon = daemon
  cli = cli
  c1 = c1
  c2 = c2
  Name = {p}
  Vm = {v1, v2, v3}
  Proc = {daemon, cli}
  Daemon = {daemon}
  Killable = {cli}
  Client = {c1, c2}
  Home <- OneOutside
  MaxSize = 1
  MaxTemplate = 1
  MaxQueued = 1
  Mishaps = TRUE
  NoPool = NoPool
INVARIANTS ClaimedOnce BoundedOvershoot
SYMMETRY Alike
