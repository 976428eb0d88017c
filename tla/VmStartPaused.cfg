CONSTANTS
  Task = {t}
  Client = {t}
  Reaper = {t}
  Killable = {}
  Vm = {a}
  NetnsVm = {}
  LvmVm = {}
  MaxLaunch = 2
  LastCid = 3
  Ops <- AllOps
  StartFrom <- AnyStatus
  FailClosed = TRUE
  Ttl = {FALSE}
  Stubborn = FALSE
  Fallible = {}
  SlowCreate = FALSE
  FirstCid = 3
  NoRec = NoRec
  NoVm = NoVm
SPECIFICATION Spec
INVARIANT NoDiskReclaimedFromLive
