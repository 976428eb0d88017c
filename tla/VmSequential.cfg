CONSTANTS
  Task = {t}
  Client = {t}
  Reaper = {t}
  Killable = {}
  Vm = {a}
  NetnsVm = {a}
  LvmVm = {a}
  MaxLaunch = 3
  LastCid = 3
  Ops <- AllOps
  StartFrom <- Relaunchable
  FailClosed = TRUE
  Ttl = {TRUE, FALSE}
  Stubborn = TRUE
  Fallible <- AnyCleanup
  SlowCreate = FALSE
  FirstCid = 3
  NoRec = NoRec
  NoVm = NoVm
SPECIFICATION Spec
INVARIANTS DiskOutlivesProcess NothingOrphaned RecordTruthful FilteredFromLaunch
