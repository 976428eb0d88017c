CONSTANTS
  Task = {c, r}
  Client = {c}
  Reaper = {r}
  Killable = {c}
  Vm = {a}
  NetnsVm = {}
  LvmVm = {}
  MaxLaunch = 1
  LastCid = 3
  Ops <- RacingOps
  StartFrom <- Relaunchable
  FailClosed = TRUE
  Ttl = {TRUE, FALSE}
  Stubborn = FALSE
  Fallible = {}
  SlowCreate = TRUE
  FirstCid = 3
  NoRec = NoRec
  NoVm = NoVm
SPECIFICATION FairSpec
PROPERTIES DeadVmNoticed ExpiredGone StuckCreatingGone
