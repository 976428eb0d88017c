CONSTANTS
  Task = {c1, c2}
  Client = {c1, c2}
  Reaper = {}
  Killable = {c1, c2}
  Vm = {a, b}
  NetnsVm = {}
  LvmVm = {}
  MaxLaunch = 0
  LastCid = 4
  Ops <- CidOps
  StartFrom <- Relaunchable
  FailClosed = FALSE
  Ttl = {FALSE}
  Stubborn = FALSE
  Fallible = {}
  SlowCreate = FALSE
  FirstCid = 3
  NoRec = NoRec
  NoVm = NoVm
SPECIFICATION Spec
INVARIANTS TypeOK UniqueCids
PROPERTY CidNeverChanges
SYMMETRY Alike
