SPECIFICATION MachineSpec
CONSTANTS
  Task = {t1, t2}
  Name = {n1, n2}
  Source = {u1, u2}
  BaseName <- OneFile
  Vm = {v}
  NoVm = NoVm
  Focus <- OneEach
  JailedVm = {w1, w2}
  MaxLaunch = 3
  Caller = {t1, t2}
  Nobody = Nobody
  Kind = {"qemu", "firecracker", "ch"}
  MaxSlip = 2
INVARIANTS HostKept DoneOnce EarlyCallsSucceed RecordMatchesGuest
PROPERTIES UpdatesKept ResolvedAsVouched
SYMMETRY Alike
