SPECIFICATION Spec
CONSTANTS
  Vm = {v1, v2, v3}
  Task = {t1, t2}
  NoVm = NoVm
  PoolSize = 2
  Contended = {v3}
  Unlucky = {v2}
INVARIANTS TypeOK ReadySubnetsDistinct ReadyStaysWired TornDown
SYMMETRY Alike
