SPECIFICATION FabricSpec
CONSTANTS
  Task = {t}
  Dest = {"a", "b"}
  Port = {22, 80}
  Policy <- Chosen
  DefaultPolicy <- Everything
  NoPolicy = NoPolicy
  Mode = {"ebpf", "legacy"}
  Required = {TRUE, FALSE}
  Prog = {1, 2, 3}
  Foreign = 9
  MaxFault = 2
  Cidr = {"c", "d"}
  XProg = {1, 2, 3}
  Other = 9
  MaxXFault = 2
INVARIANTS SyncedMeansCommitted NoMixedPolicy NeverFailOpen
PROPERTY Repaired
