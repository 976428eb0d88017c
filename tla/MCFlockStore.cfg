CONSTANTS
  Proc = {p1, p2}
  Vm = {a, b}
  a = a
  b = b
  NoRec = NoRec
  NoProc = NoProc
  Torn = Torn
  Nil = Nil
  Err = Err
  FirstCid = 3
  LastCid = 4
  Maps <- VmMaps
  InitMap <- Empty
  Requests <- VmRequests
  Outcomes <- VmOutcomes
  ErrAns <- VmErrAns
  IsRead <- VmIsRead
SPECIFICATION Spec
INVARIANT NoLostUpdate
PROPERTY Atomic
