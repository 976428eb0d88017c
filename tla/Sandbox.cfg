SPECIFICATION Spec
CONSTANTS
  Caller = {"user", "admin"}
  Mix <- Mixes
  Engine = {"firecracker", "kvm"}
  MaxSlip = 1
INVARIANTS AgreesOnceAcked NeverTorn
PROPERTIES CallsEnd ConsoleEnds
