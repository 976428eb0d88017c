SPECIFICATION FairSpec
CONSTANTS
  Node = {1, 2}
  FleetClient = {f}
  Cr = {k}
  Guarded = {2}
  Quota = 1
  Flaky = {1}
  MaxVm = 3
  MaxMishap = 1
  Window = 2
  Capacity <- Sizes
  MaxPlaced = 1
  Capable = {1, 2}
INVARIANTS HealthyIsRecent LeaksBounded
PROPERTIES HealthFollowsNode CrConverges
