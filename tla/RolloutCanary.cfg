\* Three hosts, two load balancers; every canary of two or three batches that
\* ends in "R", with failing drains, and the parallel strategy without them.
CONSTANTS
  NumHosts = 3
  p1 = p1
  p2 = p2
  HAProxies = {p1, p2}
  Strategies = {"parallel", "canaryRest"}
  DrainFaults = {"canaryRest"}
  LostCommands = FALSE
  MaxBatches = 3
  MaxCount = 2
  None = None
SPECIFICATION Spec
INVARIANTS
  CanaryGuardsTheRest
  OneBatchOut
  PostAfterEverySwitch
  RestoredUnlessAborted
\* The process exits.
CHECK_DEADLOCK FALSE
