\* The strategy "sequential", with nothing going wrong.
CONSTANTS
  NumHosts = 3
  p1 = p1
  HAProxies = {p1}
  Strategies = {"sequential"}
  DrainFaults = {}
  LostCommands = FALSE
  MaxBatches = 2
  MaxCount = 2
  None = None
SPECIFICATION Spec
INVARIANTS
  PostAfterEverySwitch
\* The process exits.
CHECK_DEADLOCK FALSE
