\* Two clients, one of a route that records; their clocks one unit off the agent's.
CONSTANTS
  r1 = r1
  r2 = r2
  None = None
  Torn = Torn
  Requests = {r1, r2}
  Kinds = {"apply", "full"}
  TempDirFaults = FALSE
  MaxTime = 2
  Skew = 1
SPECIFICATION PollingSpec
SYMMETRY Symmetry
INVARIANTS
  VerdictIsFresh
CHECK_DEADLOCK FALSE
