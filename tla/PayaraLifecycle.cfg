\* Two operations after the start of the agent, in each of the three modes.
CONSTANTS
  j1 = j1
  j2 = j2
  None = None
  Jvms = {j1, j2}
  Modes = {"exec", "aggressive", "normal"}
  Unreliable = {"exec", "aggressive"}
  PgrepFaults = FALSE
  Overlap = FALSE
  MaxOperations = 2
  MaxRotations = 1
SPECIFICATION Spec
INVARIANTS
  RotationReachesJvm
PROPERTIES
  OneJvm
  FreshLaunch
\* The operations run out.
CHECK_DEADLOCK FALSE
