\* Three clients of the three routes, with every fault.
CONSTANTS
  r1 = r1
  r2 = r2
  r3 = r3
  None = None
  Torn = Torn
  Requests = {r1, r2, r3}
  Kinds = {"apply", "full", "upload"}
  TempDirFaults = TRUE
SPECIFICATION Spec
SYMMETRY Symmetry
INVARIANTS
  TypeOK
  ApplyMutex
  LockIsAccurate
  ChangesKept
  NoStaleApplication
  NoPhantomDeployment
PROPERTIES
  IndivisibleUpdates
\* The requests run out.
CHECK_DEADLOCK FALSE
