\* Clients that do not race for the lock; one crash, one SIGTERM.
CONSTANTS
  r1 = r1
  r2 = r2
  None = None
  Torn = Torn
  Requests = {r1, r2}
  Kinds = {"apply", "auto"}
  Overlap = FALSE
  PidReuse = FALSE
  IoFaults = FALSE
  MaxCrashes = 1
  MaxSigterms = 1
SPECIFICATION Spec
INVARIANTS
  LockFileTellsTheTruth
  LockLeavesNothing
  DeployLockSettles
  DamageIsJournaled
PROPERTIES
  SigtermDeferred
  SigtermHonoured
  EventuallyAnswered
\* The requests run out.
CHECK_DEADLOCK FALSE
