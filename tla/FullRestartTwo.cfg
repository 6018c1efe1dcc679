\* Two POST /deploy whose lock checks and releases may overlap.
CONSTANTS
  r1 = r1
  r2 = r2
  None = None
  Torn = Torn
  Requests = {r1, r2}
  Kinds = {"apply"}
  Overlap = TRUE
  PidReuse = FALSE
  IoFaults = FALSE
  MaxCrashes = 0
  MaxSigterms = 0
SPECIFICATION Spec
INVARIANTS
  OneRestartAtATime
\* The requests run out.
CHECK_DEADLOCK FALSE
