\* Two CLIs on two routes in one unit of time: no completion ever counts as later
\* than a request, so the answer or a time limit must end the wait.
CONSTANTS
  r1 = r1
  r2 = r2
  None = None
  Torn = Torn
  Requests = {r1, r2}
  Kinds = {"apply", "upload"}
  TempDirFaults = FALSE
  MaxTime = 1
  Skew = 0
SPECIFICATION PollingSpec
PROPERTIES
  EventuallyVerdict
CHECK_DEADLOCK FALSE
