\* Three runs, one after or beside the other; sessions end for good.
CONSTANTS
  m1 = m1
  m2 = m2
  m3 = m3
  Runners = {m1, m2, m3}
  NumFiles = 4
  NumStmts = 2
  Asserted = {2, 4}
  Marker = 2
  AssertErrors = FALSE
  Reconnects = FALSE
  MaxKills = 1
  MaxCrashes = 1
  None = None
SPECIFICATION Spec
INVARIANTS
  NoConcurrentDDL
  SuccessIsComplete
  OkMeansUpToDate
  InOrder
  LostLockIsReported
PROPERTIES
  NoDoubleApply
\* The runs end.
CHECK_DEADLOCK FALSE
