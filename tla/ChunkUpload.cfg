\* Two interchangeable clients with two uploads each, and room for one session and one more.
CONSTANTS
  c1 = c1
  c2 = c2
  Absent = Absent
  Old = Old
  Torn = Torn
  None = None
  Clients = {c1, c2}
  NumFiles = 3
  MinFiles = 2
  ChunkSize = 1
  MaxSessions = 1
  MaxUploads = 2
  MaxRestarts = 1
SPECIFICATION Spec
SYMMETRY Symmetry
INVARIANTS
  SuccessIsWar
  SessionsBounded
  CommitIsWhole
PROPERTIES
  SessionsAreKept
\* The uploads run out.
CHECK_DEADLOCK FALSE
