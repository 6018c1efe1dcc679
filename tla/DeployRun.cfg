\* Two interchangeable hosts in every split into three classes, under every valid flag.
CONSTANTS
  h1 = h1
  h2 = h2
  Hosts = {h1, h2}
  NumClasses = 3
  MaxRepeats = 0
  MaxPartial = 1
SPECIFICATION Spec
SYMMETRY Symmetry
INVARIANTS
  PostBehindEveryWar
PROPERTIES
  HostsInTurn
\* The run ends.
CHECK_DEADLOCK FALSE
