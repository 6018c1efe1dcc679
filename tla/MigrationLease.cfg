\* One migration phase, two signals.
CONSTANTS
  MaxSignals = 2
  None = None
SPECIFICATION Spec
INVARIANTS
  TypeOK
  LeaseAccountedFor
  CleanSlate
PROPERTIES
  SignalExits
\* The phase ends, or the vault does not answer.
CHECK_DEADLOCK FALSE
