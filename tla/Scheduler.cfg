CONSTANTS
  Thread = {t0, t1}
  t0 = t0
  t1 = t1
  Initial = t0
  None = None
  MaxRequests = 4
SPECIFICATION Spec
INVARIANTS
  TypeOK
  FibreInOnePlace
  CountersCount
  PendingKeepsProcess
  NoFibreLeftBySchedulers
PROPERTIES
  Termination
\* Every thread leaves in the end.
CHECK_DEADLOCK FALSE
