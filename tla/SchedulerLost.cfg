CONSTANTS
  Thread = {t0}
  t0 = t0
  Initial = t0
  None = None
  MaxRequests = 2
SPECIFICATION Spec
INVARIANTS
  NoFibreLeftBehind
\* Every thread leaves in the end.
CHECK_DEADLOCK FALSE
