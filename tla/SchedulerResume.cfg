CONSTANTS
  Thread = {t0, t1}
  t0 = t0
  t1 = t1
  Initial = t0
  None = None
  MaxRequests = 3
SPECIFICATION Spec
INVARIANTS
  FibreNotUsedAfterFree
\* Every thread leaves in the end.
CHECK_DEADLOCK FALSE
