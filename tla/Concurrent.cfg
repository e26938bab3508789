CONSTANTS
  Thread = {t1, t2}
  Fibre = {f1, f2, f3}
  Endpoint = {e1, e2, e3}
  Process = {1, 2}
  t1 = t1
  t2 = t2
  f1 = f1
  f2 = f2
  f3 = f3
  e1 = e1
  e2 = e2
  e3 = e3
  None = None
  Word = {0, 1}
  Home <- TwoProcesses
  FirstEpref <- Programs
  Quitter = {f1, f2, f3}
  MaxReferences = 3
SPECIFICATION Spec
INVARIANTS
  TypeOK
  MutualExclusion
  FibreInOnePlace
  RefcntAccounting
  EndpointKept
PROPERTIES
  DeletedWhenOthersWait
  ImplementsRendezvous
\* Every fibre may be suspended, or gone; and a behaviour stops at an error.
CHECK_DEADLOCK FALSE
