CONSTANTS
  Fibre = {f1, f2, f3}
  Channel = {c1, c2}
  Endpoint = {e1, e2, e3}
  f1 = f1
  f2 = f2
  f3 = f3
  c1 = c1
  c2 = c2
  e1 = e1
  e2 = e2
  e3 = e3
  None = None
SPECIFICATION Spec
SYMMETRY Symmetry
INVARIANTS
  TypeOK
  LastWhenOne
  FibreInOnePlace
  OnePolarity
  RefcntAccounting
  EndpointRefs
PROPERTIES
  UnwindTerminates
  ImplementsModel
\* The scheduler stops when no fibre can run.
CHECK_DEADLOCK FALSE
