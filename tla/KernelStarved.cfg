CONSTANTS
  Fibre = {f1, f2}
  Channel = {c1}
  Endpoint = {e1}
  f1 = f1
  f2 = f2
  c1 = c1
  e1 = e1
  None = None
SPECIFICATION Spec
INVARIANTS
  ChannelsReclaimed
\* The scheduler stops when no fibre can run.
CHECK_DEADLOCK FALSE
