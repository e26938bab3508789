CONSTANTS
  Thread = {t1, t2}
  t1 = t1
  t2 = t2
  Programs <- Examples
  InputSize = 4
  Bound = 2
  Address = {a1, a2, a3, a4, a5, a6}
  a1 = a1
  a2 = a2
  a3 = a3
  a4 = a4
  a5 = a5
  a6 = a6
  None = None
SPECIFICATION Spec
INVARIANTS
  TypeOK
  ShownInOrder
  OneOwner
  RunsAhead
PROPERTIES
  AllShown
\* The program stops when all is shown.
CHECK_DEADLOCK FALSE
