CONSTANTS
  Thread = {t1}
  t1 = t1
  Programs <- OnlyEx01
  InputSize = 3
  Bound = 1
  Address = {a1, a2, a3, a4, a5}
  a1 = a1
  a2 = a2
  a3 = a3
  a4 = a4
  a5 = a5
  None = None
SPECIFICATION Spec
INVARIANTS
  ListOfSquares
\* The program stops when all is shown.
CHECK_DEADLOCK FALSE
