CONSTANTS
  Thread = {t1, t2}
  Allocator = {a1, a2, a3}
  t1 = t1
  t2 = t2
  s1 = s1
  s2 = s2
  s3 = s3
  s4 = s4
  Slot = {s1, s2, s3, s4}
  Owner <- ThreeAndOne
  None = None
SPECIFICATION Spec
SYMMETRY Interchangeable
INVARIANTS
  TypeOK
  CountExact
  NoneDangling
  NothingOrphaned
\* Every allocator may have been made, and every handle dropped.
CHECK_DEADLOCK FALSE
