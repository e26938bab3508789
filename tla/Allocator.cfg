CONSTANTS
  Thread = {t1, t2}
  Bytes = {8, 12, 24}
  Requirements <- MCRequirements
  PointerSize = 8
  FreelistSize = 24
  t1 = t1
  t2 = t2
SPECIFICATION Spec
INVARIANTS
  TypeOK
  BlocksApart
  NothingLost
PROPERTIES
  ImplementsStore
