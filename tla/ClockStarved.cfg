CONSTANTS
  Client = {f1}
  Owner = owner
  Delay = {1, 2}
  Poll = 2
  MaxSleeps = 3
  LastStart = 2
  MaxTime = 4
  Quitter = {}
  f1 = f1
SPECIFICATION Spec
INVARIANT NobodyStarves
CHECK_DEADLOCK FALSE
