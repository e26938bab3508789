CONSTANTS
  Client = {f1, f2}
  Owner = owner
  Delay = {1, 2}
  Poll = 2
  MaxSleeps = 3
  LastStart = 1
  MaxTime = 3
  Quitter = {f2}
  f1 = f1
  f2 = f2
SPECIFICATION Spec
INVARIANTS
  TypeOK
  AsyncCountCounts
  InCareOfClock
  WakesInTime
PROPERTIES
  NeverEarly
  EveryWaitEnds
\* Clients that sleep when the clock is stopped are never woken.
CHECK_DEADLOCK FALSE
