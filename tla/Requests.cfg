SPECIFICATION MCFairSpec
CONSTANTS
  Workers = {w1, w2}
  MaxDeletes = 2
  MaxCrashes = 1
  MaxMinioFaults = 1
  None = None
  Tokens = {t1, t2}
  Devices = {d1, d2}
  Groups = {g1}
  Requests = {r1, r2}
  MaxLimit = 1
  MaxDeletions = 1
  MaxRestarts = 1
  Null = Null
  Intervals = {1, 2}
  MaxClock = 6
  MaxCuts = 2
  Never = Never
INVARIANTS RowFileExists LimitKept
PROPERTIES KeepsPreviousFile LockIsFreed FilesJoin EveryRequestAnswered
CHECK_DEADLOCK FALSE
