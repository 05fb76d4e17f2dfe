SPECIFICATION ArchiveSpec
CONSTANTS
  Archived = {d1}
  Labels = {n1}
  Movers = {h1, h2}
  MaxRows = 1
  MaxFaults = 1
  Blank = Blank
INVARIANT NothingLost
CHECK_DEADLOCK FALSE
