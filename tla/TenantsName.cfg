SPECIFICATION MCSpec
CONSTANTS
  Tenants = {t1, t2}
  Slugs = {s1}
  Names = {n1, n2}
  Emails = {e1}
  Handlers = {h1, h2}
  Checker = Checker
  MaxDay = 3
  Period = 2
  Window = 1
  MaxCalls = 4
  Requesters = {h1, h2}
  Absent = Absent
  MaxAuths = 2
  MaxRequests = 4
  Nobody = Nobody
  Devices = {d1}
  Checks = {c1, c2}
  PosTTL = 2
  NegTTL = 1
  MaxClock = 4
  MaxChanges = 2
  MaxRestarts = 1
  None = None
  Archived = {x1, x2}
  Labels = {n1, n2}
  Movers = {h1, h2}
  Blank = Blank
  MaxRows = 3
  MaxFaults = 1
SYMMETRY Symmetric
INVARIANTS NamesNeverClash
CHECK_DEADLOCK FALSE
