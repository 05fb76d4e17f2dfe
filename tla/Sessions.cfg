SPECIFICATION MCSpec
CONSTANTS
  Users = {u1, u2}
  Requests = {r1, r2}
  TTL = 1
  MaxPw = 2
  MaxLinks = 2
  None = None
  Scenes <- FewScenes
  Callers = {c1, c2}
  MaxPairs = 3
  MaxCalls = 3
  MaxRestarts = 1
SYMMETRY Symmetric
INVARIANTS StaleHasCause AdminRemains SecondFactorUsable SpentIsSpent RaiseEndsSessions
PROPERTIES AcceptedIsRecent
CHECK_DEADLOCK FALSE
