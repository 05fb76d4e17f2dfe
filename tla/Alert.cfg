SPECIFICATION MCFairSpec
CONSTANTS
  Rules = {r1}
  Devices = {d1, d2}
  None = None
  Group = Group
  MaxEnv = 4
  COOLDOWN = 2
  MaxNow = 5
  MaxFaults = 2
  NoNotice = NoNotice
  Values = {0, 1}
  d1 = d1
  d2 = d2
  Reporters = {d1, d2}
  Labels <- TwoNames
  Triggers <- AllRules
  Pace <- RulePace
  Horizon <- RuleHorizon
  Null = Null
INVARIANTS AtMostOneOpen MailedOnce CopyAgrees ConsecutiveIsNewestN AlertHasCulprit DurationMeansItsMinutes
PROPERTIES ImplementsBoard BoardSettles SilentDevicesGoOffline OneNoticePerOutage
