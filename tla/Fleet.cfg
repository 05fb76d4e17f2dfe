SPECIFICATION MCSpec
CONSTANTS
  MaxReports = 3
  MaxCuts = 1
  MaxClicks = 3
  MaxFaults = 1
  Devices = {"simulator", "c"}
  Versions = {v1, v2}
  MaxCalls = 2
  MaxQueue = 2
  MaxThreads = 2
  MaxDialogClicks = 1
  MaxOtaFaults = 1
SYMMETRY Symmetric
INVARIANTS StoresFollowTheSession FlagHasLoop LedgerIsTrue
PROPERTY VersionHasItsFile
CHECK_DEADLOCK FALSE
