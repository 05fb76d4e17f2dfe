SPECIFICATION ScheduleSpec
CONSTANTS
  Intervals = {1, 2}
  MaxClock = 4
  MaxCuts = 0
  Never = Never
PROPERTY NoGap
CHECK_DEADLOCK FALSE
