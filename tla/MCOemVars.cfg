CONSTANTS
  HourLength = 2
  Times <- MCTimes
SPECIFICATION Spec
PROPERTY AlwaysUnlocked
CHECK_DEADLOCK FALSE
