SPECIFICATION WindowSpec
CONSTANTS
  Dirs = {d1}
  Items = {}
  MaxEdits = 0
  MaxRuns = 2
  MaxOpens = 0
  MaxCrashes = 1
INVARIANT RunsKeepClearOfUnmount
CHECK_DEADLOCK FALSE
