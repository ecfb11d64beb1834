SPECIFICATION WindowSpec
CONSTANTS
  Dirs = {d1}
  Items = {i1, i2}
  MaxEdits = 2
  MaxRuns = 0
  MaxOpens = 0
  MaxCrashes = 0
INVARIANT SkipSurvivesRebuild
CHECK_DEADLOCK FALSE
