SPECIFICATION MCSpec
CONSTANTS
  Dirs = {d1, d2}
  Items = {i1}
  MaxEdits = 2
  MaxRuns = 2
  MaxOpens = 1
  MaxCrashes = 1
SYMMETRY DirSymmetry
INVARIANTS
  RecoveryStateIsCurrent
  RecoveryClosesOwnRun
  OrderIsKept
  StalePlanIsRefreshed
CHECK_DEADLOCK FALSE
