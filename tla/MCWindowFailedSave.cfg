SPECIFICATION MCSpec
CONSTANTS
  Setting = {"edition", "output"}
  Value = {0, 1, 2}
  Default = 0
  AutoImport = TRUE
  MaxEdits = 2
  MaxUndos = 0
  MaxExternal = 0
  MaxFaults = 1
  MaxUndoFaults = 0
  MaxBeside = 1
  MaxMisfortune = 1
  MaxCrashes = 0
  Directory = {"p1", "p2"}
  NoDirectory = "none"
  Source = {"s1", "s2"}
  NoSource = "none"
  UpdateFiles = 1
  MaxRequests = 0
  MaxOpenings = 0
  MaxTroubles = 0
PROPERTY LaterEditsRemain
CHECK_DEADLOCK FALSE
