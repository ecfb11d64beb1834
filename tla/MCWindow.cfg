SPECIFICATION MCSpec
CONSTANTS
  Setting = {"edition", "output"}
  Value = {0, 1, 2}
  Default = 0
  AutoImport = TRUE
  MaxEdits = 2
  MaxUndos = 2
  MaxExternal = 1
  MaxFaults = 1
  MaxUndoFaults = 1
  MaxBeside = 1
  MaxMisfortune = 2
  MaxCrashes = 1
  Directory = {"p1", "p2"}
  NoDirectory = "none"
  Source = {"s1", "s2"}
  NoSource = "none"
  UpdateFiles = 1
  MaxRequests = 3
  MaxOpenings = 1
  MaxTroubles = 1
INVARIANTS
  QuietIsPersisted
  EditsAreAccounted
  HistoryExplainsProject
  IntakeIsSound
PROPERTY EverythingSettles
CHECK_DEADLOCK FALSE
