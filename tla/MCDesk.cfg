SPECIFICATION MCSpec
CONSTANTS
  Pages = {0, 1}
  MaxTabs = 3
  MaxEdits = 3
  MaxTroubles = 2
  Importer = {i1, i2}
  MaxSaves = 2
INVARIANTS
  StripIsSaved
  ExportIsAMoment
  ImportIsWhole
PROPERTY
  ActiveTabStays
CONSTRAINT TroublesAmongFewEdits
CHECK_DEADLOCK FALSE
