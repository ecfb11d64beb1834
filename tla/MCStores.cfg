SPECIFICATION MCSpec
CONSTANTS
  Clients = {win, cli}
  window = win
  Ids = {n1, n2}
  Actions = {"delete", "restore"}
  MaxOps = 3
  MaxFaults = 1
  Required = {boot}
  MaxRuns = 2
  MaxChanges = 4
  MaxMishaps = 2
  Shell = {a, b}
  Command <- AllCommands
  MaxCalls = 3
INVARIANTS
  AcknowledgedStays
  CentreAgrees
  ValidationsSurvive
  ProjectIsKept
  AppliesAreSafe
PROPERTIES
  HistoryFollowsDisk
CONSTRAINT Bounded
SYMMETRY Symmetry
CHECK_DEADLOCK FALSE
