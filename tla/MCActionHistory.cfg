SPECIFICATION MCSpec
CONSTANTS
  w1 = w1
  w2 = w2
  Window <- TwoWindows
  Lane <- TwoLanes
  Main = "main"
  NoLane = "no lane"
  Nobody = Nobody
  MaxCalls = 3
  MaxSaves = 1
  MaxReverts = 1
  MaxFaults = 2
  MaxCrashes = 1
INVARIANTS
  JournalIsWhole
  AlternatesInTurn
  LanesInTurn
  OlderActionsStayInTurn
CONSTRAINT FewAtOnce
SYMMETRY Symmetry
CHECK_DEADLOCK FALSE
