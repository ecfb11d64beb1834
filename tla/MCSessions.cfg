SPECIFICATION MCSpec
CONSTANTS
  Names = {"a", "b"}
  Profiles <- SmallProfiles
  Stream <- SmallStream
  MaxPendingOutput = 2
  MaxTranscript = 3
  MaxInput = 1
  MaxSessions = 2
  MaxCalls = 4
  MaxChanges = 2
  MaxTroubles = 2
  MaxStagings = 2
INVARIANT OutputIsFaithful
INVARIANT InstallsAreSafe
PROPERTY AskedEnds
CHECK_DEADLOCK FALSE
