SPECIFICATION MCSpec
CONSTANTS
  Names = {"a", "b"}
  Profiles <- SmallProfiles
  Stream <- SmallStream
  MaxPendingOutput = 2
  MaxTranscript = 3
  MaxInput = 1
  MaxSessions = 1
  MaxCalls = 0
  MaxChanges = 0
  MaxTroubles = 0
  MaxStagings = 0
PROPERTY StartReturns
CHECK_DEADLOCK FALSE
