SPECIFICATION MCSpec
CONSTANTS
  NOp = 3
  Plans <- AllPlans
  Requests = {0, 2, 17}
  MaxRuns = 2
  JournalFaults = TRUE
INVARIANTS
  PrerequisitesFirst
  OneImageWriter
  LiveChildIsJournaled
  SucceededJournalIsComplete
  SchedulerIsWoken
  GraphCheckCorrect
PROPERTIES
  TerminalIsFinal
  LaunchIsAllowed
  RunEnds
  CancelEnds
  ImplementsRun
