CONSTANTS
  Rows = 3
  MaxItems = 8
  Wallets = 5
  Capacity = 1
  MaxEvents = 3
  MaxRuns = 2
  MaxQuotes = 2
  MaxTransfers = 2
  MaxTracks = 2
  MaxErrors = 1
SPECIFICATION ScreensSpec
CHECK_DEADLOCK FALSE
INVARIANT CursorInViewport
INVARIANT WalletUnderCursor
INVARIANT RunningIsTrue
INVARIANT PhasesInOrder
INVARIANT PollsUntilItsOwnEnd
PROPERTY RunningEnds
PROPERTY AllPhasesShown
PROPERTY FinalIsShown
PROPERTY LeavingStopsPolling
