CONSTANTS
  Families = {"EVM", "TRX", "SOL"}
  MaxRuns = 2
  MaxRivals = 1
  ApproveAmounts = {0}
  MaxErrors = 1
  Humans <- MCHumans
  Places = {1, 2}
  Fees = {0, 1, 3}
  Processes = {p1, p2, p3}
  Setters = {p1}
  Keys = {"url", "network"}
  Values = {"default", "other", "blank"}
  Blank = "blank"
  OmitEmpty = {"network"}
  Defaults <- MCDefaults
  MaxCommands = 4
  MaxLines = 3
  p1 = p1
  p2 = p2
  p3 = p3
SPECIFICATION CliSpec
CHECK_DEADLOCK FALSE
CONSTANT WithMisfits = FALSE
INVARIANT ApprovalMinedFirst
INVARIANT FailedBeforeBroadcastSentNothing
INVARIANT AtMostOneBridge
INVARIANT NonceRefusalNeedsRival
INVARIANT EventsTellTheRun
INVARIANT NothingSentUnasked
INVARIANT LackHasACause
INVARIANT WatchSeesTheEnd
INVARIANT EitherSideMayFail
INVARIANT TypedIsAsked
INVARIANT SettingsKept
INVARIANT OneSnapshot
INVARIANT RequestsFit
INVARIANT PipelineHonest
PROPERTY KeepsPromise
PROPERTY RunsReturn
PROPERTY CoreKeepsPromise
PROPERTY WatchEnds
PROPERTY QuoteReturns
