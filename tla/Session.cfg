SPECIFICATION FairSpec
CONSTANTS
  Modes = {"tui", "stream", "window"}
  Programs <- ProgramList
  Rings <- RingList
  Feeds <- Writers
  RingCap = 1
  Refresh = 2
  Duration = 2
  MaxTime = 5
INVARIANTS
  TypeOK
  TerminalRestored
  OneFinalSummary
  SummaryIsFresh
  RefreshRate
PROPERTIES
  SignalEnds
  WindowEnds
CHECK_DEADLOCK FALSE
