SPECIFICATION Spec
CONSTANTS
  Modes = {"tui"}
  Programs <- ProgramList
  Rings <- RingList
  Feeds <- Writers
  RingCap = 1
  Refresh = 2
  Duration = 2
  MaxTime = 4
INVARIANTS
  TerminalAlwaysRestored
CHECK_DEADLOCK FALSE
