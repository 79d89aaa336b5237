SPECIFICATION Spec
CONSTANTS
  t1 = t1
  t2 = t2
  p1 = p1
  p2 = p2
  futex = futex
  exit = exit
  Threads = {t1, t2}
  Tgids = {p1, p2}
  Tgid <- SingleTgid
  Target = {p1, p2}
  Movable = {p1}
  Sysnos = {futex, exit}
  NoReturn = {exit}
  RingCap = 3
  MaxClock = 6
  AttachBy = 1
  None = None
INVARIANTS
  MeasuresOwnCall
  WallClockBound
PROPERTY
  LedgerSpec
CHECK_DEADLOCK FALSE
