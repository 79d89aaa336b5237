SPECIFICATION Spec
CONSTANTS
  t1 = t1
  t2 = t2
  p1 = p1
  p2 = p2
  futex = futex
  exit = exit
  Threads = {t1, t2}
  Tgids = {p1}
  Tgid <- SharedTgid
  Target = {p1}
  Movable = {}
  Sysnos = {futex, exit}
  NoReturn = {exit}
  RingCap = 3
  MaxClock = 8
  AttachBy = 2
  None = None
INVARIANTS
  TypeOK
  TimeNeverOverstated
  PendingIsInFlight
  WallClockBound
SYMMETRY AnyThread
CHECK_DEADLOCK FALSE
