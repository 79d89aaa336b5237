SPECIFICATION Spec
CONSTANTS
  t1 = t1
  t2 = t2
  p1 = p1
  p2 = p2
  a = a
  b = b
  Threads = {t1, t2}
  Tgids = {p1}
  Movable = {}
  Paths = {a, b}
  Fds = {0, 1}
  Inherited = {}
  Lossy = FALSE
  PendingCap = 2
  RingCap = 4
  MaxCalls = 4
  Unknown = Unknown
  None = None
INVARIANTS
  SafeForThreads
CHECK_DEADLOCK FALSE
