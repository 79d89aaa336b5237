SPECIFICATION Spec
CONSTANTS
  t1 = t1
  t2 = t2
  p1 = p1
  p2 = p2
  a = a
  b = b
  Threads = {t1, t2}
  Tgids = {p1, p2}
  Movable = {p1, p2}
  Paths = {a, b}
  Fds = {0, 1}
  Inherited = {0}
  Lossy = TRUE
  PendingCap = 1
  RingCap = 1
  MaxCalls = 3
  Unknown = Unknown
  None = None
INVARIANTS
  TypeOK
  PanelMatchesTruth
  EmitsOwnCall
  NoStaleStash
  VolumeNeverOverstated
SYMMETRY Alike
CHECK_DEADLOCK FALSE
