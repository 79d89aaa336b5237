SPECIFICATION Spec
CONSTANTS
  a1 = a1
  a2 = a2
  a3 = a3
  tgt = tgt
  other = other
  Addrs = {a1, a2, a3}
  Tgids = {tgt, other}
  Target = {tgt}
  Movable = {tgt}
  SoftirqTasks = {tgt, other}
  Ports = {1, 2}
  Peers = {"peer"}
  States = {"SYN_SENT", "ESTABLISHED"}
  TrackedCap = 2
  RingCap = 2
  MaxFires = 4
  TCP_CLOSE = "CLOSE"
  None = None
INVARIANTS
  TypeOK
  OnlyOwnSockets
  TableMatchesSockets
SYMMETRY AnyAddr
CHECK_DEADLOCK FALSE
