SPECIFICATION Spec
CONSTANTS
  a1 = a1
  a2 = a2
  a3 = a3
  tgt = tgt
  other = other
  Addrs = {a1}
  Tgids = {tgt, other}
  Target = {tgt}
  Movable = {}
  SoftirqTasks = {other}
  Ports = {1}
  Peers = {"peer"}
  States = {"SYN_SENT", "ESTABLISHED"}
  TrackedCap = 2
  RingCap = 1
  MaxFires = 4
  TCP_CLOSE = "CLOSE"
  None = None
INVARIANTS
  TracksTargetOnly
CHECK_DEADLOCK FALSE
