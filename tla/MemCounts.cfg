SPECIFICATION Spec
CONSTANTS
  tgt = tgt
  other = other
  Tgids = {tgt, other}
  Target = {tgt}
  Sizes = {8, 16}
  Initial = 1
  Extra = 2
  RingCap = 2
  MaxCalls = 6
INVARIANTS
  TypeOK
  NeverOverstated
  CountsAreExact
CHECK_DEADLOCK FALSE
