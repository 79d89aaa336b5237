SPECIFICATION Spec
CONSTANTS
  i1 = i1
  i2 = i2
  i3 = i3
  Modes = {"pid"}
  Ids = {i1, i2, i3}
  MaxRuns = 0
  None = None
INVARIANT
  NoSilentNoOp
SYMMETRY AnyId
CHECK_DEADLOCK FALSE
