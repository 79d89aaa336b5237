SPECIFICATION Spec
CONSTANTS
  i1 = i1
  i2 = i2
  i3 = i3
  Modes = {"pid", "container", "pod"}
  Ids = {i1, i2, i3}
  MaxRuns = 2
  None = None
INVARIANTS
  TypeOK
  TracesOnlyTarget
  AllOrNothing
  ReadsWhatItTraces
  StayersCounted
  UnavailableMeansGone
SYMMETRY AnyId
CHECK_DEADLOCK FALSE
