SPECIFICATION Spec
CONSTANTS
  Ids = {i1, i2}
  PVs = {p1, p2}
  NoPV = NoPV
  Writable = {p1}
  MaxEvents <- Events
  MaxCommands = 3
INVARIANTS TypeOK Released MappedIsRunning ListenersLearn FailsOnlyWhenGivenUp
SYMMETRY Symmetry
CHECK_DEADLOCK FALSE
