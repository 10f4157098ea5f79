SPECIFICATION Spec
CONSTANTS
  Values <- MCValues
  MaxBatch = 2
  MaxValues = 4
INVARIANTS TypeOK InStep NeverGarbled
PROPERTIES ShowsWhole
CHECK_DEADLOCK FALSE
