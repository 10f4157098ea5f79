SPECIFICATION Spec
CONSTANTS
  PVs = {p1, p2}
  NoPV = NoPV
  MaxLogins = 3
  MaxCommands = 5
  MaxEvents = 2
INVARIANTS TypeOK FlagFollowsUser PermissionTold LoginsReleased
SYMMETRY Symmetry
CHECK_DEADLOCK FALSE
