SPECIFICATION Spec
CONSTANTS
  Params = {a, b}
  MaxPVs = 2
  MaxCalls = 3
  MaxUpdates = 1
  Users <- MCOneUser
  Habits = {"callback", "stale", "oneShot"}
INVARIANTS TypeOK Agreed NotSilenced OneChannelEach
CHECK_DEADLOCK FALSE
SYMMETRY Symmetry
