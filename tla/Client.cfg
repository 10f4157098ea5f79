SPECIFICATION FairSpec
CONSTANTS
  Params = {a, b}
  MaxPVs = 2
  MaxCalls = 2
  MaxUpdates = 1
  Users <- MCOneUser
  Habits = {}
INVARIANTS EveryPVTold CommandsFindPV
PROPERTIES ImplementsSubscriptions EveryPVCreated EventsReachPage
CHECK_DEADLOCK FALSE
