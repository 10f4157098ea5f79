SPECIFICATION FairSpec
CONSTANTS
  Ids = {i1}
  PVs = {p1, p2}
  NoPV = NoPV
  Writable = {p1}
  MaxEvents <- OneEvent
  MaxCommands = 3
PROPERTIES
  CommandsEnd
  CloseEnds
CHECK_DEADLOCK FALSE
