SPECIFICATION Spec
CONSTANTS
  container = container
  notifier = notifier
  w1 = w1
  w2 = w2
  Senders = {container, notifier}
  Size <- SameSize
  Workers = {w1, w2}
  MaxQueueSize = 2
  FewMessages = 1
  InitBufferSize = 3
  MaxBufferSize = 3
  BufferSizes = {}
  MaxMessages = 2
  WriteMayThrow = FALSE
INVARIANTS
  TypeOK
  NoDuplicate
  NothingLost
  NeverWedged
CHECK_DEADLOCK FALSE
SYMMETRY Symmetry
