SPECIFICATION Spec
CONSTANTS
  container = container
  notifier = notifier
  w1 = w1
  w2 = w2
  Senders = {container, notifier}
  Size <- SameSize
  Workers = {w1, w2}
  MaxQueueSize = 2
  FewMessages = 2
  InitBufferSize = 3
  MaxBufferSize = 3
  BufferSizes = {}
  MaxMessages = 1
  WriteMayThrow = FALSE
INVARIANTS
  OrderedTransmission
CHECK_DEADLOCK FALSE
