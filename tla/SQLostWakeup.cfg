SPECIFICATION FairSpec
CONSTANTS
  container = container
  notifier = notifier
  w1 = w1
  w2 = w2
  Senders = {notifier}
  Size <- OneSize
  Workers = {w1, w2}
  MaxQueueSize = 2
  FewMessages = 2
  InitBufferSize = 3
  MaxBufferSize = 3
  BufferSizes = {}
  MaxMessages = 2
  WriteMayThrow = FALSE
PROPERTIES
  Drains
CHECK_DEADLOCK FALSE
