SPECIFICATION Spec
CONSTANTS
  container = container
  notifier = notifier
  w1 = w1
  w2 = w2
  Senders = {notifier}
  Size <- OneSize
  Workers = {w1, w2}
  MaxQueueSize = 2
  FewMessages = 1
  InitBufferSize = 3
  MaxBufferSize = 3
  BufferSizes = {}
  MaxMessages = 4
  WriteMayThrow = FALSE
PROPERTIES
  CloseOnlyWhenFull
CHECK_DEADLOCK FALSE
