SPECIFICATION FairSpec
CONSTANTS
  container = container
  notifier = notifier
  w1 = w1
  w2 = w2
  Senders = {notifier}
  Size <- OneSize
  Workers = {w1, w2}
  MaxQueueSize = 2
  FewMessages = 1
  InitBufferSize = 2
  MaxBufferSize = 3
  BufferSizes = {1,4}
  MaxMessages = 3
  WriteMayThrow = TRUE
PROPERTIES
  ImplementsChannel
  WedgedOnlyByThrow
  FullQueueCloses
  PeerGoneCloses
  WorkersReaped
CHECK_DEADLOCK FALSE
