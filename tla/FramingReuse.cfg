SPECIFICATION Spec
CHECK_DEADLOCK FALSE
CONSTANTS
  Fds = {4}
  BodyLengths <- LongNoneShort
  MaxGeneration = 2
INVARIANT BufferOfClient
