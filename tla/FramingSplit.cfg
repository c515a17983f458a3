SPECIFICATION Spec
CHECK_DEADLOCK FALSE
CONSTANTS
  Fds = {4}
  BodyLengths <- LongNone
  MaxGeneration = 1
INVARIANT ProcessedWhole
