SPECIFICATION FairSpec
CHECK_DEADLOCK FALSE
CONSTANTS
  Fds = {4, 5}
  BodyLengths <- ShortNone
  MaxGeneration = 2
INVARIANTS
  TypeOK
  StreamConserved
  UndisturbedAreWhole
PROPERTY SentAreProcessed
