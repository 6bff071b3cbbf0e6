SPECIFICATION FairSpec
CONSTANTS
  LenSpace = 4
  MinPadding = 1
  MaxPadding = 3
  MaxWrite = 3
  ReadSizes = {1, 2}
  Transports = {"stream", "ws"}
  MaxBytes = 4
CHECK_DEADLOCK FALSE
INVARIANTS
  StreamPreserved
  WholeFrames
  NothingLost
PROPERTIES
  EveryByteRead
