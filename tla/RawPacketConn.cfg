SPECIFICATION FairSpec
CONSTANTS
  Writers = {w1, w2}
  None = None
  Cap = 2
  SeqSpace = 8
  SeqStart = 6
  Lens = {2}
  MaxPackets = 3
  MaxWrites = 2
INVARIANTS
  InOrderOnce
PROPERTIES
  NoSeqOverlap
  CloseReleases
  LoopEndsWithCapture
  EveryWriteReturns
