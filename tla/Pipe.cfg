SPECIFICATION FairSpec
CONSTANTS
  MaxChunks = 2
  Window = 1
CHECK_DEADLOCK FALSE
INVARIANTS
  EndsForAReason
  ReturnsClean
PROPERTIES
  ClosingFrees
  EndPropagates
