SPECIFICATION FairSpec
CONSTANTS
  Conn = {c1, c2}
  Stream = {x1, x2}
  Cap = 1
  None = None
  Transports = {"kcp", "ws"}
CHECK_DEADLOCK FALSE
INVARIANTS
  NoneStranded
PROPERTIES
  EveryConnectionServed
  SessionEndReleases
  StreamsAreIndependent
