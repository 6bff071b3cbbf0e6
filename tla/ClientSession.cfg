SPECIFICATION FairSpec
CONSTANTS
  Handler = {h1, h2}
  SessionId = {s1, s2, s3}
  None = None
  Transports = {"kcp", "tls", "ws", "wss", "raw"}
  Hello <- MCHello
  FragSizes = {0, 2, 4}
INVARIANTS
  NoNilSession
  DialLeavesNothing
  HelloIntact
PROPERTIES
  ImplementsSharedSession
  EveryClientResolved
  Reconnects
