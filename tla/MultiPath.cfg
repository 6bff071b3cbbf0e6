SPECIFICATION FairSpec
CONSTANTS
  Handler = {h1, h2}
  Slot = {s1, s2}
  SessionId <- MCSessionId
  ServerOf <- MCServerOf
  None = None
  NServers = 2
  FailLimit = 1
  OwnHandshake = FALSE
  LinkState = {"ok", "refusing", "silent"}
INVARIANTS
  NoOrphanSession
  BlameIsAccurate
PROPERTIES
  AllDownMeansAllFailed
  ImplementsSharedSession
  EveryClientResolved
  FailoverReconnects
  FailoverPassesSilent
