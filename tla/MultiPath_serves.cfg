SPECIFICATION FairSpec
CONSTANTS
  Handler = {h1, h2}
  Slot = {s1, s2}
  SessionId <- MCSessionId
  ServerOf <- MCServerOf
  None = None
  NServers = 1
  FailLimit = 3
  OwnHandshake = FALSE
  LinkState = {"ok", "refusing", "resetting"}
PROPERTIES
  FailoverServes
