SPECIFICATION FairSpec
CONSTANTS
  Handler = {h1}
  Slot = {s1}
  SessionId <- MCSessionId
  ServerOf <- MCServerOf
  None = None
  NServers = 2
  FailLimit = 3
  OwnHandshake = FALSE
  LinkState = {"ok", "refusing", "resetting"}
PROPERTIES
  FailoverLeavesServer
