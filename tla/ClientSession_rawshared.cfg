SPECIFICATION Spec
CONSTANTS
  Handler = {h1, h2}
  SessionId = {s1, s2, s3}
  None = None
  Transports = {"raw"}
  Hello <- MCHello
  FragSizes = {0}
INVARIANTS
  OneConnection
