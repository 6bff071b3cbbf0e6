SPECIFICATION FairSpec
CONSTANTS
  Password = {p1, p2}
  Token = {t1}
  Request = {r1, r2}
  Unit = {u1, u2}
  None = None
INVARIANTS
  ServesShownPassword
  LoadedIsSaved
PROPERTIES
  ResetRecovers
  OnlyLoggedIn
  UninstallLeavesNothing
