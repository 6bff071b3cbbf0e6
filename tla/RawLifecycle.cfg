SPECIFICATION Spec
CONSTANTS
  NRules = 3
  MaxFaults = 2
INVARIANTS
  RunsConfigured
  RunsProtected
  NoDuplicates
  CleanExitLeavesNothing
