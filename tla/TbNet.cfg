CONSTANTS
  Retries = 1
  Frames = 1
  PeerPaths = {8}
  Budgets <- MCBudgets
SPECIFICATION FairSpec
INVARIANTS
  PathBalanced
  StateConverges
  WorksQuiet
PROPERTIES
  LoginLeadsToPath
CHECK_DEADLOCK FALSE
