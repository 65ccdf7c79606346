\* Does a client that takes heads in consistent order ever see a revocation taken back?
CONSTANTS
  DEPTH = 2
  Revocable = {0, 1, 3}
  Queried = {1, 2}
  MaxCheckpoints = 2
  MaxProofs = 2
  MaxRestarts = 1
SPECIFICATION Spec
INVARIANTS
  NoRollback
CHECK_DEADLOCK FALSE
