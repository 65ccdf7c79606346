\* Are the proofs of the map compact?
CONSTANTS
  DEPTH = 2
  Revocable = {0, 1, 3}
  Queried = {1, 2}
  MaxCheckpoints = 2
  MaxProofs = 2
  MaxRestarts = 1
SPECIFICATION Spec
INVARIANTS
  DefaultsElided
CHECK_DEADLOCK FALSE
