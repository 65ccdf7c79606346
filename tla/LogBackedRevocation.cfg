\* A map of four keys, three of which are revoked, and a service that restarts once.
CONSTANTS
  DEPTH = 2
  Revocable = {0, 1, 3}
  Queried = {1, 2}
  MaxCheckpoints = 2
  MaxProofs = 2
  MaxRestarts = 1
SPECIFICATION Spec
INVARIANTS
  RootIsWholeTree
  ServedProofsAreExact
  MapProofsSound
  OnlyLoggedRoots
  LiveOnlyBeforeRevoked
CHECK_DEADLOCK FALSE
