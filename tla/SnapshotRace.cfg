\* Two threads share a checker: does it still reject what is older than it has seen?
CONSTANTS
  root = root
  leaf = leaf
  shared = shared
  Id = {root, leaf}
  Chain <- MCChain
  Thread = {t1, t2}
  Checker = {shared}
  CheckerOf <- OneChecker
  Mechanisms <- SnapshotsOnly
  Registries <- NoRegistry
  Ttl = 0
  MaxStaleness = 1
  Ahead = 0
  Faults = {}
  LastRevocation = 1
  MaxTime = 1
SPECIFICATION Spec
INVARIANT RejectsRolledBack
