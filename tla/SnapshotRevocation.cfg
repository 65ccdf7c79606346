\* One verifier with all mechanisms, which restarts, as does a service whose clock is
\* ahead, and a source that may hand it any old snapshot.
CONSTANTS
  root = root
  leaf = leaf
  shared = shared
  Id = {root, leaf}
  Chain <- MCChain
  Thread = {t1}
  Checker = {shared}
  CheckerOf <- OneChecker
  Mechanisms <- AllMechanisms
  Registries <- MCRegistries
  Ttl = 1
  MaxStaleness = 0
  Ahead = 1
  Faults = {"checker_restart", "service_restart"}
  LastRevocation = 0
  MaxTime = 2
SPECIFICATION MCSpec
INVARIANTS
  TypeOK
  RejectsRolledBack
  AcceptedWasRecentlyLive
  RevokedSticks
  NothingMasks
PROPERTY RevocationTakesEffect
