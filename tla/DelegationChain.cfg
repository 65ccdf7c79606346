\* Four blocks, by an honest and a dishonest party, put into any order.
CONSTANTS
  alice = alice
  mallory = mallory
  notary = notary
  shill = shill
  travel = travel
  food = food
  Key = {alice, mallory}
  Principal = {alice, mallory}
  Purpose = {"", "trip"}
  Blank = ""
  Action = {"charge", "refund"}
  Resource = {travel, food}
  Currency = {"USD", "EUR"}
  MaxAmount = 3
  RootKey = alice
  Honest = {alice}
  Scopes <- MCScopes
  Forgeries <- MCForgeries
  MaxBlocks = 4
  Notary = {notary, shill}
  Params = {"booking"}
  Digests <- MCDigests
  Nonce = {1, 2}
  KeyForm <- MCKeyForm
  HonestSecret = {"a1", "a2", "n1", "n2"}
  Broken = {"Ed25519"}
  HonestAttester = {alice, notary}
  Claims <- MCClaims
  Policies <- MCPolicies
  Required = {1, 2}
  Cases <- MCCases
  MaxDone = 1
  MaxLog = 2
  MaxAttested = 1
  MaxCheckpoints = 3
  MaxBundle = 2
SPECIFICATION MCSpec
INVARIANTS
  ComposedTypeOK
  AuthorityNarrows
  HopsWithinDepth
  HonestHopsAreGenuine
  AttenuatedVerifies
  AcceptedWasDone
  BundleWasDone
  AcceptedWasLive
  AcceptedServesPurpose
  HonestActionVerifies
\* With MaxBlocks blocks that verify refuses, nothing is left to do.
CHECK_DEADLOCK FALSE
