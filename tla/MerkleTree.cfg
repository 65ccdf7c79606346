\* All logs of at most eight receipts over two values, read in any order between appends.
CONSTANTS
  a = a
  b = b
  Leaf = {a, b}
  MaxLeaves = 8
SPECIFICATION Spec
INVARIANTS
  CacheNeverStale
  RootIsReference
  InclusionProvesMembership
  ConsistencyProvesPrefix
  MangledProofsFail
