\* Three of four witnesses, one of which may restart at any time.
CONSTANTS
  a = a
  b = b
  w1 = w1
  w2 = w2
  w3 = w3
  w4 = w4
  Leaf = {a, b}
  Signed <- MCSigned
  Witnesses = {w1, w2, w3, w4}
  Volatile = {w4}
  Threshold = 3
SPECIFICATION Spec
SYMMETRY SteadyWitnesses
INVARIANTS
  TypeOK
  CosignedIsOneHistory
  QuorumsAgree
