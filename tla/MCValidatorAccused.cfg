SPECIFICATION Spec
CONSTANTS
  h1 = h1
  h2 = h2
  h3 = h3
  f = f
  Validator = {h1, h2, h3, f}
  Honest = {h1, h2, h3}
  KeyGenTimeout = 1
  BlocksPerEpoch = 4
  MaxBlock = 2
  MaxFaults = 1
SYMMETRY Symmetry
INVARIANTS
  AccusedResponds
CHECK_DEADLOCK FALSE
