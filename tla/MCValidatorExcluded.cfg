SPECIFICATION Spec
CONSTANTS
  h1 = h1
  h2 = h2
  h3 = h3
  f = f
  Validator = {h1, h2, h3, f}
  Honest = {h1, h2, h3}
  KeyGenTimeout = 1
  BlocksPerEpoch = 5
  MaxBlock = 4
  MaxFaults = 0
SYMMETRY Symmetry
INVARIANTS
  RolloverAgreement
CHECK_DEADLOCK FALSE
