SPECIFICATION Spec
CONSTANTS
  h1 = h1
  h2 = h2
  h3 = h3
  f = f
  Validator = {h1, h2, h3, f}
  Honest = {h1, h2, h3}
  KeyGenTimeout = 1
  BlocksPerEpoch = 5
  MaxBlock = 5
  MaxFaults = 2
CONSTRAINT Explored
SYMMETRY Symmetry
INVARIANTS
  TypeOK
  FinalizedGroupCanSign
  EveryEpochIsTried

  
CHECK_DEADLOCK FALSE
