SPECIFICATION Spec
CONSTANTS
  g0 = g0
  g1 = g1
  k0 = k0
  k1 = k1
  t1 = t1
  Gid = {g0, g1}
  Id = {1, 2}
  threshold <- MCThreshold
  Message <- MCMessage
  NoMessage = NoMessage
  MaxSequence = 2
  Transaction = {t1}
  Key = {k0, k1}
  NoKey = NoKey
  Genesis = g0
  NoGroup = NoGroup
  NoSid = NoSid
  MaxEpoch = 2
  MaxBlock = 3
INVARIANTS
  TypeOK
  ChainOfHandovers
  AttestationsAreGenuine
PROPERTIES
  ImplementsEpochChain
CHECK_DEADLOCK FALSE
