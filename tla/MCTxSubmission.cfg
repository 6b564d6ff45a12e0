\* Two actions, one sweep at a time.
SPECIFICATION Spec
CONSTANTS
  blocksBeforeResubmit = 1
  PageLimit = 2
  Sweep = {w1}
  MaxActions = 2
  MaxNonce = 6
  MaxFee = 2
  MaxAge = 2
  MaxFailures = 1
  MaxEvictions = 1
  MaxExpired = 1
  MaxStops = 1
  MaxOvertakes = 2
INVARIANTS
  TypeOK
  NoNonceGap
  InOrder
PROPERTY Drains
