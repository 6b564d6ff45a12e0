SPECIFICATION KeyGenSpec
CONSTANTS
  g1 = g1
  g2 = g2
  g3 = g3
  a1 = a1
  a2 = a2
  a3 = a3
  Gid = {g1, g2, g3}
  Address = {a1, a2, a3}
  Id = {1, 2, 3}
  leaves <- MCLeaves
  count <- MCCount
  threshold <- MCThreshold
INVARIANTS
  KeyGenTypeOK
  PendingCountsMissing
  CountersMatchDisputes
  FinalizedWithoutDispute
  CompromisedByQuorum
  MembersAreDistinct
  NeverStuck
PROPERTIES
  TerminalIsFrozen
CHECK_DEADLOCK FALSE
