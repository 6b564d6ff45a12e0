SPECIFICATION FairSpec
CONSTANTS
  s1 = s1
  s2 = s2
  v1 = v1
  Staker = {s1, s2}
  Validator = {v1}
  Amount = {1, 2}
  ConfigTimeDelay = 2
  InitialDelay = 2
  MaxTime = 6
  MaxWithdrawals = 3
  MaxBalance = 3
  ProposalTimes = {0, 2}
INVARIANTS
  TypeOK
  QueueIsLinked
  TotalsAgree
  Solvent
PROPERTIES
  ImplementsWithdrawalBook
  WithdrawalsArePaid
CHECK_DEADLOCK FALSE
