\* One stop, one failed query, one handler that throws; the chain is not
\* reorganised.
SPECIFICATION FeedSpecification
CONSTANTS
  MaxReorgDepth = 2
  BlockPageSize = 2
  BlockSingleQueryRetryCount = 0
  MaxLogsPerQuery = 6
  FallibleEvents <- MCFallible
  LogSets <- MCLogSets
  Malformed <- MCMalformed
  ServesUncled = TRUE
  StartHeight = 4
  MaxHeight = 5
  MaxReorgs = 0
  MaxFailures = 1
  MaxStops = 1
  MaxThrows = 1
INVARIANTS
  NothingElseLost
  NeverBackwards
PROPERTIES
  RepeatsOnlyLastBlock
CHECK_DEADLOCK FALSE
