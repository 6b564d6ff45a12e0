\* Two blocks deep reorgs, restarts, failed queries and a page of two blocks.
SPECIFICATION Spec
CONSTANTS
  MaxReorgDepth = 2
  BlockPageSize = 2
  BlockSingleQueryRetryCount = 1
  MaxLogsPerQuery = 2
  FallibleEvents <- MCFallible
  LogSets <- MCLogSets
  Malformed <- MCMalformed
  ServesUncled = TRUE
  StartHeight = 4
  MaxHeight = 6
  MaxReorgs = 1
  MaxFailures = 1
  MaxStops = 1
INVARIANT TypeOK
PROPERTIES
  FeedSpec
  CatchesUp
CHECK_DEADLOCK FALSE
