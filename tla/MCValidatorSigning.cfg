SPECIFICATION MCSpec
CONSTANTS
  h1 = h1
  h2 = h2
  f = f
  Validator = {h1, h2, f}
  Honest = {h1, h2}
  Successors = {h1, h2, f}
  storageOf <- MCStorageOf
  Transaction = {t}
  Rollover = {r}
  Nobody = Nobody
  SigningTimeout = 1
  NonceThreshold = 2
  ChunkSize = 1
  MaxSequence = 2
  MaxChunk = 2
  MaxMessages = 1
  MaxStrays = 1
  NoMessage = NoMessage
  NoRoot = NoRoot
INVARIANTS
  TypeOK
  NonceUsedOnce
  RevealIsAccepted
PROPERTIES
  Settles
  QuorumSigns
