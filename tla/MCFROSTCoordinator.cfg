SPECIFICATION MCSpec
CONSTANTS
  g1 = g1
  a1 = a1
  a2 = a2
  a3 = a3
  s1 = s1
  s2 = s2
  s3 = s3
  n1 = n1
  n2 = n2
  Gid = {g1}
  Address = {a1, a2, a3}
  Id = {1, 2, 3}
  leaves <- MCLeaves
  count <- MCCount
  threshold <- MCThreshold
  ChunkSize = 2
  MaxSequence = 2
  MaxChunk = 1
  Message = {m1}
  NoMessage = NoMessage
  NonceRoot = {n1, n2}
  SelectionRoot = {s1, s2, s3}
  NoRoot = NoRoot
  signersOf <- MCSignersOf
  matching <- MCMatching
CONSTRAINT MCBound
INVARIANTS
  TypeOK
PROPERTIES
  NoncesPrecommitted
  ImplementsSigningService
CHECK_DEADLOCK FALSE
