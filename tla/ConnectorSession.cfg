\* Every kind of request, each followed by every other on the same connection.
SPECIFICATION FairSpec
CONSTANTS
  Sockets = {s1, s2, s3}
  NoSocket = NoSocket
  Workers = {w1, w2}
  OldWorkers = {w1}
  Kinds <- AllKinds
  MaxRequests = 2
  MaxBlocks = 2
  MaxCrashes = 1
INVARIANTS
  TypeOK
  RunsOnce
  OwnAnswer
  NeverConfused
  PooledClean
PROPERTIES
  NoFailureWithoutCause
  RequestEnds
CHECK_DEADLOCK FALSE
