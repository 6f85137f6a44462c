\* One request, to a Jaxer of version 3.
SPECIFICATION FairSpec
CONSTANTS
  Sockets = {s1, s2}
  NoSocket = NoSocket
  Workers = {w1, w2}
  OldWorkers = {w1, w2}
  Kinds = {"get"}
  MaxRequests = 1
  MaxBlocks = 1
  MaxCrashes = 0
PROPERTIES
  OlderVersionServes
CHECK_DEADLOCK FALSE
