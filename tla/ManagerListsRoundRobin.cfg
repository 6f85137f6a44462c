\* With roundrobinjaxers off, removing the first idle server takes the last
\* off the list instead.
SPECIFICATION Spec
CONSTANTS
  Servers = {s1, s2}
  NoServer = NoServer
  RoundRobin = FALSE
  MaxSlots = 3
  MaxMessages = 3
  MaxPrefs = 1
INVARIANTS
  RemovedFromIdleList
