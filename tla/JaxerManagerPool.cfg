\* Every command that stops workers, a preference, commands of pages, workers
\* that die, fail to start or end at maxrequests.
SPECIFICATION Spec
CONSTANTS
  Servers = {s1, s2}
  Connections = {c1, c2}
  NoConnection = NoConnection
  MinServers = 1
  MaxServers = 2
  MaxRequests = 1
  RequestTimeout = 0
  ExtraTimeout = 0
  StartTimeout = 2
  PingTimeout = 0
  IdleBase = 1
  IdleFactor = 0
  SecondsToLive = 1
  StartDelay = 1
  CountWord = 8
  Commands <- PoolCommands
  MaxPrefs = 1
  MaxCommands = 1
  MaxCrashes = 1
SYMMETRY Symmetry
INVARIANTS
  TypeOK
  Sessions
  ConnectionPlacement
  IdleSound
  ExitIsFinal
PROPERTIES
  ImplementsBroker
  ToldBeforeWork
CHECK_DEADLOCK FALSE
