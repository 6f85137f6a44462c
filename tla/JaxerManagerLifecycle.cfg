\* Stops, reloads, restarts, pings, pages that never end or ask for more time,
\* workers that die or do not start: what must happen in the end.
SPECIFICATION FairSpec
CONSTANTS
  Servers = {s1, s2}
  Connections = {c1}
  NoConnection = NoConnection
  MinServers = 1
  MaxServers = 2
  MaxRequests = 0
  RequestTimeout = 1
  ExtraTimeout = 1
  StartTimeout = 0
  PingTimeout = 0
  IdleBase = 1
  IdleFactor = 0
  SecondsToLive = 1
  StartDelay = 1
  CountWord = 8
  Commands <- StopCommands
  MaxPrefs = 0
  MaxCommands = 2
  MaxCrashes = 1
PROPERTIES
  WaitingServed
  BoundReleased
  ReloadEndsOnceStarted
  StopEndsOnceStarted
CHECK_DEADLOCK FALSE
