\* A worker on the last request maxrequests allows.
SPECIFICATION Spec
CONSTANTS
  Servers = {s1, s2}
  Connections = {c1}
  NoConnection = NoConnection
  MinServers = 1
  MaxServers = 1
  MaxRequests = 1
  RequestTimeout = 0
  ExtraTimeout = 0
  StartTimeout = 0
  PingTimeout = 0
  IdleBase = 1
  IdleFactor = 0
  SecondsToLive = 1
  StartDelay = 1
  CountWord = 8
  Commands = {}
  MaxPrefs = 0
  MaxCommands = 0
  MaxCrashes = 0
PROPERTIES
  SlaughterOnlyTheTold
CHECK_DEADLOCK FALSE
