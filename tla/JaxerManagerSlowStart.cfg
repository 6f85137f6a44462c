\* A reload while a worker is starting and takes longer than SecondsToLive.
SPECIFICATION FairSpec
CONSTANTS
  Servers = {s1, s2}
  Connections = {c1}
  NoConnection = NoConnection
  MinServers = 1
  MaxServers = 1
  MaxRequests = 0
  RequestTimeout = 0
  ExtraTimeout = 0
  StartTimeout = 0
  PingTimeout = 0
  IdleBase = 1
  IdleFactor = 0
  SecondsToLive = 1
  StartDelay = 1
  CountWord = 8
  Commands = {"reload"}
  MaxPrefs = 0
  MaxCommands = 1
  MaxCrashes = 0
PROPERTIES
  ReloadEnds
CHECK_DEADLOCK FALSE
