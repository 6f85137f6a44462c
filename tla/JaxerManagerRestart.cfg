\* A restart while a worker has a message to read.
SPECIFICATION Spec
CONSTANTS
  Servers = {s1, s2}
  Connections = {c1}
  NoConnection = NoConnection
  MinServers = 1
  MaxServers = 1
  MaxRequests = 0
  RequestTimeout = 0
  ExtraTimeout = 0
  StartTimeout = 0
  PingTimeout = 0
  IdleBase = 1
  IdleFactor = 0
  SecondsToLive = 1
  StartDelay = 1
  CountWord = 8
  Commands = {"restart", "setpref"}
  MaxPrefs = 1
  MaxCommands = 2
  MaxCrashes = 0
INVARIANTS
  CallbacksArmed
CHECK_DEADLOCK FALSE
