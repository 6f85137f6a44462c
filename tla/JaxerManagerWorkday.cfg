\* Nobody stops the manager: it is paused and resumed, workers die, fail to start
\* and are purged while others are on their way out (in the code too an idle
\* worker may be purged before the time to live of another ends).
SPECIFICATION Spec
CONSTANTS
  Servers = {s1, s2}
  Connections = {c1, c2}
  NoConnection = NoConnection
  MinServers = 1
  MaxServers = 2
  MaxRequests = 0
  RequestTimeout = 0
  ExtraTimeout = 0
  StartTimeout = 0
  PingTimeout = 0
  IdleBase = 1
  IdleFactor = 0
  SecondsToLive = 2
  StartDelay = 1
  CountWord = 8
  Commands <- DayCommands
  MaxPrefs = 0
  MaxCommands = 2
  MaxCrashes = 1
SYMMETRY Symmetry
INVARIANTS
  CountExact
  PoolBounded
  CallbacksArmed
  BeliefSound
  WorkConserving
PROPERTIES
  PurgeKeepsMinimum
