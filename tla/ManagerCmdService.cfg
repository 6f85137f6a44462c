\* Two threads, commands with and without a response, a manager that may end.
SPECIFICATION FairSpec
CONSTANTS
  Callers = {t1, t2}
  Nobody = Nobody
  MaxCommands = 2
  MaxOthers = 1
  MaxParts = 2
  Habits <- Agreeing
INVARIANTS
  TypeOK
  OneCommand
  AnswersReachTheirCommand
  CalledWhenReady
  LockOrder
PROPERTIES
  CommandEnds
CHECK_DEADLOCK FALSE
