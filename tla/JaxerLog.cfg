\* Two processes, two messages longer than one write, a FIFO that fills up, a
\* file that is rotated, and one fault of any kind.
SPECIFICATION FairSpec
CONSTANTS
  Clients = {a, b}
  Nobody = Nobody
  Length = 2
  MaxMessages = 2
  Tries = 1
  PipeSize = 2
  MaxFileSize = 2
  MaxErrors = 1
  MaxFaults = 1
INVARIANTS
  TypeOK
  MessagesWhole
  InOrder
  NothingVanishes
  RotatedWhenLarge
PROPERTIES
  EveryMessageLogged
CHECK_DEADLOCK FALSE
