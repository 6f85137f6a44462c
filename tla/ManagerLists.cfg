\* Three servers, so that one may leave from between two others, and three
\* messages, the last of which uses the address of the first again.
SPECIFICATION Spec
CONSTANTS
  Servers = {s1, s2, s3}
  NoServer = NoServer
  RoundRobin = TRUE
  MaxSlots = 3
  MaxMessages = 3
  MaxPrefs = 1
SYMMETRY Symmetry
INVARIANTS
  TypeOK
  IdleListSound
  MessagesHeld
PROPERTIES
  ImplementsMailboxes
