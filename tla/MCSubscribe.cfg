\* Two nodes, up to two messages of four kinds, channels of one place.
SPECIFICATION FairSpec
CONSTANTS
  N = 2
  Message <- MCMessages
  BufSize = 1
  QueueSize = 1
  WriteFaults = FALSE
  MaxMessages = 2
CHECK_DEADLOCK FALSE
INVARIANTS
  TypeOK
  NoGap
  ShownExactly
  FileFollowsScreen
  WebhookConserved
  EndIsComplete
  NoConnectionLeft
PROPERTIES
  InterruptEnds
  StreamEndEnds
