\* Liveness: a publish, a poll and a reset that compete for one place; a second
\* r comes too soon.
SPECIFICATION Spec
CONSTANTS
  Count = 1
  First = 1
  Longest = 1
  ResetGap = 1
  SnapSize = 1
  StatusSize = 1
  MaxRows = 2
  Content <- MCContent
  MaxPolls = 1
  MaxResets = 2
  MaxTime = 0
CHECK_DEADLOCK FALSE
PROPERTIES
  QuitEnds
  SendersGoOn
