\* Safety: two publishes and three polls, through channels of one place; the
\* third failure in a row meets the longest pause.
SPECIFICATION Spec
CONSTANTS
  Count = 2
  First = 1
  Longest = 2
  ResetGap = 1
  SnapSize = 1
  StatusSize = 1
  MaxRows = 2
  Content <- MCContent
  MaxPolls = 3
  MaxResets = 0
  MaxTime = 3
CHECK_DEADLOCK FALSE
INVARIANTS
  TypeOK
  SnapshotsInOrder
  RetriesBackOff
  PollsPaced
  ErrorsBeforeCompletion
  TableIsLatest
