SPECIFICATION FairSpec
CONSTANTS
  Syncs = {s1, s2}
  Records = {x, y}
  Strategies = {TRUE, FALSE}
  PageSize = 1
  MaxChanges = 2
  MaxFaults = 1
INVARIANTS BehindCursorAccounted SerialRunsKeepOrder SuccessMovesCursor
PROPERTIES CursorGoesForward CatchesUp
