SPECIFICATION StageSpec
CONSTANTS
  Requests = {r1}
  Readers = {d1, d2}
  Parts <- MCParts
  MaxParts = 3
  MaxSize = 1
  Helpers = {h1, h2}
  Length = 7
  Target = 4
  Hard = 5
  Overlap = 2
  Marks <- MCMarks
  MaxRows = 4
  Columns = 2
  Sizes = {1, 4}
  Groupings <- MCGroupings
  TargetTokens = 9
  MaxTokens = 11
  RowOverlap = 2
INVARIANTS
  SettledBatch
  FoundIsServed
  OnlyWholeResults
  WorkerIsGone
  OverlapIsShared
  RowsPackedOnce
PROPERTIES
  ParseReturns
CHECK_DEADLOCK FALSE
