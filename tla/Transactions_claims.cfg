SPECIFICATION SomeSpec
CONSTANTS
  RecordId = {r1, r2}
  Content = {x, y}
  CallerVector = {}
  NoRow = NoRow
  NoVector = NoVector
  Caller = {a, b}
  Drainer = {w, v}
  NoOne = NoOne
  MaxAttempts = 1
  BatchSize = 2
  MaxVersion = 2
  MaxQueueId = 2
  MaxSessions = 3
INVARIANT
  ClaimsDontBlock
CHECK_DEADLOCK FALSE
