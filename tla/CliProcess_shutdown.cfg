SPECIFICATION SideSpec
CONSTANTS
  w1 = w1
  o1 = o1
  j1 = j1
  j2 = j2
  j3 = j3
  Worker = {w1}
  Op = {o1}
  Slots = 2
  Job = {j1, j2, j3}
  MaxDeaths = 2
  Free = Free
  Owner <- MCOwner
  Interval = {1, 3, 9}
  RetryAfter = {2, 20}
  Longest = 6
  RateLimited = 4
  TimerMax = 16
  MaxErrors = 5
CHECK_DEADLOCK FALSE
INVARIANTS
  ResourcesOutliveWork
  ExitTellsTruth
PROPERTIES
  NoClaimAfterStop
  TokenizationOutlivesWork
  JobsAreKept
  WorkEnds
  CommandEnds
  PaceIsHeld
