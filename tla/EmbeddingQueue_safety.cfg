SPECIFICATION Spec
CONSTANTS
    RecordId = {r1}
    Content = {c1, c2}
    CallerVector = {u1}
    NoRecord = NoRecord
    NoVector = NoVector
    Worker = {w1, w2}
    NoRow = NoRow
    MaxAttempts <- MCMaxAttempts
    Attempts = 3
    Hasty = {w1}
    BatchSize = 2
    MaxVersion = 3
    MaxQueueId = 3
SYMMETRY Symmetry
INVARIANTS
    FenceIsSound
    OneRowPerVersion
    NoWorkLost
    ClaimsAreFaithful
    QueueIsInLimits
PROPERTIES
    TerminalIsFinal
CHECK_DEADLOCK FALSE
