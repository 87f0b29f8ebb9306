SPECIFICATION FairSpec
CONSTANTS
    RecordId = {r1, r2}
    Content = {c1, c2}
    CallerVector = {}
    NoRecord = NoRecord
    NoVector = NoVector
    Worker = {w1, w2}
    NoRow = NoRow
    MaxAttempts <- MCMaxAttempts
    Attempts = 1
    Hasty = {}
    BatchSize = 2
    MaxVersion = 2
    MaxQueueId = 2
PROPERTIES
    ImplementsContract
    EveryRecordSettles
CHECK_DEADLOCK FALSE
