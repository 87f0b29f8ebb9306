SPECIFICATION Spec
CONSTANTS
    x = x
    k1 = k1
    k2 = k2
    c1 = c1
    c2 = c2
    m1 = m1
    v1 = v1
    RecordId = {x, a1}
    Slot = {k1, k2}
    NoSlot = NoSlot
    NoId = NoId
    Content = {c1, c2}
    Meta = {m1}
    Vector = {v1}
    NoVector = NoVector
    ModelVector = ModelVector
    Batches <- MixedBatches
    Modes = {"error", "replace", "ignore"}
    Call = {p, q}
    NoRow = NoRow
    MaxCalls = 3
SYMMETRY Symmetry
INVARIANT
    RejectionWritesNothing
CHECK_DEADLOCK FALSE
