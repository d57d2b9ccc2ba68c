\* Bodies of up to two limits in every chunking; three events for a queue of
\* one, two workers and a budget of three units; three traces, two collectors
\* and one fault.
CONSTANTS
    MaxBody = 4
    ReqLimit = 2
    RespLimit = 2
    MaxTimings = 2
    Ids = {1, 2, 3}
    Size <- EventSize
    QueueCap = 1
    Workers = 2
    MemLimit = 3
    Traces = {1, 2, 3}
    Legacy = {1, 2}
    Unindexed = {9}
    Limit = 2
    Batch = 2
    Pruners = {p1}
    Collectors = {c1, c2}
    MaxFaults = 1
SPECIFICATION MCSpec
INVARIANTS
    OneRecordPerId
    NothingRetained
    BodiesAreAccounted
    EventsAreAccounted
PROPERTIES
    BudgetIsReturned
    WorkEnds
    SizeIsBounded
CHECK_DEADLOCK FALSE
