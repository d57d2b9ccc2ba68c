\* One of two captures loses the answer to its COMMIT, is damaged, and is
\* set aside without the directory being synchronized: three faults, no crash.
CONSTANTS
    Ids = {1, 2}
    Size <- MCSize
    MaxBytes = 3
    MaxRecords = 1
    IntakeMem <- MCIntakeMem
    ReplayMem <- MCReplayMem
    MemLimit = 4
    QueueCap = 1
    Workers = 1
    PageSize = 1
    DamageKinds = {"badbody"}
    MaxFaults = 3
    MaxStops = 0
SPECIFICATION Spec
INVARIANT
    QuarantineCounts
