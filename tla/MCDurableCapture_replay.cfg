\* Two captures, a fault or a damaged record and a crash or shutdown, under
\* fair scheduling.
CONSTANTS
    Ids = {1, 2}
    Size <- MCSize
    MaxBytes = 3
    MaxRecords = 2
    IntakeMem <- MCIntakeMem
    ReplayMem <- MCReplayMem
    MemLimit = 4
    QueueCap = 1
    Workers = 2
    PageSize = 1
    DamageKinds = {"badbody", "short"}
    MaxFaults = 1
    MaxStops = 1
SPECIFICATION FairSpec
PROPERTIES
    WrittenIsStored
    ReceiptsAreCleaned
CHECK_DEADLOCK FALSE
