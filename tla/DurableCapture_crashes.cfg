\* Three captures for a journal that has room for some of them, a crash or
\* shutdown, and an I/O or database fault or a damaged record.  A page holds
\* every receipt; the run replay cleans them page by page.
CONSTANTS
    Ids = {1, 2, 3}
    Size <- MCSize
    MaxBytes = 3
    MaxRecords = 2
    IntakeMem <- MCIntakeMem
    ReplayMem <- MCReplayMem
    MemLimit = 4
    QueueCap = 1
    Workers = 2
    PageSize = 4
    DamageKinds = {"badbody"}
    MaxFaults = 1
    MaxStops = 1
SPECIFICATION Spec
INVARIANTS
    OwnershipIsExact
    WrittenSurvives
    AtMostOnce
    ReceiptOutlivesRecord
    CleanExitIsDrained
    WithinCapacity
PROPERTY
    ImplementsStore
