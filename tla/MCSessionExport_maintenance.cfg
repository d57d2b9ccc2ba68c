\* Two shared legacy traces and a late insert; two retention tasks.
CONSTANTS
    Traces = {1, 2, 3, 4}
    Legacy = {1, 2}
    SegOf <- MCSegOf
    Unindexed = {9}
    SegBytes <- MCSegBytes
    KeyOf <- LastAlone
    At <- TiedAt
    BodyOf <- MCBodyOf
    Minute <- TwoMinutes
    Limit = 2
    Batch = 3
    Pruners = {p1, p2}
    Collectors = {c1}
    MaxFaults = 1
SPECIFICATION ExportSpec
ACTION_CONSTRAINT QuietExport
INVARIANTS
    BodiesReadable
    ExportIsFaithful
    RollupExact
    ReferencesHold
    NoStrandedFile
    EvictsOnlyAsNeeded
CHECK_DEADLOCK FALSE
