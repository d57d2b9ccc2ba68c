\* Two late inserts into the minute of the trace that is pruned.
CONSTANTS
    Traces = {2, 3, 4}
    Legacy = {2}
    SegOf <- MCSegOf
    Unindexed = {}
    SegBytes <- MCSegBytes
    KeyOf <- OneKey
    At <- LateAt
    Minute <- OneMinute
    Limit = 2
    Batch = 2
    Pruners = {p1}
    Collectors = {c1}
    MaxFaults = 0
SPECIFICATION Spec
INVARIANT
    LastSeenCovers
CHECK_DEADLOCK FALSE
