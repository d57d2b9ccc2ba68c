\* Messages at and above the limits both ways, peers that keep reading; the
\* connection ends.
CONSTANTS
    MaxMessage = 2
    MaxSession = 2
    MaxFrames = 2
    Overhead = 1
    MaxSize = 3
    MaxSent = 2
SPECIFICATION ReadingSpec
INVARIANTS
    RelayIsExact
    UnmarkedIsComplete
PROPERTY
    ClosedIsRecorded
CHECK_DEADLOCK FALSE
