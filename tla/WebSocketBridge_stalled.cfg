\* A peer that stops reading.
CONSTANTS
    MaxMessage = 1
    MaxSession = 1
    MaxFrames = 2
    Overhead = 1
    MaxSize = 1
    MaxSent = 2
SPECIFICATION FairSpec
PROPERTY
    ClosedIsRecorded
CHECK_DEADLOCK FALSE
