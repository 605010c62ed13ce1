\* Two messages and other items, one socket that breaks or is replaced.
CONSTANTS
    Streams <- AllStreams
    Prefetch = 3
    Segment = 2
    MaxRecvBytes = 1
    MessageLimit = 1
    ByteLimits = {20}
    MaxBreaks = 1
    Sizes = {0, 1, 2, 3, 4}
SPECIFICATION Spec
INVARIANT BytesReturned
\* All is read in the end.
CHECK_DEADLOCK FALSE
