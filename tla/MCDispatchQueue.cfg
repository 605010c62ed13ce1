\* A connection whose session is reset and the loopback connection, or two
\* connections; and shutdown.
CONSTANTS
    Conns = {1, 2}
    Prios = {1, 2, 3}
    LOW = 2
    HIGHEST = 3
    MaxMsgs = 2
    Loads <- TwoLoads
SPECIFICATION FairSpec
INVARIANTS TypeOK Fenced Conserved AllTold NothingLeft
PROPERTIES InOrder EveryItemHandled ShutdownEnds
\* After shutdown every thread has ended.
CHECK_DEADLOCK FALSE
