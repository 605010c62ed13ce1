\* One or two messengers, two application threads and two workers.
CONSTANTS
    Msgrs = {"a", "b"}
    Threads = {"t1", "t2"}
    ConnIds = {"c1", "c2", "c3"}
    Peers = {"p"}
    NumWorkers = 2
    Scenarios <- AllScenarios
SPECIFICATION FairSpec
INVARIANTS NoAbort ShutdownComplete OldConnectionsStop ReleasedOnce
PROPERTY CallsReturn
\* The scripts come to an end.
CHECK_DEADLOCK FALSE
