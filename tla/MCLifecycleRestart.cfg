\* The calls of FeatureTest: a client that is shut down, waited for and started again.
CONSTANTS
    Msgrs = {"a"}
    Threads = {"t1", "t2"}
    ConnIds = {"c1", "c2"}
    Peers = {"p"}
    NumWorkers = 2
    Scenarios <- Restart
SPECIFICATION Spec
INVARIANT NoAbort
CHECK_DEADLOCK FALSE
