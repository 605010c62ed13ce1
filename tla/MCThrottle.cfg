\* Every kind of call: two blocking callers, a thread that returns units, a
\* callback request, take, amounts below, at and above the limit, a limit that
\* moves, and the destructor.
CONSTANTS
    t1 = t1
    t2 = t2
    p = p
    r1 = r1
    NoThread = NoThread
    Threads = {t1, t2, p}
    Getters = {t1, t2}
    Requests = {r1}
    Amounts = {1, 2, 3}
    TakeAmounts = {1}
    NewMax = {1, 3}
    MaxInit = 2
    TakeBound = 2
SPECIFICATION FairSpec
INVARIANTS CountAccounted NoLostWakeup
PROPERTIES LimitRespected EveryWaiterServed
\* The destructor ends the behaviour.
CHECK_DEADLOCK FALSE
