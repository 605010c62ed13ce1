\* Two application threads and the event thread; every kind of event in some
\* scenario.
CONSTANTS
    a1 = a1
    a2 = a2
    ev = ev
    Apps = {a1, a2}
    Ev = ev
    Priorities = {1, 2}
    Highest = 2
    DirectStates = {"OPEN"}
    Scenarios <- AllScenarios
SPECIFICATION FairSpec
INVARIANTS Framed SamePriorityInOrder KeptOnce Awake
PROPERTIES EveryMessageOut MarkDownReturns
\* The applications may stop sending.
CHECK_DEADLOCK FALSE
