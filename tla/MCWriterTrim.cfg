\* mark_down during a direct send.
CONSTANTS
    a1 = a1
    a2 = a2
    ev = ev
    Apps = {a1, a2}
    Ev = ev
    Priorities = {1, 2}
    Highest = 2
    DirectStates = {"OPEN"}
    Scenarios <- StopScenario
SPECIFICATION Spec
INVARIANT TrimSafe
CHECK_DEADLOCK FALSE
