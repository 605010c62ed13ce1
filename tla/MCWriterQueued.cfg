\* Two threads send one message each.
CONSTANTS
    a1 = a1
    a2 = a2
    ev = ev
    Apps = {a1, a2}
    Ev = ev
    Priorities = {1, 2}
    Highest = 2
    DirectStates = {"OPEN"}
    Scenarios <- TwoSenders
SPECIFICATION Spec
INVARIANT DataScheduled
CHECK_DEADLOCK FALSE
