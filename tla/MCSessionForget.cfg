\* A client's reset is forgotten while a replace is under way.
CONSTANTS
    Slots = {1, 2, 3}
    Socks = {1, 2, 3}
    Scenarios <- Forget
SPECIFICATION Spec
INVARIANT NoOldMessage
\* When every message is dispatched there is nothing left to do.
CHECK_DEADLOCK FALSE
