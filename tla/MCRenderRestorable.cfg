CONSTANTS
    Proc = {p1}
    MaxFaults = 0
SPECIFICATION Spec
INVARIANT DurableRowsRestorable
CHECK_DEADLOCK FALSE
