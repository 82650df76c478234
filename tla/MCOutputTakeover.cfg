\* A job taken over from a worker that is still placing, then retried by two clients.
CONSTANTS
    Entries = {e1, e2}
    Workers = {w1, w2}
    Clients = {c1, c2}
    Cap = 2
    MaxUploads = 0
    MaxFaults = 1
SPECIFICATION Spec
SYMMETRY OutputSymmetry
INVARIANTS
    UsageIsExact
PROPERTIES
    AvailableStays
    CompletesWhenSettled
CHECK_DEADLOCK FALSE
