\* One worker that may be redelivered and one retrying client, two entries and an upload
\* under a cap of two; no symmetry, which would be unsound for JobEnds.
CONSTANTS
    Entries = {e1, e2}
    Workers = {w1}
    Clients = {c1}
    Cap = 2
    MaxUploads = 1
    MaxFaults = 2
SPECIFICATION FairSpec
INVARIANTS
    TypeOK
    CapNeverOverrun
    NoStrandedHold
    AvailableIsStored
PROPERTIES
    StagedUntilPlaced
    JobEnds
CHECK_DEADLOCK FALSE
