\* Two gateway processes on one ledger, three faults; no symmetry, which would
\* be unsound for liveness.
CONSTANTS
    Proc = {p1, p2}
    MaxFaults = 3
SPECIFICATION FairSpec
INVARIANTS
    TypeOK
    AtMostOneGeneration
    PayloadIsRecorded
    NonCommitIsProved
    CanceledDeliversNothing
    CompletedIsCaptured
    OccupancyHeldUntilTerminal
PROPERTIES
    CertaintyNeverWeakens
    ImplementsContract
    EventuallyTerminal
    TerminalIsCleaned
\* All processes may be down for good once a row fails validation.
CHECK_DEADLOCK FALSE
