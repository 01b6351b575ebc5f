\* One supervisor with its children, one cycle started by hand; a lease of
\* four ticks against a timeout of two, up to two faults.
SPECIFICATION Spec
CONSTANTS
    Children = {c1, c2}
    Manual = {m1}
    None = None
    Ttl = 4
    Timeout = 2
    KillBy = 4
    MaxFaults = 2
INVARIANTS
    SupervisedOwnsLease
    NoOrphanLease
PROPERTIES
    ReportIsCurrent
    CyclesResume
