\* Two processes, up to three captures, two bundles kept, three faults.
SPECIFICATION Spec
CONSTANTS
    Backups = {b1, b2}
    None = None
    Retention = 2
    StaleAfter = 1
    MaxBundles = 3
    MaxFaults = 3
INVARIANTS
    OneBackupAtATime
    KnownGoodKept
PROPERTIES
    FailedIsFinal
    RunsClosed
