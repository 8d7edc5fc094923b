CONSTANTS
    Callers = {c1, c2}
    Threads = {t1, t2}
SPECIFICATION FairSpec
INVARIANTS
    TypeOK
    LocksTellTheTruth
    WaitingCanBeResumed
    PausedIsNoPhantom
    ScanningMeansBusy
PROPERTIES
    PausedScanIsNotReplaced
    ServiceSpec
    StartedScanSettles
