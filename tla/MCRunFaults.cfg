SPECIFICATION Spec
CONSTANTS
    Runs = {1}
    Submitted = {}
    Backends = {1}
    BackendOf <- Spread
    Files = {f1}
    Wanted <- WantAll
    Outputs <- ProduceAll
    Requests <- CreateGetCancel
    Kind <- KindOf
    Target <- TargetOf
    Workers = {w1}
    Broker = "celery"
    Dialect = "postgresql"
    MaxFaults = 1
    NoRun = 0
CHECK_DEADLOCK FALSE
INVARIANTS TypeOK SettledMeansOver StoredMeansSubmitted SnapshotsAreSound ContentIsUnique
