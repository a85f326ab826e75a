SPECIFICATION Spec
CONSTANTS
    Runs = {1}
    Submitted = {1}
    Backends = {1}
    BackendOf <- Spread
    Files = {f1, f2}
    Wanted <- WantAll
    Outputs <- ProduceAll
    Requests <- GetRemove
    Kind <- KindOf
    Target <- TargetOf
    Workers = {w1, w2}
    Broker = "celery"
    Dialect = "postgresql"
    MaxFaults = 0
    NoRun = 0
CHECK_DEADLOCK FALSE
INVARIANTS CompletedMeansImported RowsHaveFiles
PROPERTIES ImportIsAtomic RemovedStaysRemoved
