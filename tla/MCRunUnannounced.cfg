SPECIFICATION FairSpec
CONSTANTS
    Runs = {1}
    Submitted = {1}
    Backends = {1}
    BackendOf <- Spread
    Files = {f1}
    Wanted <- WantAll
    Outputs <- ProduceAll
    Requests <- NoRequests
    Kind <- KindOf
    Target <- TargetOf
    Workers = {w1}
    Broker = "celery"
    Dialect = "postgresql"
    MaxFaults = 0
    NoRun = 0
CHECK_DEADLOCK FALSE
PROPERTY FinishIsAnnounced
