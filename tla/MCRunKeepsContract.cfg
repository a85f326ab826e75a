SPECIFICATION Spec
CONSTANTS
    Runs = {1, 2}
    Submitted = {1, 2}
    Backends = {1, 2}
    BackendOf <- Spread
    Files = {f1}
    Wanted <- WantOddly
    Outputs <- ProduceAll
    Requests <- RemoveFirst
    Kind <- KindOf
    Target <- TargetOf
    Workers = {w1}
    Broker = "memory"
    Dialect = "postgresql"
    MaxFaults = 1
    NoRun = 0
CHECK_DEADLOCK FALSE
PROPERTY KeepsContract
