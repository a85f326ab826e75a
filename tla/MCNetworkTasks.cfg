SPECIFICATION Spec
CONSTANTS
    e = e
    u = u
    w = w
    l = l
    p = p
    q = q
    Uploads = {e, u, w}
    Urls = {l}
    Plots = {p, q}
    NoJob = NoJob
    Sessions <- MCSessions
    Content <- MCContent
    Unreadable = {"broken"}
    NetworkOf <- MCNetworkOf
    Earlier = {e}
    Polled = {u, w}
    Workers = 2
    TTL = 1
    NetworkAge = 1
    MaxRun = 1
    MaxTime = 3
    MaxDays = 1
    MaxLosses = 1
    MaxDeletions = 1
CHECK_DEADLOCK FALSE
INVARIANTS NoFileLeftBehind AnswersAreTrue
PROPERTIES PlotIsRecent QueueDrains
