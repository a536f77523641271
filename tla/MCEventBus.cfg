CONSTANTS
    Workers = {w1, w2}
    Clients = {c1, c2}
    MaxJobs = 2
    Types = {y1, y2}
    Handlers = {h1, h2}
SPECIFICATION FairBusSpec
INVARIANTS EachJobOnce NoIdleWhileWork StopIsFinal DeliversSnapshot
PROPERTIES ImplementsJobQueue PoolMakesProgress
CHECK_DEADLOCK FALSE
