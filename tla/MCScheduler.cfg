CONSTANTS
    Main = m
    Workers = {w}
    Intervals = {1}
    Delays = {1}
    MaxId = 2
    MaxTime = 2
SPECIFICATION FairSpec
INVARIANTS OneCopy NoLostWakeup EndsAreFinal
PROPERTIES StartSpacing SchedulerMakesProgress
CHECK_DEADLOCK FALSE
