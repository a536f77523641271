CONSTANTS
    SlowReceiver = TRUE
    MaxFaults = 1
    MaxCommands = 1
SPECIFICATION FairSpec
INVARIANT ReadyMeansSetUp
PROPERTY BecomesReady
CHECK_DEADLOCK FALSE
