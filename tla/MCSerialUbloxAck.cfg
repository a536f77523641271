CONSTANTS
    SlowReceiver = FALSE
    MaxFaults = 1
    MaxCommands = 0
SPECIFICATION Spec
INVARIANT UnexpectedIsUnrequested
CHECK_DEADLOCK FALSE
