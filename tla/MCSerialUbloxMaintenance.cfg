CONSTANTS
    SlowReceiver = TRUE
    MaxFaults = 0
    MaxCommands = 1
SPECIFICATION Spec
INVARIANT MaintenanceCanBeDone
CHECK_DEADLOCK FALSE
