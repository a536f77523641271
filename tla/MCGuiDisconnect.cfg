CONSTANTS
    MaxAttempts = 1
    s_max_tries = 1
    s_max_publish_errors = 1
    MaxStimuli = 0
SPECIFICATION Spec
INVARIANT DisconnectIsSafe
CHECK_DEADLOCK FALSE
