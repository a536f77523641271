CONSTANTS
    MaxAttempts = 2
    s_max_tries = 2
    s_max_publish_errors = 3
    MaxStimuli = 2
SPECIFICATION Spec
INVARIANTS WindowMatchesConnection MqttStatusIsTrue ClientIsCurrent
PROPERTY ServicesSettle
CHECK_DEADLOCK FALSE
