CONSTANTS
    Workers = {w1, w2}
    Ids = {}
    Rates = {}
    None = None
    Enabled = {"preamp0", "preamp1"}
    MaxQueue = 2
    MaxCommands = 0
    MaxPolls = 1
    MaxLost = 0
SPECIFICATION Spec
INVARIANT StoreMatchesPins
CHECK_DEADLOCK FALSE
