CONSTANTS
    Workers = {w1}
    Ids = {i1, i2}
    Rates = {r1}
    None = None
    Enabled = {"preamp0", "preamp1"}
    MaxQueue = 1
    MaxCommands = 1
    MaxPolls = 1
    MaxLost = 1
SPECIFICATION FairSpec
INVARIANTS StoreMatchesPins ClientIsUpToDate
PROPERTY RatesTaskEnds
CHECK_DEADLOCK FALSE
