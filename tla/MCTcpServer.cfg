CONSTANTS
    Conns = {c1, c2}
    PeerKinds = {"empty"}
    HeaderPieces = 1
    MaxFrames = 0
    MaxSends = 2
    Senders = {w1}
    MaxIdle = 0
    MaxTime = 1
    MaxPings = 1
SPECIFICATION Spec
INVARIANTS SinkServesSessions
SYMMETRY ServerSymmetry
CHECK_DEADLOCK FALSE
