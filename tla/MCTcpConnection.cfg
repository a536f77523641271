CONSTANTS
    Conns = {c1}
    PeerKinds = {"empty", "payload", "bad", "sum"}
    HeaderPieces = 2
    MaxFrames = 2
    MaxSends = 0
    Senders = {}
    MaxIdle = 0
    MaxTime = 1
    MaxPings = 1
SPECIFICATION FairSpec
INVARIANTS DeliversFrames SessionsHaveSockets
PROPERTY LostPeersAreDropped
CHECK_DEADLOCK FALSE
