SPECIFICATION PartsSpec
CONSTANTS
    NicDevs = {n1, n2, n3}
    NoNic = NoNic
    Senders = {n1, n2}
    Lengths = {0, 1504, 1505, 1518}
    FrameMax = 1518
    EthHeader = 14
    WifiDevs = {"w1", "w2"}
    NoWifi = "none"
    Operations <- MCOperations
    Moves <- MCMoves
    MaxPackets = 3
INVARIANTS SendsSafely LinkKnown Tracks
PROPERTY PollEnds
