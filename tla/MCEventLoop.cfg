SPECIFICATION EventSpec
CONSTANTS
    QueueSize = 3
    MaxPush = 7
INVARIANTS SeesNewest NothingLost
PROPERTIES InOrder Drains
