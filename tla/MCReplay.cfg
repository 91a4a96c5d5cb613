SPECIFICATION FairSpec
CONSTANTS
    Times = {1, 2, 3}
    Sessions <- MCSessions
    MaxReplays = 2
    MaxSeeks = 2
INVARIANTS
    ReplayedInOrder
    PassComplete
    StatusTellsTruth
    NoStuckReplay
PROPERTIES
    JoinReturns
    ReceiverComesBack
