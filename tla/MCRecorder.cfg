SPECIFICATION FairSpec
CONSTANTS
    QueueLimit = 2
    ChunkLimit = 2
    Sizes = {1, 2}
    Ids <- MCIds
    Arrivals <- MCArrivals
INVARIANTS
    TypeOK
    ArrivalOrderKept
    DropCountIsHonest
    MetaMatchesDisk
PROPERTIES
    FinishedStays
    StopReturns
CONSTRAINT
    Followed
