SPECIFICATION MCSpec
CONSTANTS
    Wires <- MCWires
    MaxFrames = 3
    MaxDownloads = 3
    MaxRows = 2
    MaxAgings = 3
    Requests <- MCRequests
    MaxUnderWay = 2
    Hosts = {"h1", "h2"}
    RawCounters = {255}
    MaxOut = 3
INVARIANTS
    ReadsAreExact
    WaitingMeansUndecided
    CutoffHolds
    RowsAreTrue
    ReadBackIsWritten
    OneDeviceInOrder
PROPERTY UpgradeIsTransfer
CHECK_DEADLOCK FALSE
