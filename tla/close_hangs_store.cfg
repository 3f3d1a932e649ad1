\* One caller's StoreLogs waits on awaitRotate while another calls Close.
\* Close drops awaitRotate without closing it and runRotate exits on the
\* closed flag, so nothing ever closes the channel the first caller holds.
SPECIFICATION FairSpec
CONSTANTS
    Clients = {c1, c2}
    Rotator = Rotator
    None = None
    MaxIndex = 2
    MaxBatch = 1
    SegLimit = 1
    MaxSegID = 6
    MaxCrashes = 0
    MaxFaults = 0
    FaultKinds = {}
    Ops = {"store", "close"}
PROPERTY
    ClientsReturn
CHECK_DEADLOCK FALSE
