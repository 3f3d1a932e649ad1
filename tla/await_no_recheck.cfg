\* Two callers appending; every append seals its segment.  A StoreLogs
\* that waited on awaitRotate takes writeMu again without looking at
\* awaitRotate a second time.
SPECIFICATION Spec
CONSTANTS
    Clients = {c1, c2}
    Rotator = Rotator
    None = None
    MaxIndex = 3
    MaxBatch = 1
    SegLimit = 1
    MaxSegID = 6
    MaxCrashes = 0
    MaxFaults = 0
    FaultKinds = {}
    Ops = {"store"}
INVARIANT
    StoreSeesWritableTail
CHECK_DEADLOCK FALSE
