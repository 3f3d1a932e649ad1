\* TruncateFront replaces the empty tail; its Create fails with createErr
\* after the meta commit.  The published state keeps the old tail writer
\* and the next StoreLogs appends to a file the metadata no longer names.
SPECIFICATION Spec
CONSTANTS
    Clients = {c1}
    Rotator = Rotator
    None = None
    MaxIndex = 2
    MaxBatch = 1
    SegLimit = 4
    MaxSegID = 6
    MaxCrashes = 0
    MaxFaults = 1
    FaultKinds = {"create"}
    Ops = {"store", "front"}
PROPERTIES
    AppendsToMetaTail
\* The violation is reached long before the segment-id budget is spent.
CHECK_DEADLOCK FALSE
