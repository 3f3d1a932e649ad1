\* TruncateFront replaces the empty tail in the meta store and then its
\* Create fails with createErr.  A later truncation commits the stale
\* in-memory state back: the durable log changes in a way no call asked
\* for, and NextSegmentID moves back to an id whose file exists.
SPECIFICATION Spec
CONSTANTS
    Clients = {c1}
    Rotator = Rotator
    None = None
    MaxIndex = 2
    MaxBatch = 1
    SegLimit = 4
    MaxSegID = 6
    MaxCrashes = 0
    MaxFaults = 1
    FaultKinds = {"create"}
    Ops = {"store", "front"}
PROPERTIES
    LogSpec
\* The violation is reached long before the segment-id budget is spent.
CHECK_DEADLOCK FALSE
