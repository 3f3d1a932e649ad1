\* One caller appends until the tail seals and then calls Close before the
\* rotation goroutine takes writeMu; runRotate exits without rotating.
\* The WAL is then opened again; a crash before the rotation commits does
\* the same.
SPECIFICATION Spec
CONSTANTS
    Clients = {c1}
    Rotator = Rotator
    None = None
    MaxIndex = 2
    MaxBatch = 1
    SegLimit = 1
    MaxSegID = 6
    MaxCrashes = 1
    MaxFaults = 0
    FaultKinds = {}
    Ops = {"store", "close"}
INVARIANT
    StoreSeesWritableTail
CHECK_DEADLOCK FALSE
