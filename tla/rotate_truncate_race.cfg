\* A truncation takes writeMu while a rotation StoreLogs handed off is
\* still pending; the rotation then seals whatever tail the truncation
\* left.  One caller, segments seal after 2 entries, no crash needed.
SPECIFICATION Spec
CONSTANTS
    Clients = {c1}
    Rotator = Rotator
    None = None
    MaxIndex = 3
    MaxBatch = 2
    SegLimit = 2
    MaxSegID = 6
    MaxCrashes = 0
    MaxFaults = 0
    FaultKinds = {}
    Ops = {"store", "front", "back"}
INVARIANT
    RecoverableMeta
CHECK_DEADLOCK FALSE
