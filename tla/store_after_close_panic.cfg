\* One caller's StoreLogs passes checkClosed; another caller's Close then
\* takes writeMu first and publishes the zero state.  No rotation is
\* needed (segments never fill), and no crash.
SPECIFICATION Spec
CONSTANTS
    Clients = {c1, c2}
    Rotator = Rotator
    None = None
    MaxIndex = 2
    MaxBatch = 1
    SegLimit = 3
    MaxSegID = 6
    MaxCrashes = 0
    MaxFaults = 0
    FaultKinds = {}
    Ops = {"store", "close"}
INVARIANT
    NoPanic
CHECK_DEADLOCK FALSE
