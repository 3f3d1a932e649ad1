\* Two callers appending concurrently while every append seals its segment:
\* StoreLogs races the rotation goroutine for writeMu and waits on
\* awaitRotate.  No crash and no Close, so every rotation can finish.
SPECIFICATION FairSpec
CONSTANTS
    Clients = {c1, c2}
    Rotator = Rotator
    None = None
    MaxIndex = 3
    MaxBatch = 2
    SegLimit = 1
    MaxSegID = 6
    MaxCrashes = 0
    MaxFaults = 0
    FaultKinds = {}
    Ops = {"store"}
INVARIANTS
    TriggerNeverBlocks
PROPERTIES
    LogSpec
    ClientsReturn
    RotationCompletes
\* Callers stop once the segment-id budget is spent and the WAL then sits
\* idle; a call that cannot finish is caught by ClientsReturn instead.
CHECK_DEADLOCK FALSE
