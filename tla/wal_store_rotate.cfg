\* One caller appending and closing; segments seal after 2 entries, so the
\* log rotates; one crash anywhere, and reopening after a crash or a Close.
SPECIFICATION FairSpec
CONSTANTS
    Clients = {c1}
    Rotator = Rotator
    None = None
    MaxIndex = 5
    MaxBatch = 2
    SegLimit = 2
    MaxSegID = 8
    MaxCrashes = 1
    MaxFaults = 0
    FaultKinds = {}
    Ops = {"store", "close"}
INVARIANTS
    RecoverableMeta
    PublishedMatchesMeta
    IndexesAgree
PROPERTIES
    LogSpec
    ClientsReturn
\* Callers stop once the segment-id budget is spent and the WAL then sits
\* idle; a call that cannot finish is caught by ClientsReturn instead.
CHECK_DEADLOCK FALSE
