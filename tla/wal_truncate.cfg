\* One caller appending and truncating at both ends, with one crash
\* anywhere.  Segments never fill (SegLimit exceeds MaxIndex), so no
\* rotation runs; truncations still build several segments, since every
\* TruncateBack seals the tail and starts a new one.
SPECIFICATION Spec
CONSTANTS
    Clients = {c1}
    Rotator = Rotator
    None = None
    MaxIndex = 3
    MaxBatch = 2
    SegLimit = 4
    MaxSegID = 6
    MaxCrashes = 1
    MaxFaults = 0
    FaultKinds = {}
    Ops = {"store", "front", "back"}
INVARIANTS
    TypeOK
    RecoverableMeta
    PublishedMatchesMeta
    IndexesAgree
PROPERTIES
    LogSpec
\* Callers stop once the segment-id budget is spent and the WAL then sits
\* idle.  Liveness is checked by the runs with fewer operations.
CHECK_DEADLOCK FALSE
