\* One caller appending single entries into segments that seal after one
\* entry, while one call fails with an injected error: the Create or the
\* CommitState of a rotation, a call of Open (its Load, List, Open,
\* RecoverTail, its tail's Create or its fresh tail's commit), or a Delete
\* of an orphan, which is only logged.  The failed rotation is only logged
\* by runRotate; every waiter is released and every call returns, the
\* metadata stays recoverable, and no file on disk has an id the meta
\* store will hand out again.
SPECIFICATION FairSpec
CONSTANTS
    Clients = {c1}
    Rotator = Rotator
    None = None
    MaxIndex = 4
    MaxBatch = 1
    SegLimit = 1
    MaxSegID = 6
    MaxCrashes = 1
    MaxFaults = 1
    FaultKinds = {"create", "commit", "delete", "open"}
    Ops = {"store"}
INVARIANTS
    RecoverableMeta
    FilesBelowNextID
PROPERTIES
    RotationCompletes
    ClientsReturn
\* Callers stop once the segment-id budget is spent and the WAL then sits
\* idle; a call that cannot finish is caught by ClientsReturn instead.
CHECK_DEADLOCK FALSE
