\* One caller appending and truncating at both ends while one call of the
\* test double fails with an injected error: a Create (createErr, after
\* registering the file), a CommitState (commitErr, after storing the
\* state), a Delete (deleteErr, only logged), or one of Open's Load, List,
\* Open and RecoverTail; and one crash.  Checks that the committed metadata
\* stays recoverable, as spec 4.2 step 4 and spec 7 intend.
SPECIFICATION Spec
CONSTANTS
    Clients = {c1}
    Rotator = Rotator
    None = None
    MaxIndex = 3
    MaxBatch = 2
    SegLimit = 4
    MaxSegID = 6
    MaxCrashes = 1
    MaxFaults = 1
    FaultKinds = {"create", "commit", "delete", "open"}
    Ops = {"store", "front", "back"}
INVARIANTS
    RecoverableMeta
\* Callers stop once the segment-id budget is spent and the WAL then sits
\* idle.
CHECK_DEADLOCK FALSE
