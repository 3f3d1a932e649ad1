\* Reproduction, not a listed run: a TruncateFront whose CommitState
\* returns commitErr after storing the new infos in the files.  The old
\* state stays published, so FirstIndex still reports the truncated entry
\* while GetLog, reading the file's new MinIndex, returns ErrNotFound.
SPECIFICATION Spec
CONSTANTS
    Clients = {c1}
    Rotator = Rotator
    None = None
    MaxIndex = 3
    MaxBatch = 2
    SegLimit = 4
    MaxSegID = 6
    MaxCrashes = 0
    MaxFaults = 1
    FaultKinds = {"commit"}
    Ops = {"store", "front"}
INVARIANTS
    IndexesAgree
CHECK_DEADLOCK FALSE
