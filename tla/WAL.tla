--------------------------------- MODULE WAL ---------------------------------
(***************************************************************************)
(* The log-state engine of src/wal.go: the published in-memory state, the *)
(* single writer mutex writeMu, StoreLogs and its hand-off to the runRotate *)
(* goroutine, the front and back truncations, Close, process crashes and   *)
(* the recovery done by Open.                                              *)
(*                                                                         *)
(* Segment files and the meta store behave as the repository's test double *)
(* (testStorage and testSegment in src/bench/bench_test.go): a file is its *)
(* base index and its number of entries, and it reports Sealed once it     *)
(* holds SegLimit entries.  The payload of an entry is the id of the file  *)
(* it was appended to: that tells an index re-written after a truncation   *)
(* from the entry it replaced.  Reads load the published state atomically; *)
(* how a retired state's files outlive its readers is module StateRefs.   *)
(***************************************************************************)
EXTENDS Integers, FiniteSets, FiniteSetsExt, Functions, TLC

CONSTANTS
    Clients,      \* goroutines calling the WAL
    Rotator,      \* the runRotate goroutine, as an owner of writeMu
    None,         \* nil
    MaxIndex,     \* log indexes are 1..MaxIndex
    MaxBatch,     \* entries per StoreLogs call
    SegLimit,     \* entries at which a segment file reports Sealed
    MaxSegID,     \* segment ids are 0..MaxSegID-1
    MaxCrashes,   \* process crashes per behaviour
    MaxFaults,    \* calls that fail with an error the test double injects
    FaultKinds,   \* which: createErr, commitErr, deleteErr, "open" (the rest)
    Ops           \* the calls clients make, a subset of OpKinds

ASSUME MaxIndex \in Nat \ {0} /\ MaxBatch \in Nat \ {0} /\ SegLimit \in Nat \ {0}
ASSUME MaxSegID \in Nat \ {0} /\ MaxCrashes \in Nat /\ MaxFaults \in Nat

OpKinds == {"store", "front", "back", "close"}
ASSUME Ops \subseteq OpKinds
ASSUME FaultKinds \subseteq {"create", "commit", "delete", "open"}

Indexes == 1..MaxIndex
Ids == 0..MaxSegID-1

VARIABLES
    meta,         \* the PersistentState last committed to the meta store
    metaOpen,     \* the meta store has not been closed
    files,        \* files[id]: segment file id on disk, or None
    up,           \* "running": a WAL instance exists; "down": crashed or not yet opened
    boot,         \* Open between committing a fresh tail and creating its file
    closed,       \* w.closed
    st,           \* w.s: the published state
    mu,           \* owner of writeMu, or None
    awaitRotate,  \* w.awaitRotate: a channel (named by the sealed file's id) or None
    doneChans,    \* the awaitRotate channels closed so far
    trigBuf,      \* values buffered in the 1-buffered w.triggerRotate
    trigClosed,   \* w.triggerRotate has been closed
    rot,          \* runRotate: "off", "recv", "lock", "post" or "exit"
    pc,           \* pc[c]: where client c is in its call
    arg,          \* arg[c]: the call client c is making
    waitCh,       \* waitCh[c]: the awaitRotate channel StoreLogs of c waits on
    txn,          \* mutateStateLocked between the meta commit and publishing
    pendingFin,   \* ids whose Delete waits in a retired state's finalizer
    crashes,      \* crashes so far
    panicked,     \* a goroutine panicked (the process dies)
    openErr,      \* Open returned an error: the WAL cannot be opened
    faults        \* injected errors returned so far

vars == <<meta, metaOpen, files, up, boot, closed, st, mu, awaitRotate,
          doneChans, trigBuf, trigClosed, rot, pc, arg, waitCh, txn,
          pendingFin, crashes, panicked, openErr, faults>>

-----------------------------------------------------------------------------
(* Calls.                                                                  *)

StoreReqs ==
    {r \in [op : {"store"}, lo : Indexes, hi : Indexes] :
        r.lo <= r.hi /\ r.hi < r.lo + MaxBatch}
TruncReqs == [op : {"front", "back"}, idx : Indexes]
CloseReq == [op |-> "close"]

ReqsOf(o) == CASE o = "store" -> StoreReqs
               [] o = "close" -> {CloseReq}
               [] OTHER -> {r \in TruncReqs : r.op = o}

Requests == StoreReqs \cup TruncReqs \cup {CloseReq}

-----------------------------------------------------------------------------
(* Segment infos and the in-memory state (types.SegmentInfo, state).       *)

\* newSegment: a fresh unsealed segment starting at baseIndex.
NewSegment(id, baseIndex) ==
    [id |-> id, base |-> baseIndex, min |-> baseIndex, max |-> 0, sealed |-> FALSE]

\* segments is an immutable.SortedMap keyed by BaseIndex: Set replaces
\* whatever entry has the same key.
SetSeg(m, s) == [b \in DOMAIN m \cup {s.base} |-> IF b = s.base THEN s ELSE m[b]]
DelSeg(m, b) == Restrict(m, DOMAIN m \ {b})

\* The zero state{} that Close publishes.
EmptyState == [segs |-> <<>>, tail |-> None, nextID |-> 0, nextBase |-> 0]

\* getTailInfo: the segment with the highest BaseIndex, or None.
TailInfo(S) == IF DOMAIN S.segs = {} THEN None ELSE S.segs[Max(DOMAIN S.segs)]

\* Persistent: what mutateStateLocked commits to the meta store.
Persistent(S) == [nextID |-> S.nextID, segs |-> S.segs]

\* testStorage.Create: a testSegment holding the SegmentInfo it was created
\* with (the file keeps base, MinIndex and MaxIndex) and no entries.
NewFile(si) == [base |-> si.base, min |-> si.min, max |-> si.max, n |-> 0]

\* testSegment.LastIndex and testSegment.Sealed.
FileLast(f) == IF f.n = 0 THEN 0 ELSE f.base + f.n - 1
FileSealed(f) == f.n >= SegLimit

\* The live tail writer's LastIndex (0 without a tail writer).
TailLast(S) == IF S.tail = None \/ files[S.tail] = None THEN 0
               ELSE FileLast(files[S.tail])

\* state.lastIndex: the tail writer's last index if it has entries, else the
\* sealed tail's MaxIndex, else the previous segment's MaxIndex, else 0.
LastIndex(S) ==
    LET t == TailInfo(S) IN
    IF t = None THEN 0
    ELSE IF t.sealed THEN t.max
    ELSE IF TailLast(S) > 0 THEN TailLast(S)
    ELSE IF DOMAIN S.segs = {t.base} THEN 0
    ELSE S.segs[Max(DOMAIN S.segs \ {t.base})].max

\* state.firstIndex: MinIndex of the first segment, 0 when the log is empty.
FirstIndex(S) ==
    IF DOMAIN S.segs = {} THEN 0
    ELSE LET s == S.segs[Min(DOMAIN S.segs)] IN
         IF ~s.sealed /\ TailLast(S) = 0 THEN 0 ELSE s.min

\* Seeded bug: testSegment.GetLog without the MaxIndex > 0 guard, so a file
\* whose info is unsealed (MaxIndex 0) serves no index.
GetLogInNoMaxGuard(segs, i) ==
    LET bs == {b \in DOMAIN segs : b <= i} IN
    IF bs = {} THEN None
    ELSE LET f == files[segs[Max(bs)].id] IN
         IF f = None \/ i < f.min \/ i > f.max THEN None
         ELSE IF f.base <= i /\ i <= FileLast(f) THEN segs[Max(bs)].id
         ELSE None

\* state.getLog over segments segs: the segment with the greatest BaseIndex
\* not above i is asked for it.  testSegment.GetLog then checks the info
\* the file itself holds (the one Create or the last CommitState stored in
\* it, not the caller's): ErrNotFound below its MinIndex or, when its
\* MaxIndex is set, above it; otherwise the file has the entry or not.
\* The result is the id of the file serving it, or None for ErrNotFound.
GetLogIn(segs, i) ==
    LET bs == {b \in DOMAIN segs : b <= i} IN
    IF bs = {} THEN None
    ELSE LET f == files[segs[Max(bs)].id] IN
         IF f = None \/ i < f.min \/ (f.max > 0 /\ i > f.max) THEN None
         ELSE IF f.base <= i /\ i <= FileLast(f) THEN segs[Max(bs)].id
         ELSE None

\* Every entry GetLog returns over segments segs.
ViewOf(segs) ==
    LET present == {i \in Indexes : GetLogIn(segs, i) # None} IN
    [i \in present |-> GetLogIn(segs, i)]

-----------------------------------------------------------------------------
(* Transaction bodies (stateTxn).  Each returns the new state, the segment *)
(* whose file postCommit creates (or None), and the ids its finalizer      *)
(* deletes; ok is FALSE when the body returns an error.                    *)

TxResult(S, post, fin) == [ok |-> TRUE, st |-> S, post |-> post, fin |-> fin]
TxError == [ok |-> FALSE, st |-> EmptyState, post |-> None, fin |-> {}]

\* Seeded bug: the next base index skips one index.
CreateNextSegmentGap(S, fin) ==
    LET t  == TailInfo(S)
        nb == IF t # None THEN t.max + 2
              ELSE IF S.nextBase > 0 THEN S.nextBase ELSE 1
        nt == NewSegment(S.nextID, nb)
    IN TxResult([S EXCEPT !.nextID = @ + 1, !.segs = SetSeg(@, nt)], nt, fin)

\* createNextSegment: a new unsealed tail after the last segment's MaxIndex
\* (or at nextBaseIndex, or 1, when there is no segment left).
CreateNextSegment(S, fin) ==
    LET t  == TailInfo(S)
        nb == IF t # None THEN t.max + 1
              ELSE IF S.nextBase > 0 THEN S.nextBase ELSE 1
        nt == NewSegment(S.nextID, nb)
    IN TxResult([S EXCEPT !.nextID = @ + 1, !.segs = SetSeg(@, nt)], nt, fin)

\* Seeded bugs: the rotated tail is not marked sealed; it is sealed one
\* index short of the tail writer's last index.
RotateTxUnsealed(S) ==
    LET t == TailInfo(S) IN
    IF t = None THEN TxError
    ELSE CreateNextSegment(
           [S EXCEPT !.segs = SetSeg(@, [t EXCEPT !.max = TailLast(S)])], {})

RotateTxShort(S) ==
    LET t == TailInfo(S) IN
    IF t = None THEN TxError
    ELSE CreateNextSegment(
           [S EXCEPT !.segs = SetSeg(@, [t EXCEPT !.sealed = TRUE,
                                                  !.max = TailLast(S) - 1])], {})

\* rotateSegmentLocked: seal the last segment at the tail writer's last
\* index and start the next one.
RotateTx(S) ==
    LET t == TailInfo(S) IN
    IF t = None THEN TxError
    ELSE CreateNextSegment(
           [S EXCEPT !.segs = SetSeg(@, [t EXCEPT !.sealed = TRUE,
                                                  !.max = TailLast(S)])], {})

\* resetEmptyFirstSegmentBaseIndex: replace the empty tail by one that
\* starts at newBase.
ResetEmptyTx(S, newBase) ==
    LET t == TailInfo(S) IN
    IF LastIndex(S) > 0 THEN TxError
    ELSE IF t # None /\ t.base = newBase THEN TxResult(S, None, {})
    ELSE LET S1 == IF t = None THEN S
                   ELSE [S EXCEPT !.segs = DelSeg(@, t.base), !.tail = None]
         IN CreateNextSegment([S1 EXCEPT !.nextBase = newBase],
                              IF t = None THEN {} ELSE {t.id})

\* The loop of truncateHeadLocked: visit the segments in ascending order of
\* BaseIndex (bs are those not yet visited) and remove each one that ends
\* before newMin, until one that reaches it.  The tail's end is
\* state.lastIndex of the state as the loop has left it.
RECURSIVE HeadScan(_, _, _, _)
HeadScan(S, bs, newMin, dels) ==
    IF bs = {} THEN [st |-> S, head |-> None, dels |-> dels]
    ELSE LET b    == Min(bs)
             seg  == S.segs[b]
             keep == IF seg.sealed THEN seg.max >= newMin
                     ELSE LastIndex(S) >= newMin
         IN IF keep THEN [st |-> S, head |-> seg, dels |-> dels]
            ELSE HeadScan([S EXCEPT !.segs = DelSeg(@, b)], bs \ {b}, newMin,
                          dels \cup {seg.id})

\* truncateHeadLocked: drop the segments before newMin and raise the new
\* head's MinIndex; with nothing left, start an empty tail after the old
\* last index.
TruncateHeadTx(S, newMin) ==
    LET r == HeadScan(S, DOMAIN S.segs, newMin, {}) IN
    IF r.head # None
    THEN TxResult([r.st EXCEPT !.segs = SetSeg(@, [r.head EXCEPT !.min = newMin])],
                  None, r.dels)
    ELSE CreateNextSegment([r.st EXCEPT !.nextBase = LastIndex(S) + 1], r.dels)

\* Seeded bugs: the segment kept at the end is not sealed; it is sealed
\* one index past newMax.
TruncateTailTxUnsealed(S, newMax) ==
    LET gone == {b \in DOMAIN S.segs : b > newMax}
        S1   == [S EXCEPT !.segs = Restrict(@, DOMAIN @ \ gone)]
        t    == TailInfo(S1)
        S2   == IF t = None THEN S1
                ELSE [S1 EXCEPT !.segs = SetSeg(@, [t EXCEPT !.max = newMax])]
    IN CreateNextSegment(S2, {S.segs[b].id : b \in gone})

TruncateTailTxPastMax(S, newMax) ==
    LET gone == {b \in DOMAIN S.segs : b > newMax}
        S1   == [S EXCEPT !.segs = Restrict(@, DOMAIN @ \ gone)]
        t    == TailInfo(S1)
        S2   == IF t = None THEN S1
                ELSE [S1 EXCEPT !.segs = SetSeg(@, [t EXCEPT !.sealed = TRUE,
                                                            !.max = newMax + 1])]
    IN CreateNextSegment(S2, {S.segs[b].id : b \in gone})

\* truncateTailLocked: drop the segments that start after newMax, seal the
\* last one left at newMax and start a new tail after it.
TruncateTailTx(S, newMax) ==
    LET gone == {b \in DOMAIN S.segs : b > newMax}
        S1   == [S EXCEPT !.segs = Restrict(@, DOMAIN @ \ gone)]
        t    == TailInfo(S1)
        S2   == IF t = None THEN S1
                ELSE [S1 EXCEPT !.segs = SetSeg(@, [t EXCEPT !.sealed = TRUE,
                                                            !.max = newMax])]
    IN CreateNextSegment(S2, {S.segs[b].id : b \in gone})

-----------------------------------------------------------------------------
(* Open: recovery of the persisted segments (Open, lines 114-250).         *)

\* The loop over persisted.Segments fails: an unsealed segment that is not
\* the last, or a sealed one whose file sf.Open cannot find.
OpenFails(segs) ==
    \E b \in DOMAIN segs :
        IF segs[b].sealed THEN files[segs[b].id] = None
        ELSE b # Max(DOMAIN segs)

\* sf.List minus the segments still in the meta store: files left by a crash.
Orphans(segs) ==
    {id \in Ids : files[id] # None} \ {segs[b].id : b \in DOMAIN segs}

NoOne == [c \in Clients |-> None]

\* The test double can still return an injected error of kind k.
CanFail(k) == k \in FaultKinds /\ faults < MaxFaults

\* deleteSegments(del) on the files fs: a Delete that fails with deleteErr
\* is only logged and its file stays (kept); the others are removed.
Prune(fs, del) ==
    \E kept \in SUBSET del :
        /\ kept # {} => "delete" \in FaultKinds
        /\ faults' = faults + Cardinality(kept)
        /\ faults' <= MaxFaults
        /\ files' = [id \in Ids |-> IF id \in del \ kept THEN None ELSE fs[id]]

\* The volatile part of a freshly constructed WAL.
FreshInstance ==
    /\ closed' = FALSE
    /\ metaOpen' = TRUE
    /\ mu' = None
    /\ awaitRotate' = None
    /\ doneChans' = {}
    /\ trigBuf' = 0
    /\ trigClosed' = FALSE
    /\ txn' = None
    /\ pc' = [c \in Clients |-> "idle"]
    /\ arg' = NoOne
    /\ waitCh' = NoOne

\* Open may be called: on a stopped process, or on one whose WAL was
\* closed and whose calls, rotation goroutine and finalizers have all
\* finished.
OpenMayStart ==
    /\ \/ up = "down" /\ ~openErr
       \/ /\ up = "running" /\ closed /\ boot = None /\ rot = "exit"
          /\ pendingFin = {} /\ \A c \in Clients : pc[c] = "idle"
    /\ meta.nextID < MaxSegID

OpenStart ==
    /\ OpenMayStart
    /\ LET segs == meta.segs
           t    == TailInfo([segs |-> segs])
           del  == Orphans(segs)
       IN IF OpenFails(segs)
          THEN /\ openErr' = TRUE
               /\ up' = "down"
               /\ UNCHANGED <<meta, metaOpen, files, boot, closed, st, mu,
                              awaitRotate, doneChans, trigBuf, trigClosed, rot,
                              pc, arg, waitCh, txn, faults>>
          ELSE /\ FreshInstance
               /\ up' = "running"
               /\ UNCHANGED openErr
               /\ IF t # None /\ ~t.sealed
                  THEN \* RecoverTail, or Create when the file is missing;
                       \* then publish and delete the orphans.
                       /\ Prune([files EXCEPT ![t.id] =
                                    IF @ = None THEN NewFile(t)
                                    ELSE @], del)
                       /\ st' = [segs |-> segs, tail |-> t.id,
                                 nextID |-> meta.nextID, nextBase |-> 0]
                       /\ rot' = "recv"
                       /\ UNCHANGED <<meta, boot>>
                  ELSE \* No unsealed tail: commit a new segment at base 1.
                       LET si == NewSegment(meta.nextID, 1)
                           S  == [segs |-> SetSeg(segs, si), tail |-> None,
                                  nextID |-> meta.nextID + 1, nextBase |-> 0]
                       IN /\ meta' = Persistent(S)
                          /\ boot' = [st |-> S, si |-> si, del |-> del]
                          /\ UNCHANGED <<files, st, rot, faults>>
    /\ UNCHANGED <<pendingFin, crashes, panicked>>

\* Seeded bug: Open publishes its state without the new tail writer.
OpenFinishNoTail ==
    /\ boot # None
    /\ Prune([files EXCEPT ![boot.si.id] = NewFile(boot.si)],
             boot.del)
    /\ st' = boot.st
    /\ boot' = None
    /\ rot' = "recv"
    /\ UNCHANGED <<meta, metaOpen, up, closed, mu, awaitRotate, doneChans,
                   trigBuf, trigClosed, pc, arg, waitCh, txn, pendingFin,
                   crashes, panicked, openErr>>

\* Open creates the new tail's file, publishes, deletes the orphans and
\* starts runRotate.
OpenFinish ==
    /\ boot # None
    /\ Prune([files EXCEPT ![boot.si.id] = NewFile(boot.si)],
             boot.del)
    /\ st' = [boot.st EXCEPT !.tail = boot.si.id]
    /\ boot' = None
    /\ rot' = "recv"
    /\ UNCHANGED <<meta, metaOpen, up, closed, mu, awaitRotate, doneChans,
                   trigBuf, trigClosed, pc, arg, waitCh, txn, pendingFin,
                   crashes, panicked, openErr>>

-----------------------------------------------------------------------------
(* The process dies: a crash, or a panic of any goroutine.  The meta store *)
(* and the files stay; everything in memory, finalizers included, is gone. *)

\* Everything in memory is gone.
Stopped ==
    /\ up' = "down"
    /\ boot' = None
    /\ closed' = FALSE
    /\ st' = EmptyState
    /\ mu' = None
    /\ awaitRotate' = None
    /\ doneChans' = {}
    /\ trigBuf' = 0
    /\ trigClosed' = FALSE
    /\ rot' = "off"
    /\ pc' = [c \in Clients |-> "idle"]
    /\ arg' = NoOne
    /\ waitCh' = NoOne
    /\ txn' = None
    /\ pendingFin' = {}

Die == Stopped /\ UNCHANGED <<meta, metaOpen, files, openErr, faults>>

Crash ==
    /\ up = "running"
    /\ crashes < MaxCrashes
    /\ crashes' = crashes + 1
    /\ Die
    /\ UNCHANGED panicked

Panic ==
    /\ panicked' = TRUE
    /\ Die
    /\ UNCHANGED crashes

\* Seeded bug: Open creates the fresh tail's file before committing it, so
\* a Create that fails has registered a file the commit never names.
OpenErrCreateFirst ==
    /\ OpenMayStart
    /\ LET segs == meta.segs
           t    == TailInfo([segs |-> segs])
       IN \/ /\ CanFail("open")
             /\ UNCHANGED <<meta, files>>
          \/ /\ ~OpenFails(segs) /\ t # None /\ ~t.sealed /\ files[t.id] = None
             /\ CanFail("create")
             /\ files' = [files EXCEPT ![t.id] = NewFile(t)]
             /\ UNCHANGED meta
          \/ /\ ~OpenFails(segs) /\ ~(t # None /\ ~t.sealed)
             /\ CanFail("create")
             /\ files' = [files EXCEPT ![meta.nextID] = NewFile(NewSegment(meta.nextID, 1))]
             /\ UNCHANGED meta
    /\ faults' = faults + 1
    /\ Stopped
    /\ UNCHANGED <<metaOpen, openErr, crashes, panicked>>

\* Open returns an error the test double injects; no WAL is returned and
\* Open may be called again.  Load, List, a sealed segment's Open and
\* RecoverTail fail without effect (the "open" kind); Create of a missing
\* tail registers the file before failing, and CommitState of a fresh
\* tail stores it before failing (lines 127-219).
OpenErr ==
    /\ OpenMayStart
    /\ LET segs == meta.segs
           t    == TailInfo([segs |-> segs])
       IN \/ /\ CanFail("open")
             /\ UNCHANGED <<meta, files>>
          \/ /\ ~OpenFails(segs) /\ t # None /\ ~t.sealed /\ files[t.id] = None
             /\ CanFail("create")
             /\ files' = [files EXCEPT ![t.id] = NewFile(t)]
             /\ UNCHANGED meta
          \/ /\ ~OpenFails(segs) /\ ~(t # None /\ ~t.sealed)
             /\ CanFail("commit")
             /\ meta' = [nextID |-> meta.nextID + 1,
                         segs |-> SetSeg(segs, NewSegment(meta.nextID, 1))]
             /\ UNCHANGED files
    /\ faults' = faults + 1
    /\ Stopped
    /\ UNCHANGED <<metaOpen, openErr, crashes, panicked>>

\* Open's Create of the fresh tail fails with createErr after registering
\* the file; Open returns the error after the commit (lines 225-229).
OpenCreateErr ==
    /\ boot # None
    /\ CanFail("create")
    /\ files' = [files EXCEPT ![boot.si.id] = NewFile(boot.si)]
    /\ faults' = faults + 1
    /\ Stopped
    /\ UNCHANGED <<meta, metaOpen, openErr, crashes, panicked>>

\* A retired state's last reader releases it and its finalizer deletes a
\* retired segment's file (deleteSegments).
Finalize ==
    /\ \E id \in pendingFin :
          /\ pendingFin' = pendingFin \ {id}
          /\ Prune(files, {id})
    /\ UNCHANGED <<meta, metaOpen, up, boot, closed, st, mu, awaitRotate,
                   doneChans, trigBuf, trigClosed, rot, pc, arg, waitCh, txn,
                   crashes, panicked, openErr>>

-----------------------------------------------------------------------------
(* mutateStateLocked (lines 274-299), in two steps: the transaction body   *)
(* and the meta commit, then postCommit and publishing.  A crash between   *)
(* them leaves the meta store naming a segment whose file does not exist;  *)
(* so does a postCommit whose Create fails, after which the in-memory      *)
(* state is left as it was before the commit.                              *)

\* testStorage.CommitState also stores each committed SegmentInfo in the
\* file of that id, if there is one (base, MinIndex and MaxIndex; the
\* double's Sealed ignores the info's Sealed flag).
CommitInfos(segs) ==
    LET Info(f) == [base |-> f.base, min |-> f.min, max |-> f.max]
        stale == {b \in DOMAIN segs :
                    /\ files[segs[b].id] # None
                    /\ Info(files[segs[b].id]) # Info(segs[b])}
    IN IF stale = {} THEN files
       ELSE [id \in Ids |->
               IF \E b \in stale : segs[b].id = id
               THEN LET s == segs[CHOOSE b \in stale : segs[b].id = id] IN
                    [files[id] EXCEPT !.base = s.base, !.min = s.min, !.max = s.max]
               ELSE files[id]]

\* Run body tx for owner o (who holds writeMu) and commit its state.  The
\* callers return the error when tx fails or the meta store is closed.
\* The body's result is bound once (t) so that it is computed once, also
\* when TLC evaluates ENABLED for the fairness conditions.
BeginTxn(o, tx) ==
    \E t \in {tx} :
    /\ t.ok
    /\ metaOpen
    /\ meta' = Persistent(t.st)
    /\ files' = CommitInfos(t.st.segs)
    /\ txn' = [owner |-> o, st |-> t.st, post |-> t.post, fin |-> t.fin]

\* testStorage.CommitState stores the state and the infos, then returns
\* commitErr; mutateStateLocked returns that error before postCommit, so
\* nothing is published and no finalizer is attached.
CommitErr(tx) ==
    \E t \in {tx} :
    /\ t.ok
    /\ metaOpen
    /\ CanFail("commit")
    /\ meta' = Persistent(t.st)
    /\ files' = CommitInfos(t.st.segs)
    /\ faults' = faults + 1

\* Seeded bug: postCommit creates the file but the published state keeps
\* the old tail writer.
PublishNoTail ==
    /\ txn # None
    /\ txn.post # None => files[txn.post.id] = None
    /\ UNCHANGED faults
    /\ files' = IF txn.post = None THEN files
                ELSE [files EXCEPT ![txn.post.id] = NewFile(txn.post)]
    /\ st' = txn.st
    /\ pendingFin' = pendingFin \cup txn.fin
    /\ txn' = None

\* postCommit creates the new segment's file and installs its writer as the
\* tail; then the new state is published and the finalizer is attached to
\* the old one.
Publish ==
    /\ txn # None
    /\ txn.post # None => files[txn.post.id] = None
    /\ UNCHANGED faults
    /\ files' = IF txn.post = None THEN files
                ELSE [files EXCEPT ![txn.post.id] = NewFile(txn.post)]
    /\ st' = IF txn.post = None THEN txn.st ELSE [txn.st EXCEPT !.tail = txn.post.id]
    /\ pendingFin' = pendingFin \cup txn.fin
    /\ txn' = None

\* postCommit's Create fails (testStorage.Create): with "segment ID already
\* exists" when the file is there, else, within the fault budget, with
\* createErr after registering the file.  mutateStateLocked returns the
\* error: nothing is published and no finalizer is attached.
PostCommitErr ==
    /\ txn # None
    /\ txn.post # None
    /\ \/ /\ files[txn.post.id] # None
          /\ UNCHANGED <<files, faults>>
       \/ /\ files[txn.post.id] = None
          /\ CanFail("create")
          /\ files' = [files EXCEPT ![txn.post.id] = NewFile(txn.post)]
          /\ faults' = faults + 1
    /\ txn' = None
    /\ UNCHANGED <<st, pendingFin>>

-----------------------------------------------------------------------------
(* Calls.  Every call first checks w.closed (checkClosed, or the swap of   *)
(* Close) and returns ErrClosed, or nil for a repeated Close.              *)

Busy == {c \in Clients : pc[c] # "idle"}

\* Segment ids that calls in flight (a reset and a rotation each, at most)
\* and a pending rotation may still take: a new call starts only when its
\* own two ids fit in the id space too.  Reopening takes one more id and
\* is guarded on its own.
IdsNeeded == 2 * Cardinality(Busy) + (IF awaitRotate # None THEN 1 ELSE 0)

Invoke(c) ==
    /\ up = "running"
    /\ boot = None
    /\ pc[c] = "idle"
    /\ meta.nextID + IdsNeeded + 2 <= MaxSegID
    /\ \E o \in Ops, r \in Requests :
          /\ r \in ReqsOf(o)
          /\ IF closed
             THEN UNCHANGED <<closed, pc, arg>>
             ELSE /\ arg' = [arg EXCEPT ![c] = r]
                  /\ closed' = (o = "close")
                  /\ pc' = [pc EXCEPT ![c] = CASE o = "store" -> "SL_lock"
                                                 [] o = "front" -> "TF_lock"
                                                 [] o = "back"  -> "TB_lock"
                                                 [] o = "close" -> "CL_lock"]
    /\ UNCHANGED <<meta, metaOpen, files, up, boot, st, mu, awaitRotate,
                   doneChans, trigBuf, trigClosed, rot, waitCh, txn, pendingFin,
                   crashes, panicked, openErr, faults>>

\* The call of c returns, releasing writeMu.
Return(c) ==
    /\ pc' = [pc EXCEPT ![c] = "idle"]
    /\ mu' = None

UNCHANGED_Rot == UNCHANGED <<rot, trigClosed, doneChans>>
UNCHANGED_Call == UNCHANGED <<up, boot, closed, crashes, panicked, openErr,
                              metaOpen, arg>>
UNCHANGED_Env == UNCHANGED_Call /\ UNCHANGED faults

\* StoreLogs takes writeMu; with a rotation in flight it drops writeMu and
\* waits for awaitRotate to close, then takes writeMu again (lines 369-379).
SLLock(c) ==
    /\ pc[c] = "SL_lock"
    /\ mu = None
    /\ IF awaitRotate # None
       THEN /\ waitCh' = [waitCh EXCEPT ![c] = awaitRotate]
            /\ pc' = [pc EXCEPT ![c] = "SL_wait"]
            /\ UNCHANGED mu
       ELSE /\ mu' = c
            /\ pc' = [pc EXCEPT ![c] = "SL_body"]
            /\ UNCHANGED waitCh
    /\ UNCHANGED <<meta, files, st, awaitRotate, trigBuf, txn, pendingFin>>
    /\ UNCHANGED_Rot /\ UNCHANGED_Env

SLWait(c) ==
    /\ pc[c] = "SL_wait"
    /\ waitCh[c] \in doneChans
    /\ pc' = [pc EXCEPT ![c] = "SL_relock"]
    /\ waitCh' = [waitCh EXCEPT ![c] = None]
    /\ UNCHANGED <<meta, files, st, mu, awaitRotate, trigBuf, txn, pendingFin>>
    /\ UNCHANGED_Rot /\ UNCHANGED_Env

SLRelock(c) ==
    /\ pc[c] = "SL_relock"
    /\ mu = None
    /\ mu' = c
    /\ pc' = [pc EXCEPT ![c] = "SL_body"]
    /\ UNCHANGED <<meta, files, st, waitCh, awaitRotate, trigBuf, txn, pendingFin>>
    /\ UNCHANGED_Rot /\ UNCHANGED_Env

\* Seeded bug: the tail writer appends to a file that is already full.
AppendBatchIgnoreSealed(c, lastIdx) ==
    LET r  == arg[c]
        f  == files[st.tail]
        f2 == [f EXCEPT !.n = @ + (r.hi - r.lo + 1)]
    IN
    IF \/ lastIdx > 0 /\ r.lo # lastIdx + 1
       \/ st.tail = None \/ files[st.tail] = None
       \/ r.lo # f.base + f.n
    THEN /\ Return(c)
         /\ UNCHANGED <<files, awaitRotate>>
    ELSE /\ files' = [files EXCEPT ![st.tail] = f2]
         /\ IF FileSealed(f2) /\ ~closed
            THEN /\ awaitRotate' = st.tail
                 /\ pc' = [pc EXCEPT ![c] = "SL_send"]
                 /\ UNCHANGED mu
            ELSE /\ Return(c)
                 /\ UNCHANGED awaitRotate

\* The rest of StoreLogs (lines 420-445) with lastIdx read before any reset:
\* the monotonicity check, the tail writer's Append (testSegment.Append:
\* ErrSealed on a full file, an error unless the batch starts right after
\* the file's last entry), then Sealed and triggerRotateLocked.
AppendBatch(c, lastIdx) ==
    LET r  == arg[c]
        f  == files[st.tail]
        f2 == [f EXCEPT !.n = @ + (r.hi - r.lo + 1)]
    IN
    IF \/ lastIdx > 0 /\ r.lo # lastIdx + 1
       \/ st.tail = None \/ files[st.tail] = None
       \/ FileSealed(f) \/ r.lo # f.base + f.n
    THEN /\ Return(c)
         /\ UNCHANGED <<files, awaitRotate>>
    ELSE /\ files' = [files EXCEPT ![st.tail] = f2]
         /\ IF FileSealed(f2) /\ ~closed
            THEN /\ awaitRotate' = st.tail
                 /\ pc' = [pc EXCEPT ![c] = "SL_send"]
                 /\ UNCHANGED mu
            ELSE /\ Return(c)
                 /\ UNCHANGED awaitRotate

\* StoreLogs holding writeMu: on an empty log whose tail starts elsewhere,
\* first resetEmptyFirstSegmentBaseIndex (a transaction); getTailInfo is
\* nil on the state Close published and dereferencing it panics (line 407).
SLBody(c) ==
    /\ pc[c] = "SL_body"
    /\ LET lastIdx == LastIndex(st)
           ti      == TailInfo(st)
       IN
       IF lastIdx = 0 /\ ti = None THEN Panic
       ELSE /\ IF lastIdx = 0 /\ arg[c].lo # ti.base
               THEN LET tx == ResetEmptyTx(st, arg[c].lo) IN
                    IF tx.ok /\ metaOpen
                    THEN \/ /\ BeginTxn(c, tx)
                            /\ pc' = [pc EXCEPT ![c] = "SL_resetPost"]
                            /\ UNCHANGED <<mu, awaitRotate, faults>>
                         \/ /\ CommitErr(tx)
                            /\ Return(c)
                            /\ UNCHANGED <<txn, awaitRotate>>
                    ELSE /\ Return(c)
                         /\ UNCHANGED <<meta, txn, files, awaitRotate, faults>>
               ELSE /\ AppendBatch(c, lastIdx)
                    /\ UNCHANGED <<meta, txn, faults>>
            /\ UNCHANGED <<st, waitCh, trigBuf, pendingFin>>
            /\ UNCHANGED_Rot /\ UNCHANGED_Call

\* The reset's postCommit and publish; StoreLogs returns its error.
SLResetPost(c) ==
    /\ pc[c] = "SL_resetPost"
    /\ \/ /\ Publish
          /\ pc' = [pc EXCEPT ![c] = "SL_append"]
          /\ UNCHANGED mu
       \/ /\ PostCommitErr
          /\ Return(c)
    /\ UNCHANGED <<meta, waitCh, awaitRotate, trigBuf>>
    /\ UNCHANGED_Rot /\ UNCHANGED_Call

SLAppend(c) ==
    /\ pc[c] = "SL_append"
    /\ AppendBatch(c, 0)
    /\ UNCHANGED <<meta, st, waitCh, trigBuf, txn, pendingFin>>
    /\ UNCHANGED_Rot /\ UNCHANGED_Env

\* triggerRotateLocked sends on the 1-buffered triggerRotate while holding
\* writeMu; the send blocks while the buffer is full and panics on a closed
\* channel.
SLSend(c) ==
    /\ pc[c] = "SL_send"
    /\ trigBuf = 0 \/ trigClosed
    /\ IF trigClosed
       THEN Panic
       ELSE /\ trigBuf' = 1
            /\ Return(c)
            /\ UNCHANGED <<meta, files, st, waitCh, awaitRotate, txn, pendingFin>>
            /\ UNCHANGED_Rot /\ UNCHANGED_Env

\* TruncateFront and TruncateBack take writeMu, check the index against the
\* state (a no-op, or ErrOutOfRange) and run their transaction
\* (lines 448-500).
TFLock(c) ==
    /\ pc[c] = "TF_lock"
    /\ mu = None
    /\ LET tx == TruncateHeadTx(st, arg[c].idx) IN
       IF arg[c].idx >= FirstIndex(st) /\ tx.ok /\ metaOpen
       THEN \/ /\ BeginTxn(c, tx)
               /\ mu' = c
               /\ pc' = [pc EXCEPT ![c] = "TF_post"]
               /\ UNCHANGED faults
            \/ /\ CommitErr(tx)
               /\ Return(c)
               /\ UNCHANGED txn
       ELSE /\ Return(c)
            /\ UNCHANGED <<meta, txn, files, faults>>
    /\ UNCHANGED <<st, waitCh, awaitRotate, trigBuf, pendingFin>>
    /\ UNCHANGED_Rot /\ UNCHANGED_Call

TBLock(c) ==
    /\ pc[c] = "TB_lock"
    /\ mu = None
    /\ LET i  == arg[c].idx
           tx == TruncateTailTx(st, i)
       IN
       IF i <= LastIndex(st) /\ i >= FirstIndex(st) /\ tx.ok /\ metaOpen
       THEN \/ /\ BeginTxn(c, tx)
               /\ mu' = c
               /\ pc' = [pc EXCEPT ![c] = "TB_post"]
               /\ UNCHANGED faults
            \/ /\ CommitErr(tx)
               /\ Return(c)
               /\ UNCHANGED txn
       ELSE /\ Return(c)
            /\ UNCHANGED <<meta, txn, files, faults>>
    /\ UNCHANGED <<st, waitCh, awaitRotate, trigBuf, pendingFin>>
    /\ UNCHANGED_Rot /\ UNCHANGED_Call

\* The second half of a truncation: postCommit and publish, or the error
\* of postCommit; then return.
TruncPost(c) ==
    /\ pc[c] \in {"TF_post", "TB_post"}
    /\ Publish \/ PostCommitErr
    /\ Return(c)
    /\ UNCHANGED <<meta, waitCh, awaitRotate, trigBuf>>
    /\ UNCHANGED_Rot /\ UNCHANGED_Call

\* Close, after setting w.closed: take writeMu, drop awaitRotate without
\* closing it, close triggerRotate, publish the zero state and close the
\* meta store (lines 835-877).  Its finalizer only closes readers.
CLLock(c) ==
    /\ pc[c] = "CL_lock"
    /\ mu = None
    /\ awaitRotate' = None
    /\ trigClosed' = TRUE
    /\ st' = EmptyState
    /\ metaOpen' = FALSE
    /\ Return(c)
    /\ UNCHANGED <<meta, files, waitCh, trigBuf, txn, pendingFin, rot, doneChans>>
    /\ UNCHANGED <<up, boot, closed, crashes, panicked, openErr, arg, faults>>

-----------------------------------------------------------------------------
(* runRotate (lines 510-540).                                              *)

\* Receive an indexStart, or the zero value once triggerRotate is closed.
RotRecv ==
    /\ rot = "recv"
    /\ trigBuf = 1 \/ trigClosed
    /\ trigBuf' = 0
    /\ rot' = "lock"
    /\ UNCHANGED <<meta, files, st, mu, awaitRotate, doneChans, trigClosed, pc,
                   waitCh, txn, pendingFin>>
    /\ UNCHANGED_Env

\* Seeded bugs: runRotate never closes done; it closes done but leaves
\* w.awaitRotate set.
CloseDoneNoClose ==
    /\ doneChans' = doneChans
    /\ awaitRotate' = None

CloseDoneKeep ==
    /\ doneChans' = doneChans \cup {awaitRotate}
    /\ awaitRotate' = awaitRotate

\* done := w.awaitRotate; w.awaitRotate = nil; close(done).
CloseDone ==
    /\ doneChans' = doneChans \cup {awaitRotate}
    /\ awaitRotate' = None

\* Take writeMu; exit if closed, else rotateSegmentLocked.  An error from
\* the transaction is only logged.
RotLock ==
    /\ rot = "lock"
    /\ mu = None
    /\ LET tx == RotateTx(st) IN
       IF ~closed /\ ~(tx.ok /\ metaOpen) /\ awaitRotate = None
       THEN Panic                               \* close of a nil channel
       ELSE /\ IF closed
               THEN /\ rot' = "exit"
                    /\ UNCHANGED <<meta, files, txn, mu, awaitRotate, doneChans,
                                   faults>>
               ELSE IF tx.ok /\ metaOpen
               THEN \/ /\ BeginTxn(Rotator, tx)
                       /\ mu' = Rotator
                       /\ rot' = "post"
                       /\ UNCHANGED <<awaitRotate, doneChans, faults>>
                    \/ /\ CommitErr(tx)             \* only logged
                       /\ CloseDone
                       /\ rot' = "recv"
                       /\ UNCHANGED <<txn, mu>>
               ELSE /\ CloseDone
                    /\ rot' = "recv"
                    /\ UNCHANGED <<meta, files, txn, mu, faults>>
            /\ UNCHANGED <<st, trigBuf, trigClosed, pc, waitCh, pendingFin>>
            /\ UNCHANGED_Call

\* Seeded bug: runRotate returns early on the rotation's error and never
\* closes done.
RotPostErrKeepsWaiters ==
    /\ rot = "post"
    /\ IF awaitRotate = None THEN Panic
       ELSE /\ \/ Publish /\ CloseDone
               \/ PostCommitErr /\ UNCHANGED <<doneChans, awaitRotate>>
            /\ mu' = None
            /\ rot' = "recv"
            /\ UNCHANGED <<meta, trigBuf, trigClosed, pc, waitCh>>
            /\ UNCHANGED_Call

\* postCommit and publish, or postCommit's error, which runRotate only
\* logs; then close done and release writeMu.
RotPost ==
    /\ rot = "post"
    /\ IF awaitRotate = None THEN Panic    \* close of a nil channel
       ELSE /\ Publish \/ PostCommitErr
            /\ CloseDone
            /\ mu' = None
            /\ rot' = "recv"
            /\ UNCHANGED <<meta, trigBuf, trigClosed, pc, waitCh>>
            /\ UNCHANGED_Call

-----------------------------------------------------------------------------

Init ==
    /\ meta = [nextID |-> 0, segs |-> <<>>]
    /\ metaOpen = TRUE
    /\ files = [id \in Ids |-> None]
    /\ up = "down"
    /\ boot = None
    /\ closed = FALSE
    /\ st = EmptyState
    /\ mu = None
    /\ awaitRotate = None
    /\ doneChans = {}
    /\ trigBuf = 0
    /\ trigClosed = FALSE
    /\ rot = "off"
    /\ pc = [c \in Clients |-> "idle"]
    /\ arg = NoOne
    /\ waitCh = NoOne
    /\ txn = None
    /\ pendingFin = {}
    /\ crashes = 0
    /\ panicked = FALSE
    /\ openErr = FALSE
    /\ faults = 0

\* The steps of a call that wait for writeMu, and the others.
LockStep(c) == SLLock(c) \/ SLRelock(c) \/ TFLock(c) \/ TBLock(c) \/ CLLock(c)
RunStep(c) ==
    \/ SLWait(c) \/ SLBody(c) \/ SLResetPost(c) \/ SLAppend(c) \/ SLSend(c)
    \/ TruncPost(c)

ClientStep(c) == LockStep(c) \/ RunStep(c)

Next ==
    \/ \E c \in Clients : Invoke(c) \/ ClientStep(c)
    \/ RotRecv \/ RotLock \/ RotPost
    \/ OpenStart \/ OpenFinish \/ Crash \/ Finalize
    \/ OpenErr \/ OpenCreateErr

\* Goroutines that have started keep running: each call in flight and the
\* rotation goroutine make progress, and Go's sync.Mutex (with its
\* starvation mode) eventually grants writeMu to a waiter.  Readers release
\* their states, so finalizers run.  Calls, crashes and restarts are not
\* forced.  A call is at one program point at a time, so fairness of the
\* disjunction of its steps is fairness of each.
Fairness ==
    /\ \A c \in Clients : SF_vars(LockStep(c)) /\ WF_vars(RunStep(c))
    /\ WF_vars(RotRecv \/ RotPost) /\ SF_vars(RotLock)
    /\ WF_vars(OpenFinish) /\ WF_vars(Finalize)

Spec == Init /\ [][Next]_vars
FairSpec == Spec /\ Fairness

-----------------------------------------------------------------------------
(* Properties.                                                             *)

PCs == {"idle", "SL_lock", "SL_wait", "SL_relock", "SL_body", "SL_resetPost",
        "SL_append", "SL_send", "TF_lock", "TF_post", "TB_lock", "TB_post",
        "CL_lock"}

SegInfos == [id : Ids, base : 1..MaxIndex + 1, min : 1..MaxIndex + 1,
             max : 0..MaxIndex, sealed : BOOLEAN]

IsSegMap(m) == DOMAIN m \subseteq 1..MaxIndex + 1 /\ \A b \in DOMAIN m : m[b] \in SegInfos

IsState(S) == IsSegMap(S.segs) /\ S.tail \in Ids \cup {None}
              /\ S.nextID \in 0..MaxSegID /\ S.nextBase \in 0..MaxIndex + 1

TypeOK ==
    /\ meta.nextID \in 0..MaxSegID /\ IsSegMap(meta.segs)
    /\ files \in [Ids -> [base : 1..MaxIndex + 1, min : 1..MaxIndex + 1,
                          max : 0..MaxIndex, n : 0..MaxIndex] \cup {None}]
    /\ up \in {"running", "down"}
    /\ IsState(st)
    /\ mu \in Clients \cup {Rotator, None}
    /\ awaitRotate \in Ids \cup {None} /\ doneChans \subseteq Ids
    /\ trigBuf \in 0..1 /\ rot \in {"off", "recv", "lock", "post", "exit"}
    /\ pc \in [Clients -> PCs] /\ arg \in [Clients -> Requests \cup {None}]
    /\ waitCh \in [Clients -> Ids \cup {None}]
    /\ txn = None \/ (IsState(txn.st) /\ txn.fin \subseteq Ids)
    /\ pendingFin \subseteq Ids
    /\ crashes \in 0..MaxCrashes /\ faults \in 0..MaxFaults
    /\ {metaOpen, closed, trigClosed, panicked, openErr} \subseteq BOOLEAN

\* The WAL instance is up, open, and not in the middle of Open.
Serving == up = "running" /\ ~closed /\ boot = None

\* The segment after base b in segs.
NextBase(segs, b) == Min({x \in DOMAIN segs : x > b})

(* Committing the metadata before creating a segment's file, as Open and  *)
(* mutateStateLocked do "so we don't attempt to recreate files with       *)
(* duplicate IDs on a later failure" (lines 219-220), keeps every file on *)
(* disk below the NextSegmentID the meta store will hand out next, across *)
(* failed Creates and commits, crashes and retried Opens.                 *)
FilesBelowNextID == \A id \in Ids : files[id] # None => id < meta.nextID

(* Whatever the interleaving of calls, rotations and crashes, the metadata *)
(* committed to the meta store can always be recovered by Open (every     *)
(* sealed segment's file exists, the only unsealed segment is the last,   *)
(* as assertValidMetaState in the tests demands of committed state),      *)
(* every segment id is below NextSegmentID, and the segments tile the log: *)
(* each starts right after its predecessor's MaxIndex and a sealed one     *)
(* ends at or after its MinIndex.                                          *)
RecoverableMeta ==
    LET segs == meta.segs IN
    /\ ~OpenFails(segs)
    /\ DOMAIN segs # {} => ~segs[Max(DOMAIN segs)].sealed
    /\ \A b \in DOMAIN segs :
          /\ segs[b].base = b
          /\ segs[b].id < meta.nextID
          /\ b <= segs[b].min
          /\ segs[b].sealed => segs[b].min <= segs[b].max
          /\ b # Max(DOMAIN segs) => NextBase(segs, b) = segs[b].max + 1

(* Two-phase commit of mutateStateLocked: whenever no transaction is in   *)
(* flight, the published in-memory state is exactly the committed         *)
(* metadata, and its tail writer is the file of the last segment.         *)
PublishedMatchesMeta ==
    (Serving /\ txn = None) =>
        /\ Persistent(st) = meta
        /\ TailInfo(st) # None
        /\ st.tail = TailInfo(st).id

(* The tail writer's Append only ever writes to the file that the         *)
(* committed metadata names as its unsealed last segment: Open recovers   *)
(* exactly that file as the tail, so an entry StoreLogs writes anywhere    *)
(* else is acknowledged and then lost at the next restart (spec 5: after  *)
(* a successful StoreLogs the entries are durable).                       *)
AppendsToMetaTail ==
    [][\A id \in Ids :
          (files[id] # None /\ files'[id] # None /\ files'[id].n > files[id].n)
             => LET t == TailInfo(meta) IN t # None /\ t.id = id /\ ~t.sealed]_vars

(* Between transactions, FirstIndex and LastIndex of the published state *)
(* (state.firstIndex, state.lastIndex, computed from MinIndex, MaxIndex   *)
(* and the tail writer) bound exactly the indexes GetLog returns an entry *)
(* for, reading each file's own info, and those form one interval.  While *)
(* mutateStateLocked is between CommitState, which rewrites the files'    *)
(* infos, and publishing, they differ; after a commitErr they differ      *)
(* until the next transaction publishes (stale_infos_commit_err.cfg).     *)
IndexesAgree ==
    (Serving /\ txn = None) =>
        LET v == ViewOf(st.segs)
            first == FirstIndex(st)
            last  == LastIndex(st)
        IN /\ DOMAIN v = {i \in Indexes : first <= i /\ i <= last}
           /\ (DOMAIN v = {}) = (first = 0 /\ last = 0)

(* A StoreLogs that has passed the awaitRotate check finds a tail that can *)
(* still take entries: a sealed tail would fail every append with          *)
(* ErrSealed, and only a rotation replaces it.                             *)
StoreSeesWritableTail ==
    \A c \in Clients :
        (pc[c] = "SL_body" /\ st.tail # None /\ files[st.tail] # None)
            => ~FileSealed(files[st.tail])

(* No goroutine panics: not StoreLogs on the state Close left behind, not *)
(* a send on the closed triggerRotate, not a close of a nil awaitRotate.  *)
NoPanic == ~panicked

(* triggerRotateLocked never finds the 1-buffered triggerRotate full: a   *)
(* full buffer would block StoreLogs while it holds writeMu.             *)
TriggerNeverBlocks ==
    \A c \in Clients : pc[c] = "SL_send" => trigBuf = 0

(* Every call that has started returns (or dies with the process).       *)
ClientsReturn == \A c \in Clients : pc[c] # "idle" ~> pc[c] = "idle"

(* A rotation that StoreLogs hands off is eventually finished (or given   *)
(* up by Close or a crash), so later StoreLogs calls stop waiting.        *)
RotationCompletes == awaitRotate # None ~> awaitRotate = None

-----------------------------------------------------------------------------
(* Refinement: the durable log (what GetLog returns over the committed    *)
(* metadata and the files on disk) implements LogStore, each call taking  *)
(* effect at its meta commit or at the tail writer's Append.               *)

\* The program points at which a call has not yet taken effect.
Pending == {"SL_lock", "SL_wait", "SL_relock", "SL_body", "SL_resetPost",
            "SL_append", "TF_lock", "TB_lock"}

ReqOf(c) == IF pc[c] \in Pending THEN arg[c] ELSE None

Abstract == INSTANCE LogStore WITH
                log <- ViewOf(meta.segs),
                req <- [c \in Clients |-> ReqOf(c)],
                Data <- Ids,
                NoReq <- None

(* The WAL's durable log is a behaviour of LogStore: entries are only     *)
(* added by a StoreLogs that follows the last entry, only removed by a    *)
(* truncation that was called, and never change once written.            *)
LogSpec == Abstract!Spec

=============================================================================
