------------------------------- MODULE StateRefs -------------------------------
(***************************************************************************)
(* The reader protocol of the published state (src/wal.go with the state  *)
(* type of spec section 4.1, whose source is not in the repository): a     *)
(* reader loads w.s and then acquires it (acquireState, two separate      *)
(* steps); a writer holding writeMu acquires the current state, publishes  *)
(* its successor, stores the old state's finalizer and releases its own    *)
(* reference (mutateStateLocked, and Close the same way).  The release     *)
(* that brings a state's count to zero swaps its one-shot finalizer slot   *)
(* to nil and runs what it took out; the finalizer closes and deletes the  *)
(* files the successor no longer uses.                                     *)
(*                                                                         *)
(* States are numbered by version.  The writer's calls under writeMu are *)
(* StoreLogs and the truncations, which hold a snapshot of their own       *)
(* across an optional mutateStateLocked (StoreLogs re-reads the state      *)
(* after its empty-log reset), runRotate's rotation, and Close, which      *)
(* publishes the empty state and attaches a closer to the old one.  A      *)
(* transaction may also fail before it publishes.                          *)
(***************************************************************************)
EXTENDS Naturals, FiniteSets, Sequences

CONSTANTS
    Readers,      \* goroutines in FirstIndex, LastIndex, GetLog
    MaxVersions   \* states the writer publishes after Open's

Versions == 0..MaxVersions

VARIABLES
    cur,          \* the version w.s points to
    refs,         \* refs[v]: the reference count of version v
    fin,          \* fin[v]: "nil" or "set", version v's finalizer slot
    finRuns,      \* finRuns[v]: how often version v's finalizer has run
    wpc,          \* the writer's program point (WPCs)
    wop,          \* the writer's call: "store", "trunc", "rotate" or "close"
    ws,           \* the version mutateStateLocked holds
    sl,           \* the snapshots the call holds, in acquisition order
    closed,       \* Close has replaced the state
    rpc,          \* rpc[r]: "idle", "loaded" or "held"
    rv            \* rv[r]: the version reader r loaded

vars == <<cur, refs, fin, finRuns, wpc, wop, ws, sl, closed, rpc, rv>>

WPCs == {"idle", "call", "held", "published", "finSet", "reread", "unwind"}

\* The files of version v are closed once its finalizer has run.
Retired(v) == finRuns[v] > 0

\* Seeded bug: the slot is read, not swapped, so a later release at zero
\* runs the same finalizer again.
ReleaseNoSwap(v) ==
    /\ refs' = [refs EXCEPT ![v] = @ - 1]
    /\ IF refs[v] = 1
       THEN /\ finRuns' = [finRuns EXCEPT ![v] = @ + (IF fin[v] = "set" THEN 1 ELSE 0)]
            /\ UNCHANGED fin
       ELSE UNCHANGED <<fin, finRuns>>

\* state.release (spec 4.1): drop one reference; at zero, swap the
\* finalizer slot to nil and run the finalizer taken out, if any.
Release(v) ==
    /\ refs' = [refs EXCEPT ![v] = @ - 1]
    /\ IF refs[v] = 1
       THEN /\ fin' = [fin EXCEPT ![v] = "nil"]
            /\ finRuns' = [finRuns EXCEPT ![v] = @ + (IF fin[v] = "set" THEN 1 ELSE 0)]
       ELSE UNCHANGED <<fin, finRuns>>

Init ==
    /\ cur = 0
    /\ refs = [v \in Versions |-> 0]
    /\ fin = [v \in Versions |-> "nil"]
    /\ finRuns = [v \in Versions |-> 0]
    /\ wpc = "idle"
    /\ wop = "store"
    /\ ws = 0
    /\ sl = <<>>
    /\ closed = FALSE
    /\ rpc = [r \in Readers |-> "idle"]
    /\ rv = [r \in Readers |-> 0]

\* The finalizer each transaction hands mutateStateLocked: a rotation
\* returns none (wal.go 564), the empty-log reset none when the tail
\* already has the wanted base (638) and a closer of the old tail
\* otherwise, a truncation always one (728, 794), and Close attaches the
\* closer of every open segment (872).
Finalizers(op) ==
    CASE op = "rotate" -> {"nil"}
      [] op = "store"  -> {"nil", "set"}
      [] OTHER         -> {"set"}

\* The state release after the snapshot holder's return: StoreLogs goes
\* on to re-read the state, the truncations unwind, runRotate and Close
\* hold no snapshot.
AfterMutate(op) ==
    CASE op = "store" -> "reread"
      [] op = "trunc" -> "unwind"
      [] OTHER        -> "idle"

Push(v) ==
    /\ sl' = Append(sl, v)
    /\ refs' = [refs EXCEPT ![v] = @ + 1]

\* StoreLogs, TruncateFront, TruncateBack under writeMu:
\* s, release := w.acquireState(); defer release().  No writer can
\* publish in between, so the load and the acquire are one step here.
CallAcquire ==
    /\ wpc = "idle"
    /\ ~closed
    /\ \E op \in {"store", "trunc"} : wop' = op
    /\ Push(cur)
    /\ wpc' = "call"
    /\ UNCHANGED <<cur, fin, finRuns, ws, closed, rpc, rv>>

\* The call returns without a transaction: an append to the tail, or a
\* no-op truncation.
CallNoMutate ==
    /\ wpc = "call"
    /\ wpc' = "unwind"
    /\ UNCHANGED <<cur, refs, fin, finRuns, wop, ws, sl, closed, rpc, rv>>

\* mutateStateLocked: s := w.loadState(); s.acquire(), called by a
\* snapshot holder, by runRotate, or as Close's own replacement.
WAcquire ==
    /\ \/ wpc = "call" /\ UNCHANGED wop
       \/ wpc = "idle" /\ ~closed /\ \E op \in {"rotate", "close"} : wop' = op
    /\ cur < MaxVersions
    /\ ws' = cur
    /\ refs' = [refs EXCEPT ![cur] = @ + 1]
    /\ wpc' = "held"
    /\ UNCHANGED <<cur, fin, finRuns, sl, closed, rpc, rv>>

\* Seeded bug: an early error return that skips the release.
WAbortLeaks ==
    /\ wpc = "held"
    /\ wop # "close"
    /\ wpc' = IF wop \in {"store", "trunc"} THEN "unwind" ELSE "idle"
    /\ UNCHANGED <<cur, refs, fin, finRuns, wop, ws, sl, closed, rpc, rv>>

\* The transaction, CommitState or postCommit fails: mutateStateLocked
\* returns the error without publishing and its deferred release runs;
\* the caller returns it.  Close has no such path.
WAbort ==
    /\ wpc = "held"
    /\ wop # "close"
    /\ Release(ws)
    /\ wpc' = IF wop \in {"store", "trunc"} THEN "unwind" ELSE "idle"
    /\ UNCHANGED <<cur, wop, ws, sl, closed, rpc, rv>>

\* w.s.Store(&newS), or Close's w.s.Store(&state{}).
WPublish ==
    /\ wpc = "held"
    /\ cur' = cur + 1
    /\ wpc' = "published"
    /\ UNCHANGED <<refs, fin, finRuns, wop, ws, sl, closed, rpc, rv>>

\* s.finalizer.Store(fn); a nil fn leaves nothing to run.
WSetFinalizer ==
    /\ wpc = "published"
    /\ \E f \in Finalizers(wop) : fin' = [fin EXCEPT ![ws] = f]
    /\ wpc' = "finSet"
    /\ UNCHANGED <<cur, refs, finRuns, wop, ws, sl, closed, rpc, rv>>

\* Seeded bug: the deferred release is missing.
WReleaseDropped ==
    /\ wpc = "finSet"
    /\ wpc' = AfterMutate(wop)
    /\ closed' = (closed \/ wop = "close")
    /\ UNCHANGED <<cur, refs, fin, finRuns, wop, ws, sl, rpc, rv>>

\* The deferred s.release() as mutateStateLocked (or Close) returns.
WRelease ==
    /\ wpc = "finSet"
    /\ Release(ws)
    /\ wpc' = AfterMutate(wop)
    /\ closed' = (closed \/ wop = "close")
    /\ UNCHANGED <<cur, wop, ws, sl, rpc, rv>>

\* StoreLogs after its reset: s2, release2 := w.acquireState().
WReread ==
    /\ wpc = "reread"
    /\ Push(cur)
    /\ wpc' = "unwind"
    /\ UNCHANGED <<cur, fin, finRuns, wop, ws, closed, rpc, rv>>

\* The call's deferred releases, last acquired first.
Unwind ==
    /\ wpc = "unwind"
    /\ sl # <<>>
    /\ Release(sl[Len(sl)])
    /\ sl' = SubSeq(sl, 1, Len(sl) - 1)
    /\ wpc' = IF Len(sl) = 1 THEN "idle" ELSE "unwind"
    /\ UNCHANGED <<cur, wop, ws, closed, rpc, rv>>

\* acquireState, first step: s := w.loadState().
RLoad(r) ==
    /\ rpc[r] = "idle"
    /\ rv' = [rv EXCEPT ![r] = cur]
    /\ rpc' = [rpc EXCEPT ![r] = "loaded"]
    /\ UNCHANGED <<cur, refs, fin, finRuns, wpc, wop, ws, sl, closed>>

\* acquireState, second step: s.acquire().
RAcquire(r) ==
    /\ rpc[r] = "loaded"
    /\ refs' = [refs EXCEPT ![rv[r]] = @ + 1]
    /\ rpc' = [rpc EXCEPT ![r] = "held"]
    /\ UNCHANGED <<cur, fin, finRuns, wpc, wop, ws, sl, closed, rv>>

\* Seeded bug: the same state is released twice.
RReadReleaseTwice(r) ==
    /\ rpc[r] = "held"
    /\ refs' = [refs EXCEPT ![rv[r]] = @ - 2]
    /\ rpc' = [rpc EXCEPT ![r] = "idle"]
    /\ UNCHANGED <<cur, fin, finRuns, wpc, wop, ws, sl, closed, rv>>

\* The read through the state's segment readers, then the deferred release.
RReadRelease(r) ==
    /\ rpc[r] = "held"
    /\ Release(rv[r])
    /\ rpc' = [rpc EXCEPT ![r] = "idle"]
    /\ UNCHANGED <<cur, wpc, wop, ws, sl, closed, rv>>

\* The writer's steps once a call has started.
WStep ==
    \/ CallNoMutate \/ (wpc = "call" /\ WAcquire) \/ WAbort \/ WPublish
    \/ WSetFinalizer \/ WRelease \/ WReread \/ Unwind

Next ==
    \/ CallAcquire \/ (wpc = "idle" /\ WAcquire) \/ WStep
    \/ \E r \in Readers : RLoad(r) \/ RAcquire(r) \/ RReadRelease(r)

\* A goroutine that has started a call finishes it; new calls are not
\* forced.
Fairness ==
    /\ WF_vars(WStep)
    /\ \A r \in Readers : WF_vars(RAcquire(r)) /\ WF_vars(RReadRelease(r))

Spec == Init /\ [][Next]_vars
FairSpec == Spec /\ Fairness

-----------------------------------------------------------------------------

TypeOK ==
    /\ cur \in Versions
    /\ refs \in [Versions -> 0..Cardinality(Readers) + 3]
    /\ fin \in [Versions -> {"nil", "set"}]
    /\ finRuns \in [Versions -> Nat]
    /\ wpc \in WPCs /\ wop \in {"store", "trunc", "rotate", "close"} /\ ws \in Versions
    /\ sl \in Seq(Versions) /\ Len(sl) <= 2 /\ closed \in BOOLEAN
    /\ rpc \in [Readers -> {"idle", "loaded", "held"}] /\ rv \in [Readers -> Versions]

(* The finalizer of a retired state runs at most once, however readers  *)
(* that loaded it before it was replaced acquire and release it later.  *)
FinalizerAtMostOnce == \A v \in Versions : finRuns[v] <= 1

(* Every finalizer attached to a replaced state runs: the files a        *)
(* truncation, a reset or Close retired are closed and deleted once the  *)
(* readers and the writer's own snapshots are released, never leaked.    *)
RetiredStatesFinalized ==
    \A v \in Versions : fin[v] = "set" ~> Retired(v)

\* The references to version v that goroutines hold: readers between
\* acquire and release, mutateStateLocked between its acquire and its
\* deferred release, and the snapshots of the writer's call.
Holders(v) ==
    Cardinality({r \in Readers : rpc[r] = "held" /\ rv[r] = v})
    + (IF wpc \in {"held", "published", "finSet"} /\ ws = v THEN 1 ELSE 0)
    + Cardinality({i \in DOMAIN sl : sl[i] = v})

(* Every state's reference count equals the references goroutines hold *)
(* on it, on every path: a transaction that fails before publishing, the *)
(* StoreLogs that holds two snapshots across its reset, and Close.  A    *)
(* count above the holders never reaches zero and leaks the retired      *)
(* files; one below runs the finalizer under a holder.                   *)
RefsBalanced == \A v \in Versions : refs[v] = Holders(v)

(* A reader that holds a state never finds that state's files closed by *)
(* its finalizer (spec 5: readers never touch files of a retired state). *)
ReadersSeeLiveState ==
    \A r \in Readers : rpc[r] = "held" => ~Retired(rv[r])

=============================================================================
