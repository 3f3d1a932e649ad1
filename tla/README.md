# TLA+ models of the WAL log-state engine

These modules model the log-state engine in `src/wal.go`. It is the write-ahead log that sits under a Raft log store. Segment files and the meta store are modelled the way the repository's test double behaves (`testStorage` and `testSegment` in `src/bench/bench_test.go`). The state type (`state.go`) is not in the repository. Its functions are modelled from `spec.md` §3 and §4.1 and are marked `spec_modelled` in `PROJECT.json`.

## The system

| Part | Source | State | Operations |
|------|--------|-------|------------|
| LogStore interface | wal.go 33-59 | an ordered log of entries | FirstIndex, LastIndex, GetLog, StoreLogs, TruncateFront, TruncateBack, Close |
| Log engine | wal.go 274-500, 621-877 | `w.s` (the published immutable state), `writeMu`, `w.closed` | StoreLogs, TruncateFront, TruncateBack, Close, mutateStateLocked |
| Rotation worker | wal.go 502-619 | `triggerRotate` (1-buffered), `awaitRotate` | triggerRotateLocked, runRotate, rotateSegmentLocked, createNextSegment |
| Recovery | wal.go 114-250 | meta store (PersistentState), segment files | Open |
| State snapshot | state.go (absent), wal.go 274-308, 381-417, 456-497, 851-875 | segments map, tail writer, refcount, one-shot finalizer slot | acquireState, release, firstIndex, lastIndex, getLog |
| Segment files and meta store | bench_test.go 335-732 | files by id; committed PersistentState | Create, RecoverTail, Open, List, Delete, Append, Sealed, LastIndex, GetLog, CommitState |

### How the parts interact

- **Writers.** Every writer holds `writeMu`. It runs a transaction on a clone of the state, then:
  1. commits the clone's metadata (`CommitState`);
  2. runs `postCommit`, which creates the new segment's file;
  3. publishes the clone;
  4. attaches a finalizer to the old state. The finalizer closes and deletes the retired files once the old state's last reader releases it.
- **Rotation hand-off.** When an append fills the tail, StoreLogs makes `awaitRotate` and sends on `triggerRotate` while still holding the lock. `runRotate` then takes `writeMu`, seals the tail, creates the next segment, and closes `awaitRotate`. A later StoreLogs that finds `awaitRotate` set drops the lock and waits for it to close.
- **Close** sets `closed`, takes the lock, drops `awaitRotate`, closes `triggerRotate`, publishes the zero state and closes the meta store.
- **Open** reads the metadata and the file list. It recovers or creates the tail, or commits a fresh segment at base 1 before creating its file. It then deletes orphaned files.

### What is hard here

- Callers, the rotation goroutine and Close interleave around one lock. Two of them also wait outside it: StoreLogs on `awaitRotate`, and runRotate on `triggerRotate`.
- A crash can fall between any two of these steps: commit, create and publish.
- A reader's load-then-acquire can interleave with a writer's publish, attach and release.
- Empty-log resets, truncation past the end, and truncation back into a sealed segment are numeric edge cases of the segment tiling.

## Modules

- **`LogStore.tla`** is the abstract specification: an ordered log, as a function from indexes to payloads, plus the call each client has in flight.
  - A call takes effect at most once while it is in flight: Store, Truncate or Fail.
  - A crash abandons the calls in flight.
- **`WAL.tla`** is the engine, the rotation worker, recovery and the file and meta-store double.
  - **State.** The variables are the committed metadata (`meta`), the files (`files[id]` is the SegmentInfo the file holds, `[base, min, max]`, and its entry count `n`), the published state (`st`), `writeMu` (`mu`), `awaitRotate`, the closed channels (`doneChans`), the trigger buffer, the rotation goroutine's program point (`rot`), each client's program point (`pc`) and argument (`arg`), and an in-flight transaction between its meta commit and its publish (`txn`).
  - **Actions.** Each step of a handler is one action, from one blocking point to the next. For example, StoreLogs is `SLLock`, `SLWait`, `SLRelock`, `SLBody`, `SLResetPost`, `SLAppend` and `SLSend`. mutateStateLocked is split into `BeginTxn` (the body and CommitState) and `Publish` (postCommit, publish, attach the finalizer), so a crash can fall between them.
  - **Transaction bodies.** They are pure operators: `CreateNextSegment`, `RotateTx`, `ResetEmptyTx`, `TruncateHeadTx` (with the `RECURSIVE` loop `HeadScan`) and `TruncateTailTx`. Each returns the new state, the file to create, and the ids its finalizer deletes.
  - **Payloads.** An entry's payload is the id of the file it was appended to. That is enough to tell a rewritten index from the entry it replaced.
  - **Crash and Panic.** Both end the process (`Die`): memory is gone, while the meta store and the files stay. `OpenStart` and `OpenFinish` are Open.
  - **Faults.** `MaxFaults` bounds the calls that fail with an error the test double injects, and `FaultKinds` selects which kinds a run enables (`CanFail`). Every kind is modelled by what the double does before it returns the error:
    - **`createErr`.** The double registers the new file before it returns the error (bench_test.go 500-517). A second Create of an existing id fails with "already exists" and changes nothing. `PostCommitErr` is postCommit returning either error. mutateStateLocked then returns without publishing (wal.go 290-294): the meta commit stands, and the in-memory state and its finalizer stay as they were. StoreLogs and the truncations return the error. runRotate only logs it, and still closes `awaitRotate` (`RotPost`).
    - **`commitErr`.** The double's CommitState stores the state and copies the infos into the files, then returns the error (`CommitErr`). mutateStateLocked returns before postCommit. The caller sees an error for a change the meta store holds, as with any store whose commit fails after writing.
    - **`deleteErr`.** deleteSegments only logs a failed Delete, and the file stays (`Prune`, used by the finalizers and by Open's orphan pruning).
    - **Open's errors.** `OpenErr` covers Load, List, a sealed segment's Open and RecoverTail (the kind `"open"`, no effect), the tail's Create (the file is registered), and the fresh tail's CommitState (the metadata is stored). `OpenCreateErr` covers the fresh tail's Create. No WAL is returned, and Open may be called again.
    - The double's error fields stay set until a test clears them. The model lets any single call fail within the budget, which includes those behaviours.
  - **The files' infos.** `NewFile` is Create storing the info it is given. `CommitInfos` is the double's CommitState storing each committed SegmentInfo (base, MinIndex, MaxIndex) in the file of that id (bench_test.go 459-470). `GetLogIn` is state.getLog picking the segment with the greatest base not above the index, then testSegment.GetLog checking the index against the file's own info (bench_test.go 648). So the files' infos move at CommitState, before the new state is published, and stay moved after a commitErr.
  - **Close, then Open.** The model treats Open after Close as a restart over the same files. The double would hand back the testSegments that Close closed, whose Sealed and LastIndex panic; a real segment filer reopens its files.
  - **Inputs.** StoreLogs is called with batches of 1 to `MaxBatch` entries; an empty batch returns nil at wal.go 365-367 before taking writeMu, and is not enumerated.
  - **Refinement.** `LogSpec == Abstract!Spec` maps the durable log to `LogStore`. The durable log is what `GetLog` returns over the committed metadata and the files. A call is pending until its meta commit, or until the tail writer's Append.
- **`StateRefs.tla`** is the reader protocol: reference counts, the finalizer slot, and the writer's acquire, publish, attach and release order against the reader's load, acquire and release.
  - Versions stand for successive states.
  - The writer's calls are the ones under writeMu. StoreLogs and the truncations take a snapshot of their own (`CallAcquire`). They may then run mutateStateLocked, and StoreLogs re-reads the state after its reset (`WReread`). Their deferred releases run last-acquired first (`Unwind`). runRotate and Close run mutateStateLocked, or Close's equivalent, without a snapshot.
  - mutateStateLocked may fail before it publishes (`WAbort`): its deferred release still runs.
  - The finalizer it attaches depends on the call (`Finalizers`). A rotation attaches none, and neither does a reset whose tail already has the wanted base. The other resets, the truncations and Close attach one. Close publishes the empty state and ends the writer.
  - Snapshots the writer takes under writeMu are one step, because no other writer can publish in between. A reader's load and acquire are two steps.
  - Readers are not stopped by Close. A reader that passed checkClosed before Close may load the empty state; one that starts later would get ErrClosed and touch no state.
- **`MC_WAL.tla`** and **`MC_StateRefs.tla`** are the instances that TLC checks. The constants are set in the cfgs.

## Runs

| Run | Expect | What it shows |
|-----|--------|---------------|
| `wal_store_rotate` | pass | 1 caller: stores that fill segments (SegLimit 2), Close, a crash, and reopening. RecoverableMeta, PublishedMatchesMeta, IndexesAgree and the refinement to LogStore hold, and every call returns. |
| `wal_truncate` | pass | 1 caller: stores, TruncateFront (with reset past the end), TruncateBack, the empty-log base reset, and a crash anywhere. TypeOK, RecoverableMeta, PublishedMatchesMeta, IndexesAgree and LogSpec hold. This run checks safety only. |
| `wal_await` | pass | 2 callers, where every append seals. The 1-buffered trigger never blocks a sender that holds writeMu (spec §9 open question b). Every rotation completes, every call returns, and the durable log refines LogStore. |
| `refs_finalizer` | pass | 2 readers, and a writer whose calls are StoreLogs, truncations, rotations and Close, some failing before they publish. Every reference count equals the references goroutines hold (`RefsBalanced`), each finalizer runs at most once, and every attached finalizer eventually runs. |
| `wal_trunc_faults` | pass | 1 caller: stores and truncations at both ends, one crash, and one injected error of any kind (createErr, commitErr, deleteErr, or an error of Open). The committed metadata stays recoverable by Open. This is spec §7's claim that failed Deletes leak files but correctness holds. IndexesAgree is not checked here: it fails under commitErr (`stale_infos_commit_err.cfg` below). |
| `wal_rotate_err` | pass | 1 caller, where every append seals, and one injected error: a rotation's Create or CommitState, a call of Open, or an orphan's Delete. runRotate only logs a failed rotation, yet `awaitRotate` is closed, every call returns, and the metadata stays recoverable. No file on disk ever has an id at or above NextSegmentID (`FilesBelowNextID`), so a retried Open or a later rotation never creates a duplicate id. This is what wal.go 219-220 commits the metadata first for. |
| `rotate_truncate_race` | violation | TruncateFront past the end runs while a rotation is pending. The rotation then seals the new empty tail with MaxIndex 0 and adds a segment at base 1. Open rejects the metadata. |
| `close_hangs_store` | violation | Close while a StoreLogs waits on awaitRotate: the channel is never closed, so the call never returns. |
| `reopen_full_tail` | violation | Close races a pending rotation, or a crash comes before the rotation's commit. After Open the tail is full and nothing rotates it, so every StoreLogs fails. |
| `store_after_close_panic` | violation | StoreLogs passes checkClosed, then Close completes, then StoreLogs dereferences the nil tail info of the zero state. |
| `refs_acquire_race` | violation | acquireState loads and acquires in two steps. The writer's publish, attach and release fall in between, so the reader holds a state whose files are closed. |
| `create_err_lost_append` | violation | TruncateFront on the empty log commits a new tail, and its Create fails. The published state keeps the old tail writer, so the next StoreLogs writes to a file the metadata no longer names and returns nil. Open recovers the named tail, and the acknowledged entry is lost (spec §5). |

Three more configurations are kept beside these runs as reproductions, outside the run list:

- `await_no_recheck.cfg` (StoreSeesWritableTail). A StoreLogs woken by the rotation does not recheck awaitRotate (wal.go:378). It meets a tail that another caller has already sealed, and fails with ErrSealed.
- `create_err_stale_commit.cfg` (LogSpec). The trace of `create_err_lost_append` continues with a later TruncateFront, which commits the stale in-memory state back over the metadata. The durable log gains an entry that no successful call stored. NextSegmentID moves back from 2 to 1 while file 1 exists, so every later Create of that id fails. With truncations and createErr, `FilesBelowNextID` fails on the same trace, which is why `wal_rotate_err` (store only) is the run that checks it.
- `stale_infos_commit_err.cfg` (IndexesAgree). A TruncateFront whose CommitState returns commitErr. The double has already stored the new MinIndex in the file (bench_test.go 468), but nothing is published, so FirstIndex still reports the truncated entry while GetLog returns ErrNotFound for it, until the next transaction publishes. Without faults the same disagreement lasts from CommitState to the publish in every truncation, which is why IndexesAgree is stated between transactions (`txn = None`). This is an artifact of the double overwriting the infos of files that the published state still reads.

Each violation run checks one property, and each is listed as a finding in `PROJECT.json`. Every property of a passing run has a seeded-bug variant, defined just before the operator it replaces, which TLC must catch. These variants are the `mutants` in `PROJECT.json`.

### Bounds

- `MaxIndex` is 2–5, `MaxBatch` is 1–2, and `SegLimit` is 1–2 where rotation matters.
- In `wal_truncate`, `SegLimit` is 4. Segments then never fill, so the truncations are checked without the pending-rotation race, which `rotate_truncate_race` shows separately.
- `MaxSegID` (6–8) bounds the segment ids.
  - A new call starts only when the ids that calls in flight may still take fit (`IdsNeeded`).
  - Open is guarded on its own.
  - That is why the cfgs say `CHECK_DEADLOCK FALSE`: once ids run out, callers stop and the WAL sits idle. A call that cannot finish is caught by `ClientsReturn` instead.
- `MaxCrashes` is 0 or 1, and `MaxFaults` is 0 or 1. One injected error is enough: after a failed Create, every later Create of the same id fails too, and a failed commit leaves the meta store ahead of memory for the rest of the behaviour.
- `wal_trunc_faults` keeps `SegLimit` 4 for the same reason as `wal_truncate`. Rotation with a failed Create or commit has its own run, `wal_rotate_err`, with store only.
- These bounds reach the cases that matter:
  - rotations of two or more segments;
  - back-truncation into a sealed segment;
  - truncation past the end followed by an append at a new base;
  - reopen after a crash at every step;
  - two callers around a rotation.
- Every action of `WAL` fires in some passing run.

### Fairness

- Goroutines that have started keep running. Each call in flight and the rotation goroutine get weak fairness on their steps.
- Lock acquisitions get strong fairness, because Go's `sync.Mutex` starvation mode eventually hands the lock to a waiter.
- Finalizers get weak fairness, because readers release what they acquire.
- Invocations, crashes and Open get no fairness.
- A call sits at one program point at a time, so fairness of the disjunction of its steps is fairness of each step.

## Not modelled

- The byte-level segment format (`segment.Reader`, bench_test.go 812-943), the meta store's encoding, metrics, and logging.
- `getStableErr` and `setStableErr`. wal.go never calls GetStable or SetStable.
- LogSpec, AppendsToMetaTail and IndexesAgree under injected errors as passing checks. createErr breaks the first two (see the findings) and commitErr breaks IndexesAgree (`stale_infos_commit_err.cfg`). AppendsToMetaTail is checked only in `create_err_lost_append`: without faults it follows from PublishedMatchesMeta. Checking LogSpec with deleteErr in `wal_truncate` passes, but the run takes nine minutes, over the time budget.
- GetLog on a closed `testSegment` returns an error. `WAL` treats reads as atomic on the published state, and `StateRefs` checks when a read can meet retired files.

## Plan for later work

- Compose `StateRefs` with `WAL`, so that truncation finalizers delete real files under concurrent readers. `StateRefs` now has every writer path that changes a reference or a finalizer, so the composition would add readers of real segments. It is held back by the run budget: `wal_truncate` already takes about two and a half minutes, half of it spent on checking the `LogSpec` refinement mapping on every transition.
- A second caller in the truncation runs. Calls serialize on writeMu, so without rotation a second caller adds only orderings of whole calls; it is worth adding together with rotation once the pending-rotation race is fixed.
