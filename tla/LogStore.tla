------------------------------- MODULE LogStore -------------------------------
(***************************************************************************)
(* What the LogStore interface of src/wal.go (lines 33-59) promises: an    *)
(* ordered log of entries keyed by index.  FirstIndex and LastIndex are 0  *)
(* for an empty log; StoreLogs appends a batch after the last entry (or    *)
(* anywhere on an empty log); TruncateFront makes `index` the first entry, *)
(* TruncateBack makes it the last.                                         *)
(*                                                                         *)
(* A call is invoked, takes effect at most once while it is in flight, and *)
(* returns.  A call may fail without effect, and a crash of the process    *)
(* abandons every call in flight without touching the log.                 *)
(***************************************************************************)
EXTENDS Integers, FiniteSets, FiniteSetsExt, Functions, TLC

CONSTANTS
    Clients,    \* the callers
    Indexes,    \* the indexes a log entry may have
    Data,       \* the payloads
    MaxBatch,   \* entries per StoreLogs call
    NoReq       \* no call in flight

VARIABLES
    log,        \* the entries: a function from a set of indexes to Data
    req         \* req[c]: the call client c has in flight

vars == <<log, req>>

StoreReqs ==
    {r \in [op : {"store"}, lo : Indexes, hi : Indexes] :
        r.lo <= r.hi /\ r.hi < r.lo + MaxBatch}

TruncReqs == [op : {"front", "back"}, idx : Indexes]

Requests == StoreReqs \cup TruncReqs

\* FirstIndex and LastIndex of a log l: 0 for no entries.
FirstOf(l) == IF DOMAIN l = {} THEN 0 ELSE Min(DOMAIN l)
LastOf(l)  == IF DOMAIN l = {} THEN 0 ELSE Max(DOMAIN l)

\* The log l after truncation r: TruncateFront below the first entry and
\* TruncateBack past the last are no-ops; TruncateBack below the first entry
\* is an error.  TruncateFront past the last entry empties the log.
Truncated(r, l) ==
    CASE r.op = "front" /\ r.idx >= FirstOf(l) ->
            Restrict(l, {i \in DOMAIN l : i >= r.idx})
      [] r.op = "back" /\ FirstOf(l) <= r.idx /\ r.idx <= LastOf(l) ->
            Restrict(l, {i \in DOMAIN l : i <= r.idx})
      [] OTHER -> l

TypeOK ==
    /\ DOMAIN log \subseteq Indexes
    /\ \A i \in DOMAIN log : log[i] \in Data
    /\ req \in [Clients -> Requests \cup {NoReq}]

Init ==
    /\ log = <<>>
    /\ req = [c \in Clients |-> NoReq]

\* A client with no call in flight calls one of the operations.
Invoke(c) ==
    /\ req[c] = NoReq
    /\ req'[c] \in Requests
    /\ req' = [req EXCEPT ![c] = req'[c]]
    /\ UNCHANGED log

\* StoreLogs takes effect: the batch follows the last entry, or the log is
\* empty; every entry of the batch carries the same payload.
Store(c) ==
    LET r == req[c] IN
    /\ r # NoReq
    /\ r.op = "store"
    /\ DOMAIN log = {} \/ r.lo = LastOf(log) + 1
    /\ \E d \in Data : log' = log @@ [i \in r.lo..r.hi |-> d]
    /\ req' = [req EXCEPT ![c] = NoReq]

\* TruncateFront or TruncateBack takes effect.
Truncate(c) ==
    /\ req[c] # NoReq
    /\ req[c].op \in {"front", "back"}
    /\ log' = Truncated(req[c], log)
    /\ req' = [req EXCEPT ![c] = NoReq]

\* The call returns an error, or returns without effect.
Fail(c) ==
    /\ req[c] # NoReq
    /\ req' = [req EXCEPT ![c] = NoReq]
    /\ UNCHANGED log

\* The process dies: every call in flight is abandoned.
Crash ==
    /\ req' = [c \in Clients |-> NoReq]
    /\ UNCHANGED log

Next ==
    \/ \E c \in Clients : Invoke(c) \/ Store(c) \/ Truncate(c) \/ Fail(c)
    \/ Crash

Spec == Init /\ [][Next]_vars

=============================================================================
