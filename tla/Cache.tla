------------------------------- MODULE Cache -------------------------------
(***************************************************************************)
(* cache.go: the in-memory store between the scan engine, which publishes  *)
(* batches with SetBatch, and the HTTP handlers, which read it.            *)
(*                                                                         *)
(* Four fields are guarded by an RWMutex; four more are atomics, written   *)
(* after the lock is released and read one by one after the read lock is   *)
(* released.  A value under the lock is represented by the number of the   *)
(* batch it came from.  SetBatch has one caller at a time (scanMu), so     *)
(* there is one writer.  The lock follows sync.RWMutex: a pending writer   *)
(* keeps new readers out, and an unlocking writer lets in all the readers  *)
(* that queued behind it.                                                  *)
(***************************************************************************)
EXTENDS Integers

CONSTANTS
    Reader,      \* concurrent GET /metrics handlers
    MaxBatch,    \* bound: SetBatch calls
    MaxErrors,   \* bound: scan errors of one batch
    MaxReload,   \* bound: IncrReload calls
    Sizes        \* watch-list sizes passed to SetWatchedTotal

ASSUME BoundsAssumption ==
    /\ MaxBatch \in Nat
    /\ MaxErrors \in Nat
    /\ MaxReload \in Nat
    /\ Sizes \subseteq Nat

VARIABLES
    entries, nodeActivities, nodeBuffers, lastScanTime,   \* under the lock
    ready, scanErrors, reloadTotal, watchedTotal,         \* atomics
    wpc,         \* the writer: where SetBatch is
    batch,       \* SetBatch calls begun
    newErrors,   \* argument of the current SetBatch
    rpc,         \* rpc[r]: where Snapshot is
    snap,        \* snap[r]: the snapshot being built, then delivered
    errUpTo,     \* history: errUpTo[b], the errors of batches 1..b
    told,        \* history: the most that any client has been told
    floor        \* history: floor[r] is told at the start of r's scrape

guarded == <<entries, nodeActivities, nodeBuffers, lastScanTime>>
atomics == <<ready, scanErrors, reloadTotal, watchedTotal>>
writer == <<wpc, batch, newErrors, errUpTo>>
readers == <<rpc, snap, told, floor>>
vars == <<guarded, atomics, writer, readers>>

WriterLabel == {"idle", "pending", "entries", "activities", "buffers", "time",
                "unlock", "errors", "ready"}
ReaderLabel == {"idle", "blocked", "entries", "activities", "buffers", "time",
                "runlock", "ready", "errors", "reload", "watched", "done"}

\* Holding the lock, shared or exclusive.
Holding == {r \in Reader : rpc[r] \in {"entries", "activities", "buffers", "time",
                                       "runlock"}}
Writing == wpc \in {"entries", "activities", "buffers", "time", "unlock"}

Batch == 0..MaxBatch

Snapshot == [entries : Batch, activities : Batch, buffers : Batch, time : Batch,
             ready : BOOLEAN, errors : Nat, reload : Nat, watched : Nat]
Blank == [entries |-> 0, activities |-> 0, buffers |-> 0, time |-> 0,
          ready |-> FALSE, errors |-> 0, reload |-> 0, watched |-> 0]

Told == [batch : Nat, errors : Nat, reload : Nat, ready : BOOLEAN]

TypeOK ==
    /\ entries \in Batch /\ nodeActivities \in Batch
    /\ nodeBuffers \in Batch /\ lastScanTime \in Batch
    /\ ready \in BOOLEAN /\ scanErrors \in Nat
    /\ reloadTotal \in Nat /\ watchedTotal \in Nat
    /\ wpc \in WriterLabel
    /\ batch \in Batch
    /\ newErrors \in Nat
    /\ errUpTo \in [Batch -> Nat]
    /\ rpc \in [Reader -> ReaderLabel]
    /\ snap \in [Reader -> Snapshot]
    /\ told \in Told
    /\ floor \in [Reader -> Told]

\* NewCache.
Init ==
    /\ entries = 0 /\ nodeActivities = 0 /\ nodeBuffers = 0 /\ lastScanTime = 0
    /\ ready = FALSE /\ scanErrors = 0 /\ reloadTotal = 0 /\ watchedTotal = 0
    /\ wpc = "idle" /\ batch = 0 /\ newErrors = 0
    /\ errUpTo = [b \in Batch |-> 0]
    /\ rpc = [r \in Reader |-> "idle"]
    /\ snap = [r \in Reader |-> Blank]
    /\ told = [batch |-> 0, errors |-> 0, reload |-> 0, ready |-> FALSE]
    /\ floor = [r \in Reader |-> told]

-----------------------------------------------------------------------------
(***************************************************************************)
(* SetBatch                                                                *)
(***************************************************************************)
WriterStep(from, to) == wpc = from /\ wpc' = to

\* The scan engine calls SetBatch, which asks for the lock.
\* Fault: the cache is marked not ready while a batch is being published.
SetBatchClearsReady ==
    /\ WriterStep("idle", "pending")
    /\ batch < MaxBatch
    /\ batch' = batch + 1
    /\ newErrors' \in 0..MaxErrors
    /\ errUpTo' = [errUpTo EXCEPT ![batch + 1] = errUpTo[batch] + newErrors']
    /\ ready' = FALSE
    /\ UNCHANGED <<guarded, scanErrors, reloadTotal, watchedTotal, readers>>

SetBatch ==
    /\ WriterStep("idle", "pending")
    /\ batch < MaxBatch
    /\ batch' = batch + 1
    /\ newErrors' \in 0..MaxErrors
    /\ errUpTo' = [errUpTo EXCEPT ![batch + 1] = errUpTo[batch] + newErrors']
    /\ UNCHANGED <<guarded, atomics, readers>>

\* Fault: SetBatch takes the lock in shared mode.
LockShared ==
    /\ WriterStep("pending", "entries")
    /\ UNCHANGED <<guarded, atomics, batch, newErrors, errUpTo, readers>>

Lock ==
    /\ WriterStep("pending", "entries")
    /\ Holding = {}
    /\ UNCHANGED <<guarded, atomics, batch, newErrors, errUpTo, readers>>

WriteEntries ==
    /\ WriterStep("entries", "activities")
    /\ entries' = batch
    /\ UNCHANGED <<nodeActivities, nodeBuffers, lastScanTime, atomics, batch,
                   newErrors, errUpTo, readers>>

WriteActivities ==
    /\ WriterStep("activities", "buffers")
    /\ nodeActivities' = batch
    /\ UNCHANGED <<entries, nodeBuffers, lastScanTime, atomics, batch, newErrors,
                   errUpTo, readers>>

WriteBuffers ==
    /\ WriterStep("buffers", "time")
    /\ nodeBuffers' = batch
    /\ UNCHANGED <<entries, nodeActivities, lastScanTime, atomics, batch,
                   newErrors, errUpTo, readers>>

WriteTime ==
    /\ WriterStep("time", "unlock")
    /\ lastScanTime' = batch
    /\ UNCHANGED <<entries, nodeActivities, nodeBuffers, atomics, batch,
                   newErrors, errUpTo, readers>>

\* Fault: waiting readers are not woken.
UnlockWakesNobody ==
    /\ WriterStep("unlock", "errors")
    /\ UNCHANGED <<guarded, atomics, batch, newErrors, errUpTo, readers>>

\* Everyone who waited for this writer gets the shared lock with the release.
Unlock ==
    /\ WriterStep("unlock", "errors")
    /\ rpc' = [r \in Reader |-> IF rpc[r] = "blocked" THEN "entries" ELSE rpc[r]]
    /\ UNCHANGED <<guarded, atomics, batch, newErrors, errUpTo, snap, told, floor>>

\* Fault: the counter is set to the batch's errors (Store for Add).
StoreErrors ==
    /\ WriterStep("errors", "ready")
    /\ scanErrors' = newErrors
    /\ UNCHANGED <<guarded, ready, reloadTotal, watchedTotal, batch, newErrors,
                   errUpTo, readers>>

AddErrors ==
    /\ WriterStep("errors", "ready")
    /\ scanErrors' = scanErrors + newErrors
    /\ UNCHANGED <<guarded, ready, reloadTotal, watchedTotal, batch, newErrors,
                   errUpTo, readers>>

\* The last step; the arguments are gone with the call.
StoreReady ==
    /\ WriterStep("ready", "idle")
    /\ ready' = TRUE
    /\ newErrors' = 0
    /\ UNCHANGED <<guarded, scanErrors, reloadTotal, watchedTotal, batch, errUpTo,
                   readers>>

(***************************************************************************)
(* Snapshot, called by handleMetrics                                       *)
(***************************************************************************)
ReaderStep(r, from, to) == rpc[r] = from /\ rpc' = [rpc EXCEPT ![r] = to]

\* Fault: a lock that prefers readers: a pending writer keeps nobody out.
RLockBarging(r) ==
    /\ rpc[r] \in {"idle", "done"}
    /\ rpc' = [rpc EXCEPT ![r] = IF Writing THEN "blocked" ELSE "entries"]
    /\ snap' = [snap EXCEPT ![r] = Blank]
    /\ floor' = [floor EXCEPT ![r] = told]
    /\ UNCHANGED <<guarded, atomics, writer, told>>

RLock(r) ==
    /\ rpc[r] \in {"idle", "done"}
    /\ rpc' = [rpc EXCEPT ![r] = IF wpc = "pending" \/ Writing THEN "blocked"
                                 ELSE "entries"]
    /\ snap' = [snap EXCEPT ![r] = Blank]
    /\ floor' = [floor EXCEPT ![r] = told]
    /\ UNCHANGED <<guarded, atomics, writer, told>>

Copy(r, from, to, field, value) ==
    /\ ReaderStep(r, from, to)
    /\ snap' = [snap EXCEPT ![r][field] = value]
    /\ UNCHANGED <<guarded, atomics, writer, told, floor>>

CopyEntries(r) == Copy(r, "entries", "activities", "entries", entries)
CopyActivities(r) == Copy(r, "activities", "buffers", "activities", nodeActivities)
CopyBuffers(r) == Copy(r, "buffers", "time", "buffers", nodeBuffers)
CopyTime(r) == Copy(r, "time", "runlock", "time", lastScanTime)

RUnlock(r) ==
    /\ ReaderStep(r, "runlock", "ready")
    /\ UNCHANGED <<guarded, atomics, writer, snap, told, floor>>

LoadReady(r) == Copy(r, "ready", "errors", "ready", ready)
LoadErrors(r) == Copy(r, "errors", "reload", "errors", scanErrors)
LoadReload(r) == Copy(r, "reload", "watched", "reload", reloadTotal)

Larger(m, n) == IF m > n THEN m ELSE n

\* The last load; the snapshot is rendered and the client has its answer.
LoadWatched(r) ==
    /\ ReaderStep(r, "watched", "done")
    /\ snap' = [snap EXCEPT ![r].watched = watchedTotal]
    /\ told' = [batch  |-> Larger(told.batch, snap[r].entries),
                errors |-> Larger(told.errors, snap[r].errors),
                reload |-> Larger(told.reload, snap[r].reload),
                ready  |-> told.ready \/ snap[r].ready]
    /\ UNCHANGED <<guarded, atomics, writer, floor>>

(***************************************************************************)
(* The other operations, each one atomic access                            *)
(***************************************************************************)
\* Fault: the counter counts pending reloads down.
DecrReload ==
    /\ reloadTotal < MaxReload
    /\ reloadTotal' = reloadTotal - 1
    /\ UNCHANGED <<guarded, ready, scanErrors, watchedTotal, writer, readers>>

IncrReload ==
    /\ reloadTotal < MaxReload
    /\ reloadTotal' = reloadTotal + 1
    /\ UNCHANGED <<guarded, ready, scanErrors, watchedTotal, writer, readers>>

SetWatchedTotal ==
    /\ watchedTotal' \in Sizes
    /\ UNCHANGED <<guarded, ready, scanErrors, reloadTotal, writer, readers>>

\* GET /-/ready: a 200 tells the client that there is a batch to scrape.
IsReady ==
    /\ ready
    /\ told' = [batch |-> Larger(told.batch, 1), errors |-> told.errors,
                reload |-> told.reload, ready |-> TRUE]
    /\ UNCHANGED <<guarded, atomics, writer, rpc, snap, floor>>

-----------------------------------------------------------------------------

Write == \/ Lock \/ WriteEntries \/ WriteActivities \/ WriteBuffers
         \/ WriteTime \/ Unlock \/ AddErrors \/ StoreReady

Read(r) == \/ CopyEntries(r) \/ CopyActivities(r) \/ CopyBuffers(r)
           \/ CopyTime(r) \/ RUnlock(r) \/ LoadReady(r) \/ LoadErrors(r)
           \/ LoadReload(r) \/ LoadWatched(r)

Next ==
    \/ SetBatch \/ Write
    \/ \E r \in Reader : RLock(r) \/ Read(r)
    \/ IncrReload \/ SetWatchedTotal \/ IsReady

Spec == Init /\ [][Next]_vars

\* Goroutines that can run do.
FairSpec == Spec /\ WF_vars(Write) /\ \A r \in Reader : WF_vars(Read(r))

-----------------------------------------------------------------------------
(***************************************************************************)
(* Properties                                                              *)
(***************************************************************************)
Copied(r) == rpc[r] \in {"runlock", "ready", "errors", "reload", "watched", "done"}

\* What Snapshot copied under the lock all comes from one SetBatch call
\* (cache.go:79-84 against cache.go:105-119): no scrape mixes two scans.
SnapshotsAreWhole ==
    \A r \in Reader : Copied(r) =>
        /\ snap[r].activities = snap[r].entries
        /\ snap[r].buffers = snap[r].entries
        /\ snap[r].time = snap[r].entries

\* The error counter is read outside the lock (cache.go:127).  It may run ahead of
\* the batch shown or miss that batch's own errors, but it has every error of
\* the batches before, and none of a batch that does not exist yet.
ErrorsCoverShown ==
    \A r \in Reader : rpc[r] = "done" =>
        /\ snap[r].entries >= 1 => snap[r].errors >= errUpTo[snap[r].entries - 1]
        /\ snap[r].errors <= errUpTo[batch]

\* Whatever a client has been told, by a scrape or by /-/ready, every scrape
\* that starts afterwards confirms: counters never fall, the batch shown is
\* never an older one, and a cache that was ready stays ready.
ScrapesNeverGoBack ==
    \A r \in Reader : rpc[r] = "done" =>
        /\ snap[r].entries >= floor[r].batch
        /\ snap[r].errors >= floor[r].errors
        /\ snap[r].reload >= floor[r].reload
        /\ floor[r].ready => snap[r].ready

\* A stream of scrapes cannot keep a finished scan from being published.
BatchPublished == (wpc = "pending") ~> (wpc = "idle")

\* The cache implements the store (a refinement): a batch is published when its
\* last field is written, a scrape takes place when it copies the first one, and
\* every scrape is answered.
Store == INSTANCE MetricsStore WITH
    current <- lastScanTime,
    stage <- [r \in Reader |->
                IF rpc[r] \in {"idle", "done"} THEN "away"
                ELSE IF rpc[r] \in {"blocked", "entries"} THEN "asking"
                ELSE "served"],
    view <- [r \in Reader |-> snap[r].entries]

StoreSpec == Store!FairSpec

\* metrics.go:19-21: while the cache is not ready only directory_cache_ready is
\* emitted, which "prevents Prometheus alert rules from firing on zero-valued
\* metrics during the warm-up window".  So a snapshot that says ready has a batch.
ColdStartHidden ==
    \A r \in Reader : rpc[r] = "done" /\ snap[r].ready => snap[r].time >= 1

=============================================================================
