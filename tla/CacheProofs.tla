---------------------------- MODULE CacheProofs ----------------------------
(***************************************************************************)
(* Theorems about Cache, for any number of scrapes, batches and errors.    *)
(***************************************************************************)
EXTENDS Cache, TLAPS

USE BoundsAssumption

(***************************************************************************)
(* The writer.  Each field is one batch behind until its own step; the     *)
(* lock keeps readers out while the fields differ.                         *)
(***************************************************************************)
Holds(value, behind) == value = IF wpc \in behind THEN batch - 1 ELSE batch

FieldsExact ==
    /\ wpc # "idle" => batch >= 1
    /\ Holds(entries, {"pending", "entries"})
    /\ Holds(nodeActivities, {"pending", "entries", "activities"})
    /\ Holds(nodeBuffers, {"pending", "entries", "activities", "buffers"})
    /\ Holds(lastScanTime,
             {"pending", "entries", "activities", "buffers", "time"})

LockExact == Writing => Holding = {}

LEMMA BlankType == Blank \in Snapshot
  BY DEF Blank, Snapshot, Batch

LEMMA TypeInit == Init => TypeOK /\ FieldsExact /\ LockExact
<1> SUFFICES ASSUME Init PROVE TypeOK /\ FieldsExact /\ LockExact  OBVIOUS
<1> USE DEF Init
<1>1. TypeOK
  <2>1. snap \in [Reader -> Snapshot]  BY BlankType
  <2>2. told \in Told  BY DEF Told
  <2>3. floor \in [Reader -> Told]  BY <2>2
  <2>4. rpc \in [Reader -> ReaderLabel] /\ wpc \in WriterLabel
    BY DEF ReaderLabel, WriterLabel
  <2>5. errUpTo \in [Batch -> Nat] /\ 0 \in Batch  BY DEF Batch
  <2> QED  BY <2>1, <2>2, <2>3, <2>4, <2>5 DEF TypeOK
<1>2. FieldsExact  BY DEF FieldsExact, Holds
<1>3. LockExact  BY DEF LockExact, Writing
<1> QED  BY <1>1, <1>2, <1>3

LEMMA LargerOfTwo ==
    ASSUME NEW m \in Nat, NEW n \in Nat
    PROVE  Larger(m, n) \in {m, n} /\ Larger(m, n) >= m /\ Larger(m, n) >= n
  BY DEF Larger

\* A step of SetBatch and a step of Snapshot, as far as types are concerned.
LEMMA TypeNext == TypeOK /\ [Next]_vars => TypeOK'
<1> SUFFICES ASSUME TypeOK, [Next]_vars PROVE TypeOK'
  OBVIOUS
<1> USE DEF TypeOK, Batch, guarded, atomics, writer, readers
<1>1. CASE SetBatch
  BY <1>1 DEF SetBatch, WriterStep, WriterLabel
<1>2. CASE Write
  <2> USE DEF WriterStep, WriterLabel
  <2>1. CASE Lock  BY <2>1 DEF Lock
  <2>2. CASE WriteEntries  BY <2>2 DEF WriteEntries
  <2>3. CASE WriteActivities  BY <2>3 DEF WriteActivities
  <2>4. CASE WriteBuffers  BY <2>4 DEF WriteBuffers
  <2>5. CASE WriteTime  BY <2>5 DEF WriteTime
  <2>6. CASE Unlock  BY <2>6 DEF Unlock, ReaderLabel
  <2>7. CASE AddErrors  BY <2>7 DEF AddErrors
  <2>8. CASE StoreReady  BY <2>8 DEF StoreReady
  <2> QED  BY <1>2, <2>1, <2>2, <2>3, <2>4, <2>5, <2>6, <2>7, <2>8 DEF Write
<1>3. ASSUME NEW r \in Reader, RLock(r) PROVE TypeOK'
  BY <1>3, BlankType DEF RLock, ReaderLabel
<1>4. ASSUME NEW r \in Reader, Read(r) PROVE TypeOK'
  <2> USE DEF ReaderStep, ReaderLabel, Snapshot, Copy
  <2>1. CASE CopyEntries(r)  BY ZenonT(60), <2>1 DEF CopyEntries
  <2>2. CASE CopyActivities(r)  BY ZenonT(60), <2>2 DEF CopyActivities
  <2>3. CASE CopyBuffers(r)  BY ZenonT(60), <2>3 DEF CopyBuffers
  <2>4. CASE CopyTime(r)  BY ZenonT(60), <2>4 DEF CopyTime
  <2>5. CASE RUnlock(r)  BY <2>5 DEF RUnlock
  <2>6. CASE LoadReady(r)  BY ZenonT(60), <2>6 DEF LoadReady
  <2>7. CASE LoadErrors(r)  BY ZenonT(60), <2>7 DEF LoadErrors
  <2>8. CASE LoadReload(r)  BY ZenonT(60), <2>8 DEF LoadReload
  <2>9. CASE LoadWatched(r)
    <3>0. told \in Told /\ snap[r] \in Snapshot  OBVIOUS
    <3>1. /\ Larger(told.batch, snap[r].entries) \in Nat
          /\ Larger(told.errors, snap[r].errors) \in Nat
          /\ Larger(told.reload, snap[r].reload) \in Nat
      <4>1. told.batch \in Nat /\ told.errors \in Nat /\ told.reload \in Nat
        BY <3>0 DEF Told
      <4>2. /\ snap[r].entries \in Nat
            /\ snap[r].errors \in Nat
            /\ snap[r].reload \in Nat
        BY <3>0
      <4> QED  BY <4>1, <4>2, LargerOfTwo
    <3>2. (told.ready \/ snap[r].ready) \in BOOLEAN  OBVIOUS
    <3>3. told' \in Told
      BY <2>9, <3>1, <3>2, Zenon DEF LoadWatched, Told
    <3> QED  BY ZenonT(60), <2>9, <3>3 DEF LoadWatched
  <2> QED
    BY <1>4, <2>1, <2>2, <2>3, <2>4, <2>5, <2>6, <2>7, <2>8, <2>9 DEF Read
<1>5. CASE IncrReload \/ SetWatchedTotal
  <2>1. CASE IncrReload  BY <2>1 DEF IncrReload
  <2>2. CASE SetWatchedTotal  BY <2>2 DEF SetWatchedTotal
  <2> QED  BY <1>5, <2>1, <2>2
<1>6. CASE IsReady
  <2>1. told \in Told /\ Larger(told.batch, 1) \in Nat
    BY LargerOfTwo DEF Told
  <2>2. told' \in Told  BY <1>6, <2>1 DEF IsReady, Told
  <2> QED  BY <1>6, <2>2 DEF IsReady
<1>7. CASE UNCHANGED vars
  BY <1>7 DEF vars
<1> QED  BY <1>1, <1>2, <1>3, <1>4, <1>5, <1>6, <1>7 DEF Next

\* TypeOK holds for any number of scrapes and batches.
THEOREM TypeCorrect == Spec => []TypeOK
<1>1. Init => TypeOK  BY TypeInit
<1> QED  BY <1>1, TypeNext, PTL DEF Spec

LEMMA WriterNext == TypeOK /\ FieldsExact /\ [Next]_vars => FieldsExact'
<1> SUFFICES ASSUME TypeOK, FieldsExact, [Next]_vars PROVE FieldsExact'
  OBVIOUS
<1>0. batch \in Nat  BY DEF TypeOK, Batch
<1> USE <1>0 DEF FieldsExact, Holds, guarded, atomics, writer, readers
<1>1. CASE SetBatch
  BY <1>1 DEF SetBatch, WriterStep
<1>2. CASE Write
  <2> USE DEF WriterStep
  <2>1. CASE Lock  BY <2>1 DEF Lock
  <2>2. CASE WriteEntries  BY <2>2 DEF WriteEntries
  <2>3. CASE WriteActivities  BY <2>3 DEF WriteActivities
  <2>4. CASE WriteBuffers  BY <2>4 DEF WriteBuffers
  <2>5. CASE WriteTime  BY <2>5 DEF WriteTime
  <2>6. CASE Unlock  BY <2>6 DEF Unlock
  <2>7. CASE AddErrors  BY <2>7 DEF AddErrors
  <2>8. CASE StoreReady  BY <2>8 DEF StoreReady
  <2> QED  BY <1>2, <2>1, <2>2, <2>3, <2>4, <2>5, <2>6, <2>7, <2>8 DEF Write
<1>3. CASE UNCHANGED <<guarded, writer>>
  BY <1>3
<1>4. ASSUME NEW r \in Reader, RLock(r) \/ Read(r)
      PROVE  UNCHANGED <<guarded, writer>>
  BY <1>4 DEF RLock, Read, Copy, CopyEntries, CopyActivities, CopyBuffers, CopyTime,
              RUnlock, LoadReady, LoadErrors, LoadReload, LoadWatched
<1>5. ASSUME IncrReload \/ SetWatchedTotal \/ IsReady \/ UNCHANGED vars
      PROVE  UNCHANGED <<guarded, writer>>
  BY <1>5 DEF IncrReload, SetWatchedTotal, IsReady, vars
<1> QED  BY <1>1, <1>2, <1>3, <1>4, <1>5 DEF Next

\* Mutual exclusion: nobody holds the shared lock while SetBatch writes.
LEMMA LockNext == TypeOK /\ LockExact /\ [Next]_vars => LockExact'
<1> SUFFICES ASSUME TypeOK, LockExact, [Next]_vars PROVE LockExact'
  OBVIOUS
<1>0. rpc \in [Reader -> ReaderLabel]  BY DEF TypeOK
<1> USE <1>0 DEF LockExact, Writing, Holding, guarded, atomics, writer, readers
<1>1. CASE SetBatch
  BY <1>1 DEF SetBatch, WriterStep
<1>2. CASE Write
  <2> USE DEF WriterStep
  <2>1. CASE Unlock  BY <2>1 DEF Unlock
  <2>2. CASE ~Unlock
    BY <1>2, <2>2 DEF Write, Lock, WriteEntries, WriteActivities, WriteBuffers,
                      WriteTime, AddErrors, StoreReady
  <2> QED  BY <2>1, <2>2
<1>3. ASSUME NEW r \in Reader, RLock(r) PROVE LockExact'
  BY <1>3 DEF RLock
<1>4. ASSUME NEW r \in Reader, Read(r) PROVE LockExact'
  BY <1>4 DEF Read, ReaderStep, Copy, CopyEntries, CopyActivities, CopyBuffers,
              CopyTime, RUnlock, LoadReady, LoadErrors, LoadReload, LoadWatched
<1>5. CASE IncrReload \/ SetWatchedTotal \/ IsReady \/ UNCHANGED vars
  BY <1>5 DEF IncrReload, SetWatchedTotal, IsReady, vars
<1> QED  BY <1>1, <1>2, <1>3, <1>4, <1>5 DEF Next

-----------------------------------------------------------------------------
(***************************************************************************)
(* The readers.  While a reader holds the lock the fields agree and do not *)
(* change, so what it has copied so far equals what is there.              *)
(***************************************************************************)
Whole(r) ==
    /\ snap[r].activities = snap[r].entries
    /\ snap[r].buffers = snap[r].entries
    /\ snap[r].time = snap[r].entries

SnapExact(r) ==
    /\ rpc[r] \in {"activities", "buffers", "time"} => snap[r].entries = entries
    /\ rpc[r] \in {"buffers", "time"} => snap[r].activities = entries
    /\ rpc[r] = "time" => snap[r].buffers = entries
    /\ Copied(r) => Whole(r)
    /\ snap[r].entries <= entries

StoreInv == TypeOK /\ FieldsExact /\ LockExact /\ \A r \in Reader : SnapExact(r)

\* The fields agree as long as somebody holds the shared lock.
LEMMA FieldsAgree ==
    ASSUME TypeOK, FieldsExact, ~Writing
    PROVE  nodeActivities = entries /\ nodeBuffers = entries /\ lastScanTime = entries
<1>1. wpc \in {"idle", "pending", "errors", "ready"}
  BY DEF TypeOK, WriterLabel, Writing
<1> QED  BY <1>1 DEF FieldsExact, Holds

LEMMA SnapInit == Init => StoreInv
<1> SUFFICES ASSUME Init PROVE \A r \in Reader : SnapExact(r)
  BY TypeInit DEF StoreInv
<1>1. ASSUME NEW r \in Reader PROVE SnapExact(r)
  <2>1. rpc[r] = "idle" /\ snap[r].entries = 0 /\ entries = 0
    BY DEF Init, Blank
  <2> QED  BY <2>1 DEF SnapExact, Copied
<1> QED  BY <1>1

LEMMA SnapNext ==
    StoreInv /\ [Next]_vars => \A r \in Reader : SnapExact(r)'
<1> SUFFICES ASSUME StoreInv, [Next]_vars, NEW r \in Reader PROVE SnapExact(r)'
  OBVIOUS
<1>0. /\ TypeOK /\ FieldsExact /\ LockExact /\ SnapExact(r)
      /\ rpc \in [Reader -> ReaderLabel]
      /\ snap \in [Reader -> Snapshot]
      /\ batch \in Nat /\ entries \in Nat
  BY DEF StoreInv, TypeOK, Batch
<1>1. rpc[r] \in {"entries", "activities", "buffers", "time"} =>
          nodeActivities = entries /\ nodeBuffers = entries /\ lastScanTime = entries
  BY <1>0, FieldsAgree DEF LockExact, Holding
<1> USE DEF SnapExact, Copied, Whole, guarded, atomics, writer, readers
<1>2. CASE SetBatch
  BY <1>0, <1>2 DEF SetBatch
<1>3. CASE Write
  <2>1. CASE WriteEntries
    <3>1. Writing /\ entries' = batch /\ snap' = snap /\ rpc' = rpc
      BY <2>1 DEF WriteEntries, WriterStep, Writing
    <3>2. rpc[r] \notin {"activities", "buffers", "time"}
      BY <1>0, <3>1 DEF LockExact, Holding
    <3>3. entries <= batch
      BY <1>0, <2>1 DEF FieldsExact, Holds, WriteEntries, WriterStep
    <3>4. snap[r].entries \in Nat  BY <1>0 DEF Snapshot, Batch
    <3> QED  BY <1>0, <3>1, <3>2, <3>3, <3>4
  <2>2. CASE Unlock
    BY <1>0, <2>2 DEF Unlock
  <2>3. CASE ~WriteEntries /\ ~Unlock
    BY <1>0, <1>3, <2>3 DEF Write, Lock, WriteActivities, WriteBuffers, WriteTime,
                            AddErrors, StoreReady
  <2> QED  BY <2>1, <2>2, <2>3
<1>4. ASSUME NEW q \in Reader, RLock(q) PROVE SnapExact(r)'
  BY <1>0, <1>4 DEF RLock, Blank
<1>5. ASSUME NEW q \in Reader, Read(q) PROVE SnapExact(r)'
  <2> USE <1>0 DEF ReaderStep, Copy
  <2>1. CASE q # r
    BY <1>5, <2>1 DEF Read, CopyEntries, CopyActivities, CopyBuffers, CopyTime,
                      RUnlock, LoadReady, LoadErrors, LoadReload, LoadWatched
  <2>2. CASE q = r
    <3> USE <2>2, <1>1 DEF Snapshot
    <3>1. CASE CopyEntries(q)  BY <3>1 DEF CopyEntries
    <3>2. CASE CopyActivities(q)  BY <3>2 DEF CopyActivities
    <3>3. CASE CopyBuffers(q)  BY <3>3 DEF CopyBuffers
    <3>4. CASE CopyTime(q)  BY <3>4 DEF CopyTime
    <3>5. CASE RUnlock(q)  BY <3>5 DEF RUnlock
    <3>6. CASE LoadReady(q)  BY <3>6 DEF LoadReady
    <3>7. CASE LoadErrors(q)  BY <3>7 DEF LoadErrors
    <3>8. CASE LoadReload(q)  BY <3>8 DEF LoadReload
    <3>9. CASE LoadWatched(q)  BY <3>9 DEF LoadWatched
    <3> QED
      BY <1>5, <3>1, <3>2, <3>3, <3>4, <3>5, <3>6, <3>7, <3>8, <3>9 DEF Read
  <2> QED  BY <2>1, <2>2
<1>6. CASE IncrReload \/ SetWatchedTotal \/ IsReady \/ UNCHANGED vars
  BY <1>0, <1>6 DEF IncrReload, SetWatchedTotal, IsReady, vars
<1> QED  BY <1>2, <1>3, <1>4, <1>5, <1>6 DEF Next

LEMMA StoreCorrect == Spec => []StoreInv
<1>1. Init => StoreInv  BY SnapInit
<1>2. StoreInv /\ [Next]_vars => StoreInv'
  <2> SUFFICES ASSUME StoreInv, [Next]_vars PROVE StoreInv'  OBVIOUS
  <2>1. TypeOK' /\ FieldsExact' /\ LockExact'
    BY TypeNext, WriterNext, LockNext DEF StoreInv
  <2>2. (\A r \in Reader : SnapExact(r))'  BY SnapNext
  <2> QED  BY <2>1, <2>2 DEF StoreInv
<1> QED  BY <1>1, <1>2, PTL DEF Spec

\* No scrape mixes two scans, for any number of scrapes and batches
\* (cache.go:80-85 against cache.go:105-119).
THEOREM SnapshotsWhole == Spec => []SnapshotsAreWhole
<1>1. StoreInv => SnapshotsAreWhole
  BY DEF StoreInv, SnapExact, Whole, SnapshotsAreWhole
<1> QED  BY StoreCorrect, <1>1, PTL

-----------------------------------------------------------------------------
(***************************************************************************)
(* The refinement, without its liveness.                                   *)
(***************************************************************************)
\* A batch is published by WriteTime, a scrape takes place in CopyEntries.
LEMMA StoreStep == StoreInv /\ [Next]_vars => [Store!Next]_(Store!vars)
<1> SUFFICES ASSUME StoreInv, [Next]_vars PROVE [Store!Next]_(Store!vars)
  OBVIOUS
<1>0. /\ rpc \in [Reader -> ReaderLabel]
      /\ snap \in [Reader -> Snapshot]
      /\ batch \in 0..MaxBatch
      /\ FieldsExact /\ LockExact
  BY DEF StoreInv, TypeOK, Batch
<1> USE <1>0 DEF guarded, atomics, writer, readers
<1>1. CASE SetBatch
  BY <1>1 DEF SetBatch, Store!vars
<1>2. CASE Write
  <2>1. CASE WriteTime
    <3>1. Store!Publish
      BY <2>1 DEF WriteTime, WriterStep, FieldsExact, Holds, Store!Publish
    <3> QED  BY <3>1 DEF Store!Next
  <2>2. CASE Unlock
    <3>1. rpc' = [r \in Reader |-> IF rpc[r] = "blocked" THEN "entries" ELSE rpc[r]]
      BY <2>2 DEF Unlock
    <3>2. UNCHANGED <<lastScanTime, snap>>  BY <2>2 DEF Unlock
    <3>3. ASSUME NEW r \in Reader
          PROVE  \/ rpc'[r] = rpc[r]
                 \/ rpc[r] = "blocked" /\ rpc'[r] = "entries"
      BY <3>1
    <3>4. ASSUME NEW r \in Reader
          PROVE  /\ rpc'[r] \in {"idle", "done"} <=> rpc[r] \in {"idle", "done"}
                 /\ rpc'[r] \in {"blocked", "entries"}
                        <=> rpc[r] \in {"blocked", "entries"}
      BY <3>3
    <3> QED  BY <3>2, <3>4 DEF Store!vars
  <2>3. CASE ~WriteTime /\ ~Unlock
    BY <1>2, <2>3 DEF Write, Lock, WriteEntries, WriteActivities, WriteBuffers,
                      AddErrors, StoreReady, Store!vars
  <2> QED  BY <2>1, <2>2, <2>3
<1>3. ASSUME NEW r \in Reader, RLock(r) PROVE [Store!Next]_(Store!vars)
  <2>1. Store!Ask(r)
    BY <1>3 DEF RLock, Blank, Store!Ask
  <2> QED  BY <2>1 DEF Store!Next
<1>4. ASSUME NEW r \in Reader, Read(r) PROVE [Store!Next]_(Store!vars)
  <2> USE DEF ReaderStep, Copy
  <2>1. CASE CopyEntries(r)
    <3>1. entries = lastScanTime
      BY <2>1, FieldsAgree DEF CopyEntries, LockExact, Holding, StoreInv
    <3>2. Store!Take(r)
      BY <2>1, <3>1 DEF CopyEntries, Snapshot, Store!Take
    <3> QED  BY <3>2 DEF Store!Next
  <2>2. CASE LoadWatched(r)
    <3>1. Store!Leave(r)
      BY <2>2 DEF LoadWatched, Snapshot, Store!Leave
    <3> QED  BY <3>1 DEF Store!Next
  <2>3. CASE ~CopyEntries(r) /\ ~LoadWatched(r)
    <3>1. \A q \in Reader : snap'[q].entries = snap[q].entries
      BY <1>4, <2>3 DEF Read, CopyActivities, CopyBuffers, CopyTime, RUnlock,
                        LoadReady, LoadErrors, LoadReload, Snapshot
    <3>2. \A q \in Reader : rpc'[q] = rpc[q]
            \/ {rpc[q], rpc'[q]} \cap {"idle", "done", "blocked", "entries"} = {}
      BY <1>4, <2>3 DEF Read, CopyActivities, CopyBuffers, CopyTime, RUnlock,
                        LoadReady, LoadErrors, LoadReload
    <3>3. lastScanTime' = lastScanTime
      BY <1>4, <2>3 DEF Read, CopyActivities, CopyBuffers, CopyTime, RUnlock,
                        LoadReady, LoadErrors, LoadReload
    <3> QED  BY <3>1, <3>2, <3>3 DEF Store!vars
  <2> QED  BY <2>1, <2>2, <2>3
<1>5. CASE IncrReload \/ SetWatchedTotal \/ IsReady \/ UNCHANGED vars
  BY <1>5 DEF IncrReload, SetWatchedTotal, IsReady, vars, Store!vars
<1> QED  BY <1>1, <1>2, <1>3, <1>4, <1>5 DEF Next

\* The cache implements MetricsStore: batches replace one another as wholes, in
\* order, and a scrape reports the one that was current at one instant.
THEOREM CacheRefinesStore == Spec => Store!Spec
<1>1. Init => Store!Init  BY DEF Init, Blank, Store!Init
<1> QED  BY <1>1, StoreCorrect, StoreStep, PTL DEF Spec, Store!Spec

-----------------------------------------------------------------------------
(***************************************************************************)
(* The error counter: exact up to the batch whose AddErrors is still to    *)
(* come.                                                                   *)
(***************************************************************************)
Uncounted == {"pending", "entries", "activities", "buffers", "time", "unlock",
              "errors"}

ErrorsExact ==
    /\ \A b, c \in 0..batch : b <= c => errUpTo[b] <= errUpTo[c]
    /\ wpc # "idle" => errUpTo[batch] = errUpTo[batch - 1] + newErrors
    /\ scanErrors = IF wpc \in Uncounted THEN errUpTo[batch - 1] ELSE errUpTo[batch]

ErrorsSeen(r) ==
    rpc[r] \in {"reload", "watched", "done"} =>
        /\ snap[r].entries >= 1 => snap[r].errors >= errUpTo[snap[r].entries - 1]
        /\ snap[r].errors <= errUpTo[batch]

ErrorsInv == ErrorsExact /\ \A r \in Reader : ErrorsSeen(r)

LEMMA ErrorsInit == Init => ErrorsInv
<1> SUFFICES ASSUME Init PROVE ErrorsInv  OBVIOUS
<1>1. ErrorsExact  BY DEF Init, ErrorsExact, Uncounted, Batch
<1>2. ASSUME NEW r \in Reader PROVE ErrorsSeen(r)
  BY DEF Init, ErrorsSeen
<1> QED  BY <1>1, <1>2 DEF ErrorsInv

LEMMA ErrorsExactNext == StoreInv /\ ErrorsExact /\ [Next]_vars => ErrorsExact'
<1> SUFFICES ASSUME StoreInv, ErrorsExact, [Next]_vars PROVE ErrorsExact'
  OBVIOUS
<1>0. /\ batch \in 0..MaxBatch
      /\ errUpTo \in [0..MaxBatch -> Nat]
      /\ newErrors \in Nat
      /\ wpc \in WriterLabel
      /\ wpc # "idle" => batch >= 1
  BY DEF StoreInv, TypeOK, FieldsExact, Batch
<1> USE <1>0 DEF ErrorsExact, Uncounted, WriterStep, guarded, atomics, writer,
                 readers
<1>1. CASE SetBatch
  <2>1. /\ batch' = batch + 1 /\ batch' \in 0..MaxBatch
        /\ newErrors' \in 0..MaxErrors
        /\ errUpTo' = [errUpTo EXCEPT ![batch + 1] = errUpTo[batch] + newErrors']
        /\ wpc = "idle" /\ wpc' = "pending" /\ scanErrors' = scanErrors
    BY <1>1 DEF SetBatch
  <2>2. errUpTo'[batch'] = errUpTo[batch] + newErrors'  BY <2>1
  <2>3. \A b \in 0..batch : errUpTo'[b] = errUpTo[b]  BY <2>1
  <2>4. ASSUME NEW b \in 0..batch', NEW c \in 0..batch', b <= c
        PROVE  errUpTo'[b] <= errUpTo'[c]
    <3>1. CASE c \in 0..batch
      <4>1. b \in 0..batch  BY <3>1, <2>4
      <4> QED  BY <3>1, <4>1, <2>3, <2>4
    <3>2. CASE c = batch + 1 /\ b \in 0..batch
      <4>1. errUpTo[b] <= errUpTo[batch]  BY <3>2
      <4>2. errUpTo[b] \in Nat /\ errUpTo[batch] \in Nat  BY <3>2
      <4> QED  BY <3>2, <4>1, <4>2, <2>1, <2>2, <2>3
    <3>3. CASE c = batch + 1 /\ b = batch + 1
      <4>1. errUpTo[batch] + newErrors' \in Nat  BY <2>1
      <4> QED  BY <3>3, <4>1, <2>1, <2>2
    <3> QED  BY <3>1, <3>2, <3>3, <2>1, <2>4
  <2> QED  BY <2>1, <2>2, <2>3, <2>4
<1>2. CASE Write
  BY <1>2 DEF Write, Lock, WriteEntries, WriteActivities, WriteBuffers, WriteTime,
              Unlock, AddErrors, StoreReady
<1>3. ASSUME NEW r \in Reader, RLock(r) \/ Read(r) PROVE ErrorsExact'
  <2>1. UNCHANGED <<atomics, writer>>
    BY <1>3 DEF RLock, Read, Copy, CopyEntries, CopyActivities, CopyBuffers, CopyTime,
                RUnlock, LoadReady, LoadErrors, LoadReload, LoadWatched
  <2> QED  BY <2>1
<1>4. CASE IncrReload \/ SetWatchedTotal \/ IsReady \/ UNCHANGED vars
  <2>1. UNCHANGED <<scanErrors, writer>>
    BY <1>4 DEF IncrReload, SetWatchedTotal, IsReady, vars
  <2> QED  BY <2>1
<1> QED  BY <1>1, <1>2, <1>3, <1>4 DEF Next

\* What a reader finds in the counter is the total of all batches, or of all but
\* the newest; and the batch it copied is not newer than that one.
LEMMA ErrorsSeenNext ==
    StoreInv /\ ErrorsInv /\ [Next]_vars => \A r \in Reader : ErrorsSeen(r)'
<1> SUFFICES ASSUME StoreInv, ErrorsInv, [Next]_vars, NEW r \in Reader
             PROVE  ErrorsSeen(r)'
  OBVIOUS
<1>0. /\ rpc \in [Reader -> ReaderLabel]
      /\ snap \in [Reader -> Snapshot]
      /\ batch \in 0..MaxBatch
      /\ errUpTo \in [0..MaxBatch -> Nat]
      /\ snap[r].entries \in 0..batch
      /\ snap[r].errors \in Nat
      /\ wpc # "idle" => batch >= 1
  <2>1. entries \in 0..batch
    BY DEF StoreInv, FieldsExact, Holds, TypeOK, Batch
  <2>2. snap[r] \in Snapshot  BY DEF StoreInv, TypeOK
  <2>3. snap[r].entries \in 0..MaxBatch /\ snap[r].errors \in Nat
    BY <2>2 DEF Snapshot, Batch
  <2>4. snap[r].entries <= entries  BY DEF StoreInv, SnapExact
  <2> QED  BY SMTT(30), <2>1, <2>3, <2>4 DEF StoreInv, TypeOK, Batch, FieldsExact
<1>1. ErrorsExact /\ ErrorsSeen(r)  BY DEF ErrorsInv
<1> USE <1>0, <1>1 DEF ErrorsSeen, guarded, atomics, writer, readers
<1>2. CASE SetBatch
  <2>1. /\ batch' = batch + 1 /\ batch + 1 \in 0..MaxBatch
        /\ newErrors' \in Nat
        /\ errUpTo' = [errUpTo EXCEPT ![batch + 1] = errUpTo[batch] + newErrors']
        /\ rpc' = rpc /\ snap' = snap
    BY <1>2 DEF SetBatch
  <2>2. errUpTo'[batch'] = errUpTo[batch] + newErrors'  BY <2>1
  <2>3. snap[r].entries >= 1 =>
            errUpTo'[snap[r].entries - 1] = errUpTo[snap[r].entries - 1]
    BY <2>1
  <2> QED  BY <2>1, <2>2, <2>3
<1>3. CASE Write
  <2>1. UNCHANGED <<errUpTo, batch, snap>>
    BY <1>3 DEF Write, Lock, WriteEntries, WriteActivities, WriteBuffers, WriteTime,
                Unlock, AddErrors, StoreReady
  <2>2. CASE Unlock
    <3>1. rpc'[r] = rpc[r] \/ rpc'[r] = "entries"  BY <2>2 DEF Unlock
    <3> QED  BY <2>1, <3>1
  <2>3. CASE ~Unlock
    <3>1. rpc' = rpc
      BY <1>3, <2>3 DEF Write, Lock, WriteEntries, WriteActivities, WriteBuffers,
                        WriteTime, AddErrors, StoreReady
    <3> QED  BY <2>1, <3>1
  <2> QED  BY <2>2, <2>3
<1>4. ASSUME NEW q \in Reader, RLock(q) PROVE ErrorsSeen(r)'
  BY <1>4 DEF RLock
<1>5. ASSUME NEW q \in Reader, Read(q) PROVE ErrorsSeen(r)'
  <2> USE DEF ReaderStep, Copy
  <2>1. CASE LoadErrors(q) /\ q = r
    <3>1. /\ snap'[r].errors = scanErrors
          /\ snap'[r].entries = snap[r].entries
          /\ errUpTo' = errUpTo /\ batch' = batch
      BY <2>1 DEF LoadErrors, Snapshot
    <3>2. CASE batch = 0
      <4>1. scanErrors = errUpTo[batch] /\ errUpTo[batch] \in Nat
        BY <3>2 DEF ErrorsExact, Uncounted
      <4>2. snap[r].entries = 0  BY <3>2
      <4> QED  BY <3>1, <4>1, <4>2
    <3>3. CASE batch >= 1
      <4>1. scanErrors \in {errUpTo[batch - 1], errUpTo[batch]}
        BY DEF ErrorsExact
      <4>2. errUpTo[batch - 1] <= errUpTo[batch]
        BY <3>3 DEF ErrorsExact
      <4>3. snap[r].entries >= 1 =>
                errUpTo[snap[r].entries - 1] <= errUpTo[batch - 1]
        BY SMTT(30), <3>3 DEF ErrorsExact
      <4>4. /\ errUpTo[batch - 1] \in Nat /\ errUpTo[batch] \in Nat
            /\ snap[r].entries >= 1 => errUpTo[snap[r].entries - 1] \in Nat
        BY SMTT(30), <3>3
      <4> QED  BY <3>1, <4>1, <4>2, <4>3, <4>4
    <3> QED  BY <3>2, <3>3
  <2>2. CASE ~(LoadErrors(q) /\ q = r)
    <3>1. errUpTo' = errUpTo /\ batch' = batch
      BY <1>5 DEF Read, CopyEntries, CopyActivities, CopyBuffers, CopyTime, RUnlock,
                  LoadReady, LoadErrors, LoadReload, LoadWatched
    <3> DEFINE Kept == \/ rpc'[r] \notin {"reload", "watched", "done"}
                       \/ /\ rpc[r] \in {"reload", "watched", "done"}
                          /\ snap'[r].entries = snap[r].entries
                          /\ snap'[r].errors = snap[r].errors
    <3>2. CASE q # r
      <4>1. rpc'[r] = rpc[r] /\ snap'[r] = snap[r]
        BY <1>5, <3>2 DEF Read, CopyEntries, CopyActivities, CopyBuffers, CopyTime,
              RUnlock, LoadReady, LoadErrors, LoadReload, LoadWatched
      <4> QED  BY <3>1, <4>1
    <3>3. CASE q = r /\ (LoadReload(q) \/ LoadWatched(q))
      <4>1. Kept  BY <3>3 DEF LoadReload, LoadWatched, Snapshot
      <4> QED  BY <3>1, <4>1
    <3>4. CASE q = r /\ ~(LoadReload(q) \/ LoadWatched(q))
      <4>1. rpc'[r] \notin {"reload", "watched", "done"}
        BY <1>5, <2>2, <3>4 DEF Read, CopyEntries, CopyActivities, CopyBuffers,
              CopyTime, RUnlock, LoadReady
      <4> QED  BY <4>1
    <3> QED  BY <3>2, <3>3, <3>4
  <2> QED  BY <2>1, <2>2
<1>6. CASE IncrReload \/ SetWatchedTotal \/ IsReady \/ UNCHANGED vars
  <2>1. UNCHANGED <<errUpTo, batch, snap, rpc>>
    BY <1>6 DEF IncrReload, SetWatchedTotal, IsReady, vars
  <2> QED  BY <2>1
<1> QED  BY <1>2, <1>3, <1>4, <1>5, <1>6 DEF Next

\* Whatever batch a scrape shows, its error counter has all the errors of the
\* batches before, and none that has not happened (cache.go:85-90, 127).
THEOREM ErrorsFitBatch == Spec => []ErrorsCoverShown
<1>1. Init => ErrorsInv  BY ErrorsInit
<1>2. StoreInv /\ ErrorsInv /\ [Next]_vars => ErrorsInv'
  <2> SUFFICES ASSUME StoreInv, ErrorsInv, [Next]_vars PROVE ErrorsInv'  OBVIOUS
  <2>1. ErrorsExact'  BY ErrorsExactNext DEF ErrorsInv
  <2>2. (\A r \in Reader : ErrorsSeen(r))'  BY ErrorsSeenNext
  <2> QED  BY <2>1, <2>2 DEF ErrorsInv
<1>3. ErrorsInv => ErrorsCoverShown
  BY DEF ErrorsInv, ErrorsSeen, ErrorsCoverShown
<1> QED  BY StoreCorrect, <1>1, <1>2, <1>3, PTL DEF Spec

-----------------------------------------------------------------------------
(***************************************************************************)
(* Successive answers.  Nothing a client has been told exceeds what is     *)
(* stored, nothing that is stored ever falls, and a scrape that has read a *)
(* field has read at least what had been told when it began.               *)
(***************************************************************************)
ToldBounded ==
    /\ told.batch <= entries
    /\ told.errors <= scanErrors
    /\ told.reload <= reloadTotal
    /\ told.ready => ready
    /\ ready => entries >= 1

ReadBounded(r) ==
    /\ snap[r].errors <= scanErrors
    /\ snap[r].reload <= reloadTotal
    /\ snap[r].ready => ready

FloorBounded(r) ==
    /\ floor[r].batch <= told.batch
    /\ floor[r].errors <= told.errors
    /\ floor[r].reload <= told.reload
    /\ floor[r].ready => told.ready

AtLeastFloor(r) ==
    /\ rpc[r] \notin {"idle", "blocked", "entries"} =>
           snap[r].entries >= floor[r].batch
    /\ rpc[r] \in {"errors", "reload", "watched", "done"} =>
           (floor[r].ready => snap[r].ready)
    /\ rpc[r] \in {"reload", "watched", "done"} => snap[r].errors >= floor[r].errors
    /\ rpc[r] \in {"watched", "done"} => snap[r].reload >= floor[r].reload

Answers(r) == ReadBounded(r) /\ FloorBounded(r) /\ AtLeastFloor(r)

AnswersInv == ToldBounded /\ \A r \in Reader : Answers(r)

LEMMA AnswersInit == Init => AnswersInv
<1> SUFFICES ASSUME Init PROVE AnswersInv  OBVIOUS
<1>1. ToldBounded  BY DEF Init, ToldBounded
<1>2. ASSUME NEW r \in Reader PROVE Answers(r)
  <2>1. rpc[r] = "idle" /\ snap[r] = Blank /\ floor[r] = told
    BY DEF Init
  <2>2. ReadBounded(r)  BY <2>1 DEF Init, ReadBounded, Blank
  <2>3. FloorBounded(r)  BY <2>1 DEF Init, FloorBounded
  <2>4. AtLeastFloor(r)  BY <2>1 DEF AtLeastFloor
  <2> QED  BY <2>2, <2>3, <2>4 DEF Answers
<1> QED  BY <1>1, <1>2 DEF AnswersInv

\* The types that the steps below need.
LEMMA AnswerTypes ==
    ASSUME TypeOK, NEW r \in Reader
    PROVE  /\ entries \in Nat /\ scanErrors \in Nat /\ reloadTotal \in Nat
           /\ told.batch \in Nat /\ told.errors \in Nat /\ told.reload \in Nat
           /\ snap[r].entries \in Nat /\ snap[r].errors \in Nat
           /\ snap[r].reload \in Nat
           /\ floor[r].batch \in Nat /\ floor[r].errors \in Nat
           /\ floor[r].reload \in Nat
<1>1. told \in Told /\ snap[r] \in Snapshot /\ floor[r] \in Told  BY DEF TypeOK
<1>2. told.batch \in Nat /\ told.errors \in Nat /\ told.reload \in Nat
  BY <1>1 DEF Told
<1>3. floor[r].batch \in Nat /\ floor[r].errors \in Nat /\ floor[r].reload \in Nat
  BY <1>1 DEF Told
<1>4. snap[r].entries \in Nat /\ snap[r].errors \in Nat /\ snap[r].reload \in Nat
  BY <1>1 DEF Snapshot, Batch
<1> QED  BY <1>2, <1>3, <1>4 DEF TypeOK, Batch

\* Nothing that is stored ever falls.
LEMMA StoredGrows ==
    StoreInv /\ [Next]_vars =>
        entries' >= entries /\ scanErrors' >= scanErrors
        /\ reloadTotal' >= reloadTotal /\ (ready => ready')
<1> SUFFICES ASSUME StoreInv, [Next]_vars
             PROVE  entries' >= entries /\ scanErrors' >= scanErrors
                    /\ reloadTotal' >= reloadTotal /\ (ready => ready')
  OBVIOUS
<1> DEFINE Goal == entries' >= entries /\ scanErrors' >= scanErrors
                   /\ reloadTotal' >= reloadTotal /\ (ready => ready')
<1>0. /\ entries \in Nat /\ scanErrors \in Nat /\ reloadTotal \in Nat
      /\ newErrors \in Nat /\ batch \in Nat
  BY DEF StoreInv, TypeOK, Batch
<1> USE <1>0 DEF guarded, atomics, WriterStep
<1>1. CASE WriteEntries
  BY <1>1 DEF WriteEntries, StoreInv, FieldsExact, Holds
<1>2. CASE AddErrors
  BY <1>2 DEF AddErrors
<1>3. CASE StoreReady
  BY <1>3 DEF StoreReady
<1>4. CASE IncrReload
  BY <1>4 DEF IncrReload
<1>5. ASSUME UNCHANGED <<entries, scanErrors, reloadTotal, ready>> PROVE Goal
  BY <1>5
<1>6. CASE SetBatch \/ Lock \/ WriteActivities \/ WriteBuffers \/ WriteTime
           \/ Unlock \/ SetWatchedTotal \/ IsReady \/ UNCHANGED vars
  <2>1. UNCHANGED <<entries, scanErrors, reloadTotal, ready>>
    BY <1>6 DEF SetBatch, Lock, WriteActivities, WriteBuffers, WriteTime, Unlock,
                SetWatchedTotal, IsReady, vars
  <2> QED  BY <2>1, <1>5
<1>7. ASSUME NEW r \in Reader, RLock(r) \/ Read(r) PROVE Goal
  <2>1. UNCHANGED <<entries, scanErrors, reloadTotal, ready>>
    BY <1>7 DEF RLock, Read, Copy, CopyEntries, CopyActivities, CopyBuffers, CopyTime,
                RUnlock, LoadReady, LoadErrors, LoadReload, LoadWatched
  <2> QED  BY <2>1, <1>5
<1> QED  BY <1>1, <1>2, <1>3, <1>4, <1>6, <1>7 DEF Next, Write

\* What has been told only grows, and by nothing but what was read.
LEMMA ToldNext == StoreInv /\ AnswersInv /\ [Next]_vars => ToldBounded'
<1> SUFFICES ASSUME StoreInv, AnswersInv, [Next]_vars PROVE ToldBounded'
  OBVIOUS
<1>0. TypeOK /\ ToldBounded /\ told \in Told  BY DEF StoreInv, AnswersInv, TypeOK
<1>1. /\ entries' >= entries /\ scanErrors' >= scanErrors
      /\ reloadTotal' >= reloadTotal /\ (ready => ready')
  BY StoredGrows
<1>2. /\ entries' \in Nat /\ scanErrors' \in Nat /\ reloadTotal' \in Nat
      /\ entries \in Nat /\ scanErrors \in Nat /\ reloadTotal \in Nat
      /\ told.batch \in Nat /\ told.errors \in Nat /\ told.reload \in Nat
  <2>1. TypeOK'  BY <1>0, TypeNext
  <2>2. told.batch \in Nat /\ told.errors \in Nat /\ told.reload \in Nat
    BY <1>0 DEF Told
  <2> QED  BY <1>0, <2>1, <2>2 DEF TypeOK, Batch
<1>3. ready' => entries' >= 1
  <2>1. CASE StoreReady
    <3>1. entries = batch /\ batch >= 1
      BY <2>1 DEF StoreReady, WriterStep, StoreInv, FieldsExact, Holds
    <3>2. entries' = entries  BY <2>1 DEF StoreReady, guarded
    <3> QED  BY <3>1, <3>2
  <2>2. CASE ~StoreReady
    <3>1. ready' = ready
      BY <2>2 DEF Next, vars, atomics, SetBatch, Write, Lock, WriteEntries,
         WriteActivities, WriteBuffers, WriteTime, Unlock, AddErrors, RLock, Read,
         Copy, CopyEntries, CopyActivities, CopyBuffers, CopyTime, RUnlock, LoadReady,
         LoadErrors, LoadReload, LoadWatched, IncrReload, SetWatchedTotal, IsReady
    <3> QED  BY <1>0, <1>1, <1>2, <3>1 DEF ToldBounded
  <2> QED  BY <2>1, <2>2
<1>4. CASE IsReady
  <2>1. /\ told'.batch = Larger(told.batch, 1) /\ told'.errors = told.errors
        /\ told'.reload = told.reload /\ ready
    BY <1>4 DEF IsReady
  <2>2. told'.batch \in {told.batch, 1}  BY <2>1, <1>2, LargerOfTwo
  <2> QED  BY <2>1, <2>2, <1>0, <1>1, <1>2, <1>3 DEF ToldBounded
<1>5. ASSUME NEW r \in Reader, LoadWatched(r) PROVE ToldBounded'
  <2>1. /\ told'.batch = Larger(told.batch, snap[r].entries)
        /\ told'.errors = Larger(told.errors, snap[r].errors)
        /\ told'.reload = Larger(told.reload, snap[r].reload)
        /\ told'.ready => (told.ready \/ snap[r].ready)
    BY <1>5 DEF LoadWatched
  <2>2. /\ snap[r].entries \in Nat /\ snap[r].errors \in Nat
        /\ snap[r].reload \in Nat
    BY <1>0, AnswerTypes
  <2>3. /\ told'.batch \in {told.batch, snap[r].entries}
        /\ told'.errors \in {told.errors, snap[r].errors}
        /\ told'.reload \in {told.reload, snap[r].reload}
    BY <2>1, <2>2, <1>2, LargerOfTwo
  <2>4. snap[r].entries <= entries  BY DEF StoreInv, SnapExact
  <2>5. ReadBounded(r)  BY DEF AnswersInv, Answers
  <2>6. told'.ready => ready  BY <2>1, <2>5, <1>0 DEF ReadBounded, ToldBounded
  <2> QED
    BY <2>2, <2>3, <2>4, <2>5, <2>6, <1>0, <1>1, <1>2, <1>3
    DEF ToldBounded, ReadBounded
<1>6. CASE told' = told
  BY <1>6, <1>0, <1>1, <1>2, <1>3 DEF ToldBounded
<1>7. told' = told \/ IsReady \/ \E r \in Reader : LoadWatched(r)
  BY DEF Next, vars, readers, SetBatch, Write, Lock, WriteEntries, WriteActivities,
     WriteBuffers, WriteTime, Unlock, AddErrors, StoreReady, RLock, Read, Copy,
     CopyEntries, CopyActivities, CopyBuffers, CopyTime, RUnlock, LoadReady,
     LoadErrors, LoadReload, IncrReload, SetWatchedTotal
<1> QED  BY <1>4, <1>5, <1>6, <1>7

LEMMA ToldGrows ==
    StoreInv /\ [Next]_vars =>
        /\ told'.batch >= told.batch
        /\ told'.errors >= told.errors
        /\ told'.reload >= told.reload
        /\ told.ready => told'.ready
<1> SUFFICES ASSUME StoreInv, [Next]_vars
             PROVE  /\ told'.batch >= told.batch
                    /\ told'.errors >= told.errors
                    /\ told'.reload >= told.reload
                    /\ told.ready => told'.ready
  OBVIOUS
<1>1. told.batch \in Nat /\ told.errors \in Nat /\ told.reload \in Nat
  <2>1. told \in Told  BY DEF StoreInv, TypeOK
  <2> QED  BY <2>1 DEF Told
<1>2. CASE told' = told
  BY <1>1, <1>2
<1>3. CASE IsReady
  <2>1. /\ told'.batch = Larger(told.batch, 1) /\ told'.errors = told.errors
        /\ told'.reload = told.reload /\ told'.ready
    BY <1>3 DEF IsReady
  <2>2. Larger(told.batch, 1) >= told.batch  BY <1>1, LargerOfTwo
  <2> QED  BY <1>1, <2>1, <2>2
<1>4. ASSUME NEW r \in Reader, LoadWatched(r)
      PROVE  /\ told'.batch >= told.batch
             /\ told'.errors >= told.errors
             /\ told'.reload >= told.reload
             /\ told.ready => told'.ready
  <2>1. /\ told'.batch = Larger(told.batch, snap[r].entries)
        /\ told'.errors = Larger(told.errors, snap[r].errors)
        /\ told'.reload = Larger(told.reload, snap[r].reload)
        /\ told.ready => told'.ready
    BY <1>4 DEF LoadWatched
  <2>2. /\ snap[r].entries \in Nat /\ snap[r].errors \in Nat
        /\ snap[r].reload \in Nat
    BY AnswerTypes DEF StoreInv
  <2>3. /\ Larger(told.batch, snap[r].entries) >= told.batch
        /\ Larger(told.errors, snap[r].errors) >= told.errors
        /\ Larger(told.reload, snap[r].reload) >= told.reload
    BY <1>1, <2>2, LargerOfTwo
  <2> QED  BY <2>1, <2>3
<1>5. told' = told \/ IsReady \/ \E r \in Reader : LoadWatched(r)
  BY DEF Next, vars, readers, SetBatch, Write, Lock, WriteEntries, WriteActivities,
     WriteBuffers, WriteTime, Unlock, AddErrors, StoreReady, RLock, Read, Copy,
     CopyEntries, CopyActivities, CopyBuffers, CopyTime, RUnlock, LoadReady,
     LoadErrors, LoadReload, IncrReload, SetWatchedTotal
<1> QED  BY <1>2, <1>3, <1>4, <1>5

\* One scrape.  Its own steps copy a field that is at least what had been told
\* when it began; every other step leaves its snapshot and its floor alone.
LEMMA AnswersNext ==
    StoreInv /\ AnswersInv /\ [Next]_vars => \A r \in Reader : Answers(r)'
<1> SUFFICES ASSUME StoreInv, AnswersInv, [Next]_vars, NEW r \in Reader
             PROVE  Answers(r)'
  OBVIOUS
<1>0. /\ TypeOK /\ ToldBounded /\ SnapExact(r)
      /\ ReadBounded(r) /\ FloorBounded(r) /\ AtLeastFloor(r)
      /\ rpc \in [Reader -> ReaderLabel]
      /\ snap \in [Reader -> Snapshot]
      /\ floor \in [Reader -> Told]
  BY DEF StoreInv, AnswersInv, Answers, TypeOK
<1>1. /\ entries' >= entries /\ scanErrors' >= scanErrors
      /\ reloadTotal' >= reloadTotal /\ (ready => ready')
  BY StoredGrows
<1>2. /\ told'.batch >= told.batch /\ told'.errors >= told.errors
      /\ told'.reload >= told.reload /\ (told.ready => told'.ready)
  BY ToldGrows
<1>3. /\ scanErrors \in Nat /\ reloadTotal \in Nat /\ entries \in Nat
      /\ told.batch \in Nat /\ told.errors \in Nat /\ told.reload \in Nat
      /\ snap[r].entries \in Nat /\ snap[r].errors \in Nat
      /\ snap[r].reload \in Nat
      /\ floor[r].batch \in Nat /\ floor[r].errors \in Nat
      /\ floor[r].reload \in Nat
  BY <1>0, AnswerTypes
<1>4. /\ scanErrors' \in Nat /\ reloadTotal' \in Nat
      /\ told'.batch \in Nat /\ told'.errors \in Nat /\ told'.reload \in Nat
  <2>1. TypeOK'  BY <1>0, TypeNext
  <2>2. told' \in Told  BY <2>1 DEF TypeOK
  <2>3. told'.batch \in Nat /\ told'.errors \in Nat /\ told'.reload \in Nat
    BY <2>2 DEF Told
  <2> QED  BY <2>1, <2>3 DEF TypeOK
<1>5. ASSUME snap'[r] = snap[r], floor'[r] = floor[r],
             rpc'[r] = rpc[r] \/ rpc'[r] = "entries"
      PROVE  Answers(r)'
  <2>1. ReadBounded(r)'  BY <1>0, <1>1, <1>3, <1>4, <1>5 DEF ReadBounded
  <2>2. FloorBounded(r)'  BY <1>0, <1>2, <1>3, <1>4, <1>5 DEF FloorBounded
  <2>3. AtLeastFloor(r)'  BY <1>0, <1>5 DEF AtLeastFloor
  <2> QED  BY <2>1, <2>2, <2>3 DEF Answers
<1>6. ASSUME RLock(r) PROVE Answers(r)'
  <2>1. /\ rpc'[r] \in {"blocked", "entries"} /\ snap'[r] = Blank
        /\ floor'[r] = told /\ told' = told
    BY <1>0, <1>6 DEF RLock
  <2>2. ReadBounded(r)'  BY <2>1, <1>4 DEF ReadBounded, Blank
  <2>3. FloorBounded(r)'  BY <2>1, <1>3 DEF FloorBounded
  <2>4. AtLeastFloor(r)'  BY <2>1 DEF AtLeastFloor
  <2> QED  BY <2>2, <2>3, <2>4 DEF Answers
<1>7. ASSUME Read(r) PROVE Answers(r)'
  <2> USE DEF ReaderStep, Copy, Snapshot
  <2>1. floor'[r] = floor[r]
    BY <1>7 DEF Read, CopyEntries, CopyActivities, CopyBuffers, CopyTime, RUnlock,
                LoadReady, LoadErrors, LoadReload, LoadWatched
  <2>2. FloorBounded(r)'  BY <1>0, <1>2, <1>3, <1>4, <2>1 DEF FloorBounded
  <2>3. /\ entries' = entries /\ scanErrors' = scanErrors
        /\ reloadTotal' = reloadTotal /\ ready' = ready
    BY <1>7 DEF guarded, atomics, Read, CopyEntries, CopyActivities, CopyBuffers,
                CopyTime, RUnlock, LoadReady, LoadErrors, LoadReload, LoadWatched
  <2>4. ASSUME rpc[r] \notin {"entries", "ready", "errors", "reload"}
        PROVE  Answers(r)'
    <3>1. /\ snap'[r].entries = snap[r].entries /\ snap'[r].errors = snap[r].errors
          /\ snap'[r].reload = snap[r].reload /\ snap'[r].ready = snap[r].ready
      BY <1>0, <1>7, <2>4 DEF Read, CopyEntries, CopyActivities, CopyBuffers,
         CopyTime, RUnlock, LoadReady, LoadErrors, LoadReload, LoadWatched
    <3>2. \/ rpc[r] \in {"activities", "buffers", "time", "runlock"}
             /\ rpc'[r] \in {"buffers", "time", "runlock", "ready"}
          \/ rpc[r] = "watched" /\ rpc'[r] = "done"
      BY <1>0, <1>7, <2>4 DEF Read, CopyEntries, CopyActivities, CopyBuffers,
         CopyTime, RUnlock, LoadReady, LoadErrors, LoadReload, LoadWatched
    <3>3. ReadBounded(r)'  BY <1>0, <2>3, <3>1 DEF ReadBounded
    <3>4. AtLeastFloor(r)'  BY <1>0, <2>1, <3>1, <3>2 DEF AtLeastFloor
    <3> QED  BY <2>2, <3>3, <3>4 DEF Answers
  <2>5. CASE rpc[r] = "entries"
    <3>1. /\ rpc'[r] = "activities" /\ snap'[r].entries = entries
          /\ snap'[r].errors = snap[r].errors /\ snap'[r].reload = snap[r].reload
          /\ snap'[r].ready = snap[r].ready
      BY <1>0, <1>7, <2>5 DEF Read, CopyEntries, CopyActivities, CopyBuffers,
         CopyTime, RUnlock, LoadReady, LoadErrors, LoadReload, LoadWatched
    <3>2. entries >= floor[r].batch
      BY <1>0, <1>3 DEF ToldBounded, FloorBounded
    <3>3. ReadBounded(r)'  BY <1>0, <2>3, <3>1 DEF ReadBounded
    <3>4. AtLeastFloor(r)'  BY <2>1, <3>1, <3>2 DEF AtLeastFloor
    <3> QED  BY <2>2, <3>3, <3>4 DEF Answers
  <2>6. CASE rpc[r] = "ready"
    <3>1. /\ rpc'[r] = "errors" /\ snap'[r].entries = snap[r].entries
          /\ snap'[r].errors = snap[r].errors /\ snap'[r].reload = snap[r].reload
          /\ snap'[r].ready = ready
      BY <1>0, <1>7, <2>6 DEF Read, CopyEntries, CopyActivities, CopyBuffers,
         CopyTime, RUnlock, LoadReady, LoadErrors, LoadReload, LoadWatched
    <3>2. floor[r].ready => ready
      BY <1>0 DEF ToldBounded, FloorBounded
    <3>3. ReadBounded(r)'  BY <1>0, <2>3, <3>1 DEF ReadBounded
    <3>4. AtLeastFloor(r)'  BY <1>0, <2>1, <2>6, <3>1, <3>2 DEF AtLeastFloor
    <3> QED  BY <2>2, <3>3, <3>4 DEF Answers
  <2>7. CASE rpc[r] = "errors"
    <3>1. /\ rpc'[r] = "reload" /\ snap'[r].entries = snap[r].entries
          /\ snap'[r].errors = scanErrors /\ snap'[r].reload = snap[r].reload
          /\ snap'[r].ready = snap[r].ready
      BY <1>0, <1>7, <2>7 DEF Read, CopyEntries, CopyActivities, CopyBuffers,
         CopyTime, RUnlock, LoadReady, LoadErrors, LoadReload, LoadWatched
    <3>2. scanErrors >= floor[r].errors
      BY <1>0, <1>3 DEF ToldBounded, FloorBounded
    <3>3. ReadBounded(r)'  BY <1>0, <1>3, <2>3, <3>1 DEF ReadBounded
    <3>4. AtLeastFloor(r)'  BY <1>0, <2>1, <2>7, <3>1, <3>2 DEF AtLeastFloor
    <3> QED  BY <2>2, <3>3, <3>4 DEF Answers
  <2>8. CASE rpc[r] = "reload"
    <3>1. /\ rpc'[r] = "watched" /\ snap'[r].entries = snap[r].entries
          /\ snap'[r].errors = snap[r].errors /\ snap'[r].reload = reloadTotal
          /\ snap'[r].ready = snap[r].ready
      BY <1>0, <1>7, <2>8 DEF Read, CopyEntries, CopyActivities, CopyBuffers,
         CopyTime, RUnlock, LoadReady, LoadErrors, LoadReload, LoadWatched
    <3>2. reloadTotal >= floor[r].reload
      BY <1>0, <1>3 DEF ToldBounded, FloorBounded
    <3>3. ReadBounded(r)'  BY <1>0, <1>3, <2>3, <3>1 DEF ReadBounded
    <3>4. AtLeastFloor(r)'  BY <1>0, <2>1, <2>8, <3>1, <3>2 DEF AtLeastFloor
    <3> QED  BY <2>2, <3>3, <3>4 DEF Answers
  <2> QED  BY <2>4, <2>5, <2>6, <2>7, <2>8
<1>8. ASSUME NEW q \in Reader, q # r, RLock(q) \/ Read(q)
      PROVE  snap'[r] = snap[r] /\ floor'[r] = floor[r] /\ rpc'[r] = rpc[r]
  BY <1>0, <1>8 DEF RLock, Read, ReaderStep, Copy, CopyEntries, CopyActivities,
     CopyBuffers, CopyTime, RUnlock, LoadReady, LoadErrors, LoadReload, LoadWatched
<1>9. ASSUME Unlock
      PROVE  snap'[r] = snap[r] /\ floor'[r] = floor[r]
             /\ (rpc'[r] = rpc[r] \/ rpc'[r] = "entries")
  BY <1>9 DEF Unlock
<1>10. ASSUME SetBatch \/ Lock \/ WriteEntries \/ WriteActivities \/ WriteBuffers
                \/ WriteTime \/ AddErrors \/ StoreReady \/ IncrReload
                \/ SetWatchedTotal \/ IsReady \/ UNCHANGED vars
       PROVE  snap' = snap /\ floor' = floor /\ rpc' = rpc
  BY <1>10 DEF SetBatch, Lock, WriteEntries, WriteActivities, WriteBuffers, WriteTime,
     AddErrors, StoreReady, IncrReload, SetWatchedTotal, IsReady, vars, readers
<1> QED  BY <1>5, <1>6, <1>7, <1>8, <1>9, <1>10 DEF Next, Write

\* Successive answers never contradict one another: counters do not fall, the batch
\* shown is never an older one, a ready cache stays ready (cache.go:87-90,
\* 121-130; server.go:118-127).
THEOREM AnswersNeverGoBack == Spec => []ScrapesNeverGoBack
<1>1. Init => AnswersInv  BY AnswersInit
<1>2. StoreInv /\ AnswersInv /\ [Next]_vars => AnswersInv'
  <2> SUFFICES ASSUME StoreInv, AnswersInv, [Next]_vars PROVE AnswersInv'  OBVIOUS
  <2>1. ToldBounded'  BY ToldNext
  <2>2. (\A r \in Reader : Answers(r))'  BY AnswersNext
  <2> QED  BY <2>1, <2>2 DEF AnswersInv
<1>3. AnswersInv => ScrapesNeverGoBack
  BY DEF AnswersInv, Answers, AtLeastFloor, ScrapesNeverGoBack
<1> QED  BY StoreCorrect, <1>1, <1>2, <1>3, PTL DEF Spec

=============================================================================
