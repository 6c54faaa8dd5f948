-------------------------- MODULE ScanCycleProofs --------------------------
(***************************************************************************)
(* Theorems about ScanCycle, for any number of directories, nodes and      *)
(* workers.                                                                *)
(***************************************************************************)
EXTENDS ScanCycle, FiniteSetTheorems, TLAPS

USE BoundAssumption, WorkersAssumption, NodeAssumption

(***************************************************************************)
(* One fan-out: the semaphore counts the workers that hold a slot, the     *)
(* WaitGroup those that have not left and the one being admitted.          *)
(***************************************************************************)
Admitting(p) == IF phase[p] = "acquire" THEN 1 ELSE 0

PoolExact(p) ==
    /\ sem[p] = Cardinality(HoldsSlot(p))
    /\ sem[p] <= Workers
    /\ wg[p] = Cardinality(Live(p)) + Admitting(p)
    /\ phase[p] = "acquire" => next[p] <= size[p]
    /\ \A j \in Job : j >= next[p] => job[p][j] = "none"
    /\ phase[p] \in {"off", "joined"} => Live(p) = {}

\* Which dispatcher may be where in each stage of the cycle.
StageExact ==
    /\ stage = "scan" => phase["bufs"] = "off" /\ \A j \in Job : job["bufs"][j] = "none"
    /\ stage = "bufs" => phase["dirs"] = "joined" /\ phase["acts"] = "joined"
    /\ stage = "idle" => \A p \in Pool : phase[p] \in {"off", "joined"}

PoolInv == TypeOK /\ (\A p \in Pool : PoolExact(p)) /\ StageExact

(***************************************************************************)
(* What the pools leave behind.                                            *)
(***************************************************************************)
LateExact ==
    \A p \in Pool :
        /\ late[p] <= 1
        /\ ~expired \/ phase[p] = "acquire" => late[p] = 0

Failed == {d \in Job : found[d] = "failed"}

DirsExact ==
    /\ \A d \in Job :
           /\ job["dirs"][d] \in {"none", "running"} <=> found[d] = "absent"
           /\ found[d] # "absent" => found[d] \in Endings(Path[d], expired)
           /\ d < next["dirs"] => job["dirs"][d] # "none"
    /\ errCount = Cardinality(Failed)
    /\ phase["dirs"] \in {"join", "joined"} => expired \/ next["dirs"] > size["dirs"]
    /\ next["dirs"] <= size["dirs"] + 1

\* The results map holds a scan of each directory that was scanned, and no other.
MapExact ==
    /\ \A path \in Job : results[path] # 0 =>
           /\ results[path] \in Job
           /\ Path[results[path]] = path
           /\ found[results[path]] # "absent"
    /\ \A d \in Job : found[d] # "absent" => results[Path[d]] # 0

BufsStarted == phase["bufs"] = "acquire" \/ \E n \in Job : job["bufs"][n] # "none"

BufsExact ==
    /\ \A n \in Job : buffers[n] # "part"
    /\ BufsStarted => \A d \in Job : found[d] # "part"

CycleInv == PoolInv /\ LateExact /\ DirsExact /\ MapExact /\ BufsExact

\* Everything in TypeOK but the signs of the counters.
Shape ==
    /\ stage \in {"idle", "scan", "bufs"}
    /\ expired \in BOOLEAN
    /\ distributors \subseteq Job
    /\ size \in [Pool -> 0..N]
    /\ phase \in [Pool -> Phase]
    /\ next \in [Pool -> 1..(N + 1)]
    /\ sem \in [Pool -> Int]
    /\ wg \in [Pool -> Int]
    /\ job \in [Pool -> [Job -> WorkerState]]
    /\ found \in [Job -> Outcome]
    /\ results \in [Job -> 0..N]
    /\ activities \subseteq Job
    /\ buffers \in [Job -> Outcome]
    /\ errCount \in Nat
    /\ late \in [Pool -> Nat]

LEMMA JobFinite == IsFiniteSet(Job)
  BY FS_Interval DEF Job

LEMMA WorkersCounted ==
    ASSUME NEW p \in Pool
    PROVE  /\ IsFiniteSet(HoldsSlot(p)) /\ Cardinality(HoldsSlot(p)) \in Nat
           /\ IsFiniteSet(Live(p)) /\ Cardinality(Live(p)) \in Nat
<1>1. HoldsSlot(p) \subseteq Job /\ Live(p) \subseteq Job  BY DEF HoldsSlot, Live
<1>2. IsFiniteSet(HoldsSlot(p)) /\ IsFiniteSet(Live(p))  BY <1>1, JobFinite, FS_Subset
<1> QED  BY <1>2, FS_CardinalityType

(***************************************************************************)
(* What the life of a worker does to the two counts.                       *)
(***************************************************************************)
LEMMA OthersUntouched ==
    ASSUME job \in [Pool -> [Job -> WorkerState]],
           NEW p \in Pool, NEW j \in Job, NEW s,
           job' = [job EXCEPT ![p][j] = s],
           NEW q \in Pool, q # p
    PROVE  Live(q)' = Live(q) /\ HoldsSlot(q)' = HoldsSlot(q)
<1>1. job'[q] = job[q]  OBVIOUS
<1> QED  BY <1>1 DEF Live, HoldsSlot

LEMMA WorkerStarts ==
    ASSUME job \in [Pool -> [Job -> WorkerState]],
           NEW p \in Pool, NEW j \in Job, job[p][j] = "none",
           job' = [job EXCEPT ![p][j] = "running"]
    PROVE  /\ Cardinality(HoldsSlot(p))' = Cardinality(HoldsSlot(p)) + 1
           /\ Cardinality(Live(p))' = Cardinality(Live(p)) + 1
<1>1. /\ job'[p][j] = "running"
      /\ \A i \in Job \ {j} : job'[p][i] = job[p][i]
  OBVIOUS
<1>2. HoldsSlot(p)' = HoldsSlot(p) \cup {j} /\ j \notin HoldsSlot(p)
  BY <1>1 DEF HoldsSlot
<1>3. Live(p)' = Live(p) \cup {j} /\ j \notin Live(p)
  BY <1>1 DEF Live
<1> QED  BY <1>2, <1>3, WorkersCounted, FS_AddElement

LEMMA WorkerRecords ==
    ASSUME job \in [Pool -> [Job -> WorkerState]],
           NEW p \in Pool, NEW j \in Job, job[p][j] = "running",
           job' = [job EXCEPT ![p][j] = "recorded"]
    PROVE  HoldsSlot(p)' = HoldsSlot(p) /\ Live(p)' = Live(p)
<1>1. /\ job'[p][j] = "recorded"
      /\ \A i \in Job \ {j} : job'[p][i] = job[p][i]
  OBVIOUS
<1> QED  BY <1>1 DEF HoldsSlot, Live

LEMMA WorkerReleases ==
    ASSUME job \in [Pool -> [Job -> WorkerState]],
           NEW p \in Pool, NEW j \in Job, job[p][j] = "recorded",
           job' = [job EXCEPT ![p][j] = "released"]
    PROVE  /\ Cardinality(HoldsSlot(p))' = Cardinality(HoldsSlot(p)) - 1
           /\ Live(p)' = Live(p)
<1>1. /\ job'[p][j] = "released"
      /\ \A i \in Job \ {j} : job'[p][i] = job[p][i]
  OBVIOUS
<1>2. HoldsSlot(p)' = HoldsSlot(p) \ {j} /\ j \in HoldsSlot(p)
  BY <1>1 DEF HoldsSlot
<1>3. Live(p)' = Live(p)  BY <1>1 DEF Live
<1>4. IsFiniteSet(HoldsSlot(p))  BY WorkersCounted
<1>5. Cardinality(HoldsSlot(p) \ {j}) = Cardinality(HoldsSlot(p)) - 1
  BY <1>2, <1>4, FS_RemoveElement
<1> QED  BY <1>2, <1>3, <1>5

LEMMA WorkerLeaves ==
    ASSUME job \in [Pool -> [Job -> WorkerState]],
           NEW p \in Pool, NEW j \in Job, job[p][j] = "released",
           job' = [job EXCEPT ![p][j] = "done"]
    PROVE  /\ HoldsSlot(p)' = HoldsSlot(p)
           /\ Cardinality(Live(p))' = Cardinality(Live(p)) - 1
           /\ Live(p)' = Live(p) \ {j}
<1>1. /\ job'[p][j] = "done"
      /\ \A i \in Job \ {j} : job'[p][i] = job[p][i]
  OBVIOUS
<1>2. Live(p)' = Live(p) \ {j} /\ j \in Live(p)
  BY <1>1 DEF Live
<1>3. HoldsSlot(p)' = HoldsSlot(p)  BY <1>1 DEF HoldsSlot
<1>4. IsFiniteSet(Live(p))  BY WorkersCounted
<1>5. Cardinality(Live(p) \ {j}) = Cardinality(Live(p)) - 1
  BY <1>2, <1>4, FS_RemoveElement
<1> QED  BY <1>2, <1>3, <1>5

-----------------------------------------------------------------------------

LEMMA ShapeNext == PoolInv /\ [Next]_vars => Shape'
<1> SUFFICES ASSUME PoolInv, [Next]_vars PROVE Shape'
  OBVIOUS
<1>0. TypeOK  BY DEF PoolInv
<1> USE <1>0 DEF TypeOK, Shape, cycle, poolVars, dataVars, Phase, WorkerState
<1>1. ASSUME NEW dirs \in 0..N, NEW nodes \in 0..MaxNodes, NEW known \in SUBSET (1..nodes),
             StartCycle(dirs, nodes, known)
      PROVE  Shape'
  <2>1. nodes \in 0..N /\ dirs \in 0..N /\ known \subseteq Job  BY DEF Job
  <2>2. size' \in [Pool -> 0..N]  BY <2>1, <1>1 DEF StartCycle
  <2>3. phase' \in [Pool -> Phase] /\ next' \in [Pool -> 1..(N + 1)]
    BY <1>1 DEF StartCycle
  <2>4. job' \in [Pool -> [Job -> WorkerState]]  BY <1>1 DEF StartCycle
  <2>5. /\ found' \in [Job -> Outcome] /\ results' \in [Job -> 0..N]
        /\ buffers' \in [Job -> Outcome]
    BY <1>1 DEF StartCycle, Outcome
  <2>6. sem' \in [Pool -> Int] /\ wg' \in [Pool -> Int] /\ late' \in [Pool -> Nat]
    BY <1>1 DEF StartCycle
  <2>7. /\ stage' \in {"idle", "scan", "bufs"} /\ expired' \in BOOLEAN
        /\ distributors' \subseteq Job /\ activities' \subseteq Job /\ errCount' \in Nat
    BY <2>1, <1>1 DEF StartCycle
  <2> HIDE DEF TypeOK
  <2> QED  BY <2>2, <2>3, <2>4, <2>5, <2>6, <2>7
<1>2. CASE Expire \/ StartBuffers \/ Publish
  <2>1. CASE Expire  BY <2>1 DEF Expire
  <2>2. CASE StartBuffers  BY <2>2 DEF StartBuffers, Pool
  <2>3. CASE Publish  BY <2>3 DEF Publish
  <2> QED  BY <1>2, <2>1, <2>2, <2>3
<1>3. ASSUME NEW p \in Pool, Dispatch(p) PROVE Shape'
  <2>1. CASE StopDispatch(p)  BY <2>1 DEF StopDispatch
  <2>2. CASE Skip(p)  BY <2>2 DEF Skip
  <2>3. CASE Admit(p)  BY <2>3 DEF Admit
  <2>4. CASE Acquire(p)
    <3>1. next[p] <= size[p]  BY <2>4 DEF Acquire, PoolInv, PoolExact
    <3>2. next[p] \in Job  BY <3>1 DEF Job
    <3> QED  BY <2>4, <3>1, <3>2 DEF Acquire
  <2>5. CASE Join(p)  BY <2>5 DEF Join
  <2> QED  BY <1>3, <2>1, <2>2, <2>3, <2>4, <2>5 DEF Dispatch
<1>4. ASSUME NEW j \in Job, Work(j) \/ ScanActivity(j) \/ Count(j) PROVE Shape'
  <2>1. ASSUME NEW outcome \in Ending, ScanDir(j, outcome) PROVE Shape'
    <3>0. j \in 0..N  BY DEF Job
    <3>1. Path[j] \in Job /\ outcome \in Outcome
      BY PathAssumption DEF Outcome
    <3>2. found' \in [Job -> Outcome] /\ results' \in [Job -> 0..N]
      BY <2>1, <3>0, <3>1 DEF ScanDir
    <3>3. errCount' \in Nat
      BY <2>1 DEF ScanDir
    <3>4. "dirs" \in Pool  BY DEF Pool
    <3>5. job' \in [Pool -> [Job -> WorkerState]]
      BY <2>1, <3>4 DEF ScanDir, Record
    <3>6. UNCHANGED <<cycle, phase, next, sem, wg, late, activities, buffers>>
      BY <2>1 DEF ScanDir, Record
    <3> QED  BY <3>2, <3>3, <3>5, <3>6
  <2>2. CASE ScanActivity(j)
    <3>1. activities' \subseteq Job  BY <2>2 DEF ScanActivity
    <3>2. "acts" \in Pool  BY DEF Pool
    <3>3. job' \in [Pool -> [Job -> WorkerState]]  BY <2>2, <3>2 DEF ScanActivity, Record
    <3>4. UNCHANGED <<cycle, phase, next, sem, wg, late, found, results, buffers, errCount>>
      BY <2>2 DEF ScanActivity, Record
    <3> QED  BY <3>1, <3>3, <3>4
  <2>3. ASSUME NEW outcome \in Outcome, CountBuffer(j, outcome) PROVE Shape'
    BY <2>3 DEF CountBuffer, Record, Pool
  <2> QED  BY <1>4, <2>1, <2>2, <2>3 DEF Work, Count
<1>5. ASSUME NEW p \in Pool, NEW j \in Job, Leave(p, j) PROVE Shape'
  <2>1. CASE Release(p, j)
    <3>1. job' \in [Pool -> [Job -> WorkerState]] /\ sem' \in [Pool -> Int]
      BY <2>1 DEF Release
    <3>2. UNCHANGED <<cycle, phase, next, wg, late, dataVars>>  BY <2>1 DEF Release
    <3> QED  BY <3>1, <3>2
  <2>2. CASE WorkerDone(p, j)
    <3>1. job' \in [Pool -> [Job -> WorkerState]] /\ wg' \in [Pool -> Int]
      BY <2>2 DEF WorkerDone
    <3>2. UNCHANGED <<cycle, phase, next, sem, late, dataVars>>  BY <2>2 DEF WorkerDone
    <3> QED  BY <3>1, <3>2
  <2> QED  BY <1>5, <2>1, <2>2 DEF Leave
<1>6. CASE UNCHANGED vars
  BY <1>6 DEF vars
<1> QED  BY <1>1, <1>2, <1>3, <1>4, <1>5, <1>6 DEF Next

LEMMA PoolFrame ==
    ASSUME NEW p \in Pool, PoolExact(p),
           job'[p] = job[p], phase'[p] = phase[p], next'[p] = next[p],
           sem'[p] = sem[p], wg'[p] = wg[p], size'[p] = size[p]
    PROVE  PoolExact(p)'
<1>1. HoldsSlot(p)' = HoldsSlot(p) /\ Live(p)' = Live(p)  BY DEF HoldsSlot, Live
<1>2. Admitting(p)' = Admitting(p)  BY DEF Admitting
<1> QED  BY <1>1, <1>2 DEF PoolExact

\* A pool that has just been set to its beginning.
LEMMA PoolFresh ==
    ASSUME NEW p \in Pool, Shape', \A j \in Job : job'[p][j] = "none",
           phase'[p] # "acquire", sem'[p] = 0, wg'[p] = 0
    PROVE  PoolExact(p)'
<1>1. HoldsSlot(p)' = {} /\ Live(p)' = {}  BY DEF HoldsSlot, Live
<1>2. Cardinality(HoldsSlot(p))' = 0 /\ Cardinality(Live(p))' = 0
  BY <1>1, FS_EmptySet
<1>3. Admitting(p)' = 0  BY DEF Admitting
<1> QED  BY <1>1, <1>2, <1>3 DEF PoolExact

LEMMA DispatchKeepsPool ==
    ASSUME PoolInv, Shape', NEW p \in Pool, Dispatch(p)
    PROVE  PoolExact(p)'
<1>0. PoolExact(p) /\ TypeOK  BY DEF PoolInv
<1> USE DEF TypeOK, Phase
<1>1. CASE StopDispatch(p)
  <2>1. /\ phase'[p] = "join" /\ phase[p] = "check" /\ UNCHANGED <<next, sem, wg, job, size>>
    BY <1>1, <1>0 DEF StopDispatch, cycle
  <2>2. HoldsSlot(p)' = HoldsSlot(p) /\ Live(p)' = Live(p)  BY <2>1 DEF HoldsSlot, Live
  <2> QED  BY <1>0, <2>1, <2>2 DEF PoolExact, Admitting
<1>2. CASE Skip(p)
  <2>1. /\ phase'[p] = "check" /\ phase[p] = "check" /\ next'[p] = next[p] + 1
        /\ UNCHANGED <<sem, wg, job, size>> /\ next[p] \in Nat
    BY <1>2, <1>0 DEF Skip, cycle
  <2>2. HoldsSlot(p)' = HoldsSlot(p) /\ Live(p)' = Live(p)  BY <2>1 DEF HoldsSlot, Live
  <2>3. ASSUME NEW j \in Job, j >= next'[p] PROVE job'[p][j] = "none"
    <3>1. j >= next[p]  BY <2>1, <2>3 DEF Job
    <3> QED  BY <1>0, <2>1, <3>1 DEF PoolExact
  <2> QED  BY <1>0, <2>1, <2>2, <2>3 DEF PoolExact, Admitting
<1>3. CASE Admit(p)
  <2>1. /\ phase'[p] = "acquire" /\ phase[p] = "check" /\ wg'[p] = wg[p] + 1
        /\ next[p] <= size[p] /\ UNCHANGED <<next, sem, job, size>>
    BY <1>3, <1>0 DEF Admit, cycle
  <2>2. HoldsSlot(p)' = HoldsSlot(p) /\ Live(p)' = Live(p)  BY <2>1 DEF HoldsSlot, Live
  <2>3. Cardinality(Live(p)) \in Nat  BY WorkersCounted
  <2>4. wg'[p] = Cardinality(Live(p)') + Admitting(p)'
    BY <1>0, <2>1, <2>2, <2>3 DEF PoolExact, Admitting
  <2> QED  BY <1>0, <2>1, <2>2, <2>4 DEF PoolExact
<1>4. CASE Acquire(p)
  <2>1. /\ phase'[p] = "check" /\ phase[p] = "acquire"
        /\ sem'[p] = sem[p] + 1 /\ sem[p] < Workers /\ next'[p] = next[p] + 1
        /\ UNCHANGED <<wg, size>>
    BY <1>4, <1>0 DEF Acquire, cycle
  <2>0. next[p] <= size[p]  BY <1>0, <2>1 DEF PoolExact
  <2>2. next[p] \in Job /\ next[p] <= size[p] /\ size[p] <= N
    BY SMTT(30), <1>0, <2>0 DEF Job
  <2>3. job[p][next[p]] = "none" /\ job' = [job EXCEPT ![p][next[p]] = "running"]
    BY SMTT(30), <1>0, <1>4, <2>2 DEF PoolExact, Acquire, Job
  <2>4. /\ Cardinality(HoldsSlot(p))' = Cardinality(HoldsSlot(p)) + 1
        /\ Cardinality(Live(p))' = Cardinality(Live(p)) + 1
    BY <1>0, <2>2, <2>3, WorkerStarts
  <2>5. \A j \in Job : j >= next'[p] => job'[p][j] = "none"
    BY SMTT(30), <1>0, <2>1, <2>2, <2>3 DEF PoolExact, Job
  <2>6. Cardinality(HoldsSlot(p)) \in Nat /\ Cardinality(Live(p)) \in Nat  BY WorkersCounted
  <2>7. wg'[p] = Cardinality(Live(p))' + Admitting(p)'
    BY <1>0, <2>1, <2>4, <2>6 DEF PoolExact, Admitting
  <2>8. sem'[p] = Cardinality(HoldsSlot(p))' /\ sem'[p] <= Workers
    BY <1>0, <2>1, <2>4, <2>6 DEF PoolExact
  <2> QED  BY <2>1, <2>5, <2>7, <2>8 DEF PoolExact
<1>5. CASE Join(p)
  <2>1. /\ phase'[p] = "joined" /\ phase[p] = "join" /\ wg[p] = 0
        /\ UNCHANGED <<next, sem, wg, job, size>>
    BY <1>5, <1>0 DEF Join, cycle
  <2>2. HoldsSlot(p)' = HoldsSlot(p) /\ Live(p)' = Live(p)  BY <2>1 DEF HoldsSlot, Live
  <2>3. IsFiniteSet(Live(p)) /\ Cardinality(Live(p)) \in Nat  BY WorkersCounted
  <2>4. Cardinality(Live(p)) = 0  BY <1>0, <2>1, <2>3 DEF PoolExact, Admitting
  <2>5. Live(p) = {}  BY <2>3, <2>4, FS_EmptySet
  <2> QED  BY <1>0, <2>1, <2>2, <2>5 DEF PoolExact, Admitting
<1> QED  BY <1>1, <1>2, <1>3, <1>4, <1>5 DEF Dispatch

LEMMA RecordKeepsPool ==
    ASSUME PoolInv, Shape', NEW p \in Pool, NEW j \in Job, Record(p, j)
    PROVE  PoolExact(p)'
<1>1. PoolExact(p) /\ job \in [Pool -> [Job -> WorkerState]]
  BY DEF PoolInv, TypeOK
<1>2. /\ job[p][j] = "running" /\ job' = [job EXCEPT ![p][j] = "recorded"]
      /\ UNCHANGED <<phase, next, sem, wg, size>>
  BY DEF Record, cycle
<1>3. HoldsSlot(p)' = HoldsSlot(p) /\ Live(p)' = Live(p)
  BY <1>1, <1>2, WorkerRecords
<1>4. \A i \in Job : i >= next[p] => job'[p][i] = "none"
  BY <1>1, <1>2 DEF PoolExact
<1> QED  BY <1>1, <1>2, <1>3, <1>4 DEF PoolExact, Admitting

LEMMA LeaveKeepsPool ==
    ASSUME PoolInv, Shape', NEW p \in Pool, NEW j \in Job, Leave(p, j)
    PROVE  PoolExact(p)'
<1>1. /\ PoolExact(p) /\ job \in [Pool -> [Job -> WorkerState]]
      /\ sem \in [Pool -> Nat] /\ wg \in [Pool -> Nat]
  BY DEF PoolInv, TypeOK
<1>2. Cardinality(HoldsSlot(p)) \in Nat /\ Cardinality(Live(p)) \in Nat  BY WorkersCounted
<1>3. CASE Release(p, j)
  <2>1. /\ job[p][j] = "recorded" /\ job' = [job EXCEPT ![p][j] = "released"]
        /\ sem'[p] = sem[p] - 1
        /\ UNCHANGED <<phase, next, wg, size>>
    BY <1>1, <1>3 DEF Release, cycle
  <2>2. /\ Cardinality(HoldsSlot(p))' = Cardinality(HoldsSlot(p)) - 1
        /\ Live(p)' = Live(p)
    BY <1>1, <2>1, WorkerReleases
  <2>3. \A i \in Job : i >= next[p] => job'[p][i] = "none"
    BY <1>1, <2>1 DEF PoolExact
  <2>4. sem'[p] = Cardinality(HoldsSlot(p))' /\ sem'[p] <= Workers
    BY <1>1, <1>2, <2>1, <2>2 DEF PoolExact
  <2> QED  BY <1>1, <2>1, <2>2, <2>3, <2>4 DEF PoolExact, Admitting
<1>4. CASE WorkerDone(p, j)
  <2>1. /\ job[p][j] = "released" /\ job' = [job EXCEPT ![p][j] = "done"]
        /\ wg'[p] = wg[p] - 1
        /\ UNCHANGED <<phase, next, sem, size>>
    BY <1>1, <1>4 DEF WorkerDone, cycle
  <2>2. /\ HoldsSlot(p)' = HoldsSlot(p)
        /\ Cardinality(Live(p))' = Cardinality(Live(p)) - 1
        /\ Live(p)' = Live(p) \ {j}
    BY <1>1, <2>1, WorkerLeaves
  <2>3. \A i \in Job : i >= next[p] => job'[p][i] = "none"
    BY <1>1, <2>1 DEF PoolExact
  <2>4. wg'[p] = Cardinality(Live(p))' + Admitting(p)'
    BY <1>1, <1>2, <2>1, <2>2 DEF PoolExact, Admitting
  <2> QED  BY <1>1, <2>1, <2>2, <2>3, <2>4 DEF PoolExact
<1> QED  BY <1>3, <1>4 DEF Leave

\* What a step does outside the pool it belongs to.
LEMMA OtherPools ==
    ASSUME TypeOK, NEW p \in Pool, NEW q \in Pool, q # p,
           Dispatch(p) \/ (\E j \in Job : Record(p, j) \/ Leave(p, j))
    PROVE  /\ job'[q] = job[q] /\ phase'[q] = phase[q] /\ next'[q] = next[q]
           /\ sem'[q] = sem[q] /\ wg'[q] = wg[q] /\ late'[q] = late[q]
<1> USE DEF TypeOK
<1>1. CASE StopDispatch(p)  BY <1>1 DEF StopDispatch
<1>2. CASE Skip(p)  BY <1>2 DEF Skip
<1>3. CASE Admit(p)  BY <1>3 DEF Admit
<1>4. CASE Acquire(p)  BY <1>4 DEF Acquire
<1>5. CASE Join(p)  BY <1>5 DEF Join
<1>6. ASSUME NEW j \in Job, Record(p, j) PROVE job'[q] = job[q]
  BY <1>6 DEF Record
<1>7. ASSUME NEW j \in Job, Leave(p, j)
      PROVE  job'[q] = job[q] /\ sem'[q] = sem[q] /\ wg'[q] = wg[q]
  BY <1>7 DEF Leave, Release, WorkerDone
<1>8. ASSUME NEW j \in Job, Record(p, j) \/ Leave(p, j)
      PROVE  /\ phase' = phase /\ next' = next /\ late' = late
             /\ (Record(p, j) => sem' = sem /\ wg' = wg)
  BY <1>8 DEF Record, Leave, Release, WorkerDone
<1> QED  BY <1>1, <1>2, <1>3, <1>4, <1>5, <1>6, <1>7, <1>8 DEF Dispatch

\* Every step is one of ScanAll's own or belongs to one pool.
LEMMA StepBelongs ==
    ASSUME Next
    PROVE  \/ \E dirs \in 0..N, nodes \in 0..MaxNodes :
                  \E known \in SUBSET (1..nodes) : StartCycle(dirs, nodes, known)
           \/ Expire \/ StartBuffers \/ Publish
           \/ /\ UNCHANGED cycle
              /\ \E p \in Pool : \/ Dispatch(p)
                                 \/ \E j \in Job : Record(p, j) \/ Leave(p, j)
<1>1. ASSUME NEW p \in Pool, Dispatch(p) PROVE UNCHANGED cycle
  BY <1>1 DEF Dispatch, StopDispatch, Skip, Admit, Acquire, Join
<1>2. ASSUME NEW j \in Job, Work(j) \/ ScanActivity(j) \/ Count(j)
      PROVE  \E p \in Pool : Record(p, j)
  BY <1>2 DEF Work, ScanDir, ScanActivity, Count, CountBuffer, Pool
<1>3. ASSUME NEW p \in Pool, NEW j \in Job, Record(p, j) \/ Leave(p, j)
      PROVE  UNCHANGED cycle
  BY <1>3 DEF Record, Leave, Release, WorkerDone
<1> QED  BY <1>1, <1>2, <1>3 DEF Next

LEMMA PoolsNext == PoolInv /\ [Next]_vars /\ Shape' => \A q \in Pool : PoolExact(q)'
<1> SUFFICES ASSUME PoolInv, [Next]_vars, Shape', NEW q \in Pool
             PROVE  PoolExact(q)'
  OBVIOUS
<1>0. TypeOK /\ PoolExact(q)  BY DEF PoolInv
<1>1. ASSUME NEW dirs \in 0..N, NEW nodes \in 0..MaxNodes, NEW known \in SUBSET (1..nodes),
             StartCycle(dirs, nodes, known)
      PROVE  PoolExact(q)'
  BY <1>1, PoolFresh DEF StartCycle
<1>2. CASE Expire \/ Publish \/ UNCHANGED vars
  BY <1>0, <1>2, PoolFrame DEF Expire, Publish, vars, cycle, poolVars
<1>3. CASE StartBuffers
  <2>1. CASE q = "bufs"
    <3>1. phase[q] = "off" /\ \A j \in Job : job[q][j] = "none"
      BY <1>3, <2>1 DEF StartBuffers, PoolInv, StageExact
    <3>2. phase'[q] = "check" /\ UNCHANGED <<next, sem, wg, job, size>>
      BY <1>0, <1>3, <2>1 DEF StartBuffers, TypeOK
    <3>3. HoldsSlot(q)' = HoldsSlot(q) /\ Live(q)' = Live(q)
      BY <3>2 DEF HoldsSlot, Live
    <3> QED  BY <1>0, <3>1, <3>2, <3>3 DEF PoolExact, Admitting
  <2>2. CASE q # "bufs"
    <3>1. phase'[q] = phase[q] /\ UNCHANGED <<next, sem, wg, job, size>>
      BY <1>0, <1>3, <2>2 DEF StartBuffers, TypeOK
    <3> QED  BY <1>0, <3>1, PoolFrame
  <2> QED  BY <2>1, <2>2
<1>4. ASSUME UNCHANGED cycle,
             NEW p \in Pool, Dispatch(p) \/ (\E j \in Job : Record(p, j) \/ Leave(p, j))
      PROVE  PoolExact(q)'
  <2>1. CASE q = p
    BY <1>4, <2>1, DispatchKeepsPool, RecordKeepsPool, LeaveKeepsPool
  <2>2. CASE q # p
    BY <1>0, <1>4, <2>2, OtherPools, PoolFrame DEF cycle
  <2> QED  BY <2>1, <2>2
<1> QED  BY <1>1, <1>2, <1>3, <1>4, StepBelongs

LEMMA TypesNext == Shape' /\ (\A q \in Pool : PoolExact(q)') => TypeOK'
<1> SUFFICES ASSUME Shape', \A q \in Pool : PoolExact(q)' PROVE TypeOK'
  OBVIOUS
<1>1. ASSUME NEW q \in Pool PROVE sem'[q] \in Nat /\ wg'[q] \in Nat
  <2>1. Cardinality(HoldsSlot(q))' \in Nat /\ Cardinality(Live(q))' \in Nat
    <3>1. HoldsSlot(q)' \subseteq Job /\ Live(q)' \subseteq Job  BY DEF HoldsSlot, Live
    <3>2. IsFiniteSet(HoldsSlot(q)') /\ IsFiniteSet(Live(q)')
      BY <3>1, JobFinite, FS_Subset
    <3> QED  BY <3>2, FS_CardinalityType
  <2> QED  BY <2>1 DEF PoolExact, Admitting
<1>2. sem' \in [Pool -> Nat] /\ wg' \in [Pool -> Nat]  BY <1>1 DEF Shape
<1> QED  BY <1>2 DEF Shape, TypeOK

LEMMA StagesNext == PoolInv /\ [Next]_vars /\ Shape' => StageExact'
<1> SUFFICES ASSUME PoolInv, [Next]_vars, Shape' PROVE StageExact'
  OBVIOUS
<1>0. TypeOK /\ StageExact /\ \A p \in Pool : PoolExact(p)  BY DEF PoolInv
<1>1. ASSUME NEW dirs \in 0..N, NEW nodes \in 0..MaxNodes, NEW known \in SUBSET (1..nodes),
             StartCycle(dirs, nodes, known)
      PROVE  StageExact'
  BY <1>1 DEF StartCycle, StageExact, Pool
<1>2. CASE Expire \/ UNCHANGED vars
  BY <1>0, <1>2 DEF Expire, vars, cycle, poolVars, StageExact
<1>3. CASE StartBuffers
  BY <1>0, <1>3 DEF StartBuffers, StageExact, TypeOK, Pool
<1>4. CASE Publish
  BY <1>0, <1>4 DEF Publish, StageExact, poolVars, Pool
<1>5. ASSUME UNCHANGED cycle,
             NEW p \in Pool, Dispatch(p) \/ (\E j \in Job : Record(p, j) \/ Leave(p, j))
      PROVE  StageExact'
  \* The pool is at work, so its stage is on.
  <2>1. phase[p] \notin {"off", "joined"}
    <3>1. CASE Dispatch(p)
      BY <3>1 DEF Dispatch, StopDispatch, Skip, Admit, Acquire, Join
    <3>2. ASSUME NEW j \in Job, Record(p, j) \/ Leave(p, j) PROVE j \in Live(p)
      BY <3>2 DEF Record, Leave, Release, WorkerDone, Live
    <3> QED  BY <1>0, <1>5, <3>1, <3>2 DEF PoolExact
  <2>2. /\ stage \in {"scan", "bufs"}
        /\ (p = "bufs" => stage = "bufs")
        /\ (p # "bufs" => stage = "scan")
    BY <1>0, <2>1 DEF StageExact, TypeOK, Pool
  <2>3. stage' = stage  BY <1>5 DEF cycle
  <2>4. CASE p = "bufs"
    <3>1. phase'["dirs"] = phase["dirs"] /\ phase'["acts"] = phase["acts"]
      BY <1>0, <1>5, <2>4, OtherPools DEF Pool
    <3> QED  BY <1>0, <2>2, <2>3, <2>4, <3>1 DEF StageExact
  <2>5. CASE p # "bufs"
    <3>1. phase'["bufs"] = phase["bufs"] /\ job'["bufs"] = job["bufs"]
      BY <1>0, <1>5, <2>5, OtherPools DEF Pool
    <3> QED  BY <1>0, <2>2, <2>3, <2>5, <3>1 DEF StageExact
  <2> QED  BY <2>4, <2>5
<1> QED  BY <1>1, <1>2, <1>3, <1>4, <1>5, StepBelongs

LEMMA PoolInvInit == Init => PoolInv
<1> SUFFICES ASSUME Init PROVE PoolInv
  OBVIOUS
<1>1. \A p \in Pool : HoldsSlot(p) = {} /\ Live(p) = {}
  BY DEF Init, HoldsSlot, Live
<1>2. ASSUME NEW p \in Pool PROVE PoolExact(p)
  <2>1. Cardinality(HoldsSlot(p)) = 0 /\ Cardinality(Live(p)) = 0
    BY <1>1, FS_EmptySet
  <2>2. /\ sem[p] = 0 /\ wg[p] = 0 /\ phase[p] = "off"
        /\ \A j \in Job : job[p][j] = "none"
    BY DEF Init
  <2>3. Admitting(p) = 0  BY <2>2 DEF Admitting
  <2> QED  BY <1>1, <2>1, <2>2, <2>3 DEF PoolExact
<1>3. StageExact  BY DEF Init, StageExact
<1>4. TypeOK
  <2>1. size \in [Pool -> 0..N] /\ next \in [Pool -> 1..(N + 1)]  BY DEF Init
  <2>2. phase \in [Pool -> Phase] /\ job \in [Pool -> [Job -> WorkerState]]
    BY DEF Init, Phase, WorkerState
  <2>3. /\ found \in [Job -> Outcome] /\ results \in [Job -> 0..N]
        /\ buffers \in [Job -> Outcome]
    BY DEF Init, Outcome
  <2>4. sem \in [Pool -> Nat] /\ wg \in [Pool -> Nat] /\ late \in [Pool -> Nat]
    BY DEF Init
  <2> QED  BY <2>1, <2>2, <2>3, <2>4 DEF Init, TypeOK
<1> QED  BY <1>2, <1>3, <1>4 DEF PoolInv

LEMMA PoolInvNext == PoolInv /\ [Next]_vars => PoolInv'
  BY ShapeNext, PoolsNext, TypesNext, StagesNext DEF PoolInv


-----------------------------------------------------------------------------

LEMMA LateNext == PoolInv /\ LateExact /\ [Next]_vars => LateExact'
<1> SUFFICES ASSUME PoolInv, LateExact, [Next]_vars, NEW q \in Pool
             PROVE  /\ late'[q] <= 1
                    /\ ~expired' \/ phase'[q] = "acquire" => late'[q] = 0
  BY DEF LateExact
<1>0. /\ late \in [Pool -> Nat] /\ phase \in [Pool -> Phase]
      /\ late[q] <= 1 /\ (~expired \/ phase[q] = "acquire" => late[q] = 0)
      /\ TypeOK
  BY DEF PoolInv, TypeOK, LateExact
<1>1. ASSUME NEW dirs \in 0..N, NEW nodes \in 0..MaxNodes, NEW known \in SUBSET (1..nodes),
             StartCycle(dirs, nodes, known)
      PROVE  late'[q] <= 1 /\ late'[q] = 0
  BY <1>1 DEF StartCycle
<1>2. CASE Expire \/ Publish \/ UNCHANGED vars
  BY <1>0, <1>2 DEF Expire, Publish, vars, cycle, poolVars
<1>3. CASE StartBuffers
  <2>1. late' = late /\ expired' = expired /\ phase'[q] \in {phase[q], "check"}
    BY <1>0, <1>3 DEF StartBuffers
  <2> QED  BY <1>0, <2>1
<1>4. ASSUME UNCHANGED cycle,
             NEW p \in Pool, Dispatch(p) \/ (\E j \in Job : Record(p, j) \/ Leave(p, j))
      PROVE  /\ late'[q] <= 1
             /\ ~expired' \/ phase'[q] = "acquire" => late'[q] = 0
  <2>0. expired' = expired  BY <1>4 DEF cycle
  <2>1. CASE q # p  BY <1>0, <1>4, <2>0, <2>1, OtherPools
  <2>2. CASE StopDispatch(q) \/ Skip(q) \/ Join(q)
    <3>1. late' = late /\ phase'[q] # "acquire"
      BY <1>0, <2>2 DEF StopDispatch, Skip, Join
    <3> QED  BY <1>0, <2>0, <3>1
  <2>3. CASE Admit(q)
    <3>1. late' = late /\ ~expired  BY <2>3 DEF Admit
    <3> QED  BY <1>0, <2>0, <3>1
  <2>4. CASE Acquire(q)
    <3>1. /\ phase[q] = "acquire" /\ phase'[q] = "check"
          /\ late'[q] = IF expired THEN late[q] + 1 ELSE late[q]
      BY <1>0, <2>4 DEF Acquire
    <3> QED  BY <1>0, <2>0, <3>1
  <2>5. ASSUME NEW j \in Job, Record(q, j) \/ Leave(q, j)
        PROVE  late' = late /\ phase' = phase
    BY <2>5 DEF Record, Leave, Release, WorkerDone
  <2>6. CASE Dispatch(q)  BY <2>2, <2>3, <2>4, <2>6 DEF Dispatch
  <2>7. CASE \E j \in Job : Record(q, j) \/ Leave(q, j)
    <3>1. late' = late /\ phase' = phase  BY <2>5, <2>7
    <3> QED  BY <1>0, <2>0, <3>1
  <2> QED  BY <1>4, <2>1, <2>6, <2>7
<1> QED  BY <1>0, <1>1, <1>2, <1>3, <1>4, StepBelongs

-----------------------------------------------------------------------------

LEMMA FailedCounted == IsFiniteSet(Failed) /\ Cardinality(Failed) \in Nat
<1>1. Failed \subseteq Job  BY DEF Failed
<1> QED  BY <1>1, JobFinite, FS_Subset, FS_CardinalityType

\* Time only adds to the ways a scan may end.
LEMMA EndingsGrow ==
    ASSUME NEW path, expired => expired'
    PROVE  Endings(path, expired) \subseteq Endings(path, expired')
  BY DEF Endings, MayEnd

\* A step that touches neither the directory pool nor its results.
LEMMA DirsFrame ==
    ASSUME DirsExact,
           job'["dirs"] = job["dirs"], phase'["dirs"] = phase["dirs"],
           next'["dirs"] = next["dirs"], size'["dirs"] = size["dirs"],
           found' = found, errCount' = errCount, expired => expired'
    PROVE  DirsExact'
<1>1. Failed' = Failed  BY DEF Failed
<1>2. ASSUME NEW d \in Job
      PROVE  /\ job'["dirs"][d] \in {"none", "running"} <=> found'[d] = "absent"
             /\ found'[d] # "absent" => found'[d] \in Endings(Path[d], expired')
             /\ d < next'["dirs"] => job'["dirs"][d] # "none"
  BY EndingsGrow DEF DirsExact
<1>3. /\ errCount' = Cardinality(Failed')
      /\ phase'["dirs"] \in {"join", "joined"} => expired' \/ next'["dirs"] > size'["dirs"]
      /\ next'["dirs"] <= size'["dirs"] + 1
  BY <1>1 DEF DirsExact
<1> QED  BY <1>2, <1>3 DEF DirsExact

LEMMA DirsDispatch ==
    ASSUME PoolInv, DirsExact, Dispatch("dirs")
    PROVE  DirsExact'
<1>0. TypeOK /\ PoolExact("dirs") /\ "dirs" \in Pool  BY DEF PoolInv, Pool
<1>1. /\ found' = found /\ errCount' = errCount /\ expired' = expired /\ size' = size
  BY DEF Dispatch, StopDispatch, Skip, Admit, Acquire, Join, cycle, dataVars
<1>2. Failed' = Failed  BY <1>1 DEF Failed
<1>3. CASE StopDispatch("dirs") \/ Admit("dirs") \/ Join("dirs")
  <2>1. job' = job /\ next' = next
    BY <1>3 DEF StopDispatch, Admit, Join
  <2>2. phase'["dirs"] \in {"join", "joined"} =>
            expired \/ next["dirs"] > size["dirs"]
    BY <1>0, <1>3 DEF StopDispatch, Admit, Join, TypeOK, DirsExact
  <2> QED  BY <1>1, <1>2, <2>1, <2>2 DEF DirsExact
<1>4. CASE Acquire("dirs")
  <2> DEFINE i == next["dirs"]
  <2>1. i \in Job /\ job["dirs"][i] = "none"
    BY SMTT(30), <1>0, <1>4 DEF Acquire, PoolExact, TypeOK, Job
  <2>2. /\ job'["dirs"][i] = "running"
        /\ \A d \in Job \ {i} : job'["dirs"][d] = job["dirs"][d]
        /\ next'["dirs"] = i + 1 /\ phase'["dirs"] = "check"
    BY <1>0, <1>4, <2>1 DEF Acquire, TypeOK
  <2>3. \A d \in Job : d < next'["dirs"] => d < i \/ d = i
    BY <1>0, <2>1, <2>2 DEF Job
  <2>5. next'["dirs"] <= size["dirs"] + 1
    BY SMTT(30), <1>0, <1>4, <2>2 DEF Acquire, PoolExact, TypeOK
  <2> HIDE DEF i
  <2>4. ASSUME NEW d \in Job
        PROVE  /\ job'["dirs"][d] \in {"none", "running"} <=> found[d] = "absent"
               /\ d < next'["dirs"] => job'["dirs"][d] # "none"
    BY <2>1, <2>2, <2>3 DEF DirsExact, i
  <2> QED  BY <1>1, <1>2, <2>2, <2>4, <2>5 DEF DirsExact
<1> QED  BY <1>3, <1>4 DEF Dispatch, Skip

LEMMA DirsScanned ==
    ASSUME PoolInv, DirsExact, NEW d \in Job, NEW outcome \in Ending, ScanDir(d, outcome)
    PROVE  DirsExact'
<1>0. TypeOK /\ "dirs" \in Pool  BY DEF PoolInv, Pool
<1>1. /\ job["dirs"][d] = "running" /\ found[d] = "absent"
      /\ outcome \in Endings(Path[d], expired) /\ outcome # "absent"
  BY DEF ScanDir, Record, DirsExact, Ending
<1>2. /\ job'["dirs"][d] = "recorded" /\ found'[d] = outcome
      /\ \A e \in Job \ {d} : job'["dirs"][e] = job["dirs"][e] /\ found'[e] = found[e]
      /\ UNCHANGED <<expired, size, phase, next>>
  BY <1>0 DEF ScanDir, Record, cycle, TypeOK
<1>3. errCount' = Cardinality(Failed')
  <2>1. CASE outcome = "failed"
    <3>1. Failed' = Failed \cup {d} /\ d \notin Failed  BY <1>1, <1>2, <2>1 DEF Failed
    <3>2. Cardinality(Failed') = Cardinality(Failed) + 1
      BY <3>1, FailedCounted, FS_AddElement
    <3> QED  BY <2>1, <3>2 DEF ScanDir, DirsExact
  <2>2. CASE outcome # "failed"
    <3>1. Failed' = Failed  BY <1>1, <1>2, <2>2 DEF Failed
    <3> QED  BY <2>2, <3>1 DEF ScanDir, DirsExact
  <2> QED  BY <2>1, <2>2
<1>4. ASSUME NEW e \in Job
      PROVE  /\ job'["dirs"][e] \in {"none", "running"} <=> found'[e] = "absent"
             /\ found'[e] # "absent" => found'[e] \in Endings(Path[e], expired)
             /\ e < next["dirs"] => job'["dirs"][e] # "none"
  <2>1. CASE e = d  BY <1>1, <1>2, <2>1
  <2>2. CASE e # d  BY <1>2, <2>2 DEF DirsExact
  <2> QED  BY <2>1, <2>2
<1> QED  BY <1>2, <1>3, <1>4 DEF DirsExact

LEMMA DirsNext == PoolInv /\ DirsExact /\ [Next]_vars => DirsExact'
<1> SUFFICES ASSUME PoolInv, DirsExact, [Next]_vars PROVE DirsExact'
  OBVIOUS
<1>0. TypeOK /\ "dirs" \in Pool  BY DEF PoolInv, Pool
<1>1. ASSUME NEW dirs \in 0..N, NEW nodes \in 0..MaxNodes, NEW known \in SUBSET (1..nodes),
             StartCycle(dirs, nodes, known)
      PROVE  DirsExact'
  <2>1. Failed' = {}  BY <1>1 DEF StartCycle, Failed
  <2>2. errCount' = Cardinality(Failed')  BY <1>1, <2>1, FS_EmptySet DEF StartCycle
  <2>3. next'["dirs"] = 1 /\ phase'["dirs"] = "check"  BY <1>0, <1>1 DEF StartCycle
  <2>4. \A d \in Job : job'["dirs"][d] = "none" /\ found'[d] = "absent" /\ ~(d < 1)
    BY <1>0, <1>1 DEF StartCycle, Job
  <2>5. size'["dirs"] = dirs /\ 1 <= dirs + 1  BY <1>0, <1>1 DEF StartCycle
  <2> QED  BY <2>2, <2>3, <2>4, <2>5 DEF DirsExact
<1>2. CASE Expire \/ Publish \/ UNCHANGED vars
  BY <1>2, DirsFrame DEF Expire, Publish, vars, cycle, poolVars, dataVars
<1>3. CASE StartBuffers
  <2>1. phase'["dirs"] = phase["dirs"]  BY <1>0, <1>3 DEF StartBuffers, TypeOK
  <2> QED  BY <1>3, <2>1, DirsFrame DEF StartBuffers, dataVars
<1>4. ASSUME NEW p \in Pool, Dispatch(p) PROVE DirsExact'
  <2>1. CASE p = "dirs"  BY <1>4, <2>1, DirsDispatch
  <2>2. CASE p # "dirs"
    <3>1. found' = found /\ errCount' = errCount /\ expired' = expired /\ size' = size
      BY <1>4 DEF Dispatch, StopDispatch, Skip, Admit, Acquire, Join, cycle, dataVars
    <3> QED  BY <1>0, <1>4, <2>2, <3>1, OtherPools, DirsFrame
  <2> QED  BY <2>1, <2>2
<1>5. ASSUME NEW d \in Job, Work(d) PROVE DirsExact'
  BY <1>5, DirsScanned DEF Work
<1>6. ASSUME NEW n \in Job, ScanActivity(n) \/ Count(n) PROVE DirsExact'
  <2>1. /\ found' = found /\ errCount' = errCount /\ expired' = expired /\ size' = size
        /\ Record("acts", n) \/ Record("bufs", n)
    BY <1>6 DEF ScanActivity, Count, CountBuffer, Record, cycle
  <2>2. "acts" \in Pool /\ "bufs" \in Pool  BY DEF Pool
  <2> QED  BY <1>0, <2>1, <2>2, OtherPools, DirsFrame
<1>7. ASSUME NEW p \in Pool, NEW j \in Job, Leave(p, j) PROVE DirsExact'
  <2>1. found' = found /\ errCount' = errCount /\ expired' = expired /\ size' = size
    BY <1>7 DEF Leave, Release, WorkerDone, cycle, dataVars
  <2>2. CASE p # "dirs"  BY <1>0, <1>7, <2>1, <2>2, OtherPools, DirsFrame
  <2>3. CASE p = "dirs"
    <3>1. /\ job["dirs"][j] \notin {"none", "running"}
          /\ job'["dirs"][j] \notin {"none", "running"}
          /\ \A e \in Job \ {j} : job'["dirs"][e] = job["dirs"][e]
          /\ UNCHANGED <<phase, next>>
      BY <1>0, <1>7, <2>3 DEF Leave, Release, WorkerDone, TypeOK
    <3>2. Failed' = Failed  BY <2>1 DEF Failed
    <3>3. ASSUME NEW e \in Job
          PROVE  /\ job'["dirs"][e] \in {"none", "running"} <=> found[e] = "absent"
                 /\ e < next["dirs"] => job'["dirs"][e] # "none"
      BY <3>1 DEF DirsExact
    <3> QED  BY <2>1, <3>1, <3>2, <3>3 DEF DirsExact
  <2> QED  BY <2>2, <2>3
<1> QED  BY <1>1, <1>2, <1>3, <1>4, <1>5, <1>6, <1>7 DEF Next

-----------------------------------------------------------------------------

LEMMA MapNext == PoolInv /\ DirsExact /\ MapExact /\ [Next]_vars => MapExact'
<1> SUFFICES ASSUME PoolInv, DirsExact, MapExact, [Next]_vars PROVE MapExact'
  OBVIOUS
<1>0. TypeOK  BY DEF PoolInv
<1>1. ASSUME NEW dirs \in 0..N, NEW nodes \in 0..MaxNodes, NEW known \in SUBSET (1..nodes),
             StartCycle(dirs, nodes, known)
      PROVE  MapExact'
  BY <1>1 DEF StartCycle, MapExact
<1>2. ASSUME NEW d \in Job, NEW outcome \in Ending, ScanDir(d, outcome) PROVE MapExact'
  <2>1. /\ found' = [found EXCEPT ![d] = outcome]
        /\ results' = [results EXCEPT ![Path[d]] = d]
        /\ outcome # "absent" /\ Path[d] \in Job
    BY <1>2, PathAssumption DEF ScanDir, Ending
  <2>0. d # 0  BY DEF Job
  <2>2. ASSUME NEW path \in Job, results'[path] # 0
        PROVE  /\ results'[path] \in Job /\ Path[results'[path]] = path
               /\ found'[results'[path]] # "absent"
    BY <1>0, <2>1, <2>2, PathAssumption DEF MapExact, TypeOK
  <2>3. ASSUME NEW e \in Job, found'[e] # "absent" PROVE results'[Path[e]] # 0
    <3>1. Path[e] \in Job  BY PathAssumption
    <3>2. CASE Path[e] = Path[d]  BY <1>0, <2>0, <2>1, <3>1, <3>2 DEF TypeOK
    <3>3. CASE Path[e] # Path[d]
      <4>1. found'[e] = found[e] /\ results'[Path[e]] = results[Path[e]]
        BY <1>0, <2>1, <3>1, <3>3 DEF TypeOK
      <4> QED  BY <2>3, <4>1 DEF MapExact
    <3> QED  BY <3>2, <3>3
  <2> QED  BY <2>2, <2>3 DEF MapExact
<1>3. CASE found' = found /\ results' = results
  BY <1>3 DEF MapExact
<1>4. CASE Expire \/ StartBuffers \/ Publish \/ UNCHANGED vars
  BY <1>3, <1>4 DEF Expire, StartBuffers, Publish, vars, dataVars
<1>5. ASSUME NEW p \in Pool, Dispatch(p) PROVE MapExact'
  BY <1>3, <1>5 DEF Dispatch, StopDispatch, Skip, Admit, Acquire, Join, dataVars
<1>6. ASSUME NEW n \in Job, ScanActivity(n) \/ Count(n) PROVE MapExact'
  BY <1>3, <1>6 DEF ScanActivity, Count, CountBuffer
<1>7. ASSUME NEW p \in Pool, NEW j \in Job, Leave(p, j) PROVE MapExact'
  BY <1>3, <1>7 DEF Leave, Release, WorkerDone, dataVars
<1> QED  BY <1>1, <1>2, <1>4, <1>5, <1>6, <1>7 DEF Next, Work

-----------------------------------------------------------------------------

\* A step that leaves the results alone and starts nothing among the buffers.
LEMMA BufsFrame ==
    ASSUME BufsExact, found' = found, buffers' = buffers,
           BufsStarted' => BufsStarted
    PROVE  BufsExact'
  BY DEF BufsExact

\* While the directories are scanned, no buffer is.
LEMMA ScanningBeforeBufs ==
    ASSUME PoolInv, NEW d \in Job, job["dirs"][d] \in {"running", "recorded", "released"}
    PROVE  ~BufsStarted
<1>1. "dirs" \in Pool /\ "bufs" \in Pool  BY DEF Pool
<1>2. d \in Live("dirs")  BY DEF Live
<1>3. phase["dirs"] \notin {"off", "joined"}  BY <1>1, <1>2 DEF PoolInv, PoolExact
<1>4. stage = "scan"  BY <1>1, <1>3 DEF PoolInv, StageExact, TypeOK
<1> QED  BY <1>4 DEF PoolInv, StageExact, BufsStarted

LEMMA BufsNext ==
    PoolInv /\ DirsExact /\ MapExact /\ BufsExact /\ [Next]_vars => BufsExact'
<1> SUFFICES ASSUME PoolInv, DirsExact, MapExact, BufsExact, [Next]_vars PROVE BufsExact'
  OBVIOUS
<1>0. TypeOK /\ "bufs" \in Pool  BY DEF PoolInv, Pool
<1>1. ASSUME NEW dirs \in 0..N, NEW nodes \in 0..MaxNodes, NEW known \in SUBSET (1..nodes),
             StartCycle(dirs, nodes, known)
      PROVE  BufsExact'
  BY <1>1 DEF StartCycle, BufsExact
<1>2. CASE Expire \/ Publish \/ UNCHANGED vars
  BY <1>2, BufsFrame DEF Expire, Publish, vars, poolVars, dataVars, BufsStarted
<1>3. CASE StartBuffers
  <2>1. phase'["bufs"] = "check" /\ job' = job  BY <1>0, <1>3 DEF StartBuffers, TypeOK
  <2> QED  BY <1>3, <2>1, BufsFrame DEF StartBuffers, dataVars, BufsStarted
<1>4. ASSUME NEW p \in Pool, Dispatch(p) PROVE BufsExact'
  <2>0. found' = found /\ buffers' = buffers /\ expired' = expired
    BY <1>4 DEF Dispatch, StopDispatch, Skip, Admit, Acquire, Join, cycle, dataVars
  <2>1. CASE p # "bufs"
    BY <1>0, <1>4, <2>0, <2>1, OtherPools, BufsFrame DEF BufsStarted
  <2>2. CASE Admit("bufs")
    <3>1. ~expired  BY <2>2 DEF Admit
    <3>2. \A d \in Job : found[d] # "part"
      BY <3>1 DEF DirsExact, Endings, MayEnd
    <3> QED  BY <2>0, <3>2 DEF BufsExact
  <2>3. CASE Acquire("bufs")
    <3>1. BufsStarted  BY <2>3 DEF Acquire, BufsStarted
    <3> QED  BY <2>0, <3>1, BufsFrame
  <2>4. CASE StopDispatch("bufs") \/ Skip("bufs") \/ Join("bufs")
    <3>1. phase'["bufs"] # "acquire" /\ job' = job
      BY <1>0, <2>4 DEF StopDispatch, Skip, Join, TypeOK
    <3> QED  BY <2>0, <3>1, BufsFrame DEF BufsStarted
  <2> QED  BY <1>4, <2>1, <2>2, <2>3, <2>4 DEF Dispatch
<1>5. ASSUME NEW d \in Job, Work(d) PROVE BufsExact'
  <2>1. /\ job["dirs"][d] = "running" /\ buffers' = buffers
        /\ Record("dirs", d)
    BY <1>5 DEF Work, ScanDir, Record
  <2>2. ~BufsStarted  BY <2>1, ScanningBeforeBufs
  <2>3. job'["bufs"] = job["bufs"] /\ phase'["bufs"] = phase["bufs"]
    BY <1>0, <2>1, OtherPools DEF Pool
  <2>4. ~BufsStarted'  BY <2>2, <2>3 DEF BufsStarted
  <2> QED  BY <2>1, <2>4 DEF BufsExact
<1>6. ASSUME NEW n \in Job, ScanActivity(n) PROVE BufsExact'
  <2>1. Record("acts", n) /\ found' = found /\ buffers' = buffers
    BY <1>6 DEF ScanActivity
  <2>2. job'["bufs"] = job["bufs"] /\ phase'["bufs"] = phase["bufs"]
    BY <1>0, <2>1, OtherPools DEF Pool
  <2> QED  BY <2>1, <2>2, BufsFrame DEF BufsStarted
<1>7. ASSUME NEW n \in Job, NEW outcome \in Outcome, CountBuffer(n, outcome)
      PROVE  BufsExact'
  <2>1. found' = found /\ job["bufs"][n] = "running"
        /\ buffers' = [buffers EXCEPT ![n] = outcome]
    BY <1>7 DEF CountBuffer, Record
  <2>2. \A d \in Job : found[d] # "part"  BY <2>1 DEF BufsExact, BufsStarted
  <2>3. outcome # "part"
    <3>1. CASE Reusable(n)
      <4> DEFINE path == BufferDir[n]
      <4>1. path \in Job  BY <3>1 DEF Reusable, Job
      <4>2. Held(path) # "part"
        <5>1. CASE results[path] = 0  BY <5>1 DEF Held
        <5>2. CASE results[path] # 0  BY <2>2, <4>1, <5>2 DEF Held, MapExact
        <5> QED  BY <5>1, <5>2
      <4> QED  BY <1>7, <3>1, <4>2 DEF CountBuffer
    <3>2. CASE ~Reusable(n)  BY <1>7, <3>2 DEF CountBuffer, MayEnd
    <3> QED  BY <3>1, <3>2
  <2>4. \A m \in Job : buffers'[m] # "part"
    BY <1>0, <2>1, <2>3 DEF BufsExact, TypeOK
  <2> QED  BY <2>1, <2>2, <2>4 DEF BufsExact
<1>8. ASSUME NEW p \in Pool, NEW j \in Job, Leave(p, j) PROVE BufsExact'
  <2>1. found' = found /\ buffers' = buffers
    BY <1>8 DEF Leave, Release, WorkerDone, dataVars
  <2>2. CASE p # "bufs"
    BY <1>0, <1>8, <2>1, <2>2, OtherPools, BufsFrame DEF BufsStarted
  <2>3. CASE p = "bufs"
    <3>1. BufsStarted  BY <1>8, <2>3 DEF Leave, Release, WorkerDone, BufsStarted
    <3> QED  BY <2>1, <3>1, BufsFrame
  <2> QED  BY <2>2, <2>3
<1> QED  BY <1>1, <1>2, <1>3, <1>4, <1>5, <1>6, <1>7, <1>8 DEF Next, Count

-----------------------------------------------------------------------------

LEMMA CycleInvInit == Init => CycleInv
<1> SUFFICES ASSUME Init PROVE CycleInv
  OBVIOUS
<1>1. PoolInv  BY PoolInvInit
<1>2. LateExact  BY DEF Init, LateExact
<1>3. DirsExact
  <2>1. Failed = {}  BY DEF Init, Failed
  <2>2. errCount = Cardinality(Failed)  BY <2>1, FS_EmptySet DEF Init
  <2>3. next["dirs"] = 1 /\ phase["dirs"] = "off"  BY DEF Init, Pool
  <2>4. \A d \in Job : job["dirs"][d] = "none" /\ found[d] = "absent" /\ ~(d < 1)
    BY DEF Init, Pool, Job
  <2>5. size["dirs"] = 0  BY DEF Init, Pool
  <2> QED  BY <2>2, <2>3, <2>4, <2>5 DEF DirsExact
<1>4. BufsExact
  <2>1. ~BufsStarted  BY DEF Init, BufsStarted, Pool
  <2> QED  BY <2>1 DEF Init, BufsExact
<1>5. MapExact  BY DEF Init, MapExact
<1> QED  BY <1>1, <1>2, <1>3, <1>4, <1>5 DEF CycleInv

LEMMA CycleInvAlways == Spec => []CycleInv
<1>1. CycleInv /\ [Next]_vars => CycleInv'
  BY PoolInvNext, LateNext, DirsNext, MapNext, BufsNext DEF CycleInv
<1> QED  BY <1>1, CycleInvInit, PTL DEF Spec

(***************************************************************************)
(* The theorems                                                            *)
(***************************************************************************)

\* The variables of a cycle stay within their types, the two counters included:
\* no semaphore or WaitGroup goes negative.
THEOREM TypeCorrect == Spec => []TypeOK
<1>1. CycleInv => TypeOK  BY DEF CycleInv, PoolInv
<1> QED  BY <1>1, CycleInvAlways, PTL

\* For any list and any scan_workers, no more than scan_workers items of a
\* fan-out are being worked on (exporter.go:177).
THEOREM SlotsSuffice == Spec => []WorkersBounded
<1>1. CycleInv => WorkersBounded
  BY DEF CycleInv, PoolInv, PoolExact, WorkersBounded
<1> QED  BY <1>1, CycleInvAlways, PTL

\* The results of the directory scan have no writer left when the backlog workers
\* read them, and no map has one when the cache takes it (exporter.go:214, 226, 233).
THEOREM HandOver == Spec => []MapsHandedOver
<1>1. CycleInv => MapsHandedOver
  <2> SUFFICES ASSUME CycleInv PROVE MapsHandedOver
    OBVIOUS
  <2>1. \A p \in Pool : phase[p] \in {"off", "joined"} => Live(p) = {}
    BY DEF CycleInv, PoolInv, PoolExact
  <2>2. stage = "bufs" => phase["dirs"] = "joined" /\ phase["acts"] = "joined"
    BY DEF CycleInv, PoolInv, StageExact
  <2>3. stage = "idle" => \A p \in Pool : phase[p] \in {"off", "joined"}
    BY DEF CycleInv, PoolInv, StageExact
  <2> QED  BY <2>1, <2>2, <2>3 DEF MapsHandedOver, AtPublish, Pool
<1> QED  BY <1>1, CycleInvAlways, PTL

\* After the deadline a fan-out starts at most the one worker it had admitted
\* (exporter.go:181-188).
THEOREM FewLateStarts == Spec => []LateStartsBounded
<1>1. CycleInv => LateStartsBounded
  BY DEF CycleInv, LateExact, LateStartsBounded
<1> QED  BY <1>1, CycleInvAlways, PTL

\* A partial count of a directory is never passed on as a backlog: buffers are
\* only started when no directory was cut short (buffer.go:157, 191).
THEOREM BacklogNotPartial == Spec => []NoPartialBacklog
<1>1. CycleInv => NoPartialBacklog
  BY DEF CycleInv, BufsExact, NoPartialBacklog
<1> QED  BY <1>1, CycleInvAlways, PTL

\* Every failed scan is counted exactly once, for every schedule of the workers, also
\* where entries share a directory and overwrite each other's result
\* (exporter.go:193-195, 215, 230).
THEOREM FailuresCounted == Spec => []ErrorsCounted
<1>1. CycleInv => ErrorsCounted
  BY DEF CycleInv, DirsExact, Failed, ErrorsCounted
<1> QED  BY <1>1, CycleInvAlways, PTL

\* What is known of the directories once the pools are joined.
LEMMA AllScanned ==
    ASSUME CycleInv, AtPublish
    PROVE  \A d \in Job : /\ d < next["dirs"] => found[d] # "absent"
                          /\ found[d] # "absent" => d < next["dirs"]
<1>0. TypeOK /\ "dirs" \in Pool  BY DEF CycleInv, PoolInv, Pool
<1>1. Live("dirs") = {}
  BY <1>0 DEF CycleInv, PoolInv, PoolExact, StageExact, AtPublish
<1>2. ASSUME NEW d \in Job PROVE job["dirs"][d] \in {"none", "done"}
  BY <1>0, <1>1 DEF Live, TypeOK, WorkerState
<1>3. ASSUME NEW d \in Job, d < next["dirs"] PROVE found[d] # "absent"
  BY <1>2, <1>3 DEF CycleInv, DirsExact
<1>4. ASSUME NEW d \in Job, found[d] # "absent" PROVE d < next["dirs"]
  <2>1. job["dirs"][d] # "none"  BY <1>4 DEF CycleInv, DirsExact
  <2>2. ~(d >= next["dirs"])  BY <1>0, <2>1 DEF CycleInv, PoolInv, PoolExact
  <2> QED  BY <1>0, <2>2 DEF TypeOK, Job
<1> QED  BY <1>3, <1>4

\* What a late batch lacks is the end of the list and nothing else: its directories
\* are those of the entries the dispatcher got to.
THEOREM LateBatchPrefix == Spec => []LateBatchIsPrefix
<1>1. CycleInv => LateBatchIsPrefix
  <2> SUFFICES ASSUME CycleInv, AtPublish PROVE LateBatchIsPrefix
    BY DEF LateBatchIsPrefix
  <2> DEFINE k == next["dirs"] - 1
  <2>1. TypeOK /\ "dirs" \in Pool /\ MapExact  BY DEF CycleInv, PoolInv, Pool
  <2>2. next["dirs"] \in 1..(N + 1) /\ size["dirs"] \in 0..N
    BY <2>1 DEF TypeOK
  <2>3. next["dirs"] <= size["dirs"] + 1  BY DEF CycleInv, DirsExact
  <2>4. k \in 0..size["dirs"] /\ \A d \in Job : d \in 1..k <=> d < next["dirs"]
    BY <2>2, <2>3 DEF Job
  <2>5. 1..k \subseteq Job  BY <2>2 DEF Job
  <2> HIDE DEF k
  <2>6. ASSUME NEW path \in Job, results[path] # 0
        PROVE  path \in {Path[d] : d \in 1..k}
    <3>1. /\ results[path] \in Job /\ Path[results[path]] = path
          /\ found[results[path]] # "absent"
      BY <2>1, <2>6 DEF MapExact
    <3> QED  BY <2>4, <3>1, AllScanned
  <2>7. ASSUME NEW d \in 1..k PROVE Path[d] \in Job /\ results[Path[d]] # 0
    <3>1. d \in Job  BY <2>5
    <3>2. found[d] # "absent"  BY <2>4, <3>1, AllScanned
    <3> QED  BY <2>1, <3>1, <3>2, PathAssumption DEF MapExact
  <2>8. {path \in Job : results[path] # 0} = {Path[d] : d \in 1..k}
    BY <2>6, <2>7
  <2> QED  BY <2>4, <2>8 DEF LateBatchIsPrefix
<1> QED  BY <1>1, CycleInvAlways, PTL

\* A batch published before the deadline has every directory of the list, held by a
\* scan of that directory which the deadline did not cut short: what it may still lack
\* is due to a cap, or to an error of the operating system.
THEOREM OnTimeComplete == Spec => []CompleteUnlessExpired
<1>1. CycleInv => CompleteUnlessExpired
  <2> SUFFICES ASSUME CycleInv, AtPublish, ~expired, NEW d \in 1..size["dirs"]
               PROVE  /\ Held(Path[d]) \in Endings(Path[d], FALSE)
                      /\ Path[results[Path[d]]] = Path[d]
    BY DEF CompleteUnlessExpired
  <2>1. TypeOK /\ "dirs" \in Pool  BY DEF CycleInv, PoolInv, Pool
  <2>2. phase["dirs"] = "joined"  BY DEF CycleInv, PoolInv, StageExact, AtPublish
  <2>3. next["dirs"] > size["dirs"]  BY <2>2 DEF CycleInv, DirsExact
  <2>4. d \in Job /\ d < next["dirs"]  BY <2>1, <2>3 DEF TypeOK, Job
  <2>5. found[d] # "absent"  BY <2>4, AllScanned
  <2> DEFINE e == results[Path[d]]
  <2>6. e # 0 /\ Path[d] \in Job  BY <2>4, <2>5, PathAssumption DEF CycleInv, MapExact
  <2>7. e \in Job /\ Path[e] = Path[d] /\ found[e] # "absent"
    BY <2>6 DEF CycleInv, MapExact
  <2>8. found[e] \in Endings(Path[e], expired)  BY <2>7 DEF CycleInv, DirsExact
  <2>9. Endings(Path[d], expired) = Endings(Path[d], FALSE)  BY DEF Endings, MayEnd
  <2> QED  BY <2>6, <2>7, <2>8, <2>9 DEF Held
<1> QED  BY <1>1, CycleInvAlways, PTL

=============================================================================
