----------------------------- MODULE ScanCycle -----------------------------
(***************************************************************************)
(* One scan cycle: ScanAll (exporter.go) and the two fan-outs it starts,   *)
(* ScanAllNodeActivities (activity.go) and ScanAllNodeBuffers (buffer.go). *)
(*                                                                         *)
(* The three fan-outs are one idiom, written three times: a dispatcher     *)
(* walks a list, gives up once the context has expired, and for each item  *)
(* adds to a WaitGroup, takes a slot of a semaphore and starts a worker,   *)
(* which records its result, frees the slot and leaves the group.  Here    *)
(* they are three values of a Pool index.  "dirs" and "acts" run side by   *)
(* side; "bufs" follows them and reads the results of "dirs".              *)
(*                                                                         *)
(* Data.  The scan of a directory is the way it ends (ScanOutcome).  The   *)
(* watch list has an entry for each way a target leads to a directory, so  *)
(* overlapping targets list one directory twice, and the results map, in   *)
(* which a path is the key, holds what the last of their workers wrote.    *)
(* A node has one SourceDirectory.                                         *)
(***************************************************************************)
EXTENDS Integers, FiniteSets, ScanOutcome

CONSTANTS
    N,             \* bound: entries of the watch list at most
    MaxNodes,      \* bound: stream nodes at most
    Workers,       \* scan_workers
    Path,          \* the directory of an entry: its AbsPath
    BufferDir,     \* the watched directory that is a node's buffer; 0: another
    Capped,        \* directories that a cap may cut short (Cuttable of DirScan)
    Traced,        \* nodes with a trace or an audit_info that can be parsed
    Faulty,        \* directories on which ReadDir may return an error
    Hung           \* entries on whose directory a system call may never return

Job == 1..N
Pool == {"dirs", "acts", "bufs"}

ASSUME BoundAssumption == N \in Nat \ {0} /\ MaxNodes \in 0..N
ASSUME WorkersAssumption == Workers \in Nat \ {0}    \* LoadConfig keeps it >= 1
ASSUME PathAssumption == Path \in [Job -> Job]
ASSUME NodeAssumption ==
    /\ BufferDir \in [Job -> 0..N]
    /\ Traced \subseteq Job
    /\ Capped \subseteq Job /\ Faulty \subseteq Job /\ Hung \subseteq Job

VARIABLES
    stage,         \* ScanAll: "idle", "scan" (dirs and acts), "bufs"
    expired,       \* ctx.Err() # nil
    distributors,  \* nodes known to be distributors: they have no backlog
    size,          \* size[p]: length of the list pool p works on
    phase,         \* phase[p]: where the dispatcher is
    next,          \* next[p]: the item it is at
    sem,           \* sem[p]: slots taken
    wg,            \* wg[p]: the WaitGroup counter
    job,           \* job[p][j]: where the worker for item j is
    found,         \* found[j]: how the scan of entry j ended, a worker's res
    results,       \* results[path]: the entry whose metrics and labels it holds; 0: none
    activities,    \* the nodes with a recorded activity
    buffers,       \* the backlog map
    errCount,      \* scans that failed
    late           \* history: late[p], workers started after the context expired

cycle == <<stage, expired, distributors, size>>
poolVars == <<phase, next, sem, wg, job, late>>
dataVars == <<found, results, activities, buffers, errCount>>
vars == <<cycle, poolVars, dataVars>>

Phase == {"off", "check", "acquire", "join", "joined"}
WorkerState == {"none", "running", "recorded", "released", "done"}
Outcome == {"absent"} \cup Ending

TypeOK ==
    /\ stage \in {"idle", "scan", "bufs"}
    /\ expired \in BOOLEAN
    /\ distributors \subseteq Job
    /\ size \in [Pool -> 0..N]
    /\ phase \in [Pool -> Phase]
    /\ next \in [Pool -> 1..(N + 1)]
    /\ sem \in [Pool -> Nat]
    /\ wg \in [Pool -> Nat]
    /\ job \in [Pool -> [Job -> WorkerState]]
    /\ found \in [Job -> Outcome]
    /\ results \in [Job -> 0..N]
    /\ activities \subseteq Job
    /\ buffers \in [Job -> Outcome]
    /\ errCount \in Nat
    /\ late \in [Pool -> Nat]

Live(p) == {j \in Job : job[p][j] \in {"running", "recorded", "released"}}
HoldsSlot(p) == {j \in Job : job[p][j] \in {"running", "recorded"}}

Init ==
    /\ stage = "idle"
    /\ expired = FALSE
    /\ distributors = {}
    /\ size = [p \in Pool |-> 0]
    /\ phase = [p \in Pool |-> "off"]
    /\ next = [p \in Pool |-> 1]
    /\ sem = [p \in Pool |-> 0]
    /\ wg = [p \in Pool |-> 0]
    /\ job = [p \in Pool |-> [j \in Job |-> "none"]]
    /\ found = [d \in Job |-> "absent"]
    /\ results = [path \in Job |-> 0]
    /\ activities = {}
    /\ buffers = [n \in Job |-> "absent"]
    /\ errCount = 0
    /\ late = [p \in Pool |-> 0]

-----------------------------------------------------------------------------
(***************************************************************************)
(* ScanAll itself                                                          *)
(***************************************************************************)

\* The list is copied, the nodes are discovered, two pools start.  An empty list
\* takes the same course with a context that has no deadline (see Expire).
StartCycle(dirs, nodes, known) ==
    /\ stage = "idle"
    /\ stage' = "scan"
    /\ expired' = FALSE
    /\ distributors' = known
    /\ size' = [p \in Pool |-> IF p = "dirs" THEN dirs ELSE nodes]
    /\ phase' = [p \in Pool |-> IF p = "bufs" THEN "off" ELSE "check"]
    /\ next' = [p \in Pool |-> 1]
    /\ sem' = [p \in Pool |-> 0]
    /\ wg' = [p \in Pool |-> 0]
    /\ job' = [p \in Pool |-> [j \in Job |-> "none"]]
    /\ found' = [d \in Job |-> "absent"]
    /\ results' = [path \in Job |-> 0]
    /\ activities' = {}
    /\ buffers' = [n \in Job |-> "absent"]
    /\ errCount' = 0
    /\ late' = [p \in Pool |-> 0]

\* SCAN_TIMEOUT passes.
Expire ==
    /\ stage # "idle"
    /\ size["dirs"] > 0
    /\ ~expired
    /\ expired' = TRUE
    /\ UNCHANGED <<stage, distributors, size, poolVars, dataVars>>

\* Fault: the activity scan is not waited for.
StartBuffersEarly ==
    /\ stage = "scan"
    /\ phase["dirs"] = "joined"
    /\ stage' = "bufs"
    /\ phase' = [phase EXCEPT !["bufs"] = "check"]
    /\ UNCHANGED <<expired, distributors, size, next, sem, wg, job, late,
                   dataVars>>

\* wg.Wait and actWg.Wait have returned.
StartBuffers ==
    /\ stage = "scan"
    /\ phase["dirs"] = "joined"
    /\ phase["acts"] = "joined"
    /\ stage' = "bufs"
    /\ phase' = [phase EXCEPT !["bufs"] = "check"]
    /\ UNCHANGED <<expired, distributors, size, next, sem, wg, job, late,
                   dataVars>>

\* SetBatch: from here on the maps belong to the cache.
Publish ==
    /\ stage = "bufs"
    /\ phase["bufs"] = "joined"
    /\ stage' = "idle"
    /\ UNCHANGED <<expired, distributors, size, poolVars, dataVars>>

(***************************************************************************)
(* The dispatcher of pool p                                                *)
(***************************************************************************)
\* Fault: the last item is left out.
StopDispatchEarly(p) ==
    /\ phase[p] = "check"
    /\ next[p] >= size[p] \/ expired
    /\ phase' = [phase EXCEPT ![p] = "join"]
    /\ UNCHANGED <<cycle, next, sem, wg, job, late, dataVars>>

StopDispatch(p) ==
    /\ phase[p] = "check"
    /\ next[p] > size[p] \/ expired
    /\ phase' = [phase EXCEPT ![p] = "join"]
    /\ UNCHANGED <<cycle, next, sem, wg, job, late, dataVars>>

Skip(p) ==
    /\ p = "bufs"
    /\ phase[p] = "check"
    /\ next[p] <= size[p]
    /\ ~expired
    /\ next[p] \in distributors
    /\ next' = [next EXCEPT ![p] = @ + 1]
    /\ UNCHANGED <<cycle, phase, sem, wg, job, late, dataVars>>

\* Fault: the dispatcher does not look at the context.
AdmitIgnoringDeadline(p) ==
    /\ phase[p] = "check"
    /\ next[p] <= size[p]
    /\ ~(p = "bufs" /\ next[p] \in distributors)
    /\ phase' = [phase EXCEPT ![p] = "acquire"]
    /\ wg' = [wg EXCEPT ![p] = @ + 1]
    /\ UNCHANGED <<cycle, next, sem, job, late, dataVars>>

\* Fault: wg.Add is forgotten.
AdmitUncounted(p) ==
    /\ phase[p] = "check"
    /\ next[p] <= size[p]
    /\ ~expired
    /\ ~(p = "bufs" /\ next[p] \in distributors)
    /\ phase' = [phase EXCEPT ![p] = "acquire"]
    /\ UNCHANGED <<cycle, next, sem, wg, job, late, dataVars>>

Admit(p) ==
    /\ phase[p] = "check"
    /\ next[p] <= size[p]
    /\ ~expired
    /\ ~(p = "bufs" /\ next[p] \in distributors)
    /\ phase' = [phase EXCEPT ![p] = "acquire"]
    /\ wg' = [wg EXCEPT ![p] = @ + 1]
    /\ UNCHANGED <<cycle, next, sem, job, late, dataVars>>

\* Fault: the semaphore has one slot too many.
AcquireExtra(p) ==
    /\ phase[p] = "acquire"
    /\ sem[p] <= Workers
    /\ sem' = [sem EXCEPT ![p] = @ + 1]
    /\ job' = [job EXCEPT ![p][next[p]] = "running"]
    /\ next' = [next EXCEPT ![p] = @ + 1]
    /\ phase' = [phase EXCEPT ![p] = "check"]
    /\ late' = [late EXCEPT ![p] = IF expired THEN @ + 1 ELSE @]
    /\ UNCHANGED <<cycle, wg, dataVars>>

\* sem <- struct{}{} blocks while every slot is taken, deadline or not.
Acquire(p) ==
    /\ phase[p] = "acquire"
    /\ sem[p] < Workers
    /\ sem' = [sem EXCEPT ![p] = @ + 1]
    /\ job' = [job EXCEPT ![p][next[p]] = "running"]
    /\ next' = [next EXCEPT ![p] = @ + 1]
    /\ phase' = [phase EXCEPT ![p] = "check"]
    /\ late' = [late EXCEPT ![p] = IF expired THEN @ + 1 ELSE @]
    /\ UNCHANGED <<cycle, wg, dataVars>>

Join(p) ==
    /\ phase[p] = "join"
    /\ wg[p] = 0
    /\ phase' = [phase EXCEPT ![p] = "joined"]
    /\ UNCHANGED <<cycle, next, sem, wg, job, late, dataVars>>

(***************************************************************************)
(* The workers                                                             *)
(***************************************************************************)
Record(p, j) ==
    /\ job[p][j] = "running"
    /\ job' = [job EXCEPT ![p][j] = "recorded"]
    /\ UNCHANGED <<cycle, phase, next, sem, wg, late>>

\* The ways in which the scan of a directory may end.
Endings(path, over) == MayEnd(path \in Capped, path \in Faulty, over)

\* Fault: a scan that was cut short leaves no result.
ScanDirDropsPart(d, outcome) ==
    /\ outcome \in Endings(Path[d], expired)
    /\ found' = [found EXCEPT ![d] = outcome]
    /\ results' = IF outcome = "part" THEN results
                  ELSE [results EXCEPT ![Path[d]] = d]
    /\ errCount' = IF outcome = "failed" THEN errCount + 1 ELSE errCount
    /\ Record("dirs", d)
    /\ UNCHANGED <<activities, buffers>>

\* Fault: a directory in the map is not counted as an error again.
ScanDirCountsPaths(d, outcome) ==
    /\ outcome \in Endings(Path[d], expired)
    /\ found' = [found EXCEPT ![d] = outcome]
    /\ results' = [results EXCEPT ![Path[d]] = d]
    /\ errCount' = IF outcome = "failed" /\ results[Path[d]] = 0
                   THEN errCount + 1 ELSE errCount
    /\ Record("dirs", d)
    /\ UNCHANGED <<activities, buffers>>

\* scanDir, of which DirScan has the steps, and what the worker does with its result:
\* an error is counted, and an entry of the same path overwritten.
ScanDir(d, outcome) ==
    /\ outcome \in Endings(Path[d], expired)
    /\ found' = [found EXCEPT ![d] = outcome]
    /\ results' = [results EXCEPT ![Path[d]] = d]
    /\ errCount' = IF outcome = "failed" THEN errCount + 1 ELSE errCount
    /\ Record("dirs", d)
    /\ UNCHANGED <<activities, buffers>>

\* The scan whose metrics the results map holds for a path.
Held(path) == IF results[path] = 0 THEN "absent" ELSE found[results[path]]

\* Neither parser looks at the context; a node without a parsable trace stays absent.
ScanActivity(n) ==
    /\ Record("acts", n)
    /\ activities' = activities \cup ({n} \cap Traced)
    /\ UNCHANGED <<found, results, buffers, errCount>>

Reusable(n) == BufferDir[n] # 0 /\ Held(BufferDir[n]) \in Succeeded

\* A buffer that is a watched directory reuses its result when that has
\* ScanSuccess = 1; otherwise countBufferFiles counts, with no cap, and fails when
\* it cannot open the directory or the context expires: an error of ReadDir only ends
\* the count.  A node that turns out to be no collector records nothing.
CountBuffer(n, outcome) ==
    /\ outcome = "absent"
       \/ IF Reusable(n) THEN outcome = Held(BufferDir[n])
                         ELSE outcome \in MayEnd(FALSE, TRUE, FALSE)
    /\ buffers' = [buffers EXCEPT ![n] = outcome]
    /\ Record("bufs", n)
    /\ UNCHANGED <<found, results, activities, errCount>>

\* Fault: the slot is freed by hand, and not on the error path.
ReleaseUnlessFailed(p, j) ==
    /\ job[p][j] = "recorded"
    /\ job' = [job EXCEPT ![p][j] = "released"]
    /\ IF p = "dirs" /\ found[j] = "failed"
       THEN UNCHANGED sem
       ELSE sem' = [sem EXCEPT ![p] = @ - 1]
    /\ UNCHANGED <<cycle, phase, next, wg, late, dataVars>>

\* The deferred <-sem runs before the deferred wg.Done.
Release(p, j) ==
    /\ job[p][j] = "recorded"
    /\ job' = [job EXCEPT ![p][j] = "released"]
    /\ sem' = [sem EXCEPT ![p] = @ - 1]
    /\ UNCHANGED <<cycle, phase, next, wg, late, dataVars>>

WorkerDone(p, j) ==
    /\ job[p][j] = "released"
    /\ job' = [job EXCEPT ![p][j] = "done"]
    /\ wg' = [wg EXCEPT ![p] = @ - 1]
    /\ UNCHANGED <<cycle, phase, next, sem, late, dataVars>>

-----------------------------------------------------------------------------

Dispatch(p) == StopDispatch(p) \/ Skip(p) \/ Admit(p) \/ Acquire(p) \/ Join(p)
Work(d) == \E outcome \in Ending : ScanDir(d, outcome)
Count(n) == \E outcome \in Outcome : CountBuffer(n, outcome)
Leave(p, j) == Release(p, j) \/ WorkerDone(p, j)

Next ==
    \/ \E dirs \in 0..N, nodes \in 0..MaxNodes :
           \E known \in SUBSET (1..nodes) : StartCycle(dirs, nodes, known)
    \/ Expire
    \/ StartBuffers
    \/ Publish
    \/ \E p \in Pool : Dispatch(p)
    \/ \E j \in Job : Work(j) \/ ScanActivity(j) \/ Count(j)
    \/ \E p \in Pool, j \in Job : Leave(p, j)

Spec == Init /\ [][Next]_vars

\* A step of some goroutine in the cycle, waiting for a hung system call aside.
Progress ==
    \/ StartBuffers \/ Publish
    \/ \E p \in Pool : Dispatch(p)
    \/ \E d \in Job \ Hung : Work(d)
    \/ \E n \in Job : ScanActivity(n) \/ Count(n)
    \/ \E p \in Pool, j \in Job : Leave(p, j)

\* The clock runs, and while some goroutine can go on, one does.  A cycle has finitely
\* many such steps, so that each of them gets its turn; nothing starts a cycle.
FairSpec == Spec /\ WF_vars(Expire) /\ WF_vars(Progress)

-----------------------------------------------------------------------------
(***************************************************************************)
(* Properties                                                              *)
(***************************************************************************)
AtPublish == stage = "bufs" /\ phase["bufs"] = "joined"

\* No more than Workers items of one fan-out are being worked on (exporter.go:177).
WorkersBounded == \A p \in Pool : Cardinality(HoldsSlot(p)) <= Workers

\* Nobody writes a map that someone else reads without a lock: no worker of the
\* directory scan is left when the backlog workers read its results, and no
\* worker at all once the cache has the maps (exporter.go:214, 226, 233).
MapsHandedOver ==
    /\ stage = "bufs" => Live("dirs") = {}
    /\ AtPublish \/ stage = "idle" => \A p \in Pool : Live(p) = {}

\* A batch published before the deadline has every directory of the list, held by a
\* scan of that directory which no deadline cut short.  What may still be missing in
\* it is left out by a cap that is set, or by the operating system.
CompleteUnlessExpired ==
    AtPublish /\ ~expired =>
        \A d \in 1..size["dirs"] :
            /\ Held(Path[d]) \in Endings(Path[d], FALSE)
            /\ Path[results[Path[d]]] = Path[d]

\* Every scan that failed is counted once, however the workers interleave, whenever
\* the deadline passes, and even where a second entry of the same directory overwrites
\* its result (exporter.go:193-195, 215, 230).
ErrorsCounted ==
    AtPublish => errCount = Cardinality({d \in Job : found[d] = "failed"})

\* The directories of a batch are those of the first so many entries of the list: a
\* late batch lacks the end of the list and nothing else, however the workers were
\* scheduled.
LateBatchIsPrefix ==
    AtPublish => \E k \in 0..size["dirs"] :
        {path \in Job : results[path] # 0} = {Path[d] : d \in 1..k}

\* A backlog reported as counted is never the partial count of a directory scan
\* that the deadline cut short (buffer.go:157, 191).
NoPartialBacklog == \A n \in Job : buffers[n] # "part"

\* After the deadline each fan-out starts at most one more worker: the one it had
\* admitted (exporter.go:181-188).
LateStartsBounded == \A p \in Pool : late[p] <= 1

\* Every cycle ends and is published: the fan-outs do not deadlock on the slots.
CycleEnds == (stage # "idle") ~> (stage = "idle")

\* buffer.go:14 calls a node's backlog "the non-recursive regular-file count of the
\* collector node's SourceDirectory" and buffer.go:22 its Success "true when the
\* buffer dir was readable and counted".  So a backlog that is reported as counted
\* is the count of the whole directory, as far as it could be listed.
BacklogIsWhole == \A n \in Job : buffers[n] \in {"absent", "failed", "short", "full"}

\* exporter.go:144: "ScanAll fans out workers with a hard wall-clock timeout".
HardTimeout == (stage # "idle" /\ expired) ~> (stage = "idle")

=============================================================================
