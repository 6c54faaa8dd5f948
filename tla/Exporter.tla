------------------------------ MODULE Exporter ------------------------------
(***************************************************************************)
(* The orchestration of directory-exporter: exporter.go, with the parts of *)
(* main.go, watchlist.go and server.go that call it.                       *)
(*                                                                         *)
(* Three threads of control run Discover:                                  *)
(*   "main"  once at start-up, before the loops exist (main.go),           *)
(*   "scan"  RunScanLoop, for every signal it receives from reloadCh,      *)
(*   "disc"  RunDiscoveryLoop, on every tick of its timer.                 *)
(* Discover visits the configured targets one after the other, installs    *)
(* the list it collected and then stores its length: three separately      *)
(* visible steps, and nothing orders the scan loop's Discover against the  *)
(* discovery loop's.  What repairs their races is the signal the discovery *)
(* loop puts on reloadCh when it is done.                                  *)
(*                                                                         *)
(* Data.  A target contributes one directory, named after the target: an   *)
(* explicit target always (resolveExplicitDirs never looks at the disk), a *)
(* discovered one when its base is mounted at the moment it is visited.    *)
(* ScanAll appears here as "read the list, publish results for part of     *)
(* it"; module ScanCycle opens it up, module Cache opens up the store.     *)
(***************************************************************************)
EXTENDS Integers, FiniteSets

CONSTANTS
    NTargets,      \* number of configured targets
    Explicit,      \* the targets configured with a non-empty "dirs" list
    Request,       \* POST /-/reload calls
    Authorised,    \* the ones that carry the reload secret
    Remountable,   \* bound: the targets whose volume may come and go
    Editable       \* bound: the targets that may leave and rejoin targets.yml

Target == 1..NTargets

ASSUME NTargetsAssumption == NTargets \in Nat \ {0}
ASSUME ExplicitAssumption == Explicit \subseteq Target
ASSUME BoundsAssumption ==
    Remountable \subseteq Target /\ Editable \subseteq Target
ASSUME AuthorisedAssumption == Authorised \subseteq Request

VARIABLES
    mounted,       \* environment: targets whose base can be walked now
    file,          \* environment: targets that targets.yml lists now
    wl,            \* WatchList.entries
    watchedTotal,  \* Cache.watchedTotal
    entries,       \* directories in the published Cache.entries
    pc,            \* where each thread is
    idx,           \* Discover: next target to visit
    acc,           \* Discover: entries collected so far
    watched,       \* ScanAll: the copy of the watch list it works on
    token,         \* reloadCh (capacity 1) holds a signal
    wg,            \* Exporter.wg, the counter Stop waits on
    req,           \* progress of each reload request
    reloadTotal,   \* Cache.reloadTotal
    clean          \* history: mounted, file unchanged since p's last walk began

env == <<mounted, file>>
vars == <<mounted, file, wl, watchedTotal, entries, pc, idx, acc, watched,
          token, wg, req, reloadTotal, clean>>

Proc == {"main", "scan", "disc"}
Loop == {"scan", "disc"}

DiscoverLabel == {"walk", "count"}
MainLabel ==
    DiscoverLabel \cup {"spawn", "serving", "stopping", "drained", "exited"}
ScanLabel ==
    DiscoverLabel \cup {"absent", "spawned", "scan", "scanning", "select", "exited"}
DiscLabel ==
    DiscoverLabel \cup {"absent", "spawned", "select", "send", "exited"}

ReqState == {"new", "counted", "queued", "walking", "served"}

TypeOK ==
    /\ mounted \subseteq Target
    /\ file \subseteq Target
    /\ wl \subseteq Target
    /\ watchedTotal \in Nat
    /\ entries \subseteq Target
    /\ pc \in [Proc -> MainLabel \cup ScanLabel \cup DiscLabel]
    /\ pc["main"] \in MainLabel
    /\ pc["scan"] \in ScanLabel
    /\ pc["disc"] \in DiscLabel
    /\ idx \in [Proc -> 1..(NTargets + 1)]
    /\ acc \in [Proc -> SUBSET Target]
    /\ watched \subseteq Target
    /\ token \in BOOLEAN
    /\ wg \in Nat
    /\ req \in [Request -> ReqState]
    /\ reloadTotal \in Nat
    /\ clean \in [Proc -> BOOLEAN]

\* What a walk of every target at this instant would find.
Visible == Explicit \cup mounted

Alive == pc["main"] # "exited"              \* the process exists
StopClosed == pc["main"] \in {"stopping", "drained", "exited"}
ServerUp == pc["main"] \in {"serving", "stopping", "drained"}

Goto(p, from, to) ==
    /\ Alive
    /\ pc[p] = from
    /\ pc' = [pc EXCEPT ![p] = to]

-----------------------------------------------------------------------------

Init ==
    /\ mounted \in SUBSET Target
    /\ file = Target
    /\ wl = {}
    /\ watchedTotal = 0
    /\ entries = {}
    /\ pc = [p \in Proc |-> IF p = "main" THEN "walk" ELSE "absent"]
    /\ idx = [p \in Proc |-> 1]
    /\ acc = [p \in Proc |-> {}]
    /\ watched = {}
    /\ token = FALSE
    /\ wg = 0
    /\ req = [r \in Request |-> "new"]
    /\ reloadTotal = 0
    /\ clean = [p \in Proc |-> p = "main"]

(***************************************************************************)
(* Discover, run by any of the three threads.                              *)
(***************************************************************************)
DiscoverVars == <<idx, acc, clean>>

BeginDiscover(p) ==
    /\ clean' = [clean EXCEPT ![p] = TRUE]
    /\ UNCHANGED <<idx, acc>>

\* Fault: the loop runs one turn too far.
VisitTargetPastEnd(p) ==
    /\ Alive
    /\ pc[p] = "walk"
    /\ idx[p] <= NTargets + 1
    /\ acc' = [acc EXCEPT ![p] = @ \cup ({idx[p]} \cap Visible)]
    /\ idx' = [idx EXCEPT ![p] = @ + 1]
    /\ UNCHANGED <<env, wl, watchedTotal, entries, pc, watched, token, wg, req,
                   reloadTotal, clean>>

\* One turn of the loop of discoverTargets.  A target that fails adds nothing.
VisitTarget(p) ==
    /\ Alive
    /\ pc[p] = "walk"
    /\ idx[p] <= NTargets
    /\ acc' = [acc EXCEPT ![p] = @ \cup ({idx[p]} \cap Visible)]
    /\ idx' = [idx EXCEPT ![p] = @ + 1]
    /\ UNCHANGED <<env, wl, watchedTotal, entries, pc, watched, token, wg,
                   req, reloadTotal, clean>>

\* Fault: Discover returns before wl.Set when a target could not be walked.
InstallCompleteList(p) ==
    /\ idx[p] > NTargets
    /\ Goto(p, "walk", "count")
    /\ wl' = IF acc[p] = Target THEN acc[p] ELSE wl
    /\ UNCHANGED <<env, watchedTotal, entries, DiscoverVars, watched, token, wg,
                   req, reloadTotal>>

\* wl.Set: the list is installed even when the walk met errors.
InstallList(p) ==
    /\ idx[p] > NTargets
    /\ Goto(p, "walk", "count")
    /\ wl' = acc[p]
    /\ UNCHANGED <<env, watchedTotal, entries, DiscoverVars, watched,
                   token, wg, req, reloadTotal>>

AfterDiscover == [main |-> "spawn", scan |-> "scan", disc |-> "send"]

\* cache.SetWatchedTotal, a second store that no lock ties to the first; then
\* Discover returns and its locals are gone.
StoreTotal(p) ==
    /\ Goto(p, "count", AfterDiscover[p])
    /\ watchedTotal' = Cardinality(acc[p])
    /\ idx' = [idx EXCEPT ![p] = 1]
    /\ acc' = [acc EXCEPT ![p] = {}]
    /\ UNCHANGED <<env, wl, entries, clean, watched, token, wg, req,
                   reloadTotal>>

(***************************************************************************)
(* main                                                                    *)
(***************************************************************************)

\* go RunScanLoop, go RunDiscoveryLoop, start the server.
Spawn ==
    /\ pc["main"] = "spawn"
    /\ pc' = [pc EXCEPT !["main"] = "serving", !["scan"] = "spawned",
                        !["disc"] = "spawned"]
    /\ UNCHANGED <<env, wl, watchedTotal, entries, DiscoverVars, watched,
                   token, wg, req, reloadTotal>>

\* SIGTERM, SIGINT or a failed ListenAndServe; then close(stopCh).
Signal ==
    /\ Goto("main", "serving", "stopping")
    /\ UNCHANGED <<env, wl, watchedTotal, entries, DiscoverVars, watched,
                   token, wg, req, reloadTotal>>

\* Fault: Stop closes the channel and does not wait.
StopWithoutWait ==
    /\ Goto("main", "stopping", "drained")
    /\ UNCHANGED <<env, wl, watchedTotal, entries, DiscoverVars, watched, token,
                   wg, req, reloadTotal>>

StopReturns ==
    /\ wg = 0
    /\ Goto("main", "stopping", "drained")
    /\ UNCHANGED <<env, wl, watchedTotal, entries, DiscoverVars, watched,
                   token, wg, req, reloadTotal>>

\* srv.Shutdown and the return from main, which ends every goroutine.
Shutdown ==
    /\ Goto("main", "drained", "exited")
    /\ UNCHANGED <<env, wl, watchedTotal, entries, DiscoverVars, watched,
                   token, wg, req, reloadTotal>>

(***************************************************************************)
(* The loops.  A new goroutine registers with wg itself, as its first step.*)
(***************************************************************************)
FirstLabel == [scan |-> "scan", disc |-> "select"]

LoopStart(p) ==
    /\ Goto(p, "spawned", FirstLabel[p])
    /\ wg' = wg + 1
    /\ UNCHANGED <<env, wl, watchedTotal, entries, DiscoverVars, watched,
                   token, req, reloadTotal>>

\* Fault: the discovery loop does not listen to stopCh.
LoopExitScanOnly(p) ==
    /\ p = "scan"
    /\ StopClosed
    /\ Goto(p, "select", "exited")
    /\ wg' = wg - 1
    /\ UNCHANGED <<env, wl, watchedTotal, entries, DiscoverVars, watched, token,
                   req, reloadTotal>>

LoopExit(p) ==
    /\ StopClosed
    /\ Goto(p, "select", "exited")
    /\ wg' = wg - 1
    /\ UNCHANGED <<env, wl, watchedTotal, entries, DiscoverVars, watched,
                   token, req, reloadTotal>>

ScanTick ==
    /\ Goto("scan", "select", "scan")
    /\ UNCHANGED <<env, wl, watchedTotal, entries, DiscoverVars, watched,
                   token, wg, req, reloadTotal>>

\* Fault: the reload branch scans the list it has and does not discover.
ScanReloadOldList ==
    /\ token
    /\ Goto("scan", "select", "scan")
    /\ token' = FALSE
    /\ UNCHANGED <<env, wl, watchedTotal, entries, DiscoverVars, watched, wg,
                   req, reloadTotal>>

\* One receive answers every request queued so far.
ScanReload ==
    /\ token
    /\ Goto("scan", "select", "walk")
    /\ token' = FALSE
    /\ BeginDiscover("scan")
    /\ req' = [r \in Request |-> IF req[r] = "queued" THEN "walking" ELSE req[r]]
    /\ UNCHANGED <<env, wl, watchedTotal, entries, watched, wg, reloadTotal>>

ScanBegin ==
    /\ Goto("scan", "scan", "scanning")
    /\ watched' = wl
    /\ UNCHANGED <<env, wl, watchedTotal, entries, DiscoverVars, token, wg,
                   req, reloadTotal>>

\* SetBatch replaces the map; a cycle that timed out covers only part of watched.
ScanPublish ==
    /\ Goto("scan", "scanning", "select")
    /\ entries' \in SUBSET watched
    /\ watched' = {}
    /\ req' = [r \in Request |-> IF req[r] = "walking" THEN "served" ELSE req[r]]
    /\ UNCHANGED <<env, wl, watchedTotal, DiscoverVars, token, wg, reloadTotal>>

DiscTick ==
    /\ Goto("disc", "select", "walk")
    /\ BeginDiscover("disc")
    /\ UNCHANGED <<env, wl, watchedTotal, entries, watched, token, wg, req,
                   reloadTotal>>

\* Fault: the discovery loop updates the list and signals nobody.
DiscSendNothing ==
    /\ Goto("disc", "send", "select")
    /\ UNCHANGED <<env, wl, watchedTotal, entries, DiscoverVars, watched, token,
                   wg, req, reloadTotal>>

\* Fault: reloadCh has no buffer, so a signal needs a waiting scan loop.
DiscSendUnbuffered ==
    /\ Goto("disc", "send", "select")
    /\ token' = (token \/ pc["scan"] = "select")
    /\ UNCHANGED <<env, wl, watchedTotal, entries, DiscoverVars, watched, wg,
                   req, reloadTotal>>

\* The send does not block: a full channel drops this signal.
DiscSend ==
    /\ Goto("disc", "send", "select")
    /\ token' = TRUE
    /\ UNCHANGED <<env, wl, watchedTotal, entries, DiscoverVars, watched,
                   wg, req, reloadTotal>>

(***************************************************************************)
(* POST /-/reload, served until the process is gone.                       *)
(***************************************************************************)
\* A missing or wrong secret is answered 401 and leaves no trace.
RejectReload(r) ==
    /\ ServerUp
    /\ r \notin Authorised
    /\ UNCHANGED vars

CountReload(r) ==
    /\ ServerUp
    /\ req[r] = "new"
    /\ r \in Authorised
    /\ req' = [req EXCEPT ![r] = "counted"]
    /\ reloadTotal' = reloadTotal + 1
    /\ UNCHANGED <<env, wl, watchedTotal, entries, pc, DiscoverVars,
                   watched, token, wg>>

\* Fault: reloadCh has no buffer.
QueueReloadUnbuffered(r) ==
    /\ ServerUp
    /\ req[r] = "counted"
    /\ req' = [req EXCEPT ![r] = "queued"]
    /\ token' = (token \/ pc["scan"] = "select")
    /\ UNCHANGED <<env, wl, watchedTotal, entries, pc, DiscoverVars, watched,
                   wg, reloadTotal>>

\* The non-blocking send of TriggerReload; the request is answered 202.
QueueReload(r) ==
    /\ ServerUp
    /\ req[r] = "counted"
    /\ req' = [req EXCEPT ![r] = "queued"]
    /\ token' = TRUE
    /\ UNCHANGED <<env, wl, watchedTotal, entries, pc, DiscoverVars,
                   watched, wg, reloadTotal>>

(***************************************************************************)
(* Environment.  Volumes come and go, and the operator edits targets.yml,  *)
(* which the program read once, before Init (LoadConfig): Target is what   *)
(* it found there.                                                         *)
(***************************************************************************)
Toggle(S, T) == {(S \ {t}) \cup ({t} \ S) : t \in T}

World ==
    /\ Alive
    /\ clean' = [p \in Proc |-> FALSE]
    /\ UNCHANGED <<wl, watchedTotal, entries, pc, idx, acc, watched, token, wg,
                   req, reloadTotal>>

Remount == World /\ mounted' \in Toggle(mounted, Remountable) /\ UNCHANGED file
EditFile == World /\ file' \in Toggle(file, Editable) /\ UNCHANGED mounted

-----------------------------------------------------------------------------

Discover(p) == VisitTarget(p) \/ InstallList(p) \/ StoreTotal(p)
Main == Spawn \/ Signal \/ StopReturns \/ Shutdown
ScanLoop == ScanTick \/ ScanReload \/ ScanBegin \/ ScanPublish
DiscoveryLoop == DiscTick \/ DiscSend
Handler(r) == RejectReload(r) \/ CountReload(r) \/ QueueReload(r)

Next ==
    \/ \E p \in Proc : Discover(p)
    \/ Main
    \/ \E p \in Loop : LoopStart(p) \/ LoopExit(p)
    \/ ScanLoop
    \/ DiscoveryLoop
    \/ \E r \in Request : Handler(r)
    \/ Remount
    \/ EditFile

Spec == Init /\ [][Next]_vars

(***************************************************************************)
(* Goroutines make progress and timers keep ticking (weak fairness).  A    *)
(* branch of a Go select that is ready again and again is taken in the     *)
(* end, because select picks among the ready branches at random: strong    *)
(* fairness for the two branches that compete with a timer.  Nothing is    *)
(* assumed of Signal, of the environment or of the scan timer.             *)
(***************************************************************************)
Fairness ==
    /\ \A p \in Proc : WF_vars(Discover(p))
    /\ WF_vars(Spawn) /\ WF_vars(StopReturns) /\ WF_vars(Shutdown)
    /\ \A p \in Loop : WF_vars(LoopStart(p)) /\ SF_vars(LoopExit(p))
    /\ SF_vars(ScanReload)
    /\ WF_vars(ScanBegin) /\ WF_vars(ScanPublish)
    /\ WF_vars(DiscTick) /\ WF_vars(DiscSend)
    /\ \A r \in Request : WF_vars(QueueReload(r))

FairSpec == Spec /\ Fairness

-----------------------------------------------------------------------------
(***************************************************************************)
(* Properties                                                              *)
(***************************************************************************)

\* Nobody is between the first step of a Discover and its last consequence.
Quiet ==
    /\ pc["main"] \notin DiscoverLabel
    /\ pc["scan"] \notin DiscoverLabel
    /\ pc["disc"] \notin DiscoverLabel \cup {"send"}
    /\ ~token

\* The two stores of Discover (exporter.go:70,71) of two threads may interleave
\* and leave directory_watched_total out of step with the list.  They agree
\* again whenever all is quiet: the discovery loop's signal repairs them.
QuietTotalExact == Quiet => watchedTotal = Cardinality(wl)

\* A slow walk may install an outdated list over a newer one.  When all is quiet
\* and the disk has not changed since somebody's last walk began, the list is
\* what the disk shows: no outdated or half-walked list outlives the races.
QuietWatchListCurrent == Quiet /\ (\E p \in Proc : clean[p]) => wl = Visible

\* A reload answered 202 whose walk has not begun is still represented by a
\* signal in the channel, also when its own send was dropped (exporter.go:79).
NoLostReload == \A r \in Request : req[r] = "queued" => token

\* Stop does not return while a loop that has registered is at work.  It does not wait
\* for one that is yet to register, which may still scan once (exporter.go:87, 96, 121).
StopWaitsForLoops ==
    [][pc["main"] = "stopping" /\ pc'["main"] = "drained"
         => \A p \in Loop : pc[p] \in {"spawned", "exited"}]_vars

\* Every accepted reload is followed by a walk and a published scan, unless the
\* process is told to stop.
ReloadServed ==
    \A r \in Request : (req[r] = "queued") ~> (req[r] = "served" \/ StopClosed)

\* Once the disk stops changing, the watch list and its length become right for
\* good and the published metrics hold no directory that is gone.
Converges ==
    <>[][UNCHANGED mounted]_vars =>
        <>[](\/ StopClosed
             \/ /\ wl = Visible
                /\ watchedTotal = Cardinality(Visible)
                /\ entries \subseteq Visible)

\* A process told to stop ends: no loop misses the closed channel.
StopTerminates == (pc["main"] = "stopping") ~> (pc["main"] = "exited")

\* README.md:111 says of targets.yml: "edit it to control what is monitored ...
\* trigger a reload after editing".  After a reload whose walk began after the
\* last edit, nothing that the file no longer lists is on the watch list.
EditTakesEffect ==
    Quiet /\ clean["scan"] /\ pc["scan"] = "select"
          /\ (\E r \in Request : req[r] = "served") => wl \subseteq file

=============================================================================
