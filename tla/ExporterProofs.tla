--------------------------- MODULE ExporterProofs ---------------------------
(***************************************************************************)
(* Theorems about Exporter, for any number of targets and requests.        *)
(***************************************************************************)
EXTENDS Exporter, FiniteSetTheorems, TLAPS

USE NTargetsAssumption, ExplicitAssumption

\* Every list that a walk can collect is finite, so it has a length.
LEMMA ListLength == ASSUME NEW S \in SUBSET Target PROVE Cardinality(S) \in Nat
<1>1. IsFiniteSet(Target)  BY FS_Interval DEF Target
<1>2. IsFiniteSet(S)  BY <1>1, FS_Subset
<1> QED  BY <1>2, FS_CardinalityType

LEMMA VisibleType == TypeOK => Visible \subseteq Target
  BY DEF TypeOK, Visible

LEMMA ToggleType ==
    ASSUME NEW S \in SUBSET Target, NEW T \in SUBSET Target
    PROVE  Toggle(S, T) \subseteq SUBSET Target
  BY DEF Toggle

-----------------------------------------------------------------------------
(***************************************************************************)
(* Types.  That wg never turns negative is not a matter of types: it holds *)
(* because wg counts exactly the loops that have registered and not left.  *)
(***************************************************************************)
Working(p) == pc[p] \notin {"absent", "spawned", "exited"}

WgExact ==
    wg = (IF Working("scan") THEN 1 ELSE 0) + (IF Working("disc") THEN 1 ELSE 0)

\* The loops do not exist before main starts them.
LoopsAfterMain ==
    \A p \in Loop :
        pc[p] = "absent" <=> pc["main"] \in DiscoverLabel \cup {"spawn"}

TypeInv == TypeOK /\ WgExact /\ LoopsAfterMain


LEMMA TypeInit == Init => TypeInv
<1> SUFFICES ASSUME Init PROVE TypeInv  OBVIOUS
<1> USE DEF Init, Proc
<1>1. pc \in [Proc -> MainLabel \cup ScanLabel \cup DiscLabel]
        /\ pc["main"] \in MainLabel /\ pc["scan"] \in ScanLabel
        /\ pc["disc"] \in DiscLabel
  BY DEF MainLabel, ScanLabel, DiscLabel, DiscoverLabel
<1>2. idx \in [Proc -> 1..(NTargets + 1)] /\ acc \in [Proc -> SUBSET Target]
  OBVIOUS
<1>3. req \in [Request -> ReqState]  BY DEF ReqState
<1>4. clean \in [Proc -> BOOLEAN]  OBVIOUS
<1>5. WgExact  BY DEF WgExact, Working
<1>6. LoopsAfterMain  BY DEF LoopsAfterMain, Loop, DiscoverLabel
<1> QED  BY <1>1, <1>2, <1>3, <1>4, <1>5, <1>6 DEF TypeInv, TypeOK

\* What each step does to the program counters is all that these two need.
LEMMA LoopsNext == TypeInv /\ [Next]_vars => WgExact' /\ LoopsAfterMain'
<1> SUFFICES ASSUME TypeInv, [Next]_vars PROVE WgExact' /\ LoopsAfterMain'
  OBVIOUS
<1>1. pc \in [Proc -> MainLabel \cup ScanLabel \cup DiscLabel] /\ wg \in Nat
  BY DEF TypeInv, TypeOK
<1> USE <1>1 DEF TypeInv, Proc, Loop, WgExact, LoopsAfterMain, Working, Goto,
                 DiscoverLabel
<1>2. ASSUME NEW p \in Proc, Discover(p) PROVE WgExact' /\ LoopsAfterMain'
  <2>1. CASE VisitTarget(p)  BY <2>1 DEF VisitTarget
  <2>2. CASE InstallList(p)  BY <2>2 DEF InstallList
  <2>3. CASE StoreTotal(p)  BY <2>3 DEF StoreTotal, AfterDiscover
  <2> QED  BY <1>2, <2>1, <2>2, <2>3 DEF Discover
<1>3. ASSUME Main PROVE WgExact' /\ LoopsAfterMain'
  <2>1. CASE Spawn  BY <2>1 DEF Spawn
  <2>2. CASE Signal  BY <2>2 DEF Signal
  <2>3. CASE StopReturns  BY <2>3 DEF StopReturns
  <2>4. CASE Shutdown  BY <2>4 DEF Shutdown
  <2> QED  BY <1>3, <2>1, <2>2, <2>3, <2>4 DEF Main
<1>4. ASSUME NEW p \in Loop, LoopStart(p) \/ LoopExit(p)
      PROVE WgExact' /\ LoopsAfterMain'
  <2>1. CASE LoopStart(p)  BY <2>1 DEF LoopStart, FirstLabel
  <2>2. CASE LoopExit(p)  BY <2>2 DEF LoopExit
  <2> QED  BY <1>4, <2>1, <2>2
<1>5. ASSUME ScanLoop \/ DiscoveryLoop PROVE WgExact' /\ LoopsAfterMain'
  BY <1>5 DEF ScanLoop, ScanTick, ScanReload, ScanBegin, ScanPublish,
              DiscoveryLoop, DiscTick, DiscSend
<1>6. ASSUME NEW r \in Request, Handler(r) PROVE WgExact' /\ LoopsAfterMain'
  BY <1>6 DEF Handler, RejectReload, CountReload, QueueReload, vars
<1>7. ASSUME Remount \/ EditFile PROVE WgExact' /\ LoopsAfterMain'
  BY <1>7 DEF Remount, EditFile, World
<1>8. CASE UNCHANGED vars
  BY <1>8 DEF vars
<1> QED  BY <1>2, <1>3, <1>4, <1>5, <1>6, <1>7, <1>8 DEF Next

LEMMA TypeNext == TypeInv /\ [Next]_vars => TypeOK'
<1> SUFFICES ASSUME TypeOK, WgExact, [Next]_vars PROVE TypeOK'
  BY DEF TypeInv
<1> USE DEF TypeOK, Proc, DiscoverLabel, MainLabel, ScanLabel, DiscLabel,
            DiscoverVars, env, Goto
<1>1. ASSUME NEW p \in Proc, VisitTarget(p) PROVE TypeOK'
  <2>1. acc' \in [Proc -> SUBSET Target]
    BY <1>1, VisibleType DEF VisitTarget
  <2>2. idx' \in [Proc -> 1..(NTargets + 1)]
    BY <1>1 DEF VisitTarget
  <2> QED  BY <1>1, <2>1, <2>2 DEF VisitTarget
<1>2. ASSUME NEW p \in Proc, InstallList(p) PROVE TypeOK'
  BY <1>2 DEF InstallList
<1>3. ASSUME NEW p \in Proc, StoreTotal(p) PROVE TypeOK'
  <2>1. watchedTotal' \in Nat
    BY <1>3, ListLength DEF StoreTotal
  <2>2. pc' \in [Proc -> MainLabel \cup ScanLabel \cup DiscLabel]
          /\ pc'["main"] \in MainLabel /\ pc'["scan"] \in ScanLabel
          /\ pc'["disc"] \in DiscLabel
    BY <1>3 DEF StoreTotal, AfterDiscover
  <2>3. idx' \in [Proc -> 1..(NTargets + 1)] /\ acc' \in [Proc -> SUBSET Target]
    BY <1>3 DEF StoreTotal
  <2> QED  BY <1>3, <2>1, <2>2, <2>3 DEF StoreTotal
<1>4. ASSUME Main PROVE TypeOK'
  <2>1. CASE Spawn  BY <2>1 DEF Spawn
  <2>2. CASE Signal  BY <2>2 DEF Signal
  <2>3. CASE StopReturns  BY <2>3 DEF StopReturns
  <2>4. CASE Shutdown  BY <2>4 DEF Shutdown
  <2> QED  BY <1>4, <2>1, <2>2, <2>3, <2>4 DEF Main
<1>5. ASSUME NEW p \in Loop, LoopStart(p) PROVE TypeOK'
  <2>1. p = "scan" \/ p = "disc"  BY DEF Loop
  <2>2. wg' \in Nat  BY <1>5 DEF LoopStart
  <2>3. FirstLabel[p] \in ScanLabel \cap DiscLabel \/ p = "scan"
    BY <2>1 DEF FirstLabel
  <2> QED  BY <1>5, <2>1, <2>2 DEF LoopStart, FirstLabel
<1>6. ASSUME NEW p \in Loop, LoopExit(p) PROVE TypeOK'
  <2>1. Working(p) /\ p \in {"scan", "disc"}
    BY <1>6 DEF LoopExit, Working, Loop
  <2>2. wg' \in Nat  BY <1>6, <2>1 DEF LoopExit, WgExact
  <2> QED  BY <1>6, <2>1, <2>2 DEF LoopExit
<1>7. ASSUME ScanLoop PROVE TypeOK'
  <2> USE DEF BeginDiscover, ReqState
  <2>1. CASE ScanTick  BY <2>1 DEF ScanTick
  <2>2. CASE ScanReload  BY <2>2 DEF ScanReload
  <2>3. CASE ScanBegin  BY <2>3 DEF ScanBegin
  <2>4. CASE ScanPublish  BY <2>4 DEF ScanPublish
  <2> QED  BY <1>7, <2>1, <2>2, <2>3, <2>4 DEF ScanLoop
<1>8. ASSUME DiscoveryLoop PROVE TypeOK'
  <2>1. CASE DiscTick  BY <2>1 DEF DiscTick, BeginDiscover
  <2>2. CASE DiscSend  BY <2>2 DEF DiscSend
  <2> QED  BY <1>8, <2>1, <2>2 DEF DiscoveryLoop
<1>9. ASSUME NEW r \in Request, Handler(r) PROVE TypeOK'
  <2>1. CASE RejectReload(r)  BY <2>1 DEF RejectReload, vars
  <2>2. CASE CountReload(r)  BY <2>2 DEF CountReload, ReqState
  <2>3. CASE QueueReload(r)  BY <2>3 DEF QueueReload, ReqState
  <2> QED  BY <1>9, <2>1, <2>2, <2>3 DEF Handler
<1>10. ASSUME Remount \/ EditFile PROVE TypeOK'
  BY <1>10, BoundsAssumption, ToggleType DEF Remount, EditFile, World
<1>11. CASE UNCHANGED vars
  BY <1>11 DEF vars
<1> QED
  BY <1>1, <1>2, <1>3, <1>4, <1>5, <1>6, <1>7, <1>8, <1>9, <1>10, <1>11
  DEF Next, Discover

\* TypeOK holds in every reachable state: in particular no index leaves the list
\* of targets and wg never turns negative (a negative WaitGroup panics).
THEOREM TypeCorrect == Spec => []TypeOK
<1>1. TypeInv /\ [Next]_vars => TypeInv'
  BY TypeNext, LoopsNext DEF TypeInv
<1>2. TypeInv => TypeOK  BY DEF TypeInv
<1> QED  BY TypeInit, <1>1, <1>2, PTL DEF Spec


-----------------------------------------------------------------------------
(***************************************************************************)
(* The races of Discover.  The invariant says who will repair what:        *)
(*                                                                         *)
(*  - a walk during which the world did not change is a true picture of    *)
(*    the targets it has visited (WalkFaithful);                           *)
(*  - before the loops exist nothing competes with main (MainAlone);       *)
(*  - a walk of the scan loop that is out of date while somebody's is not, *)
(*    and a watch list that is out of date, are followed by another walk:  *)
(*    a signal is in the channel or about to be sent (ListRepaired);       *)
(*  - so is a total that differs from the list, or a walk of the scan loop *)
(*    whose list has been replaced before it stored the length             *)
(*    (TotalRepaired).                                                     *)
(***************************************************************************)
WalkFaithful ==
    \A p \in Proc :
        /\ pc[p] = "count" => idx[p] = NTargets + 1
        /\ pc[p] \notin DiscoverLabel => idx[p] = 1 /\ acc[p] = {}
        /\ clean[p] => acc[p] = Visible \cap (1..(idx[p] - 1))

MainAlone ==
    /\ pc["main"] \in DiscoverLabel \cup {"spawn"} => ~clean["scan"] /\ ~clean["disc"]
    /\ pc["main"] = "walk" => wl = {} /\ watchedTotal = 0
    /\ pc["main"] = "count" => wl = acc["main"]
    /\ clean["main"] /\ pc["scan"] = "walk" => clean["scan"]

SignalAhead == token \/ pc["disc"] \in {"walk", "count", "send"}
SignalSoon == token \/ pc["disc"] \in {"count", "send"}

ListRepaired ==
    (\E p \in Proc : clean[p]) =>
        /\ pc["scan"] = "walk" /\ ~clean["scan"] => SignalAhead
        /\ wl # Visible => \/ SignalAhead
                           \/ pc["scan"] = "walk" /\ clean["scan"]
                           \/ pc["main"] = "walk"

TotalRepaired ==
    /\ pc["scan"] = "count" /\ acc["scan"] # wl => SignalSoon
    /\ watchedTotal # Cardinality(wl) =>
         \/ SignalSoon
         \/ pc["scan"] \in DiscoverLabel
         \/ pc["main"] = "count"

RaceInv == WalkFaithful /\ MainAlone /\ ListRepaired /\ TotalRepaired


LEMMA RaceInit == Init => RaceInv
<1> SUFFICES ASSUME Init PROVE RaceInv  OBVIOUS
<1> USE DEF Init, Proc, DiscoverLabel
<1>1. WalkFaithful  BY DEF WalkFaithful
<1>2. MainAlone  BY DEF MainAlone
<1>3. ListRepaired  BY DEF ListRepaired
<1>4. TotalRepaired
  <2>1. Cardinality({}) = 0  BY FS_EmptySet
  <2> QED  BY <2>1 DEF TotalRepaired
<1> QED  BY <1>1, <1>2, <1>3, <1>4 DEF RaceInv

\* A finished walk of an unchanged world has found all that is visible.
LEMMA WholeWalk ==
    ASSUME TypeInv, WalkFaithful, NEW p \in Proc, clean[p], idx[p] > NTargets
    PROVE  acc[p] = Visible
<1>1. idx[p] \in 1..(NTargets + 1)  BY DEF TypeInv, TypeOK
<1>2. idx[p] - 1 = NTargets  BY <1>1
<1>3. Visible \subseteq 1..NTargets  BY VisibleType DEF TypeInv, Target
<1> QED  BY <1>2, <1>3 DEF WalkFaithful

LEMMA WalkFaithfulNext == TypeInv /\ RaceInv /\ [Next]_vars => WalkFaithful'
<1> SUFFICES ASSUME TypeInv, WalkFaithful, [Next]_vars,
                    NEW p \in Proc
             PROVE  /\ pc'[p] = "count" => idx'[p] = NTargets + 1
                    /\ pc'[p] \notin DiscoverLabel => idx'[p] = 1 /\ acc'[p] = {}
                    /\ clean'[p] => acc'[p] = Visible' \cap (1..(idx'[p] - 1))
  BY DEF RaceInv, WalkFaithful
<1> DEFINE Goal == /\ pc'[p] = "count" => idx'[p] = NTargets + 1
                   /\ pc'[p] \notin DiscoverLabel => idx'[p] = 1 /\ acc'[p] = {}
                   /\ clean'[p] => acc'[p] = Visible' \cap (1..(idx'[p] - 1))
<1>0. /\ pc \in [Proc -> MainLabel \cup ScanLabel \cup DiscLabel]
      /\ idx \in [Proc -> 1..(NTargets + 1)]
      /\ acc \in [Proc -> SUBSET Target]
      /\ clean \in [Proc -> BOOLEAN]
      /\ Visible \subseteq Target
  BY VisibleType DEF TypeInv, TypeOK
<1>1. /\ pc[p] = "count" => idx[p] = NTargets + 1
      /\ pc[p] \notin DiscoverLabel => idx[p] = 1 /\ acc[p] = {}
      /\ clean[p] => acc[p] = Visible \cap (1..(idx[p] - 1))
  BY DEF WalkFaithful
<1>2. mounted' = mounted => Visible' = Visible  BY DEF Visible
<1> USE <1>0, <1>1, <1>2 DEF DiscoverLabel, Goto, env, DiscoverVars
<1>3. ASSUME NEW q \in Proc, VisitTarget(q) PROVE Goal
  <2>1. CASE q = p
    <3>1. idx'[p] = idx[p] + 1 /\ acc'[p] = acc[p] \cup ({idx[p]} \cap Visible)
      BY <1>3, <2>1 DEF VisitTarget
    <3>2. idx[p] \in 1..NTargets /\ pc'[p] = "walk" /\ clean'[p] = clean[p]
      BY <1>3, <2>1 DEF VisitTarget
    <3>3. Visible' = Visible  BY <1>3 DEF VisitTarget
    <3>4. 1..((idx[p] + 1) - 1) = (1..(idx[p] - 1)) \cup {idx[p]}  BY <3>2
    <3> QED  BY <3>1, <3>2, <3>3, <3>4
  <2>2. CASE q # p  BY <1>3, <2>2 DEF VisitTarget
  <2> QED  BY <2>1, <2>2
<1>4. ASSUME NEW q \in Proc, InstallList(q) PROVE Goal
  BY <1>4 DEF InstallList
<1>5. ASSUME NEW q \in Proc, StoreTotal(q) PROVE Goal
  <2>1. CASE q = p
    <3>1. idx'[p] = 1 /\ acc'[p] = {} /\ pc'[p] # "count"
      BY <1>5, <2>1 DEF StoreTotal, AfterDiscover, Proc
    <3> QED  BY <3>1
  <2>2. CASE q # p  BY <1>5, <2>2 DEF StoreTotal
  <2> QED  BY <2>1, <2>2
<1>6. ASSUME Main PROVE Goal
  BY <1>6 DEF Main, Spawn, Signal, StopReturns, Shutdown, TypeInv,
              LoopsAfterMain, Loop, Proc
<1>7. ASSUME NEW q \in Loop, LoopStart(q) \/ LoopExit(q) PROVE Goal
  BY <1>7 DEF LoopStart, LoopExit, FirstLabel, Loop, Proc
<1>8. ASSUME ScanLoop PROVE Goal
  <2>1. CASE ScanTick  BY <2>1 DEF ScanTick
  <2>2. CASE ScanReload  BY <2>2 DEF ScanReload, BeginDiscover
  <2>3. CASE ScanBegin  BY <2>3 DEF ScanBegin
  <2>4. CASE ScanPublish  BY <2>4 DEF ScanPublish
  <2> QED  BY <1>8, <2>1, <2>2, <2>3, <2>4 DEF ScanLoop
<1>9. ASSUME DiscoveryLoop PROVE Goal
  <2>1. CASE DiscTick  BY <2>1 DEF DiscTick, BeginDiscover
  <2>2. CASE DiscSend  BY <2>2 DEF DiscSend
  <2> QED  BY <1>9, <2>1, <2>2 DEF DiscoveryLoop
<1>10. ASSUME NEW r \in Request, Handler(r) PROVE Goal
  BY <1>10 DEF Handler, RejectReload, CountReload, QueueReload, vars
<1>11. ASSUME Remount \/ EditFile PROVE Goal
  BY <1>11 DEF Remount, EditFile, World
<1>12. CASE UNCHANGED vars
  BY <1>12 DEF vars
<1> QED
  BY <1>3, <1>4, <1>5, <1>6, <1>7, <1>8, <1>9, <1>10, <1>11, <1>12
  DEF Next, Discover

LEMMA MainAloneNext == TypeInv /\ RaceInv /\ [Next]_vars => MainAlone'
<1> SUFFICES ASSUME TypeInv, MainAlone, WalkFaithful, [Next]_vars
             PROVE  MainAlone'
  BY DEF RaceInv
<1>0. /\ pc \in [Proc -> MainLabel \cup ScanLabel \cup DiscLabel]
      /\ clean \in [Proc -> BOOLEAN]
      /\ LoopsAfterMain
  BY DEF TypeInv, TypeOK
<1> USE <1>0 DEF MainAlone, LoopsAfterMain, Loop, Proc, DiscoverLabel, Goto, env,
                 DiscoverVars
<1>1. ASSUME NEW p \in Proc, Discover(p) PROVE MainAlone'
  <2>1. CASE VisitTarget(p)  BY <2>1 DEF VisitTarget
  <2>2. CASE InstallList(p)  BY <2>2 DEF InstallList
  <2>3. CASE StoreTotal(p)  BY <2>3 DEF StoreTotal, AfterDiscover
  <2> QED  BY <1>1, <2>1, <2>2, <2>3 DEF Discover
<1>2. ASSUME Main PROVE MainAlone'
  <2>1. CASE Spawn  BY <2>1 DEF Spawn
  <2>2. CASE Signal  BY <2>2 DEF Signal
  <2>3. CASE StopReturns  BY <2>3 DEF StopReturns
  <2>4. CASE Shutdown  BY <2>4 DEF Shutdown
  <2> QED  BY <1>2, <2>1, <2>2, <2>3, <2>4 DEF Main
<1>3. ASSUME NEW p \in Loop, LoopStart(p) \/ LoopExit(p) PROVE MainAlone'
  BY <1>3 DEF LoopStart, LoopExit, FirstLabel
<1>4. ASSUME ScanLoop PROVE MainAlone'
  <2>1. CASE ScanTick  BY <2>1 DEF ScanTick
  <2>2. CASE ScanReload  BY <2>2 DEF ScanReload, BeginDiscover
  <2>3. CASE ScanBegin  BY <2>3 DEF ScanBegin
  <2>4. CASE ScanPublish  BY <2>4 DEF ScanPublish
  <2> QED  BY <1>4, <2>1, <2>2, <2>3, <2>4 DEF ScanLoop
<1>5. ASSUME DiscoveryLoop PROVE MainAlone'
  <2>1. CASE DiscTick  BY <2>1 DEF DiscTick, BeginDiscover
  <2>2. CASE DiscSend  BY <2>2 DEF DiscSend
  <2> QED  BY <1>5, <2>1, <2>2 DEF DiscoveryLoop
<1>6. ASSUME NEW r \in Request, Handler(r) PROVE MainAlone'
  BY <1>6 DEF Handler, RejectReload, CountReload, QueueReload, vars
<1>7. ASSUME Remount \/ EditFile PROVE MainAlone'
  BY <1>7 DEF Remount, EditFile, World
<1>8. CASE UNCHANGED vars
  BY <1>8 DEF vars
<1> QED  BY <1>1, <1>2, <1>3, <1>4, <1>5, <1>6, <1>7, <1>8 DEF Next

LEMMA ListRepairedNext == TypeInv /\ RaceInv /\ [Next]_vars => ListRepaired'
<1> SUFFICES ASSUME TypeInv, RaceInv, [Next]_vars PROVE ListRepaired'
  OBVIOUS
<1>0. /\ pc \in [Proc -> MainLabel \cup ScanLabel \cup DiscLabel]
      /\ clean \in [Proc -> BOOLEAN]
      /\ token \in BOOLEAN
      /\ LoopsAfterMain /\ ListRepaired /\ MainAlone
  BY DEF TypeInv, TypeOK, RaceInv
<1>1. ASSUME NEW p \in Proc, clean[p], idx[p] > NTargets PROVE acc[p] = Visible
  BY <1>1, WholeWalk DEF RaceInv
<1>2. mounted' = mounted => Visible' = Visible  BY DEF Visible
<1> USE <1>0, <1>2 DEF ListRepaired, SignalAhead, Loop, Proc, DiscoverLabel, Goto,
                       env, DiscoverVars
<1>3. ASSUME NEW p \in Proc, Discover(p) PROVE ListRepaired'
  <2>1. CASE VisitTarget(p)  BY <2>1 DEF VisitTarget
  <2>2. CASE InstallList(p)
    <3>0. /\ pc[p] = "walk" /\ idx[p] > NTargets /\ wl' = acc[p]
          /\ pc' = [pc EXCEPT ![p] = "count"] /\ clean' = clean
          /\ token' = token /\ Visible' = Visible
      BY <2>2 DEF InstallList
    <3>1. CASE p = "main"
      <4>1. pc["scan"] = "absent" /\ ~clean["scan"] /\ ~clean["disc"]
        BY <3>0, <3>1 DEF MainAlone, LoopsAfterMain
      <4> QED  BY <3>0, <3>1, <4>1, <1>1
    <3>2. CASE p = "scan"  BY <3>0, <3>2, <1>1
    <3>3. CASE p = "disc"  BY <3>0, <3>3
    <3> QED  BY <3>1, <3>2, <3>3
  <2>3. CASE StoreTotal(p)  BY <2>3 DEF StoreTotal, AfterDiscover
  <2> QED  BY <1>3, <2>1, <2>2, <2>3 DEF Discover
<1>4. ASSUME Main PROVE ListRepaired'
  <2>1. CASE Spawn  BY <2>1 DEF Spawn, LoopsAfterMain
  <2>2. CASE Signal  BY <2>2 DEF Signal
  <2>3. CASE StopReturns  BY <2>3 DEF StopReturns
  <2>4. CASE Shutdown  BY <2>4 DEF Shutdown
  <2> QED  BY <1>4, <2>1, <2>2, <2>3, <2>4 DEF Main
<1>5. ASSUME NEW p \in Loop, LoopStart(p) \/ LoopExit(p) PROVE ListRepaired'
  BY <1>5 DEF LoopStart, LoopExit, FirstLabel
<1>6. ASSUME ScanLoop PROVE ListRepaired'
  <2>1. CASE ScanTick  BY <2>1 DEF ScanTick
  <2>2. CASE ScanReload  BY <2>2 DEF ScanReload, BeginDiscover
  <2>3. CASE ScanBegin  BY <2>3 DEF ScanBegin
  <2>4. CASE ScanPublish  BY <2>4 DEF ScanPublish
  <2> QED  BY <1>6, <2>1, <2>2, <2>3, <2>4 DEF ScanLoop
<1>7. ASSUME DiscoveryLoop PROVE ListRepaired'
  <2>1. CASE DiscTick  BY <2>1 DEF DiscTick, BeginDiscover
  <2>2. CASE DiscSend  BY <2>2 DEF DiscSend
  <2> QED  BY <1>7, <2>1, <2>2 DEF DiscoveryLoop
<1>8. ASSUME NEW r \in Request, Handler(r) PROVE ListRepaired'
  BY <1>8 DEF Handler, RejectReload, CountReload, QueueReload, vars
<1>9. ASSUME Remount \/ EditFile PROVE ListRepaired'
  BY <1>9 DEF Remount, EditFile, World
<1>10. CASE UNCHANGED vars
  BY <1>10 DEF vars
<1> QED
  BY <1>3, <1>4, <1>5, <1>6, <1>7, <1>8, <1>9, <1>10 DEF Next

LEMMA TotalRepairedNext == TypeInv /\ RaceInv /\ [Next]_vars => TotalRepaired'
<1> SUFFICES ASSUME TypeInv, RaceInv, [Next]_vars PROVE TotalRepaired'
  OBVIOUS
<1>0. /\ pc \in [Proc -> MainLabel \cup ScanLabel \cup DiscLabel]
      /\ token \in BOOLEAN
      /\ acc \in [Proc -> SUBSET Target]
      /\ LoopsAfterMain /\ TotalRepaired /\ MainAlone
  BY DEF TypeInv, TypeOK, RaceInv
<1> USE <1>0 DEF TotalRepaired, SignalSoon, Loop, Proc, DiscoverLabel, Goto,
                 env, DiscoverVars
<1>1. ASSUME NEW p \in Proc, Discover(p) PROVE TotalRepaired'
  <2>1. CASE VisitTarget(p)  BY <2>1 DEF VisitTarget
  <2>2. CASE InstallList(p)
    <3>0. /\ pc[p] = "walk" /\ wl' = acc[p] /\ acc' = acc
          /\ pc' = [pc EXCEPT ![p] = "count"]
          /\ token' = token /\ watchedTotal' = watchedTotal
      BY <2>2 DEF InstallList
    <3>1. CASE p = "main"
      <4>1. pc["scan"] = "absent"  BY <3>0, <3>1 DEF LoopsAfterMain
      <4> QED  BY <3>0, <3>1, <4>1
    <3>2. CASE p = "scan"  BY <3>0, <3>2
    <3>3. CASE p = "disc"  BY <3>0, <3>3
    <3> QED  BY <3>1, <3>2, <3>3
  <2>3. CASE StoreTotal(p)
    <3>0. /\ pc[p] = "count" /\ wl' = wl /\ token' = token
          /\ watchedTotal' = Cardinality(acc[p])
          /\ pc' = [pc EXCEPT ![p] = AfterDiscover[p]]
          /\ acc' = [acc EXCEPT ![p] = {}]
      BY <2>3 DEF StoreTotal
    <3>1. CASE p = "main"
      <4>1. pc["scan"] = "absent" /\ wl = acc["main"]
        BY <3>0, <3>1 DEF LoopsAfterMain, MainAlone
      <4> QED  BY <3>0, <3>1, <4>1 DEF AfterDiscover
    <3>2. CASE p = "scan"
      <4>1. CASE acc["scan"] = wl  BY <3>0, <3>2, <4>1 DEF AfterDiscover
      <4>2. CASE acc["scan"] # wl  BY <3>0, <3>2, <4>2 DEF AfterDiscover
      <4> QED  BY <4>1, <4>2
    <3>3. CASE p = "disc"  BY <3>0, <3>3 DEF AfterDiscover
    <3> QED  BY <3>1, <3>2, <3>3
  <2> QED  BY <1>1, <2>1, <2>2, <2>3 DEF Discover
<1>2. ASSUME Main PROVE TotalRepaired'
  <2>1. CASE Spawn  BY <2>1 DEF Spawn, LoopsAfterMain
  <2>2. CASE Signal  BY <2>2 DEF Signal
  <2>3. CASE StopReturns  BY <2>3 DEF StopReturns
  <2>4. CASE Shutdown  BY <2>4 DEF Shutdown
  <2> QED  BY <1>2, <2>1, <2>2, <2>3, <2>4 DEF Main
<1>3. ASSUME NEW p \in Loop, LoopStart(p) \/ LoopExit(p) PROVE TotalRepaired'
  BY <1>3 DEF LoopStart, LoopExit, FirstLabel
<1>4. ASSUME ScanLoop PROVE TotalRepaired'
  <2>1. CASE ScanTick  BY <2>1 DEF ScanTick
  <2>2. CASE ScanReload  BY <2>2 DEF ScanReload, BeginDiscover
  <2>3. CASE ScanBegin  BY <2>3 DEF ScanBegin
  <2>4. CASE ScanPublish  BY <2>4 DEF ScanPublish
  <2> QED  BY <1>4, <2>1, <2>2, <2>3, <2>4 DEF ScanLoop
<1>5. ASSUME DiscoveryLoop PROVE TotalRepaired'
  <2>1. CASE DiscTick  BY <2>1 DEF DiscTick, BeginDiscover
  <2>2. CASE DiscSend  BY <2>2 DEF DiscSend
  <2> QED  BY <1>5, <2>1, <2>2 DEF DiscoveryLoop
<1>6. ASSUME NEW r \in Request, Handler(r) PROVE TotalRepaired'
  BY <1>6 DEF Handler, RejectReload, CountReload, QueueReload, vars
<1>7. ASSUME Remount \/ EditFile PROVE TotalRepaired'
  BY <1>7 DEF Remount, EditFile, World
<1>8. CASE UNCHANGED vars
  BY <1>8 DEF vars
<1> QED  BY <1>1, <1>2, <1>3, <1>4, <1>5, <1>6, <1>7, <1>8 DEF Next

LEMMA RaceCorrect == Spec => [](TypeInv /\ RaceInv)
<1>1. Init => TypeInv /\ RaceInv  BY TypeInit, RaceInit
<1>2. TypeInv /\ RaceInv /\ [Next]_vars => (TypeInv /\ RaceInv)'
  BY TypeNext, LoopsNext, WalkFaithfulNext, MainAloneNext, ListRepairedNext,
     TotalRepairedNext DEF TypeInv, RaceInv
<1> QED  BY <1>1, <1>2, PTL DEF Spec

\* However the walks of the three threads interleave, in quiet times the watch
\* list is what the disk shows (exporter.go:69,70 and the signal at :137).
THEOREM ListCurrentWhenQuiet == Spec => []QuietWatchListCurrent
<1>1. TypeInv /\ RaceInv => QuietWatchListCurrent
  BY DEF RaceInv, ListRepaired, SignalAhead, QuietWatchListCurrent, Quiet,
         DiscoverLabel
<1> QED  BY RaceCorrect, <1>1, PTL

\* And directory_watched_total is its length (exporter.go:70,71).
THEOREM TotalExactWhenQuiet == Spec => []QuietTotalExact
<1>1. TypeInv /\ RaceInv => QuietTotalExact
  BY DEF RaceInv, TotalRepaired, SignalSoon, QuietTotalExact, Quiet, DiscoverLabel
<1> QED  BY RaceCorrect, <1>1, PTL

-----------------------------------------------------------------------------
(***************************************************************************)
(* Reloads and Stop.                                                       *)
(***************************************************************************)

\* An accepted reload waits for its walk with a signal in the channel, also when
\* its own send found the channel full and was dropped (exporter.go:79-85).
THEOREM NoReloadIsLost == Spec => []NoLostReload
<1>1. Init => NoLostReload  BY DEF Init, NoLostReload
<1>2. TypeInv /\ NoLostReload /\ [Next]_vars => NoLostReload'
  <2> SUFFICES ASSUME TypeInv, NoLostReload, [Next]_vars PROVE NoLostReload'
    OBVIOUS
  <2>0. req \in [Request -> ReqState]  BY DEF TypeInv, TypeOK
  <2> USE <2>0 DEF NoLostReload
  <2>1. ASSUME NEW p \in Proc, Discover(p) PROVE NoLostReload'
    BY <2>1 DEF Discover, VisitTarget, InstallList, StoreTotal
  <2>2. ASSUME Main PROVE NoLostReload'
    BY <2>2 DEF Main, Spawn, Signal, StopReturns, Shutdown
  <2>3. ASSUME NEW p \in Loop, LoopStart(p) \/ LoopExit(p) PROVE NoLostReload'
    BY <2>3 DEF LoopStart, LoopExit
  <2>4. ASSUME ScanLoop PROVE NoLostReload'
    BY <2>4 DEF ScanLoop, ScanTick, ScanReload, ScanBegin, ScanPublish
  <2>5. ASSUME DiscoveryLoop PROVE NoLostReload'
    BY <2>5 DEF DiscoveryLoop, DiscTick, DiscSend
  <2>6. ASSUME NEW r \in Request, Handler(r) PROVE NoLostReload'
    BY <2>6 DEF Handler, RejectReload, CountReload, QueueReload, vars
  <2>7. ASSUME Remount \/ EditFile PROVE NoLostReload'
    BY <2>7 DEF Remount, EditFile, World
  <2>8. CASE UNCHANGED vars
    BY <2>8 DEF vars
  <2> QED  BY <2>1, <2>2, <2>3, <2>4, <2>5, <2>6, <2>7, <2>8 DEF Next
<1> QED  BY RaceCorrect, <1>1, <1>2, PTL DEF Spec

\* Stop does not return while a loop that has registered is at work (exporter.go:87-90).
THEOREM StopIsGraceful == Spec => StopWaitsForLoops
<1> DEFINE Drains == pc["main"] = "stopping" /\ pc'["main"] = "drained"
           Left == \A p \in Loop : pc[p] \in {"spawned", "exited"}
<1>1. TypeInv /\ [Next]_vars => (Drains => Left)
  <2> SUFFICES ASSUME TypeInv, [Next]_vars, Drains PROVE Left
    OBVIOUS
  <2>0. pc \in [Proc -> MainLabel \cup ScanLabel \cup DiscLabel]
    BY DEF TypeInv, TypeOK
  <2>1. wg = 0
    BY <2>0 DEF Next, Discover, VisitTarget, InstallList, StoreTotal, Main, Spawn,
       Signal, StopReturns, Shutdown, LoopStart, LoopExit, ScanLoop, ScanTick,
       ScanReload, ScanBegin, ScanPublish, DiscoveryLoop, DiscTick, DiscSend,
       Handler, RejectReload, CountReload, QueueReload, Remount, EditFile, World,
       Goto, Proc, Loop, AfterDiscover, FirstLabel, vars
  <2>2. ~Working("scan") /\ ~Working("disc")  BY <2>1 DEF TypeInv, WgExact
  <2>3. pc["scan"] # "absent" /\ pc["disc"] # "absent"
    BY DEF TypeInv, LoopsAfterMain, Loop, DiscoverLabel
  <2> QED  BY <2>2, <2>3 DEF Working, Loop
<1>2. TypeInv /\ [Next]_vars => [Drains => Left]_vars
  BY <1>1
<1> QED  BY RaceCorrect, <1>2, PTL DEF Spec, StopWaitsForLoops

=============================================================================
