--------------------------- MODULE PipelineProofs ---------------------------
(***************************************************************************)
(* Proofs about Pipeline: what LoadConfig accepts, for every integer in    *)
(* every layer; what is found of every tree, however it changes meanwhile; *)
(* and how a node is shown, for every configuration file of the node and   *)
(* every interleaving with its edits.                                      *)
(***************************************************************************)
EXTENDS Pipeline, DiscoveryProofs, NodeScanProofs

-----------------------------------------------------------------------------
(***************************************************************************)
(* Configuration                                                           *)
(***************************************************************************)
LEMMA SettingsUsable ==
    ASSUME NEW file, NEW env
    PROVE  /\ \A s \in Duration \cup {"scan_workers"} : Effective(s, file, env) \in Nat \ {0}
           /\ \A s \in Span : Effective(s, file, env) \in Nat
           /\ \A s \in Cap : Effective(s, file, env) \in Int
  <1> USE DEF Effective, EnvTakes, FileTakes, Positive, Duration, Span, Cap
  <1>0. Setting = {"scan_interval", "scan_timeout", "discovery_interval", "max_files_per_dir",
                   "max_stat_files", "min_delay", "trace_lookback_days", "scan_workers",
                   "MAX_DEPTH"}
    BY DEF Setting
  <1>1. /\ \A s \in Duration \cup {"scan_workers"} : Default[s] \in Nat \ {0}
        /\ \A s \in Span \cup Cap : Default[s] \in Nat
    BY <1>0 DEF Default
  <1>2. \A s \in Duration \cup {"scan_workers"} : Effective(s, file, env) \in Nat \ {0}
    BY <1>1
  <1>3. \A s \in Span : Effective(s, file, env) \in Nat
    BY <1>1
  <1>4. \A s \in Cap : Effective(s, file, env) \in Int
    BY <1>1
  <1> QED
    BY <1>2, <1>3, <1>4

LEMMA SaneDepth ==
    ASSUME NEW t, "depth" \in DOMAIN t
    PROVE  Sane(t).depth = 0 => Sane(t).pattern # <<>>
  BY DEF Sane

LEMMA LoadedList ==
    ASSUME NEW s \in Scenarios, LoadConfig(s.layers) # Refused
    PROVE  /\ LoadedTargets(s.layers) \in Seq(Range(LoadedTargets(s.layers)))
           /\ \A i \in DOMAIN LoadedTargets(s.layers) : "depth" \in DOMAIN LoadedTargets(s.layers)[i]
  <1> DEFINE l == s.layers
             list == LoadedTargets(l)
  <1>1. list # <<>>
    BY DEF LoadConfig
  <1>2. CASE l.file.targets # <<>>
    BY <1>2, ScenariosAssumption DEF LoadedTargets
  <1>3. CASE l.file.targets = <<>>
    <2>1. PICK d : list = <<[BaseTarget EXCEPT !.depth = d]>>
      BY <1>1, <1>3 DEF LoadedTargets
    <2> HIDE DEF list
    <2>2. list \in Seq(Range(list)) /\ \A i \in DOMAIN list : "depth" \in DOMAIN list[i]
      BY <2>1, LayersAssumption DEF Range
    <2> QED
      BY <2>2 DEF list
  <1> QED
    BY <1>2, <1>3

LEMMA LoadedUsable ==
    ASSUME NEW s \in Scenarios, LoadConfig(s.layers) # Refused
    PROVE  Usable(LoadConfig(s.layers))
  <1> DEFINE l == s.layers
             list == LoadedTargets(l)
             c == LoadConfig(l)
  <1>1. /\ list # <<>>
        /\ c = [setting |-> [x \in Setting |-> Effective(x, l.file.setting, l.env.setting)],
                targets |-> [i \in DOMAIN list |-> Sane(list[i])],
                secret |-> Secret(l),
                tracelog_dir |-> TracelogDir(l)]
    BY DEF LoadConfig
  <1>2. /\ \A x \in Duration \cup {"scan_workers"} : c.setting[x] \in Nat \ {0}
        /\ \A x \in Span : c.setting[x] \in Nat
        /\ \A x \in Cap : c.setting[x] \in Int
    <2>1. Duration \cup {"scan_workers"} \cup Span \cup Cap \subseteq Setting
      BY DEF Setting
    <2>2. \A x \in Setting : c.setting[x] = Effective(x, l.file.setting, l.env.setting)
      BY <1>1
    <2> HIDE DEF c
    <2> QED
      BY <2>1, <2>2, SettingsUsable
  <1>3. c.secret # Unset
    BY <1>1, LayersAssumption DEF Secret, Over
  <1>4. list \in Seq(Range(list)) /\ \A i \in DOMAIN list : "depth" \in DOMAIN list[i]
    BY LoadedList
  <1>5. c.targets # <<>>
    <2>1. DOMAIN c.targets = DOMAIN list
      BY <1>1
    <2>2. DOMAIN list # {}
      <3> HIDE DEF list
      <3> QED
        BY <1>1, <1>4
    <2> HIDE DEF c, list
    <2> QED
      BY <2>1, <2>2
  <1>6. \A i \in DOMAIN c.targets : c.targets[i].depth = 0 => c.targets[i].pattern # <<>>
    <2>1. DOMAIN c.targets = DOMAIN list /\ \A i \in DOMAIN list : c.targets[i] = Sane(list[i])
      BY <1>1
    <2> HIDE DEF c, list
    <2> QED
      BY <1>4, <2>1, SaneDepth
  <1>7. Usable(c)
    <2> HIDE DEF c, list
    <2> QED
      BY <1>2, <1>3, <1>5, <1>6 DEF Usable
  <1> QED
    BY <1>7

\* Whatever integers the file and the environment hold, the configuration that the
\* program runs with is usable; so ScanCycle's assumption of a worker is justified.
THEOREM AcceptedUsable == Spec => []ConfigUsable
  <1>1. Init => ConfigUsable
    BY LoadedUsable DEF Init, ConfigUsable
  <1>2. ConfigUsable /\ [Next]_vars => ConfigUsable'
    BY DEF ConfigUsable, Next, ChangeTree, Discovering, ChangeFiles, ScanNode, vars, Usable
  <1> QED
    BY <1>1, <1>2, PTL DEF Spec

-----------------------------------------------------------------------------
(***************************************************************************)
(* How a node is shown                                                     *)
(***************************************************************************)
Kind == {"none", "collector", "distributor"}

\* A node is given to the readers of a distributor's traces and of a collector's source
\* directories only on what its name or its files once said.
KindInv ==
    /\ hint \in Kind /\ kind \in Kind /\ Contents \in versions
    /\ npc \in {"detect", "fallback"} => activity = Unknown
    /\ npc \notin {"count", "done"} => backlog = Unknown
    /\ npc = "fallback" => NoTypeSeen
    /\ npc \notin {"detect", "fallback"} /\ kind = "none" => hint = "none" /\ NoTypeSeen
    /\ npc \in {"day", "open", "read"} \/ "distributor" \in ShownActivity =>
           kind # "collector" /\ (kind = "none" => NoAuditSeen)
    /\ npc \in {"redetect", "refallback", "count"} \/ backlog # Unknown => MayCollect
    /\ (npc = "count" \/ backlog # Unknown) /\ kind = "none" => CollectorSeen

LEMMA DetectKinds == (\A file : DetectedIn(file) \in Kind) /\ (hint \in Kind => Guess \in Kind)
  BY DEF DetectedIn, Guess, Kind

LEMMA KindInit == Init => KindInv
  <1> SUFFICES ASSUME Init PROVE KindInv
    OBVIOUS
  <1>1. hint \in Kind
    BY ScenariosAssumption DEF Init, StartNode, IsNode, Kind
  <1>2. /\ npc = "detect" /\ kind = "none" /\ versions = {Contents}
        /\ activity = Unknown /\ backlog = Unknown
    BY DEF Init, StartNode
  <1> QED
    BY <1>1, <1>2 DEF KindInv, Kind, ShownActivity

\* What was seen stays seen, and what there is now is seen.
LEMMA SeenStays ==
    ASSUME versions \subseteq versions'
    PROVE  /\ NoTypeSeen => NoTypeSeen'
           /\ NoAuditSeen => NoAuditSeen'
           /\ CollectorSeen => CollectorSeen'
  BY DEF NoTypeSeen, NoAuditSeen, CollectorSeen

LEMMA NowSeen ==
    ASSUME Contents \in versions
    PROVE  /\ DetectedIn(config) = "none" => NoTypeSeen
           /\ audit = Unknown => NoAuditSeen
           /\ IsCollector(DeclaredIn(config)) \/ DetectedIn(config) = "collector" \/ audit # Unknown
                  => CollectorSeen
  <1>1. Contents.config = config /\ Contents.audit = audit
    BY DEF Contents
  <1>2. DetectedIn(config) = "none" => NoTypeSeen
    BY <1>1 DEF NoTypeSeen
  <1>3. audit = Unknown => NoAuditSeen
    BY <1>1 DEF NoAuditSeen
  <1>4. IsCollector(DeclaredIn(config)) \/ DetectedIn(config) = "collector" \/ audit # Unknown
            => CollectorSeen
    BY <1>1 DEF CollectorSeen
  <1> QED
    BY <1>2, <1>3, <1>4

\* The node's own steps keep its files, so what there is was seen already.
LEMMA FilesSeen ==
    ASSUME KindInv, Files
    PROVE  /\ UNCHANGED <<hint, npc, kind, activity, backlog>>
           /\ Contents' \in versions'
           /\ npc # "detect" => versions \subseteq versions'
  <1>1. CASE WriteEntry \/ Rotate
    BY <1>1 DEF WriteEntry, Rotate, Environment, KindInv, Contents
  <1>2. CASE Edit
    <2>1. Environment /\ versions' = (IF npc = "detect" THEN {} ELSE versions) \cup {Contents'}
      BY <1>2 DEF Edit
    <2> QED
      BY <2>1 DEF Environment
  <1> QED
    BY <1>1, <1>2 DEF Files

LEMMA FilesStep ==
    ASSUME KindInv, Files
    PROVE  KindInv'
  <1>1. /\ UNCHANGED <<hint, npc, kind, activity, backlog>>
        /\ Contents' \in versions'
        /\ npc # "detect" => versions \subseteq versions'
    BY FilesSeen
  <1>2. CASE npc # "detect"
    <2>1. /\ NoTypeSeen => NoTypeSeen'
          /\ NoAuditSeen => NoAuditSeen'
          /\ CollectorSeen => CollectorSeen'
      BY <1>1, <1>2, SeenStays
    <2> QED
      BY <1>1, <2>1 DEF KindInv, ShownActivity, MayCollect
  <1>3. CASE npc = "detect"
    BY <1>1, <1>3 DEF KindInv, ShownActivity, MayCollect
  <1> QED
    BY <1>2, <1>3

LEMMA StepsStep ==
    ASSUME KindInv, Steps
    PROVE  KindInv'
  <1>0. UNCHANGED <<config, audit, hint, versions>>
    BY StepsKeepFiles
  <1>1. /\ Contents' = Contents
        /\ NoTypeSeen' = NoTypeSeen /\ NoAuditSeen' = NoAuditSeen /\ CollectorSeen' = CollectorSeen
    BY <1>0 DEF Contents, NoTypeSeen, NoAuditSeen, CollectorSeen
  <1>a. /\ DetectedIn(config) = "none" => NoTypeSeen
        /\ audit = Unknown => NoAuditSeen
        /\ IsCollector(DeclaredIn(config)) \/ DetectedIn(config) = "collector" \/ audit # Unknown
               => CollectorSeen
    BY NowSeen DEF KindInv
  <1> USE DEF KindInv, ShownActivity, MayCollect
  <1>2. CASE Detect
    <2>1. /\ npc = "detect" /\ kind' = DetectedIn(config) /\ kind' \in Kind
          /\ npc' = IF kind' = "none" THEN "fallback" ELSE "activity"
          /\ UNCHANGED <<activity, backlog>>
      BY <1>2, DetectKinds DEF Detect
    <2> QED
      BY <1>0, <1>1, <1>a, <2>1
  <1>3. CASE Fallback
    <2>1. /\ npc = "fallback" /\ kind' = Guess /\ kind' \in Kind /\ npc' = "activity"
          /\ UNCHANGED <<activity, backlog>>
      BY <1>3, DetectKinds DEF Fallback
    <2>2. kind' = "none" => hint = "none"
      BY <2>1 DEF Guess
    <2> QED
      BY <1>0, <1>1, <2>1, <2>2
  <1>4. CASE StatAudit
    <2>1. npc = "activity" /\ npc' = "audit" /\ UNCHANGED <<kind, activity, backlog>>
      BY <1>4 DEF StatAudit
    <2> QED
      BY <1>0, <1>1, <2>1
  <1>5. CASE ReadAudit
    <2>1. npc \in {"activity", "audit"} /\ npc' = "buffer" /\ UNCHANGED <<kind, backlog>>
      BY <1>5 DEF ReadAudit
    <2>2. "distributor" \notin ShownActivity'
      BY <1>5 DEF ReadAudit, Activity
    <2> QED
      BY <1>0, <1>1, <2>1, <2>2
  <1>6. CASE StartTrace
    <2>1. /\ npc = "activity" /\ npc' = "day" /\ UNCHANGED <<kind, activity, backlog>>
          /\ kind = "distributor" \/ (kind = "none" /\ audit = Unknown)
      BY <1>6 DEF StartTrace, bufferScan
    <2>2. kind # "collector" /\ (kind = "none" => NoAuditSeen)
      BY <1>a, <2>1
    <2> QED
      BY <1>0, <1>1, <2>1, <2>2
  <1>7. CASE OpenDay \/ NextDay \/ OpenPart \/ ReadLine
    <2>1. /\ npc \in {"day", "open", "read"} /\ npc' \in {"day", "open", "read", "buffer"}
          /\ UNCHANGED <<kind, activity, backlog>>
      BY <1>7 DEF OpenDay, NextDay, OpenPart, ReadLine, AtLine
    <2> QED
      BY <1>0, <1>1, <2>1
  <1>8. CASE ClosePart
    <2>1. npc = "read" /\ npc' \in {"open", "buffer"} /\ UNCHANGED <<kind, backlog>>
      BY <1>8 DEF ClosePart
    <2> QED
      BY <1>0, <1>1, <2>1
  <1>9. CASE ResolveConfig
    <2>1. /\ npc = "buffer" /\ npc' \in {"redetect", "count", "done"}
          /\ UNCHANGED <<kind, activity, backlog>>
      BY <1>9 DEF ResolveConfig
    <2>2. npc' \in {"redetect", "count"} => MayCollect
      BY <1>9 DEF ResolveConfig
    <2>3. npc' = "count" /\ kind = "none" => IsCollector(DeclaredIn(config))
      BY <1>9 DEF ResolveConfig, IsCollector
    <2> QED
      BY <1>0, <1>1, <1>a, <2>1, <2>2, <2>3
  <1>10. CASE Redetect \/ Refallback
    <2>1. /\ npc \in {"redetect", "refallback"} /\ npc' \in {"refallback", "count", "done"}
          /\ UNCHANGED <<kind, activity, backlog>>
      BY <1>10 DEF Redetect, Refallback
    <2>2. npc' = "count" /\ kind = "none" => CollectorSeen
      <3>1. CASE Redetect
        BY <1>a, <3>1 DEF Redetect
      <3>2. CASE Refallback
        <4>1. npc = "refallback" /\ MayCollect /\ (npc' = "count" => Guess = "collector")
          BY <3>2 DEF Refallback
        <4> QED
          BY <1>a, <4>1 DEF Guess
      <3> QED
        BY <1>10, <3>1, <3>2
    <2> QED
      BY <1>0, <1>1, <2>1, <2>2
  <1>11. CASE CountPath
    <2>1. npc = "count" /\ UNCHANGED <<npc, kind, activity, backlog>>
      BY <1>11 DEF CountPath
    <2> QED
      BY <1>0, <1>1, <2>1
  <1>12. CASE RecordBacklog
    <2>1. npc = "count" /\ npc' = "done" /\ UNCHANGED <<kind, activity>>
      BY <1>12 DEF RecordBacklog
    <2> QED
      BY <1>0, <1>1, <2>1
  <1> QED
    BY <1>2, <1>3, <1>4, <1>5, <1>6, <1>7, <1>8, <1>9, <1>10, <1>11, <1>12 DEF Steps

LEMMA KindStep == KindInv /\ [Next]_vars => KindInv'
  <1> SUFFICES ASSUME KindInv, [Next]_vars PROVE KindInv'
    OBVIOUS
  <1>1. CASE Files
    BY <1>1, FilesStep
  <1>2. CASE Steps
    BY <1>2, StepsStep
  <1>3. CASE UNCHANGED nodeVars
    BY <1>3 DEF nodeVars, files, KindInv, ShownActivity, MayCollect, Contents, NoTypeSeen,
                NoAuditSeen, CollectorSeen
  <1> QED
    BY <1>1, <1>2, <1>3 DEF Next, vars, ChangeTree, Discovering, ChangeFiles, ScanNode

LEMMA KindInvDisjoint == KindInv => KindsDisjoint
  <1> SUFFICES ASSUME KindInv, "distributor" \in ShownActivity, "buffer" \in ShownBacklog
               PROVE  hint = "none" /\ NoTypeSeen /\ NoAuditSeen /\ CollectorSeen
    BY DEF KindsDisjoint, Shown, ShownBacklog, ShownActivity
  <1>1. kind # "collector" /\ backlog # Unknown /\ activity # Unknown
    BY DEF KindInv, ShownActivity, ShownBacklog
  <1>2. kind = "none"
    BY <1>1 DEF KindInv, MayCollect, IsCollector, Kind
  <1> QED
    BY <1>1, <1>2 DEF KindInv

\* However the node's config and audit_info are edited between the looks of the two
\* readers, a node shown as a distributor with a collector's backlog is one about which
\* nothing was sure (KindsDisjoint says what that means).
THEOREM NodeKindsDisjoint == Spec => []KindsDisjoint
  BY KindInit, KindStep, KindInvDisjoint, PTL DEF Spec

-----------------------------------------------------------------------------
(***************************************************************************)
(* The node's files and what is found in them                              *)
(***************************************************************************)
LEMMA NodeInit == Init => NodeInv /\ SearchInv
  <1> SUFFICES ASSUME NEW s \in Scenarios, cfg = LoadConfig(s.layers),
                      StartNode(s.node, IF cfg = Refused THEN [lookback |-> 0, minDelay |-> 0]
                                        ELSE NodeSettings(cfg))
               PROVE  NodeInv /\ SearchInv
    BY DEF Init
  <1> DEFINE set == IF cfg = Refused THEN [lookback |-> 0, minDelay |-> 0] ELSE NodeSettings(cfg)
  <1>1. IsNode(s.node)
    BY ScenariosAssumption
  <1>2. set.lookback \in Nat /\ set.minDelay \in Nat
    <2>1. CASE cfg = Refused
      BY <2>1
    <2>2. CASE cfg # Refused
      <3>1. cfg.setting["trace_lookback_days"] \in Nat /\ cfg.setting["min_delay"] \in Nat
        BY <2>2, LoadedUsable DEF Usable, Span
      <3> QED
        BY <2>2, <3>1 DEF NodeSettings
    <2> QED
      BY <2>1, <2>2
  <1> HIDE DEF set
  <1>3. StartNode(s.node, set)
    BY DEF set
  <1> QED
    BY <1>1, <1>2, <1>3, NodeStarts

\* Part and trace stay with nodeVars.
LEMMA NodeFrame ==
    ASSUME NodeInv, SearchInv, UNCHANGED nodeVars
    PROVE  NodeInv' /\ SearchInv'
  <1> USE DEF nodeVars, files, traceScan, bufferScan
  <1>1. FilesInv'
    BY DEF NodeInv, FilesInv
  <1>2. Part' = Part /\ Parts(day)' = Parts(day)
    BY DEF Part, Parts
  <1>3. NodeInv'
    BY <1>1, <1>2 DEF NodeInv, NodeTypeOK
  <1>4. Ahead' = Ahead /\ NamesInAgeOrder' = NamesInAgeOrder
    BY DEF Ahead, NamesInAgeOrder
  <1>5. LatestInv'
    BY <1>2 DEF SearchInv, LatestInv
  <1>6. LatestReported'
    BY <1>4 DEF SearchInv, LatestReported, Delay
  <1> QED
    BY <1>3, <1>4, <1>5, <1>6 DEF SearchInv

LEMMA NodeStep == NodeInv /\ SearchInv /\ [Next]_vars => NodeInv' /\ SearchInv'
  <1> SUFFICES ASSUME NodeInv, SearchInv, [Next]_vars PROVE NodeInv' /\ SearchInv'
    OBVIOUS
  <1>1. CASE Files
    BY <1>1, FilesNode, FilesSearch
  <1>2. CASE Steps
    BY <1>2, StepsNode, StepsSearch
  <1>3. CASE UNCHANGED nodeVars
    BY <1>3, NodeFrame
  <1> QED
    BY <1>1, <1>2, <1>3 DEF Next, vars, ChangeTree, Discovering, ChangeFiles, ScanNode

\* However many files a node has, whatever is appended to them and started while they
\* are read, and whichever cannot be read: the activity reported of a distributor is an
\* entry that is there, and not an outdated one (LatestReported says how old it may be).
THEOREM LatestIsReported == Spec => []LatestReported
  <1>1. NodeInv /\ SearchInv => LatestReported
    BY DEF SearchInv
  <1> QED
    BY <1>1, NodeInit, NodeStep, PTL DEF Spec

-----------------------------------------------------------------------------
(***************************************************************************)
(* A node with one type                                                    *)
(***************************************************************************)
\* While config says one type, discovery finds it and nobody asks again.
ShownInv ==
    /\ activity # Unknown => activity.type \in {"collector", "distributor"}
    /\ "collector" \in ShownActivity => kind # "distributor"
    /\ npc = "audit" => kind = "none"
    /\ \A v \in versions : v.config \in Seq(Range(v.config))
    /\ \A word \in {"collector", "distributor"} : npc # "detect" /\ Throughout(word) =>
           kind = word /\ npc \notin {"fallback", "redetect", "refallback"}
    /\ npc = "done" /\ Throughout("collector") => backlog # Unknown

LEMMA DeclaredReaders ==
    ASSUME NEW file, file \in Seq(Range(file)),
           NEW word \in {"collector", "distributor"}, Declares(word, file)
    PROVE  DetectedIn(file) = word /\ DeclaredIn(file) \in {"none", word}
  <1>1. DOMAIN file = 1..Len(file) /\ Len(file) \in Nat
    BY SeqFacts
  <1>2. RawTypes(file) # {} /\ file[Min(RawTypes(file))].value = word
    <2>1. RawTypes(file) # {} /\ RawTypes(file) \subseteq Nat
      BY <1>1 DEF Declares, RawTypes
    <2>2. Min(RawTypes(file)) \in RawTypes(file)
      BY <2>1, MinIsLeast
    <2> QED
      BY <2>1, <2>2 DEF RawTypes, Declares
  <1>3. LiveTypes(file) # {} => DeclaredIn(file) = word
    <2> SUFFICES ASSUME LiveTypes(file) # {} PROVE DeclaredIn(file) = word
      OBVIOUS
    <2>1. LiveTypes(file) \subseteq 0..Len(file)
      BY <1>1 DEF LiveTypes
    <2>2. Max(LiveTypes(file)) \in LiveTypes(file)
      BY <1>1, <2>1, MaxIsGreatest
    <2> QED
      BY <2>2 DEF DeclaredIn, LiveTypes, Declares
  <1> QED
    BY <1>2, <1>3 DEF DetectedIn, DeclaredIn, SaysCol, SaysDis

\* What both readers make of the config now, if it declared one type all the time.
LEMMA DeclaredNow ==
    ASSUME KindInv, ShownInv, NEW word \in {"collector", "distributor"}, Throughout(word)
    PROVE  DetectedIn(config) = word /\ DeclaredIn(config) \in {"none", word}
  <1>1. Contents \in versions /\ Contents.config = config
    BY DEF KindInv, Contents
  <1>2. config \in Seq(Range(config)) /\ Declares(word, config)
    <2>1. \A v \in versions : v.config \in Seq(Range(v.config)) /\ Declares(word, v.config)
      BY DEF ShownInv, Throughout
    <2> QED
      BY <1>1, <2>1
  <1> QED
    BY <1>2, DeclaredReaders

LEMMA ShownInit == Init => ShownInv
  <1> SUFFICES ASSUME Init PROVE ShownInv
    OBVIOUS
  <1>1. npc = "detect" /\ activity = Unknown /\ versions = {Contents}
    BY DEF Init, StartNode
  <1>2. config \in Seq(Range(config)) /\ Contents.config = config
    BY ScenariosAssumption DEF Init, StartNode, IsNode, Contents
  <1> QED
    BY <1>1, <1>2 DEF ShownInv, ShownActivity

LEMMA ShownFiles ==
    ASSUME NodeInv, KindInv, ShownInv, Files
    PROVE  ShownInv'
  <1>1. /\ UNCHANGED <<hint, npc, kind, activity, backlog>>
        /\ Contents' \in versions'
        /\ npc # "detect" => versions \subseteq versions'
    BY FilesSeen
  <1>2. npc # "done" /\ versions' \subseteq versions \cup {Contents'}
    BY DEF Files, WriteEntry, Rotate, Edit, Environment
  <1>3. Contents'.config = config' /\ config' \in Seq(Range(config'))
    <2>1. FilesInv'
      BY FilesKeep DEF NodeInv
    <2> QED
      BY <2>1 DEF FilesInv, Contents
  <1>4. \A v \in versions' : v.config \in Seq(Range(v.config))
    BY <1>2, <1>3 DEF ShownInv
  <1>5. ASSUME NEW word, npc # "detect", Throughout(word)' PROVE Throughout(word)
    BY <1>1, <1>5 DEF Throughout
  <1> QED
    BY <1>1, <1>2, <1>4, <1>5 DEF ShownInv, ShownActivity

LEMMA ShownSteps ==
    ASSUME NodeInv, KindInv, ShownInv, Steps
    PROVE  ShownInv'
  <1>1. UNCHANGED <<config, audit, hint, versions>>
    BY StepsKeepFiles
  <1>2. \A word : Throughout(word)' = Throughout(word)
    BY <1>1 DEF Throughout
  <1>3. \A word \in {"collector", "distributor"} : Throughout(word) =>
            DetectedIn(config) = word /\ DeclaredIn(config) \in {"none", word}
    BY DeclaredNow
  <1> USE DEF ShownInv, ShownActivity
  <1>4. CASE Detect
    <2>1. /\ npc = "detect" /\ kind' = DetectedIn(config)
          /\ npc' = IF kind' = "none" THEN "fallback" ELSE "activity"
          /\ UNCHANGED <<activity, backlog>>
      BY <1>4 DEF Detect
    <2>2. activity' = Unknown
      BY <2>1 DEF KindInv
    <2> QED
      BY <1>1, <1>2, <1>3, <2>1, <2>2
  <1>5. CASE Fallback
    <2>1. npc = "fallback" /\ npc' = "activity" /\ activity' = activity /\ activity = Unknown
      BY <1>5 DEF Fallback, KindInv
    <2> QED
      BY <1>1, <1>2, <2>1
  <1>6. CASE ReadAudit
    <2>1. npc \in {"activity", "audit"} /\ npc' = "buffer" /\ kind' = kind
      BY <1>6 DEF ReadAudit
    <2>2. activity' # Unknown => activity'.type = "collector"
      BY <1>6 DEF ReadAudit, Activity
    <2>3. kind # "distributor"
      BY <1>6 DEF ReadAudit
    <2> QED
      BY <1>1, <1>2, <2>1, <2>2, <2>3
  <1>a. CASE StatAudit
    <2>1. /\ npc = "activity" /\ npc' = "audit" /\ kind = "none" /\ kind' = kind
          /\ activity' = activity
      BY <1>a DEF StatAudit
    <2> QED
      BY <1>1, <1>2, <2>1
  <1>7. CASE StartTrace \/ OpenDay \/ NextDay \/ OpenPart \/ ReadLine \/ CountPath
    <2>1. /\ npc \in {"activity", "day", "open", "read", "count"}
          /\ npc' \in {"day", "open", "read", "buffer", "count"}
      <3>1. CASE StartTrace \/ OpenDay \/ NextDay
        BY <3>1 DEF StartTrace, OpenDay, NextDay
      <3>2. CASE OpenPart
        BY <3>2 DEF OpenPart
      <3>3. CASE ReadLine \/ CountPath
        BY <3>3 DEF ReadLine, AtLine, CountPath
      <3> QED
        BY <1>7, <3>1, <3>2, <3>3
    <2>2. UNCHANGED <<kind, activity>>
      BY <1>7 DEF StartTrace, OpenDay, NextDay, OpenPart, ReadLine, CountPath
    <2> QED
      BY <1>1, <1>2, <2>1, <2>2
  <1>8. CASE ClosePart
    <2>1. npc = "read" /\ npc' \in {"open", "buffer"} /\ kind' = kind
      BY <1>8 DEF ClosePart
    <2>2. activity' = activity \/ activity'.type = "distributor"
      BY <1>8 DEF ClosePart, Activity
    <2> QED
      BY <1>1, <1>2, <2>1, <2>2
  <1>9. CASE ResolveConfig
    <2>1. /\ npc = "buffer" /\ npc' \in {"redetect", "count", "done"}
          /\ UNCHANGED <<kind, activity, backlog>>
      BY <1>9 DEF ResolveConfig
    <2>2. Throughout("collector") => npc' = "count"
      <3> SUFFICES ASSUME Throughout("collector") PROVE npc' = "count"
        OBVIOUS
      <3>1. kind = "collector" /\ DeclaredIn(config) \in {"none", "collector"}
        BY <1>3, <2>1
      <3> QED
        BY <1>9, <3>1 DEF ResolveConfig, MayCollect, IsCollector
    <2>3. Throughout("distributor") => npc' # "redetect"
      <3> SUFFICES ASSUME Throughout("distributor") PROVE npc' # "redetect"
        OBVIOUS
      <3>1. kind = "distributor"
        BY <2>1
      <3> QED
        BY <1>9, <3>1 DEF ResolveConfig, MayCollect, IsCollector
    <2> QED
      BY <1>1, <1>2, <2>1, <2>2, <2>3
  <1>10. CASE Redetect \/ Refallback
    <2>1. /\ npc \in {"redetect", "refallback"} /\ npc' \in {"refallback", "count", "done"}
          /\ UNCHANGED <<kind, activity, backlog>>
      BY <1>10 DEF Redetect, Refallback
    <2> QED
      BY <1>1, <1>2, <2>1
  <1>11. CASE RecordBacklog
    <2>1. npc = "count" /\ npc' = "done" /\ UNCHANGED <<kind, activity>>
      BY <1>11 DEF RecordBacklog
    <2>2. backlog' # Unknown
      <3>1. backlog' \in [counted : Nat, success : BOOLEAN]
        <4>1. (okAll /\ counted > 0) \in BOOLEAN
          BY Zenon
        <4>2. counted \in Nat
          BY DEF NodeInv, NodeTypeOK
        <4> QED
          BY <1>11, <4>1, <4>2, Zenon DEF RecordBacklog
      <3> QED
        BY <3>1, UnknownAssumption
    <2> QED
      BY <1>1, <1>2, <2>1, <2>2
  <1> QED
    BY <1>4, <1>5, <1>6, <1>a, <1>7, <1>8, <1>9, <1>10, <1>11 DEF Steps

LEMMA ShownStep ==
    ASSUME NodeInv, KindInv, ShownInv, [Next]_vars
    PROVE  ShownInv'
  <1>1. CASE Files
    BY <1>1, ShownFiles
  <1>2. CASE Steps
    BY <1>2, ShownSteps
  <1>3. CASE UNCHANGED nodeVars
    BY <1>3 DEF nodeVars, files, Throughout, ShownInv, ShownActivity
  <1> QED
    BY <1>1, <1>2, <1>3 DEF Next, vars, ChangeTree, Discovering, ChangeFiles, ScanNode

LEMMA ShownInvDeclared == KindInv /\ ShownInv => ShownAsDeclared
  <1> SUFFICES ASSUME KindInv, ShownInv, npc = "done"
               PROVE  /\ Throughout("collector") => Shown \subseteq {"collector", "buffer"} /\ "buffer" \in Shown
                      /\ Throughout("distributor") => Shown \subseteq {"distributor"}
    BY DEF ShownAsDeclared
  <1>1. ASSUME Throughout("collector")
        PROVE  Shown \subseteq {"collector", "buffer"} /\ "buffer" \in Shown
    <2>1. kind = "collector"
      BY <1>1 DEF ShownInv
    <2> QED
      BY <1>1, <2>1 DEF KindInv, ShownInv, Shown, ShownActivity, ShownBacklog
  <1>2. ASSUME Throughout("distributor")
        PROVE  Shown \subseteq {"distributor"}
    <2>1. kind = "distributor"
      BY <1>2 DEF ShownInv
    <2>2. backlog = Unknown
      BY <2>1 DEF KindInv, MayCollect, IsCollector
    <2> QED
      BY <2>1, <2>2 DEF ShownInv, Shown, ShownActivity, ShownBacklog
  <1> QED
    BY <1>1, <1>2

\* A node whose config says one type throughout, however config and audit_info are edited
\* meanwhile, is shown as that type and nothing else, and a collector always has its backlog.
THEOREM NodeShownAsDeclared == Spec => []ShownAsDeclared
  BY KindInit, KindStep, NodeInit, NodeStep, ShownInit, ShownStep, ShownInvDeclared, PTL DEF Spec

-----------------------------------------------------------------------------
(***************************************************************************)
(* What is found of a tree                                                 *)
(***************************************************************************)
\* Discovery starts on a tree and on targets, and on targets there are if it runs.
LEMMA DiscoveryInit == Init => DiscoveryInv /\ (Running => targets # <<>>)
  <1> SUFFICES ASSUME NEW s \in Scenarios, cfg = LoadConfig(s.layers),
                      StartDiscovery(s.tree, IF cfg = Refused THEN <<>> ELSE cfg.targets)
               PROVE  DiscoveryInv /\ (cfg # Refused => targets # <<>>)
    BY DEF Init, Running
  <1> DEFINE ts == IF cfg = Refused THEN <<>> ELSE cfg.targets
  <1>1. IsTree(s.tree)
    BY ScenariosAssumption
  <1>2. ts \in Seq(Range(ts)) /\ \A i \in DOMAIN ts : IsTarget(ts[i])
    <2>1. CASE cfg = Refused
      <3>1. ts = <<>>
        BY <2>1
      <3> HIDE DEF ts
      <3> QED
        BY <3>1
    <2>2. CASE cfg # Refused
      <3> DEFINE list == LoadedTargets(s.layers)
      <3>1. ts = [i \in DOMAIN list |-> Sane(list[i])]
        BY <2>2 DEF LoadConfig
      <3>2. \A i \in DOMAIN ts : IsTarget(ts[i])
        BY <2>2, ScenariosAssumption
      <3>3. list \in Seq(Range(list))
        BY <2>2, LoadedList
      <3> HIDE DEF ts, list
      <3>4. DOMAIN list = 1..Len(list) /\ Len(list) \in Nat
        BY <3>3, SeqFacts
      <3>5. ts \in Seq(Range(ts))
        BY <3>1, <3>4 DEF Range
      <3> QED
        BY <3>2, <3>5
    <2> QED
      BY <2>1, <2>2
  <1>3. cfg # Refused => ts # <<>>
    BY LoadedUsable DEF Usable
  <1> HIDE DEF ts
  <1>4. StartDiscovery(s.tree, ts)
    BY DEF ts
  <1>5. DiscoveryInv
    BY <1>1, <1>2, <1>4, DiscoveryStarts
  <1> QED
    BY <1>3, <1>4, <1>5 DEF StartDiscovery

LEMMA DiscoveryNext ==
    DiscoveryInv /\ (Running => targets # <<>>) /\ [Next]_vars
        => DiscoveryInv' /\ (Running => targets # <<>>)'
  <1> SUFFICES ASSUME DiscoveryInv, Running => targets # <<>>, [Next]_vars
               PROVE  DiscoveryInv' /\ (Running => targets # <<>>)'
    OBVIOUS
  <1>1. /\ Change \/ Discover \/ UNCHANGED discoveryVars
        /\ ~Running => UNCHANGED discoveryVars
        /\ UNCHANGED cfg
    BY DEF Next, vars, ChangeTree, Discovering, ChangeFiles, ScanNode, Scanning
  <1>2. UNCHANGED targets
    <2>1. CASE Change
      BY <2>1 DEF Change
    <2>2. CASE Discover
      BY <2>2, DiscoverIsProgram DEF Program
    <2>3. CASE UNCHANGED discoveryVars
      BY <2>3 DEF discoveryVars
    <2> QED
      BY <1>1, <2>1, <2>2, <2>3
  <1>3. DiscoveryInv'
    <2>1. CASE Running
      BY <1>1, <2>1, DiscoveryStep
    <2>2. CASE ~Running
      BY <1>1, <2>2, DiscoveryStep
    <2> QED
      BY <2>1, <2>2
  <1> QED
    BY <1>1, <1>2, <1>3 DEF Running

LEMMA DiscoveryAlways == Spec => []DiscoveryInv
  BY DiscoveryInit, DiscoveryNext, PTL DEF Spec

\* The directories of the calls on the stack and no other; Nowhere is one that vanished
\* before EvalSymlinks, which is walked without being remembered.
GuardExact ==
    /\ ancestors = {stack[i].real : i \in DOMAIN stack} \ {Nowhere}
    /\ \A i, j \in DOMAIN stack :
           i # j /\ stack[i].real = stack[j].real => stack[i].real = Nowhere

\* watchlist.go:236: whatever the tree and however it changes, discoverDirectories is in no
\* directory twice at a time, since what a call adds to the guard is released with it.
THEOREM GuardIsTheStack == Spec => []GuardExact
  <1>1. DiscoveryInv => GuardExact
    BY DEF DiscoveryInv, WalkInv, GuardExact
  <1> QED
    BY <1>1, DiscoveryAlways, PTL

\* Whatever the tree and however it changes, the walk and the workers keep their types:
\* a call for each prefix of the path at hand, and calls only inside a walk.
THEOREM WalkWellFormed == Spec => []TypeOK
  <1>1. DiscoveryInv /\ NodeInv => TypeOK
    BY DiscoveryShows DEF TypeOK, NodeInv
  <1> QED
    BY <1>1, DiscoveryAlways, NodeInit, NodeStep, PTL DEF Spec

\* Pruning, the guard against cycles and what changes or goes wrong elsewhere in the
\* tree never cost a directory that a target asks for and that was there all the time.
THEOREM NothingIsMissed == Spec => []WatchListComplete
  BY DiscoveryAlways, DiscoveryShows, PTL

\* Nothing is on the list twice for a target, or without having been there, or through a
\* cycle while the tree holds still.
THEOREM NothingIsListedInVain == Spec => []WatchListSound
  BY DiscoveryAlways, DiscoveryShows, PTL

\* No two entries of one target carry the same labels, although the literal segments of
\* a pattern are left out: a time series for each directory that the target watches.
THEOREM OneSeriesPerEntry == Spec => []LabelsIdentify
  BY DiscoveryAlways, DiscoveryShows, PTL

\* No stream node that was in its place all the time is passed over.
THEOREM NoNodeIsMissed == Spec => []NodesComplete
  BY DiscoveryAlways, DiscoveryShows, PTL

=============================================================================
