------------------------------ MODULE Pipeline ------------------------------
(***************************************************************************)
(* From the configuration to what is shown of a stream node: LoadConfig    *)
(* once at start-up (Config), then Discover and DiscoverStreamNodes on the *)
(* targets it made (Discovery), then what the cycle reads of one of the    *)
(* nodes that were found (NodeScan), with the look-back and the threshold  *)
(* of the configuration.  NewExporter, main and RunScanLoop run these one  *)
(* after the other; the tree and the node's files change meanwhile.        *)
(***************************************************************************)
EXTENDS Config, Discovery, NodeScan

CONSTANT Scenarios    \* layers of configuration, tree and node to start from

\* The targets of the file are a list, and each has a depth; the tree is one
\* and the node's files are what nodes write.
ASSUME ScenariosAssumption ==
    /\ \A l \in {s.layers : s \in Scenarios} :
           LET list == l.file.targets
               made == LoadConfig(l)
           IN  /\ list \in Seq(Range(list))
               /\ \A i \in DOMAIN list : "depth" \in DOMAIN list[i]
               /\ made # Refused => \A i \in DOMAIN made.targets : IsTarget(made.targets[i])
    /\ \A w \in {s.tree : s \in Scenarios} : IsTree(w)
    /\ \A w \in {s.node : s \in Scenarios} : IsNode(w)
ASSUME LayersAssumption == "depth" \in DOMAIN BaseTarget /\ Generated # Unset

VARIABLE cfg    \* what LoadConfig returned

vars == <<cfg, discoveryVars, nodeVars>>

\* ScanDistributorActivity does not look back without a trace directory.
NodeSettings(c) ==
    [lookback |-> IF c.tracelog_dir = Unset THEN 0 ELSE c.setting["trace_lookback_days"],
     minDelay |-> c.setting["min_delay"]]

\* main: a configuration that is refused ends the program.
Init ==
    \E s \in Scenarios :
        /\ cfg = LoadConfig(s.layers)
        /\ StartDiscovery(s.tree, IF cfg = Refused THEN <<>> ELSE cfg.targets)
        /\ StartNode(s.node, IF cfg = Refused THEN [lookback |-> 0, minDelay |-> 0]
                             ELSE NodeSettings(cfg))

Running == cfg # Refused
Scanning == Running /\ pc = "done" /\ nodes # {}

ChangeTree == Running /\ Change /\ UNCHANGED <<cfg, nodeVars>>
Discovering == Running /\ Discover /\ UNCHANGED <<cfg, nodeVars>>
ChangeFiles == Scanning /\ Files /\ UNCHANGED <<cfg, discoveryVars>>
ScanNode == Scanning /\ Steps /\ UNCHANGED <<cfg, discoveryVars>>

Next == ChangeTree \/ Discovering \/ ChangeFiles \/ ScanNode

\* The program runs on; nobody has to change anything.
Spec == Init /\ [][Next]_vars /\ WF_vars(Discovering \/ ScanNode)

-----------------------------------------------------------------------------
(***************************************************************************)
(* Properties, beside those of Discovery and NodeScan                      *)
(***************************************************************************)
\* The type invariant of the walk and of the workers together.
TypeOK == DiscoveryTypeOK /\ NodeTypeOK

\* Whatever the file and the environment say, a configuration that LoadConfig
\* accepts is one the rest of the program can run with: no ticker panics, no
\* semaphore is without a slot, no deadline lies in the past.
ConfigUsable == cfg = Refused \/ Usable(cfg)

\* discoverTargets, DiscoverStreamNodes and the workers end on every tree, with
\* links in circles, directories that vanish and files that grow.
PipelineEnds == <>(cfg = Refused \/ (pc = "done" /\ (nodes = {} \/ npc = "done")))

=============================================================================
