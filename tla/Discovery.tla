----------------------------- MODULE Discovery -----------------------------
(***************************************************************************)
(* What the exporter finds under its targets: discoverTargets              *)
(* (watchlist.go), the walk that makes the watch list, and then            *)
(* DiscoverStreamNodes (activity.go), the walk that finds the stream       *)
(* nodes, on a file tree that may change under them.  One action is one    *)
(* look at the disk: Stat, EvalSymlinks and ReadDir each see the tree as   *)
(* it is at their own moment.                                              *)
(*                                                                         *)
(* Data.  A directory is known by its identity, which stands for its real  *)
(* path: it has one home, a name in another directory, and may leave it    *)
(* and come back, but moves nowhere else.  A symbolic link points at a     *)
(* directory, and is broken while that is away.  Names are numbers, in the *)
(* order in which ReadDir sorts them.  A segment of a pattern is the set   *)
(* of names it matches (for #include, those the list matches; for a        *)
(* malformed one, none), and whether it is written with a wildcard.        *)
(***************************************************************************)
EXTENDS Integers, Sequences, FiniteSets, SequencesExt

CONSTANTS
    Dir, Root,     \* directories, and the one every other lies below
    NumNames,      \* bound: names
    NodesName,     \* the name "nodes"
    NotNode,       \* names that begin with mail or rap_import
    MaxPath,       \* bound: length of the paths the history remembers
    Nowhere        \* no directory: a path that leads nowhere

Name == 1..NumNames
Dot == 0    \* the component "." of a configured path

Other == [kind |-> "other", to |-> Root]    \* a file, or nothing at all
DirTo(d) == [kind |-> "dir", to |-> d]
LinkTo(d) == [kind |-> "link", to |-> d]
Slot == {Other} \cup {DirTo(d) : d \in Dir} \cup {LinkTo(d) : d \in Dir}

ASSUME RootAssumption == Root \in Dir /\ Nowhere \notin Dir /\ IsFiniteSet(Dir)
ASSUME NamesAssumption ==
    NumNames \in Nat \ {0} /\ NodesName \in Name /\ NotNode \subseteq Name /\ MaxPath \in Nat

VARIABLES
    at,         \* environment: at[d][n], what the name n stands for in d
    home,       \* environment: home[d], the directory and name where d lives
    denied,     \* environment: directories that cannot be listed
    changes,    \* bound: changes of the tree still to come
    targets,    \* cfg.Targets
    pc, cur,    \* where the program is, and the target it is at
    stack,      \* the calls of walk: path, real path, entries still to visit
    child,      \* the path walk is about to descend to
    ancestors,  \* real paths of the directories on the way down
    entries,    \* the watch list so far
    failed,     \* firstErr # nil
    streams,    \* directories of the target still to look into for nodes
    nodes,      \* the stream nodes so far
    steady,     \* history: paths that led the same way all the time
    seen        \* history: paths that existed at some time

tree == <<at, home, denied, changes>>
walk == <<stack, child, ancestors>>
found == <<entries, failed, nodes>>
discoveryVars == <<tree, targets, pc, cur, walk, found, streams, steady, seen>>

-----------------------------------------------------------------------------
(***************************************************************************)
(* The file system                                                         *)
(***************************************************************************)
Attached == {x \in DOMAIN home : at[home[x][1]][home[x][2]] = DirTo(x)}
Exists(d) ==
    LET Here[x \in Dir] == x = Root \/ (x \in Attached /\ Here[home[x][1]])
    IN  Here[d]

Step(d, n) ==
    IF d # Nowhere /\ at[d][n].kind # "other" /\ Exists(at[d][n].to)
    THEN at[d][n].to ELSE Nowhere

\* The directories on the path p from directory b, links followed.
Way(b, p) ==
    LET way[i \in 0..Len(p)] == IF i > 0 THEN Step(way[i - 1], p[i])
                                ELSE IF Exists(b) THEN b ELSE Nowhere
    IN  way
Resolve(b, p) == Way(b, p)[Len(p)]

\* ReadDir: the subdirectories and the links, with the kind they have just now.
Listing(d) == {[name |-> n, kind |-> at[d][n].kind] :
                   n \in {m \in Name : at[d][m].kind # "other"}}

Readable(d) == d # Nowhere /\ d \notin denied

First(list) == CHOOSE e \in list : \A f \in list : e.name <= f.name

-----------------------------------------------------------------------------
(***************************************************************************)
(* Targets: depth, pattern, labels                                         *)
(***************************************************************************)
Target == targets[cur]

\* discoverTarget's default for an unset max_depth.
Depth(t) == IF t.depth # 0 THEN t.depth
            ELSE IF t.pattern # <<>> THEN Len(t.pattern) ELSE 1

MatchesSegments(t, p) == \A i \in DOMAIN p : p[i] \in t.pattern[i].names
\* Fault: a directory on the way to a match is taken as well.
MatchesAnyLength(t, p) == t.pattern = <<>> \/ MatchesSegments(t, p)
Matches(t, p) == t.pattern = <<>> \/ (Len(p) = Len(t.pattern) /\ MatchesSegments(t, p))
MatchesPrefix(t, p) ==
    t.pattern = <<>> \/ (Len(p) <= Len(t.pattern) /\ MatchesSegments(t, p))

\* The part of s at some of its places, in order.
Kept(s, places) ==
    LET kept[i \in 0..Len(s)] == IF i = 0 THEN <<>>
                                 ELSE IF i \in places THEN Append(kept[i - 1], s[i])
                                 ELSE kept[i - 1]
    IN  kept[Len(s)]

\* Fault: a segment #include counts as literal.
TypePartsGlobOnly(t, p) ==
    {i \in 2..Len(p) : t.pattern = <<>> \/ t.pattern[i].glob}
\* The components that go into the type label: with a pattern, the wild ones.
TypeParts(t, p) ==
    {i \in 2..Len(p) : t.pattern = <<>> \/ t.pattern[i].glob \/ t.pattern[i].include}

Labels(t, p) ==
    [base |-> t.label, stream |-> p[1], type |-> Kept(p, TypeParts(t, p))]

Entry(i, p, labels) == [target |-> i, path |-> p, labels |-> labels]

\* resolveExplicitDirs: cleaned, without repetitions, no look at the disk.
Clean(d) == LET rel == Kept(d, {i \in DOMAIN d : d[i] # Dot})
            IN  IF rel = <<>> THEN <<Dot>> ELSE rel
ExplicitLabels(t, p) == [base |-> t.label, stream |-> Head(p), type |-> Tail(p)]
ExplicitEntries(i) ==
    LET t == targets[i]
        clean == [k \in DOMAIN t.dirs |-> Clean(t.dirs[k])]
        paths == Kept(clean, {k \in DOMAIN clean : \A m \in 1..(k - 1) : clean[m] # clean[k]})
    IN  [k \in DOMAIN paths |-> Entry(i, paths[k], ExplicitLabels(t, paths[k]))]

-----------------------------------------------------------------------------
(***************************************************************************)
(* History: where the paths below the targets lead                         *)
(***************************************************************************)
Bases == {targets[i].base : i \in DOMAIN targets}
Path == UNION {[1..k -> Name] : k \in 1..MaxPath}

\* The paths that exist, with the directories they go through, base included.
Views ==
    {v \in {[path |-> p, way |-> Way(b, p)] : b \in Bases, p \in Path} :
        v.way[Len(v.path)] # Nowhere}

Remember ==
    LET views == Views'
    IN  /\ steady' = steady \cap views
        /\ seen' = seen \cup views

\* The trees to start from: what is a directory in some place has its home there,
\* and no directory is its own home, or that of its home, and so on.
IsTree(w) ==
    /\ w.at \in [Dir -> [Name -> Slot]]
    /\ DOMAIN w.home \subseteq Dir \ {Root}
    /\ \A x \in DOMAIN w.home : w.home[x] \in Dir \X Name
    /\ \E rank \in [Dir -> 0..Cardinality(Dir)] :
           \A x \in DOMAIN w.home : rank[w.home[x][1]] < rank[x]
    /\ \A d \in Dir, n \in Name : w.at[d][n].kind = "dir" =>
           w.at[d][n].to \in DOMAIN w.home /\ w.home[w.at[d][n].to] = <<d, n>>
    /\ w.denied \subseteq Dir
    /\ w.changes \in Nat

\* The targets to start from: a segment that is not written with a wildcard matches
\* one name, and the history remembers paths as deep as the target goes.
IsTarget(t) ==
    /\ t.base \in Dir
    /\ t.depth \in Int /\ Depth(t) <= MaxPath
    /\ t.dirs \in Seq(Range(t.dirs)) /\ \A k \in DOMAIN t.dirs : t.dirs[k] \in Seq(Nat)
    /\ t.pattern \in Seq(Range(t.pattern))
    /\ \A i \in DOMAIN t.pattern :
           \/ t.pattern[i].glob \/ t.pattern[i].include
           \/ \A m, n \in t.pattern[i].names : m = n

StartDiscovery(w, ts) ==
    /\ at = w.at /\ home = w.home /\ denied = w.denied /\ changes = w.changes
    /\ targets = ts
    /\ pc = "target" /\ cur = 1
    /\ stack = <<>> /\ child = <<>> /\ ancestors = {}
    /\ entries = <<>> /\ failed = FALSE
    /\ streams = {} /\ nodes = {}
    /\ steady = Views /\ seen = steady

Placed == {Root} \cup DOMAIN home

\* A link appears, goes or is pointed elsewhere; a directory leaves or returns.
Change ==
    /\ pc # "done"
    /\ changes > 0
    /\ \E d \in Placed, n \in Name, s \in Slot :
           /\ s # at[d][n] /\ s.to \in Placed
           /\ s.kind = "dir" => s.to \in DOMAIN home /\ home[s.to] = <<d, n>>
           /\ at' = [at EXCEPT ![d][n] = s]
    /\ changes' = changes - 1
    /\ UNCHANGED <<home, denied, targets, pc, cur, walk, found, streams>>
    /\ Remember

-----------------------------------------------------------------------------
(***************************************************************************)
(* discoverTargets                                                         *)
(***************************************************************************)
Program == UNCHANGED <<tree, targets, steady, seen>>

UseExplicit ==
    /\ pc = "target" /\ cur <= Len(targets)
    /\ Target.dirs # <<>>
    /\ entries' = entries \o ExplicitEntries(cur)
    /\ cur' = cur + 1
    /\ UNCHANGED <<pc, walk, failed, nodes, streams>>
    /\ Program

\* A pattern that does not parse, or a base that is not there.
Refuse ==
    /\ pc = "target" /\ cur <= Len(targets)
    /\ Target.dirs = <<>>
    /\ ~Target.valid \/ ~Exists(Target.base)
    /\ failed' = TRUE
    /\ cur' = cur + 1
    /\ UNCHANGED <<pc, walk, entries, nodes, streams>>
    /\ Program

StartWalk ==
    /\ pc = "target" /\ cur <= Len(targets)
    /\ Target.dirs = <<>>
    /\ Target.valid /\ Exists(Target.base)
    /\ stack' = <<[path |-> <<>>, real |-> Target.base, todo |-> {}]>>
    /\ ancestors' = {Target.base}
    /\ pc' = "enter"
    /\ UNCHANGED <<cur, child, found, streams>>
    /\ Program

Top == stack[Len(stack)]
\* Fault: the path so far is forgotten.
ChildPathFlat(n) == <<n>>
ChildPath(n) == Append(Top.path, n)

\* walk(path): take the directory if it matches, list it if it is not too deep.
Enter ==
    /\ pc = "enter"
    /\ LET p == Top.path
           here == Resolve(Target.base, p)
           listed == Len(p) < Depth(Target)
       IN  /\ entries' = IF Len(p) \in 1..Depth(Target) /\ Matches(Target, p)
                         THEN Append(entries, Entry(cur, p, Labels(Target, p)))
                         ELSE entries
           /\ failed' = (failed \/ (listed /\ ~Readable(here)))
           /\ stack' = [stack EXCEPT ![Len(stack)].todo =
                           IF listed /\ Readable(here) THEN Listing(here) ELSE {}]
    /\ pc' = "list"
    /\ UNCHANGED <<cur, child, ancestors, nodes, streams>>
    /\ Program

\* The next entry of the listing: a directory by its kind, a link by Stat.
Pick ==
    /\ pc = "list"
    /\ Top.todo # {}
    /\ LET e == First(Top.todo)
           p == ChildPath(e.name)
           isDir == e.kind = "dir" \/ Resolve(Target.base, p) # Nowhere
       IN  /\ stack' = [stack EXCEPT ![Len(stack)].todo = @ \ {e}]
           /\ IF isDir /\ MatchesPrefix(Target, p)
              THEN child' = p /\ pc' = "eval"
              ELSE UNCHANGED <<child, pc>>
    /\ UNCHANGED <<cur, ancestors, found, streams>>
    /\ Program

\* EvalSymlinks: a directory that is on the way down already is skipped; one
\* that has just vanished is walked without being remembered.
Descend ==
    /\ pc = "eval"
    /\ LET real == Resolve(Target.base, child)
       IN  IF real \in ancestors
           THEN /\ pc' = "list"
                /\ UNCHANGED <<stack, ancestors>>
           ELSE /\ pc' = "enter"
                /\ stack' = Append(stack, [path |-> child, real |-> real, todo |-> {}])
                /\ ancestors' = ancestors \cup ({real} \ {Nowhere})
    /\ child' = <<>>
    /\ UNCHANGED <<cur, found, streams>>
    /\ Program

\* Fault: the directory stays among the ancestors of those visited after it.
ReleasedNothing(call) == {}
Released(call) == {call.real}

Return ==
    /\ pc = "list"
    /\ Top.todo = {}
    /\ stack' = Front(stack)
    /\ ancestors' = ancestors \ Released(Top)
    /\ IF Len(stack) = 1 THEN pc' = "target" /\ cur' = cur + 1
                         ELSE UNCHANGED <<pc, cur>>
    /\ UNCHANGED <<child, found, streams>>
    /\ Program

\* The watch list is complete; ScanAll looks for the nodes.
EndDiscover ==
    /\ pc = "target" /\ cur > Len(targets)
    /\ pc' = "streams" /\ cur' = 1
    /\ UNCHANGED <<walk, found, streams>>
    /\ Program

-----------------------------------------------------------------------------
(***************************************************************************)
(* DiscoverStreamNodes: <base>/<stream>/nodes/<node>, for streams and      *)
(* nodes that are directories and no links; what cannot be read is passed  *)
(* over without a word.                                                    *)
(***************************************************************************)
Plain(list) == {e \in list : e.kind = "dir"}

NextTarget == pc' = IF cur < Len(targets) THEN "streams" ELSE "done"

ListStreams ==
    /\ pc = "streams"
    /\ LET base == Resolve(Target.base, <<>>)
       IN  IF Readable(base)
           THEN /\ streams' = Plain(Listing(base))
                /\ pc' = "nodes"
                /\ UNCHANGED cur
           ELSE /\ NextTarget
                /\ cur' = cur + 1
                /\ UNCHANGED streams
    /\ UNCHANGED <<walk, found>>
    /\ Program

\* Fault: nodes of different streams share a key.
NodeOfAnyStream(s, n) == [label |-> Target.label, stream |-> 1, node |-> n]
Node(s, n) == [label |-> Target.label, stream |-> s, node |-> n]

\* The nodes of one stream; the key label/stream/node is taken once.
ListNodes ==
    /\ pc = "nodes"
    /\ streams # {}
    /\ LET s == First(streams)
           dir == Resolve(Target.base, <<s.name, NodesName>>)
       IN  /\ streams' = streams \ {s}
           /\ nodes' = IF Readable(dir)
                       THEN nodes \cup {Node(s.name, e.name) :
                                e \in {f \in Plain(Listing(dir)) : f.name \notin NotNode}}
                       ELSE nodes
    /\ UNCHANGED <<pc, cur, walk, entries, failed>>
    /\ Program

EndStreams ==
    /\ pc = "nodes"
    /\ streams = {}
    /\ NextTarget
    /\ cur' = cur + 1
    /\ UNCHANGED <<walk, found, streams>>
    /\ Program

-----------------------------------------------------------------------------

Walk == UseExplicit \/ Refuse \/ StartWalk \/ Enter \/ Pick \/ Descend \/ Return
FindNodes == ListStreams \/ ListNodes \/ EndStreams
Discover == Walk \/ EndDiscover \/ FindNodes

-----------------------------------------------------------------------------
(***************************************************************************)
(* Properties                                                              *)
(***************************************************************************)
\* The type invariant of the walk (discoverDirectories): the calls on the stack
\* are those of a path and all its prefixes, and only inside a walk are there any.
DiscoveryTypeOK ==
    /\ at \in [Dir -> [Name -> Slot]]
    /\ denied \subseteq Dir
    /\ changes \in Nat
    /\ pc \in {"target", "enter", "list", "eval", "streams", "nodes", "done"}
    /\ cur \in 1..(Len(targets) + 1)
    /\ ancestors \subseteq Dir
    /\ \A i \in DOMAIN stack : Len(stack[i].path) = i - 1
    /\ pc \in {"enter", "list", "eval"} <=> stack # <<>>
    /\ failed \in BOOLEAN
    /\ steady \subseteq seen

\* What a target asks for: a matching path below its base, within its depth.
Wanted(t, v) ==
    /\ t.dirs = <<>> /\ t.valid
    /\ v.way[0] = t.base
    /\ Len(v.path) <= Depth(t)
    /\ t.pattern # <<>> =>
           /\ Len(v.path) = Len(t.pattern)
           /\ \A i \in DOMAIN v.path : v.path[i] \in t.pattern[i].names

NoCycle(v) == IsInjective(v.way)

\* No directory on the way to the last one refuses to be listed.
Listable(v) == \A i \in 0..(Len(v.path) - 1) : v.way[i] \notin denied

\* Pruning (matchPatternPrefix), the cycle guard and whatever goes wrong or
\* changes elsewhere in the tree never cost a directory that was there all the
\* time: when discoverTargets is done, every path a target asks for that led the
\* same way throughout, without a cycle and through readable directories, is on
\* the watch list; and when it reports no error, nothing was unreadable.
WatchListComplete ==
    pc = "streams" => \A i \in DOMAIN targets : \A v \in steady :
        Wanted(targets[i], v) /\ NoCycle(v) /\ (failed => Listable(v)) =>
            \E j \in DOMAIN entries : entries[j].target = i /\ entries[j].path = v.path

\* discoverDirectories never lists a path twice, nor one that is not asked for or
\* never existed; on a tree that holds still it never enters a cycle of links
\* (watchlist.go:236), on one that changes it may.
WatchListSound ==
    \A j \in DOMAIN entries : targets[entries[j].target].dirs = <<>> =>
        /\ \A k \in DOMAIN entries \ {j} :
              entries[k].target = entries[j].target => entries[k].path # entries[j].path
        /\ \E v \in seen :
              /\ v.path = entries[j].path
              /\ Wanted(targets[entries[j].target], v)
              /\ steady = seen => NoCycle(v)

\* "one time-series per watched directory" (metrics.go:77), within one target: although
\* the literal segments of a pattern are left out of the type label, no two entries of
\* the target carry the same labels.  Entries of two targets with one base or label may.
LabelsIdentify ==
    \A j, k \in DOMAIN entries :
        entries[j].target = entries[k].target /\ entries[j].labels = entries[k].labels
            => j = k

\* DiscoverStreamNodes misses no node that was in its place all the time, below
\* whichever target; only links, unreadable directories and mail* or rap_import*
\* are passed over.
NodesComplete ==
    pc = "done" => \A i \in DOMAIN targets : \A v \in steady :
        /\ v.way[0] = targets[i].base
        /\ Len(v.path) = 3 /\ v.path[2] = NodesName /\ v.path[3] \notin NotNode
        /\ at[v.way[0]][v.path[1]].kind = "dir" /\ at[v.way[2]][v.path[3]].kind = "dir"
        /\ {v.way[0], v.way[2]} \cap denied = {}
        => [label |-> targets[i].label, stream |-> v.path[1], node |-> v.path[3]] \in nodes

=============================================================================
