-------------------------- MODULE DiscoveryProofs --------------------------
(***************************************************************************)
(* Proofs about Discovery: what is found of a tree that changes while it   *)
(* is walked, for any finite number of directories, any links between      *)
(* them, any number of changes and any targets.  Each invariant is shown   *)
(* to hold at StartDiscovery and to be kept by Change and by Discover;     *)
(* PipelineProofs draws the theorems from this.                            *)
(***************************************************************************)
EXTENDS Discovery, DataInduction, TLAPS, FiniteSetTheorems

Where == Dir \cup {Nowhere}
Item == [name : Name, kind : {"dir", "link"}]

\* The tree as it is at any time.
TreeInv ==
    /\ at \in [Dir -> [Name -> Slot]]
    /\ DOMAIN home \subseteq Dir \ {Root}
    /\ \A x \in DOMAIN home : home[x] \in Dir \X Name
    /\ \E rank \in [Dir -> 0..Cardinality(Dir)] :
           \A x \in DOMAIN home : rank[home[x][1]] < rank[x]
    /\ \A d \in Dir, n \in Name : at[d][n].kind = "dir" =>
           at[d][n].to \in DOMAIN home /\ home[at[d][n].to] = <<d, n>>
    /\ denied \subseteq Dir
    /\ changes \in Nat

-----------------------------------------------------------------------------
(***************************************************************************)
(* Where paths lead                                                        *)
(***************************************************************************)
LEMMA SlotType ==
    ASSUME TreeInv, NEW d \in Dir, NEW n \in Name
    PROVE  at[d][n] \in [kind : {"other", "dir", "link"}, to : Dir]
  <1>1. at[d][n] \in Slot
    BY DEF TreeInv
  <1> QED
    BY <1>1, RootAssumption DEF Slot, Other, DirTo, LinkTo

\* The home of a directory has a smaller rank, so whether it exists is defined.
LEMMA ExistsRule ==
    ASSUME TreeInv, NEW d \in Dir
    PROVE  Exists(d) <=> d = Root \/ (d \in Attached /\ Exists(home[d][1]))
  <1>1. PICK rank \in [Dir -> 0..Cardinality(Dir)] :
            \A x \in DOMAIN home : rank[home[x][1]] < rank[x]
    BY DEF TreeInv
  <1>2. Cardinality(Dir) \in Nat
    BY RootAssumption, FS_CardinalityType
  <1> DEFINE Rule(g, x) == x = Root \/ (x \in Attached /\ g[home[x][1]])
             S == {k \in Nat : \E g \in [Dir -> BOOLEAN] :
                                  \A x \in Dir : rank[x] < k => g[x] = Rule(g, x)}
             c == Cardinality(Dir)
  <1>3. Attached \subseteq DOMAIN home
    BY DEF Attached
  <1>4. 0 \in S
    <2>1. [x \in Dir |-> TRUE] \in [Dir -> BOOLEAN] /\ \A x \in Dir : ~(rank[x] < 0)
      BY <1>2
    <2> QED
      BY <2>1
  <1>5. \A k \in 0..((c + 1) - 1) : k \in S => k + 1 \in S
    <2> SUFFICES ASSUME NEW k \in 0..((c + 1) - 1), k \in S
                 PROVE  k + 1 \in S
      OBVIOUS
    <2>1. PICK g \in [Dir -> BOOLEAN] : \A x \in Dir : rank[x] < k => g[x] = Rule(g, x)
      OBVIOUS
    <2> DEFINE h == [x \in Dir |-> Rule(g, x)]
    <2>2. h \in [Dir -> BOOLEAN]
      OBVIOUS
    <2>3. ASSUME NEW x \in Dir, rank[x] < k + 1
          PROVE  h[x] = Rule(h, x)
      <3>1. ASSUME x \in Attached
            PROVE  h[home[x][1]] = g[home[x][1]]
        <4>1. home[x][1] \in Dir /\ rank[home[x][1]] < rank[x]
          BY <1>1, <1>3, <3>1 DEF TreeInv
        <4>2. rank[home[x][1]] < k
          BY <4>1, <2>3, <1>2
        <4> QED
          BY <2>1, <4>1, <4>2
      <3> QED
        BY <3>1
    <2> HIDE DEF h, Rule
    <2> QED
      BY <2>2, <2>3, <1>2
  <1>6. c + 1 \in S
    <2>1. c + 1 \in Nat
      BY <1>2
    <2> HIDE DEF S, c
    <2>3. 0..(c + 1) \subseteq S
      BY <2>1, <1>4, <1>5, InductionTo
    <2> QED
      BY <2>1, <2>3
  <1>7. PICK g \in [Dir -> BOOLEAN] : \A x \in Dir : rank[x] < c + 1 => g[x] = Rule(g, x)
    BY <1>6
  <1>8. \A x \in Dir : rank[x] < c + 1
    BY <1>2
  <1>9. g = [x \in Dir |-> Rule(g, x)]
    <2> HIDE DEF Rule
    <2> QED
      BY <1>7, <1>8
  <1> DEFINE Here == CHOOSE f : f = [x \in Dir |-> Rule(f, x)]
  <1>10. Here = [x \in Dir |-> Rule(Here, x)]
    <2>1. \E f : f = [x \in Dir |-> Rule(f, x)]
      BY <1>9
    <2> HIDE DEF Rule
    <2> QED
      BY <2>1
  <1>11. \A x : Exists(x) = Here[x]
    BY DEF Exists
  <1> HIDE DEF Here
  <1>12. Exists(d) <=> Rule(Here, d)
    <2> HIDE DEF Rule
    <2> QED
      BY <1>10, <1>11
  <1> QED
    BY <1>11, <1>12

LEMMA StepType ==
    ASSUME TreeInv, NEW d \in Where, NEW n \in Name
    PROVE  /\ Step(d, n) \in Where
           /\ d = Nowhere => Step(d, n) = Nowhere
           /\ Step(d, n) # Nowhere =>
                  d \in Dir /\ at[d][n].kind # "other" /\ Step(d, n) = at[d][n].to
  <1>1. d \in Dir => at[d][n].to \in Dir
    BY SlotType
  <1> QED
    BY <1>1 DEF Step, Where

LEMMA WayRule ==
    ASSUME TreeInv, NEW b \in Dir, NEW p \in Seq(Name)
    PROVE  /\ Way(b, p) \in [0..Len(p) -> Where]
           /\ Way(b, p)[0] = IF Exists(b) THEN b ELSE Nowhere
           /\ \A i \in 1..Len(p) : Way(b, p)[i] = Step(Way(b, p)[i - 1], p[i])
  <1> DEFINE a == IF Exists(b) THEN b ELSE Nowhere
             n == Len(p)
             F == [q \in (1..n) \X Where |-> Step(q[2], p[q[1]])]
             Body(f) == [i \in 0..n |-> IF i > 0 THEN Step(f[i - 1], p[i]) ELSE a]
             way == CHOOSE f : f = Body(f)
  <1>1. n \in Nat /\ \A i \in 1..n : p[i] \in Name
    BY SeqFacts
  <1>2. a \in Where
    BY DEF Where
  <1>3. F \in [(1..n) \X Where -> Where]
    <2>1. \A q \in (1..n) \X Where : Step(q[2], p[q[1]]) \in Where
      BY <1>1, StepType
    <2> QED
      BY <2>1
  <1>4. \A i \in 1..n : \A x \in Where : F[<<i, x>>] = Step(x, p[i])
    OBVIOUS
  <1>5. Way(b, p) = way
    BY DEF Way
  <1> HIDE DEF a, n, F
  <1>6. PICK g \in [0..n -> Where] : g[0] = a /\ \A i \in 1..n : g[i] = F[<<i, g[i - 1]>>]
    <2>1. PICK g : Iterates(g, F, Where, a, n)
      BY <1>1, <1>2, <1>3, Iteration
    <2> QED
      BY <2>1 DEF Iterates
  <1>7. \A i \in 1..n : g[i] = Step(g[i - 1], p[i])
    <2> SUFFICES ASSUME NEW i \in 1..n PROVE g[i] = Step(g[i - 1], p[i])
      OBVIOUS
    <2>1. g[i - 1] \in Where
      BY <1>1
    <2> QED
      BY <1>4, <1>6, <2>1
  <1>8. g = Body(g)
    <2>1. \A i \in 0..n : g[i] = IF i > 0 THEN Step(g[i - 1], p[i]) ELSE a
      BY <1>1, <1>6, <1>7
    <2> QED
      BY <2>1
  <1>9. way = Body(way)
    <2> HIDE DEF Body
    <2> QED
      BY <1>8
  <1> HIDE DEF way
  <1> DEFINE S == {k \in 0..n : way[k] = g[k]}
  <1>10. n + 1 \in Nat /\ 0 \in 0..n /\ way[0] = a
    BY <1>1, <1>9
  <1>11. \A k \in 0..(n - 1) : k \in S => k + 1 \in S
    <2> SUFFICES ASSUME NEW k \in 0..(n - 1), way[k] = g[k]
                 PROVE  k + 1 \in 0..n /\ way[k + 1] = g[k + 1]
      OBVIOUS
    <2>1. k + 1 \in 1..n /\ k + 1 \in 0..n /\ k + 1 > 0 /\ (k + 1) - 1 = k
      BY <1>1
    <2>2. way[k + 1] = Step(way[k], p[k + 1])
      BY <1>9, <2>1
    <2>3. g[k + 1] = Step(g[k], p[k + 1])
      BY <1>7, <2>1
    <2> QED
      BY <2>1, <2>2, <2>3
  <1>12. 0..n \subseteq S
    <2>1. 0 \in S
      BY <1>6, <1>10
    <2> HIDE DEF S
    <2> QED
      BY <1>1, <2>1, <1>11, InductionTo
  <1>13. way = g
    <2>1. way = [i \in 0..n |-> way[i]]
      BY <1>9
    <2> QED
      BY <1>12, <2>1
  <1> QED
    BY <1>5, <1>6, <1>7, <1>13 DEF a, n

\* p is q or lies on the way to it.
On(p, q) == Len(p) <= Len(q) /\ \A i \in 1..Len(p) : p[i] = q[i]

LEMMA OnAll ==
    ASSUME NEW S, NEW p \in Seq(S), NEW q \in Seq(S), On(p, q), Len(p) = Len(q)
    PROVE  p = q
  <1>1. p = [i \in 1..Len(p) |-> p[i]] /\ q = [i \in 1..Len(q) |-> q[i]]
    BY SeqFacts
  <1> QED
    BY <1>1 DEF On

LEMMA WayPrefix ==
    ASSUME TreeInv, NEW b \in Dir, NEW p \in Seq(Name), NEW q \in Seq(Name), On(p, q)
    PROVE  \A i \in 0..Len(p) : Way(b, p)[i] = Way(b, q)[i]
  <1> DEFINE n == Len(p)
             S == {k \in 0..n : Way(b, p)[k] = Way(b, q)[k]}
  <1>1. n \in Nat /\ Len(q) \in Nat /\ n <= Len(q)
    BY SeqFacts DEF On
  <1>2. 0 \in S
    BY <1>1, WayRule
  <1>3. \A k \in 0..(n - 1) : k \in S => k + 1 \in S
    <2> SUFFICES ASSUME NEW k \in 0..(n - 1), Way(b, p)[k] = Way(b, q)[k]
                 PROVE  k + 1 \in 0..n /\ Way(b, p)[k + 1] = Way(b, q)[k + 1]
      OBVIOUS
    <2>1. k + 1 \in 0..n /\ k + 1 \in 1..n /\ k + 1 \in 1..Len(q) /\ (k + 1) - 1 = k
      BY <1>1
    <2>2. Way(b, p)[k + 1] = Step(Way(b, p)[k], p[k + 1])
      BY <2>1, WayRule
    <2>3. Way(b, q)[k + 1] = Step(Way(b, q)[k], q[k + 1])
      BY <2>1, WayRule
    <2> QED
      BY <2>1, <2>2, <2>3 DEF On
  <1>4. 0..n \subseteq S
    <2> HIDE DEF S
    <2> QED
      BY <1>1, <1>2, <1>3, InductionTo
  <1> QED
    BY <1>4

\* A path that leads somewhere leads somewhere all the way.
LEMMA WayBefore ==
    ASSUME TreeInv, NEW b \in Dir, NEW p \in Seq(Name), Way(b, p)[Len(p)] # Nowhere
    PROVE  \A i \in 0..Len(p) : Way(b, p)[i] \in Dir
  <1> DEFINE n == Len(p)
             w == Way(b, p)
             S == {k \in 0..n : w[n - k] # Nowhere}
  <1>1. n \in Nat /\ w \in [0..n -> Where] /\ \A i \in 1..n : w[i] = Step(w[i - 1], p[i])
    BY SeqFacts, WayRule
  <1>2. \A i \in 1..n : p[i] \in Name
    BY SeqFacts
  <1> HIDE DEF w
  <1>3. 0 \in S
    BY <1>1 DEF w
  <1>4. \A k \in 0..(n - 1) : k \in S => k + 1 \in S
    <2> SUFFICES ASSUME NEW k \in 0..(n - 1), w[n - k] # Nowhere
                 PROVE  w[n - (k + 1)] # Nowhere
      BY <1>1
    <2> DEFINE i == n - k
    <2>1. i \in 1..n /\ i - 1 = n - (k + 1) /\ i - 1 \in 0..n
      BY <1>1
    <2>2. w[i] = Step(w[i - 1], p[i]) /\ w[i - 1] \in Where /\ p[i] \in Name
      BY <1>1, <1>2, <2>1
    <2> HIDE DEF i
    <2>3. w[i] # Nowhere
      BY DEF i
    <2>4. w[i - 1] # Nowhere
      BY <2>2, <2>3, StepType
    <2> QED
      BY <2>1, <2>4
  <1>5. 0..n \subseteq S
    <2> HIDE DEF S
    <2> QED
      BY <1>1, <1>3, <1>4, InductionTo
  <1>6. ASSUME NEW i \in 0..n
        PROVE  w[i] \in Dir
    <2>1. n - i \in 0..n /\ n - (n - i) = i
      BY <1>1
    <2>2. w[i] # Nowhere /\ w[i] \in Where
      BY <1>1, <1>5, <2>1
    <2> QED
      BY <2>2 DEF Where
  <1> QED
    BY <1>6 DEF w

-----------------------------------------------------------------------------
(***************************************************************************)
(* The paths the history remembers                                         *)
(***************************************************************************)
TargetsInv ==
    /\ targets \in Seq(Range(targets))
    /\ \A i \in DOMAIN targets : IsTarget(targets[i])

LEMMA PathIsSeq ==
    ASSUME NEW p \in Path
    PROVE  p \in Seq(Name) /\ Len(p) \in 1..MaxPath /\ Len(p) \in Nat /\ DOMAIN p = 1..Len(p)
  <1>1. PICK k \in 1..MaxPath : p \in [1..k -> Name]
    BY DEF Path
  <1>2. k \in Nat
    BY NamesAssumption
  <1>3. p \in Seq(Name) /\ Len(p) = k
    BY <1>1, <1>2
  <1> QED
    BY <1>1, <1>2, <1>3

LEMMA BasesAreDirs == TargetsInv => Bases \subseteq Dir
  BY DEF TargetsInv, Bases, IsTarget

LEMMA ViewFacts ==
    ASSUME TreeInv, TargetsInv, NEW v \in Views
    PROVE  /\ v.path \in Seq(Name) /\ Len(v.path) \in 1..MaxPath /\ Len(v.path) \in Nat
           /\ DOMAIN v.path = 1..Len(v.path)
           /\ v = [path |-> v.path, way |-> v.way]
           /\ v.way \in [0..Len(v.path) -> Dir]
           /\ v.way[0] \in Bases /\ v.way[0] \in Dir /\ Exists(v.way[0])
           /\ v.way = Way(v.way[0], v.path)
  <1>1. PICK b \in Bases, p \in Path :
            v = [path |-> p, way |-> Way(b, p)] /\ v.way[Len(v.path)] # Nowhere
    BY DEF Views
  <1>2. v.path = p /\ v.way = Way(b, p) /\ Way(b, p)[Len(p)] # Nowhere
    BY <1>1
  <1>3. p \in Seq(Name) /\ Len(p) \in 1..MaxPath /\ Len(p) \in Nat /\ DOMAIN p = 1..Len(p)
    BY PathIsSeq
  <1>4. b \in Dir
    BY BasesAreDirs
  <1>5. \A i \in 0..Len(p) : Way(b, p)[i] \in Dir
    BY <1>2, <1>3, <1>4, WayBefore
  <1>6. /\ Way(b, p) \in [0..Len(p) -> Where]
        /\ Way(b, p)[0] = IF Exists(b) THEN b ELSE Nowhere
    BY <1>3, <1>4, WayRule
  <1>7. Way(b, p) \in [0..Len(p) -> Dir]
    BY <1>5, <1>6
  <1>8. Way(b, p)[0] = b /\ Exists(b)
    <2>1. Way(b, p)[0] \in Dir
      BY <1>3, <1>5
    <2> QED
      BY <1>6, <2>1, RootAssumption
  <1> QED
    BY <1>1, <1>2, <1>3, <1>4, <1>7, <1>8

\* The directories on the way to a path that is there are where its prefixes lead.
LEMMA ViewResolve ==
    ASSUME TreeInv, TargetsInv, NEW v \in Views, NEW p \in Seq(Name), On(p, v.path)
    PROVE  Resolve(v.way[0], p) = v.way[Len(p)]
  <1>1. Len(p) \in 0..Len(p)
    BY SeqFacts
  <1>2. v.path \in Seq(Name) /\ v.way[0] \in Dir /\ v.way = Way(v.way[0], v.path)
    BY ViewFacts
  <1>3. Way(v.way[0], p)[Len(p)] = Way(v.way[0], v.path)[Len(p)]
    BY <1>1, <1>2, WayPrefix
  <1> QED
    BY <1>2, <1>3 DEF Resolve

LEMMA ViewStep ==
    ASSUME TreeInv, TargetsInv, NEW v \in Views, NEW i \in 1..Len(v.path)
    PROVE  /\ v.path[i] \in Name /\ v.way[i - 1] \in Dir /\ v.way[i] \in Dir
           /\ at[v.way[i - 1]][v.path[i]].kind # "other"
           /\ at[v.way[i - 1]][v.path[i]].to = v.way[i]
  <1>1. /\ v.path \in Seq(Name) /\ v.way[0] \in Dir /\ v.way = Way(v.way[0], v.path)
        /\ v.way \in [0..Len(v.path) -> Dir] /\ Len(v.path) \in Nat
    BY ViewFacts
  <1>2. v.way[i] = Step(v.way[i - 1], v.path[i])
    BY <1>1, WayRule
  <1>3. v.path[i] \in Name /\ v.way[i - 1] \in Dir /\ v.way[i] \in Dir
    BY <1>1, SeqFacts
  <1>4. v.way[i] # Nowhere /\ v.way[i - 1] \in Where
    BY <1>3, RootAssumption DEF Where
  <1> QED
    BY <1>2, <1>3, <1>4, StepType

LEMMA Listed ==
    ASSUME TreeInv, NEW d \in Dir
    PROVE  /\ Listing(d) \subseteq Item
           /\ \A n \in Name : at[d][n].kind # "other" =>
                  [name |-> n, kind |-> at[d][n].kind] \in Listing(d)
           /\ \A e \in Listing(d) : e.kind = at[d][e.name].kind
           /\ \A e, f \in Listing(d) : e.name = f.name => e = f
  BY SlotType DEF Listing, Item

LEMMA FirstIsIn ==
    ASSUME NEW list, list \subseteq Item, list # {}
    PROVE  First(list) \in list
  <1> DEFINE T == {e.name : e \in list}
  <1>1. T \subseteq Nat /\ T # {}
    BY NamesAssumption DEF Item, Name
  <1>2. PICK m \in T : \A k \in T : m <= k
    BY <1>1, LeastNat
  <1>3. \E e \in list : \A f \in list : e.name <= f.name
    BY <1>2
  <1> QED
    BY <1>3 DEF First

-----------------------------------------------------------------------------
(***************************************************************************)
(* The tree changes, the walk and its history keep their shape             *)
(***************************************************************************)
HistoryInv == TreeInv /\ TargetsInv /\ steady \subseteq Views /\ Views \subseteq seen

Frame == [path : Seq(Name), real : Where, todo : SUBSET Item]

\* The calls on the stack are those for a path and all its prefixes, in different
\* directories, which are the ancestors that the guard against cycles knows.
WalkInv ==
    /\ pc \in {"target", "enter", "list", "eval", "streams", "nodes", "done"}
    /\ cur \in 1..(Len(targets) + 1)
    /\ pc \in {"enter", "list", "eval"} <=> stack # <<>>
    /\ stack # <<>> => cur <= Len(targets) /\ Target.dirs = <<>> /\ Target.valid
    /\ pc \in {"streams", "nodes"} => cur <= Len(targets)
    /\ stack \in Seq(Frame)
    /\ \A i \in DOMAIN stack : Len(stack[i].path) = i - 1
    /\ \A i, j \in DOMAIN stack : i <= j => On(stack[i].path, stack[j].path)
    /\ pc = "enter" => Top.todo = {}
    /\ pc = "eval" => child \in Seq(Name) /\ Len(child) = Len(stack) /\ On(Top.path, child)
    /\ ancestors = {stack[i].real : i \in DOMAIN stack} \ {Nowhere}
    /\ \A i, j \in DOMAIN stack :
           i # j /\ stack[i].real = stack[j].real => stack[i].real = Nowhere
    /\ failed \in BOOLEAN
    /\ streams \subseteq Item

LEMMA SameViews ==
    ASSUME UNCHANGED <<at, home, targets>>
    PROVE  Views' = Views
  BY SMT DEF Views, Way, Step, Exists, Attached, Bases

LEMMA HistoryStarts ==
    ASSUME NEW w, NEW ts, IsTree(w), ts \in Seq(Range(ts)),
           \A i \in DOMAIN ts : IsTarget(ts[i]), StartDiscovery(w, ts)
    PROVE  HistoryInv
  <1>1. TreeInv
    BY DEF StartDiscovery, IsTree, TreeInv
  <1>2. TargetsInv
    BY DEF StartDiscovery, TargetsInv
  <1> QED
    BY <1>1, <1>2 DEF StartDiscovery, HistoryInv

LEMMA HistoryChange == ASSUME HistoryInv, Change PROVE HistoryInv'
  <1>1. TreeInv'
    <2>1. PICK d \in Placed, n \in Name, s \in Slot :
              /\ s.kind = "dir" => s.to \in DOMAIN home /\ home[s.to] = <<d, n>>
              /\ at' = [at EXCEPT ![d][n] = s]
      BY DEF Change
    <2>2. /\ at \in [Dir -> [Name -> Slot]] /\ d \in Dir
          /\ \A x \in Dir, m \in Name : at[x][m].kind = "dir" =>
                 at[x][m].to \in DOMAIN home /\ home[at[x][m].to] = <<x, m>>
      BY RootAssumption DEF HistoryInv, TreeInv, Placed
    <2>3. at' \in [Dir -> [Name -> Slot]]
      BY <2>1, <2>2
    <2>4. \A x \in Dir, m \in Name : at'[x][m] = IF x = d /\ m = n THEN s ELSE at[x][m]
      BY <2>1, <2>2
    <2>5. \A x \in Dir, m \in Name : at'[x][m].kind = "dir" =>
              at'[x][m].to \in DOMAIN home /\ home[at'[x][m].to] = <<x, m>>
      <3> SUFFICES ASSUME NEW x \in Dir, NEW m \in Name, at'[x][m].kind = "dir"
                   PROVE  at'[x][m].to \in DOMAIN home /\ home[at'[x][m].to] = <<x, m>>
        OBVIOUS
      <3>1. CASE x = d /\ m = n
        BY <2>1, <2>4, <3>1
      <3>2. CASE ~(x = d /\ m = n)
        BY <2>2, <2>4, <3>2
      <3> QED
        BY <3>1, <3>2
    <2>6. UNCHANGED <<home, denied>> /\ changes' \in Nat
      BY DEF Change, HistoryInv, TreeInv
    <2> QED
      BY <2>3, <2>5, <2>6 DEF HistoryInv, TreeInv
  <1>2. TargetsInv'
    BY DEF HistoryInv, TargetsInv, Change
  <1>3. steady' \subseteq Views' /\ Views' \subseteq seen'
    <2>1. steady' = steady \cap Views' /\ seen' = seen \cup Views'
      BY DEF Change, Remember
    <2> QED
      BY <2>1
  <1> QED
    BY <1>1, <1>2, <1>3 DEF HistoryInv

LEMMA HistoryProgram == ASSUME HistoryInv, Program PROVE HistoryInv'
  <1>1. UNCHANGED <<at, home, denied, changes, targets, steady, seen>>
    BY DEF Program, tree
  <1>2. Views' = Views
    BY <1>1, SameViews
  <1>3. TreeInv' /\ TargetsInv'
    BY <1>1 DEF HistoryInv, TreeInv, TargetsInv
  <1> QED
    BY <1>1, <1>2, <1>3 DEF HistoryInv

LEMMA DiscoverIsProgram == Discover => Program
  BY DEF Discover, Walk, FindNodes, UseExplicit, Refuse, StartWalk, Enter, Pick, Descend,
         Return, EndDiscover, ListStreams, ListNodes, EndStreams

LEMMA HistoryStep == HistoryInv /\ (Change \/ Discover \/ UNCHANGED discoveryVars) => HistoryInv'
  <1>1. UNCHANGED discoveryVars => Program
    BY DEF discoveryVars, Program, tree
  <1> QED
    BY <1>1, HistoryChange, HistoryProgram, DiscoverIsProgram

LEMMA WalkStarts ==
    ASSUME NEW w, NEW ts, ts \in Seq(Range(ts)), StartDiscovery(w, ts)
    PROVE  WalkInv
  <1>1. pc = "target" /\ cur = 1 /\ stack = <<>> /\ ancestors = {} /\ failed = FALSE /\ streams = {}
        /\ targets = ts
    BY DEF StartDiscovery
  <1>2. cur \in 1..(Len(targets) + 1)
    BY <1>1, SeqFacts
  <1>3. stack \in Seq(Frame) /\ DOMAIN stack = {}
    BY <1>1
  <1> QED
    BY <1>1, <1>2, <1>3 DEF WalkInv

LEMMA WalkSame ==
    ASSUME WalkInv, UNCHANGED <<targets, pc, cur, stack, child, ancestors, failed, streams>>
    PROVE  WalkInv'
  BY DEF WalkInv, Target, Top

\* Only the entries still to visit of the call on top change.
LEMMA NewTodo ==
    ASSUME WalkInv, stack # <<>>, NEW T, T \subseteq Item,
           stack' = [stack EXCEPT ![Len(stack)].todo = T]
    PROVE  /\ stack' \in Seq(Frame) /\ Len(stack') = Len(stack) /\ DOMAIN stack' = DOMAIN stack
           /\ Len(stack) \in DOMAIN stack /\ Len(stack) \in Nat /\ stack' # <<>>
           /\ \A i \in DOMAIN stack : stack'[i].path = stack[i].path /\ stack'[i].real = stack[i].real
           /\ \A i \in DOMAIN stack : i # Len(stack) => stack'[i] = stack[i]
           /\ Top'.todo = T /\ Top'.path = Top.path /\ Top'.real = Top.real
  <1>1. stack \in Seq(Frame)
    BY DEF WalkInv
  <1>2. DOMAIN stack = 1..Len(stack) /\ Len(stack) \in Nat /\ Len(stack) \in DOMAIN stack
    BY <1>1
  <1>3. \A i \in DOMAIN stack : stack[i] \in Frame
    BY <1>1
  <1>4. /\ DOMAIN stack' = DOMAIN stack
        /\ \A i \in DOMAIN stack : stack'[i] = IF i = Len(stack) THEN [stack[i] EXCEPT !.todo = T]
                                                                 ELSE stack[i]
    BY <1>2
  <1>5. \A i \in DOMAIN stack : /\ stack'[i] \in Frame /\ stack'[i].path = stack[i].path
                                /\ stack'[i].real = stack[i].real
                                /\ i # Len(stack) => stack'[i] = stack[i]
                                /\ i = Len(stack) => stack'[i].todo = T
    BY <1>3, <1>4 DEF Frame
  <1>6. stack' \in Seq(Frame) /\ Len(stack') = Len(stack) /\ stack' # <<>>
    <2> DEFINE new == [i \in 1..Len(stack) |-> IF i = Len(stack) THEN [stack[i] EXCEPT !.todo = T]
                                                                ELSE stack[i]]
    <2>1. stack' = new
      BY <1>2
    <2>2. \A i \in 1..Len(stack) : new[i] \in Frame
      BY <1>2, <1>5, <2>1
    <2>3. new \in Seq(Frame) /\ Len(new) = Len(stack)
      BY <1>2, <2>2
    <2> HIDE DEF new
    <2>4. stack' \in Seq(Frame) /\ Len(stack') = Len(stack)
      BY <2>1, <2>3, Zenon
    <2>5. Len(stack) # 0
      BY <1>2
    <2> QED
      BY <2>4, <2>5
  <1> QED
    BY <1>2, <1>4, <1>5, <1>6 DEF Top

LEMMA WalkNewTodo ==
    ASSUME WalkInv, stack # <<>>, NEW T, T \subseteq Item,
           stack' = [stack EXCEPT ![Len(stack)].todo = T],
           pc' \in {"list", "eval"}, UNCHANGED <<targets, cur, ancestors, streams>>,
           failed' \in BOOLEAN,
           pc' = "eval" => child' \in Seq(Name) /\ Len(child') = Len(stack) /\ On(Top.path, child')
    PROVE  WalkInv'
  <1> USE DEF WalkInv
  <1>1. /\ stack' \in Seq(Frame) /\ Len(stack') = Len(stack) /\ DOMAIN stack' = DOMAIN stack
        /\ stack' # <<>>
        /\ \A i \in DOMAIN stack : stack'[i].path = stack[i].path /\ stack'[i].real = stack[i].real
        /\ Top'.path = Top.path
    BY NewTodo
  <1>2. \A i \in DOMAIN stack' : Len(stack'[i].path) = i - 1
    BY <1>1
  <1>3. \A i, j \in DOMAIN stack' : i <= j => On(stack'[i].path, stack'[j].path)
    BY <1>1
  <1>4. ancestors' = {stack'[i].real : i \in DOMAIN stack'} \ {Nowhere}
    <2>1. {stack'[i].real : i \in DOMAIN stack'} = {stack[i].real : i \in DOMAIN stack}
      BY <1>1
    <2> QED
      BY <2>1
  <1>5. \A i, j \in DOMAIN stack' :
            i # j /\ stack'[i].real = stack'[j].real => stack'[i].real = Nowhere
    BY <1>1
  <1>6. Target' = Target
    BY DEF Target
  <1> QED
    BY <1>1, <1>2, <1>3, <1>4, <1>5, <1>6

LEMMA ChildPathFacts ==
    ASSUME WalkInv, stack # <<>>, NEW n \in Name
    PROVE  /\ ChildPath(n) \in Seq(Name) /\ Len(ChildPath(n)) = Len(stack)
           /\ On(Top.path, ChildPath(n)) /\ ChildPath(n)[Len(stack)] = n
           /\ Top.path \in Seq(Name) /\ Len(Top.path) = Len(stack) - 1
           /\ Len(stack) \in Nat \ {0} /\ Len(stack) \in DOMAIN stack /\ DOMAIN stack = 1..Len(stack)
           /\ Top.real \in Where
  <1>1. /\ Len(stack) \in DOMAIN stack /\ Len(stack) \in Nat \ {0} /\ DOMAIN stack = 1..Len(stack)
        /\ stack[Len(stack)] \in Frame
    BY DEF WalkInv
  <1>2. Top.path \in Seq(Name) /\ Len(Top.path) = Len(stack) - 1 /\ Top.real \in Where
    BY <1>1 DEF WalkInv, Top, Frame
  <1> DEFINE p == Top.path
  <1> HIDE DEF p
  <1>3. p \in Seq(Name) /\ Len(p) + 1 = Len(stack)
    <2>1. p \in Seq(Name) /\ Len(p) = Len(stack) - 1
      BY <1>2, Zenon DEF p
    <2> QED
      BY <1>1, <2>1
  <1>4. /\ Append(p, n) \in Seq(Name) /\ Len(Append(p, n)) = Len(p) + 1
        /\ \A i \in 1..Len(p) : Append(p, n)[i] = p[i]
        /\ Append(p, n)[Len(p) + 1] = n
        /\ Len(p) \in Nat
    BY <1>3
  <1>5. Append(p, n)[Len(stack)] = n /\ Len(Append(p, n)) = Len(stack) /\ On(p, Append(p, n))
    BY <1>3, <1>4 DEF On
  <1>6. ChildPath(n) = Append(p, n)
    BY DEF ChildPath, p
  <1> QED
    BY <1>1, <1>2, <1>4, <1>5, <1>6 DEF p

LEMMA ResolveType ==
    ASSUME TreeInv, NEW b \in Dir, NEW p \in Seq(Name)
    PROVE  Resolve(b, p) \in Where
  <1>1. Len(p) \in 0..Len(p)
    BY SeqFacts
  <1> QED
    BY <1>1, WayRule DEF Resolve

LEMMA FrontFacts ==
    ASSUME NEW S, NEW q \in Seq(S), q # <<>>
    PROVE  /\ Front(q) \in Seq(S) /\ Len(Front(q)) = Len(q) - 1
           /\ DOMAIN Front(q) = 1..(Len(q) - 1)
           /\ \A i \in 1..(Len(q) - 1) : Front(q)[i] = q[i]
           /\ Len(q) \in DOMAIN q
  BY DEF Front

LEMMA WalkUseExplicit == ASSUME WalkInv, UseExplicit PROVE WalkInv'
  <1>1. /\ pc = "target" /\ cur <= Len(targets) /\ cur' = cur + 1
        /\ UNCHANGED <<targets, pc, stack, child, ancestors, failed, streams>>
    BY DEF UseExplicit, Program, walk
  <1>2. stack = <<>>
    BY <1>1 DEF WalkInv
  <1>3. cur' \in 1..(Len(targets') + 1)
    BY <1>1 DEF WalkInv
  <1> QED
    BY <1>1, <1>2, <1>3 DEF WalkInv

LEMMA WalkRefuse == ASSUME WalkInv, Refuse PROVE WalkInv'
  <1>1. /\ pc = "target" /\ cur <= Len(targets) /\ cur' = cur + 1 /\ failed' = TRUE
        /\ UNCHANGED <<targets, pc, stack, child, ancestors, streams>>
    BY DEF Refuse, Program, walk
  <1>2. stack = <<>>
    BY <1>1 DEF WalkInv
  <1>3. cur' \in 1..(Len(targets') + 1)
    BY <1>1 DEF WalkInv
  <1> QED
    BY <1>1, <1>2, <1>3 DEF WalkInv

\* The first call of a walk.
BaseCall == [path |-> <<>>, real |-> Target.base, todo |-> {}]

LEMMA StartFacts ==
    ASSUME HistoryInv, WalkInv, StartWalk
    PROVE  /\ pc = "target" /\ stack = <<>> /\ Target.base \in Dir /\ cur \in DOMAIN targets
           /\ Target.dirs = <<>> /\ Target.valid /\ cur <= Len(targets)
           /\ stack' \in Seq(Frame) /\ DOMAIN stack' = {1} /\ Len(stack') = 1 /\ stack' # <<>>
           /\ stack'[1] = BaseCall /\ Top' = BaseCall
           /\ ancestors' = {Target.base} /\ pc' = "enter"
           /\ UNCHANGED <<targets, cur, entries, failed, streams>> /\ Target' = Target
  <1>1. /\ pc = "target" /\ cur <= Len(targets) /\ Target.dirs = <<>> /\ Target.valid
        /\ stack' = <<BaseCall>> /\ ancestors' = {Target.base} /\ pc' = "enter"
        /\ UNCHANGED <<targets, cur, entries, failed, streams>>
    BY DEF StartWalk, Program, found, BaseCall
  <1>2. cur \in DOMAIN targets
    BY <1>1, SeqFacts DEF WalkInv, HistoryInv, TargetsInv
  <1>3. Target.base \in Dir
    BY <1>2 DEF HistoryInv, TargetsInv, IsTarget, Target
  <1>4. BaseCall \in Frame
    BY <1>3 DEF Frame, Where, BaseCall
  <1>5. stack' \in Seq(Frame) /\ DOMAIN stack' = {1} /\ Len(stack') = 1 /\ stack'[1] = BaseCall
        /\ stack' # <<>>
    BY <1>1, <1>4
  <1>6. Target' = Target /\ Top' = BaseCall /\ stack = <<>>
    BY <1>1, <1>5 DEF Target, Top, WalkInv
  <1> QED
    BY <1>1, <1>2, <1>3, <1>5, <1>6

LEMMA WalkStartWalk == ASSUME HistoryInv, WalkInv, StartWalk PROVE WalkInv'
  <1> DEFINE call == BaseCall
  <1>1. /\ cur <= Len(targets) /\ Target.dirs = <<>> /\ Target.valid
        /\ ancestors' = {Target.base} /\ pc' = "enter"
        /\ UNCHANGED <<targets, cur, failed, streams>>
    BY StartFacts
  <1>2. Target.base \in Dir
    BY StartFacts
  <1>3. call.path = <<>> /\ call.real = Target.base /\ call.todo = {}
    BY DEF BaseCall
  <1> HIDE DEF call
  <1>4. stack' \in Seq(Frame) /\ DOMAIN stack' = {1} /\ Len(stack') = 1 /\ stack'[1] = call /\ stack' # <<>>
    BY StartFacts DEF call
  <1>5. Target' = Target
    BY StartFacts
  <1>6. On(call.path, call.path)
    BY <1>3 DEF On
  <1>7. ancestors' = {stack'[i].real : i \in DOMAIN stack'} \ {Nowhere}
    BY <1>1, <1>2, <1>3, <1>4, RootAssumption
  <1>8. /\ \A i \in DOMAIN stack' : Len(stack'[i].path) = i - 1
        /\ \A i, j \in DOMAIN stack' : i <= j => On(stack'[i].path, stack'[j].path)
        /\ \A i, j \in DOMAIN stack' : i = j
    BY <1>3, <1>4, <1>6
  <1>9. Top'.todo = {}
    BY <1>3, <1>4 DEF Top
  <1>10. cur' \in 1..(Len(targets') + 1) /\ failed' \in BOOLEAN /\ streams' \subseteq Item
    BY <1>1 DEF WalkInv
  <1> QED
    BY <1>1, <1>4, <1>5, <1>7, <1>8, <1>9, <1>10 DEF WalkInv

\* What Enter lists.
EnterTodo ==
    LET here == Resolve(Target.base, Top.path)
    IN  IF Len(Top.path) < Depth(Target) /\ Readable(here) THEN Listing(here) ELSE {}

LEMMA TopFacts ==
    ASSUME HistoryInv, WalkInv, stack # <<>>
    PROVE  /\ Len(stack) \in Nat \ {0} /\ Len(stack) \in DOMAIN stack /\ DOMAIN stack = 1..Len(stack)
           /\ stack[Len(stack)] = Top /\ Top \in Frame
           /\ Top.path \in Seq(Name) /\ Len(Top.path) = Len(stack) - 1 /\ Top.todo \subseteq Item
           /\ Target.base \in Dir /\ cur \in DOMAIN targets /\ Target = targets[cur]
           /\ \A k \in DOMAIN stack : On(stack[k].path, Top.path)
  <1>1. /\ stack \in Seq(Frame) /\ cur <= Len(targets) /\ cur \in 1..(Len(targets) + 1)
        /\ \A i \in DOMAIN stack : Len(stack[i].path) = i - 1
        /\ \A i, j \in DOMAIN stack : i <= j => On(stack[i].path, stack[j].path)
    BY DEF WalkInv
  <1>2. /\ Len(stack) \in Nat \ {0} /\ Len(stack) \in DOMAIN stack /\ DOMAIN stack = 1..Len(stack)
        /\ stack[Len(stack)] = Top /\ Top \in Frame
    BY <1>1 DEF Top
  <1>3. Top.path \in Seq(Name) /\ Len(Top.path) = Len(stack) - 1 /\ Top.todo \subseteq Item
    BY <1>1, <1>2 DEF Frame
  <1>4. cur \in DOMAIN targets /\ Target.base \in Dir
    BY <1>1, SeqFacts DEF HistoryInv, TargetsInv, IsTarget, Target
  <1>5. \A k \in DOMAIN stack : k <= Len(stack)
    BY <1>2
  <1>6. \A k \in DOMAIN stack : On(stack[k].path, Top.path)
    BY <1>1, <1>2, <1>5
  <1>7. Target = targets[cur]
    BY DEF Target
  <1> QED
    BY <1>2, <1>3, <1>4, <1>6, <1>7, Zenon

LEMMA EnterFacts ==
    ASSUME HistoryInv, WalkInv, Enter
    PROVE  /\ pc = "enter" /\ stack # <<>> /\ Top.todo = {}
           /\ EnterTodo \subseteq Item
           /\ stack' = [stack EXCEPT ![Len(stack)].todo = EnterTodo]
           /\ pc' = "list" /\ UNCHANGED <<targets, cur, ancestors, streams, child>>
           /\ failed' \in BOOLEAN
  <1> DEFINE here == Resolve(Target.base, Top.path)
  <1>1. pc = "enter" /\ stack # <<>> /\ Top.todo = {}
    BY DEF WalkInv, Enter
  <1>2. EnterTodo \subseteq Item
    <2>1. here \in Where
      BY <1>1, TopFacts, ResolveType DEF HistoryInv
    <2> HIDE DEF here
    <2>2. Readable(here) => here \in Dir
      BY <2>1 DEF Readable, Where
    <2>3. Readable(here) => Listing(here) \subseteq Item
      BY <2>2, Listed DEF HistoryInv
    <2> QED
      BY <2>3 DEF EnterTodo, here
  <1>3. /\ stack' = [stack EXCEPT ![Len(stack)].todo = EnterTodo]
        /\ pc' = "list" /\ failed' \in BOOLEAN
        /\ UNCHANGED <<targets, cur, ancestors, streams, child>>
    BY DEF Enter, Program, WalkInv, EnterTodo
  <1> QED
    BY <1>1, <1>2, <1>3

LEMMA WalkEnter == ASSUME HistoryInv, WalkInv, Enter PROVE WalkInv'
  BY EnterFacts, WalkNewTodo

LEMMA PickFacts ==
    ASSUME HistoryInv, WalkInv, Pick
    PROVE  LET e == First(Top.todo)
           IN  /\ stack # <<>> /\ pc = "list"
               /\ e \in Top.todo /\ e \in Item /\ e.name \in Name
               /\ stack' = [stack EXCEPT ![Len(stack)].todo = Top.todo \ {e}]
               /\ Top.todo \ {e} \subseteq Item
               /\ UNCHANGED <<targets, cur, ancestors, streams, failed>>
               /\ \/ pc' = "list" /\ child' = child
                  \/ pc' = "eval" /\ child' = ChildPath(e.name)
  <1> DEFINE e == First(Top.todo)
  <1>1. stack # <<>> /\ Top.todo # {} /\ pc = "list"
    BY DEF WalkInv, Pick
  <1>2. Top.todo \subseteq Item /\ e \in Top.todo
    BY <1>1, TopFacts, FirstIsIn
  <1>3. /\ stack' = [stack EXCEPT ![Len(stack)].todo = Top.todo \ {e}]
        /\ UNCHANGED <<targets, cur, ancestors, streams, failed>>
    <2>1. stack' = [stack EXCEPT ![Len(stack)].todo = @ \ {e}]
      BY DEF Pick
    <2> QED
      BY <2>1 DEF Pick, Program, found, Top
  <1>4. \/ pc' = "list" /\ child' = child
        \/ pc' = "eval" /\ child' = ChildPath(e.name)
    BY <1>1 DEF Pick
  <1>5. e \in Item /\ e.name \in Name
    BY <1>2 DEF Item
  <1> HIDE DEF e
  <1>6. Top.todo \ {e} \subseteq Item
    BY <1>2
  <1> QED
    BY <1>1, <1>2, <1>3, <1>4, <1>5, <1>6 DEF e

LEMMA WalkPick == ASSUME HistoryInv, WalkInv, Pick PROVE WalkInv'
  <1> DEFINE e == First(Top.todo)
             T == Top.todo \ {e}
  <1>1. /\ stack # <<>> /\ e.name \in Name /\ T \subseteq Item
        /\ stack' = [stack EXCEPT ![Len(stack)].todo = T]
        /\ UNCHANGED <<targets, cur, ancestors, streams, failed>>
        /\ \/ pc' = "list" /\ child' = child
           \/ pc' = "eval" /\ child' = ChildPath(e.name)
    BY PickFacts
  <1>2. pc' = "eval" => child' \in Seq(Name) /\ Len(child') = Len(stack) /\ On(Top.path, child')
    BY <1>1, ChildPathFacts
  <1>3. pc' \in {"list", "eval"} /\ failed' \in BOOLEAN
    BY <1>1 DEF WalkInv
  <1> HIDE DEF e, T
  <1> QED
    BY <1>1, <1>2, <1>3, WalkNewTodo

\* The call that Descend makes.
ChildCall == [path |-> child, real |-> Resolve(Target.base, child), todo |-> {}]

LEMMA DescendFacts ==
    ASSUME HistoryInv, WalkInv, Descend
    PROVE  /\ pc = "eval" /\ stack # <<>>
           /\ UNCHANGED <<targets, cur, failed, streams>>
           /\ child \in Seq(Name) /\ Len(child) = Len(stack) /\ On(Top.path, child)
           /\ \A k \in DOMAIN stack : On(stack[k].path, child)
           /\ Resolve(Target.base, child) \in ancestors => pc' = "list" /\ UNCHANGED <<stack, ancestors>>
           /\ Resolve(Target.base, child) \notin ancestors =>
                  /\ pc' = "enter"
                  /\ ancestors' = ancestors \cup ({Resolve(Target.base, child)} \ {Nowhere})
                  /\ stack' \in Seq(Frame) /\ Len(stack') = Len(stack) + 1
                  /\ DOMAIN stack' = 1..(Len(stack) + 1)
                  /\ \A i \in DOMAIN stack : stack'[i] = stack[i]
                  /\ stack'[Len(stack) + 1] = ChildCall /\ Top' = ChildCall
  <1> DEFINE real == Resolve(Target.base, child)
             n == Len(stack)
  <1>1. pc = "eval" /\ UNCHANGED <<targets, cur, failed, streams>>
    BY DEF Descend, Program, found
  <1>2. /\ stack # <<>> /\ n \in DOMAIN stack /\ n \in Nat /\ DOMAIN stack = 1..n
        /\ stack \in Seq(Frame) /\ stack[n] = Top /\ Target.base \in Dir
        /\ Top.path \in Seq(Name)
    BY <1>1, TopFacts DEF WalkInv
  <1>3. child \in Seq(Name) /\ Len(child) = n /\ On(Top.path, child)
    BY <1>1 DEF WalkInv
  <1>4. \A k \in DOMAIN stack : On(stack[k].path, child)
    <2> SUFFICES ASSUME NEW k \in DOMAIN stack PROVE On(stack[k].path, child)
      OBVIOUS
    <2>1. stack[k] \in Frame
      BY <1>2
    <2>4. On(stack[k].path, Top.path)
      BY <1>2, TopFacts
    <2>2. stack[k].path \in Seq(Name)
      BY <2>1 DEF Frame
    <2>3. Len(stack[k].path) \in Nat /\ Len(Top.path) \in Nat /\ Len(child) \in Nat
      BY <1>2, <1>3, <2>2
    <2> QED
      BY <1>3, <2>3, <2>4 DEF On
  <1>5. real \in ancestors => pc' = "list" /\ UNCHANGED <<stack, ancestors>>
    BY DEF Descend
  <1>6. ASSUME real \notin ancestors
        PROVE  /\ pc' = "enter" /\ ancestors' = ancestors \cup ({real} \ {Nowhere})
               /\ stack' \in Seq(Frame) /\ Len(stack') = n + 1 /\ DOMAIN stack' = 1..(n + 1)
               /\ \A i \in DOMAIN stack : stack'[i] = stack[i]
               /\ stack'[n + 1] = ChildCall /\ Top' = ChildCall
    <2>1. /\ pc' = "enter" /\ stack' = Append(stack, ChildCall)
          /\ ancestors' = ancestors \cup ({real} \ {Nowhere})
      BY <1>6 DEF Descend, ChildCall
    <2>2. real \in Where
      BY <1>2, <1>3, ResolveType DEF HistoryInv
    <2> HIDE DEF real
    <2>3. ChildCall \in Frame
      BY <1>3, <2>2 DEF Frame, ChildCall, real
    <2>4. /\ stack' \in Seq(Frame) /\ Len(stack') = n + 1 /\ DOMAIN stack' = 1..(n + 1)
          /\ \A i \in 1..n : stack'[i] = stack[i]
          /\ stack'[n + 1] = ChildCall
      BY <1>2, <2>1, <2>3
    <2> QED
      BY <1>2, <2>1, <2>4 DEF Top
  <1> QED
    BY <1>1, <1>2, <1>3, <1>4, <1>5, <1>6

LEMMA WalkDescend == ASSUME HistoryInv, WalkInv, Descend PROVE WalkInv'
  <1> DEFINE real == Resolve(Target.base, child)
             call == ChildCall
             n == Len(stack)
  <1>1. pc = "eval" /\ stack # <<>> /\ UNCHANGED <<targets, cur, failed, streams>>
    BY DescendFacts
  <1>2. /\ stack # <<>> /\ n \in DOMAIN stack /\ n \in Nat /\ DOMAIN stack = 1..n
        /\ stack \in Seq(Frame) /\ stack[n] = Top
    BY <1>1, TopFacts DEF WalkInv
  <1>3. child \in Seq(Name) /\ Len(child) = n /\ \A k \in DOMAIN stack : On(stack[k].path, child)
    BY DescendFacts
  <1>4. Target' = Target
    BY <1>1 DEF Target
  <1>5. CASE real \in ancestors
    <2>1. pc' = "list" /\ UNCHANGED <<stack, ancestors>>
      BY <1>5, DescendFacts
    <2> QED
      BY <1>1, <1>4, <2>1 DEF WalkInv
  <1>6. CASE real \notin ancestors
    <2>1. pc' = "enter" /\ ancestors' = ancestors \cup ({real} \ {Nowhere})
      BY <1>6, DescendFacts
    <2> HIDE DEF real
    <2>4. call.path = child /\ call.real = real /\ call.todo = {}
      BY DEF ChildCall, real
    <2> HIDE DEF call
    <2>5. /\ stack' \in Seq(Frame) /\ Len(stack') = n + 1 /\ DOMAIN stack' = 1..(n + 1)
          /\ \A i \in 1..n : stack'[i] = stack[i]
          /\ stack'[n + 1] = call /\ stack' # <<>>
      BY <1>2, <1>6, DescendFacts DEF call, real
    <2> HIDE DEF n
    <2>6. \A i \in DOMAIN stack' : Len(stack'[i].path) = i - 1
      <3>1. \A i \in 1..n : Len(stack[i].path) = i - 1
        BY <1>2 DEF WalkInv
      <3>2. Len(call.path) = (n + 1) - 1
        BY <1>2, <1>3, <2>4
      <3> QED
        BY <1>2, <2>5, <3>1, <3>2
    <2>7. \A i, j \in DOMAIN stack' : i <= j => On(stack'[i].path, stack'[j].path)
      <3> SUFFICES ASSUME NEW i \in 1..(n + 1), NEW j \in 1..(n + 1), i <= j
                   PROVE  On(stack'[i].path, stack'[j].path)
        BY <2>5
      <3>1. CASE j # n + 1
        <4>1. i \in 1..n /\ j \in 1..n
          BY <1>2, <3>1
        <4> QED
          BY <1>2, <2>5, <4>1 DEF WalkInv
      <3>2. CASE j = n + 1 /\ i # n + 1
        <4>1. i \in 1..n
          BY <1>2, <3>2
        <4> QED
          BY <1>2, <1>3, <2>4, <2>5, <3>2, <4>1
      <3>3. CASE j = n + 1 /\ i = n + 1
        <4>1. Len(child) \in Nat
          BY <1>3
        <4> QED
          BY <2>4, <2>5, <3>3, <4>1 DEF On
      <3> QED
        BY <3>1, <3>2, <3>3
    <2>8. ancestors' = {stack'[i].real : i \in DOMAIN stack'} \ {Nowhere}
      <3>1. {stack'[i].real : i \in DOMAIN stack'} = {stack[i].real : i \in DOMAIN stack} \cup {real}
        <4>1. \A i \in DOMAIN stack' : i = n + 1 \/ i \in DOMAIN stack
          BY <1>2, <2>5
        <4>2. n + 1 \in DOMAIN stack' /\ DOMAIN stack \subseteq DOMAIN stack'
          BY <1>2, <2>5
        <4>3. \A i \in DOMAIN stack : stack'[i] = stack[i]
          BY <1>2, <2>5
        <4> QED
          BY <2>4, <2>5, <4>1, <4>2, <4>3
      <3> QED
        BY <2>1, <3>1 DEF WalkInv
    <2>9. \A i, j \in DOMAIN stack' :
              i # j /\ stack'[i].real = stack'[j].real => stack'[i].real = Nowhere
      <3> SUFFICES ASSUME NEW i \in 1..(n + 1), NEW j \in 1..(n + 1), i # j,
                          stack'[i].real = stack'[j].real
                   PROVE  stack'[i].real = Nowhere
        BY <2>5
      <3>1. \A k \in 1..n : stack'[k].real = real => real = Nowhere
        <4> SUFFICES ASSUME NEW k \in 1..n, stack'[k].real = real, real # Nowhere PROVE FALSE
          OBVIOUS
        <4>1. stack[k].real = real /\ k \in DOMAIN stack
          BY <1>2, <2>5
        <4> QED
          BY <1>6, <4>1 DEF WalkInv, real
      <3>2. CASE i # n + 1 /\ j # n + 1
        <4>1. i \in DOMAIN stack /\ j \in DOMAIN stack /\ stack'[i] = stack[i] /\ stack'[j] = stack[j]
          BY <1>2, <2>5, <3>2
        <4> QED
          BY <4>1 DEF WalkInv
      <3>3. CASE i = n + 1
        <4>1. j \in 1..n
          BY <1>2, <3>3
        <4> QED
          BY <2>4, <2>5, <3>1, <3>3, <4>1
      <3>4. CASE j = n + 1
        <4>1. i \in 1..n
          BY <1>2, <3>4
        <4> QED
          BY <2>4, <2>5, <3>1, <3>4, <4>1
      <3> QED
        BY <3>2, <3>3, <3>4
    <2>10. Top'.todo = {}
      BY <2>4, <2>5 DEF Top
    <2> QED
      BY <1>1, <1>2, <1>4, <2>1, <2>5, <2>6, <2>7, <2>8, <2>9, <2>10 DEF WalkInv
  <1> QED
    BY <1>5, <1>6

LEMMA ReturnFacts ==
    ASSUME WalkInv, Return
    PROVE  /\ pc = "list" /\ stack # <<>> /\ Top.todo = {}
           /\ Len(stack) \in DOMAIN stack /\ Len(stack) \in Nat /\ DOMAIN stack = 1..Len(stack)
           /\ stack[Len(stack)] = Top
           /\ stack' \in Seq(Frame) /\ Len(stack') = Len(stack) - 1
           /\ DOMAIN stack' = 1..(Len(stack) - 1)
           /\ \A i \in DOMAIN stack' : i \in DOMAIN stack /\ i # Len(stack) /\ stack'[i] = stack[i]
           /\ \A i \in DOMAIN stack : i = Len(stack) \/ i \in DOMAIN stack'
           /\ ancestors' = ancestors \ {Top.real}
           /\ UNCHANGED <<targets, child, failed, streams>>
           /\ Len(stack) = 1 => pc' = "target" /\ cur' = cur + 1
           /\ Len(stack) # 1 => pc' = "list" /\ cur' = cur
  <1> DEFINE n == Len(stack)
  <1>1. /\ pc = "list" /\ Top.todo = {}
        /\ stack' = Front(stack) /\ ancestors' = ancestors \ {Top.real}
        /\ UNCHANGED <<targets, child, failed, streams>>
        /\ n = 1 => pc' = "target" /\ cur' = cur + 1
        /\ n # 1 => pc' = "list" /\ cur' = cur
    BY DEF Return, Program, found, Released
  <1>2. stack # <<>> /\ stack \in Seq(Frame) /\ DOMAIN stack = 1..n /\ n \in Nat /\ stack[n] = Top
    BY <1>1 DEF WalkInv, Top
  <1>3. /\ stack' \in Seq(Frame) /\ Len(stack') = n - 1 /\ DOMAIN stack' = 1..(n - 1)
        /\ \A i \in 1..(n - 1) : stack'[i] = stack[i]
        /\ n \in DOMAIN stack
    BY <1>1, <1>2, FrontFacts
  <1> HIDE DEF n
  <1>4. \A i \in DOMAIN stack' : i \in DOMAIN stack /\ i # n /\ stack'[i] = stack[i]
    BY <1>2, <1>3
  <1>5. \A i \in DOMAIN stack : i = n \/ i \in DOMAIN stack'
    BY <1>2, <1>3
  <1> QED
    BY <1>1, <1>2, <1>3, <1>4, <1>5 DEF n

LEMMA WalkReturn == ASSUME WalkInv, Return PROVE WalkInv'
  <1> DEFINE n == Len(stack)
  <1>1. /\ pc = "list" /\ ancestors' = ancestors \ {Top.real}
        /\ UNCHANGED <<targets, child, failed, streams>>
        /\ n = 1 => pc' = "target" /\ cur' = cur + 1
        /\ n # 1 => pc' = "list" /\ cur' = cur
    BY ReturnFacts
  <1>2. stack # <<>> /\ n \in DOMAIN stack /\ n \in Nat /\ stack[n] = Top
    BY ReturnFacts
  <1>3. stack' \in Seq(Frame) /\ Len(stack') = n - 1 /\ DOMAIN stack' = 1..(n - 1)
    BY ReturnFacts
  <1>0. /\ \A i \in DOMAIN stack' : i \in DOMAIN stack /\ i # n /\ stack'[i] = stack[i]
        /\ \A i \in DOMAIN stack : i = n \/ i \in DOMAIN stack'
    BY ReturnFacts
  <1> HIDE DEF n
  <1>4. \A i \in DOMAIN stack' : i \in DOMAIN stack /\ i # n /\ stack'[i] = stack[i]
    BY <1>0
  <1>5. \A i \in DOMAIN stack' : Len(stack'[i].path) = i - 1
    BY <1>4 DEF WalkInv
  <1>6. \A i, j \in DOMAIN stack' : i <= j => On(stack'[i].path, stack'[j].path)
    BY <1>4 DEF WalkInv
  <1>7. \A i, j \in DOMAIN stack' :
            i # j /\ stack'[i].real = stack'[j].real => stack'[i].real = Nowhere
    BY <1>4 DEF WalkInv
  <1>8. ancestors' = {stack'[i].real : i \in DOMAIN stack'} \ {Nowhere}
    <2>1. \A i \in DOMAIN stack : i = n \/ i \in DOMAIN stack'
      BY <1>0
    <2>2. \A i \in DOMAIN stack' : stack'[i].real # Nowhere => stack'[i].real # Top.real
      BY <1>2, <1>4 DEF WalkInv
    <2>3. ancestors = {stack[i].real : i \in DOMAIN stack} \ {Nowhere}
      BY DEF WalkInv
    <2> QED
      BY <1>1, <1>2, <1>4, <2>1, <2>2, <2>3
  <1>9. CASE n = 1
    <2>1. stack' = <<>>
      BY <1>3, <1>9
    <2>2. pc' = "target" /\ cur' \in 1..(Len(targets') + 1)
      BY <1>1, <1>2, <1>9 DEF WalkInv
    <2> QED
      BY <1>1, <1>3, <1>5, <1>6, <1>7, <1>8, <2>1, <2>2 DEF WalkInv
  <1>10. CASE n # 1
    <2>1. stack' # <<>>
      BY <1>2, <1>3, <1>10
    <2>2. pc' = "list" /\ cur' = cur /\ Target' = Target
      BY <1>1, <1>10 DEF Target
    <2> QED
      BY <1>1, <1>2, <1>3, <1>5, <1>6, <1>7, <1>8, <2>1, <2>2 DEF WalkInv
  <1> QED
    BY <1>9, <1>10

LEMMA WalkEndDiscover == ASSUME WalkInv, EndDiscover, targets # <<>>, TargetsInv PROVE WalkInv'
  <1>1. /\ pc = "target" /\ pc' = "streams" /\ cur' = 1
        /\ UNCHANGED <<targets, stack, child, ancestors, failed, streams>>
    BY DEF EndDiscover, Program, found, walk
  <1>2. Len(targets) \in Nat \ {0}
    BY SeqFacts DEF TargetsInv
  <1>3. stack = <<>> /\ cur' \in 1..(Len(targets') + 1) /\ cur' <= Len(targets')
    BY <1>1, <1>2 DEF WalkInv
  <1> QED
    BY <1>1, <1>3 DEF WalkInv

LEMMA ListingType ==
    ASSUME TreeInv, NEW b \in Dir, NEW p \in Seq(Name), Readable(Resolve(b, p))
    PROVE  Resolve(b, p) \in Dir /\ Listing(Resolve(b, p)) \subseteq Item
  <1>1. Resolve(b, p) \in Dir
    BY ResolveType DEF Readable, Where
  <1> QED
    BY <1>1, Listed

LEMMA WalkFindNodes == ASSUME HistoryInv, WalkInv, FindNodes PROVE WalkInv'
  <1>1. /\ pc \in {"streams", "nodes"}
        /\ UNCHANGED <<targets, stack, child, ancestors, failed>>
    BY DEF FindNodes, ListStreams, ListNodes, EndStreams, Program, found, walk
  <1>2. stack = <<>> /\ cur <= Len(targets) /\ Target.base \in Dir
    BY <1>1 DEF WalkInv, HistoryInv, TargetsInv, IsTarget, Target
  <1>3. Len(targets) \in Nat
    BY SeqFacts DEF HistoryInv, TargetsInv
  <1>4. /\ streams' \subseteq Item
        /\ \/ pc' = "nodes" /\ cur' = cur
           \/ pc' = (IF cur < Len(targets) THEN "streams" ELSE "done") /\ cur' = cur + 1
    <2>1. CASE ListStreams
      <3>1. <<>> \in Seq(Name)
        OBVIOUS
      <3>2. Readable(Resolve(Target.base, <<>>)) => Listing(Resolve(Target.base, <<>>)) \subseteq Item
        BY <1>2, <3>1, ListingType DEF HistoryInv
      <3> QED
        BY <2>1, <3>2 DEF ListStreams, NextTarget, Plain, WalkInv
    <2>2. CASE ListNodes
      BY <2>2 DEF ListNodes, WalkInv
    <2>3. CASE EndStreams
      BY <2>3 DEF EndStreams, NextTarget, WalkInv
    <2> QED
      BY <2>1, <2>2, <2>3 DEF FindNodes
  <1>5. /\ cur' \in 1..(Len(targets') + 1)
        /\ pc' \in {"streams", "nodes"} => cur' <= Len(targets')
        /\ pc' \in {"streams", "nodes", "done"}
    BY <1>1, <1>2, <1>3, <1>4 DEF WalkInv
  <1> QED
    BY <1>1, <1>2, <1>4, <1>5 DEF WalkInv

LEMMA WalkStep ==
    ASSUME HistoryInv, WalkInv,
           Change \/ (Discover /\ targets # <<>>) \/ UNCHANGED discoveryVars
    PROVE  WalkInv'
  <1>1. CASE Change
    BY <1>1, WalkSame DEF Change, found, walk
  <1>2. CASE UNCHANGED discoveryVars
    BY <1>2, WalkSame DEF discoveryVars, found, walk
  <1>3. CASE Discover /\ targets # <<>>
    BY <1>3, WalkUseExplicit, WalkRefuse, WalkStartWalk, WalkEnter, WalkPick, WalkDescend,
       WalkReturn, WalkEndDiscover, WalkFindNodes
       DEF Discover, Walk, HistoryInv
  <1> QED
    BY <1>1, <1>2, <1>3

LEMMA WalkTypes == HistoryInv /\ WalkInv => DiscoveryTypeOK
  <1> SUFFICES ASSUME HistoryInv, WalkInv PROVE DiscoveryTypeOK
    OBVIOUS
  <1>1. ancestors \subseteq Dir
    <2>1. \A i \in DOMAIN stack : stack[i] \in Frame
      BY SeqFacts DEF WalkInv
    <2>2. \A i \in DOMAIN stack : stack[i].real \in Where
      BY <2>1 DEF Frame
    <2> QED
      BY <2>2 DEF WalkInv, Where
  <1>2. steady \subseteq seen
    BY DEF HistoryInv
  <1> QED
    BY <1>1, <1>2 DEF HistoryInv, TreeInv, WalkInv, DiscoveryTypeOK

-----------------------------------------------------------------------------
(***************************************************************************)
(* Parts of sequences                                                      *)
(***************************************************************************)
\* How Kept comes about, one place after the other.
KeptSteps(s, places, g) ==
    /\ g[0] = <<>>
    /\ \A i \in 1..Len(s) : g[i] = IF i \in places THEN Append(g[i - 1], s[i]) ELSE g[i - 1]
    /\ Kept(s, places) = g[Len(s)]

LEMMA KeptRule ==
    ASSUME NEW S, NEW s \in Seq(S), NEW places
    PROVE  \E g \in [0..Len(s) -> Seq(S)] : KeptSteps(s, places, g)
  <1> DEFINE n == Len(s)
             F == [q \in (1..n) \X Seq(S) |->
                      IF q[1] \in places THEN Append(q[2], s[q[1]]) ELSE q[2]]
             Body(f) == [i \in 0..n |-> IF i = 0 THEN <<>>
                                        ELSE IF i \in places THEN Append(f[i - 1], s[i])
                                        ELSE f[i - 1]]
             kept == CHOOSE f : f = Body(f)
  <1>1. n \in Nat /\ \A i \in 1..n : s[i] \in S
    BY SeqFacts
  <1>2. F \in [(1..n) \X Seq(S) -> Seq(S)]
    <2>1. \A q \in (1..n) \X Seq(S) :
              (IF q[1] \in places THEN Append(q[2], s[q[1]]) ELSE q[2]) \in Seq(S)
      BY <1>1
    <2> QED
      BY <2>1
  <1>3. \A i \in 1..n : \A x \in Seq(S) :
            F[<<i, x>>] = IF i \in places THEN Append(x, s[i]) ELSE x
    OBVIOUS
  <1>4. Kept(s, places) = kept[n]
    BY DEF Kept
  <1> HIDE DEF F
  <1>5. PICK g \in [0..n -> Seq(S)] : g[0] = <<>> /\ \A i \in 1..n : g[i] = F[<<i, g[i - 1]>>]
    <2>1. <<>> \in Seq(S)
      OBVIOUS
    <2> HIDE DEF n
    <2>2. PICK g : Iterates(g, F, Seq(S), <<>>, n)
      BY <1>1, <1>2, <2>1, Iteration, Zenon
    <2> QED
      BY <2>2 DEF Iterates
  <1>6. \A i \in 1..n : g[i] = IF i \in places THEN Append(g[i - 1], s[i]) ELSE g[i - 1]
    <2> SUFFICES ASSUME NEW i \in 1..n
                 PROVE  g[i] = IF i \in places THEN Append(g[i - 1], s[i]) ELSE g[i - 1]
      OBVIOUS
    <2>1. g[i - 1] \in Seq(S)
      BY <1>1
    <2> HIDE DEF n
    <2> QED
      BY <1>3, <1>5, <2>1
  <1>7. g = Body(g)
    <2>1. \A i \in 0..n : i = 0 \/ i \in 1..n
      BY <1>1
    <2> HIDE DEF n
    <2> QED
      BY <1>5, <1>6, <2>1
  <1>8. kept = Body(kept)
    <2> HIDE DEF Body
    <2> QED
      BY <1>7
  <1> HIDE DEF kept
  <1>9. /\ kept = [i \in 0..n |-> kept[i]]
        /\ kept[0] = <<>>
        /\ \A i \in 1..n : kept[i] = IF i \in places THEN Append(kept[i - 1], s[i]) ELSE kept[i - 1]
    <2>1. 0 \in 0..n /\ \A i \in 1..n : i \in 0..n /\ i # 0
      BY <1>1
    <2>2. DOMAIN kept = 0..n /\ kept = [i \in 0..n |-> kept[i]]
      BY <1>8
    <2>3. \A i \in 0..n : kept[i] = IF i = 0 THEN <<>>
                                     ELSE IF i \in places THEN Append(kept[i - 1], s[i])
                                     ELSE kept[i - 1]
      BY <1>8
    <2> HIDE DEF n
    <2> QED
      BY <2>1, <2>2, <2>3
  <1> DEFINE T == {k \in 0..n : kept[k] = g[k]}
  <1>10. 0 \in T
    BY <1>1, <1>5, <1>9
  <1>11. \A k \in 0..(n - 1) : k \in T => k + 1 \in T
    <2> SUFFICES ASSUME NEW k \in 0..(n - 1), kept[k] = g[k]
                 PROVE  k + 1 \in 0..n /\ kept[k + 1] = g[k + 1]
      OBVIOUS
    <2>1. k + 1 \in 0..n /\ k + 1 \in 1..n /\ (k + 1) - 1 = k
      BY <1>1
    <2> HIDE DEF n
    <2> QED
      BY <1>6, <1>9, <2>1
  <1>12. 0..n \subseteq T
    <2> HIDE DEF T, n
    <2> QED
      BY <1>1, <1>10, <1>11, InductionTo
  <1>13. \A i \in 0..n : kept[i] = g[i]
    BY <1>12
  <1>14. kept[n] = g[n]
    BY <1>1, <1>13
  <1> QED
    BY <1>4, <1>5, <1>6, <1>14 DEF KeptSteps

LEMMA KeptType ==
    ASSUME NEW S, NEW s \in Seq(S), NEW places
    PROVE  Kept(s, places) \in Seq(S)
  <1>1. PICK g \in [0..Len(s) -> Seq(S)] : KeptSteps(s, places, g)
    BY KeptRule
  <1>2. Len(s) \in 0..Len(s)
    BY SeqFacts
  <1> QED
    BY <1>1, <1>2 DEF KeptSteps

LEMMA AppendSeq ==
    ASSUME NEW S, NEW x \in Seq(S), NEW e \in S
    PROVE  /\ Append(x, e) \in Seq(S) /\ Len(x) \in Nat /\ Len(Append(x, e)) = Len(x) + 1
           /\ \A m \in 1..Len(x) : Append(x, e)[m] = x[m]
           /\ Append(x, e)[Len(x) + 1] = e
  OBVIOUS

\* Sequences of one length that agree in what is kept agree where it is kept.
LEMMA KeptAligned ==
    ASSUME NEW S, NEW p \in Seq(S), NEW q \in Seq(S), Len(p) = Len(q), NEW places,
           Kept(p, places) = Kept(q, places)
    PROVE  \A i \in 1..Len(p) : i \in places => p[i] = q[i]
  <1> DEFINE n == Len(p)
  <1>1. PICK g \in [0..n -> Seq(S)] : KeptSteps(p, places, g)
    BY KeptRule
  <1>2. PICK h \in [0..n -> Seq(S)] : KeptSteps(q, places, h)
    BY KeptRule
  <1>3. n \in Nat /\ Len(q) = n /\ \A i \in 1..n : p[i] \in S /\ q[i] \in S
    BY SeqFacts
  <1>4. /\ g[0] = <<>> /\ h[0] = <<>> /\ g[n] = h[n]
        /\ \A i \in 1..n : g[i] = IF i \in places THEN Append(g[i - 1], p[i]) ELSE g[i - 1]
        /\ \A i \in 1..n : h[i] = IF i \in places THEN Append(h[i - 1], q[i]) ELSE h[i - 1]
    BY <1>1, <1>2, <1>3 DEF KeptSteps
  <1> DEFINE Same(k) ==
               /\ Len(g[k]) = Len(h[k])
               /\ \A i \in 1..k : i \in places =>
                      \E m \in 1..Len(g[k]) : g[k][m] = p[i] /\ h[k][m] = q[i]
             T == {k \in 0..n : Same(k)}
  <1> HIDE DEF n
  <1>5. 0 \in T
    BY <1>3, <1>4
  <1>6. \A k \in 0..(n - 1) : k \in T => k + 1 \in T
    <2> SUFFICES ASSUME NEW k \in 0..(n - 1), Same(k)
                 PROVE  k + 1 \in 0..n /\ Same(k + 1)
      OBVIOUS
    <2>1. k + 1 \in 0..n /\ k + 1 \in 1..n /\ (k + 1) - 1 = k /\ k \in 0..n /\ k \in Nat
      BY <1>3
    <2>2. g[k] \in Seq(S) /\ h[k] \in Seq(S) /\ p[k + 1] \in S /\ q[k + 1] \in S
      BY <1>1, <1>2, <1>3, <2>1
    <2>3. CASE k + 1 \notin places
      <3>1. g[k + 1] = g[k] /\ h[k + 1] = h[k]
        BY <1>4, <2>1, <2>3
      <3>2. ASSUME NEW i \in 1..(k + 1), i \in places
            PROVE  i \in 1..k
        BY <2>1, <2>3, <3>2
      <3> QED
        BY <2>1, <3>1, <3>2
    <2>4. CASE k + 1 \in places
      <3>1. g[k + 1] = Append(g[k], p[k + 1]) /\ h[k + 1] = Append(h[k], q[k + 1])
        BY <1>4, <2>1, <2>4
      <3>2. /\ Len(g[k + 1]) = Len(g[k]) + 1 /\ Len(g[k]) \in Nat
            /\ \A m \in 1..Len(g[k]) : g[k + 1][m] = g[k][m]
            /\ g[k + 1][Len(g[k]) + 1] = p[k + 1]
        BY <2>2, <3>1, AppendSeq
      <3>3. /\ Len(h[k + 1]) = Len(h[k]) + 1
            /\ \A m \in 1..Len(h[k]) : h[k + 1][m] = h[k][m]
            /\ h[k + 1][Len(h[k]) + 1] = q[k + 1]
        BY <2>2, <3>1, AppendSeq
      <3>4. ASSUME NEW i \in 1..(k + 1), i \in places
            PROVE  \E m \in 1..Len(g[k + 1]) : g[k + 1][m] = p[i] /\ h[k + 1][m] = q[i]
        <4>1. CASE i = k + 1
          <5>1. Len(g[k]) + 1 \in 1..Len(g[k + 1])
            BY <3>2
          <5> QED
            BY <3>2, <3>3, <4>1, <5>1
        <4>2. CASE i # k + 1
          <5>1. i \in 1..k
            BY <2>1, <4>2
          <5>2. PICK m \in 1..Len(g[k]) : g[k][m] = p[i] /\ h[k][m] = q[i]
            BY <3>4, <5>1
          <5>3. m \in 1..Len(g[k + 1]) /\ g[k + 1][m] = p[i] /\ h[k + 1][m] = q[i]
            BY <3>2, <3>3, <5>2
          <5> QED
            BY <5>3
        <4> QED
          BY <4>1, <4>2
      <3>5. Len(g[k + 1]) = Len(h[k + 1])
        BY <3>2, <3>3
      <3> QED
        BY <2>1, <3>4, <3>5
    <2> QED
      BY <2>3, <2>4
  <1>7. 0..n \subseteq T
    <2> HIDE DEF T
    <2> QED
      BY <1>3, <1>5, <1>6, InductionTo
  <1>8. Same(n)
    BY <1>3, <1>7
  <1> QED
    BY <1>4, <1>8 DEF n

\* All but the first.
LEMMA KeptRest ==
    ASSUME NEW S, NEW p \in Seq(S), p # <<>>
    PROVE  Len(Kept(p, 2..Len(p))) = Len(p) - 1
  <1> DEFINE n == Len(p)
             places == 2..n
  <1>1. PICK g \in [0..n -> Seq(S)] : KeptSteps(p, places, g)
    BY KeptRule
  <1>2. n \in Nat \ {0} /\ \A i \in 1..n : p[i] \in S
    BY SeqFacts
  <1>3. /\ g[0] = <<>> /\ g[n] = Kept(p, places)
        /\ \A i \in 1..n : g[i] = IF i \in places THEN Append(g[i - 1], p[i]) ELSE g[i - 1]
    BY <1>1 DEF KeptSteps
  <1> DEFINE T == {k \in 0..n : k # 0 => Len(g[k]) = k - 1}
  <1> HIDE DEF n
  <1>4. 0 \in T
    BY <1>2
  <1>5. \A k \in 0..(n - 1) : k \in T => k + 1 \in T
    <2> SUFFICES ASSUME NEW k \in 0..(n - 1), k # 0 => Len(g[k]) = k - 1
                 PROVE  k + 1 \in 0..n /\ (k + 1 # 0 => Len(g[k + 1]) = (k + 1) - 1)
      OBVIOUS
    <2>1. k + 1 \in 0..n /\ k + 1 \in 1..n /\ (k + 1) - 1 = k /\ k \in 0..n /\ k \in Nat
      BY <1>2
    <2>2. CASE k = 0
      <3>1. g[k + 1] = <<>>
        BY <1>3, <2>1, <2>2
      <3> QED
        BY <2>1, <2>2, <3>1
    <2>3. CASE k # 0
      <3>1. k + 1 \in places
        BY <2>1, <2>3
      <3>2. g[k + 1] = Append(g[k], p[k + 1]) /\ g[k] \in Seq(S) /\ p[k + 1] \in S
        BY <1>1, <1>2, <1>3, <2>1, <3>1
      <3>3. Len(g[k + 1]) = Len(g[k]) + 1
        BY <3>2, AppendSeq
      <3> QED
        BY <2>1, <2>3, <3>3
    <2> QED
      BY <2>2, <2>3
  <1>6. 0..n \subseteq T
    <2> HIDE DEF T
    <2> QED
      BY <1>2, <1>4, <1>5, InductionTo
  <1>7. Len(g[n]) = n - 1
    BY <1>2, <1>6
  <1> QED
    BY <1>3, <1>7 DEF n

\* What is kept differs if it differs where it is kept.
LEMMA KeptDistinct ==
    ASSUME NEW S, NEW p \in Seq(S), NEW places,
           \A i, j \in 1..Len(p) : i \in places /\ j \in places /\ i # j => p[i] # p[j]
    PROVE  \A m, r \in 1..Len(Kept(p, places)) : m # r => Kept(p, places)[m] # Kept(p, places)[r]
  <1> DEFINE n == Len(p)
  <1>1. PICK g \in [0..n -> Seq(S)] : KeptSteps(p, places, g)
    BY KeptRule
  <1>2. n \in Nat /\ \A i \in 1..n : p[i] \in S
    BY SeqFacts
  <1>3. /\ g[0] = <<>> /\ g[n] = Kept(p, places)
        /\ \A i \in 1..n : g[i] = IF i \in places THEN Append(g[i - 1], p[i]) ELSE g[i - 1]
    BY <1>1 DEF KeptSteps
  <1>4. \A i, j \in 1..n : i \in places /\ j \in places /\ i # j => p[i] # p[j]
    OBVIOUS
  <1> DEFINE From(k) == \A m \in 1..Len(g[k]) : \E i \in 1..k : i \in places /\ g[k][m] = p[i]
             Apart(k) == \A m, r \in 1..Len(g[k]) : m # r => g[k][m] # g[k][r]
             T == {k \in 0..n : From(k) /\ Apart(k)}
  <1> HIDE DEF n
  <1>5. 0 \in T
    BY <1>2, <1>3
  <1>6. \A k \in 0..(n - 1) : k \in T => k + 1 \in T
    <2> SUFFICES ASSUME NEW k \in 0..(n - 1), From(k), Apart(k)
                 PROVE  k + 1 \in 0..n /\ From(k + 1) /\ Apart(k + 1)
      OBVIOUS
    <2>1. k + 1 \in 0..n /\ k + 1 \in 1..n /\ (k + 1) - 1 = k /\ k \in 0..n /\ k \in Nat
          /\ 1..k \subseteq 1..(k + 1) /\ 1..(k + 1) \subseteq 1..n
      BY <1>2
    <2>2. g[k] \in Seq(S) /\ p[k + 1] \in S /\ Len(g[k]) \in Nat
      BY <1>1, <1>2, <2>1, SeqFacts
    <2>3. CASE k + 1 \notin places
      <3>1. g[k + 1] = g[k]
        BY <1>3, <2>1, <2>3
      <3>2. From(k + 1)
        BY <2>1, <3>1
      <3>3. Apart(k + 1)
        BY <3>1
      <3> QED
        BY <2>1, <3>2, <3>3
    <2>4. CASE k + 1 \in places
      <3> DEFINE l == Len(g[k])
      <3>1. g[k + 1] = Append(g[k], p[k + 1])
        BY <1>3, <2>1, <2>4
      <3>2. /\ Len(g[k + 1]) = l + 1 /\ l \in Nat
            /\ \A m \in 1..l : g[k + 1][m] = g[k][m]
            /\ g[k + 1][l + 1] = p[k + 1]
        BY <2>2, <3>1, AppendSeq
      <3> HIDE DEF l
      <3>3. \A m \in 1..Len(g[k + 1]) : m = l + 1 \/ m \in 1..l
        BY <3>2
      <3>4. \A m \in 1..l : \E i \in 1..k : i \in places /\ g[k + 1][m] = p[i]
        BY <3>2 DEF l
      <3>5. From(k + 1)
        <4> SUFFICES ASSUME NEW m \in 1..Len(g[k + 1])
                     PROVE  \E i \in 1..(k + 1) : i \in places /\ g[k + 1][m] = p[i]
          OBVIOUS
        <4>1. CASE m = l + 1
          <5>1. k + 1 \in 1..(k + 1)
            BY <2>1
          <5> QED
            BY <2>4, <3>2, <4>1, <5>1
        <4>2. CASE m \in 1..l
          BY <2>1, <3>4, <4>2
        <4> QED
          BY <3>3, <4>1, <4>2
      <3>6. \A m \in 1..l : g[k + 1][m] # g[k + 1][l + 1]
        <4> SUFFICES ASSUME NEW m \in 1..l PROVE g[k + 1][m] # p[k + 1]
          BY <3>2
        <4>1. PICK i \in 1..k : i \in places /\ g[k + 1][m] = p[i]
          BY <3>4
        <4>2. i \in 1..n /\ i # k + 1
          BY <2>1
        <4> QED
          BY <1>4, <2>1, <2>4, <4>1, <4>2
      <3>7. \A m, r \in 1..l : m # r => g[k + 1][m] # g[k + 1][r]
        BY <3>2 DEF l
      <3>8. Apart(k + 1)
        <4> SUFFICES ASSUME NEW m \in 1..Len(g[k + 1]), NEW r \in 1..Len(g[k + 1]), m # r
                     PROVE  g[k + 1][m] # g[k + 1][r]
          OBVIOUS
        <4>1. (m = l + 1 \/ m \in 1..l) /\ (r = l + 1 \/ r \in 1..l)
          BY <3>3
        <4> QED
          BY <3>6, <3>7, <4>1
      <3> QED
        BY <2>1, <3>5, <3>8
    <2> QED
      BY <2>3, <2>4
  <1>7. 0..n \subseteq T
    <2> HIDE DEF T
    <2> QED
      BY <1>2, <1>5, <1>6, InductionTo
  <1>8. Apart(n)
    BY <1>2, <1>7
  <1> HIDE DEF Apart
  <1>9. Len(Kept(p, places)) = Len(g[n])
    BY <1>3
  <1> QED
    BY <1>3, <1>8 DEF Apart

LEMMA AppendFacts ==
    ASSUME NEW q, q \in Seq(Range(q)), NEW x
    PROVE  /\ Append(q, x) \in Seq(Range(Append(q, x)))
           /\ DOMAIN q = 1..Len(q) /\ Len(q) \in Nat
           /\ DOMAIN Append(q, x) = 1..(Len(q) + 1)
           /\ \A i \in DOMAIN q : Append(q, x)[i] = q[i]
           /\ Append(q, x)[Len(q) + 1] = x
  <1> DEFINE S == Range(q) \cup {x}
             r == Append(q, x)
  <1>1. q \in Seq(S)
    <2>1. DOMAIN q = 1..Len(q) /\ Len(q) \in Nat /\ q = [i \in 1..Len(q) |-> q[i]]
          /\ \A i \in 1..Len(q) : q[i] \in Range(q)
      BY SeqFacts DEF Range
    <2> QED
      BY <2>1
  <1> HIDE DEF S
  <1>2. r \in Seq(S) /\ DOMAIN r = 1..(Len(q) + 1) /\ Len(r) = Len(q) + 1
        /\ (\A i \in 1..Len(q) : r[i] = q[i]) /\ r[Len(q) + 1] = x
        /\ DOMAIN q = 1..Len(q) /\ Len(q) \in Nat
    <2>1. x \in S
      BY DEF S
    <2> QED
      BY <1>1, <2>1
  <1> HIDE DEF r
  <1>3. r \in Seq(Range(r))
    <2>1. r = [i \in 1..Len(r) |-> r[i]] /\ Len(r) \in Nat /\ \A i \in 1..Len(r) : r[i] \in Range(r)
      BY <1>2 DEF Range
    <2> QED
      BY <2>1
  <1> QED
    BY <1>2, <1>3 DEF r

LEMMA ConcatFacts ==
    ASSUME NEW q, q \in Seq(Range(q)), NEW r, r \in Seq(Range(r))
    PROVE  /\ q \o r \in Seq(Range(q \o r))
           /\ DOMAIN q = 1..Len(q) /\ Len(q) \in Nat /\ DOMAIN r = 1..Len(r) /\ Len(r) \in Nat
           /\ DOMAIN (q \o r) = 1..(Len(q) + Len(r))
           /\ \A i \in DOMAIN q : (q \o r)[i] = q[i]
           /\ \A i \in DOMAIN r : (q \o r)[Len(q) + i] = r[i]
  <1> DEFINE S == Range(q) \cup Range(r)
             c == q \o r
  <1>1. q \in Seq(S)
    <2>1. DOMAIN q = 1..Len(q) /\ Len(q) \in Nat /\ q = [i \in 1..Len(q) |-> q[i]]
          /\ \A i \in 1..Len(q) : q[i] \in Range(q)
      BY SeqFacts DEF Range
    <2> QED
      BY <2>1
  <1>2. r \in Seq(S)
    <2>1. DOMAIN r = 1..Len(r) /\ Len(r) \in Nat /\ r = [i \in 1..Len(r) |-> r[i]]
          /\ \A i \in 1..Len(r) : r[i] \in Range(r)
      BY SeqFacts DEF Range
    <2> QED
      BY <2>1
  <1> HIDE DEF S
  <1>3. c \in Seq(S) /\ DOMAIN c = 1..(Len(q) + Len(r)) /\ Len(c) = Len(q) + Len(r)
        /\ (\A i \in 1..Len(q) : c[i] = q[i]) /\ (\A i \in 1..Len(r) : c[Len(q) + i] = r[i])
        /\ DOMAIN q = 1..Len(q) /\ Len(q) \in Nat /\ DOMAIN r = 1..Len(r) /\ Len(r) \in Nat
    BY <1>1, <1>2
  <1> HIDE DEF c
  <1>4. c \in Seq(Range(c))
    <2>1. c = [i \in 1..Len(c) |-> c[i]] /\ Len(c) \in Nat /\ \A i \in 1..Len(c) : c[i] \in Range(c)
      BY <1>3 DEF Range
    <2> QED
      BY <2>1
  <1> QED
    BY <1>3, <1>4 DEF c

-----------------------------------------------------------------------------
(***************************************************************************)
(* The watch list misses nothing                                           *)
(***************************************************************************)
\* The walk is at q, on the way to it, or has an entry on the way to it still to visit.
Pending(q) ==
    \/ pc = "enter" /\ On(Top.path, q)
    \/ pc = "eval" /\ On(child, q)
    \/ \E k \in DOMAIN stack : k <= Len(q) /\ On(stack[k].path, q)
                               /\ \E e \in stack[k].todo : e.name = q[k]

\* The path of v is on the watch list, or there is an error to account for it.
Answered(i, v) ==
    \/ failed /\ ~Listable(v)
    \/ \E j \in DOMAIN entries : entries[j].target = i /\ entries[j].path = v.path

ListInv == entries \in Seq(Range(entries))

\* The calls on the way to a path that led the same way all the time are in the
\* directories of that way.
RealInv ==
    \A v \in steady : stack # <<>> /\ v.way[0] = Target.base =>
        \A k \in DOMAIN stack : On(stack[k].path, v.path) => stack[k].real = v.way[k - 1]

\* What the target at hand asks for is on the list or still to come, and for the
\* targets before it nothing is to come any more.
CompleteInv ==
    \A i \in DOMAIN targets : \A v \in steady : Wanted(targets[i], v) /\ NoCycle(v) =>
        /\ i < cur \/ pc \in {"streams", "nodes", "done"} => Answered(i, v)
        /\ stack # <<>> /\ i = cur => Answered(i, v) \/ Pending(v.path)

LEMMA ExplicitIsList ==
    ASSUME TargetsInv, NEW i \in DOMAIN targets
    PROVE  ExplicitEntries(i) \in Seq(Range(ExplicitEntries(i)))
  <1> DEFINE t == targets[i]
             clean == [k \in DOMAIN t.dirs |-> Clean(t.dirs[k])]
             places == {k \in DOMAIN clean : \A m \in 1..(k - 1) : clean[m] # clean[k]}
             paths == Kept(clean, places)
             made == [k \in DOMAIN paths |-> Entry(i, paths[k], ExplicitLabels(t, paths[k]))]
  <1>1. DOMAIN t.dirs = 1..Len(t.dirs) /\ Len(t.dirs) \in Nat
    BY SeqFacts DEF TargetsInv, IsTarget
  <1>2. clean \in Seq(Range(clean))
    BY <1>1 DEF Range
  <1> HIDE DEF clean, places
  <1>3. DOMAIN paths = 1..Len(paths) /\ Len(paths) \in Nat
    <2>1. paths \in Seq(Range(clean))
      BY <1>2, KeptType
    <2> HIDE DEF paths
    <2> QED
      BY <2>1, SeqFacts
  <1> HIDE DEF paths
  <1>4. made \in Seq(Range(made))
    BY <1>3 DEF Range
  <1> QED
    BY <1>4 DEF ExplicitEntries, made, paths, places, clean

\* Only entries are added to the list, and an error is not forgotten.
LEMMA ListGrows ==
    ASSUME HistoryInv, WalkInv, ListInv, Change \/ Discover \/ UNCHANGED discoveryVars
    PROVE  /\ ListInv'
           /\ failed => failed'
           /\ DOMAIN entries \subseteq DOMAIN entries'
           /\ \A j \in DOMAIN entries : entries'[j] = entries[j]
           /\ UNCHANGED <<denied, targets, home>> /\ steady' \subseteq steady
  <1>0. UNCHANGED <<denied, targets, home>> /\ steady' \subseteq steady
    <2>1. CASE Change
      BY <2>1 DEF Change, Remember
    <2>2. CASE Discover \/ UNCHANGED discoveryVars
      BY <2>2, DiscoverIsProgram DEF Program, tree, discoveryVars
    <2> QED
      BY <2>1, <2>2
  <1>1. CASE UNCHANGED entries /\ failed' = failed
    BY <1>0, <1>1 DEF ListInv
  <1>2. CASE UNCHANGED entries /\ failed' = TRUE
    BY <1>0, <1>2 DEF ListInv
  <1>3. CASE UseExplicit
    <2>1. pc = "target" /\ cur <= Len(targets) /\ entries' = entries \o ExplicitEntries(cur)
          /\ failed' = failed
      BY <1>3 DEF UseExplicit
    <2>2. cur \in DOMAIN targets
      BY <2>1, SeqFacts DEF WalkInv, HistoryInv, TargetsInv
    <2>3. ExplicitEntries(cur) \in Seq(Range(ExplicitEntries(cur)))
      BY <2>2, ExplicitIsList DEF HistoryInv
    <2> HIDE DEF ExplicitEntries
    <2> QED
      BY <1>0, <2>1, <2>3, ConcatFacts DEF ListInv
  <1>4. CASE Enter
    <2>1. \/ UNCHANGED entries
          \/ \E x : entries' = Append(entries, x)
      BY <1>4 DEF Enter
    <2>2. failed => failed'
      BY <1>4 DEF Enter
    <2>3. ASSUME NEW x, entries' = Append(entries, x)
          PROVE  /\ ListInv'
                 /\ DOMAIN entries \subseteq DOMAIN entries'
                 /\ \A j \in DOMAIN entries : entries'[j] = entries[j]
      BY <2>3, AppendFacts DEF ListInv
    <2> QED
      BY <1>0, <2>1, <2>2, <2>3 DEF ListInv
  <1>5. CASE Refuse \/ StartWalk \/ Pick \/ Descend \/ Return \/ EndDiscover \/ FindNodes
    <2>1. UNCHANGED entries
      BY <1>5 DEF Refuse, StartWalk, Pick, Descend, Return, EndDiscover, FindNodes, ListStreams,
                  ListNodes, EndStreams, found
    <2>2. failed' = failed \/ failed' = TRUE
      BY <1>5 DEF Refuse, StartWalk, Pick, Descend, Return, EndDiscover, FindNodes, ListStreams,
                  ListNodes, EndStreams, found
    <2> QED
      BY <1>1, <1>2, <2>1, <2>2
  <1>6. CASE Change \/ UNCHANGED discoveryVars
    BY <1>1, <1>6 DEF Change, discoveryVars, found
  <1> QED
    BY <1>3, <1>4, <1>5, <1>6 DEF Discover, Walk

LEMMA AnsweredStays ==
    ASSUME HistoryInv, WalkInv, ListInv, Change \/ Discover \/ UNCHANGED discoveryVars,
           NEW i, NEW v, Answered(i, v)
    PROVE  Answered(i, v)'
  <1>1. CASE failed /\ ~Listable(v)
    BY <1>1, ListGrows DEF Answered, Listable
  <1>2. CASE \E j \in DOMAIN entries : entries[j].target = i /\ entries[j].path = v.path
    BY <1>2, ListGrows DEF Answered
  <1> QED
    BY <1>1, <1>2 DEF Answered

LEMMA RealKept ==
    ASSUME RealInv, steady' \subseteq steady, Target' = Target,
           DOMAIN stack' \subseteq DOMAIN stack,
           \A k \in DOMAIN stack' : stack'[k].path = stack[k].path /\ stack'[k].real = stack[k].real,
           stack' # <<>> => stack # <<>>
    PROVE  RealInv'
  BY DEF RealInv

LEMMA RealStep ==
    ASSUME HistoryInv, WalkInv, ListInv, RealInv, Change \/ Discover \/ UNCHANGED discoveryVars
    PROVE  RealInv'
  <1>0. steady' \subseteq steady /\ UNCHANGED targets
    BY ListGrows
  <1>1. CASE Change \/ UNCHANGED discoveryVars
    <2>1. UNCHANGED <<stack, cur, targets>>
      BY <1>1 DEF Change, walk, discoveryVars
    <2> QED
      BY <1>0, <2>1, RealKept DEF Target
  <1>2. CASE UseExplicit \/ Refuse \/ EndDiscover \/ FindNodes
    <2>1. pc \notin {"enter", "list", "eval"} /\ UNCHANGED stack
      BY <1>2 DEF UseExplicit, Refuse, EndDiscover, FindNodes, ListStreams, ListNodes, EndStreams, walk
    <2>2. stack' = <<>>
      BY <2>1 DEF WalkInv
    <2> QED
      BY <2>2 DEF RealInv
  <1>3. CASE StartWalk
    BY <1>3, StartFacts DEF RealInv, BaseCall
  <1>4. CASE Enter
    <2>1. stack # <<>> /\ UNCHANGED <<targets, cur>> /\ EnterTodo \subseteq Item
          /\ stack' = [stack EXCEPT ![Len(stack)].todo = EnterTodo]
      BY <1>4, EnterFacts
    <2>2. /\ DOMAIN stack' = DOMAIN stack
          /\ \A k \in DOMAIN stack : stack'[k].path = stack[k].path /\ stack'[k].real = stack[k].real
      BY <2>1, NewTodo
    <2> QED
      BY <1>0, <2>1, <2>2, RealKept DEF Target
  <1>5. CASE Pick
    <2> DEFINE T == Top.todo \ {First(Top.todo)}
    <2>1. stack # <<>> /\ UNCHANGED <<targets, cur>> /\ T \subseteq Item
          /\ stack' = [stack EXCEPT ![Len(stack)].todo = T]
      BY <1>5, PickFacts
    <2> HIDE DEF T
    <2>2. /\ DOMAIN stack' = DOMAIN stack
          /\ \A k \in DOMAIN stack : stack'[k].path = stack[k].path /\ stack'[k].real = stack[k].real
      BY <2>1, NewTodo
    <2> QED
      BY <1>0, <2>1, <2>2, RealKept DEF Target
  <1>6. CASE Descend
    <2>1. UNCHANGED <<targets, cur>> /\ Target' = Target /\ stack # <<>>
      BY <1>6, DescendFacts DEF Target
    <2>2. CASE Resolve(Target.base, child) \in ancestors
      <3>1. UNCHANGED stack
        BY <1>6, <2>2, DescendFacts
      <3> QED
        BY <1>0, <2>1, <3>1, RealKept
    <2>3. CASE Resolve(Target.base, child) \notin ancestors
      <3> SUFFICES ASSUME NEW v \in steady, v.way[0] = Target.base, NEW k \in DOMAIN stack',
                          On(stack'[k].path, v.path)
                   PROVE  stack'[k].real = v.way[k - 1]
        BY <1>0, <2>1 DEF RealInv
      <3>1. CASE k \in DOMAIN stack
        <4>1. stack'[k] = stack[k]
          BY <1>6, <2>3, <3>1, DescendFacts
        <4> QED
          BY <2>1, <3>1, <4>1 DEF RealInv
      <3>2. CASE k \notin DOMAIN stack
        <4>1. k = Len(stack) + 1 /\ stack'[k] = ChildCall
          BY <1>6, <2>1, <2>3, <3>2, DescendFacts, TopFacts
        <4>2. child \in Seq(Name) /\ Len(child) = Len(stack) /\ On(child, v.path) /\ Len(stack) \in Nat
          BY <1>6, <2>1, <4>1, DescendFacts, TopFacts DEF ChildCall
        <4>3. v \in Views
          BY DEF HistoryInv
        <4>4. Resolve(v.way[0], child) = v.way[Len(child)]
          BY <4>2, <4>3, ViewResolve DEF HistoryInv
        <4> QED
          BY <4>1, <4>2, <4>4 DEF ChildCall
      <3> QED
        BY <3>1, <3>2
    <2> QED
      BY <2>2, <2>3
  <1>7. CASE Return
    <2>1. /\ stack # <<>> /\ \A k \in DOMAIN stack' : k \in DOMAIN stack /\ stack'[k] = stack[k]
          /\ Len(stack') = Len(stack) - 1 /\ Len(stack) \in Nat
          /\ Len(stack) # 1 => cur' = cur
      BY <1>7, ReturnFacts
    <2>2. CASE stack' = <<>>
      BY <2>2 DEF RealInv
    <2>3. CASE stack' # <<>>
      <3>1. Len(stack) # 1
        <4>1. stack' \in Seq(Frame)
          BY <1>7, ReturnFacts
        <4> QED
          BY <2>1, <2>3, <4>1
      <3> QED
        BY <1>0, <2>1, <3>1, RealKept DEF Target
    <2> QED
      BY <2>2, <2>3
  <1> QED
    BY <1>1, <1>2, <1>3, <1>4, <1>5, <1>6, <1>7 DEF Discover, Walk

\* On a path that led the same way all the time, the next component is in the listing of
\* the call that has got there, or the directory cannot be listed.
LEMMA WantedPrefix ==
    ASSUME HistoryInv, WalkInv, stack # <<>>, NEW v \in steady, Wanted(Target, v)
    PROVE  /\ v \in Views /\ v.path \in Seq(Name) /\ Len(v.path) \in Nat \ {0}
           /\ v.way[0] = Target.base /\ Len(v.path) <= Depth(Target)
           /\ Matches(Target, v.path)
           /\ \A p \in Seq(Name) : On(p, v.path) => MatchesPrefix(Target, p)
  <1>1. v \in Views
    BY DEF HistoryInv
  <1>2. v.path \in Seq(Name) /\ Len(v.path) \in Nat \ {0} /\ DOMAIN v.path = 1..Len(v.path)
    BY <1>1, ViewFacts DEF HistoryInv
  <1>3. /\ v.way[0] = Target.base /\ Len(v.path) <= Depth(Target)
        /\ Target.pattern # <<>> =>
               /\ Len(v.path) = Len(Target.pattern)
               /\ \A i \in DOMAIN v.path : v.path[i] \in Target.pattern[i].names
    BY DEF Wanted
  <1>4. Matches(Target, v.path)
    BY <1>3 DEF Matches, MatchesSegments
  <1>5. ASSUME NEW p \in Seq(Name), On(p, v.path)
        PROVE  MatchesPrefix(Target, p)
    <2>1. DOMAIN p = 1..Len(p) /\ Len(p) \in Nat /\ Len(p) <= Len(v.path)
          /\ \A i \in DOMAIN p : p[i] = v.path[i] /\ i \in DOMAIN v.path
      BY <1>2, <1>5 DEF On
    <2> QED
      BY <1>3, <2>1 DEF MatchesPrefix, MatchesSegments
  <1> QED
    BY <1>1, <1>2, <1>3, <1>4, <1>5

LEMMA PendingEnter ==
    ASSUME HistoryInv, WalkInv, ListInv, Enter, NEW v \in steady, Wanted(Target, v),
           Pending(v.path)
    PROVE  Pending(v.path)' \/ Answered(cur, v)'
  <1> DEFINE n == Len(stack)
             p == Top.path
             q == v.path
             here == Resolve(Target.base, p)
  <1>1. /\ stack # <<>> /\ pc = "enter" /\ Top.todo = {} /\ EnterTodo \subseteq Item
        /\ stack' = [stack EXCEPT ![n].todo = EnterTodo]
    BY EnterFacts
  <1>2. /\ n \in DOMAIN stack /\ n \in Nat \ {0} /\ stack[n] = Top
        /\ p \in Seq(Name) /\ Len(p) = n - 1 /\ Target.base \in Dir
    BY <1>1, TopFacts
  <1>3. /\ DOMAIN stack' = DOMAIN stack
        /\ \A i \in DOMAIN stack : stack'[i].path = stack[i].path
        /\ \A i \in DOMAIN stack : i # n => stack'[i] = stack[i]
        /\ stack'[n].todo = EnterTodo
    <2> HIDE DEF n
    <2>1. Top'.todo = EnterTodo /\ Len(stack') = Len(stack)
      BY <1>1, NewTodo DEF n
    <2>2. /\ DOMAIN stack' = DOMAIN stack
          /\ \A i \in DOMAIN stack : stack'[i].path = stack[i].path
          /\ \A i \in DOMAIN stack : i # n => stack'[i] = stack[i]
      BY <1>1, NewTodo DEF n
    <2> QED
      BY <2>1, <2>2 DEF Top, n
  <1>4. /\ v \in Views /\ q \in Seq(Name) /\ Len(q) \in Nat \ {0} /\ v.way[0] = Target.base
        /\ Len(q) <= Depth(Target) /\ Matches(Target, q)
    BY <1>1, WantedPrefix
  <1> HIDE DEF n
  <1>5. CASE On(p, q)
    <2>0. Len(p) <= Len(q) /\ Len(p) \in Nat
      BY <1>2, <1>5 DEF On
    <2>1. here = v.way[Len(p)] /\ Len(p) <= Len(q) /\ Len(p) \in Nat
      <3>1. Resolve(v.way[0], p) = v.way[Len(p)]
        BY <1>2, <1>4, <1>5, ViewResolve DEF HistoryInv
      <3> QED
        BY <1>4, <2>0, <3>1
    <2>2. CASE Len(p) = Len(q)
      <3>1. p = q
        BY <1>2, <1>4, <1>5, <2>2, OnAll
      <3>2. entries' = Append(entries, Entry(cur, p, Labels(Target, p)))
        BY <1>4, <3>1 DEF Enter
      <3>3. \E j \in DOMAIN entries' : entries'[j].target = cur /\ entries'[j].path = p
        <4>1. /\ DOMAIN entries' = 1..(Len(entries) + 1) /\ Len(entries) \in Nat
              /\ entries'[Len(entries) + 1] = Entry(cur, p, Labels(Target, p))
          BY <3>2, AppendFacts DEF ListInv
        <4>2. Len(entries) + 1 \in DOMAIN entries'
          BY <4>1
        <4>3. /\ entries'[Len(entries) + 1].target = cur
              /\ entries'[Len(entries) + 1].path = p
          <5> HIDE DEF p
          <5> QED
            BY <4>1 DEF Entry
        <4> QED
          BY <4>2, <4>3
      <3>4. cur' = cur
        BY DEF Enter
      <3> QED
        BY <3>1, <3>3, <3>4 DEF Answered
    <2>3. CASE Len(p) # Len(q)
      <3>1. n \in 1..Len(q) /\ n - 1 = Len(p) /\ Len(p) < Depth(Target)
        <4>1. Depth(Target) \in Int
          BY <1>1, <1>4, TopFacts DEF HistoryInv, TargetsInv, IsTarget, Depth
        <4> QED
          BY <1>2, <1>4, <2>1, <2>3, <4>1
      <3>2. q[n] \in Name /\ here \in Dir /\ at[here][q[n]].kind # "other"
        BY <1>4, <2>1, <3>1, ViewStep DEF HistoryInv
      <3>3. CASE here \in denied
        <4>1. failed' = TRUE
          BY <3>1, <3>3 DEF Enter, Readable
        <4>2. ~Listable(v)'
          <5>1. v.way[Len(p)] \in denied /\ denied' = denied
            BY <2>1, <3>3 DEF Enter, Program, tree
          <5>2. Len(p) \in 0..(Len(q) - 1)
            BY <1>4, <2>1, <2>3
          <5> QED
            BY <5>1, <5>2 DEF Listable
        <4> QED
          BY <4>1, <4>2 DEF Answered
      <3>4. CASE here \notin denied
        <4>1. EnterTodo = Listing(here)
          BY <3>1, <3>2, <3>4, RootAssumption DEF EnterTodo, Readable
        <4>2. \E e \in EnterTodo : e.name = q[n]
          <5> DEFINE e == [name |-> q[n], kind |-> at[here][q[n]].kind]
          <5>1. e \in Listing(here)
            BY <3>2, Listed DEF HistoryInv
          <5>2. e.name = q[n]
            OBVIOUS
          <5> HIDE DEF e, here
          <5> QED
            BY <4>1, <5>1, <5>2
        <4>3. On(stack'[n].path, q)
          BY <1>2, <1>3, <1>5
        <4>4. Pending(q)'
          BY <1>2, <1>3, <3>1, <4>2, <4>3 DEF Pending
        <4> QED
          BY <4>4
      <3> QED
        BY <3>3, <3>4
    <2> QED
      BY <2>2, <2>3
  <1>6. CASE ~On(p, q)
    <2>1. PICK k \in DOMAIN stack : k <= Len(q) /\ On(stack[k].path, q)
                                    /\ \E e \in stack[k].todo : e.name = q[k]
      BY <1>1, <1>6 DEF Pending
    <2>2. k # n
      BY <1>1, <1>2, <2>1
    <2>3. stack'[k] = stack[k] /\ k \in DOMAIN stack'
      BY <1>3, <2>2
    <2>4. Pending(q)'
      BY <2>1, <2>3 DEF Pending
    <2> QED
      BY <2>4
  <1> QED
    BY <1>5, <1>6

LEMMA PendingPick ==
    ASSUME HistoryInv, WalkInv, Pick, NEW v \in steady, Wanted(Target, v), Pending(v.path)
    PROVE  Pending(v.path)'
  <1> DEFINE n == Len(stack)
             q == v.path
             e == First(Top.todo)
             T == Top.todo \ {e}
  <1>1. /\ stack # <<>> /\ pc = "list" /\ e \in Top.todo /\ e.name \in Name /\ T \subseteq Item
        /\ stack' = [stack EXCEPT ![n].todo = T]
    BY PickFacts
  <1>2. n \in DOMAIN stack /\ n \in Nat \ {0} /\ stack[n] = Top /\ Target.base \in Dir
    BY <1>1, TopFacts
  <1>3. /\ DOMAIN stack' = DOMAIN stack
        /\ \A i \in DOMAIN stack : stack'[i].path = stack[i].path
        /\ \A i \in DOMAIN stack : i # n => stack'[i] = stack[i]
        /\ stack'[n].todo = T
    <2> HIDE DEF n, T
    <2>1. Top'.todo = T /\ Len(stack') = Len(stack)
      BY <1>1, NewTodo DEF n
    <2>2. /\ DOMAIN stack' = DOMAIN stack
          /\ \A i \in DOMAIN stack : stack'[i].path = stack[i].path
          /\ \A i \in DOMAIN stack : i # n => stack'[i] = stack[i]
      BY <1>1, NewTodo DEF n
    <2> QED
      BY <2>1, <2>2 DEF Top, n
  <1>4. /\ v \in Views /\ q \in Seq(Name) /\ Len(q) \in Nat \ {0} /\ v.way[0] = Target.base
        /\ \A p \in Seq(Name) : On(p, q) => MatchesPrefix(Target, p)
    BY <1>1, WantedPrefix
  <1>5. PICK k \in DOMAIN stack : k <= Len(q) /\ On(stack[k].path, q)
                                  /\ \E f \in stack[k].todo : f.name = q[k]
    BY <1>1 DEF Pending
  <1>6. PICK f \in stack[k].todo : f.name = q[k]
    BY <1>5
  <1>7. CASE k # n \/ f # e
    <2>1. f \in stack'[k].todo /\ k \in DOMAIN stack'
      BY <1>2, <1>3, <1>6, <1>7
    <2>2. k \in DOMAIN stack' /\ On(stack'[k].path, q)
      BY <1>3, <1>5
    <2> QED
      BY <1>5, <1>6, <2>1, <2>2 DEF Pending
  <1>8. CASE k = n /\ f = e
    <2> DEFINE p == ChildPath(e.name)
    <2>1. /\ p \in Seq(Name) /\ Len(p) = n /\ On(Top.path, p) /\ p[n] = e.name
          /\ Top.path \in Seq(Name) /\ Len(Top.path) = n - 1
      BY <1>1, ChildPathFacts
    <2> HIDE DEF p
    <2>2. On(p, q)
      <3>1. ASSUME NEW i \in 1..n PROVE p[i] = q[i]
        <4>1. CASE i = n
          BY <1>6, <1>8, <2>1, <4>1
        <4>2. CASE i # n
          <5>1. i \in 1..(n - 1)
            BY <1>2, <4>2
          <5> QED
            BY <1>2, <1>5, <1>8, <2>1, <5>1 DEF On
        <4> QED
          BY <4>1, <4>2
      <3> QED
        BY <1>5, <1>8, <2>1, <3>1 DEF On
    <2>3. Resolve(Target.base, p) = v.way[n]
      BY <1>4, <2>1, <2>2, ViewResolve DEF HistoryInv
    <2>4. v.way[n] # Nowhere
      <3>1. n \in 1..Len(q)
        BY <1>2, <1>5, <1>8
      <3>2. v.way[n] \in Dir
        BY <1>4, <3>1, ViewStep DEF HistoryInv
      <3> QED
        BY <3>2, RootAssumption
    <2>5. MatchesPrefix(Target, p)
      BY <1>4, <2>1, <2>2
    <2>6. pc' = "eval" /\ child' = p
      BY <2>3, <2>4, <2>5 DEF Pick, p
    <2> QED
      BY <2>2, <2>6 DEF Pending
  <1> QED
    BY <1>7, <1>8

LEMMA PendingDescend ==
    ASSUME HistoryInv, WalkInv, RealInv, Descend, NEW v \in steady, Wanted(Target, v), NoCycle(v),
           Pending(v.path)
    PROVE  Pending(v.path)'
  <1> DEFINE n == Len(stack)
             q == v.path
             real == Resolve(Target.base, child)
  <1>1. /\ stack # <<>> /\ pc = "eval" /\ child \in Seq(Name) /\ Len(child) = n
        /\ \A k \in DOMAIN stack : On(stack[k].path, child)
    BY DescendFacts
  <1>2. /\ n \in DOMAIN stack /\ n \in Nat \ {0} /\ DOMAIN stack = 1..n
        /\ \A k \in DOMAIN stack : stack[k] \in Frame
    BY <1>1, TopFacts DEF WalkInv
  <1>3. /\ v \in Views /\ q \in Seq(Name) /\ Len(q) \in Nat \ {0} /\ v.way[0] = Target.base
    BY <1>1, WantedPrefix
  <1>4. CASE On(child, q)
    <2>1. real = v.way[n] /\ n \in 1..Len(q)
      <3>1. n <= Len(q)
        BY <1>1, <1>4 DEF On
      <3> QED
        BY <1>1, <1>2, <1>3, <1>4, <3>1, ViewResolve DEF HistoryInv
    <2>2. real \notin ancestors
      <3> SUFFICES ASSUME real \in ancestors PROVE FALSE
        OBVIOUS
      <3>1. PICK k \in DOMAIN stack : stack[k].real = real
        BY DEF WalkInv
      <3>2. On(stack[k].path, q)
        <4>1. stack[k].path \in Seq(Name)
          BY <1>2 DEF Frame
        <4>2. Len(stack[k].path) \in Nat /\ On(stack[k].path, child)
          BY <1>1, <4>1
        <4> QED
          BY <1>1, <1>2, <1>3, <1>4, <4>2 DEF On
      <3>3. stack[k].real = v.way[k - 1]
        BY <1>1, <1>3, <3>2 DEF RealInv
      <3>4. v.way[k - 1] = v.way[n] /\ k - 1 # n /\ k - 1 \in 0..Len(q) /\ n \in 0..Len(q)
        BY <1>2, <1>3, <2>1, <3>1, <3>3
      <3>5. DOMAIN v.way = 0..Len(q)
        BY <1>3, ViewFacts DEF HistoryInv
      <3> QED
        BY <3>4, <3>5 DEF NoCycle, IsInjective
    <2>3. pc' = "enter" /\ Top' = ChildCall
      BY <2>2, DescendFacts
    <2>4. On(Top'.path, q)
      BY <1>4, <2>3 DEF ChildCall
    <2> QED
      BY <2>3, <2>4 DEF Pending
  <1>5. CASE ~On(child, q)
    <2>1. PICK k \in DOMAIN stack : k <= Len(q) /\ On(stack[k].path, q)
                                    /\ \E e \in stack[k].todo : e.name = q[k]
      BY <1>1, <1>5 DEF Pending
    <2>2. k \in DOMAIN stack' /\ stack'[k] = stack[k]
      <3>1. CASE real \in ancestors
        BY <3>1, DescendFacts
      <3>2. CASE real \notin ancestors
        <4>1. DOMAIN stack' = 1..(n + 1) /\ \A i \in DOMAIN stack : stack'[i] = stack[i]
          BY <3>2, DescendFacts
        <4> QED
          BY <1>2, <4>1
      <3> QED
        BY <3>1, <3>2
    <2> QED
      BY <2>1, <2>2 DEF Pending
  <1> QED
    BY <1>4, <1>5

LEMMA PendingReturn ==
    ASSUME WalkInv, Return, NEW q, Pending(q)
    PROVE  Pending(q)' /\ stack' # <<>>
  <1>1. /\ pc = "list" /\ Top.todo = {} /\ stack[Len(stack)] = Top
        /\ \A i \in DOMAIN stack : i = Len(stack) \/ i \in DOMAIN stack'
        /\ \A i \in DOMAIN stack' : stack'[i] = stack[i]
    BY ReturnFacts
  <1>2. PICK k \in DOMAIN stack : k <= Len(q) /\ On(stack[k].path, q)
                                  /\ \E e \in stack[k].todo : e.name = q[k]
    BY <1>1 DEF Pending
  <1>3. k \in DOMAIN stack' /\ stack'[k] = stack[k]
    BY <1>1, <1>2
  <1>4. stack' # <<>>
    BY <1>3
  <1> QED
    BY <1>2, <1>3, <1>4 DEF Pending

LEMMA CompleteStarts ==
    ASSUME NEW w, NEW ts, StartDiscovery(w, ts)
    PROVE  ListInv /\ RealInv /\ CompleteInv
  <1>1. entries \in Seq(Range(entries))
    BY DEF StartDiscovery
  <1>2. pc = "target" /\ cur = 1 /\ stack = <<>> /\ targets = ts
    BY DEF StartDiscovery
  <1>3. RealInv
    BY <1>2 DEF RealInv
  <1> QED
    BY <1>1, <1>2, <1>3 DEF ListInv, CompleteInv

LEMMA CompleteStep ==
    ASSUME HistoryInv, WalkInv, ListInv, RealInv, CompleteInv,
           Change \/ Discover \/ UNCHANGED discoveryVars
    PROVE  CompleteInv'
  <1>1. UNCHANGED <<denied, targets, home>> /\ steady' \subseteq steady
    BY ListGrows
  <1> SUFFICES ASSUME NEW i \in DOMAIN targets, NEW v \in steady, Wanted(targets[i], v),
                      NoCycle(v), ~Answered(i, v)'
               PROVE  /\ ~(i < cur' \/ pc' \in {"streams", "nodes", "done"})
                      /\ stack' # <<>> /\ i = cur' => Pending(v.path)'
    <2> DEFINE Due(j, u) ==
                 /\ j < cur' \/ pc' \in {"streams", "nodes", "done"} => Answered(j, u)'
                 /\ stack' # <<>> /\ j = cur' => Answered(j, u)' \/ Pending(u.path)'
    <2>1. ASSUME NEW j \in DOMAIN targets', NEW u \in steady', Wanted(targets'[j], u), NoCycle(u)
          PROVE  Due(j, u)
      BY <1>1, <2>1
    <2> QED
      BY <2>1 DEF CompleteInv
  <1>2. ~Answered(i, v)
    BY AnsweredStays
  <1>3. /\ ~(i < cur) /\ pc \notin {"streams", "nodes", "done"}
        /\ stack # <<>> /\ i = cur => Pending(v.path)
    BY <1>2 DEF CompleteInv
  <1>4. cur \in Nat \ {0} /\ i \in Nat /\ DOMAIN targets = 1..Len(targets) /\ Len(targets) \in Nat
    BY SeqFacts DEF WalkInv, HistoryInv, TargetsInv
  <1>5. CASE Change \/ UNCHANGED discoveryVars
    <2>1. UNCHANGED <<pc, cur, stack, child>>
      BY <1>5 DEF Change, walk, discoveryVars
    <2> QED
      BY <1>3, <2>1 DEF Pending, Top
  <1>6. CASE UseExplicit \/ Refuse
    <2>1. pc = "target" /\ cur' = cur + 1 /\ pc' = "target" /\ UNCHANGED stack
      BY <1>6 DEF UseExplicit, Refuse, walk
    <2>2. stack' = <<>>
      BY <2>1 DEF WalkInv
    <2>3. i # cur
      <3> SUFFICES ASSUME i = cur PROVE FALSE
        OBVIOUS
      <3>1. Target.dirs = <<>> /\ Target.valid /\ v.way[0] = Target.base
        BY DEF Wanted, Target
      <3>2. Exists(v.way[0])
        BY ViewFacts DEF HistoryInv
      <3> QED
        BY <1>6, <3>1, <3>2 DEF UseExplicit, Refuse
    <2> QED
      BY <1>3, <1>4, <2>1, <2>2, <2>3
  <1>7. CASE StartWalk
    <2>1. pc' = "enter" /\ UNCHANGED cur /\ Top' = BaseCall
      BY <1>7, StartFacts DEF StartWalk
    <2>2. On(<<>>, v.path)
      <3>1. Len(v.path) \in Nat
        BY ViewFacts DEF HistoryInv
      <3> QED
        BY <3>1 DEF On
    <2> QED
      BY <1>3, <2>1, <2>2 DEF Pending, BaseCall
  <1>8. CASE Enter
    <2>1. stack # <<>> /\ pc' = "list" /\ cur' = cur
      BY <1>8, EnterFacts DEF Enter
    <2>2. i = cur => Pending(v.path)' \/ Answered(i, v)'
      BY <1>3, <1>8, <2>1, PendingEnter DEF Target
    <2> QED
      BY <1>3, <2>1, <2>2
  <1>9. CASE Pick
    <2>1. stack # <<>> /\ pc' \in {"list", "eval"} /\ cur' = cur
      BY <1>9, PickFacts DEF Pick
    <2>2. i = cur => Pending(v.path)'
      BY <1>3, <1>9, <2>1, PendingPick DEF Target
    <2> QED
      BY <1>3, <2>1, <2>2
  <1>10. CASE Descend
    <2>1. stack # <<>> /\ pc' \in {"list", "enter"} /\ cur' = cur
      BY <1>10, DescendFacts DEF Descend
    <2>2. i = cur => Pending(v.path)'
      BY <1>3, <1>10, <2>1, PendingDescend DEF Target
    <2> QED
      BY <1>3, <2>1, <2>2
  <1>11. CASE Return
    <2>1. stack # <<>> /\ cur' \in {cur, cur + 1}
      BY <1>11, ReturnFacts DEF Return
    <2>2. stack' # <<>> => cur' = cur
      <3>1. Len(stack) # 1 => cur' = cur
        BY <1>11, ReturnFacts
      <3>2. stack' \in Seq(Frame) /\ Len(stack) \in Nat /\ Len(stack') = Len(stack) - 1
        BY <1>11, ReturnFacts
      <3>3. Len(stack) = 1 => Len(stack') = 0
        BY <3>2
      <3>4. Len(stack') = 0 => stack' = <<>>
        BY <3>2
      <3> QED
        BY <3>1, <3>3, <3>4
    <2>3. i = cur => Pending(v.path)' /\ stack' # <<>>
      <3>1. ASSUME Pending(v.path)
            PROVE  Pending(v.path)' /\ stack' # <<>>
        BY <1>11, <3>1, PendingReturn
      <3> QED
        BY <1>3, <2>1, <3>1
    <2>4. pc' \notin {"streams", "nodes", "done"}
      BY <1>11, ReturnFacts
    <2> QED
      BY <1>3, <1>4, <2>1, <2>2, <2>3, <2>4
  <1>12. CASE EndDiscover \/ FindNodes
    <2>1. CASE EndDiscover
      <3>1. cur > Len(targets)
        BY <2>1 DEF EndDiscover
      <3> QED
        BY <1>3, <1>4, <3>1
    <2>2. CASE FindNodes
      BY <1>3, <2>2 DEF FindNodes, ListStreams, ListNodes, EndStreams
    <2> QED
      BY <1>12, <2>1, <2>2
  <1> QED
    BY <1>5, <1>6, <1>7, <1>8, <1>9, <1>10, <1>11, <1>12 DEF Discover, Walk

LEMMA CompleteShows == CompleteInv => WatchListComplete
  BY DEF CompleteInv, WatchListComplete, Answered

-----------------------------------------------------------------------------
(***************************************************************************)
(* The stream nodes miss nothing                                           *)
(***************************************************************************)
\* v leads to a node of target t: its stream and the node have their homes there.
NodeDue(t, v) ==
    /\ v.way[0] = t.base
    /\ Len(v.path) = 3 /\ v.path[2] = NodesName /\ v.path[3] \notin NotNode
    /\ v.way[1] \in DOMAIN home /\ home[v.way[1]] = <<v.way[0], v.path[1]>>
    /\ v.way[3] \in DOMAIN home /\ home[v.way[3]] = <<v.way[2], v.path[3]>>
    /\ {v.way[0], v.way[2]} \cap denied = {}

NodeOf(t, v) == [label |-> t.label, stream |-> v.path[1], node |-> v.path[3]]

\* The nodes of the targets that have been searched are found, and of the target at
\* hand those of the streams that have been looked into.
NodesInv ==
    \A i \in DOMAIN targets : \A v \in steady : NodeDue(targets[i], v) =>
        /\ pc = "done" \/ (pc \in {"streams", "nodes"} /\ i < cur) => NodeOf(targets[i], v) \in nodes
        /\ pc = "nodes" /\ i = cur =>
              NodeOf(targets[i], v) \in nodes \/ \E e \in streams : e.name = v.path[1]

\* What lives in a directory and exists is listed there as a directory.
LEMMA HomeListed ==
    ASSUME TreeInv, TargetsInv, NEW v \in Views, NEW i \in 1..Len(v.path),
           v.way[i] \in DOMAIN home, home[v.way[i]] = <<v.way[i - 1], v.path[i]>>
    PROVE  [name |-> v.path[i], kind |-> "dir"] \in Plain(Listing(v.way[i - 1]))
  <1> DEFINE d == v.way[i - 1]
             x == v.way[i]
             n == v.path[i]
  <1>1. n \in Name /\ d \in Dir /\ x \in Dir /\ at[d][n].kind # "other"
    BY ViewStep
  <1>2. x = Step(d, n)
    <2>1. /\ v.path \in Seq(Name) /\ v.way[0] \in Dir /\ v.way = Way(v.way[0], v.path)
      BY ViewFacts
    <2> QED
      BY <2>1, WayRule
  <1>3. x \in DOMAIN home /\ home[x] = <<d, n>>
    OBVIOUS
  <1> HIDE DEF d, x, n
  <1>4. Exists(x)
    BY <1>1, <1>2, RootAssumption DEF Step
  <1>5. x \in Attached
    <2>1. x # Root
      BY <1>3 DEF TreeInv
    <2> QED
      BY <1>1, <1>4, <2>1, ExistsRule
  <1>6. at[d][n] = DirTo(x)
    BY <1>3, <1>5 DEF Attached
  <1>7. at[d][n].kind = "dir"
    BY <1>6 DEF DirTo
  <1>8. [name |-> n, kind |-> "dir"] \in Listing(d)
    BY <1>1, <1>7, Listed
  <1>9. [name |-> n, kind |-> "dir"] \in Plain(Listing(d))
    BY <1>8 DEF Plain
  <1> QED
    BY <1>9 DEF d, n

LEMMA DueNode ==
    ASSUME HistoryInv, NEW t, NEW v \in steady, NodeDue(t, v)
    PROVE  /\ v.way[0] = Resolve(t.base, <<>>) /\ Readable(v.way[0])
           /\ v.way[2] = Resolve(t.base, <<v.path[1], NodesName>>) /\ Readable(v.way[2])
           /\ [name |-> v.path[1], kind |-> "dir"] \in Plain(Listing(v.way[0]))
           /\ [name |-> v.path[3], kind |-> "dir"] \in Plain(Listing(v.way[2]))
           /\ v.path[3] \notin NotNode
  <1>1. v \in Views /\ TreeInv /\ TargetsInv
    BY DEF HistoryInv
  <1>2. /\ v.path \in Seq(Name) /\ v.way \in [0..Len(v.path) -> Dir] /\ Len(v.path) = 3
        /\ v.way[0] = t.base /\ v.path[2] = NodesName
    BY <1>1, ViewFacts DEF NodeDue
  <1>3. /\ [name |-> v.path[1], kind |-> "dir"] \in Plain(Listing(v.way[0]))
    <2>1. 1 \in 1..Len(v.path) /\ 1 - 1 = 0
      BY <1>2
    <2>2. v.way[1] \in DOMAIN home /\ home[v.way[1]] = <<v.way[1 - 1], v.path[1]>>
      BY <2>1 DEF NodeDue
    <2>3. [name |-> v.path[1], kind |-> "dir"] \in Plain(Listing(v.way[1 - 1]))
      BY <1>1, <2>1, <2>2, HomeListed
    <2> QED
      BY <2>1, <2>3
  <1>4. /\ [name |-> v.path[3], kind |-> "dir"] \in Plain(Listing(v.way[2]))
    <2>1. 3 \in 1..Len(v.path) /\ 3 - 1 = 2
      BY <1>2
    <2>2. v.way[3] \in DOMAIN home /\ home[v.way[3]] = <<v.way[3 - 1], v.path[3]>>
      BY <2>1 DEF NodeDue
    <2>3. [name |-> v.path[3], kind |-> "dir"] \in Plain(Listing(v.way[3 - 1]))
      BY <1>1, <2>1, <2>2, HomeListed
    <2> QED
      BY <2>1, <2>3
  <1>5. v.way[0] \in Dir /\ v.way[2] \in Dir /\ v.path[1] \in Name
    BY <1>2
  <1>6. Readable(v.way[0]) /\ Readable(v.way[2])
    BY <1>5, RootAssumption DEF Readable, NodeDue
  <1>7. Resolve(v.way[0], <<>>) = v.way[0]
    <2> DEFINE p == <<>>
    <2>1. p \in Seq(Name) /\ Len(p) = 0 /\ On(p, v.path)
      BY <1>2 DEF On
    <2> HIDE DEF p
    <2>2. Resolve(v.way[0], p) = v.way[Len(p)]
      BY <1>1, <2>1, ViewResolve
    <2> QED
      BY <2>1, <2>2 DEF p
  <1>8. Resolve(v.way[0], <<v.path[1], NodesName>>) = v.way[2]
    <2> DEFINE p == <<v.path[1], NodesName>>
    <2>1. p \in Seq(Name) /\ Len(p) = 2 /\ p[1] = v.path[1] /\ p[2] = v.path[2]
      BY <1>2, <1>5, NamesAssumption
    <2> HIDE DEF p
    <2>2. On(p, v.path)
      BY <1>2, <2>1 DEF On
    <2>3. Resolve(v.way[0], p) = v.way[Len(p)]
      BY <1>1, <2>1, <2>2, ViewResolve
    <2> QED
      BY <2>1, <2>3 DEF p
  <1> QED
    BY <1>2, <1>3, <1>4, <1>6, <1>7, <1>8 DEF NodeDue

LEMMA NodesStarts ==
    ASSUME NEW w, NEW ts, StartDiscovery(w, ts)
    PROVE  NodesInv
  BY DEF StartDiscovery, NodesInv

LEMMA NodesStep ==
    ASSUME HistoryInv, WalkInv, ListInv, NodesInv,
           Change \/ Discover \/ UNCHANGED discoveryVars
    PROVE  NodesInv'
  <1>1. UNCHANGED <<denied, targets, home>> /\ steady' \subseteq steady
    BY ListGrows
  <1> SUFFICES ASSUME NEW i \in DOMAIN targets, NEW v \in steady, NodeDue(targets[i], v)
               PROVE  /\ pc' = "done" \/ (pc' \in {"streams", "nodes"} /\ i < cur') =>
                              NodeOf(targets[i], v) \in nodes'
                      /\ pc' = "nodes" /\ i = cur' =>
                            NodeOf(targets[i], v) \in nodes' \/ \E e \in streams' : e.name = v.path[1]
    BY <1>1 DEF NodesInv, NodeDue, NodeOf
  <1> DEFINE node == NodeOf(targets[i], v)
  <1>2. /\ pc \in {"streams", "nodes"} /\ i < cur => node \in nodes
        /\ pc = "nodes" /\ i = cur => node \in nodes \/ \E e \in streams : e.name = v.path[1]
        /\ pc = "done" => node \in nodes
    BY DEF NodesInv
  <1>3. cur \in Nat \ {0} /\ i \in 1..Len(targets) /\ Len(targets) \in Nat
    BY SeqFacts DEF WalkInv, HistoryInv, TargetsInv
  <1>4. /\ v.way[0] = Resolve(targets[i].base, <<>>) /\ Readable(v.way[0])
        /\ v.way[2] = Resolve(targets[i].base, <<v.path[1], NodesName>>) /\ Readable(v.way[2])
        /\ [name |-> v.path[1], kind |-> "dir"] \in Plain(Listing(v.way[0]))
        /\ [name |-> v.path[3], kind |-> "dir"] \in Plain(Listing(v.way[2]))
        /\ v.path[3] \notin NotNode
    BY DueNode
  <1>5. CASE Change \/ UNCHANGED discoveryVars
    <2>1. UNCHANGED <<pc, cur, nodes, streams>>
      BY <1>5 DEF Change, found, discoveryVars
    <2> QED
      BY <1>2, <2>1
  <1>6. CASE Walk
    <2>1. pc' \notin {"streams", "nodes", "done"}
      <3>1. pc \notin {"streams", "nodes", "done"}
        BY <1>6 DEF Walk, UseExplicit, Refuse, StartWalk, Enter, Pick, Descend, Return
      <3>2. pc' = pc \/ pc' \in {"target", "enter", "list", "eval"}
        BY <1>6 DEF Walk, UseExplicit, Refuse, StartWalk, Enter, Pick, Descend, Return
      <3> QED
        BY <3>1, <3>2
    <2> QED
      BY <2>1
  <1>7. CASE EndDiscover
    <2>1. pc' = "streams" /\ cur' = 1
      BY <1>7 DEF EndDiscover
    <2> QED
      BY <1>3, <2>1
  <1>8. CASE ListStreams
    <2> DEFINE base == Resolve(Target.base, <<>>)
    <2>1. pc = "streams" /\ UNCHANGED nodes
      BY <1>8 DEF ListStreams, found
    <2>2. CASE Readable(base)
      <3>1. streams' = Plain(Listing(base)) /\ pc' = "nodes" /\ cur' = cur
        BY <1>8, <2>2 DEF ListStreams
      <3>2. i = cur => \E e \in streams' : e.name = v.path[1]
        <4> SUFFICES ASSUME i = cur PROVE \E e \in streams' : e.name = v.path[1]
          OBVIOUS
        <4> DEFINE e == [name |-> v.path[1], kind |-> "dir"]
        <4>1. base = v.way[0]
          BY <1>4 DEF Target
        <4>2. e \in streams' /\ e.name = v.path[1]
          BY <1>4, <3>1, <4>1
        <4> QED
          BY <4>2
      <3> QED
        BY <1>2, <2>1, <3>1, <3>2
    <2>3. CASE ~Readable(base)
      <3>1. cur' = cur + 1 /\ pc' = IF cur < Len(targets) THEN "streams" ELSE "done"
        BY <1>8, <2>3 DEF ListStreams, NextTarget
      <3>2. i # cur
        BY <1>4, <2>3 DEF Target
      <3>3. pc' = "done" => i < cur
        BY <1>3, <3>1, <3>2
      <3>4. i < cur' => i < cur
        BY <1>3, <3>1, <3>2
      <3>5. pc' # "nodes"
        BY <3>1
      <3> QED
        BY <1>2, <2>1, <3>3, <3>4, <3>5
    <2> QED
      BY <2>2, <2>3
  <1>9. CASE ListNodes
    <2> DEFINE s == First(streams)
               dir == Resolve(Target.base, <<s.name, NodesName>>)
    <2>1. pc = "nodes" /\ pc' = "nodes" /\ cur' = cur /\ streams # {} /\ streams' = streams \ {s}
      BY <1>9 DEF ListNodes
    <2>2. nodes \subseteq nodes'
      BY <1>9 DEF ListNodes
    <2>3. i < cur => node \in nodes'
      BY <1>2, <2>1, <2>2
    <2>4. ASSUME NEW e \in streams, e.name = v.path[1], i = cur
          PROVE  node \in nodes' \/ \E f \in streams' : f.name = v.path[1]
      <3>1. CASE e # s
        <4>1. e \in streams'
          BY <2>1, <3>1
        <4> QED
          BY <2>4, <4>1
      <3>2. CASE e = s
        <4>1. dir = v.way[2]
          BY <1>4, <2>4, <3>2 DEF Target
        <4>2. nodes' = nodes \cup {Node(s.name, f.name) :
                           f \in {g \in Plain(Listing(dir)) : g.name \notin NotNode}}
          BY <1>4, <1>9, <4>1 DEF ListNodes
        <4> DEFINE f == [name |-> v.path[3], kind |-> "dir"]
        <4>3. f \in Plain(Listing(dir)) /\ f.name \notin NotNode
          BY <1>4, <4>1
        <4>4. node = Node(s.name, f.name)
          BY <2>4, <3>2 DEF NodeOf, Node, Target
        <4> HIDE DEF f, dir, s, node
        <4>5. node \in nodes'
          BY <4>2, <4>3, <4>4
        <4> QED
          BY <4>5
      <3> QED
        BY <3>1, <3>2
    <2> HIDE DEF node
    <2>5. i = cur => node \in nodes' \/ \E e \in streams' : e.name = v.path[1]
      BY <1>2, <2>1, <2>2, <2>4
    <2>6. pc' # "done"
      BY <2>1
    <2> QED
      BY <2>1, <2>3, <2>5, <2>6 DEF node
  <1>10. CASE EndStreams
    <2>1. /\ pc = "nodes" /\ streams = {} /\ cur' = cur + 1 /\ UNCHANGED nodes
          /\ pc' = IF cur < Len(targets) THEN "streams" ELSE "done"
      BY <1>10 DEF EndStreams, NextTarget, found
    <2>2. i <= cur => node \in nodes
      <3>1. i = cur => node \in nodes
        BY <1>2, <2>1
      <3>2. i < cur => node \in nodes
        BY <1>2, <2>1
      <3> QED
        BY <1>3, <3>1, <3>2
    <2>3. pc' = "done" => i <= cur
      BY <1>3, <2>1
    <2>4. i < cur' => i <= cur
      BY <1>3, <2>1
    <2>5. pc' # "nodes"
      BY <2>1
    <2> QED
      BY <2>1, <2>2, <2>3, <2>4, <2>5
  <1> QED
    BY <1>5, <1>6, <1>7, <1>8, <1>9, <1>10 DEF Discover, FindNodes

LEMMA NodesShows == HistoryInv /\ NodesInv => NodesComplete
  <1> SUFFICES ASSUME HistoryInv, NodesInv, pc = "done", NEW i \in DOMAIN targets, NEW v \in steady,
                      v.way[0] = targets[i].base,
                      Len(v.path) = 3, v.path[2] = NodesName, v.path[3] \notin NotNode,
                      at[v.way[0]][v.path[1]].kind = "dir", at[v.way[2]][v.path[3]].kind = "dir",
                      {v.way[0], v.way[2]} \cap denied = {}
               PROVE  [label |-> targets[i].label, stream |-> v.path[1], node |-> v.path[3]] \in nodes
    BY DEF NodesComplete
  <1>1. v \in Views /\ TreeInv /\ TargetsInv
    BY DEF HistoryInv
  <1>2. ASSUME NEW k \in 1..3, at[v.way[k - 1]][v.path[k]].kind = "dir"
        PROVE  v.way[k] \in DOMAIN home /\ home[v.way[k]] = <<v.way[k - 1], v.path[k]>>
    <2>1. /\ v.path[k] \in Name /\ v.way[k - 1] \in Dir
          /\ at[v.way[k - 1]][v.path[k]].to = v.way[k]
      BY <1>1, ViewStep
    <2> QED
      BY <1>1, <1>2, <2>1 DEF TreeInv
  <1>3. v.way[1] \in DOMAIN home /\ home[v.way[1]] = <<v.way[0], v.path[1]>>
    <2>1. 1 \in 1..3 /\ 1 - 1 = 0
      OBVIOUS
    <2> QED
      BY <1>2, <2>1
  <1>4. v.way[3] \in DOMAIN home /\ home[v.way[3]] = <<v.way[2], v.path[3]>>
    <2>1. 3 \in 1..3 /\ 3 - 1 = 2
      OBVIOUS
    <2> QED
      BY <1>2, <2>1
  <1>5. NodeDue(targets[i], v)
    BY <1>3, <1>4 DEF NodeDue
  <1> QED
    BY <1>5 DEF NodesInv, NodeOf

-----------------------------------------------------------------------------
(***************************************************************************)
(* The watch list holds nothing twice                                      *)
(***************************************************************************)
\* What an entry is made of, for a target of either sort.
Fits(ts, e) ==
    LET t == ts[e.target]
    IN  /\ e.target \in DOMAIN ts
        /\ e.path # <<>>
        /\ t.dirs = <<>> => /\ e.path \in Seq(Name)
                            /\ Matches(t, e.path)
                            /\ e.labels = Labels(t, e.path)
        /\ t.dirs # <<>> => e.path \in Seq(Nat) /\ e.labels = ExplicitLabels(t, e.path)

\* The paths the walk may still come to.
Upcoming == {q \in Seq(Name) : Pending(q)}

\* Every entry of the listings still to visit is a name that has not been taken.
TodoInv ==
    /\ \A k \in DOMAIN stack : \A e, f \in stack[k].todo : e.name = f.name => e = f
    /\ \A k, j \in DOMAIN stack : k < j => \A e \in stack[k].todo : e.name # stack[j].path[k]
    /\ pc = "eval" => \A k \in DOMAIN stack : \A e \in stack[k].todo : e.name # child[k]

\* What the walk may still come to is not on the list yet, and so nothing comes twice.
EntriesInv ==
    /\ \A j \in DOMAIN entries : Fits(targets, entries[j])
    /\ pc = "target" => \A j \in DOMAIN entries : entries[j].target < cur
    /\ stack # <<>> => \A j \in DOMAIN entries : entries[j].target <= cur
    /\ stack # <<>> => \A j \in DOMAIN entries : entries[j].target = cur => entries[j].path \notin Upcoming
    /\ \A j, k \in DOMAIN entries :
           entries[j].target = entries[k].target /\ entries[j].path = entries[k].path => j = k

LEMMA OnTrans ==
    ASSUME NEW S, NEW p \in Seq(S), NEW q \in Seq(S), NEW r \in Seq(S), On(p, q), On(q, r)
    PROVE  On(p, r)
  <1>1. Len(p) \in Nat /\ Len(q) \in Nat /\ Len(r) \in Nat
    OBVIOUS
  <1> QED
    BY <1>1 DEF On

LEMMA TodoStep ==
    ASSUME HistoryInv, WalkInv, TodoInv, Change \/ Discover \/ UNCHANGED discoveryVars
    PROVE  TodoInv'
  <1>1. CASE Change \/ UNCHANGED discoveryVars
    <2>1. UNCHANGED <<stack, pc, child>>
      BY <1>1 DEF Change, walk, discoveryVars
    <2> QED
      BY <2>1 DEF TodoInv
  <1>2. CASE UseExplicit \/ Refuse \/ EndDiscover \/ FindNodes
    <2>1. pc \notin {"enter", "list", "eval"} /\ UNCHANGED stack /\ pc' # "eval"
      BY <1>2 DEF UseExplicit, Refuse, EndDiscover, FindNodes, ListStreams, ListNodes, EndStreams,
                  walk, NextTarget
    <2>2. stack' = <<>>
      BY <2>1 DEF WalkInv
    <2> QED
      BY <2>1, <2>2 DEF TodoInv
  <1>3. CASE StartWalk
    <2>1. DOMAIN stack' = {1} /\ stack'[1] = BaseCall /\ pc' = "enter"
      BY <1>3, StartFacts
    <2>2. stack'[1].todo = {}
      BY <2>1 DEF BaseCall
    <2> QED
      BY <2>1, <2>2 DEF TodoInv
  <1>4. CASE Enter
    <2> DEFINE n == Len(stack)
    <2>1. /\ stack # <<>> /\ EnterTodo \subseteq Item /\ pc' = "list"
          /\ stack' = [stack EXCEPT ![n].todo = EnterTodo]
      BY <1>4, EnterFacts
    <2>2. n \in DOMAIN stack /\ n \in Nat /\ DOMAIN stack = 1..n
      BY <2>1, TopFacts
    <2>3. /\ DOMAIN stack' = DOMAIN stack /\ stack'[n].todo = EnterTodo
          /\ \A i \in DOMAIN stack : stack'[i].path = stack[i].path
          /\ \A i \in DOMAIN stack : i # n => stack'[i] = stack[i]
      <3>1. Top'.todo = EnterTodo /\ Len(stack') = Len(stack)
        BY <2>1, NewTodo
      <3>2. /\ DOMAIN stack' = DOMAIN stack
            /\ \A i \in DOMAIN stack : stack'[i].path = stack[i].path
            /\ \A i \in DOMAIN stack : i # n => stack'[i] = stack[i]
        BY <2>1, NewTodo
      <3> QED
        BY <3>1, <3>2 DEF Top
    <2>4. \A e, f \in EnterTodo : e.name = f.name => e = f
      <3> DEFINE here == Resolve(Target.base, Top.path)
      <3>1. Top.path \in Seq(Name) /\ Target.base \in Dir
        BY <2>1, TopFacts
      <3>2. Readable(here) => here \in Dir
        BY <3>1, ListingType DEF HistoryInv
      <3>3. Readable(here) => \A e, f \in Listing(here) : e.name = f.name => e = f
        BY <3>2, Listed DEF HistoryInv
      <3>4. EnterTodo = {} \/ (Readable(here) /\ EnterTodo = Listing(here))
        BY DEF EnterTodo
      <3> HIDE DEF here
      <3> QED
        BY <3>3, <3>4
    <2> HIDE DEF n
    <2>5. \A k \in DOMAIN stack' : \A e, f \in stack'[k].todo : e.name = f.name => e = f
      BY <2>3, <2>4 DEF TodoInv
    <2>6. \A k, j \in DOMAIN stack' : k < j => k # n
      BY <2>2, <2>3
    <2>7. \A k, j \in DOMAIN stack' : k < j => \A e \in stack'[k].todo : e.name # stack'[j].path[k]
      BY <2>3, <2>6 DEF TodoInv
    <2> QED
      BY <2>1, <2>5, <2>7 DEF TodoInv
  <1>5. CASE Pick
    <2> DEFINE n == Len(stack)
               e == First(Top.todo)
               T == Top.todo \ {e}
    <2>1. /\ stack # <<>> /\ e \in Top.todo /\ e.name \in Name /\ T \subseteq Item
          /\ stack' = [stack EXCEPT ![n].todo = T]
          /\ pc' = "list" \/ (pc' = "eval" /\ child' = ChildPath(e.name))
      BY <1>5, PickFacts
    <2>2. n \in DOMAIN stack /\ n \in Nat /\ DOMAIN stack = 1..n /\ stack[n] = Top
      BY <2>1, TopFacts
    <2>3. /\ DOMAIN stack' = DOMAIN stack /\ stack'[n].todo = T
          /\ \A i \in DOMAIN stack : stack'[i].path = stack[i].path
          /\ \A i \in DOMAIN stack : i # n => stack'[i] = stack[i]
      <3> HIDE DEF T
      <3>1. Top'.todo = T /\ Len(stack') = Len(stack)
        BY <2>1, NewTodo
      <3>2. /\ DOMAIN stack' = DOMAIN stack
            /\ \A i \in DOMAIN stack : stack'[i].path = stack[i].path
            /\ \A i \in DOMAIN stack : i # n => stack'[i] = stack[i]
        BY <2>1, NewTodo
      <3> QED
        BY <3>1, <3>2 DEF Top
    <2>4. /\ ChildPath(e.name) \in Seq(Name) /\ Len(ChildPath(e.name)) = n
          /\ On(Top.path, ChildPath(e.name)) /\ ChildPath(e.name)[n] = e.name
          /\ Len(Top.path) = n - 1
      BY <2>1, ChildPathFacts
    <2> HIDE DEF n, e
    <2>5. \A k \in DOMAIN stack' : stack'[k].todo \subseteq stack[k].todo
      BY <2>2, <2>3
    <2>6. \A k \in DOMAIN stack' : \A x, y \in stack'[k].todo : x.name = y.name => x = y
      BY <2>3, <2>5 DEF TodoInv
    <2>7. \A k, j \in DOMAIN stack' : k < j => \A x \in stack'[k].todo : x.name # stack'[j].path[k]
      BY <2>3, <2>5 DEF TodoInv
    <2>8. ASSUME pc' = "eval", NEW k \in DOMAIN stack', NEW x \in stack'[k].todo
          PROVE  x.name # child'[k]
      <3>1. child' = ChildPath(e.name)
        BY <2>1, <2>8
      <3>2. CASE k = n
        <4>1. x \in stack[n].todo /\ x # e /\ e \in stack[n].todo
          BY <2>1, <2>2, <2>3, <2>8, <3>2
        <4>2. x.name # e.name
          BY <2>2, <4>1 DEF TodoInv
        <4> QED
          BY <2>4, <3>1, <3>2, <4>2
      <3>3. CASE k # n
        <4>1. k < n /\ k \in 1..(n - 1) /\ x \in stack[k].todo /\ k \in DOMAIN stack
          BY <2>2, <2>3, <2>8, <3>3
        <4>2. x.name # stack[n].path[k]
          BY <2>2, <4>1 DEF TodoInv
        <4>3. ChildPath(e.name)[k] = Top.path[k]
          BY <2>4, <4>1 DEF On
        <4> QED
          BY <2>2, <3>1, <4>2, <4>3
      <3> QED
        BY <3>2, <3>3
    <2> QED
      BY <2>6, <2>7, <2>8 DEF TodoInv
  <1>6. CASE Descend
    <2> DEFINE n == Len(stack)
               real == Resolve(Target.base, child)
    <2>1. pc = "eval" /\ stack # <<>>
      BY <1>6, DescendFacts
    <2>2. n \in DOMAIN stack /\ n \in Nat /\ DOMAIN stack = 1..n
      BY <2>1, TopFacts
    <2>3. CASE real \in ancestors
      <3>1. pc' = "list" /\ UNCHANGED stack
        BY <1>6, <2>3, DescendFacts
      <3> QED
        BY <3>1 DEF TodoInv
    <2>4. CASE real \notin ancestors
      <3>1. /\ pc' = "enter" /\ DOMAIN stack' = 1..(n + 1)
            /\ \A i \in DOMAIN stack : stack'[i] = stack[i]
            /\ stack'[n + 1] = ChildCall
        BY <1>6, <2>4, DescendFacts
      <3>2. stack'[n + 1].todo = {} /\ stack'[n + 1].path = child
        BY <3>1 DEF ChildCall
      <3> HIDE DEF n
      <3>3. \A k \in DOMAIN stack' : k = n + 1 \/ (k \in DOMAIN stack /\ k # n + 1)
        BY <2>2, <3>1
      <3>4. \A k \in DOMAIN stack' : \A x, y \in stack'[k].todo : x.name = y.name => x = y
        BY <3>1, <3>2, <3>3 DEF TodoInv
      <3>5. ASSUME NEW k \in DOMAIN stack', NEW j \in DOMAIN stack', k < j, NEW x \in stack'[k].todo
            PROVE  x.name # stack'[j].path[k]
        <4>1. k \in DOMAIN stack /\ stack'[k] = stack[k]
          BY <3>1, <3>2, <3>3, <3>5
        <4>2. CASE j = n + 1
          BY <2>1, <3>2, <3>5, <4>1, <4>2 DEF TodoInv
        <4>3. CASE j # n + 1
          <5>1. j \in DOMAIN stack /\ stack'[j] = stack[j]
            BY <3>1, <3>3, <4>3
          <5> QED
            BY <3>5, <4>1, <5>1 DEF TodoInv
        <4> QED
          BY <4>2, <4>3
      <3> QED
        BY <3>1, <3>4, <3>5 DEF TodoInv
    <2> QED
      BY <2>3, <2>4
  <1>7. CASE Return
    <2>1. \A i \in DOMAIN stack' : i \in DOMAIN stack /\ stack'[i] = stack[i]
      BY <1>7, ReturnFacts
    <2>2. pc' # "eval"
      BY <1>7, ReturnFacts
    <2> QED
      BY <2>1, <2>2 DEF TodoInv
  <1> QED
    BY <1>1, <1>2, <1>3, <1>4, <1>5, <1>6, <1>7 DEF Discover, Walk

\* A step of the walk only leaves paths behind.
LEMMA UpcomingShrinks ==
    ASSUME HistoryInv, WalkInv, Enter \/ Pick \/ Descend \/ Return
    PROVE  Upcoming' \subseteq Upcoming
  <1> SUFFICES ASSUME NEW q \in Seq(Name), Pending(q)'
               PROVE  Pending(q)
    BY DEF Upcoming
  <1> DEFINE n == Len(stack)
  <1>1. CASE Enter
    <2>1. /\ stack # <<>> /\ EnterTodo \subseteq Item /\ pc = "enter" /\ pc' = "list"
          /\ stack' = [stack EXCEPT ![n].todo = EnterTodo]
      BY <1>1, EnterFacts
    <2>2. stack[n] = Top
      BY <2>1, TopFacts
    <2>3. /\ DOMAIN stack' = DOMAIN stack
          /\ \A i \in DOMAIN stack : stack'[i].path = stack[i].path
          /\ \A i \in DOMAIN stack : i # n => stack'[i] = stack[i]
      BY <2>1, NewTodo
    <2>4. PICK k \in DOMAIN stack' : k <= Len(q) /\ On(stack'[k].path, q)
                                     /\ \E e \in stack'[k].todo : e.name = q[k]
      BY <2>1 DEF Pending
    <2> HIDE DEF n
    <2>5. CASE k = n
      BY <2>1, <2>2, <2>3, <2>4, <2>5 DEF Pending
    <2>6. CASE k # n
      BY <2>3, <2>4, <2>6 DEF Pending
    <2> QED
      BY <2>5, <2>6
  <1>2. CASE Pick
    <2> DEFINE e == First(Top.todo)
               T == Top.todo \ {e}
    <2>1. /\ stack # <<>> /\ e \in Top.todo /\ e.name \in Name /\ T \subseteq Item
          /\ stack' = [stack EXCEPT ![n].todo = T]
          /\ pc' = "list" \/ (pc' = "eval" /\ child' = ChildPath(e.name))
      BY <1>2, PickFacts
    <2>2. /\ n \in DOMAIN stack /\ n \in Nat \ {0} /\ stack[n] = Top
          /\ Top.path \in Seq(Name) /\ Len(Top.path) = n - 1
      BY <2>1, TopFacts
    <2>3. /\ DOMAIN stack' = DOMAIN stack
          /\ \A i \in DOMAIN stack : stack'[i].path = stack[i].path
          /\ \A i \in DOMAIN stack : stack'[i].todo \subseteq stack[i].todo
      <3> HIDE DEF T
      <3>1. Top'.todo = T /\ Len(stack') = Len(stack)
        BY <2>1, NewTodo
      <3>2. /\ DOMAIN stack' = DOMAIN stack
            /\ \A i \in DOMAIN stack : stack'[i].path = stack[i].path
            /\ \A i \in DOMAIN stack : i # n => stack'[i] = stack[i]
        BY <2>1, NewTodo
      <3>3. stack'[n].todo = T
        BY <3>1 DEF Top
      <3>4. T \subseteq stack[n].todo
        BY <2>2 DEF T
      <3> HIDE DEF n
      <3> QED
        BY <3>2, <3>3, <3>4
    <2>4. /\ ChildPath(e.name) \in Seq(Name) /\ Len(ChildPath(e.name)) = n
          /\ On(Top.path, ChildPath(e.name)) /\ ChildPath(e.name)[n] = e.name
      BY <2>1, ChildPathFacts
    <2> HIDE DEF n, e
    <2>5. CASE pc' = "eval" /\ On(child', q)
      <3>1. On(ChildPath(e.name), q)
        BY <2>1, <2>5
      <3>2. On(Top.path, q)
        BY <2>2, <2>4, <3>1, OnTrans
      <3>3. n <= Len(q) /\ q[n] = e.name
        BY <2>2, <2>4, <3>1 DEF On
      <3> QED
        BY <2>1, <2>2, <3>2, <3>3 DEF Pending
    <2>6. ASSUME NEW k \in DOMAIN stack', k <= Len(q), On(stack'[k].path, q),
                 NEW f \in stack'[k].todo, f.name = q[k]
          PROVE  Pending(q)
      <3>1. k \in DOMAIN stack /\ On(stack[k].path, q) /\ f \in stack[k].todo
        BY <2>3, <2>6
      <3> QED
        BY <2>6, <3>1 DEF Pending
    <2> QED
      BY <2>1, <2>5, <2>6 DEF Pending
  <1>3. CASE Descend
    <2> DEFINE real == Resolve(Target.base, child)
    <2>1. pc = "eval" /\ stack # <<>>
      BY <1>3, DescendFacts
    <2>2. n \in Nat /\ DOMAIN stack = 1..n
      BY <2>1, TopFacts
    <2>3. CASE real \in ancestors
      <3>1. pc' = "list" /\ UNCHANGED stack
        BY <1>3, <2>3, DescendFacts
      <3> QED
        BY <3>1 DEF Pending
    <2>4. CASE real \notin ancestors
      <3>1. /\ pc' = "enter" /\ DOMAIN stack' = 1..(n + 1) /\ Top' = ChildCall
            /\ \A i \in DOMAIN stack : stack'[i] = stack[i]
            /\ stack'[n + 1] = ChildCall
        BY <1>3, <2>4, DescendFacts
      <3>2. stack'[n + 1].todo = {} /\ Top'.path = child
        BY <3>1 DEF ChildCall
      <3> HIDE DEF n
      <3>3. \A k \in DOMAIN stack' : k = n + 1 \/ k \in DOMAIN stack
        BY <2>2, <3>1
      <3>4. CASE On(child, q)
        BY <2>1, <3>4 DEF Pending
      <3>5. ASSUME NEW k \in DOMAIN stack', k <= Len(q), On(stack'[k].path, q),
                   NEW f \in stack'[k].todo, f.name = q[k]
            PROVE  Pending(q)
        <4>1. k \in DOMAIN stack /\ stack'[k] = stack[k]
          BY <3>1, <3>2, <3>3, <3>5
        <4> QED
          BY <3>5, <4>1 DEF Pending
      <3> QED
        BY <3>1, <3>2, <3>4, <3>5 DEF Pending
    <2> QED
      BY <2>3, <2>4
  <1>4. CASE Return
    <2>1. \A i \in DOMAIN stack' : i \in DOMAIN stack /\ stack'[i] = stack[i]
      BY <1>4, ReturnFacts
    <2>2. pc' # "eval" /\ pc' # "enter"
      BY <1>4, ReturnFacts
    <2> QED
      BY <2>1, <2>2 DEF Pending
  <1> QED
    BY <1>1, <1>2, <1>3, <1>4

LEMMA CleanType ==
    ASSUME NEW d \in Seq(Nat)
    PROVE  Clean(d) \in Seq(Nat) /\ Clean(d) # <<>>
  <1> DEFINE rel == Kept(d, {i \in DOMAIN d : d[i] # Dot})
  <1>1. rel \in Seq(Nat)
    BY KeptType
  <1>2. Clean(d) = IF rel = <<>> THEN <<Dot>> ELSE rel
    BY DEF Clean
  <1>3. <<Dot>> \in Seq(Nat) /\ <<Dot>> # <<>>
    BY DEF Dot
  <1> HIDE DEF rel
  <1> QED
    BY <1>1, <1>2, <1>3

\* The explicit directories of a target are listed once each.
LEMMA ExplicitFacts ==
    ASSUME TargetsInv, NEW i \in DOMAIN targets
    PROVE  /\ \A k \in DOMAIN ExplicitEntries(i) :
                  /\ ExplicitEntries(i)[k].target = i
                  /\ ExplicitEntries(i)[k].path \in Seq(Nat) /\ ExplicitEntries(i)[k].path # <<>>
                  /\ ExplicitEntries(i)[k].labels =
                         ExplicitLabels(targets[i], ExplicitEntries(i)[k].path)
           /\ \A j, k \in DOMAIN ExplicitEntries(i) :
                  ExplicitEntries(i)[j].path = ExplicitEntries(i)[k].path => j = k
  <1> DEFINE t == targets[i]
             S == Seq(Nat) \ {<<>>}
             clean == [k \in DOMAIN t.dirs |-> Clean(t.dirs[k])]
             places == {k \in DOMAIN clean : \A m \in 1..(k - 1) : clean[m] # clean[k]}
             paths == Kept(clean, places)
             made == [k \in DOMAIN paths |-> Entry(i, paths[k], ExplicitLabels(t, paths[k]))]
  <1>1. /\ DOMAIN t.dirs = 1..Len(t.dirs) /\ Len(t.dirs) \in Nat
        /\ \A k \in DOMAIN t.dirs : t.dirs[k] \in Seq(Nat)
    BY SeqFacts DEF TargetsInv, IsTarget
  <1>2. \A k \in DOMAIN t.dirs : Clean(t.dirs[k]) \in S
    BY <1>1, CleanType
  <1>3. clean \in Seq(S) /\ Len(clean) \in Nat /\ DOMAIN clean = 1..Len(clean)
    <2> HIDE DEF S
    <2> QED
      BY <1>1, <1>2
  <1>4. \A k \in places : k \in DOMAIN clean /\ \A m \in 1..(k - 1) : clean[m] # clean[k]
    OBVIOUS
  <1> HIDE DEF clean, S
  <1>5. \A k, m \in 1..Len(clean) : k \in places /\ m \in places /\ k # m => clean[k] # clean[m]
    <2> HIDE DEF places
    <2> SUFFICES ASSUME NEW k \in 1..Len(clean), NEW m \in 1..Len(clean), k \in places, m \in places,
                        k # m
                 PROVE  clean[k] # clean[m]
      OBVIOUS
    <2>1. CASE k < m
      <3>1. k \in 1..(m - 1)
        BY <1>3, <2>1
      <3> QED
        BY <1>4, <3>1
    <2>2. CASE m < k
      <3>1. m \in 1..(k - 1)
        BY <1>3, <2>2
      <3> QED
        BY <1>4, <3>1
    <2> QED
      BY <1>3, <2>1, <2>2
  <1> HIDE DEF places
  <1>6. paths \in Seq(S)
    BY <1>3, KeptType
  <1>7. \A m, r \in 1..Len(paths) : m # r => paths[m] # paths[r]
    BY <1>3, <1>5, KeptDistinct
  <1> HIDE DEF paths
  <1>8. DOMAIN paths = 1..Len(paths) /\ \A k \in DOMAIN paths : paths[k] \in S
    BY <1>6, SeqFacts
  <1>9. ExplicitEntries(i) = made
    BY DEF ExplicitEntries, made, paths, places, clean
  <1>10. /\ DOMAIN made = DOMAIN paths
         /\ \A k \in DOMAIN paths : /\ made[k].target = i /\ made[k].path = paths[k]
                                     /\ made[k].labels = ExplicitLabels(t, paths[k])
    BY DEF Entry
  <1> HIDE DEF made
  <1>11. \A k \in DOMAIN made : /\ made[k].target = i
                                /\ made[k].path \in Seq(Nat) /\ made[k].path # <<>>
                                /\ made[k].labels = ExplicitLabels(t, made[k].path)
    BY <1>8, <1>10 DEF S
  <1>12. \A j, k \in DOMAIN made : made[j].path = made[k].path => j = k
    BY <1>7, <1>8, <1>10
  <1> QED
    BY <1>9, <1>11, <1>12

LEMMA EntriesStarts ==
    ASSUME NEW w, NEW ts, StartDiscovery(w, ts)
    PROVE  EntriesInv /\ TodoInv
  <1>1. entries = <<>> /\ stack = <<>> /\ pc = "target"
    BY DEF StartDiscovery
  <1> QED
    BY <1>1 DEF EntriesInv, TodoInv

\* Nothing is added, and nothing that is on the list comes into view.
LEMMA EntriesSame ==
    ASSUME EntriesInv, cur \in Nat, UNCHANGED <<entries, targets>>,
           stack' # <<>> => cur' = cur /\ stack # <<>> /\ Upcoming' \subseteq Upcoming,
           pc' = "target" => \/ pc = "target" /\ cur' \in {cur, cur + 1}
                             \/ stack # <<>> /\ cur' = cur + 1,
           \A j \in DOMAIN entries : entries[j].target \in Nat
    PROVE  EntriesInv'
  <1>1. /\ \A j \in DOMAIN entries : Fits(targets, entries[j])
        /\ pc = "target" => \A j \in DOMAIN entries : entries[j].target < cur
        /\ stack # <<>> => \A j \in DOMAIN entries : entries[j].target <= cur
        /\ stack # <<>> => \A j \in DOMAIN entries : entries[j].target = cur => entries[j].path \notin Upcoming
        /\ \A j, k \in DOMAIN entries :
               entries[j].target = entries[k].target /\ entries[j].path = entries[k].path => j = k
    BY DEF EntriesInv
  <1>2. \A j \in DOMAIN entries' : Fits(targets', entries'[j])
    BY <1>1 DEF Fits
  <1>3. pc' = "target" => \A j \in DOMAIN entries' : entries'[j].target < cur'
    <2> SUFFICES ASSUME pc' = "target", NEW j \in DOMAIN entries
                 PROVE  entries[j].target < cur'
      OBVIOUS
    <2>1. CASE pc = "target" /\ cur' \in {cur, cur + 1}
      BY <1>1, <2>1
    <2>2. CASE stack # <<>> /\ cur' = cur + 1
      BY <1>1, <2>2
    <2> QED
      BY <2>1, <2>2
  <1>4. stack' # <<>> => \A j \in DOMAIN entries' :
            /\ entries'[j].target <= cur'
            /\ entries'[j].target = cur' => entries'[j].path \notin Upcoming'
    BY <1>1
  <1> QED
    BY <1>1, <1>2, <1>3, <1>4 DEF EntriesInv

LEMMA EntriesStep ==
    ASSUME HistoryInv, WalkInv, ListInv, TodoInv, EntriesInv,
           Change \/ Discover \/ UNCHANGED discoveryVars
    PROVE  EntriesInv'
  <1>1. /\ \A j \in DOMAIN entries : Fits(targets, entries[j])
        /\ pc = "target" => \A j \in DOMAIN entries : entries[j].target < cur
        /\ stack # <<>> => \A j \in DOMAIN entries : entries[j].target <= cur
        /\ stack # <<>> => \A j \in DOMAIN entries : entries[j].target = cur => entries[j].path \notin Upcoming
        /\ \A j, k \in DOMAIN entries :
               entries[j].target = entries[k].target /\ entries[j].path = entries[k].path => j = k
    BY DEF EntriesInv
  <1>2. /\ cur \in Nat /\ UNCHANGED targets
        /\ DOMAIN targets = 1..Len(targets) /\ Len(targets) \in Nat
    BY ListGrows, SeqFacts DEF WalkInv, HistoryInv, TargetsInv
  <1>3. \A j \in DOMAIN entries : entries[j].target \in Nat
    BY <1>1, <1>2 DEF Fits
  <1>4. CASE Change \/ UNCHANGED discoveryVars
    <2>1. UNCHANGED <<pc, cur, stack, child, entries>>
      BY <1>4 DEF Change, walk, found, discoveryVars
    <2>2. Upcoming' = Upcoming
      BY <2>1 DEF Upcoming, Pending, Top
    <2> QED
      BY <1>2, <1>3, <2>1, <2>2, EntriesSame
  <1>5. CASE Refuse \/ EndDiscover \/ FindNodes
    <2>1. UNCHANGED entries /\ pc \notin {"enter", "list", "eval"} /\ UNCHANGED stack
      BY <1>5 DEF Refuse, EndDiscover, FindNodes, ListStreams, ListNodes, EndStreams, walk, found
    <2>2. pc' = "target" => pc = "target" /\ cur' = cur + 1
      BY <1>5 DEF Refuse, EndDiscover, FindNodes, ListStreams, ListNodes, EndStreams, NextTarget
    <2>3. stack' = <<>>
      BY <2>1 DEF WalkInv
    <2> QED
      BY <1>2, <1>3, <2>1, <2>2, <2>3, EntriesSame
  <1>6. CASE Pick \/ Descend
    <2>1. UNCHANGED <<entries, cur>> /\ pc \in {"list", "eval"} /\ pc' # "target"
      BY <1>6 DEF Pick, Descend, found
    <2>2. stack # <<>>
      BY <2>1 DEF WalkInv
    <2>3. Upcoming' \subseteq Upcoming
      BY <1>6, UpcomingShrinks
    <2> QED
      BY <1>2, <1>3, <2>1, <2>2, <2>3, EntriesSame
  <1>7. CASE Return
    <2>1. UNCHANGED entries
      BY <1>7 DEF Return, found
    <2>2. stack # <<>> /\ Upcoming' \subseteq Upcoming
      BY <1>7, ReturnFacts, UpcomingShrinks
    <2>3. stack' # <<>> => cur' = cur
      <3>1. Len(stack) # 1 => cur' = cur
        BY <1>7, ReturnFacts
      <3>2. stack' \in Seq(Frame) /\ Len(stack) \in Nat /\ Len(stack') = Len(stack) - 1
        BY <1>7, ReturnFacts
      <3>3. Len(stack) = 1 => Len(stack') = 0
        BY <3>2
      <3>4. Len(stack') = 0 => stack' = <<>>
        BY <3>2
      <3> QED
        BY <3>1, <3>3, <3>4
    <2>4. pc' = "target" => cur' = cur + 1
      <3>1. /\ Len(stack) = 1 => cur' = cur + 1
            /\ Len(stack) # 1 => pc' = "list"
        BY <1>7, ReturnFacts
      <3> QED
        BY <3>1
    <2> QED
      BY <1>2, <1>3, <2>1, <2>2, <2>3, <2>4, EntriesSame
  <1>8. CASE StartWalk
    <2>1. pc = "target" /\ pc' = "enter" /\ UNCHANGED <<entries, cur>>
      BY <1>8, StartFacts
    <2>2. \A j \in DOMAIN entries : entries[j].target < cur
      BY <1>1, <2>1
    <2>3. \A j \in DOMAIN entries : entries[j].target <= cur /\ entries[j].target # cur
      BY <1>2, <1>3, <2>2
    <2>4. \A j \in DOMAIN entries' : Fits(targets', entries'[j])
      BY <1>1, <1>2, <2>1 DEF Fits
    <2> QED
      BY <1>1, <2>1, <2>3, <2>4 DEF EntriesInv
  <1>9. CASE UseExplicit
    <2> DEFINE more == ExplicitEntries(cur)
    <2>1. /\ pc = "target" /\ cur <= Len(targets) /\ Target.dirs # <<>> /\ entries' = entries \o more
          /\ cur' = cur + 1 /\ pc' = "target" /\ stack' = <<>>
      BY <1>9 DEF UseExplicit, walk, WalkInv
    <2>2. cur \in DOMAIN targets
      BY <1>2, <2>1 DEF WalkInv
    <2>3. more \in Seq(Range(more))
      BY <2>2, ExplicitIsList DEF HistoryInv
    <2>4. /\ \A k \in DOMAIN more : /\ more[k].target = cur
                                    /\ more[k].path \in Seq(Nat) /\ more[k].path # <<>>
                                    /\ more[k].labels = ExplicitLabels(targets[cur], more[k].path)
          /\ \A j, k \in DOMAIN more : more[j].path = more[k].path => j = k
      BY <2>2, ExplicitFacts DEF HistoryInv
    <2> HIDE DEF more
    <2> DEFINE l == Len(entries)
    <2>5. /\ DOMAIN entries = 1..l /\ l \in Nat /\ DOMAIN more = 1..Len(more) /\ Len(more) \in Nat
          /\ DOMAIN entries' = 1..(l + Len(more))
          /\ \A j \in DOMAIN entries : entries'[j] = entries[j]
          /\ \A k \in DOMAIN more : entries'[l + k] = more[k]
      BY <2>1, <2>3, ConcatFacts DEF ListInv
    <2> HIDE DEF l
    <2>6. \A j \in DOMAIN entries' : \/ j \in DOMAIN entries /\ entries'[j] = entries[j]
                                     \/ j - l \in DOMAIN more /\ entries'[j] = more[j - l]
      <3> SUFFICES ASSUME NEW j \in DOMAIN entries', j \notin DOMAIN entries
                   PROVE  j - l \in DOMAIN more /\ entries'[j] = more[j - l]
        BY <2>5
      <3>1. j - l \in DOMAIN more /\ l + (j - l) = j
        BY <2>5
      <3> QED
        BY <2>5, <3>1
    <2>7. \A j \in DOMAIN entries : Fits(targets', entries[j])
      BY <1>1, <1>2, <2>5 DEF Fits
    <2>8. ASSUME NEW j \in DOMAIN entries'
          PROVE  Fits(targets', entries'[j])
      <3>1. CASE j \in DOMAIN entries /\ entries'[j] = entries[j]
        BY <1>1, <1>2, <3>1 DEF Fits
      <3>2. CASE j - l \in DOMAIN more /\ entries'[j] = more[j - l]
        BY <1>2, <2>1, <2>2, <2>4, <3>2 DEF Fits, Target
      <3> QED
        BY <2>6, <3>1, <3>2
    <2>9. \A j \in DOMAIN entries' : entries'[j].target < cur'
      <3> SUFFICES ASSUME NEW j \in DOMAIN entries' PROVE entries'[j].target < cur + 1
        BY <2>1
      <3>1. CASE j \in DOMAIN entries /\ entries'[j] = entries[j]
        <4>1. entries[j].target < cur /\ entries[j].target \in Nat
          BY <1>1, <1>3, <2>1, <3>1
        <4> QED
          BY <1>2, <3>1, <4>1
      <3>2. CASE j - l \in DOMAIN more /\ entries'[j] = more[j - l]
        BY <1>2, <2>4, <3>2
      <3> QED
        BY <2>6, <3>1, <3>2
    <2>10. ASSUME NEW j \in DOMAIN entries', NEW k \in DOMAIN entries',
                  entries'[j].target = entries'[k].target, entries'[j].path = entries'[k].path
           PROVE  j = k
      <3>1. \A m \in DOMAIN entries : entries[m].target # cur
        BY <1>1, <1>2, <1>3, <2>1
      <3>2. CASE entries'[j].target = cur
        <4>1. /\ j - l \in DOMAIN more /\ entries'[j] = more[j - l]
              /\ k - l \in DOMAIN more /\ entries'[k] = more[k - l]
          BY <2>6, <2>10, <3>1, <3>2
        <4>2. j - l = k - l
          BY <2>4, <2>10, <4>1
        <4> QED
          BY <2>5, <4>2
      <3>3. CASE entries'[j].target # cur
        <4>1. /\ j \in DOMAIN entries /\ entries'[j] = entries[j]
              /\ k \in DOMAIN entries /\ entries'[k] = entries[k]
          BY <2>4, <2>6, <2>10, <3>3
        <4> QED
          BY <1>1, <2>10, <4>1
      <3> QED
        BY <3>2, <3>3
    <2> QED
      BY <2>1, <2>8, <2>9, <2>10 DEF EntriesInv
  <1>10. CASE Enter
    <2> DEFINE n == Len(stack)
               p == Top.path
    <2>1. /\ stack # <<>> /\ pc = "enter" /\ pc' = "list" /\ cur' = cur
          /\ EnterTodo \subseteq Item /\ stack' = [stack EXCEPT ![n].todo = EnterTodo]
      BY <1>10, EnterFacts
    <2>2. Upcoming' \subseteq Upcoming
      BY <1>10, UpcomingShrinks
    <2>3. CASE UNCHANGED entries
      BY <1>2, <1>3, <2>1, <2>2, <2>3, EntriesSame
    <2>4. CASE Len(p) \in 1..Depth(Target) /\ Matches(Target, p)
      <3> DEFINE new == Entry(cur, p, Labels(Target, p))
      <3>1. entries' = Append(entries, new)
        BY <1>10, <2>4 DEF Enter
      <3>2. /\ n \in DOMAIN stack /\ n \in Nat /\ DOMAIN stack = 1..n /\ stack[n] = Top
            /\ p \in Seq(Name) /\ Len(p) = n - 1 /\ cur \in DOMAIN targets
        BY <2>1, TopFacts
      <3>3. p \in Upcoming
        <4> HIDE DEF n, p
        <4>1. On(p, p)
          BY <3>2, SeqFacts DEF On
        <4> QED
          BY <2>1, <3>2, <4>1 DEF Upcoming, Pending, p
      <3>4. p \notin Upcoming'
        <4> HIDE DEF p
        <4> SUFFICES ASSUME NEW q \in Seq(Name), q = p, Pending(q)' PROVE FALSE
          BY DEF Upcoming
        <4>1. PICK k \in DOMAIN stack' : k <= Len(q) /\ \E e \in stack'[k].todo : e.name = q[k]
          BY <2>1 DEF Pending
        <4>2. /\ DOMAIN stack' = DOMAIN stack
              /\ \A i \in DOMAIN stack : i # n => stack'[i] = stack[i]
          BY <2>1, NewTodo
        <4> HIDE DEF n
        <4>3. k < n /\ k \in DOMAIN stack /\ stack'[k] = stack[k]
          BY <3>2, <4>1, <4>2
        <4>4. \A e \in stack[k].todo : e.name # stack[n].path[k]
          BY <3>2, <4>3 DEF TodoInv
        <4>5. q = stack[n].path
          BY <3>2 DEF p
        <4> QED
          BY <4>1, <4>3, <4>4, <4>5
      <3> HIDE DEF n, p
      <3>5. new.target = cur /\ new.path = p /\ new.labels = Labels(Target, p)
        BY DEF Entry
      <3> HIDE DEF new
      <3> DEFINE l == Len(entries)
      <3>6. /\ DOMAIN entries = 1..l /\ l \in Nat /\ DOMAIN entries' = 1..(l + 1)
            /\ \A j \in DOMAIN entries : entries'[j] = entries[j]
            /\ entries'[l + 1] = new
        BY <3>1, AppendFacts DEF ListInv
      <3> HIDE DEF l
      <3>7. \A j \in DOMAIN entries' : \/ j \in DOMAIN entries /\ entries'[j] = entries[j]
                                       \/ j = l + 1 /\ entries'[j] = new
        BY <3>6
      <3>8. ASSUME NEW j \in DOMAIN entries'
            PROVE  Fits(targets', entries'[j])
        <4>1. CASE j \in DOMAIN entries /\ entries'[j] = entries[j]
          BY <1>1, <1>2, <4>1 DEF Fits
        <4>2. CASE entries'[j] = new
          <5>1. Target.dirs = <<>> /\ Target = targets[cur]
            BY <2>1 DEF WalkInv, Target
          <5>2. p # <<>>
            BY <2>4
          <5> QED
            BY <1>2, <2>4, <3>2, <3>5, <4>2, <5>1, <5>2 DEF Fits
        <4> QED
          BY <3>7, <4>1, <4>2
      <3>9. \A j \in DOMAIN entries' :
               /\ entries'[j].target <= cur
               /\ entries'[j].target = cur => entries'[j].path \notin Upcoming'
        <4> SUFFICES ASSUME NEW j \in DOMAIN entries'
                     PROVE  /\ entries'[j].target <= cur
                            /\ entries'[j].target = cur => entries'[j].path \notin Upcoming'
          OBVIOUS
        <4>1. CASE j \in DOMAIN entries /\ entries'[j] = entries[j]
          BY <1>1, <2>1, <2>2, <4>1
        <4>2. CASE entries'[j] = new
          BY <1>2, <3>4, <3>5, <4>2
        <4> QED
          BY <3>7, <4>1, <4>2
      <3>10. ASSUME NEW j \in DOMAIN entries', NEW k \in DOMAIN entries',
                    entries'[j].target = entries'[k].target, entries'[j].path = entries'[k].path
             PROVE  j = k
        <4>1. \A m \in DOMAIN entries : ~(entries[m].target = cur /\ entries[m].path = p)
          BY <1>1, <2>1, <3>3
        <4> QED
          BY <1>1, <3>5, <3>7, <3>10, <4>1
      <3> QED
        BY <2>1, <3>8, <3>9, <3>10 DEF EntriesInv
    <2> QED
      BY <1>10, <2>3, <2>4 DEF Enter
  <1> QED
    BY <1>4, <1>5, <1>6, <1>7, <1>8, <1>9, <1>10 DEF Discover, Walk

-----------------------------------------------------------------------------
(***************************************************************************)
(* The watch list holds nothing that is not asked for                      *)
(***************************************************************************)
\* Paths below the base of the target at hand that were there at some time.
SeenPaths == {v.path : v \in {u \in seen : u.way[0] = Target.base}}

SeenInv ==
    /\ \A k \in DOMAIN stack : k > 1 => stack[k].path \in SeenPaths
    /\ pc = "eval" => child \in SeenPaths
    /\ \A k \in DOMAIN stack : \A e \in stack[k].todo :
           /\ Len(stack[k].path) < Depth(Target)
           /\ e.kind = "dir" => Append(stack[k].path, e.name) \in SeenPaths

SoundInv ==
    \A j \in DOMAIN entries : targets[entries[j].target].dirs = <<>> =>
        \E v \in seen :
            /\ v.path = entries[j].path
            /\ Wanted(targets[entries[j].target], v)
            /\ steady = seen => NoCycle(v)

LEMMA TargetDepth ==
    ASSUME TargetsInv, cur \in DOMAIN targets
    PROVE  /\ Depth(Target) \in Int /\ Depth(Target) <= MaxPath /\ MaxPath \in Nat
           /\ Target.base \in Dir /\ Target.base \in Bases
  <1>1. IsTarget(Target)
    BY DEF TargetsInv, Target
  <1>2. Depth(Target) \in Int
    <2>1. Target.depth \in Int /\ Len(Target.pattern) \in Nat
      BY <1>1, SeqFacts DEF IsTarget
    <2> QED
      BY <2>1 DEF Depth
  <1> QED
    BY <1>1, <1>2, NamesAssumption DEF IsTarget, Bases, Target

\* A path that leads somewhere now is seen.
LEMMA SeenNow ==
    ASSUME HistoryInv, cur \in DOMAIN targets, NEW p \in Seq(Name), Len(p) \in 1..Depth(Target),
           Resolve(Target.base, p) # Nowhere
    PROVE  p \in SeenPaths
  <1>1. /\ Depth(Target) \in Int /\ Depth(Target) <= MaxPath /\ MaxPath \in Nat
        /\ Target.base \in Dir /\ Target.base \in Bases
    BY TargetDepth DEF HistoryInv
  <1>2. Len(p) \in 1..MaxPath /\ Len(p) \in Nat /\ p \in [1..Len(p) -> Name]
    BY <1>1
  <1>3. p \in Path
    BY <1>2 DEF Path
  <1> DEFINE v == [path |-> p, way |-> Way(Target.base, p)]
  <1>4. v.path = p /\ v.way = Way(Target.base, p) /\ v.way[Len(v.path)] # Nowhere
    BY DEF Resolve
  <1>5. v \in Views
    BY <1>1, <1>3, <1>4 DEF Views
  <1>6. v.way[0] = Target.base
    <2>1. v.way[0] = IF Exists(Target.base) THEN Target.base ELSE Nowhere
      BY <1>1, <1>4, WayRule DEF HistoryInv
    <2>2. v.way[0] \in Dir
      <3>1. 0 \in 0..Len(p)
        BY <1>2
      <3>2. \A i \in 0..Len(p) : Way(Target.base, p)[i] \in Dir
        BY <1>1, <1>4, WayBefore DEF HistoryInv
      <3> QED
        BY <1>4, <3>1, <3>2
    <2> QED
      BY <2>1, <2>2, RootAssumption
  <1> HIDE DEF v
  <1>7. v \in seen
    BY <1>5 DEF HistoryInv
  <1> QED
    BY <1>4, <1>6, <1>7 DEF SeenPaths

\* What lives in a directory that is reached is reached through it.
LEMMA DirSeen ==
    ASSUME HistoryInv, cur \in DOMAIN targets, NEW p \in Seq(Name), Len(p) < Depth(Target),
           Readable(Resolve(Target.base, p)),
           NEW n \in Name, at[Resolve(Target.base, p)][n].kind = "dir"
    PROVE  Append(p, n) \in SeenPaths
  <1> DEFINE q == Append(p, n)
             here == Resolve(Target.base, p)
             x == at[here][n].to
  <1>1. Depth(Target) \in Int /\ Target.base \in Dir /\ TreeInv
    BY TargetDepth DEF HistoryInv
  <1>2. /\ q \in Seq(Name) /\ Len(p) \in Nat /\ Len(q) = Len(p) + 1
        /\ (\A i \in 1..Len(p) : q[i] = p[i]) /\ q[Len(p) + 1] = n
    BY AppendSeq
  <1> HIDE DEF q
  <1>3. here \in Dir
    BY <1>1, ListingType
  <1>4. Exists(here)
    <2>1. /\ Way(Target.base, p)[0] = IF Exists(Target.base) THEN Target.base ELSE Nowhere
          /\ \A i \in 1..Len(p) : Way(Target.base, p)[i] = Step(Way(Target.base, p)[i - 1], p[i])
      BY <1>1, WayRule
    <2>2. here = Way(Target.base, p)[Len(p)]
      BY DEF Resolve
    <2> HIDE DEF here
    <2>3. CASE Len(p) = 0
      BY <1>3, <2>1, <2>2, <2>3, RootAssumption
    <2>4. CASE Len(p) # 0
      <3>1. Len(p) \in 1..Len(p)
        BY <1>2, <2>4
      <3>2. here = Step(Way(Target.base, p)[Len(p) - 1], p[Len(p)])
        BY <2>1, <2>2, <3>1
      <3> QED
        BY <1>3, <3>2, RootAssumption DEF Step
    <2> QED
      BY <2>3, <2>4
  <1> HIDE DEF here
  <1>5. x \in DOMAIN home /\ home[x] = <<here, n>> /\ x \in Dir /\ at[here][n].kind = "dir"
    BY <1>1, <1>3 DEF TreeInv, here
  <1>6. at[here][n] = DirTo(x)
    <2>1. at[here][n] \in Slot
      BY <1>1, <1>3 DEF TreeInv
    <2> QED
      BY <1>5, <2>1 DEF Slot, Other, DirTo, LinkTo
  <1> HIDE DEF x
  <1>7. Exists(x)
    <2>1. x \in Attached
      BY <1>5, <1>6 DEF Attached
    <2>2. home[x][1] = here
      BY <1>5
    <2> QED
      BY <1>1, <1>4, <1>5, <2>1, <2>2, ExistsRule
  <1>8. Step(here, n) = x
    BY <1>3, <1>5, <1>7, RootAssumption DEF Step, x
  <1>9. Resolve(Target.base, q) = x
    <2>1. On(p, q)
      BY <1>2 DEF On
    <2>2. Way(Target.base, q)[Len(p)] = Way(Target.base, p)[Len(p)]
      <3>1. Len(p) \in 0..Len(p)
        BY <1>2
      <3> QED
        BY <1>1, <1>2, <2>1, <3>1, WayPrefix
    <2>3. Len(q) \in 1..Len(q) /\ Len(q) - 1 = Len(p)
      BY <1>2
    <2>4. Way(Target.base, q)[Len(q)] = Step(Way(Target.base, q)[Len(p)], q[Len(q)])
      BY <1>1, <1>2, <2>3, WayRule
    <2> QED
      BY <1>2, <1>8, <2>2, <2>4 DEF Resolve, here
  <1>10. Len(q) \in 1..Depth(Target)
    BY <1>1, <1>2
  <1>11. Resolve(Target.base, q) # Nowhere
    BY <1>5, <1>9, RootAssumption
  <1>12. q \in SeenPaths
    BY <1>2, <1>10, <1>11, SeenNow
  <1> QED
    BY <1>12 DEF q

LEMMA SeenGrows ==
    ASSUME HistoryInv, Change \/ Discover \/ UNCHANGED discoveryVars
    PROVE  /\ seen \subseteq seen' /\ steady' \subseteq steady /\ steady \subseteq seen
           /\ steady' = seen' => steady = seen
           /\ Target' = Target => SeenPaths \subseteq SeenPaths'
  <1>1. seen \subseteq seen' /\ steady' \subseteq steady
    <2>1. CASE Change
      BY <2>1 DEF Change, Remember
    <2>2. CASE Discover \/ UNCHANGED discoveryVars
      BY <2>2, DiscoverIsProgram DEF Program, discoveryVars
    <2> QED
      BY <2>1, <2>2
  <1>2. steady \subseteq seen
    BY DEF HistoryInv
  <1>3. Target' = Target => SeenPaths \subseteq SeenPaths'
    <2> SUFFICES ASSUME Target' = Target, NEW p \in SeenPaths
                 PROVE  p \in SeenPaths'
      OBVIOUS
    <2>1. PICK v \in seen : v.way[0] = Target.base /\ p = v.path
      BY DEF SeenPaths
    <2>2. v \in seen' /\ v.way[0] = Target'.base
      BY <1>1, <2>1
    <2> QED
      BY <2>1, <2>2 DEF SeenPaths
  <1>4. steady' = seen' => steady = seen
    BY <1>1, <1>2
  <1> QED
    BY <1>1, <1>2, <1>3, <1>4

LEMMA ReturnStays ==
    ASSUME WalkInv, Return, stack' # <<>>
    PROVE  cur' = cur
  <1>1. Len(stack) # 1 => cur' = cur
    BY ReturnFacts
  <1>2. stack' \in Seq(Frame) /\ Len(stack) \in Nat /\ Len(stack') = Len(stack) - 1
    BY ReturnFacts
  <1>3. Len(stack) = 1 => Len(stack') = 0
    BY <1>2
  <1>4. Len(stack') = 0 => stack' = <<>>
    BY <1>2
  <1> QED
    BY <1>1, <1>3, <1>4

LEMMA SeenStarts ==
    ASSUME NEW w, NEW ts, StartDiscovery(w, ts)
    PROVE  SeenInv /\ SoundInv
  <1>1. entries = <<>> /\ stack = <<>> /\ pc = "target"
    BY DEF StartDiscovery
  <1> QED
    BY <1>1 DEF SeenInv, SoundInv

LEMMA SeenStep ==
    ASSUME HistoryInv, WalkInv, ListInv, SeenInv, Change \/ Discover \/ UNCHANGED discoveryVars
    PROVE  SeenInv'
  <1>1. UNCHANGED targets /\ (Target' = Target => SeenPaths \subseteq SeenPaths')
    BY ListGrows, SeenGrows
  <1>2. /\ \A k \in DOMAIN stack : k > 1 => stack[k].path \in SeenPaths
        /\ pc = "eval" => child \in SeenPaths
        /\ \A k \in DOMAIN stack : \A e \in stack[k].todo :
               /\ Len(stack[k].path) < Depth(Target)
               /\ e.kind = "dir" => Append(stack[k].path, e.name) \in SeenPaths
    BY DEF SeenInv
  <1>3. CASE Change \/ UNCHANGED discoveryVars
    <2>1. UNCHANGED <<stack, pc, child, cur>>
      BY <1>3 DEF Change, walk, discoveryVars
    <2>2. Target' = Target
      BY <1>1, <2>1 DEF Target
    <2> QED
      BY <1>1, <1>2, <2>1, <2>2 DEF SeenInv
  <1>4. CASE UseExplicit \/ Refuse \/ EndDiscover \/ FindNodes
    <2>1. pc \notin {"enter", "list", "eval"} /\ UNCHANGED stack /\ pc' # "eval"
      BY <1>4 DEF UseExplicit, Refuse, EndDiscover, FindNodes, ListStreams, ListNodes, EndStreams,
                  walk, NextTarget
    <2>2. stack' = <<>>
      BY <2>1 DEF WalkInv
    <2> QED
      BY <2>1, <2>2 DEF SeenInv
  <1>5. CASE StartWalk
    <2>1. DOMAIN stack' = {1} /\ stack'[1] = BaseCall /\ pc' = "enter"
      BY <1>5, StartFacts
    <2>2. stack'[1].todo = {}
      BY <2>1 DEF BaseCall
    <2> QED
      BY <2>1, <2>2 DEF SeenInv
  <1>6. CASE Enter
    <2> DEFINE n == Len(stack)
               here == Resolve(Target.base, Top.path)
    <2>1. /\ stack # <<>> /\ EnterTodo \subseteq Item /\ pc' = "list" /\ cur' = cur
          /\ stack' = [stack EXCEPT ![n].todo = EnterTodo]
      BY <1>6, EnterFacts
    <2>2. /\ n \in DOMAIN stack /\ stack[n] = Top /\ Top.path \in Seq(Name)
          /\ Target.base \in Dir /\ cur \in DOMAIN targets
      BY <2>1, TopFacts
    <2>3. /\ DOMAIN stack' = DOMAIN stack /\ stack'[n].todo = EnterTodo
          /\ \A i \in DOMAIN stack : stack'[i].path = stack[i].path
          /\ \A i \in DOMAIN stack : i # n => stack'[i] = stack[i]
      <3>1. Top'.todo = EnterTodo /\ Len(stack') = Len(stack)
        BY <2>1, NewTodo
      <3>2. /\ DOMAIN stack' = DOMAIN stack
            /\ \A i \in DOMAIN stack : stack'[i].path = stack[i].path
            /\ \A i \in DOMAIN stack : i # n => stack'[i] = stack[i]
        BY <2>1, NewTodo
      <3> QED
        BY <3>1, <3>2 DEF Top
    <2>4. Target' = Target /\ SeenPaths \subseteq SeenPaths'
      BY <1>1, <2>1 DEF Target
    <2>5. ASSUME NEW e \in EnterTodo
          PROVE  /\ Len(Top.path) < Depth(Target)
                 /\ e.kind = "dir" => Append(Top.path, e.name) \in SeenPaths
      <3>1. Len(Top.path) < Depth(Target) /\ Readable(here) /\ e \in Listing(here)
        BY <2>5 DEF EnterTodo
      <3>2. here \in Dir
        BY <2>2, <3>1, ListingType DEF HistoryInv
      <3>3. e.kind = at[here][e.name].kind /\ e.name \in Name
        <4> HIDE DEF here
        <4>1. e.kind = at[here][e.name].kind
          BY <3>1, <3>2, Listed DEF HistoryInv
        <4>2. e \in Item
          BY <2>1, <2>5
        <4> QED
          BY <4>1, <4>2 DEF Item
      <3>4. e.kind = "dir" => Append(Top.path, e.name) \in SeenPaths
        BY <2>2, <3>1, <3>3, DirSeen
      <3> QED
        BY <3>1, <3>4
    <2> HIDE DEF n
    <2>6. \A k \in DOMAIN stack' : \A e \in stack'[k].todo :
               /\ Len(stack'[k].path) < Depth(Target')
               /\ e.kind = "dir" => Append(stack'[k].path, e.name) \in SeenPaths'
      <3> SUFFICES ASSUME NEW k \in DOMAIN stack, NEW e \in stack'[k].todo
                   PROVE  /\ Len(stack[k].path) < Depth(Target)
                          /\ e.kind = "dir" => Append(stack[k].path, e.name) \in SeenPaths
        BY <2>3, <2>4
      <3>1. CASE k = n
        BY <2>2, <2>3, <2>5, <3>1
      <3>2. CASE k # n
        BY <1>2, <2>3, <3>2
      <3> QED
        BY <3>1, <3>2
    <2>7. \A k \in DOMAIN stack' : k > 1 => stack'[k].path \in SeenPaths'
      BY <1>2, <2>3, <2>4
    <2> QED
      BY <2>1, <2>6, <2>7 DEF SeenInv
  <1>7. CASE Pick
    <2> DEFINE n == Len(stack)
               e == First(Top.todo)
               T == Top.todo \ {e}
    <2>1. /\ stack # <<>> /\ e \in Top.todo /\ e.name \in Name /\ T \subseteq Item /\ cur' = cur
          /\ stack' = [stack EXCEPT ![n].todo = T]
          /\ pc' = "list" \/ (pc' = "eval" /\ child' = ChildPath(e.name))
      BY <1>7, PickFacts
    <2>2. /\ n \in DOMAIN stack /\ n \in Nat \ {0} /\ stack[n] = Top
          /\ Target.base \in Dir /\ cur \in DOMAIN targets
      BY <2>1, TopFacts
    <2>3. /\ DOMAIN stack' = DOMAIN stack
          /\ \A i \in DOMAIN stack : stack'[i].path = stack[i].path
          /\ \A i \in DOMAIN stack : stack'[i].todo \subseteq stack[i].todo
      <3> HIDE DEF T
      <3>1. Top'.todo = T /\ Len(stack') = Len(stack)
        BY <2>1, NewTodo
      <3>2. /\ DOMAIN stack' = DOMAIN stack
            /\ \A i \in DOMAIN stack : stack'[i].path = stack[i].path
            /\ \A i \in DOMAIN stack : i # n => stack'[i] = stack[i]
        BY <2>1, NewTodo
      <3>3. stack'[n].todo = T
        BY <3>1 DEF Top
      <3>4. T \subseteq stack[n].todo
        BY <2>2 DEF T
      <3> HIDE DEF n
      <3> QED
        BY <3>2, <3>3, <3>4
    <2>4. Target' = Target /\ SeenPaths \subseteq SeenPaths'
      BY <1>1, <2>1 DEF Target
    <2>5. pc' = "eval" => child' \in SeenPaths'
      <3> SUFFICES ASSUME pc' = "eval" PROVE ChildPath(e.name) \in SeenPaths
        BY <2>1, <2>4
      <3>1. e.kind = "dir" \/ Resolve(Target.base, ChildPath(e.name)) # Nowhere
        BY <1>7 DEF Pick
      <3>2. CASE e.kind = "dir"
        <4>1. Append(Top.path, e.name) \in SeenPaths
          BY <1>2, <2>1, <2>2, <3>2
        <4> QED
          BY <4>1 DEF ChildPath
      <3>3. CASE Resolve(Target.base, ChildPath(e.name)) # Nowhere
        <4>1. /\ ChildPath(e.name) \in Seq(Name) /\ Len(ChildPath(e.name)) = n
              /\ Len(Top.path) = n - 1
          BY <2>1, ChildPathFacts
        <4>2. Len(Top.path) < Depth(Target)
          BY <1>2, <2>1, <2>2
        <4>3. Depth(Target) \in Int
          BY <2>2, TargetDepth DEF HistoryInv
        <4> HIDE DEF n, e
        <4>4. Len(ChildPath(e.name)) \in 1..Depth(Target)
          BY <2>2, <4>1, <4>2, <4>3
        <4> QED
          BY <2>2, <3>3, <4>1, <4>4, SeenNow
      <3> QED
        BY <3>1, <3>2, <3>3
    <2>6. \A k \in DOMAIN stack' : \A x \in stack'[k].todo :
               /\ Len(stack'[k].path) < Depth(Target')
               /\ x.kind = "dir" => Append(stack'[k].path, x.name) \in SeenPaths'
      BY <1>2, <2>3, <2>4
    <2>7. \A k \in DOMAIN stack' : k > 1 => stack'[k].path \in SeenPaths'
      BY <1>2, <2>3, <2>4
    <2> QED
      BY <2>5, <2>6, <2>7 DEF SeenInv
  <1>8. CASE Descend
    <2> DEFINE n == Len(stack)
               real == Resolve(Target.base, child)
    <2>1. pc = "eval" /\ stack # <<>> /\ cur' = cur
      BY <1>8, DescendFacts
    <2>2. n \in Nat /\ DOMAIN stack = 1..n
      BY <2>1, TopFacts
    <2>3. Target' = Target /\ SeenPaths \subseteq SeenPaths'
      BY <1>1, <2>1 DEF Target
    <2>4. CASE real \in ancestors
      <3>1. pc' = "list" /\ UNCHANGED stack
        BY <1>8, <2>4, DescendFacts
      <3> QED
        BY <1>2, <2>3, <3>1 DEF SeenInv
    <2>5. CASE real \notin ancestors
      <3>1. /\ pc' = "enter" /\ DOMAIN stack' = 1..(n + 1)
            /\ \A i \in DOMAIN stack : stack'[i] = stack[i]
            /\ stack'[n + 1] = ChildCall
        BY <1>8, <2>5, DescendFacts
      <3>2. stack'[n + 1].todo = {} /\ stack'[n + 1].path = child
        BY <3>1 DEF ChildCall
      <3> HIDE DEF n
      <3>3. \A k \in DOMAIN stack' : k = n + 1 \/ k \in DOMAIN stack
        BY <2>2, <3>1
      <3>4. \A k \in DOMAIN stack' : k > 1 => stack'[k].path \in SeenPaths'
        BY <1>2, <2>1, <2>3, <3>1, <3>2, <3>3
      <3>5. \A k \in DOMAIN stack' : \A x \in stack'[k].todo :
                 /\ Len(stack'[k].path) < Depth(Target')
                 /\ x.kind = "dir" => Append(stack'[k].path, x.name) \in SeenPaths'
        BY <1>2, <2>3, <3>1, <3>2, <3>3
      <3> QED
        BY <3>1, <3>4, <3>5 DEF SeenInv
    <2> QED
      BY <2>4, <2>5
  <1>9. CASE Return
    <2>1. \A i \in DOMAIN stack' : i \in DOMAIN stack /\ stack'[i] = stack[i]
      BY <1>9, ReturnFacts
    <2>2. pc' # "eval"
      BY <1>9, ReturnFacts
    <2>3. CASE stack' = <<>>
      BY <2>2, <2>3 DEF SeenInv
    <2>4. CASE stack' # <<>>
      <3>1. Target' = Target /\ SeenPaths \subseteq SeenPaths'
        BY <1>1, <1>9, <2>4, ReturnStays DEF Target
      <3> QED
        BY <1>2, <2>1, <2>2, <3>1 DEF SeenInv
    <2> QED
      BY <2>3, <2>4
  <1> QED
    BY <1>3, <1>4, <1>5, <1>6, <1>7, <1>8, <1>9 DEF Discover, Walk

\* A path that leads the same way throughout, and that the walk is at, has no cycle: the
\* calls on the way to it are in different directories.
LEMMA TopHasNoCycle ==
    ASSUME HistoryInv, WalkInv, RealInv, stack # <<>>, NEW v \in steady,
           v.path = Top.path, v.way[0] = Target.base
    PROVE  NoCycle(v)
  <1> DEFINE n == Len(stack)
  <1>1. /\ n \in Nat \ {0} /\ DOMAIN stack = 1..n /\ Len(Top.path) = n - 1
        /\ \A k \in DOMAIN stack : On(stack[k].path, Top.path)
    BY TopFacts
  <1>2. v.way \in [0..(n - 1) -> Dir]
    <2>1. v \in Views /\ TreeInv /\ TargetsInv
      BY DEF HistoryInv
    <2> QED
      BY <1>1, <2>1, ViewFacts
  <1> HIDE DEF n
  <1>3. \A k \in 1..n : stack[k].real = v.way[k - 1]
    BY <1>1 DEF RealInv
  <1>4. ASSUME NEW i \in 0..(n - 1), NEW j \in 0..(n - 1), v.way[i] = v.way[j]
        PROVE  i = j
    <2>1. i + 1 \in 1..n /\ j + 1 \in 1..n /\ (i + 1) - 1 = i /\ (j + 1) - 1 = j
      BY <1>1
    <2>2. stack[i + 1].real = v.way[i] /\ stack[j + 1].real = v.way[j]
      BY <1>3, <2>1
    <2>3. v.way[i] # Nowhere
      BY <1>2, RootAssumption
    <2>4. i + 1 = j + 1
      BY <1>1, <1>4, <2>1, <2>2, <2>3 DEF WalkInv
    <2> QED
      BY <2>4
  <1> QED
    BY <1>2, <1>4 DEF NoCycle, IsInjective

LEMMA SoundStep ==
    ASSUME HistoryInv, WalkInv, ListInv, RealInv, SeenInv, EntriesInv, SoundInv,
           Change \/ Discover \/ UNCHANGED discoveryVars
    PROVE  SoundInv'
  <1>1. /\ seen \subseteq seen' /\ (steady' = seen' => steady = seen)
        /\ UNCHANGED targets /\ \A j \in DOMAIN entries : entries'[j] = entries[j]
    BY ListGrows, SeenGrows
  <1>2. ASSUME NEW j \in DOMAIN entries, targets[entries[j].target].dirs = <<>>
        PROVE  \E v \in seen' : /\ v.path = entries[j].path
                                /\ Wanted(targets[entries[j].target], v)
                                /\ steady' = seen' => NoCycle(v)
    <2>1. PICK v \in seen : /\ v.path = entries[j].path
                            /\ Wanted(targets[entries[j].target], v)
                            /\ steady = seen => NoCycle(v)
      BY <1>2 DEF SoundInv
    <2> QED
      BY <1>1, <2>1
  <1>3. SUFFICES ASSUME NEW j \in DOMAIN entries', j \notin DOMAIN entries,
                        targets[entries'[j].target].dirs = <<>>
                 PROVE  \E v \in seen' : /\ v.path = entries'[j].path
                                         /\ Wanted(targets[entries'[j].target], v)
                                         /\ steady' = seen' => NoCycle(v)
    BY <1>1, <1>2 DEF SoundInv
  <1>4. CASE UNCHANGED entries
    BY <1>3, <1>4
  <1>5. CASE UseExplicit
    <2> DEFINE more == ExplicitEntries(cur)
               l == Len(entries)
    <2>1. /\ cur <= Len(targets) /\ Target.dirs # <<>> /\ entries' = entries \o more
      BY <1>5 DEF UseExplicit
    <2>2. cur \in DOMAIN targets
      BY <2>1, SeqFacts DEF WalkInv, HistoryInv, TargetsInv
    <2>3. more \in Seq(Range(more))
      BY <2>2, ExplicitIsList DEF HistoryInv
    <2>4. \A k \in DOMAIN more : more[k].target = cur
      BY <2>2, ExplicitFacts DEF HistoryInv
    <2> HIDE DEF more
    <2>5. /\ DOMAIN entries = 1..l /\ l \in Nat /\ DOMAIN more = 1..Len(more) /\ Len(more) \in Nat
          /\ DOMAIN entries' = 1..(l + Len(more))
          /\ \A k \in DOMAIN more : entries'[l + k] = more[k]
      BY <2>1, <2>3, ConcatFacts DEF ListInv
    <2> HIDE DEF l
    <2>6. j - l \in DOMAIN more /\ l + (j - l) = j
      BY <1>3, <2>5
    <2>7. entries'[j].target = cur
      BY <2>4, <2>5, <2>6
    <2> QED
      BY <1>3, <2>1, <2>7 DEF Target
  <1>6. CASE Enter
    <2> DEFINE n == Len(stack)
               p == Top.path
               new == Entry(cur, p, Labels(Target, p))
    <2>1. stack # <<>>
      BY <1>6, EnterFacts
    <2>2. /\ n \in DOMAIN stack /\ n \in Nat /\ stack[n] = Top /\ p \in Seq(Name) /\ Len(p) = n - 1
          /\ Target = targets[cur] /\ cur \in DOMAIN targets
      BY <2>1, TopFacts
    <2>3. SUFFICES ASSUME entries' = Append(entries, new), Len(p) \in 1..Depth(Target), Matches(Target, p)
                   PROVE  \E v \in seen' : /\ v.path = entries'[j].path
                                           /\ Wanted(targets[entries'[j].target], v)
                                           /\ steady' = seen' => NoCycle(v)
      BY <1>4, <1>6 DEF Enter
    <2> HIDE DEF n
    <2>4. entries'[j] = new
      <3> HIDE DEF new
      <3>1. /\ DOMAIN entries = 1..Len(entries) /\ Len(entries) \in Nat
            /\ DOMAIN entries' = 1..(Len(entries) + 1) /\ entries'[Len(entries) + 1] = new
        BY <2>3, AppendFacts DEF ListInv
      <3>2. j = Len(entries) + 1
        BY <1>3, <3>1
      <3> QED
        BY <3>1, <3>2
    <2> HIDE DEF p
    <2>5. entries'[j].target = cur /\ entries'[j].path = p
      BY <2>4 DEF Entry
    <2>6. p \in SeenPaths
      <3>1. n > 1
        <4>1. Depth(Target) \in Int
          BY <2>2, TargetDepth DEF HistoryInv
        <4> QED
          BY <2>2, <2>3, <4>1
      <3> QED
        BY <2>2, <3>1 DEF SeenInv, p
    <2>7. PICK v \in seen : v.way[0] = Target.base /\ v.path = p
      BY <2>6 DEF SeenPaths
    <2>8. Wanted(Target, v)
      <3>1. Target.dirs = <<>> /\ Target.valid
        BY <2>1 DEF WalkInv
      <3>2. Len(p) <= Depth(Target)
        BY <2>2, <2>3, TargetDepth DEF HistoryInv
      <3>3. Target.pattern # <<>> =>
                /\ Len(p) = Len(Target.pattern)
                /\ \A i \in DOMAIN p : p[i] \in Target.pattern[i].names
        BY <2>3 DEF Matches, MatchesSegments
      <3> QED
        BY <2>7, <3>1, <3>2, <3>3 DEF Wanted
    <2>9. steady = seen => NoCycle(v)
      BY <2>1, <2>7, TopHasNoCycle DEF p
    <2> QED
      BY <1>1, <2>2, <2>5, <2>7, <2>8, <2>9
  <1>7. UNCHANGED entries \/ UseExplicit \/ Enter
    BY DEF Change, Discover, Walk, FindNodes, Refuse, StartWalk, Pick, Descend, Return, EndDiscover,
           ListStreams, ListNodes, EndStreams, found, discoveryVars
  <1> QED
    BY <1>4, <1>5, <1>6, <1>7

LEMMA SoundShows == EntriesInv /\ SoundInv => WatchListSound
  <1> SUFFICES ASSUME EntriesInv, SoundInv, NEW j \in DOMAIN entries,
                      targets[entries[j].target].dirs = <<>>
               PROVE  /\ \A k \in DOMAIN entries \ {j} :
                            entries[k].target = entries[j].target => entries[k].path # entries[j].path
                      /\ \E v \in seen :
                            /\ v.path = entries[j].path
                            /\ Wanted(targets[entries[j].target], v)
                            /\ steady = seen => NoCycle(v)
    BY DEF WatchListSound
  <1>1. \A k \in DOMAIN entries \ {j} :
            entries[k].target = entries[j].target => entries[k].path # entries[j].path
    BY DEF EntriesInv
  <1> QED
    BY <1>1 DEF SoundInv

-----------------------------------------------------------------------------
(***************************************************************************)
(* The labels tell the entries of a target apart                           *)
(***************************************************************************)
\* What is not in the labels of a matching path is the same for every such path.
LEMMA LabelsGivePath ==
    ASSUME NEW t, IsTarget(t), NEW p \in Seq(Name), NEW q \in Seq(Name), p # <<>>, q # <<>>,
           Matches(t, p), Matches(t, q), Labels(t, p) = Labels(t, q)
    PROVE  p = q
  <1>1. /\ Len(p) \in Nat \ {0} /\ DOMAIN p = 1..Len(p)
        /\ Len(q) \in Nat \ {0} /\ DOMAIN q = 1..Len(q)
    OBVIOUS
  <1>2. p[1] = q[1] /\ Kept(p, TypeParts(t, p)) = Kept(q, TypeParts(t, q))
    <2> DEFINE x == Kept(p, TypeParts(t, p))
               y == Kept(q, TypeParts(t, q))
    <2>1. [base |-> t.label, stream |-> p[1], type |-> x] = [base |-> t.label, stream |-> q[1], type |-> y]
      BY DEF Labels
    <2> HIDE DEF x, y
    <2>2. p[1] = q[1] /\ x = y
      BY <2>1
    <2> QED
      BY <2>2 DEF x, y
  <1>3. CASE t.pattern = <<>>
    <2>1. TypeParts(t, p) = 2..Len(p) /\ TypeParts(t, q) = 2..Len(q)
      BY <1>3 DEF TypeParts
    <2>2. Len(p) - 1 = Len(q) - 1
      <3> DEFINE x == Kept(p, 2..Len(p))
                 y == Kept(q, 2..Len(q))
      <3>1. Len(x) = Len(p) - 1
        BY KeptRest
      <3>2. Len(y) = Len(q) - 1
        BY KeptRest
      <3>3. x = y
        BY <1>2, <2>1
      <3> HIDE DEF x, y
      <3> QED
        BY <3>1, <3>2, <3>3, Zenon
    <2>3. Len(p) = Len(q)
      <3>1. Len(p) \in Nat /\ Len(q) \in Nat
        BY <1>1
      <3> QED
        BY <2>2, <3>1
    <2>4. \A i \in 1..Len(p) : i \in 2..Len(p) => p[i] = q[i]
      <3> DEFINE places == 2..Len(p)
      <3>1. Kept(p, places) = Kept(q, places)
        BY <1>2, <2>1, <2>3
      <3> HIDE DEF places
      <3>2. \A i \in 1..Len(p) : i \in places => p[i] = q[i]
        BY <2>3, <3>1, KeptAligned
      <3> QED
        BY <3>2 DEF places
    <2>5. \A i \in 1..Len(p) : i = 1 \/ i \in 2..Len(p)
      BY <1>1
    <2>6. On(p, q)
      BY <1>1, <1>2, <2>3, <2>4, <2>5 DEF On
    <2> QED
      BY <2>3, <2>6, OnAll
  <1>4. CASE t.pattern # <<>>
    <2>1. /\ Len(p) = Len(t.pattern) /\ Len(q) = Len(t.pattern)
          /\ \A i \in DOMAIN p : p[i] \in t.pattern[i].names
          /\ \A i \in DOMAIN q : q[i] \in t.pattern[i].names
      BY <1>4 DEF Matches, MatchesSegments
    <2>2. TypeParts(t, q) = TypeParts(t, p)
      BY <2>1 DEF TypeParts
    <2> DEFINE places == TypeParts(t, p)
    <2>3. \A i \in 1..Len(p) : i \in places => p[i] = q[i]
      <3>1. Kept(p, places) = Kept(q, places)
        BY <1>2, <2>2
      <3> HIDE DEF places
      <3> QED
        BY <2>1, <3>1, KeptAligned
    <2>4. ASSUME NEW i \in 1..Len(p)
          PROVE  p[i] = q[i]
      <3>1. CASE i = 1
        BY <1>2, <3>1
      <3>2. CASE i \in places
        BY <2>3, <3>2
      <3>3. CASE i # 1 /\ i \notin places
        <4>1. i \in 2..Len(p)
          BY <1>1, <3>3
        <4>2. ~t.pattern[i].glob /\ ~t.pattern[i].include
          BY <1>4, <3>3, <4>1, Zenon DEF TypeParts
        <4>3. DOMAIN t.pattern = 1..Len(t.pattern)
          BY SeqFacts DEF IsTarget
        <4>4. \A m, n \in t.pattern[i].names : m = n
          BY <2>1, <4>2, <4>3, Zenon DEF IsTarget
        <4>5. i \in DOMAIN p /\ i \in DOMAIN q
          BY <1>1, <2>1
        <4> QED
          BY <2>1, <4>4, <4>5
      <3> QED
        BY <3>1, <3>2, <3>3
    <2>5. On(p, q)
      BY <1>1, <2>1, <2>4 DEF On
    <2> QED
      BY <2>1, <2>5, OnAll
  <1> QED
    BY <1>3, <1>4

LEMMA HeadTail ==
    ASSUME NEW p \in Seq(Nat), p # <<>>
    PROVE  /\ Len(p) \in Nat \ {0} /\ Head(p) = p[1] /\ Len(Tail(p)) = Len(p) - 1
           /\ \A i \in 1..(Len(p) - 1) : Tail(p)[i] = p[i + 1]
  <1>1. Len(p) \in Nat \ {0}
    OBVIOUS
  <1>2. Head(p) = p[1]
    BY <1>1
  <1>3. Len(Tail(p)) = Len(p) - 1 /\ \A i \in 1..(Len(p) - 1) : Tail(p)[i] = p[i + 1]
    BY <1>1
  <1> QED
    BY <1>1, <1>2, <1>3

LEMMA ExplicitLabelsGivePath ==
    ASSUME NEW t, NEW p \in Seq(Nat), NEW q \in Seq(Nat), p # <<>>, q # <<>>,
           ExplicitLabels(t, p) = ExplicitLabels(t, q)
    PROVE  p = q
  <1>1. Head(p) = Head(q) /\ Tail(p) = Tail(q)
    <2> DEFINE x == Head(p)
               y == Head(q)
               u == Tail(p)
               w == Tail(q)
    <2>1. [base |-> t.label, stream |-> x, type |-> u] = [base |-> t.label, stream |-> y, type |-> w]
      BY DEF ExplicitLabels
    <2> HIDE DEF x, y, u, w
    <2>2. x = y /\ u = w
      BY <2>1
    <2> QED
      BY <2>2 DEF x, y, u, w
  <1>2. /\ Len(p) \in Nat \ {0} /\ Head(p) = p[1] /\ Len(Tail(p)) = Len(p) - 1
        /\ \A i \in 1..(Len(p) - 1) : Tail(p)[i] = p[i + 1]
    BY HeadTail
  <1>2b. /\ Len(q) \in Nat \ {0} /\ Head(q) = q[1] /\ Len(Tail(q)) = Len(q) - 1
         /\ \A i \in 1..(Len(q) - 1) : Tail(q)[i] = q[i + 1]
    BY HeadTail
  <1>3. Len(p) = Len(q)
    <2> DEFINE x == Tail(p)
               y == Tail(q)
    <2>1. Len(x) = Len(p) - 1 /\ Len(y) = Len(q) - 1 /\ x = y
      BY <1>1, <1>2, <1>2b
    <2> HIDE DEF x, y
    <2>2. Len(p) - 1 = Len(q) - 1
      BY <2>1, Zenon
    <2>3. Len(p) \in Nat /\ Len(q) \in Nat
      BY <1>2, <1>2b
    <2> QED
      BY <2>2, <2>3
  <1>4. ASSUME NEW i \in 1..Len(p)
        PROVE  p[i] = q[i]
    <2>1. CASE i = 1
      BY <1>1, <1>2, <1>2b, <2>1
    <2>2. CASE i # 1
      <3>1. i - 1 \in 1..(Len(p) - 1) /\ i - 1 \in 1..(Len(q) - 1) /\ (i - 1) + 1 = i
        BY <1>2, <1>3, <2>2
      <3>2. Tail(p)[i - 1] = p[i] /\ Tail(q)[i - 1] = q[i]
        BY <1>2, <1>2b, <3>1
      <3> QED
        BY <1>1, <3>2
    <2> QED
      BY <2>1, <2>2
  <1>5. On(p, q)
    BY <1>2, <1>2b, <1>3, <1>4 DEF On
  <1> QED
    BY <1>3, <1>5, OnAll

LEMMA LabelsShow == TargetsInv /\ EntriesInv => LabelsIdentify
  <1> SUFFICES ASSUME TargetsInv, EntriesInv, NEW j \in DOMAIN entries, NEW k \in DOMAIN entries,
                      entries[j].target = entries[k].target, entries[j].labels = entries[k].labels
               PROVE  j = k
    BY DEF LabelsIdentify
  <1> DEFINE t == targets[entries[j].target]
  <1>1. /\ Fits(targets, entries[j]) /\ Fits(targets, entries[k])
        /\ entries[j].path = entries[k].path => j = k
    BY DEF EntriesInv
  <1>2. IsTarget(t) /\ entries[j].path # <<>> /\ entries[k].path # <<>>
    BY <1>1 DEF Fits, TargetsInv
  <1>3. CASE t.dirs = <<>>
    <2>1. /\ entries[j].path \in Seq(Name) /\ Matches(t, entries[j].path)
          /\ entries[j].labels = Labels(t, entries[j].path)
          /\ entries[k].path \in Seq(Name) /\ Matches(t, entries[k].path)
          /\ entries[k].labels = Labels(t, entries[k].path)
      BY <1>1, <1>3 DEF Fits
    <2>2. Labels(t, entries[j].path) = Labels(t, entries[k].path)
      BY <2>1
    <2> HIDE DEF t
    <2>3. entries[j].path = entries[k].path
      BY <1>2, <2>1, <2>2, LabelsGivePath
    <2> QED
      BY <1>1, <2>3
  <1>4. CASE t.dirs # <<>>
    <2>1. /\ entries[j].path \in Seq(Nat) /\ entries[j].labels = ExplicitLabels(t, entries[j].path)
          /\ entries[k].path \in Seq(Nat) /\ entries[k].labels = ExplicitLabels(t, entries[k].path)
      BY <1>1, <1>4 DEF Fits
    <2>2. ExplicitLabels(t, entries[j].path) = ExplicitLabels(t, entries[k].path)
      BY <2>1
    <2> HIDE DEF t
    <2>3. entries[j].path = entries[k].path
      BY <1>2, <2>1, <2>2, ExplicitLabelsGivePath
    <2> QED
      BY <1>1, <2>3
  <1> QED
    BY <1>3, <1>4

-----------------------------------------------------------------------------
(***************************************************************************)
(* All of it                                                               *)
(***************************************************************************)
DiscoveryInv ==
    /\ HistoryInv /\ WalkInv
    /\ ListInv /\ RealInv /\ CompleteInv /\ NodesInv
    /\ TodoInv /\ EntriesInv /\ SeenInv /\ SoundInv

LEMMA DiscoveryStarts ==
    ASSUME NEW w, NEW ts, IsTree(w), ts \in Seq(Range(ts)),
           \A i \in DOMAIN ts : IsTarget(ts[i]), StartDiscovery(w, ts)
    PROVE  DiscoveryInv
  <1>1. HistoryInv
    BY HistoryStarts
  <1>2. WalkInv
    BY WalkStarts
  <1>3. ListInv /\ RealInv /\ CompleteInv /\ NodesInv
    BY CompleteStarts, NodesStarts
  <1>4. TodoInv /\ EntriesInv /\ SeenInv /\ SoundInv
    BY EntriesStarts, SeenStarts
  <1> QED
    BY <1>1, <1>2, <1>3, <1>4 DEF DiscoveryInv

LEMMA DiscoveryStep ==
    ASSUME DiscoveryInv, Change \/ (Discover /\ targets # <<>>) \/ UNCHANGED discoveryVars
    PROVE  DiscoveryInv'
  <1> USE DEF DiscoveryInv
  <1>1. HistoryInv' /\ WalkInv' /\ ListInv'
    BY HistoryStep, WalkStep, ListGrows
  <1>2. RealInv' /\ CompleteInv' /\ NodesInv'
    BY RealStep, CompleteStep, NodesStep
  <1>3. TodoInv' /\ EntriesInv'
    BY TodoStep, EntriesStep
  <1>4. SeenInv' /\ SoundInv'
    BY SeenStep, SoundStep
  <1> QED
    BY <1>1, <1>2, <1>3, <1>4

LEMMA DiscoveryShows ==
    DiscoveryInv => /\ DiscoveryTypeOK /\ WatchListComplete /\ NodesComplete
                    /\ WatchListSound /\ LabelsIdentify
  BY WalkTypes, CompleteShows, NodesShows, SoundShows, LabelsShow DEF DiscoveryInv, HistoryInv

=============================================================================
