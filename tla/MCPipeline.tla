----------------------------- MODULE MCPipeline -----------------------------
(***************************************************************************)
(* Instances of Pipeline for TLC: families of scenarios, each rich in one  *)
(* of configuration, tree and node, and plain in the other two.            *)
(***************************************************************************)
EXTENDS Pipeline

CONSTANTS a, b, c

-----------------------------------------------------------------------------
(* Targets *)

Segment(names, glob, include) == [names |-> names, glob |-> glob, include |-> include]
Star == Segment(Name, TRUE, FALSE)
Literal(n) == Segment({n}, FALSE, FALSE)
Include(names) == Segment(names, FALSE, TRUE)
Unmatched == Segment({}, TRUE, FALSE)

Auto(pattern, depth) ==
    [base |-> Root, label |-> "L", dirs |-> <<>>, valid |-> TRUE,
     pattern |-> pattern, depth |-> depth]
BasePath == Auto(<<>>, 0)
Listed == [Auto(<<>>, 0) EXCEPT !.dirs = << <<1>>, <<Dot, 1>>, <<Dot>>, <<1, 2>> >>]
Malformed == [Auto(<<Unmatched>>, 0) EXCEPT !.valid = FALSE]

Patterns == {<<Star, Star>>, <<Star, Literal(2)>>, <<Include({1}), Include(Name)>>,
             <<Star, Literal(1), Include({1, 2})>>, <<Unmatched>>}
Lists ==
    {<<Auto(<<>>, d)>> : d \in {-1, 0, 2, 3}}
    \cup {<<Auto(p, 0)>> : p \in Patterns}
    \cup {<<Auto(<<Star, Star>>, 1)>>, <<Auto(<<Star>>, 3)>>, <<Listed, Malformed>>}
Two == <<Auto(<<Star>>, 0), [Auto(<<>>, 1) EXCEPT !.base = a, !.label = "M"]>>

-----------------------------------------------------------------------------
(* Trees *)

\* a below the root, b below it or beside it.
Homes == {(a :> <<Root, 1>>) @@ (b :> h) : h \in {<<a, 1>>, <<Root, 2>>}}
\* A stream with a node, or one that is called mail.
NodeHomes == {(a :> <<Root, s>>) @@ (b :> <<a, NodesName>>) @@ (c :> <<b, n>>) : s, n \in Name}

TreeOf(h, links) ==
    [d \in Dir |-> [n \in Name |->
        IF \E x \in DOMAIN h : h[x] = <<d, n>>
        THEN DirTo(CHOOSE x \in DOMAIN h : h[x] = <<d, n>>)
        ELSE IF <<d, n>> \in DOMAIN links THEN LinkTo(links[<<d, n>>]) ELSE Other]]

\* Up to k links, from and to the directories that have a home.
Links(h, k) ==
    LET dirs == {Root} \cup DOMAIN h
    IN  UNION {[s -> dirs] : s \in kSubset(0, (dirs \X Name) \ Range(h))
                                   \cup UNION {kSubset(i, (dirs \X Name) \ Range(h)) : i \in 1..k}}

Tree(h, links, no, k) == [at |-> TreeOf(h, links), home |-> h, denied |-> no, changes |-> k]

Still == UNION {{Tree(h, l, no, 0) : l \in Links(h, 2), no \in {{}, {b}}} : h \in Homes}
Changing == UNION {{Tree(h, l, {}, 1) : l \in Links(h, 1)} : h \in Homes}
Streams == UNION {{Tree(h, l, no, 1) : l \in Links(h, 0), no \in {{}, {b}}} : h \in NodeHomes}
OneNode == Tree((a :> <<Root, 1>>) @@ (b :> <<a, NodesName>>) @@ (c :> <<b, 1>>), <<>>, {}, 0)

-----------------------------------------------------------------------------
(* Nodes *)

Line(is, value, live, raw) == [is |-> is, value |-> value, live |-> live, raw |-> raw]
Type(word) == Line("type", word, TRUE, TRUE)
Comment(word) == Line("type", word, FALSE, TRUE)
Colon(word) == Line("type", word, TRUE, FALSE)
Source(p) == Line("source", p, TRUE, FALSE)

TypeLines == {Type(w) : w \in Word} \cup {Comment(w) : w \in {"collector", "distributor"}}
                                   \cup {Colon(w) : w \in {"collector", "distributor"}}
Edited == {<<>>, <<Type("collector"), Source(1), Source(2)>>, <<Type("distributor"), Source(1)>>}
Written == Edited \cup {<<Source(1)>>} \cup {<<l, Source(1)>> : l \in TypeLines}
                  \cup {<<l, m, Source(1)>> : l, m \in TypeLines}

Sorted(s) == \A i, j \in DOMAIN s : i < j /\ Long \notin {s[i], s[j]} => s[i] <= s[j]
Parts0 == {s \in UNION {[1..k -> Today \cup {Long}] : k \in 0..2} : Sorted(s)}
Days == {<<>>} \cup {<<p>> : p \in Parts0}
            \cup {<<p, q>> : p, q \in {s \in Parts0 : Len(s) < 2}}
Traces == {t \in {(0 :> x) @@ (1 :> y) : x \in Days, y \in {<<>>, << <<2>>, <<3>> >>}} :
              Len(t[0]) = 2 => Sorted(t[0][1] \o t[0][2])}

Node0(conf, au, name, tr, first, k) ==
    [config |-> conf, audit |-> au, hint |-> name, trace |-> tr, firstPart |-> first, edits |-> k]

NoTrace == (0 :> <<>>) @@ (1 :> <<>>)
Plain0 == Node0(<<>>, Unknown, "none", NoTrace, 0, 0)
Distributors ==
    {Node0(<<Type("distributor")>>, Unknown, "none", t, f, k) : t \in Traces, f \in {0, 8}, k \in {0, 1}}
Nodes ==
    {Node0(conf, au, name, (0 :> << <<4>> >>) @@ (1 :> <<>>), 0, 1) :
        conf \in Written, au \in {Unknown, 0, 3}, name \in {"none", "collector", "distributor"}}
\* Two edits: audit_info may come and go between two looks, or config and it change.
Restless ==
    {Node0(conf, Unknown, "none", (0 :> << <<4>> >>) @@ (1 :> <<>>), 0, 2) :
        conf \in {<<>>, <<Source(1)>>, <<Type("column"), Source(1)>>, <<Type("collector"), Source(1)>>}}

-----------------------------------------------------------------------------
(* Layers of configuration *)

Nothing == [s \in Setting |-> Unset]
Layers(file, env, list) ==
    [file |-> [parses |-> TRUE, setting |-> file, secret |-> Unset, targets |-> list,
               tracelog_dir |-> Unset, tracelog |-> Unset],
     env |-> [setting |-> env, secret |-> Unset, base |-> list = <<>>, tracelog_dir |-> Unset]]
Simple(list) == Layers(Nothing, Nothing, list)
WithTrace(days) ==
    LET l == Layers([Nothing EXCEPT !["trace_lookback_days"] = days, !["min_delay"] = 1],
                    Nothing, <<BasePath>>)
    IN  [l EXCEPT !.file.tracelog = "trace"]

Values == {Unset, -1, 0, 1, 3}
Rich ==
    {Layers([Nothing EXCEPT ![s] = v], [Nothing EXCEPT ![s] = w], list) :
        s \in Setting, v, w \in Values, list \in {<<>>, <<BasePath>>}}
    \cup {[Simple(<<>>) EXCEPT !.env.base = FALSE], [Simple(<<BasePath>>) EXCEPT !.file.parses = FALSE]}

-----------------------------------------------------------------------------
Scene(l, t, n) == [layers |-> l, tree |-> t, node |-> n]

AllScenarios ==
    {Scene(Simple(list), t, Plain0) : list \in Lists, t \in Still}
    \cup {Scene(Simple(list), t, Plain0) :
             list \in {<<Auto(<<Star, Star>>, 0)>>, <<Auto(<<>>, 2)>>}, t \in Changing}
    \cup {Scene(Simple(list), t, Plain0) : list \in {<<Auto(<<>>, 1)>>, Two}, t \in Streams}
    \cup {Scene(WithTrace(days), OneNode, n) : days \in {1, 2}, n \in Distributors}
    \cup {Scene(WithTrace(days), OneNode, n) : days \in {0, 1}, n \in Nodes}
    \cup {Scene(WithTrace(1), OneNode, n) : n \in Restless}
    \cup {Scene(l, OneNode, Plain0) : l \in Rich}

=============================================================================
