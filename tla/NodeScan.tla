------------------------------ MODULE NodeScan ------------------------------
(***************************************************************************)
(* What one cycle learns about one stream node, while the node goes on     *)
(* writing: detectNodeType at discovery, then the worker of                *)
(* ScanAllNodeActivities (audit_info of a collector, trace files of a      *)
(* distributor), then the worker of ScanAllNodeBuffers (activity.go,       *)
(* buffer.go).  How the workers are scheduled is the subject of ScanCycle. *)
(*                                                                         *)
(* Data.  A line of control/1/config declares a type or a source           *)
(* directory; it is "live" when resolveNodeBufferPaths takes it (not       *)
(* commented out), "raw" when the expression of detectNodeType matches it  *)
(* (comments too, but no colon after NodeType).  A type is one of a few    *)
(* words that the two readers tell apart.  A trace file is the sequence of *)
(* the seconds of the entries for this node; a line longer than the        *)
(* reader's buffer is Long.  trace[d] are the files of the day d days ago, *)
(* in the order of writing.                                                *)
(***************************************************************************)
EXTENDS Integers, Sequences, FiniteSets, SequencesExt

CONSTANTS
    Configs,       \* what control/1/config may be replaced by
    DayLength,     \* bound: seconds of a day
    MaxDays,       \* bound: days that have trace files
    Unknown        \* no activity, no backlog, no audit_info, no entry yet

ASSUME DaysAssumption == DayLength \in Nat \ {0} /\ MaxDays \in Nat \ {0}
ASSUME ConfigsAssumption == \A file \in Configs : file \in Seq(Range(file))
\* Unknown is none of the things it is told apart from.
ASSUME UnknownAssumption ==
    /\ Unknown \notin Nat
    /\ Unknown \notin [time : Nat, file : Seq(Nat)]
    /\ Unknown \notin [type : {"collector", "distributor"}, time : Nat, delay : Nat,
                       file : Seq(Nat)]
    /\ Unknown \notin [counted : Nat, success : BOOLEAN]

VARIABLES
    config, audit, trace,   \* environment: the node's files
    hint,        \* environment: what the node's name suggests
    firstPart,   \* environment: the parts of a day are numbered from firstPart + 1
    settings,    \* lookback (trace_lookback_days, 0 without tracelog_dir), minDelay
    edits,       \* bound: changes of the files still to come
    npc,         \* where the cycle is with this node
    kind,        \* StreamNode.NodeType
    day, todo, part, pos, latest,   \* ScanDistributorActivity: the day, its files still
                 \*   to read, the one being read and how far, the latest entry
    activity,    \* the NodeActivity recorded, or Unknown
    paths, counted, okAll,    \* the worker of ScanAllNodeBuffers
    backlog,     \* the NodeBuffer recorded, or Unknown
    due,         \* history: the latest entry when the trace scan began, 0 for none;
                 \*   -1 while no trace is scanned
    versions,    \* history: what config and audit_info have been since detectNodeType
                 \*   read the config
    missed       \* history: a trace file did not open or was cut at a Long line

files == <<config, audit, trace, hint, firstPart, settings>>
traceScan == <<day, todo, part, pos, latest>>
bufferScan == <<paths, counted, okAll>>
nodeVars == <<files, edits, npc, kind, traceScan, activity, bufferScan, backlog,
              due, versions, missed>>

Long == 0

-----------------------------------------------------------------------------
(***************************************************************************)
(* Types of nodes: two readers of one file                                 *)
(***************************************************************************)
Word == {"collector", "col", "column", "distributor", "disk", "decoder"}
SaysCol == {"collector", "col", "column"}    \* contains "col"
SaysDis == {"distributor", "disk"}           \* contains "dis"
IsCollector(word) == word \in {"collector", "col"}

RawTypes(file) == {i \in DOMAIN file : file[i].is = "type" /\ file[i].raw}
LiveTypes(file) == {i \in DOMAIN file : file[i].is = "type" /\ file[i].live}
LiveSources(file) == SelectSeq(file, LAMBDA l : l.is = "source" /\ l.live)

\* detectNodeType: the type the first declaration says, "none" if it says none.
DetectedIn(file) ==
    LET word == IF RawTypes(file) = {} THEN "none" ELSE file[Min(RawTypes(file))].value
    IN  CASE word \in SaysCol -> "collector"
          [] word \in SaysDis -> "distributor"
          [] OTHER -> "none"

\* detectNodeType, without a word it knows: by audit_info, then by the name.
Guess == IF audit # Unknown THEN "collector" ELSE hint

\* resolveNodeBufferPaths: the last live declaration, "none" without one.
DeclaredIn(file) == IF LiveTypes(file) = {} THEN "none" ELSE file[Max(LiveTypes(file))].value

-----------------------------------------------------------------------------
\* The entries of some days, or of a part.
Seconds(days) == {0} \cup UNION {UNION {Range(trace[d][i]) : i \in DOMAIN trace[d]} : d \in days}
LatestOf(days) == CHOOSE t \in Seconds(days) : \A u \in Seconds(days) : u <= t

DayOf(t) == t \div DayLength
Second == 0..((MaxDays + 1) * DayLength - 1)
Today == {t \in Second : DayOf(t) = MaxDays /\ t # Long}
Now == MaxDays * DayLength + 1    \* the time the cycle took when it began

\* Files by day: entries in the order of time, each in a file of its day.
IsTrace(tr) ==
    /\ 0 \in DOMAIN tr /\ DOMAIN tr \subseteq 0..MaxDays
    /\ \A d \in DOMAIN tr : tr[d] \in Seq(Seq(Second))
    /\ \A d \in DOMAIN tr : \A i \in DOMAIN tr[d] : \A k \in DOMAIN tr[d][i] :
           tr[d][i][k] # Long => DayOf(tr[d][i][k]) = MaxDays - d
    /\ \A d \in DOMAIN tr : \A i, j \in DOMAIN tr[d] :
           \A k \in DOMAIN tr[d][i], m \in DOMAIN tr[d][j] :
               (i < j \/ (i = j /\ k < m)) /\ Long \notin {tr[d][i][k], tr[d][j][m]}
                   => tr[d][i][k] <= tr[d][j][m]

\* The nodes to start from.
IsNode(w) ==
    /\ w.config \in Seq(Range(w.config))
    /\ w.audit \in Int \cup {Unknown}
    /\ w.hint \in {"none", "collector", "distributor"}
    /\ w.firstPart \in Nat /\ w.edits \in Nat
    /\ IsTrace(w.trace)

\* What there is for the readers of types.
Contents == [config |-> config, audit |-> audit]

StartNode(w, s) ==
    /\ config = w.config /\ audit = w.audit /\ trace = w.trace
    /\ hint = w.hint /\ firstPart = w.firstPart
    /\ edits = w.edits
    /\ settings = s
    /\ npc = "detect" /\ kind = "none"
    /\ day = 0 /\ todo = {} /\ part = 0 /\ pos = 0 /\ latest = Unknown
    /\ activity = Unknown
    /\ paths = <<>> /\ counted = 0 /\ okAll = TRUE /\ backlog = Unknown
    /\ due = -1 /\ versions = {Contents} /\ missed = FALSE

(***************************************************************************)
(* The node itself, and its operator                                       *)
(***************************************************************************)
Environment == UNCHANGED <<hint, firstPart, settings, npc, kind, traceScan, activity,
                           bufferScan, backlog, due, missed>>

WriteEntry ==
    /\ npc # "done" /\ edits > 0
    /\ trace[0] # <<>>
    /\ \E t \in Today : /\ t >= LatestOf(DOMAIN trace)
                       /\ trace' = [trace EXCEPT ![0][Len(trace[0])] = Append(@, t)]
    /\ edits' = edits - 1
    /\ UNCHANGED <<config, audit, versions>>
    /\ Environment

Rotate ==
    /\ npc # "done" /\ edits > 0
    /\ trace' = [trace EXCEPT ![0] = Append(@, <<>>)]
    /\ edits' = edits - 1
    /\ UNCHANGED <<config, audit, versions>>
    /\ Environment

Edit ==
    /\ npc # "done" /\ edits > 0
    /\ \/ config' \in Configs \ {config} /\ UNCHANGED audit
       \/ audit' = (IF audit = Unknown THEN 1 ELSE Unknown)
              /\ UNCHANGED config
    /\ edits' = edits - 1
    /\ versions' = (IF npc = "detect" THEN {} ELSE versions) \cup {Contents'}
    /\ UNCHANGED trace
    /\ Environment

-----------------------------------------------------------------------------
(***************************************************************************)
(* Discovery and activity                                                  *)
(***************************************************************************)
\* Fault: audit_info is looked at first.
DetectByAudit ==
    /\ npc = "detect"
    /\ kind' = IF audit # Unknown THEN "collector" ELSE DetectedIn(config)
    /\ npc' = IF kind' = "none" THEN "fallback" ELSE "activity"
    /\ UNCHANGED <<files, edits, traceScan, activity, bufferScan, backlog, due, versions, missed>>

\* detectNodeType reads the config ...
Detect ==
    /\ npc = "detect"
    /\ kind' = DetectedIn(config)
    /\ npc' = IF kind' = "none" THEN "fallback" ELSE "activity"
    /\ UNCHANGED <<files, edits, traceScan, activity, bufferScan, backlog, due, versions, missed>>

\* ... and, without a type in it, looks for audit_info.
Fallback ==
    /\ npc = "fallback"
    /\ kind' = Guess
    /\ npc' = "activity"
    /\ UNCHANGED <<files, edits, traceScan, activity, bufferScan, backlog, due, versions, missed>>

\* DelaySec: nothing up to the threshold, and nothing for a clock ahead of ours.
Delay(time) ==
    IF time >= Now \/ (settings.minDelay > 0 /\ Now - time <= settings.minDelay)
    THEN 0 ELSE Now - time

Activity(type, time, file) ==
    [type |-> type, time |-> time, delay |-> Delay(time), file |-> file]

\* A node without a type is a collector if it has an audit_info, which is read later.
StatAudit ==
    /\ npc = "activity"
    /\ kind = "none" /\ audit # Unknown
    /\ npc' = "audit"
    /\ UNCHANGED <<files, edits, kind, traceScan, activity, bufferScan, backlog, due,
                   versions, missed>>

\* ScanCollectorActivity: an audit_info that is missing, malformed or without a
\* positive time leaves no activity.
ReadAudit ==
    /\ npc = "audit" \/ (npc = "activity" /\ kind = "collector")
    /\ activity' = IF audit \in Nat \ {0}
                   THEN Activity("collector", audit, <<>>)
                   ELSE Unknown
    /\ npc' = "buffer"
    /\ UNCHANGED <<files, edits, kind, traceScan, bufferScan, backlog, due, versions, missed>>

StartTrace ==
    /\ npc = "activity"
    /\ kind = "distributor" \/ (kind = "none" /\ audit = Unknown)
    /\ day' = 0
    /\ npc' = "day"
    /\ due' = LatestOf(DOMAIN trace \cap 0..(settings.lookback - 1))
    /\ UNCHANGED <<files, edits, kind, todo, part, pos, latest, activity, bufferScan,
                   backlog, versions, missed>>

\* sort.Reverse of the file names: the part number as text, 10 before 9.
Digits(k) == IF k < 10 THEN <<k>> ELSE <<k \div 10, k % 10>>
NameBefore(k, m) ==
    LET x == Digits(k)  y == Digits(m)
    IN  x[1] < y[1] \/ (x[1] = y[1] /\ Len(y) = 2 /\ (Len(x) = 1 \/ x[2] < y[2]))
\* Fault: the oldest file first.
NewestOfForward(parts) == {i \in parts : \A j \in parts \ {i} : NameBefore(firstPart + i, firstPart + j)}
\* The file whose turn it is.
NewestOf(parts) == {i \in parts : \A j \in parts \ {i} : NameBefore(firstPart + j, firstPart + i)}
Parts(d) == IF d \in DOMAIN trace THEN DOMAIN trace[d] ELSE {}

\* Glob of the day's files; beyond the lookback nothing was found.
OpenDay ==
    /\ npc = "day"
    /\ IF day < settings.lookback
       THEN todo' = Parts(day) /\ npc' = "open"
       ELSE npc' = "buffer" /\ UNCHANGED todo
    /\ UNCHANGED <<files, edits, kind, day, part, pos, latest, activity, bufferScan, backlog,
                   due, versions, missed>>

\* Fault: a day without an entry is looked at again.
NextDaySame ==
    /\ npc = "open"
    /\ todo = {}
    /\ npc' = "day"
    /\ UNCHANGED <<files, edits, kind, traceScan, activity, bufferScan, backlog, due, versions, missed>>

NextDay ==
    /\ npc = "open"
    /\ todo = {}
    /\ day' = day + 1
    /\ npc' = "day"
    /\ UNCHANGED <<files, edits, kind, todo, part, pos, latest, activity, bufferScan,
                   backlog, due, versions, missed>>

OpenPart ==
    /\ npc = "open"
    /\ \E i \in NewestOf(todo) :
           /\ todo' = todo \ {i}
           /\ \/ npc' = "read" /\ part' = i /\ pos' = 0 /\ UNCHANGED missed
              \/ missed' = TRUE /\ UNCHANGED <<npc, part, pos>>
    /\ UNCHANGED <<files, edits, kind, day, latest, activity, bufferScan, backlog, due, versions>>

Part == trace[day][part]
AtLine == npc = "read" /\ pos < Len(Part) /\ Part[pos + 1] # Long

\* parseDistributorLine and the comparison; t.After is strict.
Later(time) == latest = Unknown \/ time > latest.time

ReadLine ==
    /\ AtLine
    /\ latest' = IF Later(Part[pos + 1])
                 THEN [time |-> Part[pos + 1], file |-> <<day, part, pos + 1>>]
                 ELSE latest
    /\ pos' = pos + 1
    /\ UNCHANGED <<files, edits, npc, kind, day, todo, part, activity, bufferScan, backlog,
                   due, versions, missed>>

\* The end of the file, or a line the scanner cannot hold: Scan returns false,
\* and nobody asks why.  An entry found ends both loops.
ClosePart ==
    /\ npc = "read"
    /\ ~AtLine
    /\ missed' = (missed \/ pos < Len(Part))
    /\ IF latest = Unknown
       THEN npc' = "open" /\ UNCHANGED activity
       ELSE /\ npc' = "buffer"
            /\ activity' = Activity("distributor", latest.time, latest.file)
    /\ UNCHANGED <<files, edits, kind, traceScan, bufferScan, backlog, due, versions>>

-----------------------------------------------------------------------------
(***************************************************************************)
(* Backlog                                                                 *)
(***************************************************************************)
\* Fault: every node is looked at.
MayCollectAll == TRUE
\* The dispatcher's fast path.
MayCollect == kind = "none" \/ IsCollector(kind)

\* resolveNodeBufferPaths: the directories, and the type if it is declared; a node
\* for which discovery found none either goes to detectNodeType again.
ResolveConfig ==
    /\ npc = "buffer"
    /\ LET type == IF DeclaredIn(config) # "none" THEN DeclaredIn(config) ELSE kind
       IN  npc' = CASE ~MayCollect -> "done"
                    [] MayCollect /\ IsCollector(type) -> "count"
                    [] MayCollect /\ type = "none" -> "redetect"
                    [] OTHER -> "done"
    /\ paths' = IF npc' = "done" THEN paths
                ELSE [i \in DOMAIN LiveSources(config) |-> LiveSources(config)[i].value]
    /\ UNCHANGED <<files, edits, kind, traceScan, activity, counted, okAll, backlog, due,
                   versions, missed>>

\* detectNodeType once more: the config again, then audit_info again.
Redetect ==
    /\ npc = "redetect"
    /\ npc' = CASE DetectedIn(config) = "collector" -> "count"
                [] DetectedIn(config) = "distributor" -> "done"
                [] OTHER -> "refallback"
    /\ UNCHANGED <<files, edits, kind, traceScan, activity, bufferScan, backlog, due,
                   versions, missed>>

Refallback ==
    /\ npc = "refallback"
    /\ npc' = IF Guess = "collector" THEN "count" ELSE "done"
    /\ UNCHANGED <<files, edits, kind, traceScan, activity, bufferScan, backlog, due,
                   versions, missed>>

\* One source directory, by its result when it is watched and was scanned, else
\* by countBufferFiles, which may fail.
CountPath ==
    /\ npc = "count"
    /\ paths # <<>>
    /\ paths' = Tail(paths)
    /\ \/ counted' = counted + 1 /\ UNCHANGED okAll
       \/ okAll' = FALSE /\ UNCHANGED counted
    /\ UNCHANGED <<files, edits, npc, kind, traceScan, activity, backlog, due, versions, missed>>

RecordBacklog ==
    /\ npc = "count"
    /\ paths = <<>>
    /\ backlog' = [counted |-> counted, success |-> okAll /\ counted > 0]
    /\ npc' = "done"
    /\ UNCHANGED <<files, edits, kind, traceScan, activity, bufferScan, due, versions, missed>>

-----------------------------------------------------------------------------
Files == WriteEntry \/ Rotate \/ Edit
Steps == \/ Detect \/ Fallback \/ StatAudit \/ ReadAudit \/ StartTrace
         \/ OpenDay \/ NextDay \/ OpenPart \/ ReadLine \/ ClosePart
         \/ ResolveConfig \/ Redetect \/ Refallback \/ CountPath \/ RecordBacklog

\* RenderMetrics: the families in which this node is shown.  A backlog is shown
\* with whatever could be counted, successful or not.
ShownActivity == IF activity = Unknown THEN {} ELSE {activity.type}
ShownBacklog == IF backlog = Unknown THEN {} ELSE {"buffer"}
Shown == ShownActivity \cup ShownBacklog

-----------------------------------------------------------------------------
(***************************************************************************)
(* Properties                                                              *)
(***************************************************************************)
\* The type invariant of the workers' local variables and results.
NodeTypeOK ==
    /\ npc \in {"detect", "fallback", "activity", "audit", "day", "open", "read",
                "buffer", "redetect", "refallback", "count", "done"}
    /\ kind \in {"none", "collector", "distributor"}
    /\ day \in 0..settings.lookback
    /\ todo \subseteq Parts(day)
    /\ npc = "read" => part \in Parts(day) \ todo /\ pos \in 0..Len(Part)
    /\ counted \in Nat
    /\ backlog # Unknown => backlog \in [counted : Nat, success : BOOLEAN]
    /\ okAll \in BOOLEAN /\ missed \in BOOLEAN

NamesInAgeOrder == \A d \in DOMAIN trace : firstPart >= 9 \/ firstPart + Len(trace[d]) <= 9

\* ScanDistributorActivity stops at the first file, newest first, that has an
\* entry of the node, while the node writes and rotates its files.  What it
\* reports is an entry that is there and, unless a file could not be read to its
\* end, of the day of the latest one; and where the names of the parts sort by
\* age, not older than the latest entry when the search began.  Then a node
\* that was active within min_delay shows no delay.
LatestReported ==
    npc \in {"buffer", "redetect", "refallback", "count", "done"} /\ due >= 0 /\ ~missed =>
        /\ due > 0 =>
              /\ activity # Unknown
              /\ DayOf(activity.time) >= DayOf(due)
              /\ NamesInAgeOrder => /\ activity.time >= due
                                    /\ Now - due <= settings.minDelay => activity.delay = 0
        /\ activity # Unknown =>
              LET f == activity.file IN trace[f[1]][f[2]][f[3]] = activity.time

NoTypeSeen == \E v \in versions : DetectedIn(v.config) = "none"
NoAuditSeen == \E v \in versions : v.audit = Unknown
CollectorSeen == \E v \in versions : \/ IsCollector(DeclaredIn(v.config))
                                     \/ DetectedIn(v.config) = "collector"
                                     \/ v.audit # Unknown

\* detectNodeType goes by the first type line, commented out or not, and
\* resolveNodeBufferPaths by the last one that is not; they read the file at
\* different times, and a file with several lines is read as two things.  Still,
\* however it is edited between the looks, a node is shown both as a distributor
\* and with a collector's backlog only if nothing was sure about it: its name gives
\* no hint, its config once had no word that detectNodeType knows, audit_info was
\* once not there, and yet something once said that it is a collector.
KindsDisjoint ==
    {"distributor", "buffer"} \subseteq Shown
        => hint = "none" /\ NoTypeSeen /\ NoAuditSeen /\ CollectorSeen

\* Whatever else was edited, the config said this one type all the time.
Declares(word, file) ==
    /\ RawTypes(file) # {}
    /\ \A i \in DOMAIN file : file[i].is = "type" => file[i].value = word
Throughout(word) == \A v \in versions : Declares(word, v.config)

\* A node whose config says one type throughout is shown as that type, whatever
\* its name, a stray audit_info that comes and goes, and edits of the rest of the
\* config suggest (detectNodeType), and a collector always has its backlog, counted
\* or not (ScanAllNodeBuffers).
ShownAsDeclared ==
    npc = "done" =>
        /\ Throughout("collector") => Shown \subseteq {"collector", "buffer"} /\ "buffer" \in Shown
        /\ Throughout("distributor") => Shown \subseteq {"distributor"}

=============================================================================
