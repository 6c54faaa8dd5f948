--------------------------- MODULE NodeScanProofs ---------------------------
(***************************************************************************)
(* Proofs about NodeScan: whatever a node writes while its files are read, *)
(* and whatever its config says, what the cycle reports of it is right.    *)
(* Each invariant is shown to hold at StartNode and to be kept by Files    *)
(* and by Steps; PipelineProofs draws the theorems from this.              *)
(***************************************************************************)
EXTENDS NodeScan, DataInduction, TLAPS

-----------------------------------------------------------------------------
(***************************************************************************)
(* The invariants                                                          *)
(***************************************************************************)
FilesInv ==
    /\ settings.lookback \in Nat /\ settings.minDelay \in Nat
    /\ firstPart \in Nat /\ edits \in Nat
    /\ hint \in {"none", "collector", "distributor"}
    /\ audit \in Int \cup {Unknown}
    /\ config \in Seq(Range(config))
    /\ IsTrace(trace)

NodeInv ==
    /\ FilesInv
    /\ NodeTypeOK
    /\ npc \in {"open", "read"} => day < settings.lookback
    /\ npc \in {"detect", "fallback", "activity", "audit", "day"} => todo = {}

\* x is what is at the place x.file of the files tr.
IsEntry(tr, x) ==
    /\ x.file \in Nat \X Nat \X Nat
    /\ x.file[1] \in DOMAIN tr
    /\ x.file[2] \in DOMAIN tr[x.file[1]]
    /\ x.file[3] \in DOMAIN tr[x.file[1]][x.file[2]]
    /\ tr[x.file[1]][x.file[2]][x.file[3]] = x.time
    /\ x.time # Long

\* The latest entry so far is one of the part being read, and none read so far is later.
LatestInv ==
    /\ latest # Unknown => latest \in [time : Second, file : Nat \X Nat \X Nat] /\ IsEntry(trace, latest)
    /\ npc \in {"detect", "fallback", "activity", "audit", "day", "open"} => latest = Unknown
    /\ npc = "read" =>
           /\ latest # Unknown => latest.file[1] = day /\ latest.file[2] = part
           /\ \A k \in 1..pos : Part[k] # Long /\ latest # Unknown /\ Part[k] <= latest.time

\* Until an entry is found, the one that was the latest is still ahead.
Ahead ==
    \E d \in DOMAIN trace : \E i \in DOMAIN trace[d] : \E k \in DOMAIN trace[d][i] :
        /\ trace[d][i][k] = due
        /\ d < settings.lookback
        /\ \/ day < d
           \/ day = d /\ (npc = "day" \/ i \in todo \/ (npc = "read" /\ i = part))

SearchInv ==
    /\ LatestInv
    /\ due \in Second \cup {-1}
    /\ npc \in {"detect", "fallback", "activity", "audit"} => due = -1
    /\ npc \in {"detect", "fallback", "activity", "audit", "day", "open", "read"}
           => activity = Unknown
    /\ npc \in {"day", "open", "read"} => due # -1
    /\ npc \in {"day", "open", "read"} /\ due > 0 /\ ~missed => Ahead
    /\ npc = "read" /\ NamesInAgeOrder => \A i \in todo : i < part
    /\ due # -1 /\ activity # Unknown => IsEntry(trace, activity)
    /\ LatestReported

-----------------------------------------------------------------------------
(***************************************************************************)
(* The trace                                                               *)
(***************************************************************************)
LEMMA SecondsAreNats ==
    /\ Second \subseteq Nat
    /\ (MaxDays + 1) * DayLength - 1 \in Nat
    /\ Now \in Nat
    /\ 0 \in Second
  BY DaysAssumption DEF Second, Now

LEMMA TraceParts ==
    ASSUME NEW tr, IsTrace(tr), NEW d \in DOMAIN tr
    PROVE  /\ tr[d] \in Seq(Seq(Second))
           /\ d \in Nat
           /\ DOMAIN tr[d] = 1..Len(tr[d]) /\ Len(tr[d]) \in Nat
           /\ \A i \in DOMAIN tr[d] :
                  /\ tr[d][i] \in Seq(Second)
                  /\ DOMAIN tr[d][i] = 1..Len(tr[d][i]) /\ Len(tr[d][i]) \in Nat
                  /\ \A k \in DOMAIN tr[d][i] : tr[d][i][k] \in Second /\ tr[d][i][k] \in Nat
  <1>1. tr[d] \in Seq(Seq(Second)) /\ d \in 0..MaxDays
    BY DEF IsTrace
  <1>2. /\ DOMAIN tr[d] = 1..Len(tr[d]) /\ Len(tr[d]) \in Nat
        /\ \A i \in DOMAIN tr[d] : tr[d][i] \in Seq(Second)
    BY <1>1, SeqFacts
  <1>3. \A i \in DOMAIN tr[d] :
            /\ DOMAIN tr[d][i] = 1..Len(tr[d][i]) /\ Len(tr[d][i]) \in Nat
            /\ \A k \in DOMAIN tr[d][i] : tr[d][i][k] \in Second
    BY <1>2, SeqFacts
  <1>4. d \in Nat
    BY <1>1, DaysAssumption
  <1> QED
    BY <1>2, <1>1, <1>3, <1>4, SecondsAreNats, Zenon

LEMMA EntriesAreSeconds ==
    ASSUME IsTrace(trace), NEW days, days \subseteq DOMAIN trace
    PROVE  /\ Seconds(days) \subseteq Second
           /\ \A t \in Seconds(days) :
                  t = 0 \/ \E d \in days : \E i \in DOMAIN trace[d] :
                               \E k \in DOMAIN trace[d][i] : t = trace[d][i][k]
           /\ \A d \in days : \A i \in DOMAIN trace[d] : \A k \in DOMAIN trace[d][i] :
                  trace[d][i][k] \in Seconds(days)
  <1>1. ASSUME NEW t \in Seconds(days), t # 0
        PROVE  \E d \in days : \E i \in DOMAIN trace[d] :
                  \E k \in DOMAIN trace[d][i] : t = trace[d][i][k]
    <2>1. PICK d \in days : t \in UNION {Range(trace[d][i]) : i \in DOMAIN trace[d]}
      BY <1>1 DEF Seconds
    <2>2. PICK i \in DOMAIN trace[d] : t \in Range(trace[d][i])
      BY <2>1
    <2> QED
      BY <2>2 DEF Range
  <1>2. ASSUME NEW d \in days, NEW i \in DOMAIN trace[d], NEW k \in DOMAIN trace[d][i]
        PROVE  trace[d][i][k] \in Seconds(days)
    <2>1. trace[d][i][k] \in Range(trace[d][i])
      BY DEF Range
    <2>2. trace[d][i][k] \in UNION {Range(trace[d][j]) : j \in DOMAIN trace[d]}
      BY <2>1
    <2> QED
      BY <2>2 DEF Seconds
  <1>3. Seconds(days) \subseteq Second
    <2> SUFFICES ASSUME NEW t \in Seconds(days), t # 0 PROVE t \in Second
      BY SecondsAreNats
    <2>1. PICK d \in days : \E i \in DOMAIN trace[d] :
              \E k \in DOMAIN trace[d][i] : t = trace[d][i][k]
      BY <1>1
    <2>2. d \in DOMAIN trace
      OBVIOUS
    <2> QED
      BY <2>1, <2>2, TraceParts
  <1> QED
    BY <1>1, <1>2, <1>3

LEMMA LatestIsLatest ==
    ASSUME IsTrace(trace), NEW days, days \subseteq DOMAIN trace
    PROVE  LatestOf(days) \in Seconds(days) /\ \A u \in Seconds(days) : u <= LatestOf(days)
  <1>1. Seconds(days) \subseteq 0..((MaxDays + 1) * DayLength - 1)
    BY EntriesAreSeconds DEF Second
  <1>2. Seconds(days) # {}
    BY DEF Seconds
  <1>3. \E t \in Seconds(days) : \A u \in Seconds(days) : u <= t
    BY <1>1, <1>2, SecondsAreNats, GreatestNat
  <1> QED
    BY <1>3 DEF LatestOf

\* The days follow one another: an entry of a later day is later.
LEMMA LaterDay ==
    ASSUME IsTrace(trace),
           NEW d \in DOMAIN trace, NEW i \in DOMAIN trace[d], NEW k \in DOMAIN trace[d][i],
           NEW e \in DOMAIN trace, NEW j \in DOMAIN trace[e], NEW m \in DOMAIN trace[e][j],
           trace[d][i][k] # Long, trace[e][j][m] # Long
    PROVE  /\ DayOf(trace[d][i][k]) = MaxDays - d
           /\ d < e => trace[e][j][m] < trace[d][i][k]
  <1> DEFINE t == trace[d][i][k]
             u == trace[e][j][m]
  <1>1. DayOf(t) = MaxDays - d /\ DayOf(u) = MaxDays - e
    BY DEF IsTrace
  <1>2. t \in Nat /\ u \in Nat /\ d \in Nat /\ e \in Nat
    BY TraceParts
  <1>3. t <= u => DayOf(t) <= DayOf(u)
    BY <1>2, DaysAssumption DEF DayOf
  <1> HIDE DEF t, u
  <1>4. d < e => u < t
    BY <1>1, <1>2, <1>3, DaysAssumption
  <1> QED
    BY <1>1, <1>4 DEF t, u

\* What Files does to a trace: it grows at its end.
Grows ==
    /\ DOMAIN trace' = DOMAIN trace
    /\ \A d \in DOMAIN trace :
           /\ Len(trace[d]) <= Len(trace'[d])
           /\ DOMAIN trace[d] \subseteq DOMAIN trace'[d]
           /\ \A i \in DOMAIN trace[d] :
                  /\ DOMAIN trace[d][i] \subseteq DOMAIN trace'[d][i]
                  /\ Len(trace[d][i]) <= Len(trace'[d][i])
                  /\ \A k \in DOMAIN trace[d][i] : trace'[d][i][k] = trace[d][i][k]

LEMMA WriteGrows ==
    ASSUME IsTrace(trace), WriteEntry
    PROVE  IsTrace(trace') /\ Grows
  <1>1. PICK t \in Today :
            /\ t >= LatestOf(DOMAIN trace)
            /\ trace' = [trace EXCEPT ![0][Len(trace[0])] = Append(@, t)]
    BY DEF WriteEntry
  <1> DEFINE n == Len(trace[0])
  <1>2. 0 \in DOMAIN trace /\ trace[0] # <<>>
    BY DEF IsTrace, WriteEntry
  <1>3. n \in DOMAIN trace[0] /\ n \in Nat \ {0}
    BY <1>2, TraceParts
  <1>4. trace[0][n] \in Seq(Second) /\ t \in Second /\ t # Long /\ DayOf(t) = MaxDays
    BY <1>2, <1>3, TraceParts DEF Today
  <1>5. /\ DOMAIN trace' = DOMAIN trace
        /\ \A d \in DOMAIN trace \ {0} : trace'[d] = trace[d]
        /\ trace'[0] = [trace[0] EXCEPT ![n] = Append(trace[0][n], t)]
    BY <1>1, <1>2
  <1>6. /\ DOMAIN trace'[0] = DOMAIN trace[0]
        /\ \A i \in DOMAIN trace[0] \ {n} : trace'[0][i] = trace[0][i]
        /\ trace'[0][n] = Append(trace[0][n], t)
    BY <1>3, <1>5
  <1>7. trace'[0] \in Seq(Seq(Second)) /\ Len(trace'[0]) = n
    <2>1. Append(trace[0][n], t) \in Seq(Second)
      BY <1>4
    <2>2. trace[0] \in Seq(Seq(Second))
      BY <1>2, TraceParts
    <2> QED
      BY <1>3, <1>5, <2>1, <2>2
  <1> DEFINE len == Len(trace[0][n])
  <1>8. /\ len \in Nat /\ DOMAIN trace[0][n] = 1..len
        /\ DOMAIN trace'[0][n] = 1..(len + 1) /\ Len(trace'[0][n]) = len + 1
        /\ \A k \in 1..len : trace'[0][n][k] = trace[0][n][k]
        /\ trace'[0][n][len + 1] = t
    BY <1>4, <1>6
  <1>9. Grows
    <2> SUFFICES ASSUME NEW d \in DOMAIN trace
                 PROVE  /\ Len(trace[d]) <= Len(trace'[d])
                        /\ DOMAIN trace[d] \subseteq DOMAIN trace'[d]
                        /\ \A i \in DOMAIN trace[d] :
                               /\ DOMAIN trace[d][i] \subseteq DOMAIN trace'[d][i]
                               /\ Len(trace[d][i]) <= Len(trace'[d][i])
                               /\ \A k \in DOMAIN trace[d][i] : trace'[d][i][k] = trace[d][i][k]
      BY <1>5 DEF Grows
    <2>0. /\ Len(trace[d]) \in Nat
          /\ \A i \in DOMAIN trace[d] : Len(trace[d][i]) \in Nat
      BY TraceParts
    <2>1. CASE d # 0
      BY <1>5, <2>0, <2>1
    <2>2. CASE d = 0
      <3>1. ASSUME NEW i \in DOMAIN trace[0], i # n
            PROVE  /\ DOMAIN trace[0][i] \subseteq DOMAIN trace'[0][i]
                   /\ Len(trace[0][i]) <= Len(trace'[0][i])
                   /\ \A k \in DOMAIN trace[0][i] : trace'[0][i][k] = trace[0][i][k]
        BY <1>6, <2>0, <2>2, <3>1
      <3>2. /\ DOMAIN trace[0][n] \subseteq DOMAIN trace'[0][n]
            /\ Len(trace[0][n]) <= Len(trace'[0][n])
            /\ \A k \in DOMAIN trace[0][n] : trace'[0][n][k] = trace[0][n][k]
        <4> HIDE DEF n, len
        <4> QED
          BY <1>8
      <3>3. Len(trace[0]) <= Len(trace'[0]) /\ DOMAIN trace[0] \subseteq DOMAIN trace'[0]
        BY <1>3, <1>6, <1>7
      <3> HIDE DEF n
      <3> QED
        BY <2>2, <3>1, <3>2, <3>3
    <2> QED
      BY <2>1, <2>2
  \* Every entry was there before, or is the new one, which is the last and latest.
  <1>10. ASSUME NEW d \in DOMAIN trace', NEW i \in DOMAIN trace'[d], NEW k \in DOMAIN trace'[d][i]
         PROVE  \/ /\ d \in DOMAIN trace /\ i \in DOMAIN trace[d] /\ k \in DOMAIN trace[d][i]
                   /\ trace'[d][i][k] = trace[d][i][k]
                \/ d = 0 /\ i = n /\ k = len + 1 /\ trace'[d][i][k] = t
    <2>1. CASE d = 0 /\ i = n
      BY <1>2, <1>3, <1>8, <2>1
    <2>2. CASE ~(d = 0 /\ i = n)
      BY <1>5, <1>6, <2>2
    <2> QED
      BY <2>1, <2>2
  <1>11. ASSUME NEW d \in DOMAIN trace, NEW i \in DOMAIN trace[d], NEW k \in DOMAIN trace[d][i]
         PROVE  trace[d][i][k] <= t
    <2>1. trace[d][i][k] \in Seconds(DOMAIN trace)
      BY EntriesAreSeconds
    <2>2. trace[d][i][k] <= LatestOf(DOMAIN trace) /\ LatestOf(DOMAIN trace) \in Second
      BY <2>1, LatestIsLatest, EntriesAreSeconds
    <2>3. trace[d][i][k] \in Nat /\ LatestOf(DOMAIN trace) \in Nat /\ t \in Nat
      BY <1>4, <2>2, SecondsAreNats, TraceParts
    <2> QED
      BY <1>1, <2>2, <2>3
  <1>12. IsTrace(trace')
    <2>1. 0 \in DOMAIN trace' /\ DOMAIN trace' \subseteq 0..MaxDays
      BY <1>5 DEF IsTrace
    <2>2. \A d \in DOMAIN trace' : trace'[d] \in Seq(Seq(Second))
      BY <1>5, <1>7, TraceParts
    <2>3. ASSUME NEW d \in DOMAIN trace', NEW i \in DOMAIN trace'[d],
                 NEW k \in DOMAIN trace'[d][i], trace'[d][i][k] # Long
          PROVE  DayOf(trace'[d][i][k]) = MaxDays - d
      <3>1. CASE trace'[d][i][k] = t /\ d = 0
        BY <1>4, <3>1, DaysAssumption
      <3>2. CASE /\ d \in DOMAIN trace /\ i \in DOMAIN trace[d] /\ k \in DOMAIN trace[d][i]
                 /\ trace'[d][i][k] = trace[d][i][k]
        BY <2>3, <3>2 DEF IsTrace
      <3> QED
        BY <1>10, <3>1, <3>2
    <2>4. ASSUME NEW d \in DOMAIN trace', NEW i \in DOMAIN trace'[d], NEW j \in DOMAIN trace'[d],
                 NEW k \in DOMAIN trace'[d][i], NEW m \in DOMAIN trace'[d][j],
                 i < j \/ (i = j /\ k < m),
                 Long \notin {trace'[d][i][k], trace'[d][j][m]}
          PROVE  trace'[d][i][k] <= trace'[d][j][m]
      <3>1. CASE /\ i \in DOMAIN trace[d] /\ k \in DOMAIN trace[d][i] /\ trace'[d][i][k] = trace[d][i][k]
                 /\ j \in DOMAIN trace[d] /\ m \in DOMAIN trace[d][j] /\ trace'[d][j][m] = trace[d][j][m]
        BY <1>5, <2>4, <3>1 DEF IsTrace
      <3>2. CASE d = 0 /\ j = n /\ m = len + 1 /\ trace'[d][j][m] = t
        <4>1. trace'[d][i][k] = t => trace'[d][i][k] <= t
          BY <1>4, SecondsAreNats
        <4> QED
          BY <1>10, <1>11, <3>2, <4>1
      <3>3. CASE d = 0 /\ i = n /\ k = len + 1
        <4>1. j \in 1..n
          BY <1>2, <1>6, <3>3, TraceParts
        <4>2. j = n /\ m \in Nat /\ m > len + 1
          BY <1>3, <1>8, <2>4, <3>3, <4>1
        <4> QED
          BY <1>8, <3>3, <4>2
      <3> QED
        BY <1>10, <3>1, <3>2, <3>3
    <2> QED
      BY <2>1, <2>2, <2>3, <2>4 DEF IsTrace
  <1> QED
    BY <1>9, <1>12

LEMMA RotateGrows ==
    ASSUME IsTrace(trace), Rotate
    PROVE  IsTrace(trace') /\ Grows
  <1>1. trace' = [trace EXCEPT ![0] = Append(@, <<>>)]
    BY DEF Rotate
  <1> DEFINE n == Len(trace[0])
  <1>2. 0 \in DOMAIN trace /\ trace[0] \in Seq(Seq(Second)) /\ n \in Nat /\ DOMAIN trace[0] = 1..n
    <2>1. 0 \in DOMAIN trace /\ trace[0] \in Seq(Seq(Second))
      BY TraceParts DEF IsTrace
    <2> QED
      BY <2>1
  <1>3. /\ DOMAIN trace' = DOMAIN trace
        /\ \A d \in DOMAIN trace \ {0} : trace'[d] = trace[d]
        /\ trace'[0] = Append(trace[0], <<>>)
    BY <1>1, <1>2
  <1>4. /\ trace'[0] \in Seq(Seq(Second)) /\ Len(trace'[0]) = n + 1 /\ DOMAIN trace'[0] = 1..(n + 1)
        /\ \A i \in 1..n : trace'[0][i] = trace[0][i]
        /\ trace'[0][n + 1] = <<>>
    <2> DEFINE old == trace[0]
               new == trace'[0]
    <2>1. old \in Seq(Seq(Second)) /\ <<>> \in Seq(Second) /\ new = Append(old, <<>>) /\ n = Len(old)
      BY <1>2, <1>3
    <2> HIDE DEF old, new, n
    <2>2. new \in Seq(Seq(Second)) /\ Len(new) = n + 1
      BY <2>1
    <2>3. DOMAIN new = 1..(n + 1)
      BY <2>2
    <2>4. (\A i \in 1..n : new[i] = old[i]) /\ new[n + 1] = <<>>
      BY <2>1
    <2> QED
      BY <2>2, <2>3, <2>4 DEF old, new
  <1>5. Grows
    <2> SUFFICES ASSUME NEW d \in DOMAIN trace
                 PROVE  /\ Len(trace[d]) <= Len(trace'[d])
                        /\ DOMAIN trace[d] \subseteq DOMAIN trace'[d]
                        /\ \A i \in DOMAIN trace[d] : trace'[d][i] = trace[d][i] /\ Len(trace[d][i]) \in Nat
      BY <1>3 DEF Grows
    <2>1. /\ Len(trace[d]) \in Nat
          /\ \A i \in DOMAIN trace[d] : Len(trace[d][i]) \in Nat
      BY TraceParts
    <2>2. CASE d # 0
      <3>1. trace'[d] = trace[d]
        BY <1>3, <2>2
      <3> QED
        BY <2>1, <3>1
    <2>3. CASE d = 0
      <3>1. /\ n \in Nat /\ Len(trace[d]) = n /\ Len(trace'[d]) = n + 1
            /\ DOMAIN trace[d] = 1..n /\ DOMAIN trace'[d] = 1..(n + 1)
            /\ \A i \in 1..n : trace'[d][i] = trace[d][i]
        BY <1>2, <1>4, <2>3
      <3> HIDE DEF n
      <3>2. 1..n \subseteq 1..(n + 1) /\ n <= n + 1
        BY <3>1
      <3> QED
        BY <2>1, <3>1, <3>2
    <2> QED
      BY <2>2, <2>3
  <1>6. ASSUME NEW d \in DOMAIN trace', NEW i \in DOMAIN trace'[d], NEW k \in DOMAIN trace'[d][i]
        PROVE  /\ d \in DOMAIN trace /\ i \in DOMAIN trace[d] /\ k \in DOMAIN trace[d][i]
               /\ trace'[d][i][k] = trace[d][i][k]
    <2>1. CASE d # 0
      BY <1>3, <2>1
    <2>2. CASE d = 0
      <3>0. /\ 0 \in DOMAIN trace /\ n \in Nat /\ DOMAIN trace[0] = 1..n
            /\ DOMAIN trace'[0] = 1..(n + 1) /\ trace'[0][n + 1] = <<>>
            /\ \A h \in 1..n : trace'[0][h] = trace[0][h]
        BY <1>2, <1>4
      <3> HIDE DEF n
      <3>1. i \in 1..(n + 1) /\ k \in DOMAIN trace'[0][i]
        BY <2>2, <3>0
      <3>2. i # n + 1
        <4>1. DOMAIN <<>> = {}
          OBVIOUS
        <4> QED
          BY <3>0, <3>1, <4>1, Zenon
      <3>3. i \in 1..n
        <4>1. n \in Nat /\ i \in 1..(n + 1) /\ i # n + 1
          BY <3>0, <3>1, <3>2, Zenon
        <4> QED
          BY <4>1
      <3> QED
        BY <2>2, <3>0, <3>1, <3>3, Zenon
    <2> QED
      BY <2>1, <2>2
  <1>7. IsTrace(trace')
    <2>1. 0 \in DOMAIN trace' /\ DOMAIN trace' \subseteq 0..MaxDays
      BY <1>3 DEF IsTrace
    <2>2. \A d \in DOMAIN trace' : trace'[d] \in Seq(Seq(Second))
      BY <1>3, <1>4, TraceParts
    <2> QED
      BY <1>6, <2>1, <2>2 DEF IsTrace
  <1> QED
    BY <1>5, <1>7

-----------------------------------------------------------------------------
(***************************************************************************)
(* The start, and what the node does                                       *)
(***************************************************************************)
LEMMA NodeStarts ==
    ASSUME NEW w, NEW s, IsNode(w), s.lookback \in Nat, s.minDelay \in Nat, StartNode(w, s)
    PROVE  NodeInv /\ SearchInv
  <1>1. /\ npc = "detect" /\ kind = "none" /\ day = 0 /\ todo = {} /\ latest = Unknown
        /\ activity = Unknown /\ counted = 0 /\ okAll = TRUE /\ backlog = Unknown
        /\ due = -1 /\ missed = FALSE /\ settings = s
    BY DEF StartNode
  <1>2. FilesInv
    BY <1>1 DEF StartNode, IsNode, FilesInv
  <1>3. NodeTypeOK
    <2>1. okAll \in BOOLEAN /\ missed \in BOOLEAN
      BY <1>1, Zenon
    <2>2. day \in 0..settings.lookback /\ counted \in Nat /\ todo \subseteq Parts(day)
      BY <1>1, <1>2 DEF FilesInv
    <2> QED
      BY <1>1, <2>1, <2>2, Zenon DEF NodeTypeOK
  <1>4. LatestInv
    BY <1>1 DEF LatestInv
  <1> QED
    BY <1>1, <1>2, <1>3, <1>4 DEF NodeInv, SearchInv, LatestReported

LEMMA FilesKeep ==
    ASSUME FilesInv, Files
    PROVE  /\ FilesInv' /\ Grows
           /\ UNCHANGED <<hint, firstPart, settings, npc, kind, traceScan, activity,
                          bufferScan, backlog, due, missed>>
  <1>0. /\ Environment /\ edits > 0 /\ edits' = edits - 1
        /\ UNCHANGED <<hint, firstPart, settings, npc, kind, traceScan, activity,
                       bufferScan, backlog, due, missed>>
    BY DEF Files, WriteEntry, Rotate, Edit, Environment
  <1>1. IsTrace(trace') /\ Grows
    <2>1. CASE WriteEntry
      BY <2>1, WriteGrows DEF FilesInv
    <2>2. CASE Rotate
      BY <2>2, RotateGrows DEF FilesInv
    <2>3. CASE Edit
      <3>1. UNCHANGED trace /\ IsTrace(trace)
        BY <2>3 DEF Edit, FilesInv
      <3>2. Grows
        <4>1. \A d \in DOMAIN trace : /\ Len(trace[d]) \in Nat
                                      /\ \A i \in DOMAIN trace[d] : Len(trace[d][i]) \in Nat
          BY <3>1, TraceParts
        <4> QED
          BY <3>1, <4>1 DEF Grows
      <3> QED
        BY <3>1, <3>2
    <2> QED
      BY <2>1, <2>2, <2>3 DEF Files
  <1>2. config' \in Seq(Range(config')) /\ audit' \in Int \cup {Unknown}
    <2>1. CASE WriteEntry \/ Rotate
      BY <2>1 DEF WriteEntry, Rotate, FilesInv
    <2>2. CASE Edit
      BY <2>2, ConfigsAssumption DEF Edit, FilesInv
    <2> QED
      BY <2>1, <2>2 DEF Files
  <1>3. edits' \in Nat
    BY <1>0 DEF FilesInv
  <1>4. FilesInv'
    BY <1>0, <1>1, <1>2, <1>3 DEF FilesInv
  <1> QED
    BY <1>0, <1>1, <1>2, <1>4

LEMMA FilesNode ==
    ASSUME NodeInv, Files
    PROVE  NodeInv'
  <1>1. /\ FilesInv' /\ Grows
        /\ UNCHANGED <<settings, npc, kind, day, todo, part, pos, counted, okAll, backlog, missed>>
    BY FilesKeep DEF NodeInv, NodeTypeOK, traceScan, bufferScan
  <1>2. Parts(day) \subseteq Parts(day)'
    BY <1>1 DEF Grows, Parts
  <1>3. npc = "read" => pos \in 0..Len(Part)'
    <2> SUFFICES ASSUME npc = "read" PROVE pos \in 0..Len(Part')
      OBVIOUS
    <2>1. part \in Parts(day) /\ pos \in 0..Len(Part)
      BY DEF NodeInv, NodeTypeOK
    <2>2. day \in DOMAIN trace /\ part \in DOMAIN trace[day]
      BY <2>1 DEF Parts
    <2>3. Len(Part) <= Len(Part') /\ Len(Part) \in Nat /\ Len(Part') \in Nat
      <3>1. Len(trace[day][part]) <= Len(trace'[day][part]) /\ part \in DOMAIN trace'[day]
            /\ day \in DOMAIN trace'
        BY <1>1, <2>2 DEF Grows
      <3>2. Len(trace[day][part]) \in Nat /\ Len(trace'[day][part]) \in Nat
        BY <1>1, <2>2, <3>1, TraceParts DEF FilesInv, NodeInv
      <3> QED
        BY <1>1, <3>1, <3>2 DEF Part
    <2> QED
      BY <2>1, <2>3
  <1> QED
    BY <1>1, <1>2, <1>3 DEF NodeInv, NodeTypeOK

\* What was read stays where it was read.
LEMMA EntryStays ==
    ASSUME Grows, NEW x, IsEntry(trace, x)
    PROVE  IsEntry(trace', x)
  BY DEF Grows, IsEntry

LEMMA FilesSearch ==
    ASSUME NodeInv, SearchInv, Files
    PROVE  SearchInv'
  <1>1. /\ FilesInv' /\ Grows
        /\ UNCHANGED <<firstPart, settings, npc, day, todo, part, pos, latest, activity, due, missed>>
    BY FilesKeep DEF NodeInv, traceScan
  <1>2. NamesInAgeOrder' => NamesInAgeOrder
    <2> SUFFICES ASSUME NamesInAgeOrder', NEW d \in DOMAIN trace
                 PROVE  firstPart >= 9 \/ firstPart + Len(trace[d]) <= 9
      BY DEF NamesInAgeOrder
    <2>1. d \in DOMAIN trace' /\ Len(trace[d]) <= Len(trace'[d])
      BY <1>1 DEF Grows
    <2>2. Len(trace[d]) \in Nat /\ Len(trace'[d]) \in Nat /\ firstPart \in Nat
      BY <1>1, <2>1, TraceParts DEF NodeInv, FilesInv
    <2>3. firstPart >= 9 \/ firstPart + Len(trace'[d]) <= 9
      BY <1>1, <2>1 DEF NamesInAgeOrder
    <2> QED
      BY <2>1, <2>2, <2>3
  <1>3. LatestInv'
    <2>1. latest # Unknown => IsEntry(trace', latest)
      BY <1>1, EntryStays DEF SearchInv, LatestInv
    <2>2. latest' # Unknown => IsEntry(trace', latest')
      BY <1>1, <2>1
    <2>3. npc = "read" => \A k \in 1..pos : Part'[k] = Part[k]
      <3> SUFFICES ASSUME npc = "read", NEW k \in 1..pos PROVE Part'[k] = Part[k]
        OBVIOUS
      <3>1. part \in Parts(day) /\ pos \in 0..Len(Part)
        BY DEF NodeInv, NodeTypeOK
      <3>2. day \in DOMAIN trace /\ part \in DOMAIN trace[day]
        BY <3>1 DEF Parts
      <3>3. k \in DOMAIN trace[day][part]
        <4>1. DOMAIN trace[day][part] = 1..Len(trace[day][part]) /\ Len(trace[day][part]) \in Nat
          BY <3>2, TraceParts DEF NodeInv, FilesInv
        <4> QED
          BY <3>1, <4>1 DEF Part
      <3> QED
        BY <1>1, <3>2, <3>3 DEF Part, Grows
    <2> QED
      BY <1>1, <2>1, <2>2, <2>3 DEF SearchInv, LatestInv
  <1>4. Ahead => Ahead'
    BY <1>1 DEF Ahead, Grows
  <1>5. activity # Unknown /\ due # -1 => IsEntry(trace', activity)
    BY <1>1, EntryStays DEF SearchInv
  <1>6. LatestReported'
    <2>1. activity # Unknown /\ due >= 0 /\ npc \in {"buffer", "redetect", "refallback", "count", "done"} =>
            trace'[activity.file[1]][activity.file[2]][activity.file[3]] = activity.time
      BY <1>5, <1>1 DEF IsEntry, SearchInv
    <2> QED
      BY <1>1, <1>2, <2>1 DEF SearchInv, LatestReported, Delay
  <1> QED
    BY <1>1, <1>2, <1>3, <1>4, <1>5, <1>6 DEF SearchInv

-----------------------------------------------------------------------------
(***************************************************************************)
(* What the cycle does                                                     *)
(***************************************************************************)
LEMMA StepsKeepFiles ==
    ASSUME Steps
    PROVE  UNCHANGED <<config, audit, trace, hint, firstPart, settings, edits, versions>>
  BY DEF Steps, files, Detect, Fallback, StatAudit, ReadAudit, StartTrace, OpenDay, NextDay,
         OpenPart, ReadLine, ClosePart, ResolveConfig, Redetect, Refallback, CountPath,
         RecordBacklog

LEMMA DetectKnows ==
    /\ \A file : DetectedIn(file) \in {"none", "collector", "distributor"}
    /\ hint \in {"none", "collector", "distributor"}
           => Guess \in {"none", "collector", "distributor"}
  BY DEF DetectedIn, Guess

LEMMA StepsNode ==
    ASSUME NodeInv, Steps
    PROVE  NodeInv'
  <1>1. UNCHANGED <<config, audit, trace, hint, firstPart, settings, edits, versions>>
    BY StepsKeepFiles
  <1>2. FilesInv /\ FilesInv'
    BY <1>1 DEF NodeInv, FilesInv
  <1>3. ASSUME NEW x PROVE Parts(x)' = Parts(x)
    BY <1>1 DEF Parts
  <1>4. /\ NodeTypeOK /\ settings.lookback \in Nat
        /\ npc \in {"open", "read"} => day < settings.lookback
        /\ npc \in {"detect", "fallback", "activity", "audit", "day"} => todo = {}
    BY DEF NodeInv, FilesInv
  <1> USE <1>4 DEF NodeTypeOK
  <1>5. CASE Detect \/ Fallback
    <2>1. /\ npc \in {"detect", "fallback"} /\ npc' \in {"fallback", "activity"}
          /\ kind' \in {"none", "collector", "distributor"}
          /\ UNCHANGED <<day, todo, pos, part, counted, backlog, okAll, missed>>
      <3>1. CASE Detect
        BY <3>1, DetectKnows DEF Detect, traceScan, bufferScan
      <3>2. CASE Fallback
        BY <1>2, <3>2, DetectKnows DEF Fallback, FilesInv, traceScan, bufferScan
      <3> QED
        BY <1>5, <3>1, <3>2
    <2> QED
      BY <1>1, <1>2, <1>3, <2>1 DEF NodeInv
  <1>6. CASE StatAudit \/ ReadAudit \/ StartTrace
    <2>1. /\ day' \in {day, 0} /\ npc' \in {"audit", "buffer", "day"}
          /\ npc \in {"activity", "audit"}
          /\ UNCHANGED <<kind, todo, pos, part, counted, backlog, okAll, missed>>
      BY <1>6 DEF StatAudit, ReadAudit, StartTrace, traceScan, bufferScan
    <2> QED
      BY <1>1, <1>2, <2>1 DEF NodeInv
  <1>7. CASE OpenDay
    <2>1. /\ npc = "day"
          /\ \/ day < settings.lookback /\ todo' = Parts(day) /\ npc' = "open"
             \/ npc' = "buffer" /\ todo' = todo
          /\ UNCHANGED <<kind, day, pos, part, counted, backlog, okAll, missed>>
      BY <1>7 DEF OpenDay, bufferScan
    <2> QED
      BY <1>1, <1>2, <1>3, <2>1 DEF NodeInv
  <1>8. CASE NextDay
    <2>1. /\ npc = "open" /\ npc' = "day" /\ todo = {} /\ day' = day + 1
          /\ UNCHANGED <<kind, todo, pos, part, counted, backlog, okAll, missed>>
      BY <1>8 DEF NextDay, bufferScan
    <2>2. day' \in 0..settings.lookback
      BY <2>1
    <2> QED
      BY <1>1, <1>2, <2>1, <2>2 DEF NodeInv
  <1>9. CASE OpenPart
    <2>1. PICK i \in NewestOf(todo) :
            /\ todo' = todo \ {i}
            /\ \/ npc' = "read" /\ part' = i /\ pos' = 0 /\ missed' = missed
               \/ missed' = TRUE /\ npc' = "open" /\ part' = part /\ pos' = pos
      BY <1>9 DEF OpenPart
    <2>2. npc = "open" /\ UNCHANGED <<kind, day, counted, backlog, okAll>>
      BY <1>9 DEF OpenPart, bufferScan
    <2>3. i \in Parts(day)
      BY <2>1 DEF NewestOf
    <2>4. npc' = "read" => Len(Part)' \in Nat
      <3>1. day \in DOMAIN trace /\ i \in DOMAIN trace[day]
        BY <2>3 DEF Parts
      <3>2. Len(trace[day][i]) \in Nat
        BY <1>2, <3>1, TraceParts DEF FilesInv
      <3> QED
        BY <1>1, <2>1, <2>2, <3>2 DEF Part
    <2>5. missed' \in BOOLEAN
      BY <2>1, Zenon
    <2>6. npc' = "read" => part' \in Parts(day)' \ todo' /\ pos' \in 0..Len(Part)'
      BY <1>1, <1>3, <2>1, <2>2, <2>3, <2>4
    <2>7. todo' \subseteq Parts(day)' /\ npc' \in {"open", "read"}
      BY <1>3, <2>1, <2>2
    <2> QED
      BY <1>1, <1>2, <2>2, <2>5, <2>6, <2>7 DEF NodeInv
  <1>10. CASE ReadLine
    <2>1. /\ npc = "read" /\ pos < Len(Part) /\ pos' = pos + 1
          /\ UNCHANGED <<npc, kind, day, todo, part, counted, backlog, okAll, missed>>
      BY <1>10 DEF ReadLine, AtLine, bufferScan
    <2>2. Part' = Part
      BY <1>1, <2>1 DEF Part
    <2>3. Len(Part) \in Nat
      <3>1. day \in DOMAIN trace /\ part \in DOMAIN trace[day]
        BY <2>1 DEF Parts
      <3> QED
        BY <1>2, <3>1, TraceParts DEF FilesInv, Part
    <2>4. pos' \in 0..Len(Part)'
      BY <2>1, <2>2, <2>3
    <2> QED
      BY <1>1, <1>2, <1>3, <2>1, <2>4 DEF NodeInv
  <1>11. CASE ClosePart
    <2>1. /\ npc = "read" /\ npc' \in {"open", "buffer"}
          /\ missed' = (missed \/ pos < Len(Part))
          /\ UNCHANGED <<kind, day, todo, part, pos, counted, backlog, okAll>>
      BY <1>11 DEF ClosePart, traceScan, bufferScan
    <2>2. missed' \in BOOLEAN
      BY <2>1, Zenon
    <2> QED
      BY <1>1, <1>2, <1>3, <2>1, <2>2 DEF NodeInv
  <1>12. CASE ResolveConfig \/ Redetect \/ Refallback
    <2>1. /\ npc \in {"buffer", "redetect", "refallback"}
          /\ npc' \in {"redetect", "refallback", "count", "done"}
          /\ UNCHANGED <<kind, day, todo, part, pos, counted, okAll, backlog, missed>>
      BY <1>12 DEF ResolveConfig, Redetect, Refallback, traceScan, bufferScan
    <2> QED
      BY <1>1, <1>2, <1>3, <2>1 DEF NodeInv
  <1>13. CASE CountPath
    <2>1. /\ npc = "count" /\ counted' \in {counted, counted + 1}
          /\ UNCHANGED <<npc, kind, day, todo, part, pos, backlog, missed>>
      BY <1>13 DEF CountPath, traceScan
    <2>2. okAll' \in BOOLEAN
      BY <1>13, Zenon DEF CountPath
    <2> QED
      BY <1>1, <1>2, <1>3, <2>1, <2>2 DEF NodeInv
  <1>14. CASE RecordBacklog
    <2>1. /\ npc = "count" /\ npc' = "done"
          /\ UNCHANGED <<kind, day, todo, part, pos, counted, okAll, missed>>
      BY <1>14 DEF RecordBacklog, traceScan, bufferScan
    <2>2. backlog' \in [counted : Nat, success : BOOLEAN]
      <3>1. (okAll /\ counted > 0) \in BOOLEAN
        BY Zenon
      <3> QED
        BY <1>14, <3>1, Zenon DEF RecordBacklog
    <2> QED
      BY <1>1, <1>2, <1>3, <2>1, <2>2 DEF NodeInv
  <1> QED
    BY <1>5, <1>6, <1>7, <1>8, <1>9, <1>10, <1>11, <1>12, <1>13, <1>14 DEF Steps

\* Where names sort by age, every part left is older than the one that is read.
LEMMA OlderLeft ==
    ASSUME NodeInv, NamesInAgeOrder, npc = "open", NEW i \in NewestOf(todo), NEW j \in todo, j # i
    PROVE  j < i
  <1>1. /\ NameBefore(firstPart + j, firstPart + i)
        /\ i \in Parts(day) /\ j \in Parts(day)
    BY DEF NewestOf, NodeInv, NodeTypeOK
  <1>2. day \in DOMAIN trace /\ i \in DOMAIN trace[day] /\ j \in DOMAIN trace[day]
    BY <1>1 DEF Parts
  <1>3. /\ i \in 1..Len(trace[day]) /\ j \in 1..Len(trace[day]) /\ Len(trace[day]) \in Nat
        /\ firstPart \in Nat
    BY <1>2, TraceParts DEF NodeInv, FilesInv
  <1>4. firstPart >= 9 \/ firstPart + Len(trace[day]) <= 9
    BY <1>2 DEF NamesInAgeOrder
  <1> DEFINE x == firstPart + j
             y == firstPart + i
  <1>5. x \in Nat /\ y \in Nat /\ ((x >= 10 /\ y >= 10) \/ (x < 10 /\ y < 10))
    BY <1>3, <1>4
  <1>6. NameBefore(x, y)
    BY <1>1
  <1>7. x < y
    <2> HIDE DEF x, y
    <2>1. CASE x < 10 /\ y < 10
      BY <1>5, <1>6, <2>1 DEF NameBefore, Digits
    <2>2. CASE x >= 10 /\ y >= 10
      <3>1. x \div 10 < y \div 10 \/ (x \div 10 = y \div 10 /\ x % 10 < y % 10)
        <4>1. Digits(x) = <<x \div 10, x % 10>> /\ Digits(y) = <<y \div 10, y % 10>>
          BY <1>5, <2>2 DEF Digits
        <4>2. Len(Digits(x)) = 2 /\ Len(Digits(y)) = 2
          BY <4>1
        <4> QED
          BY <1>6, <4>1, <4>2 DEF NameBefore
      <3>2. x \div 10 < y \div 10 => x < y
        BY <1>5
      <3>3. x \div 10 = y \div 10 /\ x % 10 < y % 10 => x < y
        BY <1>5
      <3> QED
        BY <3>1, <3>2, <3>3
    <2> QED
      BY <1>5, <2>1, <2>2
  <1> QED
    BY <1>3, <1>7

\* The latest entry when the search begins is one of the days it looks at.
LEMMA StartTraceAhead ==
    ASSUME NodeInv, StartTrace
    PROVE  due' \in Second /\ (due' > 0 => Ahead')
  <1> DEFINE days == DOMAIN trace \cap 0..(settings.lookback - 1)
  <1>1. IsTrace(trace) /\ settings.lookback \in Nat /\ UNCHANGED <<trace, settings>>
    BY DEF NodeInv, FilesInv, StartTrace, files
  <1>2. due' = LatestOf(days) /\ day' = 0 /\ npc' = "day"
    BY DEF StartTrace
  <1>3. due' \in Seconds(days) /\ due' \in Second
    BY <1>1, <1>2, LatestIsLatest, EntriesAreSeconds
  <1>4. ASSUME due' > 0 PROVE Ahead'
    <2>1. due' # 0
      BY <1>4
    <2>2. PICK d \in days : \E i \in DOMAIN trace[d] :
              \E k \in DOMAIN trace[d][i] : due' = trace[d][i][k]
      BY <1>1, <1>3, <2>1, EntriesAreSeconds
    <2>3. d \in DOMAIN trace /\ d < settings.lookback /\ (0 < d \/ d = 0)
      BY <1>1, <2>2
    <2> QED
      BY <1>1, <1>2, <2>2, <2>3 DEF Ahead
  <1> QED
    BY <1>3, <1>4

\* An entry reported is not older than the one that was due.
LEMMA ReportedInTime ==
    ASSUME NodeInv, SearchInv, npc = "read", latest # Unknown,
           due > 0, ~missed, pos >= Len(Part)
    PROVE  /\ DayOf(latest.time) >= DayOf(due)
           /\ NamesInAgeOrder => latest.time >= due
  <1>1. PICK d \in DOMAIN trace : \E i \in DOMAIN trace[d] : \E k \in DOMAIN trace[d][i] :
            /\ trace[d][i][k] = due
            /\ day < d \/ (day = d /\ (i \in todo \/ i = part))
    BY DEF SearchInv, Ahead
  <1>a. PICK i \in DOMAIN trace[d] : \E k \in DOMAIN trace[d][i] :
            /\ trace[d][i][k] = due
            /\ day < d \/ (day = d /\ (i \in todo \/ i = part))
    BY <1>1
  <1>2. PICK k \in DOMAIN trace[d][i] :
            /\ trace[d][i][k] = due
            /\ day < d \/ (day = d /\ (i \in todo \/ i = part))
    BY <1>a
  <1>3. /\ day \in DOMAIN trace /\ part \in DOMAIN trace[day]
        /\ Part = trace[day][part]
        /\ DOMAIN Part = 1..Len(Part) /\ Len(Part) \in Nat /\ pos \in 0..Len(Part)
        /\ IsTrace(trace)
    <2>1. part \in Parts(day) /\ pos \in 0..Len(Part)
      BY DEF NodeInv, NodeTypeOK
    <2>2. day \in DOMAIN trace /\ part \in DOMAIN trace[day]
      BY <2>1 DEF Parts
    <2> QED
      BY <2>1, <2>2, TraceParts DEF NodeInv, FilesInv, Part
  <1>4. PICK q \in DOMAIN trace[day][part] : trace[day][part][q] = latest.time /\ latest.time # Long
    BY DEF SearchInv, LatestInv, IsEntry
  <1>5. due # Long /\ due \in Nat /\ latest.time \in Nat
    BY <1>2, <1>3, <1>4, TraceParts DEF Long
  <1>6. DayOf(latest.time) = MaxDays - day /\ DayOf(due) = MaxDays - d /\ day \in Nat /\ d \in Nat
    <2>1. DayOf(latest.time) = MaxDays - day
      BY <1>3, <1>4 DEF IsTrace
    <2>2. DayOf(due) = MaxDays - d
      BY <1>2, <1>3, <1>5 DEF IsTrace
    <2> QED
      BY <1>3, <2>1, <2>2, TraceParts
  <1>7. CASE day < d
    <2>1. due < latest.time
      BY <1>2, <1>3, <1>4, <1>5, <1>7, LaterDay
    <2> QED
      BY <1>5, <1>6, <1>7, <2>1, DaysAssumption
  <1>8. CASE day = d
    <2>1. DayOf(latest.time) >= DayOf(due)
      BY <1>6, <1>8, DaysAssumption
    <2>2. CASE i \in todo
      <3>1. NamesInAgeOrder => i < part
        BY <2>2 DEF SearchInv
      <3>2. NamesInAgeOrder => due <= latest.time
        BY <1>2, <1>3, <1>4, <1>5, <1>8, <3>1 DEF IsTrace
      <3> QED
        BY <1>5, <2>1, <3>2
    <2>3. CASE i = part
      <3>1. k \in 1..pos
        BY <1>2, <1>3, <1>8, <2>3
      <3>2. due <= latest.time
        BY <1>2, <1>3, <1>8, <2>3, <3>1 DEF SearchInv, LatestInv
      <3> QED
        BY <1>5, <2>1, <3>2
    <2> QED
      BY <1>2, <1>6, <1>8, <2>2, <2>3
  <1> QED
    BY <1>2, <1>7, <1>8

LEMMA StepsSearch ==
    ASSUME NodeInv, NodeInv', SearchInv, Steps
    PROVE  SearchInv'
  <1>1. UNCHANGED <<config, audit, trace, hint, firstPart, settings, edits, versions>>
    BY StepsKeepFiles
  <1>2. NamesInAgeOrder' = NamesInAgeOrder
    BY <1>1 DEF NamesInAgeOrder
  <1>3. SearchInv /\ LatestInv
    BY DEF SearchInv
  <1>4. CASE Detect \/ Fallback \/ StatAudit \/ ReadAudit
    <2>1. /\ npc \in {"detect", "fallback", "activity", "audit"}
          /\ npc' \in {"fallback", "activity", "audit", "buffer"}
          /\ UNCHANGED <<day, todo, part, pos, latest, due, missed>>
          /\ npc' # "buffer" => activity' = activity
      BY <1>4 DEF Detect, Fallback, StatAudit, ReadAudit, traceScan
    <2>2. due' = -1 /\ latest' = Unknown /\ due = -1
      BY <1>3, <2>1 DEF SearchInv, LatestInv
    <2> QED
      BY <1>3, <2>1, <2>2 DEF SearchInv, LatestInv, LatestReported
  <1>5. CASE StartTrace
    <2>1. /\ npc = "activity" /\ npc' = "day"
          /\ UNCHANGED <<todo, part, pos, latest, activity, missed>>
      BY <1>5 DEF StartTrace
    <2>2. latest' = Unknown /\ activity' = Unknown
      BY <1>3, <2>1 DEF SearchInv, LatestInv
    <2>3. due' \in Second /\ (due' > 0 => Ahead') /\ due' # -1
      BY <1>5, StartTraceAhead, SecondsAreNats
    <2> QED
      BY <2>1, <2>2, <2>3 DEF SearchInv, LatestInv, LatestReported
  <1>6. CASE OpenDay
    <2>1. /\ npc = "day"
          /\ \/ day < settings.lookback /\ todo' = Parts(day) /\ npc' = "open"
             \/ day >= settings.lookback /\ npc' = "buffer"
          /\ UNCHANGED <<day, part, pos, latest, activity, due, missed>>
      BY <1>6 DEF OpenDay, NodeInv, NodeTypeOK, FilesInv
    <2>2. latest = Unknown /\ activity = Unknown /\ due # -1
      BY <1>3, <2>1 DEF SearchInv, LatestInv
    <2>3. due > 0 /\ ~missed => Ahead
      BY <1>3, <2>1 DEF SearchInv
    <2>4. CASE npc' = "open"
      <3>1. Ahead => Ahead'
        <4> SUFFICES ASSUME Ahead PROVE Ahead'
          OBVIOUS
        <4>1. PICK d \in DOMAIN trace : \E i \in DOMAIN trace[d] : \E k \in DOMAIN trace[d][i] :
                  trace[d][i][k] = due /\ d < settings.lookback /\ (day < d \/ day = d)
          BY DEF Ahead
        <4>2. day = d => todo' = DOMAIN trace[d]
          BY <2>1, <2>4 DEF Parts
        <4> QED
          BY <1>1, <2>1, <4>1, <4>2 DEF Ahead
      <3> QED
        BY <1>3, <2>1, <2>2, <2>3, <2>4, <3>1 DEF SearchInv, LatestInv, LatestReported
    <2>5. CASE npc' = "buffer"
      <3>1. ~Ahead
        <4> SUFFICES ASSUME Ahead PROVE FALSE
          OBVIOUS
        <4>1. PICK d \in DOMAIN trace : d < settings.lookback /\ (day < d \/ day = d)
          BY DEF Ahead
        <4>2. d \in Nat /\ day \in Nat /\ settings.lookback \in Nat
          BY <4>1, TraceParts DEF NodeInv, FilesInv, NodeTypeOK
        <4> QED
          BY <2>1, <2>5, <4>1, <4>2
      <3> QED
        BY <1>3, <2>1, <2>2, <2>3, <2>5, <3>1 DEF SearchInv, LatestInv, LatestReported
    <2> QED
      BY <2>1, <2>4, <2>5
  <1>7. CASE NextDay
    <2>1. /\ npc = "open" /\ npc' = "day" /\ todo = {} /\ day' = day + 1
          /\ UNCHANGED <<todo, part, pos, latest, activity, due, missed>>
      BY <1>7 DEF NextDay
    <2>2. latest = Unknown /\ activity = Unknown /\ due # -1
      BY <1>3, <2>1 DEF SearchInv, LatestInv
    <2>3. Ahead => Ahead'
      <3> SUFFICES ASSUME Ahead PROVE Ahead'
        OBVIOUS
      <3>1. PICK d \in DOMAIN trace : \E i \in DOMAIN trace[d] : \E k \in DOMAIN trace[d][i] :
                trace[d][i][k] = due /\ d < settings.lookback /\ day < d
        BY <2>1 DEF Ahead
      <3>2. d \in Nat /\ day \in Nat
        BY <3>1, TraceParts DEF NodeInv, FilesInv, NodeTypeOK
      <3>3. day' < d \/ day' = d
        BY <2>1, <3>1, <3>2
      <3> QED
        BY <1>1, <2>1, <3>1, <3>3 DEF Ahead
    <2> QED
      BY <1>3, <2>1, <2>2, <2>3 DEF SearchInv, LatestInv, LatestReported
  <1>8. CASE OpenPart
    <2>1. PICK i \in NewestOf(todo) :
            /\ todo' = todo \ {i}
            /\ \/ npc' = "read" /\ part' = i /\ pos' = 0 /\ missed' = missed
               \/ missed' = TRUE /\ npc' = "open"
      BY <1>8 DEF OpenPart
    <2>2. npc = "open" /\ UNCHANGED <<day, latest, activity, due>>
      BY <1>8 DEF OpenPart
    <2>3. latest = Unknown /\ activity = Unknown /\ due # -1
      BY <1>3, <2>2 DEF SearchInv, LatestInv
    <2>4. npc' = "read" /\ due > 0 /\ ~missed' => Ahead'
      <3> SUFFICES ASSUME npc' = "read", due > 0, ~missed' PROVE Ahead'
        OBVIOUS
      <3>1. Ahead
        BY <1>3, <2>1, <2>2 DEF SearchInv
      <3> QED
        BY <1>1, <2>1, <2>2, <3>1 DEF Ahead
    <2>5. npc' = "read" /\ NamesInAgeOrder => \A j \in todo' : j < part'
      BY <2>1, <2>2, OlderLeft
    <2>6. LatestInv'
      BY <2>1, <2>2, <2>3 DEF LatestInv
    <2> QED
      BY <1>2, <1>3, <2>1, <2>2, <2>3, <2>4, <2>5, <2>6 DEF SearchInv, LatestReported
  <1>9. CASE ReadLine
    <2>1. /\ npc = "read" /\ npc' = "read" /\ pos' = pos + 1 /\ pos < Len(Part)
          /\ Part[pos + 1] # Long
          /\ latest' = IF Later(Part[pos + 1])
                       THEN [time |-> Part[pos + 1], file |-> <<day, part, pos + 1>>]
                       ELSE latest
          /\ UNCHANGED <<day, todo, part, activity, due, missed>>
      BY <1>9 DEF ReadLine, AtLine
    <2>2. activity = Unknown /\ due # -1
      BY <1>3, <2>1 DEF SearchInv
    <2>3. /\ day \in DOMAIN trace /\ part \in DOMAIN trace[day] /\ day \in Nat /\ part \in Nat
          /\ DOMAIN Part = 1..Len(Part) /\ Len(Part) \in Nat /\ pos \in 0..Len(Part)
          /\ \A k \in DOMAIN Part : Part[k] \in Second /\ Part[k] \in Nat
      <3>1. part \in Parts(day) /\ pos \in 0..Len(Part)
        BY <2>1 DEF NodeInv, NodeTypeOK
      <3>2. day \in DOMAIN trace /\ part \in DOMAIN trace[day]
        BY <3>1 DEF Parts
      <3> QED
        BY <3>1, <3>2, TraceParts DEF NodeInv, FilesInv, Part
    <2>4. pos + 1 \in DOMAIN Part /\ Part' = Part
      BY <1>1, <2>1, <2>3 DEF Part
    <2> DEFINE t == Part[pos + 1]
               new == [time |-> t, file |-> <<day, part, pos + 1>>]
    <2>5. t \in Second /\ t \in Nat /\ t # Long
      BY <2>1, <2>3, <2>4
    <2>6. /\ new \in [time : Second, file : Nat \X Nat \X Nat] /\ new # Unknown
          /\ IsEntry(trace, new)
          /\ new.file[1] = day /\ new.file[2] = part /\ new.time = t
      <3>1. new.file = <<day, part, pos + 1>> /\ new.time = t
        OBVIOUS
      <3>2. <<day, part, pos + 1>> \in Nat \X Nat \X Nat /\ <<day, part, pos + 1>> \in Seq(Nat)
        BY <2>3
      <3>3. new \in [time : Second, file : Nat \X Nat \X Nat]
        BY <2>5, <3>2
      <3>4. new # Unknown
        <4>1. new \in [time : Nat, file : Seq(Nat)]
          BY <2>5, <3>2
        <4> QED
          BY <4>1, UnknownAssumption
      <3>5. IsEntry(trace, new)
        <4> HIDE DEF new
        <4> QED
          BY <2>3, <2>4, <2>5, <3>1, <3>2 DEF IsEntry, Part
      <3> QED
        BY <3>1, <3>3, <3>4, <3>5
    <2>7. latest # Unknown => latest.time \in Nat
      BY <1>3, SecondsAreNats DEF LatestInv
    <2>8. LatestInv'
      <3>1. ASSUME NEW k \in 1..pos'
            PROVE  Part[k] # Long /\ latest' # Unknown /\ Part[k] <= latest'.time
        <4>1. k \in 1..pos \/ k = pos + 1
          BY <2>1, <2>3
        <4>2. CASE latest = Unknown
          <5>1. latest' = new
            BY <2>1, <4>2 DEF Later
          <5>2. ~(k \in 1..pos)
            BY <1>3, <2>1, <4>2 DEF LatestInv
          <5> QED
            BY <2>5, <2>6, <4>1, <5>1, <5>2
        <4>3. CASE latest # Unknown /\ t > latest.time
          <5>1. latest' = new
            BY <2>1, <4>3 DEF Later
          <5>2. k \in 1..pos => Part[k] # Long /\ Part[k] <= latest.time /\ Part[k] \in Nat
            BY <1>3, <2>1, <2>3 DEF LatestInv
          <5> HIDE DEF new
          <5> QED
            BY <2>5, <2>6, <2>7, <4>1, <4>3, <5>1, <5>2
        <4>4. CASE latest # Unknown /\ ~(t > latest.time)
          <5>1. latest' = latest
            BY <2>1, <4>4 DEF Later
          <5>2. k \in 1..pos => Part[k] # Long /\ Part[k] <= latest.time
            BY <1>3, <2>1 DEF LatestInv
          <5> QED
            BY <2>5, <2>7, <4>1, <4>4, <5>1, <5>2
        <4> QED
          BY <4>2, <4>3, <4>4
      <3>2. latest' = new \/ latest' = latest
        BY <2>1
      <3> HIDE DEF new
      <3>3. latest' # Unknown => /\ latest' \in [time : Second, file : Nat \X Nat \X Nat]
                                /\ IsEntry(trace, latest')
                                /\ latest'.file[1] = day /\ latest'.file[2] = part
        BY <1>3, <2>1, <2>6, <3>2 DEF LatestInv
      <3> QED
        BY <1>1, <2>1, <2>4, <3>1, <3>3 DEF LatestInv
    <2>9. Ahead => Ahead'
      BY <1>1, <2>1 DEF Ahead
    <2> QED
      BY <1>2, <1>3, <2>1, <2>2, <2>8, <2>9 DEF SearchInv, LatestReported
  <1>10. CASE ClosePart
    <2>1. /\ npc = "read" /\ ~AtLine
          /\ missed' = (missed \/ pos < Len(Part))
          /\ \/ latest = Unknown /\ npc' = "open" /\ activity' = activity
             \/ /\ latest # Unknown /\ npc' = "buffer"
                /\ activity' = Activity("distributor", latest.time, latest.file)
          /\ UNCHANGED <<day, todo, part, pos, latest, due>>
      BY <1>10 DEF ClosePart, traceScan
    <2>2. activity = Unknown /\ due # -1 /\ due \in Second \cup {-1}
      BY <1>3, <2>1 DEF SearchInv
    <2>3. ~missed' => ~missed /\ pos >= Len(Part) /\ DOMAIN Part = 1..Len(Part)
                      /\ Part = trace[day][part]
      <3>1. part \in Parts(day) /\ pos \in 0..Len(Part)
        BY <2>1 DEF NodeInv, NodeTypeOK
      <3>2. day \in DOMAIN trace /\ part \in DOMAIN trace[day]
        BY <3>1 DEF Parts
      <3>3. DOMAIN Part = 1..Len(Part) /\ Len(Part) \in Nat
        BY <3>2, TraceParts DEF NodeInv, FilesInv, Part
      <3>4. ~missed' => ~missed /\ ~(pos < Len(Part))
        BY <2>1, Zenon
      <3> QED
        BY <3>1, <3>3, <3>4 DEF Part
    <2>4. CASE latest = Unknown
      <3>1. due > 0 /\ ~missed' => Ahead'
        <4> SUFFICES ASSUME due > 0, ~missed' PROVE Ahead'
          OBVIOUS
        <4>1. Ahead
          BY <1>3, <2>1, <2>3 DEF SearchInv
        <4>2. PICK d \in DOMAIN trace : \E i \in DOMAIN trace[d] : \E k \in DOMAIN trace[d][i] :
                 /\ trace[d][i][k] = due /\ d < settings.lookback
                 /\ day < d \/ (day = d /\ (i \in todo \/ i = part))
          BY <2>1, <4>1 DEF Ahead
        <4>a. PICK i \in DOMAIN trace[d] : \E k \in DOMAIN trace[d][i] :
                 /\ trace[d][i][k] = due /\ d < settings.lookback
                 /\ day < d \/ (day = d /\ (i \in todo \/ i = part))
          BY <4>2
        <4>3. PICK k \in DOMAIN trace[d][i] :
                 /\ trace[d][i][k] = due /\ d < settings.lookback
                 /\ day < d \/ (day = d /\ (i \in todo \/ i = part))
          BY <4>a
        <4>4. ~(day = d /\ i = part)
          <5> SUFFICES ASSUME day = d, i = part PROVE FALSE
            OBVIOUS
          <5>1. k \in 1..pos
            <6>1. k \in 1..Len(Part) /\ pos \in 0..Len(Part)
              BY <2>1, <2>3, <4>3 DEF NodeInv, NodeTypeOK
            <6> QED
              BY <2>3, <6>1
          <5> QED
            BY <1>3, <2>1, <2>4, <5>1 DEF LatestInv
        <4> QED
          BY <1>1, <2>1, <2>4, <4>3, <4>4 DEF Ahead
      <3>2. LatestInv'
        BY <2>1, <2>4 DEF LatestInv
      <3> QED
        BY <1>2, <1>3, <2>1, <2>2, <2>4, <3>1, <3>2 DEF SearchInv, LatestReported
    <2>5. CASE latest # Unknown
      <3>1. /\ activity' = Activity("distributor", latest.time, latest.file)
            /\ npc' = "buffer" /\ latest' = latest
        BY <2>1, <2>5
      <3>2. /\ latest.time \in Second /\ latest.file \in Nat \X Nat \X Nat
            /\ IsEntry(trace, latest)
        BY <1>3, <2>5 DEF LatestInv
      <3>3. /\ activity'.time = latest.time /\ activity'.file = latest.file
            /\ activity'.delay = Delay(latest.time)
        BY <3>1 DEF Activity
      <3>4. /\ settings.minDelay \in Nat /\ latest.time \in Nat /\ Now \in Nat
        BY <3>2, SecondsAreNats DEF NodeInv, FilesInv
      <3>5. activity' # Unknown
        <4>1. Delay(latest.time) \in Nat
          BY <3>4 DEF Delay
        <4>2. latest.file \in Seq(Nat)
          <5>1. PICK x \in Nat, y \in Nat, z \in Nat : latest.file = <<x, y, z>>
            BY <3>2
          <5> QED
            BY <5>1
        <4>3. activity' \in [type : {"collector", "distributor"}, time : Nat, delay : Nat,
                             file : Seq(Nat)]
          BY <3>1, <3>4, <4>1, <4>2 DEF Activity
        <4> QED
          BY <4>3, UnknownAssumption
      <3>6. IsEntry(trace, activity')
        BY <3>2, <3>3 DEF IsEntry
      <3>7. LatestInv'
        BY <1>1, <1>3, <2>5, <3>1 DEF LatestInv
      <3>8. LatestReported'
        <4> SUFFICES ASSUME due' >= 0, ~missed' PROVE LatestReported'
          BY DEF LatestReported
        <4>1. due' > 0 => /\ DayOf(activity'.time) >= DayOf(due')
                          /\ NamesInAgeOrder' => activity'.time >= due'
          BY <1>2, <2>1, <2>3, <2>5, <3>3, ReportedInTime
        <4>2. ASSUME activity'.time >= due', Now - due' <= settings.minDelay
              PROVE  activity'.delay = 0
          <5>1. due' \in Int
            BY <2>1, <2>2, SecondsAreNats
          <5>2. latest.time >= Now \/ (settings.minDelay > 0 /\ Now - latest.time <= settings.minDelay)
            BY <3>3, <3>4, <4>2, <5>1
          <5> QED
            BY <3>3, <5>2 DEF Delay
        <4> QED
          BY <1>1, <3>5, <3>6, <4>1, <4>2 DEF LatestReported, IsEntry
      <3> QED
        BY <1>1, <2>1, <2>2, <3>1, <3>6, <3>7, <3>8 DEF SearchInv
    <2> QED
      BY <2>4, <2>5
  <1>11. CASE ResolveConfig \/ Redetect \/ Refallback \/ CountPath \/ RecordBacklog
    <2>1. /\ npc \in {"buffer", "redetect", "refallback", "count"}
          /\ npc' \in {"redetect", "refallback", "count", "done"}
          /\ UNCHANGED <<day, todo, part, pos, latest, activity, due, missed>>
      BY <1>11 DEF ResolveConfig, Redetect, Refallback, CountPath, RecordBacklog, traceScan
    <2> QED
      BY <1>1, <1>2, <1>3, <2>1 DEF SearchInv, LatestInv, LatestReported, Delay
  <1> QED
    BY <1>4, <1>5, <1>6, <1>7, <1>8, <1>9, <1>10, <1>11 DEF Steps

=============================================================================
