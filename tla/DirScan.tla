------------------------------ MODULE DirScan ------------------------------
(***************************************************************************)
(* scanDir (scanner.go): the scan of one directory.  It reads the entries  *)
(* chunk by chunk, counts the regular files, takes the modification time   *)
(* of some of them, and gives up on a cap or on an expired context.        *)
(*                                                                         *)
(* Data.  An entry is "skip" when it is not counted (a directory, a        *)
(* symbolic link to one, a broken link), "gone" when it is counted but its *)
(* lstat fails (it vanished after it was listed), else a "file" with a     *)
(* modification time.  The caps are part of the initial state: every value *)
(* of max_files_per_dir and max_stat_files within the bound is tried, and  *)
(* a negative one, which the configuration file may set (Config).          *)
(***************************************************************************)
EXTENDS Integers, Sequences, FiniteSets, ScanOutcome

CONSTANTS
    ChunkSize,   \* dirChunkSize
    MaxLen,      \* bound: entries of the directory
    MaxCap,      \* bound: value of either cap
    Times        \* modification times, in seconds since 1970

ASSUME ChunkSizeAssumption == ChunkSize \in Nat \ {0}
ASSUME BoundsAssumption == MaxLen \in Nat /\ MaxCap \in Nat
ASSUME TimesAssumption == Times \subseteq Nat \ {0}

VARIABLES
    dir,        \* environment: the entries, in the order they are listed
    maxFiles,   \* parameter: cap on counted files, none unless positive
    maxStat,    \* parameter: cap on lstat calls, none unless positive
    cancelled,  \* ctx.Err() # nil
    pc,         \* "open", "head", "entries", "tail", "done"
    pos,        \* entries handled so far
    chunkEnd,   \* last entry of the chunk in hand
    readErr,    \* what ReadDir returned with it: "nil", "eof", "failed"
    count, statsDone, oldest, newest, truncated, success

params == <<dir, maxFiles, maxStat>>
chunk == <<chunkEnd, readErr>>
tally == <<count, statsDone, oldest, newest>>
vars == <<params, cancelled, pc, pos, chunk, tally, truncated, success>>

Entry == {[kind |-> "skip", mtime |-> 0], [kind |-> "gone", mtime |-> 0]}
            \cup [kind : {"file"}, mtime : Times]

None == 0    \* no timestamp seen: the result then reports 0.0

TypeOK ==
    /\ dir \in Seq(Entry)
    /\ maxFiles \in Int /\ maxStat \in Int
    /\ cancelled \in BOOLEAN
    /\ pc \in {"open", "head", "entries", "tail", "done"}
    /\ pos \in 0..Len(dir)
    /\ chunkEnd \in pos..Len(dir)
    /\ readErr \in {"nil", "eof", "failed"}
    /\ count \in 0..pos
    /\ statsDone \in 0..count
    /\ oldest \in Times \cup {None} /\ newest \in Times \cup {None}
    /\ truncated \in BOOLEAN
    /\ success \in BOOLEAN

Init ==
    /\ \E n \in 0..MaxLen : dir \in [1..n -> Entry]
    /\ maxFiles \in -1..MaxCap /\ maxStat \in -1..MaxCap
    /\ cancelled = FALSE
    /\ pc = "open"
    /\ pos = 0 /\ chunkEnd = 0 /\ readErr = "nil"
    /\ count = 0 /\ statsDone = 0 /\ oldest = None /\ newest = None
    /\ truncated = FALSE /\ success = FALSE

-----------------------------------------------------------------------------

\* ScanAll's deadline may pass at any time.
Cancel ==
    /\ pc # "done"
    /\ ~cancelled
    /\ cancelled' = TRUE
    /\ UNCHANGED <<params, pc, pos, chunk, tally, truncated, success>>

\* os.Open: permission denied or vanished ends the scan with ScanSuccess = 0.
Open ==
    /\ pc = "open"
    /\ \/ pc' = "done" /\ success' = FALSE
       \/ pc' = "head" /\ success' = TRUE
    /\ UNCHANGED <<params, cancelled, pos, chunk, tally, truncated>>

\* The loop is left; every scan that opened the directory reports success.
Leave == pc' = "done"

HeadCancelled ==
    /\ pc = "head"
    /\ cancelled
    /\ truncated' = TRUE
    /\ Leave
    /\ UNCHANGED <<params, cancelled, pos, chunk, tally, success>>

\* ReadDir(dirChunkSize): a chunk, or io.EOF with nothing, or an error with the
\* entries read before it.
ReadChunk ==
    /\ pc = "head"
    /\ ~cancelled
    /\ LET left == Len(dir) - pos
           full == IF left < ChunkSize THEN left ELSE ChunkSize
       IN  \/ /\ chunkEnd' = pos + full
              /\ readErr' = IF left = 0 THEN "eof" ELSE "nil"
           \/ /\ chunkEnd' \in pos..(pos + full)
              /\ readErr' = "failed"
    /\ pc' = "entries"
    /\ UNCHANGED <<params, cancelled, pos, tally, truncated, success>>

AtEntry == pc = "entries" /\ pos < chunkEnd
Current == dir[pos + 1]
Regular == Current.kind # "skip"
\* Fault: the cap bites one file early.
FilesCappedEarly == maxFiles > 0 /\ count + 1 >= maxFiles

FilesCapped == maxFiles > 0 /\ count >= maxFiles
\* Fault: the cap bites one file late.
StatsCappedLate == maxStat > 0 /\ statsDone > maxStat
StatsCapped == maxStat > 0 /\ statsDone >= maxStat

EntryCancelled ==
    /\ AtEntry
    /\ cancelled
    /\ truncated' = TRUE
    /\ pc' = "tail"
    /\ UNCHANGED <<params, cancelled, pos, chunk, tally, success>>

\* Fault: the entry after a skipped one is skipped as well.
SkipTwo ==
    /\ AtEntry
    /\ ~cancelled
    /\ ~Regular
    /\ pos' = pos + 2
    /\ UNCHANGED <<params, cancelled, pc, chunk, tally, truncated, success>>

SkipEntry ==
    /\ AtEntry
    /\ ~cancelled
    /\ ~Regular
    /\ pos' = pos + 1
    /\ UNCHANGED <<params, cancelled, pc, chunk, tally, truncated, success>>

\* Fault: the cap ends the chunk without marking the result.
HitFileCapSilently ==
    /\ AtEntry
    /\ ~cancelled
    /\ Regular
    /\ FilesCapped
    /\ pc' = "done"
    /\ UNCHANGED <<params, cancelled, pos, chunk, tally, truncated, success>>

HitFileCap ==
    /\ AtEntry
    /\ ~cancelled
    /\ Regular
    /\ FilesCapped
    /\ truncated' = TRUE
    /\ pc' = "tail"
    /\ UNCHANGED <<params, cancelled, pos, chunk, tally, success>>

\* Fault: a file past the stat cap is not counted either.
CountEntryIfStatted ==
    /\ AtEntry
    /\ ~cancelled
    /\ Regular
    /\ ~FilesCapped
    /\ count' = IF StatsCapped THEN count ELSE count + 1
    /\ pos' = pos + 1
    /\ UNCHANGED <<params, cancelled, pc, chunk, success>>

CountEntry ==
    /\ AtEntry
    /\ ~cancelled
    /\ Regular
    /\ ~FilesCapped
    /\ count' = count + 1
    /\ pos' = pos + 1
    /\ UNCHANGED <<params, cancelled, pc, chunk, success>>

\* Past the stat cap a file is counted, and marks the result as truncated.
CountOnly ==
    /\ CountEntry
    /\ StatsCapped
    /\ truncated' = TRUE
    /\ UNCHANGED <<statsDone, oldest, newest>>

CountVanished ==
    /\ CountEntry
    /\ ~StatsCapped
    /\ Current.kind = "gone"
    /\ UNCHANGED <<statsDone, oldest, newest, truncated>>

CountAndStat ==
    /\ CountEntry
    /\ ~StatsCapped
    /\ Current.kind = "file"
    /\ statsDone' = statsDone + 1
    /\ oldest' = IF statsDone = 0 \/ Current.mtime < oldest
                 THEN Current.mtime ELSE oldest
    /\ newest' = IF statsDone = 0 \/ Current.mtime > newest
                 THEN Current.mtime ELSE newest
    /\ UNCHANGED truncated

EndOfChunk ==
    /\ pc = "entries"
    /\ pos = chunkEnd
    /\ pc' = "tail"
    /\ UNCHANGED <<params, cancelled, pos, chunk, tally, truncated, success>>

\* Fault: only io.EOF ends the loop.
AfterChunkEofOnly ==
    /\ pc = "tail"
    /\ IF (truncated /\ maxFiles > 0) \/ readErr = "eof"
       THEN Leave
       ELSE pc' = "head"
    /\ UNCHANGED <<params, cancelled, pos, chunk, tally, truncated, success>>

\* Fault: the stat cap ends a scan that has no file cap.
AfterChunkAnyTruncation ==
    /\ pc = "tail"
    /\ IF truncated \/ readErr # "nil" THEN Leave ELSE pc' = "head"
    /\ UNCHANGED <<params, cancelled, pos, chunk, tally, truncated, success>>

\* After a chunk: with a file cap any truncation ends the scan; so does readErr,
\* whatever it is; else the next turn begins and sees a cancelled context.
AfterChunk ==
    /\ pc = "tail"
    /\ IF (truncated /\ maxFiles > 0) \/ readErr # "nil"
       THEN Leave
       ELSE pc' = "head"
    /\ UNCHANGED <<params, cancelled, pos, chunk, tally, truncated, success>>

Next ==
    \/ Cancel \/ Open \/ HeadCancelled \/ ReadChunk
    \/ EntryCancelled \/ SkipEntry \/ HitFileCap
    \/ CountOnly \/ CountVanished \/ CountAndStat
    \/ EndOfChunk \/ AfterChunk

Spec == Init /\ [][Next]_vars

FairSpec == Spec /\ WF_vars(Next)

-----------------------------------------------------------------------------
(***************************************************************************)
(* Properties                                                              *)
(***************************************************************************)
Files == {i \in DOMAIN dir : dir[i].kind # "skip"}

\* The files among the first k entries whose lstat works.
Lookable(k) == {i \in 1..k : dir[i].kind = "file"}

\* Those that were looked at: the first ones, as many as the stat cap allows.  A
\* failed lstat does not use it up.
Statted == {i \in Lookable(pos) : maxStat > 0 => Cardinality(Lookable(i - 1)) < maxStat}

\* A scan that read to the end, as far as the operating system let it, and does
\* not say it was truncated, counted every file.
UntruncatedCountExact ==
    pc = "done" /\ success /\ ~truncated /\ readErr # "failed"
        => count = Cardinality(Files)

\* Without a file cap the stat cap does not disturb the count: truncated or not,
\* an undisturbed scan is exact (README.md:56, scanner.go:97-100).
StatCapKeepsCount ==
    pc = "done" /\ success /\ maxFiles <= 0 /\ ~cancelled /\ readErr # "failed"
        => count = Cardinality(Files)

\* A truncated result is explained by a cap that bit or by the deadline, and a
\* file cap that bit reports exactly the cap.
TruncationExplained ==
    pc = "done" /\ truncated =>
        \/ cancelled
        \/ maxFiles > 0 /\ count = maxFiles /\ Cardinality(Files) > maxFiles
        \/ maxStat > 0 /\ statsDone = maxStat /\ count > maxStat

\* The timestamps are the extremes of a sample, the first files whose lstat worked,
\* as many as the stat cap allows, and of nothing else (scanner.go:32-34).  They are
\* zero, which metrics.go:90 calls misleading, only where no lstat worked: there a
\* count above zero means that every counted file vanished after it was listed.
StampsFromSample ==
    pc = "done" =>
        IF Statted = {}
        THEN oldest = None /\ newest = None
        ELSE /\ \E i \in Statted : dir[i].mtime = oldest
             /\ \E i \in Statted : dir[i].mtime = newest
             /\ \A i \in Statted : oldest <= dir[i].mtime /\ dir[i].mtime <= newest

\* Either cap ends a scan, but only where a file cap is set (scanner.go:121).
Cuttable ==
    /\ maxFiles > 0
    /\ \/ Cardinality(Files) > maxFiles
       \/ maxStat > 0 /\ Cardinality(Files) > maxStat

\* What became of the scan.  One that misses files for several reasons at once is
\* put down to the deadline first.
EndedAs ==
    CASE ~success -> "failed"
      [] success /\ count = Cardinality(Files) -> "full"
      [] success /\ count # Cardinality(Files) ->
             IF cancelled THEN "part" ELSE IF readErr = "failed" THEN "short" ELSE "capped"

\* What ScanCycle takes a scan to be is what scanDir does: where neither a cap that
\* the directory can reach, nor the deadline, nor an error of ReadDir accounts for a
\* missing file, every file is counted.
EndsAsScanCycleSays ==
    pc = "done" => EndedAs \in MayEnd(Cuttable, readErr = "failed", cancelled)

\* Every scan ends.
ScanEnds == <>(pc = "done")

\* scanner.go:99, where the stat cap is hit: "don't break -- we still want the
\* accurate count".  So a directory within the file cap is counted to its end.
StatCapKeepsCountWithFileCap ==
    pc = "done" /\ success /\ ~cancelled /\ readErr # "failed"
        /\ Cardinality(Files) <= maxFiles
        => count = Cardinality(Files)

=============================================================================
