--------------------------- MODULE DirScanProofs ---------------------------
(***************************************************************************)
(* Proofs about DirScan: what scanDir reports, for directories of every    *)
(* length, every chunk size and every pair of caps.                        *)
(*                                                                         *)
(* IInv strengthens the properties to every state of the scan: the count   *)
(* is that of the entries handled so far, a mark of truncation has its     *)
(* reason from the start, and a scan that nothing disturbed goes on until  *)
(* ReadDir returns an error or io.EOF.                                     *)
(***************************************************************************)
EXTENDS DirScan, FiniteSetTheorems, SequenceTheorems, TLAPS

\* The regular files among the first k entries.
FilesUpTo(k) == {i \in 1..k : dir[i].kind # "skip"}

\* Neither truncated, nor disturbed by anything but the stat cap.
Undisturbed == ~truncated \/ (maxFiles <= 0 /\ ~cancelled)

CountSoFar == count = Cardinality(FilesUpTo(pos))

CapsHold ==
    /\ maxFiles > 0 => count <= maxFiles
    /\ maxStat > 0 => statsDone <= maxStat

GoesToTheEnd ==
    /\ readErr = "eof" => chunkEnd = Len(dir)
    /\ pc \in {"tail", "done"} /\ success /\ Undisturbed => pos = chunkEnd
    /\ pc = "done" /\ success /\ Undisturbed => readErr # "nil"

Explained ==
    truncated =>
        \/ cancelled
        \/ maxFiles > 0 /\ count = maxFiles /\ Cardinality(Files) > maxFiles
        \/ maxStat > 0 /\ statsDone = maxStat /\ count > maxStat

\* So many of the files whose lstat works were looked at.
LooksSoFar ==
    statsDone = IF maxStat > 0 /\ Cardinality(Lookable(pos)) > maxStat
                THEN maxStat ELSE Cardinality(Lookable(pos))

Stamps ==
    /\ statsDone = 0 => oldest = None /\ newest = None /\ Statted = {}
    /\ statsDone > 0 => /\ \E i \in Statted : dir[i].mtime = oldest
                        /\ \E i \in Statted : dir[i].mtime = newest
    /\ \A i \in Statted : oldest <= dir[i].mtime /\ dir[i].mtime <= newest

IInv ==
    TypeOK /\ CountSoFar /\ CapsHold /\ GoesToTheEnd /\ Explained /\ LooksSoFar /\ Stamps

-----------------------------------------------------------------------------
(***************************************************************************)
(* The types                                                               *)
(***************************************************************************)
LEMMA EntryAt ==
    ASSUME TypeOK, NEW i \in 1..Len(dir)
    PROVE  /\ dir[i] \in Entry
           /\ dir[i].kind = "file" => dir[i].mtime \in Times
           /\ dir[i].kind \in {"skip", "gone", "file"}
  BY DEF TypeOK, Entry

LEMMA Chunk ==
    ASSUME TypeOK, AtEntry
    PROVE  pos \in Nat /\ pos + 1 \in 1..Len(dir) /\ pos + 1 \in 0..Len(dir)
           /\ chunkEnd \in (pos + 1)..Len(dir) /\ dir \in Seq(Entry)
  BY DEF TypeOK, AtEntry

LEMMA TypeInit == Init => TypeOK
  <1> SUFFICES ASSUME Init PROVE TypeOK
    OBVIOUS
  <1>1. PICK n \in 0..MaxLen : dir \in [1..n -> Entry]
    BY DEF Init
  <1>2. n \in Nat
    BY <1>1, BoundsAssumption
  <1>3. dir \in Seq(Entry)
    BY <1>1, <1>2, SeqDef
  <1>4. Len(dir) \in Nat
    BY <1>3, LenProperties
  <1>5. maxFiles \in Int /\ maxStat \in Int
    BY BoundsAssumption DEF Init
  <1>6. /\ pos = 0 /\ chunkEnd = 0 /\ count = 0 /\ statsDone = 0
        /\ pos \in 0..Len(dir) /\ chunkEnd \in pos..Len(dir)
        /\ count \in 0..pos /\ statsDone \in 0..count
    BY <1>4 DEF Init
  <1>7. /\ cancelled = FALSE /\ truncated = FALSE /\ success = FALSE
        /\ pc = "open" /\ readErr = "nil" /\ oldest = None /\ newest = None
    BY DEF Init
  <1> QED
    BY <1>3, <1>5, <1>6, <1>7 DEF TypeOK

LEMMA TypeStep == TypeOK /\ [Next]_vars => TypeOK'
  <1> SUFFICES ASSUME TypeOK, [Next]_vars PROVE TypeOK'
    OBVIOUS
  <1> USE DEF params, chunk, tally
  <1>1. CASE Cancel
    BY <1>1 DEF Cancel, TypeOK
  <1>2. CASE Open
    BY <1>2 DEF Open, TypeOK
  <1>3. CASE HeadCancelled
    BY <1>3 DEF HeadCancelled, Leave, TypeOK
  <1>4. CASE ReadChunk
    BY <1>4, ChunkSizeAssumption DEF ReadChunk, TypeOK
  <1>5. CASE EntryCancelled
    BY <1>5 DEF EntryCancelled, TypeOK
  <1>6. CASE SkipEntry
    BY <1>6, Chunk DEF SkipEntry, TypeOK
  <1>7. CASE HitFileCap
    BY <1>7 DEF HitFileCap, TypeOK
  <1>8. CASE CountOnly
    BY <1>8, Chunk DEF CountOnly, CountEntry, TypeOK
  <1>9. CASE CountVanished
    BY <1>9, Chunk DEF CountVanished, CountEntry, TypeOK
  <1>10. CASE CountAndStat
    BY <1>10, Chunk, EntryAt DEF CountAndStat, CountEntry, Current, TypeOK
  <1>11. CASE EndOfChunk
    BY <1>11 DEF EndOfChunk, TypeOK
  <1>12. CASE AfterChunk
    BY <1>12 DEF AfterChunk, Leave, TypeOK
  <1>13. CASE UNCHANGED vars
    BY <1>13 DEF vars, TypeOK
  <1> QED
    BY <1>1, <1>2, <1>3, <1>4, <1>5, <1>6, <1>7, <1>8, <1>9, <1>10, <1>11, <1>12, <1>13
       DEF Next

\* The local variables of scanDir keep their types, and count, statsDone and the
\* position in the listing their order, whatever is listed and whatever the caps.
THEOREM TypeCorrect == Spec => []TypeOK
  BY TypeInit, TypeStep, PTL DEF Spec

-----------------------------------------------------------------------------
(***************************************************************************)
(* Counting                                                                *)
(***************************************************************************)
LEMMA FilesFinite ==
    ASSUME NEW k \in Nat
    PROVE  IsFiniteSet(FilesUpTo(k)) /\ Cardinality(FilesUpTo(k)) \in Nat
  <1>1. IsFiniteSet(1..k)
    BY FS_Interval
  <1>2. FilesUpTo(k) \in SUBSET (1..k)
    BY DEF FilesUpTo
  <1> QED
    BY <1>1, <1>2, FS_Subset, FS_CardinalityType

LEMMA NoFiles == Cardinality(FilesUpTo(0)) = 0
  <1>1. FilesUpTo(0) = {}
    BY DEF FilesUpTo
  <1> QED
    BY <1>1, FS_EmptySet

\* One more entry adds one to the count, or nothing.
LEMMA CountNext ==
    ASSUME NEW k \in Nat
    PROVE  Cardinality(FilesUpTo(k + 1)) =
               Cardinality(FilesUpTo(k)) + (IF dir[k + 1].kind # "skip" THEN 1 ELSE 0)
  <1>1. CASE dir[k + 1].kind # "skip"
    <2>1. FilesUpTo(k + 1) = FilesUpTo(k) \cup {k + 1} /\ k + 1 \notin FilesUpTo(k)
      BY <1>1 DEF FilesUpTo
    <2> QED
      BY <1>1, <2>1, FilesFinite, FS_AddElement
  <1>2. CASE dir[k + 1].kind = "skip"
    <2>1. FilesUpTo(k + 1) = FilesUpTo(k)
      BY <1>2 DEF FilesUpTo
    <2> QED
      BY <1>2, <2>1, FilesFinite
  <1> QED
    BY <1>1, <1>2

LEMMA AllFiles == TypeOK => Files = FilesUpTo(Len(dir))
  BY DEF TypeOK, Files, FilesUpTo

\* A regular file not yet counted: the directory has more than were counted.
LEMMA OneMore ==
    ASSUME TypeOK, CountSoFar, AtEntry, Regular
    PROVE  Cardinality(Files) > count
  <1>1. FilesUpTo(pos + 1) \subseteq Files
    BY Chunk, AllFiles DEF FilesUpTo
  <1>2. IsFiniteSet(Files)
    BY FilesFinite, AllFiles DEF TypeOK
  <1>3. Cardinality(FilesUpTo(pos + 1)) <= Cardinality(Files)
    BY <1>1, <1>2, FS_Subset
  <1>4. Cardinality(FilesUpTo(pos + 1)) = count + 1
    BY Chunk, CountNext DEF CountSoFar, Regular, Current
  <1>5. count \in Nat
    BY DEF TypeOK
  <1> QED
    BY <1>2, <1>3, <1>4, <1>5, FS_CardinalityType

LEMMA CountUnchanged ==
    ASSUME CountSoFar, UNCHANGED <<dir, pos, count>>
    PROVE  CountSoFar'
  BY DEF CountSoFar, FilesUpTo

LEMMA CountStep ==
    ASSUME TypeOK, CountSoFar, [Next]_vars
    PROVE  CountSoFar'
  <1> USE DEF params, chunk, tally
  <1>1. CASE SkipEntry
    <2>1. Cardinality(FilesUpTo(pos + 1)) = Cardinality(FilesUpTo(pos)) + 0
      BY <1>1, Chunk, CountNext DEF SkipEntry, Regular, Current
    <2>2. Cardinality(FilesUpTo(pos)) \in Nat
      BY FilesFinite DEF TypeOK
    <2> QED
      BY <1>1, <2>1, <2>2 DEF SkipEntry, CountSoFar, FilesUpTo
  <1>2. CASE CountEntry /\ dir' = dir
    <2>1. Cardinality(FilesUpTo(pos + 1)) = Cardinality(FilesUpTo(pos)) + 1
      BY <1>2, Chunk, CountNext DEF CountEntry, Regular, Current
    <2> QED
      BY <1>2, <2>1 DEF CountEntry, CountSoFar, FilesUpTo
  <1>3. CASE UNCHANGED <<dir, pos, count>>
    BY <1>3, CountUnchanged
  <1> QED
    BY <1>1, <1>2, <1>3
       DEF Next, vars, Cancel, Open, HeadCancelled, ReadChunk, EntryCancelled, HitFileCap,
           CountOnly, CountVanished, CountAndStat, CountEntry, EndOfChunk, AfterChunk

-----------------------------------------------------------------------------
(***************************************************************************)
(* The rest of the invariant                                               *)
(***************************************************************************)
LEMMA CapsStep ==
    ASSUME TypeOK, CapsHold, [Next]_vars
    PROVE  CapsHold'
  <1> USE DEF params, chunk, tally, TypeOK, CapsHold
  <1>1. CASE CountEntry /\ UNCHANGED <<maxFiles, maxStat, statsDone>>
    BY <1>1 DEF CountEntry, FilesCapped
  <1>2. CASE CountAndStat
    BY <1>2 DEF CountAndStat, CountEntry, FilesCapped, StatsCapped
  <1>3. CASE UNCHANGED <<maxFiles, maxStat, count, statsDone>>
    BY <1>3
  <1> QED
    BY <1>1, <1>2, <1>3
       DEF Next, vars, Cancel, Open, HeadCancelled, ReadChunk, EntryCancelled, SkipEntry,
           HitFileCap, CountOnly, CountVanished, CountEntry, EndOfChunk, AfterChunk

LEMMA EndStep ==
    ASSUME TypeOK, GoesToTheEnd, [Next]_vars
    PROVE  GoesToTheEnd'
  <1> USE DEF params, chunk, tally, GoesToTheEnd, Undisturbed
  <1>1. CASE ReadChunk
    BY <1>1, ChunkSizeAssumption DEF ReadChunk, TypeOK
  <1>2. CASE HitFileCap
    BY <1>2 DEF HitFileCap, FilesCapped, TypeOK
  <1>3. CASE CountEntry /\ UNCHANGED <<dir, readErr>>
    BY <1>3 DEF CountEntry, AtEntry
  <1>4. CASE EndOfChunk
    BY <1>4 DEF EndOfChunk, TypeOK
  <1>5. CASE AfterChunk
    BY <1>5 DEF AfterChunk, Leave, TypeOK
  <1>6. CASE Cancel \/ Open \/ HeadCancelled \/ EntryCancelled \/ SkipEntry \/ UNCHANGED vars
    BY <1>6 DEF vars, Cancel, Open, HeadCancelled, Leave, EntryCancelled, SkipEntry, AtEntry, TypeOK
  <1> QED
    BY <1>1, <1>2, <1>3, <1>4, <1>5, <1>6
       DEF Next, CountOnly, CountVanished, CountAndStat, CountEntry

LEMMA ExplainedStep ==
    ASSUME TypeOK, CountSoFar, CapsHold, Explained, [Next]_vars
    PROVE  Explained'
  <1> USE DEF params, chunk, tally, Explained
  <1>0. dir' = dir => Files' = Files
    BY DEF Files
  <1>1. CASE HitFileCap
    BY <1>0, <1>1, OneMore DEF HitFileCap, FilesCapped, CapsHold, TypeOK
  <1>2. CASE CountOnly
    BY <1>2 DEF CountOnly, CountEntry, StatsCapped, CapsHold, TypeOK
  <1>3. CASE CountVanished
    BY <1>0, <1>3 DEF CountVanished, CountEntry, StatsCapped, FilesCapped, TypeOK
  <1>4. CASE CountAndStat
    BY <1>0, <1>4 DEF CountAndStat, CountEntry, StatsCapped, FilesCapped, TypeOK
  <1>5. CASE Cancel \/ HeadCancelled \/ EntryCancelled
    BY <1>5 DEF Cancel, HeadCancelled, EntryCancelled
  <1>6. CASE Open \/ ReadChunk \/ SkipEntry \/ EndOfChunk \/ AfterChunk \/ UNCHANGED vars
    BY <1>0, <1>6 DEF vars, Open, ReadChunk, SkipEntry, EndOfChunk, AfterChunk
  <1> QED
    BY <1>1, <1>2, <1>3, <1>4, <1>5, <1>6 DEF Next

-----------------------------------------------------------------------------
(***************************************************************************)
(* Timestamps                                                              *)
(***************************************************************************)
LEMMA StattedSame ==
    ASSUME UNCHANGED <<dir, pos, maxStat>>
    PROVE  Statted' = Statted
  BY DEF Statted, Lookable

LEMMA LookableFinite ==
    ASSUME NEW k \in Nat
    PROVE  IsFiniteSet(Lookable(k)) /\ Cardinality(Lookable(k)) \in Nat
  <1>1. IsFiniteSet(1..k)
    BY FS_Interval
  <1>2. Lookable(k) \in SUBSET (1..k)
    BY DEF Lookable
  <1> QED
    BY <1>1, <1>2, FS_Subset, FS_CardinalityType

LEMMA LookableNext ==
    ASSUME NEW k \in Nat
    PROVE  Cardinality(Lookable(k + 1)) =
               Cardinality(Lookable(k)) + (IF dir[k + 1].kind = "file" THEN 1 ELSE 0)
  <1>1. CASE dir[k + 1].kind = "file"
    <2>1. Lookable(k + 1) = Lookable(k) \cup {k + 1} /\ k + 1 \notin Lookable(k)
      BY <1>1 DEF Lookable
    <2> QED
      BY <1>1, <2>1, LookableFinite, FS_AddElement
  <1>2. CASE dir[k + 1].kind # "file"
    <2>1. Lookable(k + 1) = Lookable(k)
      BY <1>2 DEF Lookable
    <2> QED
      BY <1>2, <2>1, LookableFinite
  <1> QED
    BY <1>1, <1>2

\* The stat cap is reached when as many files as it allows could be looked at.
LEMMA CapIsReached ==
    ASSUME TypeOK, LooksSoFar
    PROVE  StatsCapped <=> maxStat > 0 /\ Cardinality(Lookable(pos)) >= maxStat
  <1>1. Cardinality(Lookable(pos)) \in Nat
    BY LookableFinite DEF TypeOK
  <1> QED
    BY <1>1 DEF LooksSoFar, StatsCapped, TypeOK

LEMMA LooksStep ==
    ASSUME TypeOK, LooksSoFar, [Next]_vars
    PROVE  LooksSoFar'
  <1> USE DEF params, chunk, tally
  <1>0. pos \in Nat /\ statsDone \in Nat /\ maxStat \in Int /\ Cardinality(Lookable(pos)) \in Nat
    BY LookableFinite DEF TypeOK
  <1>1. CASE (SkipEntry \/ CountVanished) /\ dir' = dir
    <2>1. Current.kind # "file" /\ pos' = pos + 1 /\ UNCHANGED <<statsDone, maxStat>>
      BY <1>1 DEF SkipEntry, CountVanished, CountEntry, Regular
    <2>2. Cardinality(Lookable(pos + 1)) = Cardinality(Lookable(pos))
      BY <1>0, <2>1, LookableNext DEF Current
    <2>3. Lookable(pos)' = Lookable(pos + 1)
      BY <1>1, <2>1 DEF Lookable
    <2> QED
      BY <2>1, <2>2, <2>3 DEF LooksSoFar
  <1>2. CASE CountOnly
    <2>1. pos' = pos + 1 /\ UNCHANGED <<dir, statsDone, maxStat>> /\ StatsCapped
      BY <1>2 DEF CountOnly, CountEntry
    <2>2. Cardinality(Lookable(pos + 1)) >= Cardinality(Lookable(pos))
      BY <1>0, LookableNext
    <2>3. Cardinality(Lookable(pos + 1)) \in Nat
      BY <1>0, LookableFinite
    <2>4. Lookable(pos)' = Lookable(pos + 1)
      BY <2>1 DEF Lookable
    <2>5. maxStat > 0 /\ Cardinality(Lookable(pos)) >= maxStat
      BY <2>1, CapIsReached
    <2>6. statsDone = maxStat
      BY <1>0, <2>5 DEF LooksSoFar
    <2> QED
      BY <1>0, <2>1, <2>2, <2>3, <2>4, <2>5, <2>6 DEF LooksSoFar
  <1>3. CASE CountAndStat
    <2>1. /\ pos' = pos + 1 /\ UNCHANGED <<dir, maxStat>> /\ ~StatsCapped
          /\ statsDone' = statsDone + 1 /\ Current.kind = "file"
      BY <1>3 DEF CountAndStat, CountEntry
    <2>2. Cardinality(Lookable(pos + 1)) = Cardinality(Lookable(pos)) + 1
      BY <1>0, <2>1, LookableNext DEF Current
    <2>3. Lookable(pos)' = Lookable(pos + 1)
      BY <2>1 DEF Lookable
    <2>4. ~(maxStat > 0 /\ Cardinality(Lookable(pos)) >= maxStat)
      BY <2>1, CapIsReached
    <2> QED
      BY <1>0, <2>1, <2>2, <2>3, <2>4 DEF LooksSoFar
  <1>4. CASE UNCHANGED <<dir, pos, maxStat, statsDone>>
    BY <1>4 DEF LooksSoFar, Lookable
  <1> QED
    BY <1>1, <1>2, <1>3, <1>4
       DEF Next, vars, Cancel, Open, HeadCancelled, ReadChunk, EntryCancelled, HitFileCap,
           SkipEntry, CountVanished, CountEntry, EndOfChunk, AfterChunk

\* The next entry joins the sample when its lstat works and the cap is not reached.
LEMMA StattedNext ==
    ASSUME TypeOK, LooksSoFar, AtEntry, UNCHANGED <<dir, maxStat>>, pos' = pos + 1
    PROVE  Statted' = Statted \cup
               (IF Current.kind = "file" /\ ~StatsCapped THEN {pos + 1} ELSE {})
  <1>1. pos \in Nat /\ maxStat \in Int /\ Cardinality(Lookable(pos)) \in Nat
    BY LookableFinite DEF TypeOK
  <1>2. \A i : Lookable(i)' = Lookable(i)
    BY DEF Lookable
  <1>3. Lookable(pos)' = Lookable(pos + 1)
    BY DEF Lookable
  <1>4. Statted' = {i \in Lookable(pos + 1) :
                       maxStat > 0 => Cardinality(Lookable(i - 1)) < maxStat}
    BY <1>2, <1>3 DEF Statted
  <1>5. Lookable(pos + 1) =
            Lookable(pos) \cup (IF Current.kind = "file" THEN {pos + 1} ELSE {})
    BY <1>1 DEF Lookable, Current
  <1>6. ~StatsCapped <=> (maxStat > 0 => Cardinality(Lookable((pos + 1) - 1)) < maxStat)
    BY <1>1, CapIsReached
  <1> QED
    BY <1>4, <1>5, <1>6 DEF Statted

LEMMA StattedTimes ==
    ASSUME TypeOK, NEW i \in Statted
    PROVE  dir[i].mtime \in Nat \ {0}
  <1>1. Len(dir) \in Nat
    BY LenProperties DEF TypeOK
  <1>2. i \in 1..Len(dir) /\ dir[i].kind = "file"
    BY <1>1 DEF Statted, Lookable, TypeOK
  <1> QED
    BY <1>2, EntryAt, TimesAssumption

LEMMA StampsStep ==
    ASSUME TypeOK, LooksSoFar, Stamps, [Next]_vars
    PROVE  Stamps'
  <1> USE DEF params, chunk, tally, Stamps
  <1>1. CASE AtEntry /\ UNCHANGED <<dir, maxStat, statsDone, oldest, newest>> /\ pos' = pos + 1
             /\ (Current.kind # "file" \/ StatsCapped)
    <2>1. Statted' = Statted
      BY <1>1, StattedNext
    <2> QED
      BY <1>1, <2>1
  <1>2. CASE CountOnly
    BY <1>1, <1>2 DEF CountOnly, CountEntry
  <1>3. CASE CountAndStat
    <2> DEFINE t == dir[pos + 1].mtime
    <2>1. Statted' = Statted \cup {pos + 1} /\ dir' = dir /\ maxStat' = maxStat
      BY <1>3, StattedNext DEF CountAndStat, CountEntry
    <2>2. /\ statsDone' = statsDone + 1
          /\ oldest' = IF statsDone = 0 \/ t < oldest THEN t ELSE oldest
          /\ newest' = IF statsDone = 0 \/ t > newest THEN t ELSE newest
      BY <1>3 DEF CountAndStat, Current
    <2>3. t \in Nat
      BY <1>3, Chunk, EntryAt, TimesAssumption DEF CountAndStat, CountEntry, Current
    <2>4. statsDone \in Nat /\ oldest \in Nat /\ newest \in Nat
      BY TimesAssumption DEF TypeOK, None
    <2>5. statsDone' > 0 /\ ~(statsDone' = 0)
      BY <2>2, <2>4
    <2>6. /\ \E i \in Statted' : dir[i].mtime = oldest'
          /\ \E i \in Statted' : dir[i].mtime = newest'
      <3>1. CASE statsDone = 0
        BY <2>1, <2>2, <3>1
      <3>2. CASE statsDone > 0
        BY <2>1, <2>2, <3>2
      <3> QED
        BY <2>4, <3>1, <3>2
    <2>7. ASSUME NEW i \in Statted'
          PROVE  oldest' <= dir[i].mtime /\ dir[i].mtime <= newest'
      <3>1. CASE i = pos + 1
        BY <2>2, <2>3, <2>4, <3>1
      <3>2. CASE i \in Statted
        <4>1. statsDone # 0 /\ oldest <= dir[i].mtime /\ dir[i].mtime <= newest
          BY <2>4, <3>2
        <4> QED
          BY <2>2, <2>3, <2>4, <3>2, <4>1, StattedTimes
      <3> QED
        BY <2>1, <3>1, <3>2
    <2> QED
      BY <2>1, <2>5, <2>6, <2>7
  <1>4. CASE UNCHANGED <<dir, pos, maxStat, statsDone, oldest, newest>>
    BY <1>4, StattedSame
  <1>5. CASE SkipEntry \/ CountVanished
    BY <1>1, <1>5 DEF SkipEntry, CountVanished, CountEntry, Regular
  <1> QED
    BY <1>2, <1>3, <1>4, <1>5
       DEF Next, vars, Cancel, Open, HeadCancelled, ReadChunk, EntryCancelled, HitFileCap,
           EndOfChunk, AfterChunk

-----------------------------------------------------------------------------
(***************************************************************************)
(* The theorems                                                            *)
(***************************************************************************)
LEMMA InvInit == Init => IInv
  <1> SUFFICES ASSUME Init PROVE IInv
    OBVIOUS
  <1>1. TypeOK
    BY TypeInit
  <1>2. CountSoFar
    BY NoFiles DEF Init, CountSoFar
  <1>3. Statted = {}
    BY DEF Init, Statted, Lookable
  <1>4. LooksSoFar
    <2>1. pos = 0 /\ statsDone = 0
      BY DEF Init
    <2>2. Lookable(0) = {}
      BY DEF Lookable
    <2>3. Cardinality(Lookable(pos)) = 0
      BY <2>1, <2>2, FS_EmptySet
    <2> QED
      BY <1>1, <2>1, <2>3 DEF LooksSoFar, TypeOK
  <1> QED
    BY <1>1, <1>2, <1>3, <1>4 DEF Init, IInv, CapsHold, GoesToTheEnd, Explained, Stamps, None, TypeOK

LEMMA InvStep == IInv /\ [Next]_vars => IInv'
  BY TypeStep, CountStep, CapsStep, EndStep, ExplainedStep, LooksStep, StampsStep DEF IInv

\* IInv holds throughout: what scanDir has counted, stamped and marked so far fits the
\* entries it has handled.
THEOREM InvHolds == Spec => []IInv
  BY InvInit, InvStep, PTL DEF Spec

LEMMA WholeCounted ==
    ASSUME IInv, pc = "done", success, Undisturbed, readErr # "failed"
    PROVE  count = Cardinality(Files)
  <1>1. pos = Len(dir)
    BY DEF IInv, TypeOK, GoesToTheEnd
  <1> QED
    BY <1>1, AllFiles DEF IInv, CountSoFar

\* A result that does not say it was truncated counts every file of the directory,
\* unless ReadDir failed underneath: for every length, chunk size and pair of caps.
THEOREM ExactUnlessTruncated == Spec => []UntruncatedCountExact
  <1>1. IInv => UntruncatedCountExact
    BY WholeCounted DEF UntruncatedCountExact, Undisturbed
  <1> QED
    BY <1>1, InvHolds, PTL

\* Without a file cap, the stat cap costs timestamps and never the count.
THEOREM StatCapHarmless == Spec => []StatCapKeepsCount
  <1>1. IInv => StatCapKeepsCount
    BY WholeCounted DEF StatCapKeepsCount, Undisturbed
  <1> QED
    BY <1>1, InvHolds, PTL

\* No result is marked truncated without a cap that bit or a deadline that passed.
THEOREM TruncatedForAReason == Spec => []TruncationExplained
  <1>1. IInv => TruncationExplained
    BY DEF IInv, Explained, TruncationExplained
  <1> QED
    BY <1>1, InvHolds, PTL

\* The timestamps reported are the oldest and the newest of the sample, the first
\* files whose lstat worked, as many as the stat cap allows, and zero only when the
\* sample is empty: for every length and pair of caps.
THEOREM StampsOfFiles == Spec => []StampsFromSample
  <1>1. IInv => StampsFromSample
    <2> SUFFICES ASSUME IInv PROVE StampsFromSample
      OBVIOUS
    <2>1. statsDone = 0 \/ statsDone > 0
      BY DEF IInv, TypeOK
    <2>2. CASE statsDone = 0
      BY <2>2 DEF IInv, Stamps, StampsFromSample
    <2>3. CASE statsDone > 0
      <3>1. Statted # {}
        BY <2>3 DEF IInv, Stamps
      <3> QED
        BY <2>3, <3>1 DEF IInv, Stamps, StampsFromSample
    <2> QED
      BY <2>1, <2>2, <2>3
  <1> QED
    BY <1>1, InvHolds, PTL

\* A scan ends in one of the ways ScanCycle allows for: for every length, chunk size
\* and pair of caps, a file is missing from the count only for a reason.
THEOREM ScanCycleIsRight == Spec => []EndsAsScanCycleSays
  <1>1. IInv => EndsAsScanCycleSays
    <2> SUFFICES ASSUME IInv, pc = "done", EndedAs = "capped"
                 PROVE  Cuttable
      BY DEF EndsAsScanCycleSays, EndedAs, MayEnd, Ending
    <2>1. success /\ count # Cardinality(Files) /\ ~cancelled /\ readErr # "failed"
      BY DEF EndedAs, IInv, TypeOK
    <2>2. ~Undisturbed
      BY <2>1, WholeCounted
    <2>3. truncated /\ maxFiles > 0
      BY <2>1, <2>2 DEF Undisturbed, IInv, TypeOK
    <2>4. CASE Cardinality(Files) > maxFiles
      BY <2>3, <2>4 DEF Cuttable
    <2>5. CASE maxStat > 0 /\ statsDone = maxStat /\ count > maxStat
      <3>1. Cardinality(Files) >= count
        <4>1. Len(dir) \in Nat /\ pos \in Nat /\ pos <= Len(dir)
          BY LenProperties DEF IInv, TypeOK
        <4>2. FilesUpTo(pos) \subseteq Files /\ IsFiniteSet(Files)
          BY <4>1, AllFiles, FilesFinite DEF FilesUpTo, IInv
        <4> QED
          BY <4>2, FS_Subset DEF IInv, CountSoFar
      <3>2. Cardinality(Files) \in Nat
        BY AllFiles, FilesFinite, LenProperties DEF IInv, TypeOK
      <3>3. Cardinality(Files) > maxStat
        BY <2>5, <3>1, <3>2 DEF IInv, TypeOK
      <3> QED
        BY <2>3, <2>5, <3>3 DEF Cuttable
    <2> QED
      BY <2>1, <2>3, <2>4, <2>5 DEF IInv, Explained
  <1> QED
    BY <1>1, InvHolds, PTL

=============================================================================
