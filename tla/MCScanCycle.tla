---------------------------- MODULE MCScanCycle ----------------------------
(***************************************************************************)
(* Instances of ScanCycle for TLC.                                         *)
(***************************************************************************)
EXTENDS ScanCycle

\* The first node's buffer is a watched directory; the others' are not watched.
FirstBufferWatched == [n \in Job |-> IF n = 1 THEN 1 ELSE 0]
SecondBufferWatched == [n \in Job |-> IF n = 1 THEN 2 ELSE 0]

\* The last entry leads to the directory of the first one again: targets overlap.
FirstTwice == [d \in Job |-> IF d = N THEN 1 ELSE d]

=============================================================================
