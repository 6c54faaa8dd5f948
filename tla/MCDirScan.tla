----------------------------- MODULE MCDirScan -----------------------------
(***************************************************************************)
(* Instances of DirScan for TLC.                                           *)
(***************************************************************************)
EXTENDS DirScan

=============================================================================
