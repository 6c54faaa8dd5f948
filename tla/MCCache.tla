------------------------------ MODULE MCCache ------------------------------
(***************************************************************************)
(* Instances of Cache for TLC.  Scrapes are interchangeable.               *)
(***************************************************************************)
EXTENDS Cache, TLC

ReaderSymmetry == Permutations(Reader)

=============================================================================
