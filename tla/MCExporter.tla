----------------------------- MODULE MCExporter -----------------------------
(***************************************************************************)
(* Instances of Exporter for TLC.                                          *)
(***************************************************************************)
EXTENDS Exporter, TLC

\* Requests carry no data: they may be exchanged for one another as long as
\* they agree on the secret.  Used in runs without liveness only.
RequestSymmetry == Permutations(Authorised)

=============================================================================
