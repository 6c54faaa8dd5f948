---------------------------- MODULE ScanOutcome ----------------------------
(***************************************************************************)
(* How the scan of one directory may end: what scanDir (scanner.go), which *)
(* DirScan follows entry by entry, is for ScanAll, in which ScanCycle      *)
(* takes it as one step.                                                   *)
(*   "failed"  the directory could not be opened: ScanSuccess = 0          *)
(*   "short"   ReadDir returned an error on the way                        *)
(*   "part"    the context expired on the way                              *)
(*   "capped"  max_files_per_dir or max_stat_files ended it                *)
(*   "full"    every file was counted                                      *)
(***************************************************************************)
Ending == {"failed", "short", "part", "capped", "full"}

\* Only the first has ScanSuccess = 0 (and an Err).
Succeeded == Ending \ {"failed"}

\* A scan may be undisturbed or not begin; for any other end there is a cause.
MayEnd(cuttable, faulty, expired) ==
    {e \in Ending : /\ e = "capped" => cuttable
                    /\ e = "short" => faulty
                    /\ e = "part" => expired}

=============================================================================
