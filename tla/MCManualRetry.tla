---------------------------- MODULE MCManualRetry ----------------------------
(* Small instances of ManualRetry for TLC.  Listeners and requests are     *)
(* model values; its run checks liveness, so no symmetry is declared.      *)
EXTENDS ManualRetry

=============================================================================
