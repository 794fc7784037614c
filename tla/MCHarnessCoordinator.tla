--------------------------- MODULE MCHarnessCoordinator ---------------------------
(* HarnessCoordinator for TLC: every combination of the settings. *)
EXTENDS HarnessCoordinator
================================================================================
