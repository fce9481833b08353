--------------------------- MODULE MCOrchestrator ---------------------------
(* Three stages: an ordinary one, which may also update the run row as     *)
(* block_candidates does, then the two always_run stages of the KYB        *)
(* pipeline, scoring and store_report.                                     *)
EXTENDS Orchestrator

MCAlwaysRun == {2, 3}
MCRowWriters == {1}
=============================================================================
