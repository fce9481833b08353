----------------------------- MODULE RunRecord -----------------------------
(***************************************************************************)
(* What the orchestrator promises to everyone who reads a verification run *)
(* from the database (the report API, the operator console, the audit      *)
(* trail): the run row, its per-stage availability map, which stages'      *)
(* writes are visible, and whether a report exists.  It says nothing of    *)
(* threads, time or signals; module Orchestrator implements it.            *)
(***************************************************************************)
EXTENDS Integers

CONSTANTS
  NumStages,    \* the pipeline has stages 1 .. NumStages, run in this order
  ReportStage   \* the stage that assembles the report (store_report), or 0

Stage == 1 .. NumStages

RunStatus == {"pending", "running", "complete", "failed"}
Availability == {"absent", "pending", "complete", "unavailable"}

VARIABLES
  status,   \* VerificationRun.status
  avail,    \* VerificationRun.source_availability; "absent" before the start
  landed,   \* landed[s]: the writes of stage s are committed and visible
  report    \* a Report row exists for the run

recordVars == <<status, avail, landed, report>>

RecordTypeOK ==
  /\ status \in RunStatus
  /\ avail  \in [Stage -> Availability]
  /\ landed \in [Stage -> BOOLEAN]
  /\ report \in BOOLEAN

RecordInit ==
  /\ status = "pending"
  /\ avail  = [s \in Stage |-> "absent"]
  /\ landed = [s \in Stage |-> FALSE]
  /\ report = FALSE

(* The stage whose turn it is: every earlier stage has its final entry.    *)
Turn(s) ==
  /\ avail[s] = "pending"
  /\ \A e \in Stage : e < s => avail[e] \in {"complete", "unavailable"}

(* The run starts, once, with every stage pending.                         *)
Begin ==
  /\ status = "pending"
  /\ status' = "running"
  /\ avail' = [s \in Stage |-> "pending"]
  /\ UNCHANGED <<landed, report>>

(* A stage's writes become visible all together, once, on its own turn;    *)
(* the report row may be among the writes of the report stage.             *)
Land(s) ==
  /\ status = "running"
  /\ Turn(s)
  /\ ~landed[s]
  /\ landed' = [landed EXCEPT ![s] = TRUE]
  /\ report' \in {report, s = ReportStage \/ report}
  /\ UNCHANGED <<status, avail>>

(* The one exception: in a run that was cut short, the stage that was      *)
(* executing may still land after the run row was closed as failed.  No    *)
(* later stage ever ran.                                                   *)
LandLate(s) ==
  /\ status = "failed"
  /\ avail[s] = "unavailable"
  /\ \A t \in Stage : t > s => avail[t] = "unavailable" /\ ~landed[t]
  /\ ~landed[s]
  /\ landed' = [landed EXCEPT ![s] = TRUE]
  /\ report' \in {report, s = ReportStage \/ report}
  /\ UNCHANGED <<status, avail>>

(* A stage gets its entry in order; it is "complete" only over landed      *)
(* writes.                                                                 *)
Mark(s) ==
  /\ status = "running"
  /\ Turn(s)
  /\ \/ landed[s] /\ avail' = [avail EXCEPT ![s] = "complete"]
     \/ avail' = [avail EXCEPT ![s] = "unavailable"]
  /\ UNCHANGED <<status, landed, report>>

(* A run completes when every stage has its entry.                         *)
Complete ==
  /\ status = "running"
  /\ \A s \in Stage : avail[s] \in {"complete", "unavailable"}
  /\ status' = "complete"
  /\ UNCHANGED <<avail, landed, report>>

(* A failing run closes its open entries in the same step.                 *)
Fail ==
  /\ status \in {"running", "complete"}
  /\ status' = "failed"
  /\ avail' = [s \in Stage |->
                 IF avail[s] = "pending" THEN "unavailable" ELSE avail[s]]
  /\ UNCHANGED <<landed, report>>

(* A failed run gets a partial report.                                     *)
PartialReport ==
  /\ status = "failed"
  /\ report' = TRUE
  /\ UNCHANGED <<status, avail, landed>>

RecordNext ==
  \/ Begin
  \/ \E s \in Stage : Land(s) \/ LandLate(s) \/ Mark(s)
  \/ Complete
  \/ Fail
  \/ PartialReport

RecordSpec == RecordInit /\ [][RecordNext]_recordVars

=============================================================================
