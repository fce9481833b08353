------------------------ MODULE Orchestrator_proof --------------------------
(***************************************************************************)
(* The orchestrator's safety properties, and its implementation of         *)
(* RunRecord, for every number of stages and every choice of always_run    *)
(* stages.                                                                 *)
(***************************************************************************)
EXTENDS Orchestrator, TLAPS

(* The caller is busy with stage cur, whose thread it has started.         *)
Engaged == {"starting", "wait", "woken", "caught", "after", "except"}

(* The run row follows the caller.                                         *)
RowInv ==
  /\ status = "pending" =>
       /\ pc \in {"queued", "exited"}
       /\ cur = 1
       /\ \A s \in Stage : avail[s] = "absent" /\ wk[s] = "idle"
  /\ status # "pending" =>
       /\ pc # "queued"
       /\ \A s \in Stage : s < cur => avail[s] \in {"complete", "unavailable"}
  /\ status = "running" => \A s \in Stage : s >= cur => avail[s] = "pending"
  /\ status = "failed" =>
       /\ pc \in {"finalize", "exited", "killed"}
       /\ \A s \in Stage : s >= cur => avail[s] = "unavailable"
  /\ status = "complete" =>
       /\ pc \in {"closing", "finish", "exited", "killed"}
       /\ cur = NumStages + 1
  /\ pc \in Engaged => cur \in Stage /\ status = "running" /\ wk[cur] # "idle"
  /\ pc = "loop" => status = "running"
  /\ pc = "closing" => status = "complete"
  /\ pc = "finish" => status \in {"running", "complete"}
  /\ pc = "finalize" => status = "failed"

(* What one stage's thread and the caller know of each other.              *)
StageInv(s) ==
  /\ wk[s] = "idle" =>
       ~landed[s] /\ ~abandoned[s] /\ ~settled[s] /\ outcome[s] = "none"
  /\ wk[s] = "ready" => outcome[s] \in Result
  /\ wk[s] = "failing" => outcome[s] = "error"
  /\ wk[s] \in {"running", "ready", "failing"} => ~settled[s]
  /\ ~settled[s] => ~landed[s]
  /\ settled[s] /\ ~abandoned[s] /\ outcome[s] # "error" => landed[s]
  /\ abandoned[s] => ~landed[s]
  /\ abandoned[s] =>
       s < cur \/ (s = cur /\ pc \in {"except", "finish", "finalize", "exited", "killed"})
  /\ s > cur => wk[s] = "idle"
  /\ s = cur /\ pc = "loop" => wk[s] = "idle"
  /\ s < cur => settled[s] \/ abandoned[s] \/ wk[s] = "idle"
  /\ s < cur /\ s \in AlwaysRun => wk[s] # "idle"
  /\ s = cur /\ pc = "after" => landed[s]
  /\ s = cur /\ pc = "except" => settled[s] \/ abandoned[s]
  /\ avail[s] = "complete" => landed[s]
  /\ avail[s] = "complete" => s < cur

IInv == TypeOK /\ RowInv /\ \A s \in Stage : StageInv(s)


----------------------------------------------------------------------------
(* Every variable keeps its type: a step of the loop's body has a stage to *)
(* work on (RowInv), so cur stays within 1 .. NumStages + 1.               *)
LEMMA TypeStep == TypeOK /\ RowInv /\ [Next]_vars => TypeOK'
<1> SUFFICES ASSUME TypeOK, RowInv, [Next]_vars PROVE TypeOK'
  OBVIOUS
<1> USE StagesAssumption DEF Goto, Stage, TypeOK, CallerPc, InTry, WorkerPc, Result, Outcome, dbVars, callerVars, workerVars, RowInv, Engaged
<1>1. CASE Start
  BY <1>1 DEF Start
<1>2. CASE SkipStage
  BY <1>2 DEF SkipStage, MarkStage, OverBudget
<1>3. CASE StartStage
  BY <1>3 DEF StartStage, OverBudget
<1>4. CASE EnterWait
  BY <1>4 DEF EnterWait
<1>5. CASE WaitReturns
  BY <1>5 DEF WaitReturns
<1>6. CASE TimeOutStage
  BY <1>6 DEF TimeOutStage
<1>7. CASE TakeOutcome
  BY <1>7 DEF TakeOutcome
<1>8. CASE RecordResult
  BY <1>8 DEF RecordResult, MarkStage
<1>9. CASE RecordFailure
  BY <1>9 DEF RecordFailure, MarkStage
<1>10. CASE CompleteRun
  BY <1>10 DEF CompleteRun
<1>11. CASE ExitComplete
  BY <1>11 DEF ExitComplete
<1>12. CASE AbandonInterrupted
  BY <1>12 DEF AbandonInterrupted
<1>13. CASE FailRun
  BY <1>13 DEF FailRun
<1>14. CASE Finalize
  BY <1>14 DEF Finalize
<1>15. CASE StartFails
  BY <1>15 DEF StartFails
<1>16. CASE RecordResultFails
  BY <1>16 DEF RecordResultFails
<1>17. CASE CommitFails
  BY <1>17 DEF CommitFails, OverBudget
<1>18. CASE FinishFails
  BY <1>18 DEF FinishFails
<1>19. CASE SpendBudget
  BY <1>19 DEF SpendBudget
<1>20. CASE SoftLimit
  BY <1>20 DEF SoftLimit
<1>21. CASE Kill
  BY <1>21 DEF Kill
<1>22. ASSUME NEW w \in Stage, WorkerTouchesRow(w) PROVE TypeOK'
  BY <1>22 DEF WorkerTouchesRow
<1>23. ASSUME NEW w \in Stage, WorkerReturns(w) PROVE TypeOK'
  BY <1>23 DEF WorkerReturns
<1>24. ASSUME NEW w \in Stage, WorkerRaises(w) PROVE TypeOK'
  BY <1>24 DEF WorkerRaises
<1>25. ASSUME NEW w \in Stage, WorkerCannotConnect(w) PROVE TypeOK'
  BY <1>25 DEF WorkerCannotConnect
<1>26. ASSUME NEW w \in Stage, WorkerSettles(w) PROVE TypeOK'
  BY <1>26 DEF WorkerSettles, EndTransaction
<1>27. ASSUME NEW w \in Stage, WorkerRollsBack(w) PROVE TypeOK'
  BY <1>27 DEF WorkerRollsBack, EndTransaction
<1>28. ASSUME NEW w \in Stage, WorkerCannotRollBack(w) PROVE TypeOK'
  BY <1>28 DEF WorkerCannotRollBack, EndTransaction
<1>29. ASSUME NEW w \in Stage, WorkerExits(w) PROVE TypeOK'
  BY <1>29 DEF WorkerExits
<1>30. CASE UNCHANGED vars
  BY <1>30 DEF vars
<1>31. QED
  BY <1>1, <1>2, <1>3, <1>4, <1>5, <1>6, <1>7, <1>8, <1>9, <1>10, <1>11, <1>12, <1>13, <1>14, <1>15, <1>16, <1>17, <1>18, <1>19, <1>20, <1>21, <1>22, <1>23, <1>24, <1>25, <1>26, <1>27, <1>28, <1>29, <1>30 DEF Next, CallerStep, CallerFault, Worker

(* The run row keeps following the caller.                                 *)
LEMMA RowStep == IInv /\ [Next]_vars => RowInv'
<1> SUFFICES ASSUME TypeOK, RowInv, [Next]_vars PROVE RowInv'
  BY DEF IInv
<1> USE StagesAssumption DEF Goto, Stage, TypeOK, CallerPc, InTry, WorkerPc, Result, Outcome, dbVars, callerVars, workerVars, RowInv, Engaged
<1>1. CASE Start
  BY <1>1 DEF Start
<1>2. CASE SkipStage
  BY <1>2 DEF SkipStage, MarkStage, OverBudget
<1>3. CASE StartStage
  BY <1>3 DEF StartStage, OverBudget
<1>4. CASE EnterWait
  BY <1>4 DEF EnterWait
<1>5. CASE WaitReturns
  BY <1>5 DEF WaitReturns
<1>6. CASE TimeOutStage
  BY <1>6 DEF TimeOutStage
<1>7. CASE TakeOutcome
  BY <1>7 DEF TakeOutcome
<1>8. CASE RecordResult
  BY <1>8 DEF RecordResult, MarkStage
<1>9. CASE RecordFailure
  BY <1>9 DEF RecordFailure, MarkStage
<1>10. CASE CompleteRun
  BY <1>10 DEF CompleteRun
<1>11. CASE ExitComplete
  BY <1>11 DEF ExitComplete
<1>12. CASE AbandonInterrupted
  BY <1>12 DEF AbandonInterrupted
<1>13. CASE FailRun
  BY <1>13 DEF FailRun
<1>14. CASE Finalize
  BY <1>14 DEF Finalize
<1>15. CASE StartFails
  BY <1>15 DEF StartFails
<1>16. CASE RecordResultFails
  BY <1>16 DEF RecordResultFails
<1>17. CASE CommitFails
  BY <1>17 DEF CommitFails, OverBudget
<1>18. CASE FinishFails
  BY <1>18 DEF FinishFails
<1>19. CASE SpendBudget
  BY <1>19 DEF SpendBudget
<1>20. CASE SoftLimit
  BY <1>20 DEF SoftLimit
<1>21. CASE Kill
  BY <1>21 DEF Kill
<1>22. ASSUME NEW w \in Stage, WorkerTouchesRow(w) PROVE RowInv'
  BY <1>22 DEF WorkerTouchesRow
<1>23. ASSUME NEW w \in Stage, WorkerReturns(w) PROVE RowInv'
  BY <1>23 DEF WorkerReturns
<1>24. ASSUME NEW w \in Stage, WorkerRaises(w) PROVE RowInv'
  BY <1>24 DEF WorkerRaises
<1>25. ASSUME NEW w \in Stage, WorkerCannotConnect(w) PROVE RowInv'
  BY <1>25 DEF WorkerCannotConnect
<1>26. ASSUME NEW w \in Stage, WorkerSettles(w) PROVE RowInv'
  BY <1>26 DEF WorkerSettles, EndTransaction
<1>27. ASSUME NEW w \in Stage, WorkerRollsBack(w) PROVE RowInv'
  BY <1>27 DEF WorkerRollsBack, EndTransaction
<1>28. ASSUME NEW w \in Stage, WorkerCannotRollBack(w) PROVE RowInv'
  BY <1>28 DEF WorkerCannotRollBack, EndTransaction
<1>29. ASSUME NEW w \in Stage, WorkerExits(w) PROVE RowInv'
  BY <1>29 DEF WorkerExits
<1>30. CASE UNCHANGED vars
  BY <1>30 DEF vars
<1>31. QED
  BY <1>1, <1>2, <1>3, <1>4, <1>5, <1>6, <1>7, <1>8, <1>9, <1>10, <1>11, <1>12, <1>13, <1>14, <1>15, <1>16, <1>17, <1>18, <1>19, <1>20, <1>21, <1>22, <1>23, <1>24, <1>25, <1>26, <1>27, <1>28, <1>29, <1>30 DEF Next, CallerStep, CallerFault, Worker

(* The protocol between a stage's thread and the caller is kept.           *)
LEMMA StageStep ==
  ASSUME IInv, [Next]_vars, NEW s \in Stage
  PROVE  StageInv(s)'
<1> SUFFICES ASSUME TypeOK, RowInv, StageInv(s) PROVE StageInv(s)'
  BY DEF IInv
<1> USE StagesAssumption DEF Goto, Stage, TypeOK, CallerPc, InTry, WorkerPc, Result, Outcome, dbVars, callerVars, workerVars, RowInv, Engaged, StageInv
<1>1. CASE Start
  BY <1>1 DEF Start
<1>2. CASE SkipStage
  BY <1>2 DEF SkipStage, MarkStage, OverBudget
<1>3. CASE StartStage
  BY <1>3 DEF StartStage, OverBudget
<1>4. CASE EnterWait
  BY <1>4 DEF EnterWait
<1>5. CASE WaitReturns
  BY <1>5 DEF WaitReturns
<1>6. CASE TimeOutStage
  BY <1>6 DEF TimeOutStage
<1>7. CASE TakeOutcome
  BY <1>7 DEF TakeOutcome
<1>8. CASE RecordResult
  BY <1>8 DEF RecordResult, MarkStage
<1>9. CASE RecordFailure
  BY <1>9 DEF RecordFailure, MarkStage
<1>10. CASE CompleteRun
  BY <1>10 DEF CompleteRun
<1>11. CASE ExitComplete
  BY <1>11 DEF ExitComplete
<1>12. CASE AbandonInterrupted
  BY <1>12 DEF AbandonInterrupted
<1>13. CASE FailRun
  BY <1>13 DEF FailRun
<1>14. CASE Finalize
  BY <1>14 DEF Finalize
<1>15. CASE StartFails
  BY <1>15 DEF StartFails
<1>16. CASE RecordResultFails
  BY <1>16 DEF RecordResultFails
<1>17. CASE CommitFails
  BY <1>17 DEF CommitFails, OverBudget
<1>18. CASE FinishFails
  BY <1>18 DEF FinishFails
<1>19. CASE SpendBudget
  BY <1>19 DEF SpendBudget
<1>20. CASE SoftLimit
  BY <1>20 DEF SoftLimit
<1>21. CASE Kill
  BY <1>21 DEF Kill
<1>22. ASSUME NEW w \in Stage, WorkerTouchesRow(w) PROVE StageInv(s)'
  BY <1>22 DEF WorkerTouchesRow
<1>23. ASSUME NEW w \in Stage, WorkerReturns(w) PROVE StageInv(s)'
  BY <1>23 DEF WorkerReturns
<1>24. ASSUME NEW w \in Stage, WorkerRaises(w) PROVE StageInv(s)'
  BY <1>24 DEF WorkerRaises
<1>25. ASSUME NEW w \in Stage, WorkerCannotConnect(w) PROVE StageInv(s)'
  BY <1>25 DEF WorkerCannotConnect
<1>26. ASSUME NEW w \in Stage, WorkerSettles(w) PROVE StageInv(s)'
  BY <1>26 DEF WorkerSettles, EndTransaction
<1>27. ASSUME NEW w \in Stage, WorkerRollsBack(w) PROVE StageInv(s)'
  BY <1>27 DEF WorkerRollsBack, EndTransaction
<1>28. ASSUME NEW w \in Stage, WorkerCannotRollBack(w) PROVE StageInv(s)'
  BY <1>28 DEF WorkerCannotRollBack, EndTransaction
<1>29. ASSUME NEW w \in Stage, WorkerExits(w) PROVE StageInv(s)'
  BY <1>29 DEF WorkerExits
<1>30. CASE UNCHANGED vars
  BY <1>30 DEF vars
<1>31. QED
  BY <1>1, <1>2, <1>3, <1>4, <1>5, <1>6, <1>7, <1>8, <1>9, <1>10, <1>11, <1>12, <1>13, <1>14, <1>15, <1>16, <1>17, <1>18, <1>19, <1>20, <1>21, <1>22, <1>23, <1>24, <1>25, <1>26, <1>27, <1>28, <1>29, <1>30 DEF Next, CallerStep, CallerFault, Worker

LEMMA InitInv == Init => IInv
<1> SUFFICES ASSUME Init PROVE IInv
  OBVIOUS
<1> USE StagesAssumption DEF Init, Stage
<1>1. TypeOK
  <2>1. cur \in 1 .. NumStages + 1
    OBVIOUS
  <2>2. /\ wk \in [Stage -> WorkerPc]
        /\ outcome \in [Stage -> Outcome]
    BY DEF WorkerPc, Outcome
  <2>3. QED
    BY <2>1, <2>2 DEF TypeOK, CallerPc
<1>2. RowInv
  BY DEF RowInv, Engaged
<1>3. ASSUME NEW s \in Stage PROVE StageInv(s)
  BY DEF StageInv
<1>4. QED
  BY <1>1, <1>2, <1>3 DEF IInv

LEMMA StepInv == IInv /\ [Next]_vars => IInv'
<1> SUFFICES ASSUME IInv, [Next]_vars PROVE IInv'
  OBVIOUS
<1>1. TypeOK'
  BY TypeStep DEF IInv
<1>2. RowInv'
  BY RowStep
<1>3. \A s \in Stage : StageInv(s)'
  BY StageStep
<1>4. QED
  BY <1>1, <1>2, <1>3 DEF IInv, Stage

(* The inductive invariant holds in every reachable state.                 *)
THEOREM Invariance == Spec => []IInv
BY InitInv, StepInv, PTL DEF Spec

----------------------------------------------------------------------------
(* Types, for every number of stages.                                      *)
THEOREM TypeCorrect == Spec => []TypeOK
<1>1. IInv => TypeOK
  BY DEF IInv
<1>2. QED
  BY <1>1, Invariance, PTL

(* A stage shown as complete has its writes in the database.               *)
THEOREM CompleteIsLanded == Spec => []CompleteMeansLanded
<1>1. IInv => CompleteMeansLanded
  BY DEF IInv, StageInv, CompleteMeansLanded
<1>2. QED
  BY <1>1, Invariance, PTL

(* A stage the caller abandoned never lands.                               *)
THEOREM AbandonedIsLost == Spec => []AbandonedNeverLands
<1>1. IInv => AbandonedNeverLands
  BY DEF IInv, StageInv, AbandonedNeverLands
<1>2. QED
  BY <1>1, Invariance, PTL

(* A finished run has no pending stage.                                    *)
THEOREM FinishedIsSettled == Spec => []FinishedHasNoPending
<1>1. IInv => FinishedHasNoPending
  <2> SUFFICES ASSUME IInv, status \in {"complete", "failed"}, NEW s \in Stage
               PROVE  avail[s] \in {"complete", "unavailable"}
    BY DEF FinishedHasNoPending
  <2>1. cur \in Int /\ s \in Int /\ NumStages \in Int
    BY StagesAssumption DEF IInv, TypeOK, Stage
  <2>2. s < cur \/ s >= cur
    BY <2>1
  <2>3. status = "complete" => s < cur
    BY <2>1, StagesAssumption DEF IInv, RowInv, Stage
  <2>4. QED
    BY <2>2, <2>3 DEF IInv, RowInv
<1>2. QED
  BY <1>1, Invariance, PTL

(* A completed run started every always_run stage.                         *)
THEOREM CompleteRanThemAll == Spec => []CompleteRanAlwaysRun
<1>1. IInv => CompleteRanAlwaysRun
  BY StagesAssumption DEF IInv, TypeOK, RowInv, StageInv, Stage, CompleteRanAlwaysRun
<1>2. QED
  BY <1>1, Invariance, PTL

----------------------------------------------------------------------------
(* The only step that makes writes visible is a worker's commit under the  *)
(* lock, and then the caller has not passed that stage.                    *)
LEMMA LandingStep ==
  ASSUME IInv, [Next]_vars, NEW s \in Stage, landed[s] # landed'[s]
  PROVE  WorkerSettles(s) /\ ~abandoned[s] /\ ~landed[s] /\ cur = s
<1>1. PICK w \in Stage : WorkerSettles(w)
  <2>1. CASE Start
    BY <2>1 DEF Start, dbVars
  <2>2. CASE SkipStage
    BY <2>2 DEF SkipStage, dbVars, MarkStage, OverBudget
  <2>3. CASE StartStage
    BY <2>3 DEF StartStage, dbVars, OverBudget
  <2>4. CASE EnterWait
    BY <2>4 DEF EnterWait, dbVars
  <2>5. CASE WaitReturns
    BY <2>5 DEF WaitReturns, dbVars
  <2>6. CASE TimeOutStage
    BY <2>6 DEF TimeOutStage, dbVars
  <2>7. CASE TakeOutcome
    BY <2>7 DEF TakeOutcome, dbVars
  <2>8. CASE RecordResult
    BY <2>8 DEF RecordResult, dbVars, MarkStage
  <2>9. CASE RecordFailure
    BY <2>9 DEF RecordFailure, dbVars, MarkStage
  <2>10. CASE CompleteRun
    BY <2>10 DEF CompleteRun, dbVars
  <2>11. CASE ExitComplete
    BY <2>11 DEF ExitComplete, dbVars
  <2>12. CASE AbandonInterrupted
    BY <2>12 DEF AbandonInterrupted, dbVars
  <2>13. CASE FailRun
    BY <2>13 DEF FailRun, dbVars
  <2>14. CASE Finalize
    BY <2>14 DEF Finalize, dbVars
  <2>15. CASE StartFails
    BY <2>15 DEF StartFails, dbVars
  <2>16. CASE RecordResultFails
    BY <2>16 DEF RecordResultFails, dbVars
  <2>17. CASE CommitFails
    BY <2>17 DEF CommitFails, dbVars, OverBudget
  <2>18. CASE FinishFails
    BY <2>18 DEF FinishFails, dbVars
  <2>19. CASE SpendBudget
    BY <2>19 DEF SpendBudget, dbVars
  <2>20. CASE SoftLimit
    BY <2>20 DEF SoftLimit, dbVars
  <2>21. CASE Kill
    BY <2>21 DEF Kill, dbVars
  <2>22. ASSUME NEW w \in Stage, Worker(w) PROVE WorkerSettles(w)
    BY <2>22 DEF Worker, WorkerTouchesRow, WorkerReturns, WorkerRaises, WorkerCannotConnect,
       WorkerRollsBack, WorkerCannotRollBack, WorkerExits, dbVars
  <2>23. CASE UNCHANGED vars
    BY <2>23 DEF vars, dbVars
  <2>24. QED
    BY <2>1, <2>2, <2>3, <2>4, <2>5, <2>6, <2>7, <2>8, <2>9, <2>10, <2>11, <2>12, <2>13, <2>14, <2>15, <2>16, <2>17, <2>18, <2>19, <2>20, <2>21, <2>22, <2>23 DEF Next, CallerStep, CallerFault
<1>2. w = s /\ ~abandoned[s]
  BY <1>1 DEF WorkerSettles, IInv, TypeOK, StageInv
<1>3. ~(s > cur) /\ ~(s < cur)
  BY <1>1, <1>2 DEF WorkerSettles, IInv, StageInv
<1>4. QED
  BY <1>1, <1>2, <1>3, StagesAssumption DEF WorkerSettles, IInv, TypeOK, StageInv, Stage

(* Stages are serial in the database.                                      *)
THEOREM SerialStages == Spec => StagesSerial
<1>1. IInv /\ [Next]_vars =>
        [\A s, t \in Stage :
            s < t /\ landed[s] # landed'[s] => wk[t] = "idle"]_vars
  <2> SUFFICES ASSUME IInv, [Next]_vars, NEW s \in Stage, NEW t \in Stage,
                      s < t, landed[s] # landed'[s]
               PROVE  wk[t] = "idle"
    OBVIOUS
  <2>1. cur = s
    BY LandingStep
  <2>2. QED
    BY <2>1 DEF IInv, StageInv
<1>2. QED
  BY <1>1, Invariance, PTL DEF Spec, StagesSerial

----------------------------------------------------------------------------
(* Refinement.  Steps of the protocol itself are invisible in the run row; *)
(* the others map to the action of RunRecord with the same effect.         *)

Invisible == UNCHANGED <<status, avail, landed, report>>

LEMMA InvisibleStep == Invisible => [RunRow!RecordNext]_RunRow!recordVars
BY DEF Invisible, RunRow!recordVars

(* An entry written by the caller is an entry RunRecord allows.            *)
LEMMA MarkSimulates ==
  ASSUME IInv, cur \in Stage, status = "running", NEW entry,
         MarkStage(entry),
         entry = "unavailable" \/ (entry = "complete" /\ landed[cur])
  PROVE  RunRow!RecordNext
<1>1. RunRow!Turn(cur)
  BY DEF IInv, RowInv, RunRow!Turn, RunRow!Stage, Stage
<1>2. RunRow!Mark(cur)
  BY <1>1 DEF MarkStage, RunRow!Mark
<1>3. cur \in RunRow!Stage
  BY DEF RunRow!Stage, Stage
<1>4. QED
  BY <1>2, <1>3 DEF RunRow!RecordNext

(* A commit under the lock is a landing RunRecord allows: on the stage's   *)
(* turn in a running run, or late in a failed one.                         *)
LEMMA SettleSimulates ==
  ASSUME IInv, [Next]_vars, NEW s \in Stage, WorkerSettles(s), ~abandoned[s]
  PROVE  RunRow!RecordNext
<1> USE DEF RunRow!Stage, Stage
<1>1. landed[s] = FALSE /\ landed'[s] = TRUE
  BY DEF WorkerSettles, IInv, TypeOK, StageInv
<1>2. cur = s
  BY <1>1, LandingStep
<1>3. /\ landed' = [landed EXCEPT ![s] = TRUE]
      /\ report' \in {report, s = ReportStage \/ report}
      /\ UNCHANGED <<status, avail>>
  <2>1. CASE s = ReportStage /\ outcome[s] = "ok"
    BY <2>1 DEF WorkerSettles, IInv, TypeOK
  <2>2. CASE ~(s = ReportStage /\ outcome[s] = "ok")
    BY <2>2 DEF WorkerSettles, IInv, TypeOK
  <2>3. QED
    BY <2>1, <2>2
<1>4. status \in {"running", "failed"}
  <2>1. wk[s] = "ready" /\ cur # NumStages + 1
    BY <1>2, StagesAssumption DEF WorkerSettles
  <2>2. QED
    BY <2>1 DEF IInv, TypeOK, RowInv
<1>5. CASE status = "running"
  <2>1. RunRow!Turn(s)
    BY <1>2, <1>5 DEF IInv, RowInv, RunRow!Turn
  <2>2. RunRow!Land(s)
    BY <1>1, <1>3, <1>5, <2>1 DEF RunRow!Land
  <2>3. QED
    BY <2>2 DEF RunRow!RecordNext
<1>6. CASE status = "failed"
  <2>1. avail[s] = "unavailable"
    BY <1>2, <1>6 DEF IInv, RowInv
  <2>2. \A t \in Stage : t > s => avail[t] = "unavailable" /\ ~landed[t]
    BY <1>2, <1>6 DEF IInv, RowInv, StageInv
  <2>3. RunRow!LandLate(s)
    BY <1>1, <1>3, <1>6, <2>1, <2>2 DEF RunRow!LandLate
  <2>4. QED
    BY <2>3 DEF RunRow!RecordNext
<1>7. QED
  BY <1>4, <1>5, <1>6

LEMMA StepSimulates == IInv /\ [Next]_vars => [RunRow!RecordNext]_RunRow!recordVars
<1> SUFFICES ASSUME IInv, [Next]_vars PROVE [RunRow!RecordNext]_RunRow!recordVars
  OBVIOUS
<1>1. CASE StartStage
  BY <1>1, InvisibleStep DEF StartStage, dbVars, Invisible
<1>2. CASE EnterWait
  BY <1>2, InvisibleStep DEF EnterWait, dbVars, Invisible
<1>3. CASE WaitReturns
  BY <1>3, InvisibleStep DEF WaitReturns, dbVars, Invisible
<1>4. CASE TimeOutStage
  BY <1>4, InvisibleStep DEF TimeOutStage, dbVars, Invisible
<1>5. CASE TakeOutcome
  BY <1>5, InvisibleStep DEF TakeOutcome, dbVars, Invisible
<1>6. CASE ExitComplete
  BY <1>6, InvisibleStep DEF ExitComplete, dbVars, Invisible
<1>7. CASE AbandonInterrupted
  BY <1>7, InvisibleStep DEF AbandonInterrupted, dbVars, Invisible
<1>8. CASE StartFails
  BY <1>8, InvisibleStep DEF StartFails, dbVars, Invisible
<1>9. CASE RecordResultFails
  BY <1>9, InvisibleStep DEF RecordResultFails, dbVars, Invisible
<1>10. CASE CommitFails
  BY <1>10, InvisibleStep DEF CommitFails, dbVars, Invisible
<1>11. CASE FinishFails
  BY <1>11, InvisibleStep DEF FinishFails, dbVars, Invisible
<1>12. CASE SpendBudget
  BY <1>12, InvisibleStep DEF SpendBudget, dbVars, Invisible
<1>13. CASE SoftLimit
  BY <1>13, InvisibleStep DEF SoftLimit, dbVars, Invisible
<1>14. CASE Kill
  BY <1>14, InvisibleStep DEF Kill, dbVars, Invisible
<1>15. CASE Start
  BY <1>15 DEF Start, RunRow!RecordNext, RunRow!Begin, RunRow!Stage, Stage, IInv, RowInv
<1>16. CASE SkipStage
  BY <1>16, MarkSimulates DEF SkipStage, IInv, RowInv
<1>17. CASE RecordResult
  BY <1>17, MarkSimulates DEF RecordResult, IInv, RowInv, StageInv, Engaged
<1>18. CASE RecordFailure
  BY <1>18, MarkSimulates DEF RecordFailure, IInv, RowInv, Engaged
<1>19. CASE CompleteRun
  BY <1>19, StagesAssumption DEF CompleteRun, RunRow!RecordNext, RunRow!Complete, RunRow!Stage, Stage, IInv, RowInv
<1>20. CASE FailRun
  BY <1>20 DEF FailRun, RunRow!RecordNext, RunRow!Fail, RunRow!Stage, Stage, IInv, RowInv
<1>21. CASE Finalize
  <2>1. CASE ReportStage = 0
    BY <1>21, <2>1, InvisibleStep DEF Finalize, Invisible, IInv, TypeOK
  <2>2. CASE ReportStage # 0
    BY <1>21, <2>2 DEF Finalize, RunRow!RecordNext, RunRow!PartialReport, IInv, RowInv
  <2>3. QED
    BY <2>1, <2>2
<1>22. ASSUME NEW w \in Stage, WorkerTouchesRow(w) PROVE [RunRow!RecordNext]_RunRow!recordVars
  BY <1>22, InvisibleStep DEF WorkerTouchesRow, dbVars, Invisible
<1>23. ASSUME NEW w \in Stage, WorkerReturns(w) PROVE [RunRow!RecordNext]_RunRow!recordVars
  BY <1>23, InvisibleStep DEF WorkerReturns, dbVars, Invisible
<1>24. ASSUME NEW w \in Stage, WorkerRaises(w) PROVE [RunRow!RecordNext]_RunRow!recordVars
  BY <1>24, InvisibleStep DEF WorkerRaises, dbVars, Invisible
<1>25. ASSUME NEW w \in Stage, WorkerCannotConnect(w) PROVE [RunRow!RecordNext]_RunRow!recordVars
  BY <1>25, InvisibleStep DEF WorkerCannotConnect, dbVars, Invisible
<1>26. ASSUME NEW w \in Stage, WorkerRollsBack(w) PROVE [RunRow!RecordNext]_RunRow!recordVars
  BY <1>26, InvisibleStep DEF WorkerRollsBack, dbVars, Invisible
<1>27. ASSUME NEW w \in Stage, WorkerCannotRollBack(w) PROVE [RunRow!RecordNext]_RunRow!recordVars
  BY <1>27, InvisibleStep DEF WorkerCannotRollBack, dbVars, Invisible
<1>28. ASSUME NEW w \in Stage, WorkerExits(w) PROVE [RunRow!RecordNext]_RunRow!recordVars
  BY <1>28, InvisibleStep DEF WorkerExits, dbVars, Invisible
<1>29. ASSUME NEW w \in Stage, WorkerSettles(w) PROVE [RunRow!RecordNext]_RunRow!recordVars
  <2>1. CASE abandoned[w]
    BY <1>29, <2>1, InvisibleStep DEF WorkerSettles, IInv, TypeOK, StageInv, Invisible
  <2>2. CASE ~abandoned[w]
    BY <1>29, <2>2, SettleSimulates
  <2>3. QED
    BY <2>1, <2>2
<1>30. CASE UNCHANGED vars
  BY <1>30, InvisibleStep DEF vars, dbVars, Invisible
<1>31. QED
  BY <1>1, <1>2, <1>3, <1>4, <1>5, <1>6, <1>7, <1>8, <1>9, <1>10, <1>11, <1>12, <1>13, <1>14, <1>15, <1>16, <1>17, <1>18, <1>19, <1>20, <1>21, <1>22, <1>23, <1>24, <1>25, <1>26, <1>27, <1>28, <1>29, <1>30 DEF Next, CallerStep, CallerFault, Worker

(* The orchestrator implements the run row it promises.                    *)
THEOREM Refinement == Spec => ImplementsRunRecord
<1>1. Init => RunRow!RecordInit
  BY DEF Init, RunRow!RecordInit, RunRow!Stage, Stage
<1>2. IInv /\ [Next]_vars => [RunRow!RecordNext]_RunRow!recordVars
  BY StepSimulates
<1>3. QED
  BY <1>1, <1>2, Invariance, PTL DEF Spec, ImplementsRunRecord, RunRow!RecordSpec

=============================================================================
