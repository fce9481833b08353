---------------------------- MODULE Orchestrator ----------------------------
(***************************************************************************)
(* One delivery of a run to a Celery worker: Orchestrator.run_sync driving *)
(* the stages in the task's main thread (the "caller"), each stage         *)
(* executing in a worker thread of _run_stage_isolated on its own session  *)
(* and transaction, the two synchronised by a lock, the flags "abandoned"  *)
(* and "settled", and the event "done".                                    *)
(*                                                                         *)
(* What can go wrong is part of the model: a stage that raises, overruns   *)
(* its budget or never returns; the run budget running out; Celery's soft  *)
(* time limit raising SoftTimeLimitExceeded in the caller between any two  *)
(* of its steps; a commit of the run row failing; the worker process being *)
(* killed.  A "with lock" block is one step: everything it reads and       *)
(* writes is guarded by that lock.  A commit that raises has not landed.   *)
(***************************************************************************)
EXTENDS Integers

CONSTANTS
  NumStages,    \* len(self.stages)
  AlwaysRun,    \* the stages marked always_run
  ReportStage,  \* the stage that writes the Report row; 0 for a screening
                \* run, whose on_failure saves no report either
  RowWriters    \* the stages that update the run's own row (block_candidates
                \* and score_candidates of a screening run; none in KYB)

Stage == 1 .. NumStages

ASSUME StagesAssumption ==
  /\ NumStages \in Nat \ {0}
  /\ AlwaysRun \subseteq Stage
  /\ ReportStage \in Stage \cup {0}
  /\ RowWriters \subseteq Stage

VARIABLES
  \* the database
  status,     \* run.status
  avail,      \* run.source_availability
  landed,     \* landed[s]: stage s's transaction is committed
  report,     \* the Report row exists
  \* the caller (main thread of the task)
  pc,         \* where run_sync stands
  cur,        \* the stage of the loop's current iteration
  budgetOut,  \* time.monotonic() >= deadline
  softHit,    \* the soft time limit was raised (it is raised once)
  \* one worker thread per stage, and what it shares with the caller
  wk,         \* where the thread stands
  abandoned,  \* state["abandoned"]
  settled,    \* state["settled"]
  done,       \* the Event
  outcome,    \* state["result"] or state["error"], as far as the caller looks
  rowLock     \* the stage whose open transaction has updated the run row, or 0

dbVars     == <<status, avail, landed, report>>
callerVars == <<pc, cur, budgetOut, softHit>>
workerVars == <<wk, abandoned, settled, done, outcome, rowLock>>
vars       == <<dbVars, callerVars, workerVars>>

----------------------------------------------------------------------------
(* Program counters and values.                                            *)

CallerPc ==
  { "queued",    \* the task message is delivered, nothing written yet
    "loop",      \* at the head of the for loop
    "starting",  \* in thread.start(), before the try around done.wait
    "wait",      \* in done.wait(timeout_seconds)
    "woken",     \* done.wait returned, the lock not yet taken
    "caught",    \* done.wait raised, the lock not yet taken
    "after",     \* the stage returned a context
    "except",    \* in the loop's "except Exception"
    "closing",   \* "complete" committed, still inside the try
    "finish",    \* in _finish_failed, before its first commit
    "finalize",  \* in _finish_failed, before finalize(run_id, db)
    "exited",    \* run_sync returned or let an exception out
    "killed" }   \* the worker process died

(* Inside the try of run_sync: SoftTimeLimitExceeded raised here reaches   *)
(* _finish_failed.                                                         *)
InTry == {"loop", "starting", "wait", "woken", "after", "except", "closing"}

WorkerPc ==
  { "idle",      \* no thread yet
    "running",   \* in stage.run
    "ready",     \* stage.run returned, the lock not yet taken
    "failing",   \* in the except clause, the lock not yet taken
    "settled",   \* the lock released, done not yet set
    "gone" }     \* the thread ended

(* "ok": a context whose entries are fine.  "outage": one with a new entry *)
(* in _OUTAGE_KINDS.  "soft": StoreReportStage's, when it swallowed the    *)
(* exception that kept it from writing the report.                         *)
Result  == {"ok", "outage", "soft"}
Outcome == Result \cup {"none", "error"}

TypeOK ==
  /\ status    \in {"pending", "running", "complete", "failed"}
  /\ avail     \in [Stage -> {"absent", "pending", "complete", "unavailable"}]
  /\ landed    \in [Stage -> BOOLEAN]
  /\ report    \in BOOLEAN
  /\ pc        \in CallerPc
  /\ cur       \in 1 .. NumStages + 1
  /\ budgetOut \in BOOLEAN
  /\ softHit   \in BOOLEAN
  /\ wk        \in [Stage -> WorkerPc]
  /\ abandoned \in [Stage -> BOOLEAN]
  /\ settled   \in [Stage -> BOOLEAN]
  /\ done      \in [Stage -> BOOLEAN]
  /\ outcome   \in [Stage -> Outcome]
  /\ rowLock   \in Stage \cup {0}

Init ==
  /\ status    = "pending"
  /\ avail     = [s \in Stage |-> "absent"]
  /\ landed    = [s \in Stage |-> FALSE]
  /\ report    = FALSE
  /\ pc        = "queued"
  /\ cur       = 1
  /\ budgetOut = FALSE
  /\ softHit   = FALSE
  /\ wk        = [s \in Stage |-> "idle"]
  /\ abandoned = [s \in Stage |-> FALSE]
  /\ settled   = [s \in Stage |-> FALSE]
  /\ done      = [s \in Stage |-> FALSE]
  /\ outcome   = [s \in Stage |-> "none"]
  /\ rowLock   = 0

----------------------------------------------------------------------------
(* The worker thread of stage s.                                           *)

(* stage.run updates the run row in its transaction, which holds the row's *)
(* lock from then on; another such transaction has to end first.           *)
WorkerTouchesRow(s) ==
  /\ wk[s] = "running" /\ s \in RowWriters
  /\ rowLock = 0
  /\ rowLock' = s
  /\ UNCHANGED <<dbVars, callerVars, wk, abandoned, settled, done, outcome>>

(* The transaction of stage s ends.                                        *)
EndTransaction(s) == rowLock' = IF rowLock = s THEN 0 ELSE rowLock

(* stage.run returns a context and the session's own transaction closes;   *)
(* the enclosing transaction is still open.                                *)
WorkerReturns(s) ==
  /\ wk[s] = "running"
  /\ wk' = [wk EXCEPT ![s] = "ready"]
  /\ \E r \in Result :
       /\ r = "soft" => s = ReportStage
       /\ outcome' = [outcome EXCEPT ![s] = r]
  /\ UNCHANGED <<dbVars, callerVars, abandoned, settled, done, rowLock>>

(* stage.run, sess.commit or trans.commit raises.                          *)
WorkerRaises(s) ==
  /\ wk[s] \in {"running", "ready"}
  /\ wk' = [wk EXCEPT ![s] = "failing"]
  /\ outcome' = [outcome EXCEPT ![s] = "error"]
  /\ UNCHANGED <<dbVars, callerVars, abandoned, settled, done, rowLock>>

(* bind.connect() raises before the worker's try: the thread ends without  *)
(* settling and without setting the event.                                 *)
WorkerCannotConnect(s) ==
  /\ wk[s] = "running" /\ rowLock # s
  /\ wk' = [wk EXCEPT ![s] = "gone"]
  /\ UNCHANGED <<dbVars, callerVars, abandoned, settled, done, outcome, rowLock>>

(* Seeded fault: the worker commits without looking at "abandoned".        *)
WorkerSettles_Unchecked(s) ==
  /\ wk[s] = "ready"
  /\ wk' = [wk EXCEPT ![s] = "settled"]
  /\ settled' = [settled EXCEPT ![s] = TRUE]
  /\ landed' = [landed EXCEPT ![s] = TRUE]
  /\ report' = (report \/ (s = ReportStage /\ outcome[s] = "ok"))
  /\ EndTransaction(s)
  /\ UNCHANGED <<status, avail, callerVars, abandoned, done, outcome>>

(* Under the lock: commit, unless the caller has abandoned the stage.      *)
WorkerSettles(s) ==
  /\ wk[s] = "ready"
  /\ wk' = [wk EXCEPT ![s] = "settled"]
  /\ settled' = [settled EXCEPT ![s] = TRUE]
  /\ landed' = [landed EXCEPT ![s] = ~abandoned[s]]
  /\ report' = (report \/ (s = ReportStage /\ ~abandoned[s] /\ outcome[s] = "ok"))
  /\ EndTransaction(s)
  /\ UNCHANGED <<status, avail, callerVars, abandoned, done, outcome>>

(* The except clause: roll back, then report the error under the lock.     *)
WorkerRollsBack(s) ==
  /\ wk[s] = "failing"
  /\ wk' = [wk EXCEPT ![s] = "settled"]
  /\ settled' = [settled EXCEPT ![s] = TRUE]
  /\ EndTransaction(s)
  /\ UNCHANGED <<dbVars, callerVars, abandoned, done, outcome>>

(* The rollback itself raises: finally still sets the event, but the stage *)
(* is not settled.                                                         *)
WorkerCannotRollBack(s) ==
  /\ wk[s] = "failing"
  /\ wk' = [wk EXCEPT ![s] = "gone"]
  /\ done' = [done EXCEPT ![s] = TRUE]
  /\ EndTransaction(s)
  /\ UNCHANGED <<dbVars, callerVars, abandoned, settled, outcome>>

(* The finally clause.                                                     *)
WorkerExits(s) ==
  /\ wk[s] = "settled"
  /\ wk' = [wk EXCEPT ![s] = "gone"]
  /\ done' = [done EXCEPT ![s] = TRUE]
  /\ UNCHANGED <<dbVars, callerVars, abandoned, settled, outcome, rowLock>>

Worker(s) ==
  \/ WorkerTouchesRow(s)
  \/ WorkerReturns(s) \/ WorkerRaises(s) \/ WorkerCannotConnect(s)
  \/ WorkerSettles(s) \/ WorkerRollsBack(s) \/ WorkerCannotRollBack(s)
  \/ WorkerExits(s)

----------------------------------------------------------------------------
(* The caller: run_sync and the waiting half of _run_stage_isolated.       *)

Goto(there) == pc' = there /\ UNCHANGED <<budgetOut, softHit>>

(* run.status = "running", every stage pending, commit.                    *)
Start ==
  /\ pc = "queued"
  /\ Goto("loop")
  /\ status' = "running"
  /\ avail' = [s \in Stage |-> "pending"]
  /\ UNCHANGED <<landed, report, cur, workerVars>>

(* That commit raises: it is before the try, so the exception leaves the   *)
(* task.                                                                   *)
StartFails ==
  /\ pc = "queued"
  /\ Goto("exited")
  /\ UNCHANGED <<dbVars, cur, workerVars>>

(* An UPDATE of the run row waits for the transaction that has updated it. *)
RowFree == rowLock = 0

(* _update_stage_status(run, db, stage_name, ...), and on to the next      *)
(* stage.                                                                  *)
MarkStage(entry) ==
  /\ RowFree
  /\ avail' = [avail EXCEPT ![cur] = entry]
  /\ cur' = cur + 1
  /\ Goto("loop")
  /\ UNCHANGED <<status, landed, report, workerVars>>

(* Seeded fault: always_run is not looked at.                              *)
OverBudget_Everything(s) == budgetOut

OverBudget(s) == budgetOut /\ s \notin AlwaysRun

(* Seeded fault: an entry outside the vocabulary.                          *)
SkipStage_Skipped ==
  /\ pc = "loop" /\ cur \in Stage
  /\ OverBudget(cur)
  /\ MarkStage("skipped")

(* The run budget is spent: the stage is skipped.                          *)
SkipStage ==
  /\ pc = "loop" /\ cur \in Stage
  /\ OverBudget(cur)
  /\ MarkStage("unavailable")

(* thread.start().                                                         *)
StartStage ==
  /\ pc = "loop" /\ cur \in Stage
  /\ ~OverBudget(cur)
  /\ Goto("starting")
  /\ wk' = [wk EXCEPT ![cur] = "running"]
  /\ UNCHANGED <<dbVars, cur, abandoned, settled, done, outcome, rowLock>>

EnterWait ==
  /\ pc = "starting"
  /\ Goto("wait")
  /\ UNCHANGED <<dbVars, cur, workerVars>>

(* Seeded fault: done.wait() without its timeout.                          *)
WaitReturns_Unbounded ==
  /\ pc = "wait"
  /\ done[cur]
  /\ Goto("woken")
  /\ UNCHANGED <<dbVars, cur, workerVars>>

(* done.wait returns: the event is set, or the stage's budget is over.     *)
WaitReturns ==
  /\ pc = "wait"
  /\ Goto("woken")
  /\ UNCHANGED <<dbVars, cur, workerVars>>

(* Seeded fault: StageTimeout is raised but the stage is not abandoned.    *)
TimeOutStage_NotAbandoned ==
  /\ pc = "woken"
  /\ ~settled[cur]
  /\ Goto("except")
  /\ UNCHANGED <<dbVars, cur, workerVars>>

(* Under the lock: not settled, so the stage is abandoned and StageTimeout *)
(* is raised into the loop's "except Exception".                           *)
TimeOutStage ==
  /\ pc = "woken"
  /\ ~settled[cur]
  /\ abandoned' = [abandoned EXCEPT ![cur] = TRUE]
  /\ Goto("except")
  /\ UNCHANGED <<dbVars, cur, wk, settled, done, outcome, rowLock>>

(* Seeded fault: the worker's exception is not re-raised.                  *)
TakeOutcome_ErrorSwallowed ==
  /\ pc = "woken"
  /\ settled[cur]
  /\ Goto("after")
  /\ UNCHANGED <<dbVars, cur, workerVars>>

(* Seeded fault: a result is taken before the commit has settled.          *)
TakeOutcome_Early ==
  /\ pc = "woken"
  /\ outcome[cur] # "none"
  /\ Goto(IF outcome[cur] = "error" THEN "except" ELSE "after")
  /\ UNCHANGED <<dbVars, cur, workerVars>>

(* Settled: return the stage's context, or re-raise its exception.         *)
TakeOutcome ==
  /\ pc = "woken"
  /\ settled[cur]
  /\ Goto(IF outcome[cur] = "error" THEN "except" ELSE "after")
  /\ UNCHANGED <<dbVars, cur, workerVars>>

(* The stage's status, "unavailable" if _stage_reported_outage.            *)
RecordResult ==
  /\ pc = "after"
  /\ MarkStage(IF outcome[cur] = "outage" THEN "unavailable" ELSE "complete")

(* The commit of that status raises inside the try of the loop's body.     *)
RecordResultFails ==
  /\ pc = "after"
  /\ Goto("except")
  /\ UNCHANGED <<dbVars, cur, workerVars>>

RecordFailure ==
  /\ pc = "except"
  /\ MarkStage("unavailable")

(* The loop is over: run.status = "complete", commit.                      *)
CompleteRun ==
  /\ pc = "loop" /\ cur = NumStages + 1
  /\ RowFree
  /\ Goto("closing")
  /\ status' = "complete"
  /\ UNCHANGED <<avail, landed, report, cur, workerVars>>

ExitComplete ==
  /\ pc = "closing"
  /\ Goto("exited")
  /\ UNCHANGED <<dbVars, cur, workerVars>>

(* A commit outside the body's try raises (the skip's, the except clause's *)
(* or the final one): the outer "except Exception".                        *)
CommitFails ==
  /\ \/ pc = "except"
     \/ pc = "loop" /\ cur = NumStages + 1
     \/ pc = "loop" /\ cur \in Stage /\ OverBudget(cur)
  /\ Goto("finish")
  /\ UNCHANGED <<dbVars, cur, workerVars>>

(* done.wait was interrupted: abandon the stage unless it has settled,     *)
(* then propagate.                                                         *)
AbandonInterrupted ==
  /\ pc = "caught"
  /\ abandoned' = [abandoned EXCEPT ![cur] = ~settled[cur]]
  /\ Goto("finish")
  /\ UNCHANGED <<dbVars, cur, wk, settled, done, outcome, rowLock>>

(* Seeded fault: the open entries stay open.                               *)
FailRun_LeavesPending ==
  /\ pc = "finish"
  /\ RowFree
  /\ Goto("finalize")
  /\ status' = "failed"
  /\ UNCHANGED <<avail, landed, report, cur, workerVars>>

(* _finish_failed: close the open entries and fail the run, commit.        *)
FailRun ==
  /\ pc = "finish"
  /\ RowFree
  /\ Goto("finalize")
  /\ status' = "failed"
  /\ avail' = [s \in Stage |->
                 IF avail[s] = "pending" THEN "unavailable" ELSE avail[s]]
  /\ UNCHANGED <<landed, report, cur, workerVars>>

(* finalize(run_id, db): the partial report.                               *)
Finalize ==
  /\ pc = "finalize"
  /\ Goto("exited")
  /\ report' = (report \/ ReportStage # 0)
  /\ UNCHANGED <<status, avail, landed, cur, workerVars>>

(* Either half of _finish_failed raises: logged and swallowed.             *)
FinishFails ==
  /\ pc \in {"finish", "finalize"}
  /\ Goto("exited")
  /\ UNCHANGED <<dbVars, cur, workerVars>>

(* What the caller does by itself, without any fault.                      *)
CallerStep ==
  \/ Start \/ SkipStage \/ StartStage \/ EnterWait \/ WaitReturns
  \/ TimeOutStage \/ TakeOutcome \/ RecordResult \/ RecordFailure
  \/ CompleteRun \/ ExitComplete \/ AbandonInterrupted \/ FailRun \/ Finalize

CallerFault ==
  StartFails \/ RecordResultFails \/ CommitFails \/ FinishFails

----------------------------------------------------------------------------
(* The environment.                                                        *)

(* The run budget runs out.                                                *)
SpendBudget ==
  /\ pc \notin {"queued", "exited", "killed"}
  /\ ~budgetOut
  /\ budgetOut' = TRUE
  /\ UNCHANGED <<dbVars, pc, cur, softHit, workerVars>>

(* Celery raises SoftTimeLimitExceeded in the main thread.  Only the one   *)
(* raised inside done.wait passes through the clause that abandons.        *)
SoftLimit ==
  /\ pc \in InTry
  /\ ~softHit
  /\ softHit' = TRUE
  /\ pc' = IF pc = "wait" THEN "caught" ELSE "finish"
  /\ UNCHANGED <<dbVars, cur, budgetOut, workerVars>>

(* The hard time limit, or the process dying: every thread ends, and the   *)
(* database rolls open transactions back.  Celery acknowledged the message *)
(* when it delivered it, so nothing restarts the run.                      *)
Kill ==
  /\ pc \notin {"queued", "exited", "killed"}
  /\ pc' = "killed"
  /\ wk' = [s \in Stage |-> IF wk[s] = "idle" THEN "idle" ELSE "gone"]
  /\ rowLock' = 0
  /\ UNCHANGED <<dbVars, cur, budgetOut, softHit, abandoned, settled, done, outcome>>

Next ==
  \/ CallerStep
  \/ CallerFault
  \/ \E s \in Stage : Worker(s)
  \/ SpendBudget
  \/ SoftLimit
  \/ Kill

(* The caller, and a worker thread outside stage.run, are running code     *)
(* whose waits are bounded.  Nothing is assumed of stage.run itself: any   *)
(* stage may hang for ever.                                                *)
Fairness ==
  /\ WF_vars(CallerStep)
  /\ \A s \in Stage :
       WF_vars(WorkerSettles(s) \/ WorkerRollsBack(s) \/ WorkerExits(s))

Spec == Init /\ [][Next]_vars /\ Fairness

----------------------------------------------------------------------------
(* Properties.                                                             *)

(* A stage the report shows as "complete" really has its evidence in the   *)
(* database: the caller's lock-protected check never takes a result for a  *)
(* transaction that was rolled back.                                       *)
CompleteMeansLanded ==
  \A s \in Stage : avail[s] = "complete" => landed[s]

(* A stage the caller gave up on (StageTimeout, or interrupted while it    *)
(* waited) never lands, however late its thread returns.                   *)
AbandonedNeverLands ==
  \A s \in Stage : abandoned[s] => ~landed[s]

(* Stages are serial in the database although their threads overlap: once  *)
(* stage t has been started, no earlier stage can still land, so t reads   *)
(* evidence that no zombie thread will change under it.                    *)
StagesSerial ==
  [][\A s, t \in Stage :
        s < t /\ landed[s] # landed'[s] => wk[t] = "idle"]_vars

(* A run whose row says it is over has no stage left pending: the report   *)
(* never shows a section of a finished run as still coming.                *)
FinishedHasNoPending ==
  status \in {"complete", "failed"} =>
    \A s \in Stage : avail[s] \in {"complete", "unavailable"}

(* A run that completed ran its always_run stages (scoring, store_report), *)
(* whatever happened to its budget.                                        *)
CompleteRanAlwaysRun ==
  status = "complete" => \A s \in AlwaysRun : wk[s] # "idle"

(* The implementation of RunRecord.  The refinement mapping is the identity*)
(* on what the database holds; threads, the clock and the lock are hidden. *)
RunRow == INSTANCE RunRecord
  WITH NumStages <- NumStages, ReportStage <- ReportStage,
       status <- status, avail <- avail, landed <- landed, report <- report
ImplementsRunRecord == RunRow!RecordSpec

(* A hung stage cannot hang the run: the task leaves run_sync unless the   *)
(* process dies.                                                           *)
TaskEnds == (pc # "queued") ~> (pc \in {"exited", "killed"})

(* What is true of every pipeline, with nothing assumed of stage.run: only *)
(* a stage that has updated the run row can hang the run, by keeping its   *)
(* transaction open for ever.  With no such stage (KYB) the task ends.     *)
OnlyRowHoldersHang == TaskEnds \/ <>[](rowLock # 0)

(* A task that leaves run_sync leaves a finished run behind.  Stated by    *)
(* run_sync's docstring ("pending -> running -> complete (or failed if the *)
(* pre/post-amble raises)").                                               *)
ExitMeansFinished ==
  pc = "exited" => status \in {"complete", "failed"}

(* "late writes never land": nothing a stage wrote becomes visible once    *)
(* the caller has stopped waiting for it.                                  *)
LateWritesNeverLand ==
  [][\A s \in Stage :
        landed[s] # landed'[s] =>
          cur = s /\ pc \in {"starting", "wait", "woken", "caught"}]_vars

=============================================================================
