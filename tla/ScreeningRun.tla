---------------------------- MODULE ScreeningRun ----------------------------
(***************************************************************************)
(* One individual-screening run: block_candidates, score_candidates and    *)
(* dispose, driven by the orchestrator, against watchlists and rules that  *)
(* change meanwhile.  Module Orchestrator shows why a stage's transaction  *)
(* lands as one step or not at all; here a stage first reads what it       *)
(* decides on, and lands later.  The run row is read and written back in   *)
(* two steps wherever the code does so.                                    *)
(*                                                                         *)
(* run_sync does not ask whether the run has already been started: the     *)
(* broker may deliver the same task again, and both deliveries then work   *)
(* on the same run row.                                                    *)
(***************************************************************************)
EXTENDS Naturals, Integers, FiniteSets, Sequences

CONSTANTS
  Lists,       \* required_sources()
  Hits,        \* what the subject may meet on a list; a subset of AllHits
  Rules,       \* the rule versions, in order, the first being DEFAULT_RULE
  Deliveries,  \* the deliveries of the run's task message
  MaxChanges   \* bound: changes to the watchlists while the run is alive

Stages == <<"block_candidates", "score_candidates", "dispose">>
StageNames == {Stages[i] : i \in DOMAIN Stages}
Entries == StageNames \cup Lists   \* keys of source_availability

(* How the subject compares with one list record.  Scores are in           *)
(* hundredths, from the weights of DEFAULT_RULE.                           *)
Pair ==
  [ partial        |-> [score |-> 20, named |-> FALSE, full |-> FALSE,
                        corroborated |-> FALSE, conflict |-> FALSE],
    variant        |-> [score |-> 40, named |-> TRUE, full |-> TRUE,
                        corroborated |-> FALSE, conflict |-> FALSE],
    other_birthday |-> [score |-> 5, named |-> TRUE, full |-> TRUE,
                        corroborated |-> FALSE, conflict |-> TRUE],
    same_birthday  |-> [score |-> 80, named |-> TRUE, full |-> TRUE,
                        corroborated |-> TRUE, conflict |-> FALSE],
    same_document  |-> [score |-> 140, named |-> TRUE, full |-> TRUE,
                        corroborated |-> TRUE, conflict |-> FALSE] ]
AllHits == DOMAIN Pair

CommonNamePenalty == 15

ASSUME ScreeningAssumption ==
  /\ IsFiniteSet(Lists) /\ Lists # {} /\ Lists \cap StageNames = {}
  /\ Hits \subseteq AllHits
  /\ Rules \in Seq([clear_below: Nat, match_at: Nat, common: Nat])
  /\ Rules # << >>
  /\ IsFiniteSet(Deliveries)
  /\ MaxChanges \in Nat

VARIABLES
  \* the database
  lists,      \* lists[l]: the latest snapshot of l that has records
  changes,    \* how often lists has changed (bounds the model)
  version,    \* the highest rule version
  status,     \* run.status
  avail,      \* run.source_availability
  ranRule,    \* run.rule_version_id, 0 while NULL
  cands,      \* the run's screening_candidate rows
  decision,   \* the run's screening_decision row, or Undecided
  \* one record per delivery
  pc, cur,    \* where run_sync stands, and in which stage of the loop
  entry,      \* the status it is about to write for that stage
  seen,       \* its copy of source_availability
  work,       \* what the stage's thread is doing, with what it has read
  \* history
  screened    \* what block_candidates saw when it last landed, or NotScreened

runVars  == <<status, avail, ranRule, cands, decision>>
envVars  == <<lists, changes, version>>
taskVars == <<pc, cur, entry, seen>>
vars     == <<envVars, runVars, taskVars, work, screened>>

----------------------------------------------------------------------------
(* Values.                                                                 *)

Snapshot == [loaded: {TRUE}, fresh: BOOLEAN, hit: Hits \cup {"none"}]
NoSnapshot == [loaded |-> FALSE, fresh |-> FALSE, hit |-> "none"]
View == [Lists -> Snapshot \cup {NoSnapshot}]
NotScreened == << >>

Availability == [Entries -> {"absent", "pending", "complete", "unavailable"}]
Version == DOMAIN Rules
Row == [by: Deliveries, list: Lists, hit: Hits]
Disposition == {"CLEAR", "REVIEW", "MATCH"}
Verdict == [disposition: Disposition, auto: BOOLEAN, rule: Version,
            bands: SUBSET Disposition]
Undecided == [disposition |-> "none"]

Idle == [stage |-> "idle"]
Work ==
  {Idle}
    \cup [stage: {"block_candidates"}, view: View, avail: Availability]
    \cup [stage: {"score_candidates"}, rule: Version]
    \cup [stage: {"dispose"}, rule: Version, avail: Availability]
    \cup [stage: {"decided"}, verdict: Verdict]

Pc == {"absent", "loop", "wait", "mark", "write", "closing",
       "finish", "finish_write", "exited"}

TypeOK ==
  /\ lists \in View /\ changes \in 0 .. MaxChanges /\ version \in Version
  /\ status \in {"pending", "running", "complete", "failed"}
  /\ avail \in Availability
  /\ ranRule \in Version \cup {0}
  /\ cands \subseteq Row
  /\ decision \in Verdict \cup {Undecided}
  /\ pc \in [Deliveries -> Pc]
  /\ cur \in [Deliveries -> 1 .. Len(Stages) + 1]
  /\ entry \in [Deliveries -> {"pending", "complete", "unavailable"}]
  /\ seen \in [Deliveries -> Availability]
  /\ work \in [Deliveries -> Work]
  /\ screened \in View \cup {NotScreened}

NothingKnown == [n \in Entries |-> "absent"]

Init ==
  /\ lists \in View /\ changes = 0 /\ version = 1
  /\ status = "pending" /\ avail = NothingKnown /\ ranRule = 0
  /\ cands = {} /\ decision = Undecided
  /\ pc = [t \in Deliveries |-> "absent"]
  /\ cur = [t \in Deliveries |-> 1]
  /\ entry = [t \in Deliveries |-> "pending"]
  /\ seen = [t \in Deliveries |-> NothingKnown]
  /\ work = [t \in Deliveries |-> Idle]
  /\ screened = NotScreened

----------------------------------------------------------------------------
(* The decision, a pure function of the rows, the rule and the coverage.   *)

(* Seeded fault: a conflict lowers the score and nothing stops it.         *)
Band_NoFloor(hit, frequency, rule) ==
  LET p == Pair[hit]
      penalised == frequency >= rule.common /\ ~p.corroborated
      score == p.score - (IF penalised THEN CommonNamePenalty ELSE 0)
  IN  CASE score >= rule.match_at    -> "MATCH"
        [] rule.clear_below <= score /\ score < rule.match_at -> "REVIEW"
        [] OTHER -> "CLEAR"

(* band_with_reason over score_pair, which lowers an uncorroborated match  *)
(* when the name is common.                                                *)
Band(hit, frequency, rule) ==
  LET p == Pair[hit]
      penalised == frequency >= rule.common /\ ~p.corroborated
      score == p.score - (IF penalised THEN CommonNamePenalty ELSE 0)
  IN  CASE score >= rule.match_at    -> "MATCH"
        [] \/ rule.clear_below <= score /\ score < rule.match_at
           \/ score < rule.clear_below /\ p.named /\ p.conflict -> "REVIEW"
        [] OTHER -> "CLEAR"

MostSevere(bands) ==
  CASE "MATCH" \in bands -> "MATCH"
    [] "MATCH" \notin bands /\ "REVIEW" \in bands -> "REVIEW"
    [] OTHER -> "CLEAR"

(* run_reason: guarded auto-CLEAR.  source_status is every entry but the   *)
(* dispose stage's own.                                                    *)
RunReason(bands, availability) ==
  LET worst == MostSevere(bands)
      gap == \E n \in Entries \ {"dispose"} : availability[n] = "unavailable"
  IN  CASE worst # "CLEAR"        -> [disposition |-> worst, auto |-> FALSE]
        [] worst = "CLEAR" /\ gap -> [disposition |-> "REVIEW", auto |-> FALSE]
        [] OTHER                  -> [disposition |-> "CLEAR", auto |-> TRUE]

Frequency(rows) == Cardinality({c \in rows : Pair[c.hit].full})

(* Seeded fault: the bundle's source_status has the stages only.           *)
Decide_StagesOnly(rows, v, availability) ==
  LET bands == {Band(c.hit, Frequency(rows), Rules[v]) : c \in rows}
      reason == RunReason(bands,
        [n \in Entries |-> IF n \in Lists THEN "absent" ELSE availability[n]])
  IN  [disposition |-> reason.disposition, auto |-> reason.auto,
       rule |-> v, bands |-> bands]

(* decide(bundle).                                                         *)
Decide(rows, v, availability) ==
  LET bands == {Band(c.hit, Frequency(rows), Rules[v]) : c \in rows}
      reason == RunReason(bands, availability)
  IN  [disposition |-> reason.disposition, auto |-> reason.auto,
       rule |-> v, bands |-> bands]

(* Seeded fault: a third word for a list that is there but too old.        *)
Coverage_Stale(snapshot) ==
  IF snapshot.loaded
    THEN IF snapshot.fresh THEN "complete" ELSE "stale"
    ELSE "unavailable"

(* list_coverage: loaded, and at most max_list_age_days() old.             *)
Coverage(snapshot) ==
  IF snapshot.loaded /\ snapshot.fresh THEN "complete" ELSE "unavailable"

----------------------------------------------------------------------------
(* run_sync, for delivery t.                                               *)

Goto(t, there) == pc' = [pc EXCEPT ![t] = there]

(* What run_sync no longer needs is forgotten.                             *)
Forget(t) ==
  /\ entry' = [entry EXCEPT ![t] = "pending"]
  /\ seen' = [seen EXCEPT ![t] = NothingKnown]

(* run.status = "running" and a new availability map, whatever the run has *)
(* been through before.                                                    *)
Start(t) ==
  /\ pc[t] = "absent"
  /\ Goto(t, "loop")
  /\ status' = "running"
  /\ avail' = [n \in Entries |-> IF n \in StageNames THEN "pending" ELSE "absent"]
  /\ UNCHANGED <<envVars, ranRule, cands, decision, cur, entry, seen, work, screened>>

ReportEntry(t, e) ==
  /\ Goto(t, "mark")
  /\ entry' = [entry EXCEPT ![t] = e]
  /\ seen' = [seen EXCEPT ![t] = NothingKnown]
  /\ UNCHANGED cur

(* The run budget is spent; dispose is always_run.                         *)
SkipStage(t) ==
  /\ pc[t] = "loop" /\ cur[t] \in DOMAIN Stages
  /\ Stages[cur[t]] # "dispose"
  /\ ReportEntry(t, "unavailable")
  /\ UNCHANGED <<envVars, runVars, work, screened>>

(* Seeded fault: dispose looks up the rule in force, not the run's.        *)
WhatStageReads_CurrentRule(stage) ==
  CASE stage = "block_candidates" ->
         [stage |-> stage, view |-> lists, avail |-> avail]
    [] stage = "score_candidates" -> [stage |-> stage, rule |-> version]
    [] stage = "dispose" -> [stage |-> stage, rule |-> version, avail |-> avail]

(* What a stage reads before it does anything: the current snapshots and   *)
(* the run row; the current rule; or the run row and the rule it names.    *)
WhatStageReads(stage) ==
  CASE stage = "block_candidates" ->
         [stage |-> stage, view |-> lists, avail |-> avail]
    [] stage = "score_candidates" -> [stage |-> stage, rule |-> version]
    [] stage = "dispose" ->
         [stage |-> stage, avail |-> avail,
          rule |-> IF ranRule = 0 THEN version ELSE ranRule]

BeginStage(t) ==
  /\ pc[t] = "loop" /\ cur[t] \in DOMAIN Stages
  /\ Goto(t, "wait")
  /\ work' = [work EXCEPT ![t] = WhatStageReads(Stages[cur[t]])]
  /\ UNCHANGED <<envVars, runVars, cur, entry, seen, screened>>

(* The stage's thread ends; the caller hears of it if it is still waiting. *)
StageEnds(t, e) ==
  /\ work' = [work EXCEPT ![t] = Idle]
  /\ \/ pc[t] = "wait" /\ ReportEntry(t, e)
     \/ pc[t] # "wait" /\ UNCHANGED taskVars

(* The stage raises, or it is abandoned: nothing lands.                    *)
StageLost(t) ==
  /\ work[t] # Idle
  /\ StageEnds(t, "unavailable")
  /\ UNCHANGED <<envVars, runVars, screened>>

(* Seeded fault: a list that was never loaded is passed over.              *)
LandBlock_SkipsUnloaded(t) ==
  /\ work[t].stage = "block_candidates"
  /\ LET view == work[t].view
         old == work[t].avail
         new == [n \in Entries |->
                   IF n \in Lists /\ view[n].loaded THEN Coverage(view[n])
                   ELSE old[n]]
     IN  /\ avail' = IF new = old THEN avail ELSE new
         /\ cands' = cands \cup
              {[by |-> t, list |-> l, hit |-> view[l].hit] :
                 l \in {k \in Lists : view[k].hit # "none"}}
         /\ screened' = view
         /\ StageEnds(t, "complete")
  /\ UNCHANGED <<envVars, status, ranRule, decision>>

(* block_candidates: the coverage of every required list goes into the     *)
(* map it read, and one candidate row per hit.  A map that does not change *)
(* is not written.                                                         *)
LandBlock(t) ==
  /\ work[t].stage = "block_candidates"
  /\ LET view == work[t].view
         old == work[t].avail
         new == [n \in Entries |-> IF n \in Lists THEN Coverage(view[n]) ELSE old[n]]
     IN  /\ avail' = IF new = old THEN avail ELSE new
         /\ cands' = cands \cup
              {[by |-> t, list |-> l, hit |-> view[l].hit] :
                 l \in {k \in Lists : view[k].hit # "none"}}
         /\ screened' = view
         /\ StageEnds(t, IF \E l \in Lists : view[l].loaded
                         THEN "complete" ELSE "unavailable")
  /\ UNCHANGED <<envVars, status, ranRule, decision>>

(* score_candidates: the run names the rule its candidates were scored     *)
(* with.                                                                   *)
LandScore(t) ==
  /\ work[t].stage = "score_candidates"
  /\ ranRule' = work[t].rule
  /\ StageEnds(t, "complete")
  /\ UNCHANGED <<envVars, status, avail, cands, decision, screened>>

(* dispose: read the candidates and decide.                                *)
DisposeDecides(t) ==
  /\ work[t].stage = "dispose"
  /\ work' = [work EXCEPT ![t] =
       [stage |-> "decided",
        verdict |-> Decide(cands, work[t].rule, work[t].avail)]]
  /\ UNCHANGED <<envVars, runVars, taskVars, screened>>

(* Seeded fault: run_id is not unique, the last decision counts.           *)
LandDispose_Overwrites(t) ==
  /\ work[t].stage = "decided"
  /\ decision' = work[t].verdict
  /\ StageEnds(t, "complete")
  /\ UNCHANGED <<envVars, status, avail, ranRule, cands, screened>>

(* dispose: insert the decision; run_id is unique.                         *)
LandDispose(t) ==
  /\ work[t].stage = "decided"
  /\ decision = Undecided
  /\ decision' = work[t].verdict
  /\ StageEnds(t, "complete")
  /\ UNCHANGED <<envVars, status, avail, ranRule, cands, screened>>

(* Seeded fault: the caller trusts the map of its own session (no expire). *)
MarkReads_Stale(t) ==
  /\ pc[t] = "mark"
  /\ Goto(t, "write")
  /\ seen' = [seen EXCEPT ![t] =
       [n \in Entries |-> IF n \in Lists THEN "absent" ELSE avail[n]]]
  /\ UNCHANGED <<envVars, runVars, cur, entry, work, screened>>

(* _update_stage_status: read the map ...                                  *)
MarkReads(t) ==
  /\ pc[t] = "mark"
  /\ Goto(t, "write")
  /\ seen' = [seen EXCEPT ![t] = avail]
  /\ UNCHANGED <<envVars, runVars, cur, entry, work, screened>>

(* ... and write it back with the stage's entry.                           *)
MarkWrites(t) ==
  /\ pc[t] = "write"
  /\ Goto(t, "loop")
  /\ LET name == Stages[cur[t]]
         new == [seen[t] EXCEPT ![name] = entry[t]]
     IN  avail' = IF new = seen[t] THEN avail ELSE new
  /\ cur' = [cur EXCEPT ![t] = @ + 1]
  /\ Forget(t)
  /\ UNCHANGED <<envVars, status, ranRule, cands, decision, work, screened>>

(* Its commit raises: in the loop's try the stage is marked unavailable    *)
(* instead, in the skip or the except clause the run fails.                *)
MarkFails(t) ==
  /\ pc[t] = "write"
  /\ \/ ReportEntry(t, "unavailable")
     \/ entry[t] = "unavailable" /\ Goto(t, "finish") /\ Forget(t) /\ UNCHANGED cur
  /\ UNCHANGED <<envVars, runVars, work, screened>>

Complete(t) ==
  /\ pc[t] = "loop" /\ cur[t] = Len(Stages) + 1
  /\ Goto(t, "closing")
  /\ status' = "complete"
  /\ UNCHANGED <<envVars, avail, ranRule, cands, decision, cur, entry, seen, work, screened>>

(* run_sync returns.                                                       *)
Exit(t) ==
  /\ pc[t] = "closing"
  /\ Goto(t, "exited")
  /\ UNCHANGED <<envVars, runVars, cur, entry, seen, work, screened>>

(* The process dies; its message was acknowledged when it was delivered.   *)
(* Also _finish_failed raising: logged, and the task is over.              *)
Kill(t) ==
  /\ pc[t] \notin {"absent", "exited"}
  /\ Goto(t, "exited")
  /\ work' = [work EXCEPT ![t] = Idle]
  /\ Forget(t)
  /\ UNCHANGED <<envVars, runVars, cur, screened>>

(* SoftTimeLimitExceeded, or the last commit raises.  A stage the caller   *)
(* waits for is abandoned, unless the exception was raised just outside    *)
(* done.wait: then its thread goes on, and may still land.                 *)
Interrupt(t) ==
  /\ pc[t] \in {"loop", "wait", "mark", "write", "closing"}
  /\ Goto(t, "finish")
  /\ work' \in {work, [work EXCEPT ![t] = Idle]}
  /\ Forget(t)
  /\ UNCHANGED <<envVars, runVars, cur, screened>>

(* _finish_failed: read the run row ...                                    *)
FinishReads(t) ==
  /\ pc[t] = "finish"
  /\ Goto(t, "finish_write")
  /\ seen' = [seen EXCEPT ![t] = avail]
  /\ UNCHANGED <<envVars, runVars, cur, entry, work, screened>>

(* ... and write it back, failed, with no stage pending.                   *)
FinishWrites(t) ==
  /\ pc[t] = "finish_write"
  /\ Goto(t, "exited")
  /\ status' = "failed"
  /\ LET new == [n \in Entries |->
                   IF seen[t][n] = "pending" THEN "unavailable" ELSE seen[t][n]]
     IN  avail' = IF new = seen[t] THEN avail ELSE new
  /\ Forget(t)
  /\ UNCHANGED <<envVars, ranRule, cands, decision, cur, work, screened>>

Task(t) ==
  \/ Start(t) \/ SkipStage(t) \/ BeginStage(t)
  \/ StageLost(t) \/ LandBlock(t) \/ LandScore(t)
  \/ DisposeDecides(t) \/ LandDispose(t)
  \/ MarkReads(t) \/ MarkWrites(t) \/ MarkFails(t)
  \/ Complete(t) \/ Exit(t) \/ Kill(t) \/ Interrupt(t)
  \/ FinishReads(t) \/ FinishWrites(t)

----------------------------------------------------------------------------
(* The watchlists and the rules.                                           *)

(* A list is refreshed, with or without a record that meets the subject.   *)
ListChanges(l) ==
  /\ changes < MaxChanges
  /\ changes' = changes + 1
  /\ \E s \in Snapshot : s.fresh /\ lists' = [lists EXCEPT ![l] = s]
  /\ UNCHANGED <<version, runVars, taskVars, work, screened>>

(* A list passes max_list_age_days().                                      *)
ListAges(l) ==
  /\ lists[l].loaded /\ lists[l].fresh
  /\ changes < MaxChanges
  /\ changes' = changes + 1
  /\ lists' = [lists EXCEPT ![l].fresh = FALSE]
  /\ UNCHANGED <<version, runVars, taskVars, work, screened>>

(* new_rule_version.                                                       *)
NewRuleVersion ==
  /\ version + 1 \in Version
  /\ version' = version + 1
  /\ UNCHANGED <<lists, changes, runVars, taskVars, work, screened>>

Next ==
  \/ \E t \in Deliveries : Task(t)
  \/ \E l \in Lists : ListChanges(l) \/ ListAges(l)
  \/ NewRuleVersion

Spec == Init /\ [][Next]_vars

----------------------------------------------------------------------------
(* Properties.                                                             *)

Decided == decision # Undecided

(* The run's task has been delivered at most once.                         *)
Solo == Cardinality({t \in Deliveries : pc[t] # "absent"}) <= 1

(* What a reader of dispose.py would compute by hand from the lists that   *)
(* were blocked against: each record once.                                 *)
ScreenedHits ==
  IF screened = NotScreened THEN {}
  ELSE {l \in Lists : screened[l].hit # "none"}

ScreenedBands ==
  LET n == Cardinality({l \in ScreenedHits : Pair[screened[l].hit].full})
  IN  {Band(screened[l].hit, n, Rules[decision.rule]) : l \in ScreenedHits}

(* A run closes as CLEAR without a human only if every required list was   *)
(* loaded and fresh when the subject was blocked against it, the           *)
(* candidates were scored, and no hit calls for more than CLEAR            *)
(* (dispose.py: "CLEAR closes without a human only when every source       *)
(* answered").                                                             *)
AutoClearSound ==
  Decided /\ decision.auto =>
    /\ screened # NotScreened
    /\ \A l \in Lists : Coverage(screened[l]) = "complete"
    /\ ranRule # 0
    /\ ScreenedBands \subseteq {"CLEAR"}

(* The verdict of a run delivered once is the one its evidence calls for:  *)
(* no hit is lost between the stages, whatever timed out, was interrupted  *)
(* or changed in between.                                                  *)
SoloVerdict ==
  Solo /\ Decided =>
    /\ AutoClearSound
    /\ decision.auto <=> decision.disposition = "CLEAR"
    /\ MostSevere(ScreenedBands) # "CLEAR" =>
         decision.disposition = MostSevere(ScreenedBands)

(* A hit that is corroborated, or that the conflict floor protects, is not *)
(* cleared by the delivery that found it, even when another delivery of    *)
(* the same task has doubled the name's frequency.                         *)
StrongHitNeverCleared ==
  \A t \in Deliveries : \A c \in cands :
    /\ work[t].stage = "decided" /\ c.by = t
    /\ Pair[c.hit].corroborated \/ (Pair[c.hit].named /\ Pair[c.hit].conflict)
    => work[t].verdict.disposition # "CLEAR"

(* A decision, once made, is never changed or withdrawn, even by another   *)
(* delivery of the same task.                                              *)
DecisionIsFinal == [][Decided => decision' = decision]_vars

(* The decision applied the rule version that the stored candidate scores  *)
(* were computed with.                                                     *)
ScoredRuleDecides ==
  Solo /\ Decided /\ ranRule # 0 => decision.rule = ranRule

(* The explanation, which recomputes run_reason from the run row as it is  *)
(* now, agrees with the stored decision (explain.py: "the same             *)
(* source_status the dispose stage saw").                                  *)
ExplanationConsistent ==
  Decided =>
    RunReason(decision.bands, avail) =
      [disposition |-> decision.disposition, auto |-> decision.auto]

SoloExplanationConsistent == Solo => ExplanationConsistent

(* A completed run that blocked its candidates shows for every required    *)
(* list the coverage it had: the caller's write of a stage entry never     *)
(* loses the entries the stage's own session wrote to the same map.        *)
CoverageRecorded ==
  Solo /\ status = "complete" /\ avail["block_candidates"] = "complete" =>
    /\ screened # NotScreened
    /\ \A l \in Lists : avail[l] = Coverage(screened[l])

(* "Runs even when the run budget is spent, so every run gets a decision": *)
(* at least every run that is shown as complete.                           *)
CompleteRunDecided == status = "complete" => Decided

(* _finish_failed: "mark unfinished stages unavailable".                   *)
FailedRunSettled ==
  status = "failed" => \A n \in StageNames : avail[n] # "pending"

=============================================================================
