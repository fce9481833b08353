-------------------------- MODULE ScreeningRun_proof --------------------------
(***************************************************************************)
(* Theorems about ScreeningRun, for any required lists, rule versions,     *)
(* hits, deliveries and bounds.                                            *)
(***************************************************************************)
EXTENDS ScreeningRun, FiniteSetTheorems, TLAPS

(* A delivery and the thread of its stage: what the thread does belongs to *)
(* the stage the loop is in, and it outlives the wait for it only after an *)
(* interruption.                                                           *)
InStep(t) ==
  /\ pc[t] = "absent" => work[t] = Idle /\ cur[t] = 1
  /\ pc[t] = "closing" => cur[t] = 4
  /\ pc[t] \in {"wait", "mark", "write"} => cur[t] \in 1 .. 3
  /\ pc[t] \in {"mark", "write"} => entry[t] \in {"complete", "unavailable"}
  /\ pc[t] \in {"absent", "loop", "mark", "write", "closing"} => work[t] = Idle
  /\ work[t].stage = "block_candidates" => cur[t] = 1
  /\ work[t].stage = "score_candidates" => cur[t] = 2
  /\ work[t].stage \in {"dispose", "decided"} => cur[t] = 3

(* The run before its task is delivered.                                   *)
Fresh ==
  /\ status = "pending" /\ avail = NothingKnown /\ ranRule = 0
  /\ cands = {} /\ decision = Undecided /\ screened = NotScreened

(* The rows of one delivery's blocking.                                    *)
RowsOf(t, view) ==
  {[by |-> t, list |-> l, hit |-> view[l].hit] : l \in {k \in Lists : view[k].hit # "none"}}

(* What the run knows of its lists and stages when delivery t has it to    *)
(* itself.  Before block_candidates has landed nothing is known of a list; *)
(* afterwards the availability map says what was screened, whoever wrote   *)
(* to the map since.                                                       *)
Marked(t, stage) == pc[t] \in {"mark", "write"} /\ cur[t] = stage /\ entry[t] = "complete"

Blocked(t) ==
  /\ screened = NotScreened => cands = {}
  /\ screened # NotScreened => cands = RowsOf(t, screened)
  /\ pc[t] = "loop" /\ cur[t] = 1 => screened = NotScreened
  /\ work[t].stage = "block_candidates" =>
       screened = NotScreened /\ \A l \in Lists : work[t].avail[l] = "absent"
  /\ screened = NotScreened => \A l \in Lists : avail[l] = "absent"
  /\ cur[t] >= 2 \/ pc[t] \in {"mark", "write"} =>
       (screened # NotScreened => \A l \in Lists : avail[l] = Coverage(screened[l]))
  /\ Marked(t, 1) => screened # NotScreened
  /\ cur[t] >= 2 => avail["block_candidates"] \in {"complete", "unavailable"}
  /\ cur[t] >= 2 /\ avail["block_candidates"] = "complete" => screened # NotScreened

Scored(t) ==
  /\ Marked(t, 2) => ranRule # 0
  /\ cur[t] >= 3 => avail["score_candidates"] \in {"complete", "unavailable"}
  /\ cur[t] >= 3 /\ avail["score_candidates"] = "complete" => ranRule # 0

(* Nobody writes to the map between a read of it and the write that        *)
(* follows, once block_candidates is over.                                 *)
MapHeld(t) ==
  /\ pc[t] = "write" => seen[t] = avail
  /\ pc[t] = "finish_write" /\ cur[t] >= 2 => seen[t] = avail
  /\ pc[t] = "finish_write" /\ screened = NotScreened => \A l \in Lists : seen[t][l] = "absent"

(* verdict is what the rows, the run's rule and the map call for.          *)
Bands(rows, v) == {Band(c.hit, Frequency(rows), Rules[v]) : c \in rows}

SoundFor(verdict, rule, rows, availability) ==
  /\ verdict \in Verdict
  /\ rule # 0 => verdict.rule = rule
  /\ verdict.bands = Bands(rows, verdict.rule)
  /\ RunReason(verdict.bands, availability) =
       [disposition |-> verdict.disposition, auto |-> verdict.auto]

Sound(verdict) == SoundFor(verdict, ranRule, cands, avail)

Disposed(t) ==
  /\ work[t].stage = "dispose" =>
       /\ \A n \in Entries \ {"dispose"} : work[t].avail[n] = avail[n]
       /\ ranRule # 0 => work[t].rule = ranRule
  /\ work[t].stage = "decided" => Sound(work[t].verdict)
  /\ Decided => cur[t] >= 3 /\ Sound(decision)
  /\ status = "complete" => cur[t] = 4

Alone(t) == pc[t] # "absent" /\ \A u \in Deliveries \ {t} : pc[u] = "absent"

(* A verdict reached but not landed yet: made of all the candidates of its *)
(* own delivery, and perhaps of others.                                    *)
DecidedOn(t) ==
  work[t].stage = "decided" =>
    \E rows \in SUBSET Row, a \in Availability :
      /\ work[t].verdict = Decide(rows, work[t].verdict.rule, a)
      /\ \A c \in cands : c.by = t => c \in rows

InStepInv == \A t \in Deliveries : InStep(t)
FreshInv == (\A t \in Deliveries : pc[t] = "absent") => Fresh
AloneInv ==
  \A t \in Deliveries : Alone(t) => Blocked(t) /\ Scored(t) /\ MapHeld(t) /\ Disposed(t)
DecidedInv == \A t \in Deliveries : DecidedOn(t)

----------------------------------------------------------------------------
(* Types.                                                                  *)

LEMMA WorkKinds ==
  ASSUME NEW w \in Work
  PROVE  /\ w = Idle <=> w.stage = "idle"
         /\ w.stage \in {"idle", "block_candidates", "score_candidates", "dispose", "decided"}
         /\ w.stage = "block_candidates" => w.view \in View /\ w.avail \in Availability
         /\ w.stage = "score_candidates" => w.rule \in Version
         /\ w.stage = "dispose" => w.rule \in Version /\ w.avail \in Availability
         /\ w.stage = "decided" => w.verdict \in Verdict
<1>1. CASE w = Idle
  BY <1>1 DEF Idle
<1>2. CASE w \in [stage: {"block_candidates"}, view: View, avail: Availability]
  BY <1>2 DEF Idle
<1>3. CASE w \in [stage: {"score_candidates"}, rule: Version]
  BY <1>3 DEF Idle
<1>4. CASE w \in [stage: {"dispose"}, rule: Version, avail: Availability]
  BY <1>4 DEF Idle
<1>5. CASE w \in [stage: {"decided"}, verdict: Verdict]
  BY <1>5 DEF Idle
<1> QED
  BY <1>1, <1>2, <1>3, <1>4, <1>5 DEF Work

LEMMA StageList ==
  /\ DOMAIN Stages = 1 .. 3 /\ Len(Stages) = 3
  /\ Stages[1] = "block_candidates" /\ Stages[2] = "score_candidates" /\ Stages[3] = "dispose"
  /\ StageNames = {"block_candidates", "score_candidates", "dispose"}
  /\ Entries = StageNames \cup Lists
<1>1. /\ DOMAIN Stages = 1 .. 3 /\ Len(Stages) = 3
      /\ Stages[1] = "block_candidates" /\ Stages[2] = "score_candidates"
      /\ Stages[3] = "dispose"
  BY DEF Stages
<1>2. 1 .. 3 = {1, 2, 3}
  OBVIOUS
<1> QED
  BY <1>1, <1>2 DEF StageNames, Entries

LEMMA NotScreenedIsNoView == NotScreened \notin View
<1>1. PICK l \in Lists : TRUE
  BY ScreeningAssumption
<1>2. DOMAIN NotScreened = {}
  BY DEF NotScreened
<1> QED
  BY <1>1, <1>2 DEF View

LEMMA RuleNumbers == 1 \in Version /\ Version \subseteq Nat /\ 0 \notin Version
BY ScreeningAssumption DEF Version

LEMMA CoverageType ==
  ASSUME NEW snapshot PROVE Coverage(snapshot) \in {"complete", "unavailable"}
BY DEF Coverage

LEMMA BandType ==
  ASSUME NEW hit, NEW frequency, NEW rule PROVE Band(hit, frequency, rule) \in Disposition
BY DEF Band, Disposition

LEMMA DecideType ==
  ASSUME NEW rows, NEW v \in Version, NEW a PROVE Decide(rows, v, a) \in Verdict
<1> DEFINE bands == {Band(c.hit, Frequency(rows), Rules[v]) : c \in rows}
           reason == RunReason(bands, a)
<1>1. bands \in SUBSET Disposition
  BY BandType
<1>2. reason.disposition \in Disposition /\ reason.auto \in BOOLEAN
  <2> HIDE DEF bands
  <2> QED
    BY DEF RunReason, MostSevere, Disposition
<1>3. Decide(rows, v, a) = [disposition |-> reason.disposition, auto |-> reason.auto,
                            rule |-> v, bands |-> bands]
  BY DEF Decide
<1> HIDE DEF bands, reason
<1> QED
  BY <1>1, <1>2, <1>3 DEF Verdict

LEMMA InitTyped == Init => TypeOK /\ InStepInv /\ FreshInv
<1> SUFFICES ASSUME Init PROVE TypeOK /\ InStepInv /\ FreshInv
  OBVIOUS
<1>1. TypeOK
  <2>1. /\ 0 \in 0 .. MaxChanges /\ 1 \in Version /\ 1 \in 1 .. Len(Stages) + 1
        /\ NothingKnown \in Availability /\ Idle \in Work
    BY ScreeningAssumption, RuleNumbers, StageList DEF NothingKnown, Availability, Work
  <2> QED
    BY <2>1 DEF Init, TypeOK, Pc
<1>2. InStepInv
  BY DEF Init, InStepInv, InStep, Idle
<1>3. FreshInv
  BY DEF Init, FreshInv, Fresh
<1> QED
  BY <1>1, <1>2, <1>3

(* What a stage reads is work.                                             *)
LEMMA ReadsType ==
  ASSUME TypeOK, NEW stage \in StageNames
  PROVE  WhatStageReads(stage) \in Work /\ WhatStageReads(stage).stage = stage
<1>1. CASE stage = "block_candidates"
  BY <1>1 DEF WhatStageReads, Work, TypeOK
<1>2. CASE stage = "score_candidates"
  BY <1>2 DEF WhatStageReads, Work, TypeOK
<1>3. CASE stage = "dispose"
  <2>1. (IF ranRule = 0 THEN version ELSE ranRule) \in Version
    BY DEF TypeOK
  <2> QED
    BY <1>3, <2>1 DEF WhatStageReads, Work, TypeOK
<1> QED
  BY <1>1, <1>2, <1>3, StageList

LEMMA StageEndsType ==
  ASSUME TypeOK, NEW t \in Deliveries, NEW e \in {"complete", "unavailable"}, StageEnds(t, e)
  PROVE  /\ work' \in [Deliveries -> Work] /\ pc' \in [Deliveries -> Pc]
         /\ cur' = cur /\ entry' \in [Deliveries -> {"pending", "complete", "unavailable"}]
         /\ seen' \in [Deliveries -> Availability]
<1>1. Idle \in Work /\ NothingKnown \in Availability
  BY DEF Work, NothingKnown, Availability
<1> QED
  BY <1>1 DEF TypeOK, StageEnds, ReportEntry, Goto, Pc, taskVars

LEMMA TypeStep ==
  ASSUME TypeOK, InStepInv, [Next]_vars
  PROVE  TypeOK'
<1>0. Idle \in Work /\ NothingKnown \in Availability
  BY DEF Work, NothingKnown, Availability
<1>1. ASSUME NEW t \in Deliveries, Start(t) PROVE TypeOK'
  BY <1>1 DEF Start, TypeOK, Goto, Pc, Availability, envVars
<1>2. ASSUME NEW t \in Deliveries, SkipStage(t) PROVE TypeOK'
  BY <1>0, <1>2 DEF SkipStage, ReportEntry, TypeOK, Goto, Pc, envVars, runVars
<1>3. ASSUME NEW t \in Deliveries, BeginStage(t) PROVE TypeOK'
  <2>1. Stages[cur[t]] \in StageNames
    BY <1>3 DEF BeginStage, StageNames
  <2>2. WhatStageReads(Stages[cur[t]]) \in Work
    BY <2>1, ReadsType
  <2> QED
    BY <1>3, <2>2 DEF BeginStage, TypeOK, Goto, Pc, envVars, runVars
<1>4. ASSUME NEW t \in Deliveries, StageLost(t) PROVE TypeOK'
  BY <1>4, StageEndsType DEF StageLost, TypeOK, envVars, runVars
<1>5. ASSUME NEW t \in Deliveries, LandBlock(t) PROVE TypeOK'
  <2>1. work[t].view \in View /\ work[t].avail \in Availability
    BY <1>5, WorkKinds DEF LandBlock, TypeOK
  <2> DEFINE new == [n \in Entries |-> IF n \in Lists THEN Coverage(work[t].view[n])
                                       ELSE work[t].avail[n]]
  <2>2. new \in Availability
    BY <2>1, CoverageType DEF Availability
  <2>3. avail' \in Availability
    BY <1>5, <2>2 DEF LandBlock, TypeOK
  <2>4. cands' \in SUBSET Row
    <3>1. \A l \in Lists : work[t].view[l].hit # "none" => work[t].view[l].hit \in Hits
      <4>1. ASSUME NEW n \in Snapshot \cup {NoSnapshot}, n.hit # "none" PROVE n.hit \in Hits
        <5>1. CASE n \in Snapshot
          BY <4>1, <5>1 DEF Snapshot
        <5>2. CASE n = NoSnapshot
          BY <4>1, <5>2 DEF NoSnapshot
        <5> QED
          BY <4>1, <5>1, <5>2
      <4> QED
        BY <2>1, <4>1 DEF View
    <3> QED
      BY <1>5, <3>1 DEF LandBlock, TypeOK, Row
  <2>5. /\ screened' = work[t].view
        /\ \E e \in {"complete", "unavailable"} : StageEnds(t, e)
    BY <1>5 DEF LandBlock
  <2> QED
    BY <1>5, <2>1, <2>3, <2>4, <2>5, StageEndsType DEF LandBlock, TypeOK, envVars
<1>6. ASSUME NEW t \in Deliveries, LandScore(t) PROVE TypeOK'
  <2>1. work[t].rule \in Version
    BY <1>6, WorkKinds DEF LandScore, TypeOK
  <2> QED
    BY <1>6, <2>1, StageEndsType DEF LandScore, TypeOK, envVars
<1>7. ASSUME NEW t \in Deliveries, DisposeDecides(t) PROVE TypeOK'
  <2>1. work[t].rule \in Version
    BY <1>7, WorkKinds DEF DisposeDecides, TypeOK
  <2>2. [stage |-> "decided", verdict |-> Decide(cands, work[t].rule, work[t].avail)] \in Work
    BY <2>1, DecideType DEF Work
  <2> QED
    BY <1>7, <2>2 DEF DisposeDecides, TypeOK, envVars, runVars, taskVars
<1>8. ASSUME NEW t \in Deliveries, LandDispose(t) PROVE TypeOK'
  <2>1. work[t].verdict \in Verdict
    BY <1>8, WorkKinds DEF LandDispose, TypeOK
  <2> QED
    BY <1>8, <2>1, StageEndsType DEF LandDispose, TypeOK, envVars
<1>9. ASSUME NEW t \in Deliveries, MarkReads(t) \/ FinishReads(t) PROVE TypeOK'
  BY <1>9 DEF MarkReads, FinishReads, TypeOK, Goto, Pc, envVars, runVars
<1>10. ASSUME NEW t \in Deliveries, MarkWrites(t) PROVE TypeOK'
  <2>1. cur[t] \in 1 .. 3 /\ entry[t] \in {"complete", "unavailable"} /\ cur[t] + 1 \in 1 .. Len(Stages) + 1
    BY <1>10, StageList DEF MarkWrites, InStepInv, InStep
  <2>2. seen[t] \in Availability /\ [seen[t] EXCEPT ![Stages[cur[t]]] = entry[t]] \in Availability
    BY <2>1 DEF TypeOK, Availability
  <2>3. avail' \in Availability
    BY <1>10, <2>2 DEF MarkWrites, TypeOK
  <2> QED
    BY <1>0, <1>10, <2>1, <2>3 DEF MarkWrites, Forget, TypeOK, Goto, Pc, envVars
<1>11. ASSUME NEW t \in Deliveries, MarkFails(t) PROVE TypeOK'
  BY <1>0, <1>11 DEF MarkFails, ReportEntry, Forget, TypeOK, Goto, Pc, envVars, runVars
<1>12. ASSUME NEW t \in Deliveries, Complete(t) \/ Exit(t) PROVE TypeOK'
  BY <1>12 DEF Complete, Exit, TypeOK, Goto, Pc, envVars, runVars
<1>13. ASSUME NEW t \in Deliveries, Kill(t) \/ Interrupt(t) PROVE TypeOK'
  <2>1. work' \in [Deliveries -> Work]
    BY <1>0, <1>13 DEF Kill, Interrupt, TypeOK
  <2>2. pc' \in [Deliveries -> Pc]
    BY <1>13 DEF Kill, Interrupt, Goto, Pc, TypeOK
  <2>3. /\ entry' \in [Deliveries -> {"pending", "complete", "unavailable"}]
        /\ seen' \in [Deliveries -> Availability]
    BY <1>0, <1>13 DEF Kill, Interrupt, Forget, TypeOK
  <2>4. UNCHANGED <<envVars, runVars, cur, screened>>
    BY <1>13 DEF Kill, Interrupt
  <2> QED
    BY <2>1, <2>2, <2>3, <2>4 DEF TypeOK, envVars, runVars
<1>14. ASSUME NEW t \in Deliveries, FinishWrites(t) PROVE TypeOK'
  <2> DEFINE new == [n \in Entries |-> IF seen[t][n] = "pending" THEN "unavailable" ELSE seen[t][n]]
  <2>1. seen[t] \in Availability
    BY DEF TypeOK
  <2>2. new \in Availability
    BY <2>1 DEF Availability
  <2>3. avail' \in Availability
    BY <1>14, <2>2 DEF FinishWrites, TypeOK
  <2> QED
    BY <1>0, <1>14, <2>3 DEF FinishWrites, Forget, TypeOK, Goto, Pc, envVars
<1>15. ASSUME NEW l \in Lists, ListChanges(l) \/ ListAges(l) PROVE TypeOK'
  <2>1. lists' \in View /\ changes' \in 0 .. MaxChanges
    <3>1. CASE ListChanges(l)
      BY <3>1, ScreeningAssumption DEF ListChanges, TypeOK, View
    <3>2. CASE ListAges(l)
      <4>1. lists[l] \in Snapshot
        BY <3>2 DEF ListAges, TypeOK, View, NoSnapshot
      <4>2. [lists[l] EXCEPT !.fresh = FALSE] \in Snapshot
        BY <4>1 DEF Snapshot
      <4> QED
        BY <3>2, <4>2, ScreeningAssumption DEF ListAges, TypeOK, View
    <3> QED
      BY <1>15, <3>1, <3>2
  <2> QED
    BY <1>15, <2>1 DEF ListChanges, ListAges, TypeOK, runVars, taskVars
<1>16. CASE NewRuleVersion \/ UNCHANGED vars
  BY <1>16 DEF NewRuleVersion, vars, envVars, runVars, taskVars, TypeOK
<1> QED
  BY <1>1, <1>2, <1>3, <1>4, <1>5, <1>6, <1>7, <1>8, <1>9, <1>10, <1>11, <1>12, <1>13,
     <1>14, <1>15, <1>16 DEF Next, Task

----------------------------------------------------------------------------
(* The loop and its stage.                                                 *)

TaskKept(t) ==
  /\ pc'[t] = pc[t] /\ cur'[t] = cur[t] /\ entry'[t] = entry[t] /\ seen'[t] = seen[t]
  /\ work'[t] = work[t]

LEMMA OthersKept ==
  ASSUME TypeOK, NEW u \in Deliveries, Task(u), NEW t \in Deliveries, t # u
  PROVE  TaskKept(t)
<1> USE DEF TaskKept, TypeOK
<1>1. CASE Start(u) \/ SkipStage(u) \/ BeginStage(u)
  BY <1>1 DEF Start, SkipStage, BeginStage, ReportEntry, Goto
<1>2. ASSUME \E e \in {"complete", "unavailable"} : StageEnds(u, e) PROVE TaskKept(t)
  BY <1>2 DEF StageEnds, ReportEntry, Goto, taskVars
<1>3. CASE StageLost(u) \/ LandBlock(u) \/ LandScore(u) \/ LandDispose(u)
  BY <1>2, <1>3 DEF StageLost, LandBlock, LandScore, LandDispose
<1>4. CASE DisposeDecides(u) \/ MarkReads(u) \/ MarkWrites(u) \/ MarkFails(u)
  BY <1>4 DEF DisposeDecides, MarkReads, MarkWrites, MarkFails, ReportEntry, Forget, Goto, taskVars
<1>5. CASE Complete(u) \/ Exit(u) \/ FinishReads(u) \/ FinishWrites(u)
  BY <1>5 DEF Complete, Exit, FinishReads, FinishWrites, Forget, Goto
<1>6. CASE Kill(u)
  BY <1>6 DEF Kill, Forget, Goto
<1>7. CASE Interrupt(u)
  <2>1. work'[t] = work[t]
    BY <1>7 DEF Interrupt
  <2> QED
    BY <1>7, <2>1 DEF Interrupt, Forget, Goto
<1> QED
  BY <1>1, <1>3, <1>4, <1>5, <1>6, <1>7 DEF Task

LEMMA KeptInStep ==
  ASSUME NEW t \in Deliveries, TaskKept(t), InStep(t) PROVE InStep(t)'
BY DEF TaskKept, InStep

LEMMA StageEndsInStep ==
  ASSUME TypeOK, NEW t \in Deliveries, NEW e \in {"complete", "unavailable"}, StageEnds(t, e),
         InStep(t), work[t] # Idle
  PROVE  InStep(t)'
BY DEF TypeOK, StageEnds, ReportEntry, Goto, taskVars, InStep, Idle

LEMMA OwnInStep ==
  ASSUME TypeOK, NEW t \in Deliveries, Task(t), InStep(t)
  PROVE  InStep(t)'
<1> USE StageList
<1>0. cur[t] \in 1 .. 4 /\ Idle.stage = "idle"
  BY DEF TypeOK, Idle
<1>1. CASE Start(t)
  BY <1>1 DEF Start, Goto, TypeOK, InStep
<1>2. CASE SkipStage(t)
  BY <1>2 DEF SkipStage, ReportEntry, Goto, TypeOK, InStep
<1>3. CASE BeginStage(t)
  <2>1. /\ pc'[t] = "wait" /\ cur'[t] = cur[t] /\ cur[t] \in 1 .. 3
        /\ work'[t].stage = Stages[cur[t]]
    <3>1. Stages[cur[t]] \in StageNames /\ work'[t] = WhatStageReads(Stages[cur[t]])
      BY <1>3 DEF BeginStage, StageNames, TypeOK
    <3> QED
      BY <1>3, <3>1, ReadsType DEF BeginStage, Goto, TypeOK
  <2>2. cur[t] = 1 \/ cur[t] = 2 \/ cur[t] = 3
    BY <2>1
  <2> QED
    BY <2>1, <2>2 DEF InStep
<1>4. CASE StageLost(t) \/ LandBlock(t) \/ LandScore(t) \/ LandDispose(t)
  <2>1. work[t] # Idle
    BY <1>0, <1>4 DEF StageLost, LandBlock, LandScore, LandDispose
  <2>2. \E e \in {"complete", "unavailable"} : StageEnds(t, e)
    BY <1>4 DEF StageLost, LandBlock, LandScore, LandDispose
  <2> QED
    BY <2>1, <2>2, StageEndsInStep
<1>5. CASE DisposeDecides(t)
  <2>1. /\ work[t].stage = "dispose" /\ work'[t].stage = "decided"
        /\ UNCHANGED taskVars
    BY <1>5 DEF DisposeDecides, TypeOK
  <2> QED
    BY <1>0, <2>1 DEF taskVars, InStep
<1>6. CASE MarkReads(t) \/ MarkFails(t)
  BY <1>6 DEF MarkReads, MarkFails, ReportEntry, Forget, Goto, TypeOK, InStep
<1>7. CASE MarkWrites(t)
  <2>1. pc'[t] = "loop" /\ work'[t] = Idle
    BY <1>7 DEF MarkWrites, Goto, TypeOK, InStep
  <2> QED
    BY <1>0, <2>1 DEF InStep
<1>8. CASE Complete(t) \/ Exit(t)
  BY <1>8 DEF Complete, Exit, Goto, TypeOK, InStep
<1>9. CASE FinishReads(t) \/ FinishWrites(t)
  BY <1>9 DEF FinishReads, FinishWrites, Goto, TypeOK, InStep
<1>10. CASE Kill(t)
  <2>1. pc'[t] = "exited" /\ work'[t] = Idle
    BY <1>10 DEF Kill, Goto, TypeOK
  <2> QED
    BY <1>0, <2>1 DEF InStep
<1>11. CASE Interrupt(t)
  <2>1. pc'[t] = "finish" /\ cur'[t] = cur[t] /\ (work'[t] = work[t] \/ work'[t] = Idle)
    BY <1>11 DEF Interrupt, Goto, TypeOK
  <2> QED
    BY <1>0, <2>1 DEF InStep
<1> QED
  BY <1>1, <1>2, <1>3, <1>4, <1>5, <1>6, <1>7, <1>8, <1>9, <1>10, <1>11 DEF Task

LEMMA InStepStep ==
  ASSUME TypeOK, InStepInv, [Next]_vars
  PROVE  InStepInv'
<1>1. ASSUME NEW t \in Deliveries, NEW u \in Deliveries, Task(u) PROVE InStep(t)'
  BY <1>1, OthersKept, KeptInStep, OwnInStep DEF InStepInv
<1>2. ASSUME NEW t \in Deliveries,
             \/ \E l \in Lists : ListChanges(l) \/ ListAges(l)
             \/ NewRuleVersion \/ UNCHANGED vars
      PROVE  InStep(t)'
  <2>1. TaskKept(t)
    BY <1>2 DEF ListChanges, ListAges, NewRuleVersion, vars, taskVars, TaskKept
  <2> QED
    BY <2>1, KeptInStep DEF InStepInv
<1> QED
  BY <1>1, <1>2 DEF Next, InStepInv

----------------------------------------------------------------------------
(* A run that one delivery has to itself.                                  *)

LEMMA MarkWritesMap ==
  ASSUME TypeOK, NEW t \in Deliveries, InStep(t), MapHeld(t), MarkWrites(t)
  PROVE  /\ pc[t] = "write" /\ pc'[t] = "loop" /\ cur'[t] = cur[t] + 1 /\ cur[t] \in 1 .. 3
         /\ entry[t] \in {"complete", "unavailable"} /\ Stages[cur[t]] \in StageNames
         /\ avail' = [avail EXCEPT ![Stages[cur[t]]] = entry[t]]
         /\ work[t] = Idle
         /\ UNCHANGED <<status, ranRule, cands, decision, work, screened>>
<1>1. cur[t] \in 1 .. 3 /\ Stages[cur[t]] \in StageNames
  <2>1. cur[t] = 1 \/ cur[t] = 2 \/ cur[t] = 3
    BY DEF MarkWrites, InStep
  <2> QED
    BY <2>1, StageList
<1> QED
  BY <1>1 DEF MarkWrites, MapHeld, InStep, TypeOK, Goto

LEMMA LandBlockMap ==
  ASSUME TypeOK, NEW t \in Deliveries, InStep(t), Blocked(t), LandBlock(t)
  PROVE  /\ cur[t] = 1 /\ cur'[t] = 1 /\ screened' # NotScreened
         /\ work'[t] = Idle
         /\ pc'[t] \in {"mark", "finish", "finish_write", "exited"}
         /\ pc'[t] # "mark" => pc'[t] = pc[t]
         /\ \A l \in Lists : avail'[l] = Coverage(screened'[l])
         /\ cands' = RowsOf(t, screened')
         /\ UNCHANGED <<status, ranRule, decision>>
<1> DEFINE view == work[t].view
           old == work[t].avail
           new == [n \in Entries |-> IF n \in Lists THEN Coverage(view[n]) ELSE old[n]]
<1>1. /\ work[t].stage = "block_candidates" /\ cur[t] = 1 /\ work[t] # Idle
      /\ view \in View /\ screened' = view
      /\ UNCHANGED <<status, ranRule, decision>>
  BY WorkKinds DEF LandBlock, TypeOK, InStep, Idle
<1>2. /\ screened = NotScreened /\ cands = {}
      /\ \A l \in Lists : old[l] = "absent"
  BY <1>1 DEF Blocked
<1>3. avail' = new
  <2>1. PICK l \in Lists : TRUE
    BY ScreeningAssumption
  <2>2. new[l] # old[l]
    BY <1>2, <2>1, CoverageType DEF Entries
  <2>3. avail' = IF new = old THEN avail ELSE new
    BY DEF LandBlock
  <2> QED
    BY <2>2, <2>3
<1>4. \A l \in Lists : avail'[l] = Coverage(screened'[l])
  BY <1>1, <1>3 DEF Entries
<1>5. cands' = RowsOf(t, screened')
  BY <1>1, <1>2 DEF LandBlock, RowsOf
<1>6. \E e \in {"complete", "unavailable"} : StageEnds(t, e)
  BY DEF LandBlock
<1>7. /\ cur'[t] = 1 /\ work'[t] = Idle
      /\ pc[t] = "wait" => pc'[t] = "mark"
      /\ pc[t] # "wait" => pc'[t] = pc[t]
  BY <1>1, <1>6 DEF StageEnds, ReportEntry, Goto, TypeOK, taskVars
<1>8. pc[t] \in {"wait", "finish", "finish_write", "exited"}
  BY <1>1 DEF InStep, TypeOK, Pc
<1>9. screened' # NotScreened
  BY <1>1, NotScreenedIsNoView
<1> QED
  BY <1>1, <1>4, <1>5, <1>7, <1>8, <1>9

(* Steps that leave the rows, the map and the lists alone.                 *)
LEMMA OwnBlockedQuiet ==
  ASSUME TypeOK, NEW t \in Deliveries, InStep(t), Blocked(t),
         UNCHANGED <<avail, cands, screened>>, cur'[t] = cur[t],
         pc'[t] = "loop" => pc[t] = "loop",
         pc'[t] \in {"mark", "write"} =>
           \/ pc[t] \in {"mark", "write"} /\ (Marked(t, 1)' => Marked(t, 1))
           \/ cur[t] >= 2
           \/ screened = NotScreened /\ entry'[t] = "unavailable",
         work'[t].stage = "block_candidates" =>
           work'[t] = work[t] \/ (pc[t] = "loop" /\ cur[t] = 1 /\ work'[t].avail = avail)
  PROVE  Blocked(t)'
<1>1. cur[t] \in 1 .. 4
  BY StageList DEF TypeOK
<1>2. RowsOf(t, screened)' = RowsOf(t, screened)
  BY DEF RowsOf
<1>3. Marked(t, 1)' => screened # NotScreened
  BY <1>1 DEF Blocked, Marked
<1>4. cur'[t] >= 2 \/ pc'[t] \in {"mark", "write"} =>
        (screened # NotScreened => \A l \in Lists : avail[l] = Coverage(screened[l]))
  BY <1>1 DEF Blocked
<1>5. work'[t].stage = "block_candidates" =>
        screened = NotScreened /\ \A l \in Lists : work'[t].avail[l] = "absent"
  BY DEF Blocked
<1> QED
  BY <1>2, <1>3, <1>4, <1>5 DEF Blocked

LEMMA OwnBlocked ==
  ASSUME TypeOK, NEW t \in Deliveries, Task(t), InStep(t), pc[t] # "absent",
         Blocked(t), MapHeld(t), Scored(t)
  PROVE  Blocked(t)'
<1>0. cur[t] \in 1 .. 4 /\ Idle.stage = "idle" /\ work[t] \in Work
  BY StageList DEF TypeOK, Idle
<1>1. CASE SkipStage(t)
  <2>1. pc[t] = "loop" /\ UNCHANGED <<avail, cands, screened>>
        /\ cur'[t] = cur[t] /\ pc'[t] = "mark" /\ entry'[t] = "unavailable"
        /\ work'[t] = work[t]
    BY <1>1 DEF SkipStage, ReportEntry, Goto, runVars, TypeOK
  <2>2. cur[t] >= 2 \/ screened = NotScreened
    BY <1>0, <2>1 DEF Blocked
  <2> QED
    BY <2>1, <2>2, OwnBlockedQuiet
<1>2. CASE BeginStage(t)
  <2>1. /\ pc[t] = "loop" /\ UNCHANGED <<avail, cands, screened>>
        /\ cur'[t] = cur[t] /\ pc'[t] = "wait"
        /\ cur[t] \in 1 .. 3 /\ work'[t] = WhatStageReads(Stages[cur[t]])
    BY <1>2, StageList DEF BeginStage, Goto, runVars, TypeOK
  <2>2. Stages[cur[t]] = "block_candidates" => cur[t] = 1
    <3>1. cur[t] = 1 \/ cur[t] = 2 \/ cur[t] = 3
      BY <2>1
    <3> QED
      BY <3>1, StageList
  <2>3. work'[t].stage = "block_candidates" => cur[t] = 1 /\ work'[t].avail = avail
    <3>1. Stages[cur[t]] \in StageNames
      BY <2>1, StageList DEF StageNames
    <3>2. work'[t].stage = Stages[cur[t]]
      BY <2>1, <3>1, ReadsType
    <3> QED
      BY <2>1, <2>2, <3>2 DEF WhatStageReads
  <2> QED
    BY <2>1, <2>3, OwnBlockedQuiet
<1>3. CASE StageLost(t)
  <2>1. /\ UNCHANGED <<avail, cands, screened>> /\ cur'[t] = cur[t]
        /\ work'[t] = Idle /\ work[t] # Idle
        /\ pc[t] = "wait" => pc'[t] = "mark" /\ entry'[t] = "unavailable"
        /\ pc[t] # "wait" => pc'[t] = pc[t] /\ entry'[t] = entry[t]
    BY <1>3 DEF StageLost, StageEnds, ReportEntry, Goto, runVars, taskVars, TypeOK
  <2>2. cur[t] = 1 => screened = NotScreened
    BY <1>0, <2>1, WorkKinds DEF InStep, Blocked
  <2> QED
    BY <1>0, <2>1, <2>2, OwnBlockedQuiet DEF Marked
<1>4. CASE LandBlock(t)
  BY <1>0, <1>4, LandBlockMap DEF Blocked, Marked
<1>5. CASE LandScore(t) \/ LandDispose(t)
  <2>1. /\ UNCHANGED <<avail, cands, screened>> /\ cur'[t] = cur[t] /\ cur[t] >= 2
        /\ work'[t] = Idle
        /\ pc[t] = "wait" => pc'[t] = "mark"
        /\ pc[t] # "wait" => pc'[t] = pc[t]
    BY <1>5 DEF LandScore, LandDispose, StageEnds, ReportEntry, Goto, runVars, taskVars,
                TypeOK, InStep
  <2> QED
    BY <1>0, <2>1, OwnBlockedQuiet
<1>6. CASE DisposeDecides(t)
  <2>1. /\ UNCHANGED <<avail, cands, screened>> /\ UNCHANGED taskVars
        /\ cur[t] >= 2 /\ work'[t].stage = "decided"
    BY <1>6 DEF DisposeDecides, runVars, TypeOK, InStep
  <2> QED
    BY <2>1, OwnBlockedQuiet DEF taskVars
<1>7. CASE MarkReads(t) \/ MarkFails(t)
  <2>1. /\ UNCHANGED <<avail, cands, screened, work>> /\ cur'[t] = cur[t]
        /\ pc[t] \in {"mark", "write"} /\ pc'[t] # "loop"
        /\ pc'[t] \in {"mark", "write"} => entry'[t] = entry[t] \/ entry'[t] = "unavailable"
    BY <1>7 DEF MarkReads, MarkFails, ReportEntry, Goto, runVars, TypeOK
  <2> QED
    BY <2>1, OwnBlockedQuiet DEF Marked
<1>8. CASE MarkWrites(t)
  <2>1. PICK name \in StageNames :
          /\ name = Stages[cur[t]] /\ avail' = [avail EXCEPT ![name] = entry[t]]
    BY <1>8, MarkWritesMap
  <2>2. /\ pc[t] = "write" /\ pc'[t] = "loop" /\ cur'[t] = cur[t] + 1 /\ cur[t] \in 1 .. 3
        /\ entry[t] \in {"complete", "unavailable"}
        /\ work'[t] = Idle /\ UNCHANGED <<cands, screened>>
    BY <1>8, MarkWritesMap
  <2>3. \A l \in Lists : avail'[l] = avail[l]
    BY <2>1, ScreeningAssumption DEF TypeOK, Availability, Entries
  <2>4. screened # NotScreened => \A l \in Lists : avail'[l] = Coverage(screened[l])
    BY <2>2, <2>3 DEF Blocked
  <2>5. /\ avail'["block_candidates"] \in {"complete", "unavailable"}
        /\ avail'["block_candidates"] = "complete" => screened # NotScreened
    <3>1. CASE cur[t] = 1
      <4>1. avail'["block_candidates"] = entry[t]
        BY <2>1, <3>1, StageList DEF TypeOK, Availability
      <4> QED
        BY <2>2, <3>1, <4>1 DEF Blocked, Marked
    <3>2. CASE cur[t] # 1
      <4>1. name # "block_candidates" /\ cur[t] >= 2
        BY <2>1, <2>2, <3>2, StageList
      <4>2. avail'["block_candidates"] = avail["block_candidates"]
        BY <2>1, <4>1, StageList DEF TypeOK, Availability
      <4> QED
        BY <4>1, <4>2 DEF Blocked
    <3> QED
      BY <3>1, <3>2
  <2>6. cur'[t] # 1 /\ RowsOf(t, screened)' = RowsOf(t, screened) /\ ~Marked(t, 1)'
    BY <2>2 DEF RowsOf, Marked
  <2> QED
    BY <1>0, <2>2, <2>3, <2>4, <2>5, <2>6 DEF Blocked
<1>9. CASE Complete(t) \/ Exit(t) \/ FinishReads(t)
  <2>1. /\ UNCHANGED <<avail, cands, screened, work>> /\ cur'[t] = cur[t]
        /\ pc'[t] \in {"closing", "exited", "finish_write"}
    BY <1>9 DEF Complete, Exit, FinishReads, Goto, runVars, TypeOK
  <2> QED
    BY <2>1, OwnBlockedQuiet
<1>10. CASE Kill(t) \/ Interrupt(t)
  <2>1. /\ UNCHANGED <<avail, cands, screened>> /\ cur'[t] = cur[t]
        /\ pc'[t] \in {"exited", "finish"}
    BY <1>10 DEF Kill, Interrupt, Goto, runVars, TypeOK
  <2>2. work'[t] = work[t] \/ work'[t] = Idle
    BY <1>10 DEF Kill, Interrupt, TypeOK
  <2> QED
    BY <1>0, <2>1, <2>2, OwnBlockedQuiet
<1>11. CASE FinishWrites(t)
  <2> DEFINE new == [n \in Entries |-> IF seen[t][n] = "pending" THEN "unavailable" ELSE seen[t][n]]
  <2>1. /\ UNCHANGED <<cands, screened, work>> /\ cur'[t] = cur[t]
        /\ pc[t] = "finish_write" /\ pc'[t] = "exited"
        /\ avail' = avail \/ avail' = new
    BY <1>11 DEF FinishWrites, Goto, TypeOK
  <2>2. CASE avail' = avail
    BY <2>1, <2>2, OwnBlockedQuiet
  <2>3. CASE avail' = new
    <3>1. \A n \in Entries : seen[t][n] # "pending" => avail'[n] = seen[t][n]
      BY <2>3
    <3> HIDE DEF new
    <3>2. Lists \subseteq Entries /\ "block_candidates" \in Entries
      BY StageList
    <3>3. screened = NotScreened => \A l \in Lists : avail'[l] = "absent"
      BY <2>1, <3>1, <3>2 DEF MapHeld
    <3>4. ASSUME cur[t] >= 2
          PROVE  /\ avail'["block_candidates"] = avail["block_candidates"]
                 /\ screened # NotScreened => \A l \in Lists : avail'[l] = avail[l]
      <4>1. seen[t] = avail
        BY <2>1, <3>4 DEF MapHeld
      <4>2. avail["block_candidates"] # "pending"
        BY <3>4 DEF Blocked
      <4>3. screened # NotScreened => \A l \in Lists : avail[l] # "pending"
        BY <3>4, CoverageType DEF Blocked
      <4> QED
        BY <3>1, <3>2, <4>1, <4>2, <4>3
    <3>5. RowsOf(t, screened)' = RowsOf(t, screened) /\ ~Marked(t, 1)'
      BY <2>1 DEF RowsOf, Marked
    <3> QED
      BY <1>0, <2>1, <3>3, <3>4, <3>5 DEF Blocked
  <2> QED
    BY <2>1, <2>2, <2>3
<1> QED
  BY <1>1, <1>2, <1>3, <1>4, <1>5, <1>6, <1>7, <1>8, <1>9, <1>10, <1>11 DEF Task, Start

(* Steps that leave the map and the rule alone.                            *)
LEMMA OwnScoredQuiet ==
  ASSUME TypeOK, NEW t \in Deliveries, Scored(t),
         UNCHANGED <<avail, ranRule>>, cur'[t] = cur[t],
         pc'[t] \in {"mark", "write"} =>
           (pc[t] \in {"mark", "write"} /\ entry'[t] = entry[t]) \/ entry'[t] = "unavailable"
           \/ cur[t] # 2
  PROVE  Scored(t)'
BY DEF Scored, Marked

LEMMA OwnScored ==
  ASSUME TypeOK, NEW t \in Deliveries, Task(t), InStep(t), pc[t] # "absent",
         Blocked(t), MapHeld(t), Scored(t)
  PROVE  Scored(t)'
<1>0. cur[t] \in 1 .. 4
  BY StageList DEF TypeOK
<1>1. CASE SkipStage(t) \/ BeginStage(t) \/ MarkReads(t) \/ MarkFails(t) \/ Complete(t)
           \/ Exit(t) \/ FinishReads(t) \/ Kill(t) \/ Interrupt(t)
  <2>1. /\ UNCHANGED <<avail, ranRule>> /\ cur'[t] = cur[t]
        /\ pc'[t] \in {"mark", "write"} =>
             (pc[t] \in {"mark", "write"} /\ entry'[t] = entry[t]) \/ entry'[t] = "unavailable"
    <3>1. CASE SkipStage(t) \/ BeginStage(t) \/ MarkReads(t) \/ MarkFails(t)
      BY <3>1 DEF SkipStage, BeginStage, MarkReads, MarkFails, ReportEntry, Forget,
                  Goto, runVars, TypeOK
    <3>2. CASE Complete(t) \/ Exit(t) \/ FinishReads(t) \/ Kill(t) \/ Interrupt(t)
      BY <3>2 DEF Complete, Exit, FinishReads, Kill, Interrupt, Goto, runVars, TypeOK
    <3> QED
      BY <1>1, <3>1, <3>2
  <2> QED
    BY <2>1, OwnScoredQuiet
<1>2. CASE StageLost(t) \/ LandDispose(t)
  <2>1. /\ UNCHANGED <<avail, ranRule>> /\ cur'[t] = cur[t]
        /\ pc[t] # "wait" => pc'[t] = pc[t] /\ entry'[t] = entry[t]
        /\ pc[t] = "wait" => entry'[t] = "unavailable" \/ cur[t] # 2
    <3>1. CASE StageLost(t)
      BY <3>1 DEF StageLost, StageEnds, ReportEntry, Goto, runVars, taskVars, TypeOK
    <3>2. CASE LandDispose(t)
      <4>1. cur[t] # 2
        BY <3>2 DEF LandDispose, InStep
      <4> QED
        BY <3>2, <4>1 DEF LandDispose, StageEnds, ReportEntry, Goto, taskVars, TypeOK
    <3> QED
      BY <1>2, <3>1, <3>2
  <2> QED
    BY <2>1, OwnScoredQuiet
<1>7. CASE DisposeDecides(t)
  BY <1>7, OwnScoredQuiet DEF DisposeDecides, runVars, taskVars
<1>3. CASE LandBlock(t)
  <2>1. cur'[t] = 1
    BY <1>3, LandBlockMap
  <2> QED
    BY <2>1 DEF Scored, Marked
<1>4. CASE LandScore(t)
  <2>1. ranRule' # 0 /\ cur'[t] = 2
    BY <1>4, WorkKinds, RuleNumbers
       DEF LandScore, StageEnds, ReportEntry, taskVars, TypeOK, InStep
  <2> QED
    BY <2>1 DEF Scored
<1>5. CASE MarkWrites(t)
  <2>1. PICK name \in StageNames :
          /\ name = Stages[cur[t]] /\ avail' = [avail EXCEPT ![name] = entry[t]]
    BY <1>5, MarkWritesMap
  <2>2. /\ pc[t] = "write" /\ pc'[t] = "loop" /\ cur'[t] = cur[t] + 1 /\ cur[t] \in 1 .. 3
        /\ entry[t] \in {"complete", "unavailable"} /\ ranRule' = ranRule
    BY <1>5, MarkWritesMap
  <2>3. CASE cur[t] = 1
    BY <2>2, <2>3 DEF Scored, Marked
  <2>4. CASE cur[t] = 2
    <3>1. avail'["score_candidates"] = entry[t]
      BY <2>1, <2>4, StageList DEF TypeOK, Availability
    <3> QED
      BY <2>2, <2>4, <3>1 DEF Scored, Marked
  <2>5. CASE cur[t] = 3
    <3>1. avail'["score_candidates"] = avail["score_candidates"]
      BY <2>1, <2>5, StageList DEF TypeOK, Availability
    <3> QED
      BY <2>2, <2>5, <3>1 DEF Scored, Marked
  <2> QED
    BY <2>2, <2>3, <2>4, <2>5
<1>6. CASE FinishWrites(t)
  <2>1. /\ ranRule' = ranRule /\ cur'[t] = cur[t] /\ pc[t] = "finish_write" /\ pc'[t] = "exited"
        /\ \A n \in Entries : seen[t][n] # "pending" => avail'[n] = avail[n] \/ avail'[n] = seen[t][n]
    BY <1>6 DEF FinishWrites, Goto, TypeOK
  <2>2. ASSUME cur[t] >= 3 PROVE avail'["score_candidates"] = avail["score_candidates"]
    <3>1. seen[t] = avail
      BY <1>0, <2>1, <2>2 DEF MapHeld
    <3>2. avail["score_candidates"] # "pending" /\ "score_candidates" \in Entries
      BY <2>2, StageList DEF Scored
    <3> QED
      BY <2>1, <3>1, <3>2
  <2> QED
    BY <2>1, <2>2 DEF Scored, Marked
<1> QED
  BY <1>1, <1>2, <1>3, <1>4, <1>5, <1>6, <1>7 DEF Task, Start

LEMMA OwnMapHeld ==
  ASSUME TypeOK, NEW t \in Deliveries, Task(t), InStep(t), pc[t] # "absent",
         Blocked(t), MapHeld(t)
  PROVE  MapHeld(t)'
<1>0. cur[t] \in 1 .. 4
  BY StageList DEF TypeOK
<1>1. CASE SkipStage(t) \/ BeginStage(t) \/ MarkWrites(t) \/ MarkFails(t) \/ Complete(t)
           \/ Exit(t) \/ Kill(t) \/ Interrupt(t) \/ FinishWrites(t)
  <2>1. pc'[t] \notin {"write", "finish_write"}
    BY <1>1 DEF SkipStage, BeginStage, MarkWrites, MarkFails, Complete, Exit, Kill, Interrupt,
                FinishWrites, ReportEntry, Goto, TypeOK
  <2> QED
    BY <2>1 DEF MapHeld
<1>2. CASE MarkReads(t)
  <2>1. pc'[t] = "write" /\ seen'[t] = avail /\ avail' = avail
    BY <1>2 DEF MarkReads, Goto, runVars, TypeOK
  <2> QED
    BY <2>1 DEF MapHeld
<1>3. CASE FinishReads(t)
  <2>1. /\ pc'[t] = "finish_write" /\ seen'[t] = avail /\ avail' = avail
        /\ screened' = screened
    BY <1>3 DEF FinishReads, Goto, runVars, TypeOK
  <2> QED
    BY <2>1 DEF MapHeld, Blocked
<1>4. CASE StageLost(t) \/ LandScore(t) \/ DisposeDecides(t) \/ LandDispose(t)
  <2>1. /\ UNCHANGED <<avail, screened>> /\ cur'[t] = cur[t]
        /\ \/ pc'[t] = pc[t] /\ seen'[t] = seen[t]
           \/ pc'[t] = "mark"
    BY <1>4 DEF StageLost, LandScore, DisposeDecides, LandDispose, StageEnds, ReportEntry,
                Goto, runVars, taskVars, TypeOK
  <2> QED
    BY <2>1 DEF MapHeld
<1>5. CASE LandBlock(t)
  <2>1. cur'[t] = 1 /\ screened' # NotScreened /\ pc'[t] # "write"
    BY <1>5, LandBlockMap
  <2> QED
    BY <2>1 DEF MapHeld
<1> QED
  BY <1>1, <1>2, <1>3, <1>4, <1>5 DEF Task, Start

LEMMA SameReason ==
  ASSUME NEW bands, NEW a, NEW b, \A n \in Entries \ {"dispose"} : a[n] = b[n]
  PROVE  RunReason(bands, a) = RunReason(bands, b)
BY DEF RunReason

LEMMA SoundKept ==
  ASSUME NEW verdict, NEW rule, NEW rows, NEW a, NEW b,
         \A n \in Entries \ {"dispose"} : a[n] = b[n], SoundFor(verdict, rule, rows, a)
  PROVE  SoundFor(verdict, rule, rows, b)
BY SameReason DEF SoundFor

LEMMA DecideSound ==
  ASSUME NEW rows, NEW v \in Version, NEW rule, rule # 0 => v = rule, NEW a
  PROVE  SoundFor(Decide(rows, v, a), rule, rows, a)
<1> DEFINE bands == Bands(rows, v)
           reason == RunReason(bands, a)
<1>1. Decide(rows, v, a) = [disposition |-> reason.disposition, auto |-> reason.auto,
                            rule |-> v, bands |-> bands]
  BY DEF Decide, Bands
<1>2. reason = [disposition |-> reason.disposition, auto |-> reason.auto]
  <2> HIDE DEF bands
  <2> QED
    BY DEF RunReason
<1>3. Decide(rows, v, a) \in Verdict
  BY DecideType
<1> HIDE DEF bands, reason
<1>4. /\ Decide(rows, v, a).rule = v /\ Decide(rows, v, a).bands = bands
      /\ Decide(rows, v, a).disposition = reason.disposition
      /\ Decide(rows, v, a).auto = reason.auto
  BY <1>1
<1> QED
  BY <1>2, <1>3, <1>4 DEF SoundFor, bands, reason

(* From the end of score_candidates on, only the dispose stage's own entry *)
(* of the map changes.                                                     *)
LEMMA AfterScoring ==
  ASSUME TypeOK, NEW t \in Deliveries, Task(t), InStep(t), pc[t] # "absent",
         Blocked(t), Scored(t), MapHeld(t), cur[t] >= 3
  PROVE  /\ UNCHANGED <<cands, ranRule>> /\ cur'[t] >= 3
         /\ cur[t] = 4 => cur'[t] = 4
         /\ \A n \in Entries \ {"dispose"} : avail'[n] = avail[n]
<1>0. cur[t] \in 3 .. 4
  BY StageList DEF TypeOK
<1>1. CASE SkipStage(t) \/ BeginStage(t) \/ MarkReads(t) \/ MarkFails(t) \/ Complete(t)
           \/ Exit(t) \/ FinishReads(t) \/ Kill(t) \/ Interrupt(t) \/ DisposeDecides(t)
           \/ StageLost(t) \/ LandDispose(t)
  <2>1. UNCHANGED <<avail, cands, ranRule>>
    BY <1>1 DEF SkipStage, BeginStage, MarkReads, MarkFails, Complete, Exit, FinishReads,
                Kill, Interrupt, DisposeDecides, StageLost, LandDispose, runVars
  <2>2. cur'[t] = cur[t]
    BY <1>1 DEF SkipStage, BeginStage, MarkReads, MarkFails, Complete, Exit, FinishReads,
                Kill, Interrupt, DisposeDecides, StageLost, LandDispose, StageEnds,
                ReportEntry, taskVars
  <2> QED
    BY <1>0, <2>1, <2>2
<1>2. CASE LandBlock(t) \/ LandScore(t)
  BY <1>0, <1>2 DEF LandBlock, LandScore, InStep
<1>3. CASE MarkWrites(t)
  <2>1. /\ cur[t] = 3 /\ cur'[t] = 4 /\ UNCHANGED <<cands, ranRule>>
        /\ avail' = [avail EXCEPT !["dispose"] = entry[t]]
    BY <1>0, <1>3, MarkWritesMap, StageList
  <2> QED
    BY <2>1 DEF TypeOK, Availability
<1>4. CASE FinishWrites(t)
  <2>1. /\ UNCHANGED <<cands, ranRule>> /\ cur'[t] = cur[t] /\ pc[t] = "finish_write"
        /\ \A n \in Entries : seen[t][n] # "pending" => avail'[n] = avail[n] \/ avail'[n] = seen[t][n]
    BY <1>4 DEF FinishWrites
  <2>2. seen[t] = avail
    BY <1>0, <2>1 DEF MapHeld
  <2>3. \A n \in Entries \ {"dispose"} : avail[n] # "pending"
    <3>1. avail["block_candidates"] # "pending" /\ avail["score_candidates"] # "pending"
      BY <1>0 DEF Blocked, Scored
    <3>2. \A l \in Lists : avail[l] # "pending"
      BY <1>0, CoverageType DEF Blocked
    <3> QED
      BY <3>1, <3>2, StageList
  <2> QED
    BY <1>0, <2>1, <2>2, <2>3
<1> QED
  BY <1>1, <1>2, <1>3, <1>4 DEF Task, Start

LEMMA OwnWork ==
  ASSUME TypeOK, NEW t \in Deliveries, Task(t)
  PROVE  \/ work'[t] = work[t] \/ work'[t] = Idle
         \/ BeginStage(t) \/ DisposeDecides(t)
BY DEF Task, Start, SkipStage, StageLost, LandBlock, LandScore, LandDispose, StageEnds,
       MarkReads, MarkWrites, MarkFails, Complete, Exit, Kill, Interrupt, FinishReads,
       FinishWrites, TypeOK

LEMMA OwnDecision ==
  ASSUME TypeOK, NEW t \in Deliveries, Task(t)
  PROVE  /\ decision' = decision \/ LandDispose(t)
         /\ status' = status \/ Complete(t) \/ status' \in {"running", "failed"}
BY DEF Task, Start, SkipStage, BeginStage, StageLost, LandBlock, LandScore, DisposeDecides,
       MarkReads, MarkWrites, MarkFails, Complete, Exit, Kill, Interrupt, FinishReads,
       FinishWrites, LandDispose, runVars

LEMMA OwnDisposed ==
  ASSUME TypeOK, NEW t \in Deliveries, Task(t), InStep(t), InStep(t)', pc[t] # "absent",
         Blocked(t), Scored(t), MapHeld(t), Disposed(t)
  PROVE  Disposed(t)'
<1>0. cur[t] \in 1 .. 4 /\ Idle.stage = "idle"
  BY StageList DEF TypeOK, Idle
<1>1. ASSUME cur[t] >= 3
      PROVE  /\ UNCHANGED <<cands, ranRule>> /\ cur'[t] >= 3
             /\ cur[t] = 4 => cur'[t] = 4
             /\ \A n \in Entries \ {"dispose"} : avail'[n] = avail[n]
  BY <1>1, AfterScoring
<1>2. ASSUME work'[t].stage = "dispose"
      PROVE  /\ \A n \in Entries \ {"dispose"} : work'[t].avail[n] = avail'[n]
             /\ ranRule' # 0 => work'[t].rule = ranRule'
  <2>1. CASE work'[t] = work[t]
    <3>1. /\ cur[t] >= 3
          /\ \A n \in Entries \ {"dispose"} : work[t].avail[n] = avail[n]
          /\ ranRule # 0 => work[t].rule = ranRule
      BY <1>2, <2>1 DEF Disposed, InStep
    <3>2. /\ ranRule' = ranRule
          /\ \A n \in Entries \ {"dispose"} : avail'[n] = avail[n]
      BY <1>1, <3>1
    <3> QED
      BY <2>1, <3>1, <3>2
  <2>2. CASE BeginStage(t)
    <3>1. /\ Stages[cur[t]] \in StageNames /\ work'[t] = WhatStageReads(Stages[cur[t]])
          /\ UNCHANGED <<avail, ranRule>>
      BY <2>2 DEF BeginStage, runVars, StageNames, TypeOK
    <3>2. work'[t] = WhatStageReads("dispose")
      BY <1>2, <3>1, ReadsType
    <3>3. WhatStageReads("dispose") =
            [stage |-> "dispose", avail |-> avail,
             rule |-> IF ranRule = 0 THEN version ELSE ranRule]
      BY DEF WhatStageReads
    <3>4. /\ work'[t].avail = avail
          /\ work'[t].rule = IF ranRule = 0 THEN version ELSE ranRule
      BY <3>2, <3>3
    <3> QED
      BY <3>1, <3>4
  <2>3. CASE DisposeDecides(t)
    BY <1>2, <2>3 DEF DisposeDecides, TypeOK
  <2> QED
    BY <1>0, <1>2, <2>1, <2>2, <2>3, OwnWork
<1>3. ASSUME work'[t].stage = "decided"
      PROVE  SoundFor(work'[t].verdict, ranRule', cands', avail')
  <2>1. CASE work'[t] = work[t]
    <3>1. cur[t] >= 3 /\ SoundFor(work[t].verdict, ranRule, cands, avail)
      BY <1>3, <2>1 DEF Disposed, InStep, Sound
    <3>2. /\ UNCHANGED <<cands, ranRule>>
          /\ \A n \in Entries \ {"dispose"} : avail[n] = avail'[n]
      BY <1>1, <3>1
    <3>3. SoundFor(work[t].verdict, ranRule, cands, avail')
      BY <3>1, <3>2, SoundKept
    <3> QED
      BY <2>1, <3>2, <3>3
  <2>2. CASE BeginStage(t)
    <3>1. Stages[cur[t]] \in StageNames /\ work'[t] = WhatStageReads(Stages[cur[t]])
      BY <2>2 DEF BeginStage, StageNames, TypeOK
    <3> QED
      BY <1>3, <3>1, ReadsType, StageList
  <2>3. CASE DisposeDecides(t)
    <3>1. /\ work[t].stage = "dispose" /\ UNCHANGED <<cands, ranRule, avail>>
          /\ work'[t].verdict = Decide(cands, work[t].rule, work[t].avail)
      BY <2>3 DEF DisposeDecides, runVars, TypeOK
    <3>2. /\ \A n \in Entries \ {"dispose"} : work[t].avail[n] = avail[n]
          /\ ranRule # 0 => work[t].rule = ranRule
          /\ work[t].rule \in Version
      BY <3>1, WorkKinds DEF Disposed, TypeOK
    <3>3. SoundFor(Decide(cands, work[t].rule, work[t].avail), ranRule, cands, work[t].avail)
      BY <3>2, DecideSound
    <3>4. SoundFor(Decide(cands, work[t].rule, work[t].avail), ranRule, cands, avail)
      BY <3>2, <3>3, SoundKept
    <3> QED
      BY <3>1, <3>4
  <2> QED
    BY <1>0, <1>3, <2>1, <2>2, <2>3, OwnWork
<1>4. ASSUME decision' # Undecided
      PROVE  cur'[t] >= 3 /\ SoundFor(decision', ranRule', cands', avail')
  <2>1. CASE decision' = decision
    <3>1. cur[t] >= 3 /\ SoundFor(decision, ranRule, cands, avail)
      BY <1>4, <2>1 DEF Disposed, Decided, Sound
    <3>2. /\ UNCHANGED <<cands, ranRule>> /\ cur'[t] >= 3
          /\ \A n \in Entries \ {"dispose"} : avail[n] = avail'[n]
      BY <1>1, <3>1
    <3>3. SoundFor(decision, ranRule, cands, avail')
      BY <3>1, <3>2, SoundKept
    <3> QED
      BY <2>1, <3>2, <3>3
  <2>2. CASE LandDispose(t)
    <3>1. /\ work[t].stage = "decided" /\ decision' = work[t].verdict
          /\ UNCHANGED <<cands, ranRule, avail>>
      BY <2>2 DEF LandDispose
    <3>2. cur[t] >= 3 /\ SoundFor(work[t].verdict, ranRule, cands, avail)
      BY <3>1 DEF Disposed, InStep, Sound
    <3> QED
      BY <1>1, <3>1, <3>2
  <2> QED
    BY <2>1, <2>2, OwnDecision
<1>5. ASSUME status' = "complete" PROVE cur'[t] = 4
  <2>1. CASE status' = status
    <3>1. cur[t] = 4
      BY <1>5, <2>1 DEF Disposed
    <3> QED
      BY <1>1, <3>1
  <2>2. CASE Complete(t)
    BY <2>2, StageList DEF Complete
  <2> QED
    BY <1>5, <2>1, <2>2, OwnDecision
<1> QED
  BY <1>2, <1>3, <1>4, <1>5 DEF Disposed, Decided, Sound

LEMMA AbsentStarts ==
  ASSUME TypeOK, NEW t \in Deliveries, InStep(t), Task(t), pc[t] = "absent"
  PROVE  Start(t)
<1>1. work[t].stage = "idle" /\ work[t] = Idle
  BY DEF InStep, Idle
<1> QED
  BY <1>1 DEF Task, SkipStage, BeginStage, StageLost, LandBlock, LandScore, DisposeDecides,
              LandDispose, MarkReads, MarkWrites, MarkFails, Complete, Exit, Kill, Interrupt,
              FinishReads, FinishWrites

LEMMA NeverAbsentAgain ==
  ASSUME TypeOK, NEW t \in Deliveries, InStep(t), Task(t)
  PROVE  pc'[t] # "absent"
<1>1. CASE Start(t)
  BY <1>1 DEF Start, Goto, TypeOK
<1>2. CASE ~Start(t)
  <2>1. pc[t] # "absent"
    BY <1>2, AbsentStarts
  <2>2. pc'[t] = pc[t] \/ pc'[t] \in Pc \ {"absent"}
    BY <1>2 DEF Task, SkipStage, BeginStage, StageLost, LandBlock, LandScore,
                DisposeDecides, LandDispose, MarkReads, MarkWrites, MarkFails, Complete, Exit,
                Kill, Interrupt, FinishReads, FinishWrites, StageEnds, ReportEntry, Goto,
                taskVars, Pc, TypeOK
  <2> QED
    BY <2>1, <2>2
<1> QED
  BY <1>1, <1>2

AloneFacts(t) == Blocked(t) /\ Scored(t) /\ MapHeld(t) /\ Disposed(t)

LEMMA StartAlone ==
  ASSUME TypeOK, NEW t \in Deliveries, InStep(t), Start(t), Fresh
  PROVE  AloneFacts(t)'
<1>1. /\ pc[t] = "absent" /\ cur[t] = 1 /\ work[t] = Idle
      /\ screened = NotScreened /\ cands = {} /\ decision = Undecided
  BY DEF Start, InStep, Fresh
<1>2. /\ pc'[t] = "loop" /\ cur'[t] = 1 /\ work'[t] = Idle
      /\ UNCHANGED <<screened, cands, decision, ranRule>> /\ status' = "running"
      /\ avail' = [n \in Entries |-> IF n \in StageNames THEN "pending" ELSE "absent"]
  BY <1>1 DEF Start, Goto, TypeOK
<1>3. \A l \in Lists : avail'[l] = "absent"
  BY <1>2, StageList, ScreeningAssumption
<1>4. Blocked(t)'
  BY <1>1, <1>2, <1>3 DEF Blocked, Marked, Idle
<1>5. Scored(t)' /\ MapHeld(t)'
  BY <1>2 DEF Scored, Marked, MapHeld
<1>6. Disposed(t)'
  BY <1>1, <1>2 DEF Disposed, Decided, Idle
<1> QED
  BY <1>4, <1>5, <1>6 DEF AloneFacts

LEMMA KeptAlone ==
  ASSUME NEW t \in Deliveries, TaskKept(t), UNCHANGED <<runVars, screened>>, AloneFacts(t)
  PROVE  AloneFacts(t)'
<1>1. Blocked(t)'
  BY DEF TaskKept, runVars, AloneFacts, Blocked, Marked, RowsOf
<1>2. Scored(t)' /\ MapHeld(t)'
  BY DEF TaskKept, runVars, AloneFacts, Scored, Marked, MapHeld
<1>3. Disposed(t)'
  BY DEF TaskKept, runVars, AloneFacts, Disposed, Decided, Sound
<1> QED
  BY <1>1, <1>2, <1>3 DEF AloneFacts

(* The watchlists and the rules leave the run alone.                       *)
LEMMA EnvKeeps ==
  ASSUME \/ \E l \in Lists : ListChanges(l) \/ ListAges(l)
         \/ NewRuleVersion \/ UNCHANGED vars,
         NEW t \in Deliveries
  PROVE  TaskKept(t) /\ UNCHANGED <<runVars, screened>>
BY DEF ListChanges, ListAges, NewRuleVersion, vars, taskVars, TaskKept

LEMMA AloneStep ==
  ASSUME TypeOK, InStepInv, InStepInv', FreshInv, AloneInv, [Next]_vars
  PROVE  FreshInv' /\ AloneInv'
<1>1. ASSUME NEW u \in Deliveries, Task(u) PROVE FreshInv' /\ AloneInv'
  <2>1. pc'[u] # "absent"
    BY <1>1, NeverAbsentAgain DEF InStepInv
  <2>2. ASSUME NEW t \in Deliveries, Alone(t)' PROVE AloneFacts(t)'
    <3>1. t = u
      BY <2>1, <2>2 DEF Alone
    <3>2. \A v \in Deliveries \ {t} : pc[v] = "absent"
      BY <1>1, <2>2, <3>1, OthersKept DEF Alone, TaskKept
    <3>3. CASE pc[t] = "absent"
      <4>1. Fresh /\ Start(t)
        BY <1>1, <3>1, <3>2, <3>3, AbsentStarts DEF FreshInv, InStepInv
      <4> QED
        BY <4>1, StartAlone DEF InStepInv
    <3>4. CASE pc[t] # "absent"
      <4>1. Blocked(t) /\ Scored(t) /\ MapHeld(t) /\ Disposed(t)
        BY <3>2, <3>4 DEF AloneInv, Alone
      <4>2. InStep(t) /\ InStep(t)'
        BY DEF InStepInv
      <4>3. Blocked(t)' /\ Scored(t)'
        BY <1>1, <3>1, <3>4, <4>1, <4>2, OwnBlocked, OwnScored
      <4>4. MapHeld(t)' /\ Disposed(t)'
        BY <1>1, <3>1, <3>4, <4>1, <4>2, OwnMapHeld, OwnDisposed
      <4> QED
        BY <4>3, <4>4 DEF AloneFacts
    <3> QED
      BY <3>3, <3>4
  <2> QED
    BY <2>1, <2>2 DEF FreshInv, AloneInv, AloneFacts
<1>2. ASSUME \/ \E l \in Lists : ListChanges(l) \/ ListAges(l)
             \/ NewRuleVersion \/ UNCHANGED vars
      PROVE  FreshInv' /\ AloneInv'
  <2>1. \A t \in Deliveries : TaskKept(t)
    BY <1>2, EnvKeeps
  <2>2. UNCHANGED <<runVars, screened>>
    BY <1>2 DEF ListChanges, ListAges, NewRuleVersion, vars
  <2>3. \A t \in Deliveries : pc'[t] = pc[t]
    BY <2>1 DEF TaskKept
  <2>4. FreshInv'
    BY <2>2, <2>3 DEF FreshInv, Fresh, runVars
  <2>5. ASSUME NEW t \in Deliveries, Alone(t)' PROVE AloneFacts(t)'
    <3>1. Alone(t)
      BY <2>3, <2>5 DEF Alone
    <3>2. AloneFacts(t)
      BY <3>1 DEF AloneInv, AloneFacts
    <3> QED
      BY <2>1, <2>2, <3>2, KeptAlone
  <2> QED
    BY <2>4, <2>5 DEF AloneInv, AloneFacts
<1> QED
  BY <1>1, <1>2 DEF Next

----------------------------------------------------------------------------
(* Verdicts, whoever else is at work on the run.                           *)

LEMMA DecidedOnStep ==
  ASSUME TypeOK, InStepInv, DecidedInv, [Next]_vars
  PROVE  DecidedInv'
<1>1. ASSUME NEW t \in Deliveries, cands' = cands, work'[t] = work[t]
      PROVE  DecidedOn(t)'
  BY <1>1 DEF DecidedInv, DecidedOn
<1>2. ASSUME NEW u \in Deliveries, Task(u), NEW t \in Deliveries, t # u
      PROVE  DecidedOn(t)'
  <2>1. work'[t] = work[t]
    BY <1>2, OthersKept DEF TaskKept
  <2>2. \A c \in cands' : c.by = t => c \in cands
    <3>1. CASE LandBlock(u)
      <4>1. \A c \in cands' : c \in cands \/ c.by = u
        BY <3>1 DEF LandBlock
      <4> QED
        BY <1>2, <4>1
    <3>2. CASE ~LandBlock(u)
      <4>1. cands' = cands
        BY <1>2, <3>2 DEF Task, Start, SkipStage, BeginStage, StageLost, LandScore,
             DisposeDecides, LandDispose, MarkReads, MarkWrites, MarkFails, Complete, Exit,
             Kill, Interrupt, FinishReads, FinishWrites, runVars
      <4> QED
        BY <4>1
    <3> QED
      BY <3>1, <3>2
  <2> QED
    BY <2>1, <2>2 DEF DecidedInv, DecidedOn
<1>3. ASSUME NEW t \in Deliveries, Task(t) PROVE DecidedOn(t)'
  <2>1. CASE work'[t] = Idle
    BY <2>1 DEF DecidedOn, Idle
  <2>2. CASE BeginStage(t)
    <3>1. Stages[cur[t]] \in StageNames /\ work'[t] = WhatStageReads(Stages[cur[t]])
      BY <2>2 DEF BeginStage, StageNames, TypeOK
    <3>2. work'[t].stage # "decided"
      BY <3>1, ReadsType, StageList
    <3> QED
      BY <3>2 DEF DecidedOn
  <2>3. CASE DisposeDecides(t)
    <3>1. /\ work[t].stage = "dispose" /\ cands' = cands
          /\ work'[t].verdict = Decide(cands, work[t].rule, work[t].avail)
      BY <2>3 DEF DisposeDecides, runVars, TypeOK
    <3>2. cands \in SUBSET Row /\ work[t].avail \in Availability
      BY <3>1, WorkKinds DEF TypeOK
    <3>3. work'[t].verdict.rule = work[t].rule
      BY <3>1 DEF Decide
    <3> QED
      BY <3>1, <3>2, <3>3 DEF DecidedOn
  <2>4. CASE work'[t] = work[t] /\ work[t] # Idle /\ ~LandBlock(t)
    <3>1. cands' = cands
      BY <1>3, <2>4 DEF Task, Start, SkipStage, BeginStage, StageLost, LandScore,
           DisposeDecides, LandDispose, MarkReads, MarkWrites, MarkFails, Complete, Exit,
           Kill, Interrupt, FinishReads, FinishWrites, runVars
    <3> QED
      BY <1>1, <2>4, <3>1
  <2>5. CASE LandBlock(t)
    <3>1. work'[t] = Idle
      BY <2>5 DEF LandBlock, StageEnds, TypeOK
    <3> QED
      BY <2>1, <3>1
  <2> QED
    BY <1>3, <2>1, <2>2, <2>3, <2>4, <2>5, OwnWork
<1>4. ASSUME \/ \E l \in Lists : ListChanges(l) \/ ListAges(l)
             \/ NewRuleVersion \/ UNCHANGED vars,
             NEW t \in Deliveries
      PROVE  DecidedOn(t)'
  <2>1. TaskKept(t) /\ cands' = cands
    BY <1>4, EnvKeeps DEF runVars
  <2> QED
    BY <1>1, <2>1 DEF TaskKept
<1> QED
  BY <1>2, <1>3, <1>4 DEF Next, DecidedInv

(* A hit the conflict floor protects never bands as CLEAR, whatever the    *)
(* rule; a corroborated one does not either, unless the rule clears scores *)
(* that a birthday or a document on its own reaches.                       *)
LEMMA StrongHitBands ==
  ASSUME NEW hit \in AllHits, NEW frequency, NEW rule \in [clear_below: Nat, match_at: Nat, common: Nat],
         \/ Pair[hit].named /\ Pair[hit].conflict
         \/ Pair[hit].corroborated /\ rule.clear_below <= 80
  PROVE  Band(hit, frequency, rule) # "CLEAR"
<1> DEFINE p == Pair[hit]
           penalised == frequency >= rule.common /\ ~p.corroborated
           score == p.score - (IF penalised THEN CommonNamePenalty ELSE 0)
<1>1. AllHits = {"partial", "variant", "other_birthday", "same_birthday", "same_document"}
  BY DEF AllHits, Pair
<1>2. /\ score \in Int /\ rule.clear_below \in Nat /\ rule.match_at \in Nat
      /\ p.corroborated => score >= 80
  BY <1>1 DEF Pair, CommonNamePenalty
<1>3. Band(hit, frequency, rule) =
        CASE score >= rule.match_at -> "MATCH"
          [] \/ rule.clear_below <= score /\ score < rule.match_at
             \/ score < rule.clear_below /\ p.named /\ p.conflict -> "REVIEW"
          [] OTHER -> "CLEAR"
  BY DEF Band
<1> HIDE DEF score
<1>4. CASE score >= rule.match_at
  BY <1>2, <1>3, <1>4
<1>5. CASE score < rule.match_at
  BY <1>2, <1>3, <1>5
<1> QED
  BY <1>2, <1>4, <1>5

----------------------------------------------------------------------------
(* The inductive invariant.                                                *)

IInv == TypeOK /\ InStepInv /\ FreshInv /\ AloneInv /\ DecidedInv

LEMMA InitIInv == Init => IInv
<1> SUFFICES ASSUME Init PROVE IInv
  OBVIOUS
<1>1. AloneInv /\ DecidedInv
  BY DEF Init, AloneInv, Alone, DecidedInv, DecidedOn, Idle
<1> QED
  BY <1>1, InitTyped DEF IInv

LEMMA IInvStep == IInv /\ [Next]_vars => IInv'
BY TypeStep, InStepStep, AloneStep, DecidedOnStep DEF IInv

LEMMA SoloCases ==
  ASSUME Solo
  PROVE  (\A t \in Deliveries : pc[t] = "absent") \/ (\E t \in Deliveries : Alone(t))
<1> DEFINE started == {t \in Deliveries : pc[t] # "absent"}
<1>1. ASSUME NEW t \in started, NEW u \in started, t # u PROVE FALSE
  <2>1. IsFiniteSet(started) /\ {t, u} \in SUBSET started
    BY ScreeningAssumption, FS_Subset
  <2>2. IsFiniteSet({t}) /\ Cardinality({t}) = 1
    BY FS_Singleton
  <2>3. Cardinality({t} \cup {u}) = 2
    BY <1>1, <2>2, FS_AddElement
  <2>4. {t} \cup {u} = {t, u}
    OBVIOUS
  <2>5. Cardinality({t, u}) <= Cardinality(started) /\ Cardinality(started) \in Nat
    BY <2>1, FS_Subset, FS_CardinalityType
  <2>6. Cardinality(started) <= 1
    BY DEF Solo
  <2> QED
    BY <2>3, <2>4, <2>5, <2>6
<1> QED
  BY <1>1 DEF Alone

(* One row per list that was hit: the name is as common among the rows as  *)
(* among the lists.                                                        *)
LEMMA SameFrequency ==
  ASSUME NEW t, NEW view
  PROVE  Frequency(RowsOf(t, view)) =
           Cardinality({l \in {k \in Lists : view[k].hit # "none"} : Pair[view[l].hit].full})
<1> DEFINE full == {l \in {k \in Lists : view[k].hit # "none"} : Pair[view[l].hit].full}
           rows == {c \in RowsOf(t, view) : Pair[c.hit].full}
           row == [l \in full |-> [by |-> t, list |-> l, hit |-> view[l].hit]]
<1>1. IsFiniteSet(full)
  BY ScreeningAssumption, FS_Subset
<1>2. row \in [full -> rows]
  BY DEF RowsOf
<1>3. \A l, k \in full : row[l] = row[k] => l = k
  <2> SUFFICES ASSUME NEW l \in full, NEW k \in full, row[l] = row[k] PROVE l = k
    OBVIOUS
  <2>1. row[l].list = l /\ row[k].list = k
    OBVIOUS
  <2> QED
    BY <2>1
<1>4. \A c \in rows : \E l \in full : row[l] = c
  BY DEF RowsOf
<1>5. row \in Bijection(full, rows)
  <2> HIDE DEF row, full, rows
  <2> QED
    BY <1>2, <1>3, <1>4 DEF Bijection, Injection, IsInjective, Surjection
<1>6. Cardinality(rows) = Cardinality(full)
  <2> HIDE DEF row, full, rows
  <2> QED
    BY <1>1, <1>5, FS_Bijection DEF ExistsBijection
<1> QED
  BY <1>6 DEF Frequency

LEMMA AloneBands ==
  ASSUME TypeOK, NEW t \in Deliveries, Blocked(t), Sound(decision)
  PROVE  ScreenedBands = decision.bands
<1>1. CASE screened = NotScreened
  BY <1>1 DEF Blocked, Sound, SoundFor, Bands, ScreenedBands, ScreenedHits
<1>2. CASE screened # NotScreened
  <2> DEFINE rule == Rules[decision.rule]
             n == Cardinality({l \in ScreenedHits : Pair[screened[l].hit].full})
  <2>1. cands = RowsOf(t, screened) /\ ScreenedHits = {k \in Lists : screened[k].hit # "none"}
    BY <1>2 DEF Blocked, ScreenedHits
  <2>2. Frequency(cands) = n
    BY <2>1, SameFrequency
  <2> HIDE DEF n
  <2>3. decision.bands = {Band(c.hit, n, rule) : c \in cands}
    BY <2>2 DEF Sound, SoundFor, Bands
  <2>4. \A c \in cands : \E l \in ScreenedHits : c.hit = screened[l].hit
    BY <2>1 DEF RowsOf
  <2>5. ASSUME NEW l \in ScreenedHits PROVE \E c \in cands : c.hit = screened[l].hit
    <3> DEFINE c == [by |-> t, list |-> l, hit |-> screened[l].hit]
    <3>1. c \in cands /\ c.hit = screened[l].hit
      BY <2>1 DEF RowsOf
    <3> QED
      BY <3>1
  <2>6. ScreenedBands = {Band(screened[l].hit, n, rule) : l \in ScreenedHits}
    BY DEF ScreenedBands, n
  <2> HIDE DEF rule
  <2> QED
    BY <2>3, <2>4, <2>5, <2>6
<1> QED
  BY <1>1, <1>2

----------------------------------------------------------------------------

(* A delivery's place, its stage's work and the rows keep their types,     *)
(* however often the task is delivered (orchestrator.py, stages.py).       *)
THEOREM TypeCorrect == Spec => []TypeOK
<1>1. IInv => TypeOK
  BY DEF IInv
<1> QED
  BY <1>1, InitIInv, IInvStep, PTL DEF Spec

(* However often the task is delivered, the first decision stands: run_id  *)
(* is unique in screening_decision, and nothing else writes the row.       *)
THEOREM DecisionStands == Spec => DecisionIsFinal
<1>1. [Next]_vars => [Decided => decision' = decision]_vars
  <2> SUFFICES ASSUME [Next]_vars, Decided PROVE decision' = decision
    OBVIOUS
  <2>1. ASSUME NEW t \in Deliveries, Task(t) PROVE decision' = decision
    <3>1. ~LandDispose(t)
      BY DEF LandDispose, Decided
    <3> QED
      BY <2>1, <3>1 DEF Task, Start, SkipStage, BeginStage, StageLost, LandBlock, LandScore,
           DisposeDecides, MarkReads, MarkWrites, MarkFails, Complete, Exit, Kill, Interrupt,
           FinishReads, FinishWrites, runVars
  <2>2. CASE \/ \E l \in Lists : ListChanges(l) \/ ListAges(l)
             \/ NewRuleVersion \/ UNCHANGED vars
    BY <2>2 DEF ListChanges, ListAges, NewRuleVersion, vars, runVars
  <2> QED
    BY <2>1, <2>2 DEF Next
<1> QED
  BY <1>1, PTL DEF Spec, DecisionIsFinal

(* A verdict that one delivery has reached takes the rows it found into    *)
(* account.                                                                *)
LEMMA VerdictCoversRows ==
  ASSUME IInv, NEW t \in Deliveries, work[t].stage = "decided",
         NEW c \in cands, c.by = t,
         \A frequency : Band(c.hit, frequency, Rules[work[t].verdict.rule]) # "CLEAR"
  PROVE  work[t].verdict.disposition # "CLEAR"
<1> DEFINE v == work[t].verdict.rule
<1>1. PICK rows \in SUBSET Row, a \in Availability :
        work[t].verdict = Decide(rows, v, a) /\ c \in rows
  BY DEF IInv, DecidedInv, DecidedOn
<1> DEFINE bands == {Band(d.hit, Frequency(rows), Rules[v]) : d \in rows}
<1>2. work[t].verdict.disposition = RunReason(bands, a).disposition
  <2>1. Decide(rows, v, a).disposition = RunReason(bands, a).disposition
    <3>1. Decide(rows, v, a) = [disposition |-> RunReason(bands, a).disposition,
                                auto |-> RunReason(bands, a).auto, rule |-> v, bands |-> bands]
      BY DEF Decide
    <3> HIDE DEF bands
    <3> QED
      BY <3>1
  <2> QED
    BY <1>1, <2>1
<1>3. \E b \in bands : b \in Disposition /\ b # "CLEAR"
  BY <1>1, BandType
<1> HIDE DEF bands
<1>4. MostSevere(bands) # "CLEAR"
  BY <1>3 DEF MostSevere, Disposition
<1> QED
  BY <1>2, <1>4 DEF RunReason

LEMMA RuleType ==
  ASSUME NEW v \in Version PROVE Rules[v] \in [clear_below: Nat, match_at: Nat, common: Nat]
<1> DEFINE Rule == [clear_below: Nat, match_at: Nat, common: Nat]
<1>1. Rules \in Seq(Rule) /\ v \in DOMAIN Rules
  BY ScreeningAssumption DEF Version
<1> HIDE DEF Rule
<1>2. Rules[v] \in Rule
  BY <1>1
<1> QED
  BY <1>2 DEF Rule

(* No rule version clears a score that a birthday or a document alone      *)
(* reaches.  The code takes any thresholds; DEFAULT_RULE clears below 35.  *)
ClearsNoCorroboration == \A v \in Version : Rules[v].clear_below <= 80

(* The delivery that found a corroborated hit, or one that the conflict    *)
(* floor protects, does not clear it, however many other deliveries add    *)
(* rows and make the name look common (dispose.py, scoring.py).            *)
THEOREM StrongHitsReviewed ==
  ASSUME ClearsNoCorroboration
  PROVE  Spec => []StrongHitNeverCleared
<1>1. IInv => StrongHitNeverCleared
  <2> SUFFICES ASSUME IInv, NEW t \in Deliveries, NEW c \in cands,
                      work[t].stage = "decided", c.by = t,
                      Pair[c.hit].corroborated \/ (Pair[c.hit].named /\ Pair[c.hit].conflict)
               PROVE  work[t].verdict.disposition # "CLEAR"
    BY DEF StrongHitNeverCleared
  <2>1. c.hit \in AllHits /\ work[t].verdict.rule \in Version
    BY ScreeningAssumption, WorkKinds DEF IInv, TypeOK, Row, Verdict
  <2> QED
    BY <2>1, RuleType, StrongHitBands, VerdictCoversRows DEF ClearsNoCorroboration
<1> QED
  BY <1>1, InitIInv, IInvStep, PTL DEF Spec

(* The conflict floor needs no assumption on the thresholds.               *)
ConflictNeverCleared ==
  \A t \in Deliveries : \A c \in cands :
    work[t].stage = "decided" /\ c.by = t /\ Pair[c.hit].named /\ Pair[c.hit].conflict
    => work[t].verdict.disposition # "CLEAR"

THEOREM ConflictFloorHolds == Spec => []ConflictNeverCleared
<1>1. IInv => ConflictNeverCleared
  <2> SUFFICES ASSUME IInv, NEW t \in Deliveries, NEW c \in cands,
                      work[t].stage = "decided", c.by = t,
                      Pair[c.hit].named /\ Pair[c.hit].conflict
               PROVE  work[t].verdict.disposition # "CLEAR"
    BY DEF ConflictNeverCleared
  <2>1. c.hit \in AllHits /\ work[t].verdict.rule \in Version
    BY ScreeningAssumption, WorkKinds DEF IInv, TypeOK, Row, Verdict
  <2> QED
    BY <2>1, RuleType, StrongHitBands, VerdictCoversRows
<1> QED
  BY <1>1, InitIInv, IInvStep, PTL DEF Spec

(* A decided run that was delivered once: its only delivery has got past   *)
(* score_candidates, and the decision is what its rows, its rule and its   *)
(* map call for.                                                           *)
LEMMA SoloDecided ==
  ASSUME IInv, Solo, Decided
  PROVE  \E t \in Deliveries :
           /\ cur[t] \in 3 .. 4 /\ Blocked(t) /\ Scored(t) /\ Sound(decision)
<1>1. PICK t \in Deliveries : Alone(t)
  BY SoloCases DEF IInv, FreshInv, Fresh, Decided
<1>2. Blocked(t) /\ Scored(t) /\ Disposed(t)
  BY <1>1 DEF IInv, AloneInv
<1>3. cur[t] \in 1 .. 4
  BY StageList DEF IInv, TypeOK
<1> QED
  BY <1>2, <1>3 DEF Disposed

(* dispose and score_candidates name the same rule, whatever versions came *)
(* in between.                                                             *)
THEOREM OneRulePerRun == Spec => []ScoredRuleDecides
<1>1. IInv => ScoredRuleDecides
  BY SoloDecided DEF ScoredRuleDecides, Sound, SoundFor
<1> QED
  BY <1>1, InitIInv, IInvStep, PTL DEF Spec

(* explain.py recomputes what dispose.py decided: no later write to the    *)
(* map opens or closes a gap, not even by a stage the loop gave up on.     *)
THEOREM ExplanationsAgree == Spec => []SoloExplanationConsistent
<1>1. IInv => SoloExplanationConsistent
  BY SoloDecided DEF SoloExplanationConsistent, ExplanationConsistent, Sound, SoundFor
<1> QED
  BY <1>1, InitIInv, IInvStep, PTL DEF Spec

(* The map of a completed run keeps what the blocking stage's own session  *)
(* wrote to it (orchestrator.py, _update_stage_status).                    *)
THEOREM CoverageIsKept == Spec => []CoverageRecorded
<1>1. IInv => CoverageRecorded
  <2> SUFFICES ASSUME IInv, Solo, status = "complete", avail["block_candidates"] = "complete"
               PROVE  screened # NotScreened /\ \A l \in Lists : avail[l] = Coverage(screened[l])
    BY DEF CoverageRecorded
  <2>1. PICK t \in Deliveries : Alone(t)
    BY SoloCases DEF IInv, FreshInv, Fresh
  <2>2. Blocked(t) /\ cur[t] = 4
    BY <2>1 DEF IInv, AloneInv, Disposed
  <2> QED
    BY <2>2 DEF Blocked
<1> QED
  BY <1>1, InitIInv, IInvStep, PTL DEF Spec

(* A run closes itself only on full evidence, and every other verdict is   *)
(* the most severe its evidence calls for, whatever timed out, was         *)
(* interrupted or changed in between (dispose.py).                         *)
THEOREM VerdictsAreSound == Spec => []SoloVerdict
<1>1. IInv => SoloVerdict
  <2> SUFFICES ASSUME IInv, Solo, Decided
               PROVE  /\ AutoClearSound
                      /\ decision.auto <=> decision.disposition = "CLEAR"
                      /\ MostSevere(ScreenedBands) # "CLEAR" =>
                           decision.disposition = MostSevere(ScreenedBands)
    BY DEF SoloVerdict
  <2>1. PICK t \in Deliveries :
          cur[t] \in 3 .. 4 /\ Blocked(t) /\ Scored(t) /\ Sound(decision)
    BY SoloDecided
  <2>2. ScreenedBands = decision.bands /\ ScreenedBands \in SUBSET Disposition
    <3>1. decision \in Verdict
      BY <2>1 DEF Sound, SoundFor
    <3> QED
      BY <2>1, <3>1, AloneBands DEF IInv, Verdict
  <2>3. RunReason(ScreenedBands, avail) =
          [disposition |-> decision.disposition, auto |-> decision.auto]
    BY <2>1, <2>2 DEF Sound, SoundFor
  <2>4. /\ RunReason(ScreenedBands, avail).disposition = decision.disposition
        /\ RunReason(ScreenedBands, avail).auto = decision.auto
    BY <2>3
  <2>5. CASE MostSevere(ScreenedBands) # "CLEAR"
    BY <2>4, <2>5 DEF RunReason, AutoClearSound
  <2>6. CASE MostSevere(ScreenedBands) = "CLEAR"
    <3>1. decision.auto <=> decision.disposition = "CLEAR"
      BY <2>4, <2>6 DEF RunReason
    <3>2. ASSUME decision.auto PROVE AutoClearSound
      <4>1. \A n \in Entries \ {"dispose"} : avail[n] # "unavailable"
        BY <2>4, <2>6, <3>2 DEF RunReason
      <4>2. /\ avail["block_candidates"] = "complete" /\ avail["score_candidates"] = "complete"
            /\ \A l \in Lists : avail[l] # "unavailable"
        <5>1. /\ "block_candidates" \in Entries \ {"dispose"}
              /\ "score_candidates" \in Entries \ {"dispose"}
              /\ Lists \subseteq Entries \ {"dispose"}
          BY StageList, ScreeningAssumption
        <5>2. cur[t] >= 2 /\ cur[t] >= 3
          BY <2>1
        <5> QED
          BY <2>1, <4>1, <5>1, <5>2 DEF Blocked, Scored
      <4>3. /\ screened # NotScreened /\ ranRule # 0
            /\ \A l \in Lists : avail[l] = Coverage(screened[l])
        BY <2>1, <4>2 DEF Blocked, Scored
      <4>4. ScreenedBands \subseteq {"CLEAR"}
        BY <2>2, <2>6 DEF MostSevere, Disposition
      <4> QED
        BY <4>2, <4>3, <4>4, CoverageType DEF AutoClearSound
    <3> QED
      BY <2>6, <3>1, <3>2 DEF AutoClearSound
  <2> QED
    BY <2>5, <2>6
<1> QED
  BY <1>1, InitIInv, IInvStep, PTL DEF Spec

=============================================================================
