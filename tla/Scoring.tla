------------------------------- MODULE Scoring -------------------------------
(***************************************************************************)
(* The scoring engine, the triage tier and the report (scoring/engine.py,  *)
(* triage.py, explain.py, report.py).                                      *)
(*                                                                         *)
(* A layer's score is an integer in 0..100: every weight of the catalogue  *)
(* times 40 is an integer.  The overall score, the mean of four layers, is *)
(* kept as their sum, so that its thresholds are four times the code's.    *)
(***************************************************************************)
EXTENDS Signals, FiniteSetsExt

NoAssessment == <<>>  \* no RiskAssessment row

Layers == {"entity", "infrastructure", "representation", "risk"}

CriticalEscalationSignals ==
    {"sanctions_hit", "sanctions_hit_fraud_flag", "ip_asn_reuse_high",
     "officer_sanctions_match", "public_records_active_federal_exclusion"}

ReviewFloorSignals == {"public_records_open_bankruptcy"}

PreClearMax == 4 * 30
EscalateMin == 4 * 70

-----------------------------------------------------------------------------
(* The engine.                                                             *)

\* Seeded fault: a layer's score is only kept from falling below zero.
Clamp_FloorOnly(score) == IF score < 0 THEN 0 ELSE score

Clamp(score) == IF score < 0 THEN 0 ELSE IF score > 100 THEN 100 ELSE score

LayerScoreFromSignals(signals) ==
    LET Points(p) == p[2]
    IN  Clamp(50 + MapThenSumSet(Points, {<<s.name, s.points>> : s \in signals}))

Only(signals, name) == \E s \in signals : s.name = name /\ signals = {s}

\* Signals that say that nothing is known.
Absences ==
    {"no_registry_evidence", "infrastructure_data_unavailable",
     "no_field_comparisons", "all_fields_unverified", "fraud_signals_unavailable"}

\* A layer about which nothing at all is known has a score of its own.
LayerScore(layer, signals) ==
    CASE layer = "entity" /\ Only(signals, "no_registry_evidence") -> 60
      [] layer = "infrastructure"
           /\ Only(signals, "infrastructure_data_unavailable") -> 40
      [] layer = "representation" /\ Only(signals, "no_field_comparisons") -> 35
      [] layer = "representation" /\ Only(signals, "all_fields_unverified") -> 45
      [] layer = "risk" /\ Only(signals, "fraud_signals_unavailable") -> 35
      [] OTHER -> LayerScoreFromSignals(signals)

Overall(score) ==
    score.entity + score.infrastructure + score.representation + score.risk

Names(signals) == {s.name : s \in UNION {signals[l] : l \in Layers}}

\* Seeded fault: the thresholds are looked at before the critical signals.
TriageTier_ScoreFirst(overall, names) ==
    CASE overall <= PreClearMax -> "pre_clear"
      [] overall > PreClearMax /\ overall < EscalateMin
           /\ names \cap CriticalEscalationSignals = {} -> "review"
      [] OTHER -> "escalate"

TriageTier(overall, names) ==
    CASE names \cap CriticalEscalationSignals # {} -> "escalate"
      [] names \cap CriticalEscalationSignals = {} /\ overall <= PreClearMax ->
           IF names \cap ReviewFloorSignals # {} THEN "review" ELSE "pre_clear"
      [] names \cap CriticalEscalationSignals = {} /\ overall >= EscalateMin ->
           "escalate"
      [] OTHER -> "review"

\* The confidence of an explanation: the tiers the evidence covers, where
\* officer and public-record rows never count.
Confidence(ev) ==
    {e.tier : e \in {r \in ev : r.source \notin {"officer_screening",
                                                 "public_records"}}} \cap 1..3

\* The RiskAssessment row of a run.
Assess(ev, cmp, others) ==
    LET signals == [entity         |-> EntitySignals(ev),
                    infrastructure |-> InfrastructureSignals(ev),
                    representation |-> RepresentationSignals(ev, cmp),
                    risk           |-> RiskSignals(ev, others)]
        Of(l) == LayerScore(l, signals[l])
        score == [entity         |-> Of("entity"),
                  infrastructure |-> Of("infrastructure"),
                  representation |-> Of("representation"),
                  risk           |-> Of("risk")]
    IN  [score   |-> score,
         overall |-> Overall(score),
         tier    |-> TriageTier(Overall(score), Names(signals)),
         signals |-> signals]

-----------------------------------------------------------------------------
(* What the report makes of the stored assessment.                         *)

\* "score or 50.0": a stored score of zero is read as 50.
Reread(score) == IF score = 0 THEN 50 ELSE score
RereadOverall(overall) == IF overall = 0 THEN 4 * 50 ELSE overall

\* Seeded fault: the tier shown does not know the signals that bar pre-clear.
DeriveTriage_NoFloor(overall, names) ==
    LET critical == names \cap CriticalEscalationSignals
    IN  [tier |-> CASE critical # {} -> "escalate"
                    [] critical = {} /\ overall <= PreClearMax -> "pre_clear"
                    [] critical = {} /\ overall >= EscalateMin -> "escalate"
                    [] OTHER -> "review",
         critical |-> critical]

\* triage.derive_triage: written apart from the engine's TriageTier.
DeriveTriage(overall, names) ==
    LET critical == names \cap CriticalEscalationSignals
        floored == names \cap ReviewFloorSignals # {}
    IN  [tier |-> CASE critical # {} -> "escalate"
                    [] critical = {} /\ overall <= PreClearMax /\ floored -> "review"
                    [] critical = {} /\ overall <= PreClearMax /\ ~floored -> "pre_clear"
                    [] critical = {} /\ overall >= EscalateMin -> "escalate"
                    [] OTHER -> "review",
         critical |-> critical]

\* One explanation per layer: its score, its signals and their sources.
Explain(assessment, ev) ==
    [l \in Layers |->
       [score   |-> Reread(assessment.score[l]),
        signals |-> assessment.signals[l],
        sources |-> {e.source : e \in
                       ev \cap UNION {s.cites : s \in assessment.signals[l]}}]]

\* An adapter's stage and the source its evidence would carry.
StageSources ==
    [query_registries    |-> "opencorporates",
     sanctions_screening |-> "sanctions",
     analyze_domain      |-> "domain",
     enrich_network_ip   |-> "ipinfo",
     web_evidence        |-> "web",
     geocode_hq          |-> "geocode",
     verify_tax_id       |-> "tax_id",
     verify_linkedin     |-> "linkedin",
     collect_people      |-> "registry_people",
     screen_people       |-> "officer_screening"]

\* A source with rows is available; one without is listed when its stage was
\* unavailable.
SourceList(ev, avail) ==
    LET present == {e.source : e \in ev}
        down == {StageSources[s] : s \in {t \in DOMAIN StageSources :
                    t \in DOMAIN avail /\ avail[t] = "unavailable"}} \ present
    IN  [s \in present \cup down |->
           IF s \in present THEN "available" ELSE "unavailable"]

SectionStatuses(avail, scored) ==
    LET Of(s) == IF s \in DOMAIN avail THEN avail[s] ELSE "pending"
        both == {Of("query_registries"), Of("analyze_domain")}
        evidence == CASE "complete" \in both -> "complete"
                      [] both = {"unavailable"} -> "unavailable"
                      [] OTHER -> "pending"
    IN  [scores     |-> IF scored THEN "complete" ELSE "pending",
         evidence   |-> evidence,
         mismatches |-> Of("consistency_checks"),
         sources    |-> evidence]

ReportStatus(sections) ==
    LET statuses == {sections[s] : s \in DOMAIN sections}
    IN  CASE statuses \subseteq {"complete", "unavailable"} -> "complete"
          [] ~(statuses \subseteq {"complete", "unavailable"})
               /\ "complete" \in statuses -> "partial"
          [] OTHER -> "pending"

\* assemble_report: everything the run has stored so far.
AssembleReport(ev, cmp, assessment, avail) ==
    LET scored == assessment # NoAssessment
        sections == SectionStatuses(avail, scored)
    IN  [status     |-> ReportStatus(sections),
         sections   |-> sections,
         assessment |-> assessment,
         evidence   |-> ev,
         mismatches |-> cmp,
         sources    |-> SourceList(ev, avail),
         triage     |-> IF scored
                          THEN DeriveTriage(RereadOverall(assessment.overall),
                                            Names(assessment.signals))
                          ELSE NoAssessment,
         layers     |-> IF scored THEN Explain(assessment, ev) ELSE NoAssessment,
         confidence |-> IF scored THEN Confidence(ev) ELSE {}]
=============================================================================
