------------------------------ MODULE Assessment ------------------------------
(***************************************************************************)
(* What a verification run finds out about a company and what it makes of  *)
(* it: the sixteen stages of the pipeline, in order, over the evidence,    *)
(* the field comparisons, the risk assessment and the report.              *)
(*                                                                         *)
(* The run's row, its threads, transactions and time limits are            *)
(* Orchestrator's. Here a stage either takes effect whole or is lost: what *)
(* an abandoned stage may still commit is Orchestrator's late write.       *)
(***************************************************************************)
EXTENDS Scoring, PublicRecords

CONSTANTS
    Submissions,   \* what may be submitted
    Answers,       \* stage |-> what its provider may answer
    Usual,         \* stage |-> the answer that is no surprise
    Neighbours,    \* how many other submissions may share its network
    MaxAttempts,   \* requests an adapter makes when they fail transiently
    MaxSurprises,  \* bound on unusual answers, lost stages and the like
    Requests,      \* verifications of the ownership challenge
    NoChallenge    \* no ownership challenge was issued

ASSUME MaxAttemptsAssumption == MaxAttempts \in Nat \ {0}
ASSUME MaxSurprisesAssumption == MaxSurprises \in Nat

ASSUME SubmissionsAssumption ==
    \A s \in Submissions : /\ s.tax_id \in {"none", "malformed", "fein"}
                           /\ s.source_ip \in BOOLEAN
                           /\ s.people \in Seq(Range(s.people))

\* What a request may come to, beside an answer.
OtherAnswers ==
    [query_registries    |-> {},
     verify_tax_id       |-> {"unknown"},
     sanctions_screening |-> {},
     enrich_network_ip   |-> {},
     web_evidence        |-> {},
     verify_linkedin     |-> {"no_page"},
     geocode_hq          |-> {"no_match"}]

ASSUME AnswersAssumption ==
    /\ \A s \in DOMAIN OtherAnswers : \A a \in Answers[s] :
         a.kind \in {"answer"} \cup Failures \cup OtherAnswers[s]
    /\ \A a \in Answers["analyze_domain"] :
         a.whois \in {"down", "undated", "recent", "young", "established", "aged"}
    /\ \A a \in Answers["collect_people"] :
         a.kind = "answer" => a.people \in Seq(Range(a.people))
    /\ \A a \in Answers["screen_people"] : a.configured \in BOOLEAN
    /\ \A a \in Answers["public_records"] :
         /\ a.court.kind \in {"answer"} \cup Failures
         /\ a.sam.kind \in {"fresh", "stale", "none", "error"}

NoReport == <<>>  \* no Report row

VARIABLES
    submission,    \* the submission, as it was sent
    k,             \* the stage the run is at
    tries,         \* requests its adapter has made
    expired,       \* the run's time budget is spent
    surprises,     \* surprises so far
    normalized,    \* context["normalized"]
    people,        \* context["people"]
    avail,         \* source_availability
    lost,          \* stages that raised or were abandoned
    heard,         \* stage |-> the answer it took effect with
    ev,            \* the evidence rows of the run
    cmp,           \* its field comparisons
    assessment,    \* its RiskAssessment row
    report,        \* its Report row
    challenge, placed, verifying, proved  \* its ownership challenge

ownership == <<challenge, placed, verifying, proved>>
context == <<normalized, people>>
stored == <<cmp, assessment, report>>
vars == <<submission, k, tries, expired, surprises, context, avail, lost,
          heard, ev, stored, ownership>>

Owner == INSTANCE Ownership

Stages ==
    <<"normalize_input", "resolve_entity_candidates", "query_registries",
      "verify_tax_id", "sanctions_screening", "collect_people",
      "screen_people", "public_records", "analyze_domain",
      "enrich_network_ip", "web_evidence", "verify_linkedin",
      "consistency_checks", "geocode_hq", "scoring", "store_report">>

\* Seeded fault: only the scoring stage runs when the budget is spent.
AlwaysRun_ScoringOnly == {"scoring"}

AlwaysRun == {"scoring", "store_report"}

Done == k > Len(Stages)
At(stage) == ~Done /\ Stages[k] = stage

-----------------------------------------------------------------------------
(* normalize_input.                                                        *)

CountryMap == [usa |-> "US", uk |-> "GB"]
UrlParts == {"https", "path", "port"}

NormalizeCountry(raw) ==
    CASE raw \in {"US", "GB"} -> {raw}
      [] raw \in DOMAIN CountryMap -> {CountryMap[raw]}
      [] OTHER -> {}

NormalizeDomain(raw) == raw \ UrlParts

Normalized(s) ==
    [name         |-> s.name,
     domain       |-> NormalizeDomain(s.domain),
     country      |-> NormalizeCountry(s.country),
     address      |-> s.address,
     tax_id       |-> s.tax_id,
     linkedin_url |-> s.linkedin_url,
     requester    |-> s.requester,
     source_ip    |-> s.source_ip]

\* What the later stages read when normalize_input was lost.
Blank ==
    [name |-> {}, domain |-> {}, country |-> {}, address |-> {},
     tax_id |-> "none", linkedin_url |-> FALSE, requester |-> {},
     source_ip |-> FALSE]

FreeEmailRows(s) ==
    RowIf(s.email = "free", Row("submission", 0, "free_email_domain", {"true"}))

-----------------------------------------------------------------------------
(* consistency_checks: each field against the rows that bear on it.        *)

Within(a, b) == a # {} /\ b # {} /\ (a \subseteq b \/ b \subseteq a)

\* Two fifths of the words of the shorter address.
AddressMatch(a, b) ==
    /\ a # {} /\ b # {}
    /\ \E shorter \in {Cardinality(a), Cardinality(b)} :
         /\ shorter <= Cardinality(a) /\ shorter <= Cardinality(b)
         /\ 5 * Cardinality(a \cap b) >= 2 * shorter

\* In the order of the code: field, evidence field.
FieldSpecs ==
    <<<<"company_name", "company_name">>, <<"country_iso", "jurisdiction">>,
      <<"billing_address", "legal_address">>, <<"tax_id", "tax_id_status">>,
      <<"tax_id_registered_name", "tax_id_registered_name">>,
      <<"linkedin_website", "linkedin_website">>>>

Agrees(n, field, val) ==
    CASE field = "company_name" -> Within(n.name, val)
      [] field = "country_iso" -> Within(n.country, val)
      [] field = "billing_address" -> AddressMatch(n.address, val)
      [] field = "tax_id" -> n.tax_id # "none" /\ val \cap {"verified", "inactive"} # {}
      [] field = "tax_id_registered_name" -> NamesMatch(n.name, val)
      [] field = "linkedin_website" -> Within(n.domain, val)

CompareField(n, field, rows) ==
    LET agreeing == {e \in rows : Agrees(n, field, e.val)}
    IN  CASE rows = {} -> [status |-> "unverified", cites |-> {}]
          [] agreeing # {} -> [status |-> "match", cites |-> FirstOf(agreeing)]
          [] rows # {} /\ agreeing = {} ->
               [status |-> "mismatch", cites |-> FirstOf(rows)]

\* The comparisons of the first i fields.
Compare(n, evidence, i) ==
    LET specs == {FieldSpecs[j] : j \in 1..i}
        FieldOf(f) == (CHOOSE s \in specs : s[1] = f)[2]
    IN  [f \in {s[1] : s \in specs} |->
           CompareField(n, f, Rows(evidence, FieldOf(f)))]

-----------------------------------------------------------------------------
(* geocode_hq: the registry's address, else the submitted one.             *)

AddressConfidence(registry, billing) ==
    CASE registry /\ billing = "match" -> "high"
      [] registry /\ billing \notin {"match", "mismatch"} -> "medium"
      [] OTHER -> "low"

Geocode(n, evidence, comparisons, a) ==
    LET legal == Rows(evidence, "legal_address")
        billing == IF "billing_address" \in DOMAIN comparisons
                     THEN comparisons["billing_address"].status ELSE "none"
        addressed == legal # {} \/ n.address # {}
        Hq(field, value) == Row("geocode", 3, field, {value})
    IN  CASE ~addressed -> Failure("not_found")
          [] addressed /\ a.kind \in Failures -> RequestFailure(a)
          [] addressed /\ a.kind = "no_match" -> Failure("not_found")
          [] addressed /\ a.kind = "answer" ->
               Success({Hq("hq_location", "place"),
                        Hq("hq_address_source",
                           IF legal # {} THEN "registry" ELSE "submitted"),
                        Hq("hq_address_confidence",
                           AddressConfidence(legal # {}, billing))})

-----------------------------------------------------------------------------
Init ==
    /\ submission \in Submissions
    /\ k = 1
    /\ tries = 0
    /\ expired = FALSE
    /\ surprises = 0
    /\ normalized = Blank
    /\ people = <<>>
    /\ avail = [s \in {Stages[i] : i \in 1..Len(Stages)} |-> "pending"]
    /\ lost = {}
    /\ heard = <<>>
    /\ ev = {}
    /\ cmp = <<>>
    /\ assessment = NoAssessment
    /\ report = NoReport
    /\ Owner!Init

Surprise(really) ==
    /\ really => surprises < MaxSurprises
    /\ surprises' = IF really THEN surprises + 1 ELSE surprises

Advance(status) ==
    /\ avail' = [avail EXCEPT ![Stages[k]] = status]
    /\ k' = k + 1
    /\ tries' = 0

Hear(stage, a) ==
    heard' = [s \in DOMAIN heard \cup {stage} |-> IF s = stage THEN a ELSE heard[s]]

Normalize ==
    /\ At("normalize_input") /\ ~expired
    /\ normalized' = Normalized(submission)
    /\ ev' = ev \cup FreeEmailRows(submission)
    /\ Advance("complete")
    /\ UNCHANGED <<submission, lost, expired, surprises, people, heard, stored,
                   ownership>>

\* One candidate, the submission itself: nothing reads the ranking.
Resolve ==
    /\ At("resolve_entity_candidates") /\ ~expired
    /\ Advance("complete")
    /\ UNCHANGED <<submission, lost, expired, surprises, context, heard, ev,
                   stored, ownership>>

\* The stages that ask a provider and store what it knows.
Adapters ==
    {"query_registries", "verify_tax_id", "sanctions_screening", "screen_people",
     "public_records", "analyze_domain", "enrich_network_ip", "web_evidence",
     "verify_linkedin", "geocode_hq"}

Fetch(stage, a) ==
    CASE stage = "query_registries" -> QueryRegistries(normalized, a)
      [] stage = "verify_tax_id" -> VerifyTaxId(normalized, a)
      [] stage = "sanctions_screening" -> ScreenSanctions(normalized, a)
      [] stage = "screen_people" -> ScreenPeople(people, a.disposition, a.configured)
      [] stage = "public_records" -> PublicRecordsOutcome(normalized, ev, a.court, a.sam)
      [] stage = "analyze_domain" -> AnalyzeDomain(normalized, a)
      [] stage = "enrich_network_ip" -> EnrichNetworkIP(normalized, a)
      [] stage = "web_evidence" -> WebEvidence(normalized, a)
      [] stage = "verify_linkedin" -> VerifyLinkedIn(normalized, a)
      [] stage = "geocode_hq" -> Geocode(normalized, ev, cmp, a)

Transient == {"timeout", "unavailable"}
Outages == {"timeout", "unavailable", "rate_limited"}

Attempts(stage) ==
    IF stage \in {"public_records", "screen_people"} THEN 1 ELSE MaxAttempts

Retried(stage, result) ==
    result.status \in Transient /\ tries + 1 < Attempts(stage)

\* An attempt that fails transiently is made again.
Retry(stage) ==
    /\ At(stage) /\ ~expired
    /\ \E a \in Answers[stage] :
         /\ Retried(stage, Fetch(stage, a))
         /\ Surprise(a # Usual[stage])
    /\ tries' = tries + 1
    /\ UNCHANGED <<submission, lost, k, expired, context, avail, heard, ev,
                   stored, ownership>>

\* "not_found" is an answer: only an outage makes the stage unavailable.
Ask(stage) ==
    /\ At(stage) /\ ~expired
    /\ \E a \in Answers[stage] :
         LET result == Fetch(stage, a)
         IN  /\ ~Retried(stage, result)
             /\ Surprise(a # Usual[stage])
             /\ Hear(stage, a)
             /\ ev' = ev \cup result.rows
             /\ Advance(IF result.status \in Outages THEN "unavailable"
                                                     ELSE "complete")
    /\ UNCHANGED <<submission, lost, expired, context, stored, ownership>>

Collect ==
    /\ At("collect_people") /\ ~expired
    /\ \E a \in Answers["collect_people"] :
         LET found == CollectPeople(normalized, submission.people, a)
         IN  /\ Surprise(a # Usual["collect_people"])
             /\ people' = found.people
             /\ Advance(found.status)
    /\ UNCHANGED <<submission, lost, expired, normalized, heard, ev, stored,
                   ownership>>

\* An exception inside is swallowed: the fields compared so far are kept and
\* the stage is complete.
CheckConsistency ==
    /\ At("consistency_checks") /\ ~expired
    /\ \E i \in 0..Len(FieldSpecs) :
         /\ Surprise(i < Len(FieldSpecs))
         /\ cmp' = Compare(normalized, ev, i)
    /\ Advance("complete")
    /\ UNCHANGED <<submission, lost, expired, context, heard, ev, assessment,
                   report, ownership>>

\* The network's other submissions are counted as it scores.
Score ==
    /\ At("scoring")
    /\ \E others \in Neighbours :
         /\ Surprise(others # 0)
         /\ assessment' = Assess(ev, cmp, others)
    /\ Advance("complete")
    /\ UNCHANGED <<submission, lost, expired, context, heard, ev, cmp, report,
                   ownership>>

StoreReport ==
    /\ At("store_report")
    /\ report' = AssembleReport(ev, cmp, assessment, avail)
    /\ Advance("complete")
    /\ UNCHANGED <<submission, lost, expired, surprises, context, heard, ev,
                   cmp, assessment, ownership>>

-----------------------------------------------------------------------------
\* The stage raises, or is abandoned past its budget: its writes are lost.
Lose ==
    /\ ~Done
    /\ Surprise(TRUE)
    /\ lost' = lost \cup {Stages[k]}
    /\ Advance("unavailable")
    /\ UNCHANGED <<submission, expired, context, heard, ev, stored, ownership>>

\* The run's time budget ends: what is left is skipped, but for AlwaysRun.
Expire ==
    /\ ~Done /\ ~expired
    /\ Surprise(TRUE)
    /\ expired' = TRUE
    /\ UNCHANGED <<submission, lost, k, tries, context, avail, heard, ev,
                   stored, ownership>>

Skip ==
    /\ ~Done /\ expired
    /\ Stages[k] \notin AlwaysRun
    /\ Advance("unavailable")
    /\ UNCHANGED <<submission, lost, expired, surprises, context, heard, ev,
                   stored, ownership>>

\* A verified challenge adds a row to the run, whatever the run is at.
ProofRow(r) == Row("ownership", 3, "domain_ownership_verified", {"true", r})

Challenge ==
    /\ \/ \E method \in Owner!Methods, delivered \in BOOLEAN :
            /\ Owner!Issue(method, delivered)
            /\ Surprise(TRUE)
            /\ UNCHANGED ev
       \/ /\ \/ Owner!Place
             \/ \E r \in Requests : Owner!Begin(r) \/ Owner!Miss(r)
          /\ UNCHANGED <<surprises, ev>>
       \/ \E r \in Requests :
            /\ Owner!Hit(r)
            /\ ev' = ev \cup {ProofRow(r)}
            /\ UNCHANGED surprises
    /\ UNCHANGED <<submission, lost, k, tries, expired, context, avail, heard,
                   stored>>

\* The run is over: nothing more is asked of it.
Ended ==
    /\ Done
    /\ UNCHANGED vars

Next ==
    \/ Normalize \/ Resolve \/ Collect \/ CheckConsistency \/ Score \/ StoreReport
    \/ \E stage \in Adapters : Retry(stage) \/ Ask(stage)
    \/ Lose \/ Expire \/ Skip \/ Challenge \/ Ended

Spec == Init /\ [][Next]_vars

-----------------------------------------------------------------------------
TypeOK ==
    /\ submission \in Submissions
    /\ k \in 1..(Len(Stages) + 1)
    /\ tries \in 0..(MaxAttempts - 1)
    /\ surprises \in 0..MaxSurprises
    /\ \A s \in DOMAIN avail : avail[s] \in {"pending", "complete", "unavailable"}
    /\ \A e \in ev : DOMAIN e = {"source", "tier", "field", "val"} /\ e.tier \in 0..3
    /\ DOMAIN cmp \subseteq {FieldSpecs[i][1] : i \in 1..Len(FieldSpecs)}
    /\ assessment # NoAssessment =>
         \A l \in Layers : assessment.score[l] \in 0..100
    /\ verifying \cup proved \subseteq Requests

-----------------------------------------------------------------------------
(* What the sources said, as the run heard it.                             *)

Heard(stage) == stage \in DOMAIN heard

OnSanctionsList ==
    /\ Heard("sanctions_screening")
    /\ heard.sanctions_screening.kind = "answer"
    /\ \E e \in heard.sanctions_screening.entries : NamesMatch(e, normalized.name)

OfficerMatched ==
    /\ Heard("screen_people")
    /\ heard.screen_people.configured
    /\ \E i \in DOMAIN people : heard.screen_people.disposition[i] = "MATCH"

\* Under its own name, in the only state the registry gave; with two, the code
\* takes whichever row comes first (public_records.py:233).
Excluded ==
    /\ Heard("public_records")
    /\ normalized.country = {"US"}
    /\ heard.public_records.sam.kind \in {"fresh", "stale"}
    /\ \E x \in heard.public_records.sam.exclusions :
         /\ NamesMatch(x.name, normalized.name)
         /\ x.class # "Individual" /\ x.us /\ ~x.ended
         /\ (UNION {e.val : e \in RegisteredIn(ev)}) \cap States = {x.state}

\* The newest docket naming it as debtor is open, recent and still moving.
Bankrupt ==
    /\ Heard("public_records")
    /\ normalized.country = {"US"}
    /\ heard.public_records.court.kind = "answer"
    /\ \E d \in heard.public_records.court.dockets :
         /\ NamesMatch(d.case, normalized.name)
         /\ ~d.closed /\ d.recent /\ d.detail = "fresh"
         /\ ~ \E x \in heard.public_records.court.dockets : x.filed > d.filed

Scored == assessment # NoAssessment
Reported == Scored /\ report # NoReport

Found == UNION {assessment.signals[l] : l \in Layers}

\* A company on the sanctions list, with a matched officer, or excluded from
\* federal contracts is escalated, in the assessment and in the report,
\* whatever else was found, lost or never asked (engine.py:61-76).
CriticalEscalates ==
    OnSanctionsList \/ OfficerMatched \/ Excluded =>
      /\ Scored => assessment.tier = "escalate"
      /\ Reported => report.triage.tier = "escalate"

\* An open bankruptcy never pre-clears, although only so many dockets are
\* looked up and it weighs less than what a clean company earns
\* (engine.py:78-82; public_records.py:364).
BankruptNeverPreClears ==
    Bankrupt =>
      /\ Scored => assessment.tier # "pre_clear"
      /\ Reported => report.triage.tier # "pre_clear"

\* The tier the report works out for itself is the one stored with the score
\* (engine.py:183, triage.py:120, report.py:213 read the thresholds apart).
TiersAgree == Reported => report.triage.tier = assessment.tier

\* Every other signal of an assessment cites a row the run has stored, and the
\* report names its source (README.md:126; report.py:294).
FindingsAreCited ==
    /\ Scored => \A s \in Found :
         /\ s.cites \subseteq ev
         /\ s.name \notin Absences => s.cites # {}
    /\ Reported => \A l \in Layers : \A s \in assessment.signals[l] :
         \A c \in s.cites : /\ c.source \in report.layers[l].sources
                            /\ report.sources[c.source] = "available"

\* The stage that asks for the rows of a source.
AskedBy ==
    [opencorporates |-> "query_registries", tax_id |-> "verify_tax_id",
     sanctions |-> "sanctions_screening", ipinfo |-> "enrich_network_ip",
     web |-> "web_evidence", linkedin |-> "verify_linkedin",
     geocode |-> "geocode_hq"]

\* No trust is earned from a source that did not answer: a failed request is
\* never read as a clean result (README.md:126).
TrustNeedsAnAnswer ==
    Scored => \A s \in {t \in Found : t.points < 0} : \A c \in s.cites :
      c.source \in DOMAIN AskedBy =>
        /\ Heard(AskedBy[c.source])
        /\ heard[AskedBy[c.source]].kind \notin Failures

\* Whoever the submission declares is screened, as themselves or merged with
\* someone of the same name whose date of birth does not speak against it, in
\* every role they were declared in: whether or not the registry could be asked,
\* and however many namesakes it names (people.py:143, screen.py:9).
DeclaredAreScreened ==
    Heard("screen_people") /\ heard.screen_people.configured
        /\ "collect_people" \notin lost =>
      \A p \in Range(submission.people) : \E i \in DOMAIN people :
        /\ people[i].name = p.name /\ DobCompatible(people[i].dob, p.dob)
        /\ p.roles \subseteq people[i].roles
        /\ \E e \in Rows(ev, "officer_screening_result") :
             e.val = {heard.screen_people.disposition[i], people[i].name}

\* Two verifications of one challenge leave two rows, and weigh as one
\* (ownership.py:380, signals.py:1099).
OwnershipWeighsOnce ==
    Scored => Cardinality({s \in Found : s.name = "domain_ownership_verified"}) <= 1

\* A run that came to its end, however little of it took place, has a score
\* and a report, unless these very stages were lost (orchestrator.py:322).
EndsReported ==
    Done => /\ "scoring" \notin lost => Scored
            /\ "store_report" \notin lost => report # NoReport

\* The explanation shows each layer with the score it was given
\* (explain.py:24).  It does not hold: a score of zero is shown as 50
\* (report.py:279), so no run checks it.
LayersAsScored ==
    Reported => \A l \in Layers : report.layers[l].score = assessment.score[l]
=============================================================================
