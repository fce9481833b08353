--------------------------- MODULE Assessment_proof ---------------------------
(***************************************************************************)
(* What holds of a verification run's evidence, assessment and report, for *)
(* all submissions, providers' answers and losses of stages.               *)
(***************************************************************************)
EXTENDS Assessment, Scoring_proof, PublicRecords_proof

-----------------------------------------------------------------------------
(* The place of each stage, and which rows a stage may leave.              *)

Place ==
    [normalize_input |-> 1, resolve_entity_candidates |-> 2, query_registries |-> 3,
     verify_tax_id |-> 4, sanctions_screening |-> 5, collect_people |-> 6,
     screen_people |-> 7, public_records |-> 8, analyze_domain |-> 9,
     enrich_network_ip |-> 10, web_evidence |-> 11, verify_linkedin |-> 12,
     consistency_checks |-> 13, geocode_hq |-> 14, scoring |-> 15,
     store_report |-> 16]

LEMMA StagePlace == \A i \in 1..16 : Stages[i] \in DOMAIN Place /\ Place[Stages[i]] = i
BY DEF Stages, Place

LEMMA AtPlace ==
  ASSUME k \in 1..17, NEW stage, At(stage)
  PROVE  k \in 1..16 /\ stage \in DOMAIN Place /\ k = Place[stage]
<1>1. Len(Stages) = 16
  BY DEF Stages
<1>2. k \in 1..16 /\ Stages[k] = stage
  BY <1>1 DEF At, Done
<1> QED BY <1>2, StagePlace

\* The form of a row of evidence.
Shaped(e) == DOMAIN e = {"source", "tier", "field", "val"} /\ e.tier \in 0..3

\* A row says where a company is registered only if one of these two left it.
Registers == {"query_registries", "verify_tax_id"}

\* A row that stage may leave of answer a: its source is the stage's own, which
\* answered, unless it is that the tax ID is not on file.
RowOf(stage, a, e) ==
    /\ Shaped(e)
    /\ e.source \in DOMAIN AskedBy =>
         /\ AskedBy[e.source] = stage
         /\ a.kind \notin Failures \/ NotOnFile(e)
    /\ e.field \in {"jurisdiction", "tax_id_jurisdiction"} => stage \in Registers

LEMMA RegistryRowsOf ==
  ASSUME NEW n, NEW a, a.kind \in {"answer"} \cup Failures
  PROVE  \A e \in QueryRegistries(n, a).rows : RowOf("query_registries", a, e)
<1>1. CASE a.kind = "answer"
  <2>1. \A c \in a.companies : \A e \in CompanyRows(c) : RowOf("query_registries", a, e)
    BY <1>1 DEF CompanyRows, RowIf, Row, RowOf, Shaped, AskedBy, Failures, Registers
  <2>2. \A e \in RowIf(IdentityConflict(n, a.companies),
                       Row("opencorporates", 1, "registry_identity_conflict", {"true"})) :
          RowOf("query_registries", a, e)
    BY <1>1 DEF RowIf, Row, RowOf, Shaped, AskedBy, Failures, Registers
  <2> DEFINE conflict == RowIf(IdentityConflict(n, a.companies),
                               Row("opencorporates", 1, "registry_identity_conflict",
                                   {"true"}))
             found == UNION {CompanyRows(c) : c \in a.companies}
             rows == found \cup conflict
  <2>3. QueryRegistries(n, a).rows \in {{}, rows}
    BY <1>1 DEF QueryRegistries, Success, Failure, Failures
  <2>4. \A e \in rows : RowOf("query_registries", a, e)
    <3>1. \A e \in found : RowOf("query_registries", a, e)
      <4>1. SUFFICES ASSUME NEW e \in found PROVE RowOf("query_registries", a, e)
        OBVIOUS
      <4>2. PICK c \in a.companies : e \in CompanyRows(c)
        BY <4>1
      <4> QED BY <2>1, <4>2
    <3> HIDE DEF found, conflict
    <3> QED BY <2>2, <3>1 DEF conflict
  <2> HIDE DEF rows
  <2> QED BY <2>3, <2>4
<1>2. CASE a.kind \in Failures
  BY <1>2 DEF QueryRegistries, RequestFailure, Failure, Failures
<1> QED BY <1>1, <1>2

LEMMA TaxIdRowsOf ==
  ASSUME NEW n, NEW a, a.kind \in {"answer"} \cup Failures \cup {"unknown"},
         n.tax_id \in {"none", "malformed", "fein"}
  PROVE  \A e \in VerifyTaxId(n, a).rows : RowOf("verify_tax_id", a, e)
<1> DEFINE not_found == Row("tax_id", 1, "tax_id_status", {"not_found"})
<1>1. RowOf("verify_tax_id", a, not_found)
  BY DEF Row, RowOf, Shaped, AskedBy, NotOnFile, Registers
<1>2. a.kind = "answer" => \A e \in TaxRows(n, a.record) : RowOf("verify_tax_id", a, e)
  BY DEF TaxRows, RowIf, Row, RowOf, Shaped, AskedBy, Failures, Registers
<1>3. \/ VerifyTaxId(n, a).rows \in {{}, {not_found}}
      \/ a.kind = "answer" /\ VerifyTaxId(n, a).rows = TaxRows(n, a.record)
  BY DEF VerifyTaxId, Success, Failure, RequestFailure, Failures
<1> QED BY <1>1, <1>2, <1>3

LEMMA SanctionsRowsOf ==
  ASSUME NEW n, NEW a, a.kind \in {"answer"} \cup Failures
  PROVE  \A e \in ScreenSanctions(n, a).rows : RowOf("sanctions_screening", a, e)
BY DEF ScreenSanctions, Success, Failure, Row, RowOf, Shaped, AskedBy, Failures, Registers

LEMMA PeopleRowsOf ==
  ASSUME NEW list, NEW a, a.configured \in BOOLEAN
  PROVE  \A e \in ScreenPeople(list, a.disposition, a.configured).rows :
           RowOf("screen_people", a, e)
BY DEF ScreenPeople, Success, Failure, Row, RowOf, Shaped, AskedBy

LEMMA RecordsRowsOf ==
  ASSUME NEW n, NEW set, NEW a, a.court.kind \in {"answer"} \cup Failures
  PROVE  \A e \in PublicRecordsOutcome(n, set, a.court, a.sam).rows :
           RowOf("public_records", a, e)
<1> DEFINE Holds(rows) == \A e \in rows : RowOf("public_records", a, e)
<1>1. \A val : RowOf("public_records", a, Record(val))
  BY DEF Record, Row, RowOf, Shaped, AskedBy
<1>2. \A source, value : RowOf("public_records", a, RecordStatus(source, value))
  BY DEF RecordStatus, Row, RowOf, Shaped, AskedBy
<1>3. Holds(CourtRows(n, a.court))
  BY <1>1 DEF CourtRows, RowIf
<1>4. Holds(CourtListener(n, a.court).rows)
  BY <1>2, <1>3 DEF CourtListener, NotApplicable
<1>5. Holds(SamRecords(n, set, a.sam).rows)
  BY <1>1, <1>2 DEF SamRecords
<1>6. \A source : Holds(NotApplicable(source).rows)
  BY <1>2 DEF NotApplicable
<1> QED BY <1>4, <1>5, <1>6 DEF PublicRecordsOutcome

LEMMA DomainRowsOf ==
  ASSUME NEW n, NEW a,
         a.whois \in {"down", "undated", "recent", "young", "established", "aged"}
  PROVE  \A e \in AnalyzeDomain(n, a).rows : RowOf("analyze_domain", a, e)
<1>1. \A e \in WhoisRows(a.whois) : RowOf("analyze_domain", a, e)
  BY DEF WhoisRows, RowIf, Row, RowOf, Shaped, AskedBy
<1>2. \A records : \A e \in DnsRows(records) : RowOf("analyze_domain", a, e)
  BY DEF DnsRows, RowIf, Row, RowOf, Shaped, AskedBy
<1>3. RowOf("analyze_domain", a, Row("domain", 2, "ssl_issuer", {"issuer"}))
  BY DEF Row, RowOf, Shaped, AskedBy
<1> QED BY <1>1, <1>2, <1>3 DEF AnalyzeDomain, Success, Failure, RowIf

LEMMA NetworkRowsOf ==
  ASSUME NEW n, NEW a, n.source_ip \in BOOLEAN, a.kind \in {"answer"} \cup Failures
  PROVE  \A e \in EnrichNetworkIP(n, a).rows : RowOf("enrich_network_ip", a, e)
<1>1. a.kind = "answer" =>
        \A e \in NetworkRows(n, a) : RowOf("enrich_network_ip", a, e)
  BY DEF NetworkRows, RowIf, Row, RowOf, Shaped, AskedBy, Failures
<1>2. \/ EnrichNetworkIP(n, a).rows = {}
      \/ a.kind = "answer" /\ EnrichNetworkIP(n, a).rows = NetworkRows(n, a)
  BY DEF EnrichNetworkIP, Success, Failure, RequestFailure, Failures
<1> QED BY <1>1, <1>2

LEMMA WebRowsOf ==
  ASSUME NEW n, NEW a, a.kind \in {"answer"} \cup Failures
  PROVE  \A e \in WebEvidence(n, a).rows : RowOf("web_evidence", a, e)
<1>1. a.kind = "answer" => \A e \in SiteRows(a) : RowOf("web_evidence", a, e)
  BY DEF SiteRows, RowIf, Row, RowOf, Shaped, AskedBy, Failures
<1>2. \/ WebEvidence(n, a).rows = {}
      \/ a.kind = "answer" /\ WebEvidence(n, a).rows = SiteRows(a)
  BY DEF WebEvidence, Success, Failure, Failures
<1> QED BY <1>1, <1>2

LEMMA LinkedInRowsOf ==
  ASSUME NEW n, NEW a, a.kind \in {"answer"} \cup Failures \cup {"no_page"}
  PROVE  \A e \in VerifyLinkedIn(n, a).rows : RowOf("verify_linkedin", a, e)
<1> DEFINE none == Row("linkedin", 3, "linkedin_presence", {"not_found"})
<1>1. a.kind = "answer" =>
        \A e \in PageRows(n, a.page) : RowOf("verify_linkedin", a, e)
  BY DEF PageRows, RowIf, Row, RowOf, Shaped, AskedBy, Failures
<1>2. a.kind = "no_page" => RowOf("verify_linkedin", a, none)
  BY DEF Row, RowOf, Shaped, AskedBy, Failures
<1>3. \/ VerifyLinkedIn(n, a).rows = {}
      \/ a.kind = "no_page" /\ VerifyLinkedIn(n, a).rows = {none}
      \/ a.kind = "answer" /\ VerifyLinkedIn(n, a).rows = PageRows(n, a.page)
  BY DEF VerifyLinkedIn, Success, Failure, RequestFailure, Failures
<1> QED BY <1>1, <1>2, <1>3

LEMMA GeocodeRowsOf ==
  ASSUME NEW n, NEW set, NEW comparisons, NEW a,
         a.kind \in {"answer"} \cup Failures \cup {"no_match"}
  PROVE  \A e \in Geocode(n, set, comparisons, a).rows : RowOf("geocode_hq", a, e)
<1>1. a.kind = "answer" => \A field \in {"hq_location", "hq_address_source",
                                         "hq_address_confidence"} :
        \A value : RowOf("geocode_hq", a, Row("geocode", 3, field, {value}))
  BY DEF Row, RowOf, Shaped, AskedBy, Failures
<1>2. \/ Geocode(n, set, comparisons, a).rows = {}
      \/ /\ a.kind = "answer"
         /\ \A e \in Geocode(n, set, comparisons, a).rows :
              \E field \in {"hq_location", "hq_address_source",
                            "hq_address_confidence"} :
                \E value : e = Row("geocode", 3, field, {value})
  <2> DEFINE legal == Rows(set, "legal_address")
             addressed == legal # {} \/ n.address # {}
             billing == IF "billing_address" \in DOMAIN comparisons
                          THEN comparisons["billing_address"].status ELSE "none"
             confidence == AddressConfidence(legal # {}, billing)
             Hq(field, value) == Row("geocode", 3, field, {value})
             rows == {Hq("hq_location", "place"),
                      Hq("hq_address_source",
                         IF legal # {} THEN "registry" ELSE "submitted"),
                      Hq("hq_address_confidence", confidence)}
  <2>1. CASE ~addressed \/ a.kind # "answer"
    BY <2>1 DEF Geocode, Failure, RequestFailure, Failures
  <2>2. CASE addressed /\ a.kind = "answer"
    <3>1. Geocode(n, set, comparisons, a).rows = rows
      BY <2>2 DEF Geocode, Success, Failure, Failures
    <3> QED BY <2>2, <3>1
  <2> QED BY <2>1, <2>2
<1>3. SUFFICES ASSUME NEW e \in Geocode(n, set, comparisons, a).rows
               PROVE  RowOf("geocode_hq", a, e)
  OBVIOUS
<1>4. PICK field \in {"hq_location", "hq_address_source", "hq_address_confidence"} :
        \E value : e = Row("geocode", 3, field, {value})
  BY <1>2, <1>3
<1>5. PICK value : e = Row("geocode", 3, field, {value})
  BY <1>4
<1>6. a.kind = "answer"
  BY <1>2, <1>3
<1> QED BY <1>1, <1>5, <1>6

\* Whatever answer a stage may get, it leaves rows of its own.
LEMMA FetchedRows ==
  ASSUME normalized.tax_id \in {"none", "malformed", "fein"},
         normalized.source_ip \in BOOLEAN,
         NEW stage \in Adapters, NEW a \in Answers[stage]
  PROVE  \A e \in Fetch(stage, a).rows : RowOf(stage, a, e)
<1> USE AnswersAssumption DEF OtherAnswers
<1>1. CASE stage = "query_registries"
  BY <1>1, RegistryRowsOf DEF Fetch
<1>2. CASE stage = "verify_tax_id"
  BY <1>2, TaxIdRowsOf DEF Fetch
<1>3. CASE stage = "sanctions_screening"
  BY <1>3, SanctionsRowsOf DEF Fetch
<1>4. CASE stage = "screen_people"
  BY <1>4, PeopleRowsOf DEF Fetch
<1>5. CASE stage = "public_records"
  BY <1>5, RecordsRowsOf DEF Fetch
<1>6. CASE stage = "analyze_domain"
  BY <1>6, DomainRowsOf DEF Fetch
<1>7. CASE stage = "enrich_network_ip"
  BY <1>7, NetworkRowsOf DEF Fetch
<1>8. CASE stage = "web_evidence"
  BY <1>8, WebRowsOf DEF Fetch
<1>9. CASE stage = "verify_linkedin"
  BY <1>9, LinkedInRowsOf DEF Fetch
<1>10. CASE stage = "geocode_hq"
  BY <1>10, GeocodeRowsOf DEF Fetch
<1> QED
  BY <1>1, <1>2, <1>3, <1>4, <1>5, <1>6, <1>7, <1>8, <1>9, <1>10 DEF Adapters

-----------------------------------------------------------------------------
(* The inductive invariant.                                                *)

\* What the later stages read of the submission is well formed.
ContextRead ==
    /\ normalized.tax_id \in {"none", "malformed", "fein"}
    /\ normalized.source_ip \in BOOLEAN

\* Only adapters are heard, and only those the run has passed.
HeardInOrder == \A s \in DOMAIN heard : s \in Adapters /\ Place[s] < k

\* A row of an adapter's source is there because that adapter was answered, or
\* because the tax ID is not on file.
RowsWereHeard ==
    \A e \in ev : e.source \in DOMAIN AskedBy =>
      /\ Heard(AskedBy[e.source])
      /\ heard[AskedBy[e.source]].kind \notin Failures \/ NotOnFile(e)

ComparisonsCite == Citing(cmp, ev)

\* The assessment is one the engine made, of rows the run still has.
AssessmentMade == Scored => k > 15 /\ Assessed(assessment, ev)

\* The report was made of the assessment, and names the sources it cites.
ReportMade ==
    report # NoReport =>
      /\ k > 16
      /\ Scored =>
           /\ report.triage = DeriveTriage(RereadOverall(assessment.overall),
                                           Names(assessment.signals))
           /\ \A l \in Layers : \A s \in assessment.signals[l] : \A c \in s.cites :
                /\ c.source \in report.layers[l].sources
                /\ report.sources[c.source] = "available"

\* Neither is skipped.
NeverSkipped ==
    /\ k > 15 /\ "scoring" \notin lost => Scored
    /\ k > 16 /\ "store_report" \notin lost => report # NoReport

\* The rows that what was heard must have left.
SanctionsFlag == Row("sanctions", 1, "sanctions_risk_flag", {"true"})
OfficerHit(e) ==
    /\ e.source = "officer_screening" /\ e.field = "officer_screening_result"
    /\ "MATCH" \in e.val
ExclusionRow == Record({"federal_exclusion", "strong", "active"})
BankruptcyRow == Record({"bankruptcy", "strong", "open", "recent"})

HitsStored ==
    /\ OnSanctionsList => SanctionsFlag \in ev
    /\ OfficerMatched => \E e \in ev : OfficerHit(e)
    /\ Excluded => ExclusionRow \in ev
    /\ Bankrupt => BankruptcyRow \in ev

\* And the signals that these rows must have made.
HitsScored ==
    Scored =>
      /\ OnSanctionsList \/ OfficerMatched \/ Excluded =>
           Names(assessment.signals) \cap CriticalEscalationSignals # {}
      /\ Bankrupt => Names(assessment.signals) \cap ReviewFloorSignals # {}

\* A run that is still in time when it leaves collect_people behind, and has not
\* lost it, knows everybody who was declared.
PeopleCollected ==
    k > 6 /\ ~expired /\ "collect_people" \notin lost =>
      \A p \in Range(submission.people) : \E i \in DOMAIN people : Stands(people[i], p)

IInv ==
    /\ TypeOK /\ ContextRead /\ HeardInOrder /\ RowsWereHeard /\ ComparisonsCite
    /\ AssessmentMade /\ ReportMade /\ NeverSkipped /\ HitsStored /\ HitsScored
    /\ PeopleCollected /\ DeclaredAreScreened

-----------------------------------------------------------------------------
(* Types.                                                                  *)

LEMMA SixteenStages == Len(Stages) = 16
BY DEF Stages

LEMMA SurpriseType ==
  ASSUME surprises \in 0..MaxSurprises, NEW really \in BOOLEAN, Surprise(really)
  PROVE  surprises' \in 0..MaxSurprises
BY MaxSurprisesAssumption DEF Surprise

LEMMA AdvanceType ==
  ASSUME k \in 1..17, ~Done, NEW status \in {"complete", "unavailable"}, Advance(status),
         \A s \in DOMAIN avail : avail[s] \in {"pending", "complete", "unavailable"}
  PROVE  /\ k' \in 1..17 /\ tries' = 0
         /\ \A s \in DOMAIN avail' : avail'[s] \in {"pending", "complete", "unavailable"}
BY SixteenStages DEF Advance, Done

\* The part of TypeOK that is about the evidence, and the one that is not.
EvidenceType == \A e \in ev : Shaped(e)
OtherTypes ==
    /\ submission \in Submissions
    /\ k \in 1..17
    /\ tries \in 0..(MaxAttempts - 1)
    /\ surprises \in 0..MaxSurprises
    /\ \A s \in DOMAIN avail : avail[s] \in {"pending", "complete", "unavailable"}
    /\ DOMAIN cmp \subseteq {FieldSpecs[i][1] : i \in 1..Len(FieldSpecs)}
    /\ assessment # NoAssessment =>
         \A l \in Layers : assessment.score[l] \in 0..100
    /\ verifying \cup proved \subseteq Requests

LEMMA TypeParts == TypeOK <=> EvidenceType /\ OtherTypes
BY SixteenStages DEF TypeOK, EvidenceType, OtherTypes, Shaped

LEMMA TypePartsNext == TypeOK' <=> EvidenceType' /\ OtherTypes'
BY SixteenStages DEF TypeOK, EvidenceType, OtherTypes, Shaped

LEMMA CompareDomain ==
  ASSUME NEW n, NEW rows, NEW i \in 0..Len(FieldSpecs)
  PROVE  DOMAIN Compare(n, rows, i) \subseteq {FieldSpecs[j][1] : j \in 1..Len(FieldSpecs)}
<1>1. Len(FieldSpecs) = 6
  BY DEF FieldSpecs
<1>2. DOMAIN Compare(n, rows, i) = {s[1] : s \in {FieldSpecs[j] : j \in 1..i}}
  BY DEF Compare
<1> QED BY <1>1, <1>2

\* A step of the ownership challenge at most adds a row that proves it.
LEMMA ChallengeEffect ==
  ASSUME Challenge
  PROVE  /\ ev' = ev \/ \E r \in Requests : ev' = ev \cup {ProofRow(r)}
         /\ UNCHANGED <<submission, lost, k, tries, expired, context, avail, heard,
                        stored>>
<1>1. ev' = ev \/ \E r \in Requests : ev' = ev \cup {ProofRow(r)}
  <2>1. CASE UNCHANGED ev
    BY <2>1
  <2>2. CASE \E r \in Requests : ev' = ev \cup {ProofRow(r)}
    BY <2>2
  <2> QED BY <2>1, <2>2 DEF Challenge
<1> QED BY <1>1 DEF Challenge

\* A verification of the ownership challenge keeps its types.
LEMMA OwnerTypes ==
  ASSUME verifying \cup proved \subseteq Requests, Challenge
  PROVE  verifying' \cup proved' \subseteq Requests
<1>1. ASSUME NEW method, NEW delivered, Owner!Issue(method, delivered)
      PROVE  verifying' = verifying /\ proved' = proved
  BY <1>1 DEF Owner!Issue
<1>2. ASSUME Owner!Place
      PROVE  verifying' = verifying /\ proved' = proved
  BY <1>2 DEF Owner!Place
<1>3. ASSUME NEW r \in Requests, Owner!Begin(r) \/ Owner!Miss(r) \/ Owner!Hit(r)
      PROVE  verifying' \cup proved' \subseteq Requests
  BY <1>3 DEF Owner!Begin, Owner!Miss, Owner!Hit
<1> QED BY <1>1, <1>2, <1>3 DEF Challenge

LEMMA ChallengeSurprise ==
  ASSUME surprises \in 0..MaxSurprises, Challenge
  PROVE  surprises' \in 0..MaxSurprises
BY SurpriseType DEF Challenge

\* The evidence only ever gains rows of the forms a row has.
LEMMA EvidenceTypeStep ==
  ASSUME EvidenceType, ContextRead, [Next]_vars
  PROVE  EvidenceType'
<1>1. ASSUME Normalize PROVE EvidenceType'
  BY <1>1 DEF Normalize, FreeEmailRows, RowIf, Row, EvidenceType, Shaped
<1>2. ASSUME NEW stage \in Adapters, Ask(stage) PROVE EvidenceType'
  <2>1. PICK a \in Answers[stage] : ev' = ev \cup Fetch(stage, a).rows
    BY <1>2 DEF Ask
  <2>2. \A e \in Fetch(stage, a).rows : Shaped(e)
    BY FetchedRows DEF ContextRead, RowOf
  <2> QED BY <2>1, <2>2 DEF EvidenceType
<1>3. ASSUME Challenge PROVE EvidenceType'
  <2>1. \A r : Shaped(ProofRow(r))
    BY DEF ProofRow, Row, Shaped
  <2> QED BY <1>3, <2>1, ChallengeEffect DEF EvidenceType
<1>4. ASSUME ev' = ev PROVE EvidenceType'
  BY <1>4 DEF EvidenceType
<1> QED
  BY <1>1, <1>2, <1>3, <1>4 DEF Next, Resolve, Collect, CheckConsistency, Score,
     StoreReport, Retry, Lose, Expire, Skip, Ended, vars

\* The rest of the types, action by action.
LEMMA OtherTypesStep ==
  ASSUME OtherTypes, ComparisonsCite, [Next]_vars
  PROVE  OtherTypes'
<1> DEFINE Scores == assessment # NoAssessment =>
                       \A l \in Layers : assessment.score[l] \in 0..100
           Fields == DOMAIN cmp \subseteq {FieldSpecs[i][1] : i \in 1..Len(FieldSpecs)}
           Counts == /\ k \in 1..17
                     /\ tries \in 0..(MaxAttempts - 1)
                     /\ surprises \in 0..MaxSurprises
                     /\ \A s \in DOMAIN avail :
                          avail[s] \in {"pending", "complete", "unavailable"}
<1>1. submission' \in Submissions
  BY ChallengeEffect DEF OtherTypes, Next, Normalize, Resolve, Collect, CheckConsistency,
     Score, StoreReport, Retry, Ask, Lose, Expire, Skip, Ended, vars
<1>2. Scores'
  <2>1. ASSUME Score PROVE Scores'
    <3>1. PICK others \in Neighbours : assessment' = Assess(ev, cmp, others)
      BY <2>1 DEF Score
    <3> QED BY <3>1, AssessmentIsSound DEF ComparisonsCite, Assessed
  <2>2. ASSUME assessment' = assessment PROVE Scores'
    BY <2>2 DEF OtherTypes
  <2> QED
    BY <2>1, <2>2, ChallengeEffect DEF Next, Normalize, Resolve, Collect,
       CheckConsistency, StoreReport, Retry, Ask, Lose, Expire, Skip, Ended, vars, stored
<1>3. Fields'
  <2>1. ASSUME CheckConsistency PROVE Fields'
    BY <2>1, CompareDomain DEF CheckConsistency
  <2>2. ASSUME cmp' = cmp PROVE Fields'
    BY <2>2 DEF OtherTypes
  <2> QED
    BY <2>1, <2>2, ChallengeEffect DEF Next, Normalize, Resolve, Collect,
       Score, StoreReport, Retry, Ask, Lose, Expire, Skip, Ended, vars, stored
<1>4. Counts'
  <2> USE MaxAttemptsAssumption
  <2>1. Counts
    BY DEF OtherTypes
  <2>2. ASSUME NEW status \in {"complete", "unavailable"}, ~Done, Advance(status),
               surprises' \in 0..MaxSurprises
        PROVE  Counts'
    BY <2>1, <2>2, AdvanceType
  <2>3. ASSUME NEW really \in BOOLEAN, Surprise(really) PROVE surprises' \in 0..MaxSurprises
    BY <2>1, <2>3, SurpriseType
  <2> HIDE DEF Counts
  <2>4. surprises \in 0..MaxSurprises
    BY <2>1 DEF Counts
  <2>5. ASSUME Normalize \/ Resolve \/ StoreReport \/ Skip PROVE Counts'
    BY <2>2, <2>4, <2>5 DEF Normalize, Resolve, StoreReport, Skip, At
  <2>6. ASSUME Collect PROVE Counts'
    <3>1. PICK a \in Answers["collect_people"] :
            /\ Surprise(a # Usual["collect_people"])
            /\ Advance(CollectPeople(normalized, submission.people, a).status)
      BY <2>6 DEF Collect
    <3>2. CollectPeople(normalized, submission.people, a).status
            \in {"complete", "unavailable"}
      BY DEF CollectPeople
    <3> QED BY <2>2, <2>3, <2>6, <3>1, <3>2 DEF Collect, At
  <2>7. ASSUME CheckConsistency PROVE Counts'
    <3>1. PICK i \in 0..Len(FieldSpecs) : Surprise(i < Len(FieldSpecs))
      BY <2>7 DEF CheckConsistency
    <3>2. surprises' \in 0..MaxSurprises
      BY <2>4, <3>1, MaxSurprisesAssumption DEF Surprise
    <3> QED BY <2>2, <2>7, <3>2 DEF CheckConsistency, At
  <2>8. ASSUME Score PROVE Counts'
    BY <2>2, <2>3, <2>8 DEF Score, At
  <2>9. ASSUME Lose PROVE Counts'
    BY <2>2, <2>3, <2>9 DEF Lose
  <2>10. ASSUME Expire PROVE Counts'
    <3>1. surprises' \in 0..MaxSurprises
      BY <2>3, <2>10 DEF Expire
    <3> QED BY <2>1, <2>10, <3>1 DEF Expire, Counts
  <2>11. ASSUME NEW stage \in Adapters, Ask(stage) PROVE Counts'
    <3>1. PICK a \in Answers[stage] :
            /\ Surprise(a # Usual[stage])
            /\ Advance(IF Fetch(stage, a).status \in Outages THEN "unavailable"
                                                             ELSE "complete")
      BY <2>11 DEF Ask
    <3>2. surprises' \in 0..MaxSurprises
      BY <2>3, <3>1
    <3> QED BY <2>2, <2>11, <3>1, <3>2 DEF Ask, At
  <2>12. ASSUME NEW stage \in Adapters, Retry(stage) PROVE Counts'
    <3>1. PICK a \in Answers[stage] :
            /\ tries + 1 < Attempts(stage)
            /\ Surprise(a # Usual[stage])
      BY <2>12 DEF Retry, Retried
    <3>2. surprises' \in 0..MaxSurprises
      BY <2>3, <3>1
    <3>3. tries' \in 0..(MaxAttempts - 1)
      BY <2>1, <2>12, <3>1 DEF Retry, Attempts, Counts
    <3> QED BY <2>1, <2>12, <3>2, <3>3 DEF Retry, Counts
  <2>13. ASSUME Challenge PROVE Counts'
    BY <2>1, <2>4, <2>13, ChallengeEffect, ChallengeSurprise DEF Counts
  <2>14. ASSUME UNCHANGED vars PROVE Counts'
    BY <2>1, <2>14 DEF vars, Counts
  <2> QED
    BY <2>5, <2>6, <2>7, <2>8, <2>9, <2>10, <2>11, <2>12, <2>13, <2>14
    DEF Next, Ended
<1>5. (verifying \cup proved \subseteq Requests)'
  <2>1. ASSUME Challenge PROVE verifying' \cup proved' \subseteq Requests
    BY <2>1, OwnerTypes DEF OtherTypes
  <2>2. ASSUME UNCHANGED ownership PROVE verifying' \cup proved' \subseteq Requests
    BY <2>2 DEF ownership, OtherTypes
  <2> QED
    BY <2>1, <2>2 DEF Next, Normalize, Resolve, Collect, CheckConsistency,
       Score, StoreReport, Retry, Ask, Lose, Expire, Skip, Ended, vars
<1> QED BY <1>1, <1>2, <1>3, <1>4, <1>5 DEF OtherTypes

-----------------------------------------------------------------------------
(* What a step may do: move on without a trace, store a proof of ownership,*)
(* or be one of the stages that leave something.                           *)

\* A stage is lost, skipped, tried again or leaves nothing; scoring and the
\* report do not pass without a trace unless they are lost.
Quiet ==
    /\ UNCHANGED <<submission, normalized, people, heard, ev, cmp, assessment, report>>
    /\ \/ k' = k /\ lost' = lost
       \/ /\ k \in 1..16 /\ k' = k + 1
          /\ \/ lost' = lost \cup {Stages[k]}
             \/ lost' = lost /\ Stages[k] \notin AlwaysRun

Proving(r) ==
    /\ ev' = ev \cup {ProofRow(r)}
    /\ UNCHANGED <<submission, normalized, people, heard, cmp, assessment, report, k, lost>>

LEMMA StepKinds ==
  ASSUME k \in 1..17, [Next]_vars
  PROVE  \/ Quiet
         \/ \E r \in Requests : Proving(r)
         \/ Normalize \/ Collect \/ CheckConsistency \/ Score \/ StoreReport
         \/ \E stage \in Adapters : Ask(stage)
<1>1. ASSUME Resolve PROVE Quiet
  <2>1. k \in 1..16 /\ Stages[k] \notin AlwaysRun
    BY <1>1, SixteenStages DEF Resolve, At, Done, AlwaysRun
  <2> QED BY <1>1, <2>1 DEF Resolve, Advance, Quiet, context, stored
<1>2. ASSUME NEW stage \in Adapters, Retry(stage) PROVE Quiet
  BY <1>2 DEF Retry, Quiet, context, stored
<1>3. ASSUME Lose PROVE Quiet
  <2>1. k \in 1..16
    BY <1>3, SixteenStages DEF Lose, Done
  <2> QED BY <1>3, <2>1 DEF Lose, Advance, Quiet, context, stored
<1>4. ASSUME Expire PROVE Quiet
  BY <1>4 DEF Expire, Quiet, context, stored
<1>5. ASSUME Skip PROVE Quiet
  <2>1. k \in 1..16
    BY <1>5, SixteenStages DEF Skip, Done
  <2> QED BY <1>5, <2>1 DEF Skip, Advance, Quiet, context, stored
<1>6. ASSUME Challenge PROVE Quiet \/ \E r \in Requests : Proving(r)
  BY <1>6, ChallengeEffect DEF Quiet, Proving, context, stored
<1>7. ASSUME UNCHANGED vars PROVE Quiet
  BY <1>7 DEF vars, Quiet, context, stored
<1> QED BY <1>1, <1>2, <1>3, <1>4, <1>5, <1>6, <1>7 DEF Next, Ended

\* The stages that leave something each do so in their place.
LEMMA StageEffects ==
  ASSUME k \in 1..17
  PROVE  /\ Normalize =>
              /\ k = 1 /\ k' = 2
              /\ normalized' = Normalized(submission)
              /\ ev' = ev \cup FreeEmailRows(submission)
              /\ UNCHANGED <<submission, people, heard, cmp, assessment, report, lost>>
         /\ Collect =>
              /\ k = 6 /\ k' = 7
              /\ UNCHANGED <<submission, normalized, heard, ev, cmp, assessment, report,
                             lost>>
         /\ CheckConsistency =>
              /\ k = 13 /\ k' = 14
              /\ \E i \in 0..Len(FieldSpecs) : cmp' = Compare(normalized, ev, i)
              /\ UNCHANGED <<submission, normalized, people, heard, ev, assessment,
                             report, lost>>
         /\ Score =>
              /\ k = 15 /\ k' = 16
              /\ \E others \in Neighbours : assessment' = Assess(ev, cmp, others)
              /\ UNCHANGED <<submission, normalized, people, heard, ev, cmp, report, lost>>
         /\ StoreReport =>
              /\ k = 16 /\ k' = 17
              /\ report' = AssembleReport(ev, cmp, assessment, avail)
              /\ UNCHANGED <<submission, normalized, people, heard, ev, cmp, assessment,
                             lost>>
<1>1. ASSUME Normalize PROVE k = 1
  BY <1>1, AtPlace DEF Normalize, Place
<1>2. ASSUME Collect PROVE k = 6
  BY <1>2, AtPlace DEF Collect, Place
<1>3. ASSUME CheckConsistency PROVE k = 13
  BY <1>3, AtPlace DEF CheckConsistency, Place
<1>4. ASSUME Score PROVE k = 15
  BY <1>4, AtPlace DEF Score, Place
<1>5. ASSUME StoreReport PROVE k = 16
  BY <1>5, AtPlace DEF StoreReport, Place
<1>6. ASSUME Normalize
      PROVE  /\ k = 1 /\ k' = 2
             /\ normalized' = Normalized(submission)
             /\ ev' = ev \cup FreeEmailRows(submission)
             /\ UNCHANGED <<submission, people, heard, cmp, assessment, report, lost>>
  BY <1>1, <1>6 DEF Normalize, Advance, stored
<1>7. ASSUME Collect
      PROVE  /\ k = 6 /\ k' = 7
             /\ UNCHANGED <<submission, normalized, heard, ev, cmp, assessment, report,
                            lost>>
  <2>1. PICK a \in Answers["collect_people"] :
          Advance(CollectPeople(normalized, submission.people, a).status)
    BY <1>7 DEF Collect
  <2>2. k' = k + 1
    BY <2>1 DEF Advance
  <2> QED BY <1>2, <1>7, <2>2 DEF Collect, stored
<1>8. ASSUME CheckConsistency
      PROVE  /\ k = 13 /\ k' = 14
             /\ \E i \in 0..Len(FieldSpecs) : cmp' = Compare(normalized, ev, i)
             /\ UNCHANGED <<submission, normalized, people, heard, ev, assessment,
                            report, lost>>
  BY <1>3, <1>8 DEF CheckConsistency, Advance, context
<1>9. ASSUME Score
      PROVE  /\ k = 15 /\ k' = 16
             /\ \E others \in Neighbours : assessment' = Assess(ev, cmp, others)
             /\ UNCHANGED <<submission, normalized, people, heard, ev, cmp, report, lost>>
  BY <1>4, <1>9 DEF Score, Advance, context
<1>10. ASSUME StoreReport
       PROVE  /\ k = 16 /\ k' = 17
              /\ report' = AssembleReport(ev, cmp, assessment, avail)
              /\ UNCHANGED <<submission, normalized, people, heard, ev, cmp, assessment,
                             lost>>
  BY <1>5, <1>10 DEF StoreReport, Advance, context
<1> QED BY <1>6, <1>7, <1>8, <1>9, <1>10

\* An adapter that is asked is heard in its place, and leaves what it fetched.
Asked(stage, a) ==
    /\ k = Place[stage] /\ k' = k + 1 /\ k \in 1..14
    /\ heard' = [s \in DOMAIN heard \cup {stage} |-> IF s = stage THEN a ELSE heard[s]]
    /\ ev' = ev \cup Fetch(stage, a).rows
    /\ UNCHANGED <<submission, normalized, people, cmp, assessment, report, lost>>

LEMMA AskEffect ==
  ASSUME k \in 1..17, NEW stage \in Adapters, Ask(stage)
  PROVE  \E a \in Answers[stage] : Asked(stage, a)
<1>1. k = Place[stage]
  BY AtPlace DEF Ask
<1>2. k \in 1..14
  BY <1>1 DEF Adapters, Place
<1> QED BY <1>1, <1>2 DEF Ask, Asked, Hear, Advance, context, stored

\* What was heard before is heard still.
LEMMA HearMore ==
  ASSUME HeardInOrder, NEW stage, NEW a, Asked(stage, a)
  PROVE  /\ stage \notin DOMAIN heard
         /\ DOMAIN heard' = DOMAIN heard \cup {stage}
         /\ heard'[stage] = a
         /\ \A s \in DOMAIN heard : heard'[s] = heard[s]
<1>1. stage \notin DOMAIN heard
  BY DEF HeardInOrder, Asked
<1> QED BY <1>1 DEF Asked

-----------------------------------------------------------------------------
(* The parts of the invariant, one by one.                                 *)

LEMMA ContextReadStep ==
  ASSUME IInv, [Next]_vars
  PROVE  ContextRead'
<1>1. k \in 1..17 /\ submission \in Submissions
  BY SixteenStages DEF IInv, TypeOK
<1>2. ASSUME Normalize PROVE ContextRead'
  <2>1. normalized' = Normalized(submission)
    BY <1>1, <1>2, StageEffects
  <2> QED BY <1>1, <2>1, SubmissionsAssumption DEF Normalized, ContextRead
<1>3. ASSUME normalized' = normalized PROVE ContextRead'
  BY <1>3 DEF IInv, ContextRead
<1> QED
  BY <1>1, <1>2, <1>3, StepKinds, StageEffects, AskEffect DEF Quiet, Proving, Asked

LEMMA HeardInOrderStep ==
  ASSUME IInv, [Next]_vars
  PROVE  HeardInOrder'
<1>1. k \in 1..17 /\ HeardInOrder
  BY SixteenStages DEF IInv, TypeOK
<1>2. ASSUME NEW stage \in Adapters, Ask(stage) PROVE HeardInOrder'
  <2>1. PICK a \in Answers[stage] : Asked(stage, a)
    BY <1>1, <1>2, AskEffect
  <2>2. k' = k + 1 /\ Place[stage] = k
    BY <2>1 DEF Asked
  <2> SUFFICES ASSUME NEW s \in DOMAIN heard' PROVE s \in Adapters /\ Place[s] < k'
    BY DEF HeardInOrder
  <2>3. CASE s = stage
    BY <1>1, <2>2, <2>3
  <2>4. CASE s \in DOMAIN heard
    <3>1. s \in Adapters /\ Place[s] < k /\ Place[s] \in Nat
      BY <1>1, <2>4 DEF HeardInOrder, Adapters, Place
    <3> QED BY <1>1, <2>2, <3>1
  <2> QED BY <1>1, <2>1, <2>3, <2>4, HearMore
<1>3. ASSUME heard' = heard, k' \in {k, k + 1} PROVE HeardInOrder'
  <2> SUFFICES ASSUME NEW s \in DOMAIN heard PROVE s \in Adapters /\ Place[s] < k'
    BY <1>3 DEF HeardInOrder
  <2>1. s \in Adapters /\ Place[s] < k /\ Place[s] \in Nat
    BY <1>1 DEF HeardInOrder, Adapters, Place
  <2> QED BY <1>1, <1>3, <2>1
<1>4. ASSUME Quiet \/ \E r \in Requests : Proving(r) PROVE HeardInOrder'
  BY <1>3, <1>4 DEF Quiet, Proving
<1>5. ASSUME Normalize \/ Collect \/ CheckConsistency \/ Score \/ StoreReport
      PROVE  HeardInOrder'
  BY <1>1, <1>3, <1>5, StageEffects
<1> QED BY <1>1, <1>2, <1>4, <1>5, StepKinds

LEMMA RowsWereHeardStep ==
  ASSUME IInv, [Next]_vars
  PROVE  RowsWereHeard'
<1>1. k \in 1..17 /\ HeardInOrder /\ RowsWereHeard /\ ContextRead
  BY SixteenStages DEF IInv, TypeOK
<1>2. ASSUME NEW stage \in Adapters, Ask(stage) PROVE RowsWereHeard'
  <2>1. PICK a \in Answers[stage] : Asked(stage, a)
    BY <1>1, <1>2, AskEffect
  <2>2. \A e \in Fetch(stage, a).rows : RowOf(stage, a, e)
    BY <1>1, FetchedRows DEF ContextRead
  <2>3. ev' = ev \cup Fetch(stage, a).rows
    BY <2>1 DEF Asked
  <2> SUFFICES ASSUME NEW e \in ev', e.source \in DOMAIN AskedBy
               PROVE  /\ AskedBy[e.source] \in DOMAIN heard'
                      /\ \/ heard'[AskedBy[e.source]].kind \notin Failures
                         \/ NotOnFile(e)
    BY DEF RowsWereHeard, Heard
  <2>4. CASE e \in ev
    BY <1>1, <2>1, <2>4, HearMore DEF RowsWereHeard, Heard
  <2>5. CASE e \in Fetch(stage, a).rows
    BY <1>1, <2>1, <2>2, <2>5, HearMore DEF RowOf
  <2> QED BY <2>3, <2>4, <2>5
<1>3. ASSUME heard' = heard, \A e \in ev' \ ev : e.source \notin DOMAIN AskedBy
      PROVE  RowsWereHeard'
  BY <1>1, <1>3 DEF RowsWereHeard, Heard
<1>4. ASSUME Normalize PROVE RowsWereHeard'
  <2>1. \A e \in FreeEmailRows(submission) : e.source \notin DOMAIN AskedBy
    BY DEF FreeEmailRows, RowIf, Row, AskedBy
  <2> QED BY <1>1, <1>3, <1>4, <2>1, StageEffects
<1>5. ASSUME NEW r, Proving(r) PROVE RowsWereHeard'
  <2>1. ProofRow(r).source \notin DOMAIN AskedBy
    BY DEF ProofRow, Row, AskedBy
  <2> QED BY <1>3, <1>5, <2>1 DEF Proving
<1>6. ASSUME heard' = heard, ev' = ev PROVE RowsWereHeard'
  BY <1>3, <1>6
<1> QED
  BY <1>1, <1>2, <1>4, <1>5, <1>6, StepKinds, StageEffects DEF Quiet

\* A comparison cites rows of its own field only.
LEMMA CompareCites ==
  ASSUME NEW n, NEW rows, NEW i \in 0..Len(FieldSpecs)
  PROVE  Citing(Compare(n, rows, i), rows)
<1> DEFINE specs == {FieldSpecs[j] : j \in 1..i}
           FieldOf(f) == (CHOOSE s \in specs : s[1] = f)[2]
           new == Compare(n, rows, i)
<1>1. new = [f \in {s[1] : s \in specs} |-> CompareField(n, f, Rows(rows, FieldOf(f)))]
  BY DEF Compare
<1>2. \A f \in {s[1] : s \in specs} :
        (CHOOSE s \in specs : s[1] = f) \in specs
          /\ (CHOOSE s \in specs : s[1] = f)[1] = f
  OBVIOUS
<1>3. \A s \in specs : s[1] \in ComparedFields \cup {"linkedin_website"}
                         => s[2] # "tax_id_status"
  <2>1. \A j \in 1..6 : FieldSpecs[j][1] \in ComparedFields \cup {"linkedin_website"}
                         => FieldSpecs[j][2] # "tax_id_status"
    BY DEF FieldSpecs, ComparedFields
  <2>2. i \in 0..6
    BY DEF FieldSpecs
  <2> QED BY <2>1, <2>2
<1> HIDE DEF specs
<1>4. \A f \in DOMAIN new : f \in ComparedFields \cup {"linkedin_website"}
                              => FieldOf(f) # "tax_id_status"
  BY <1>1, <1>2, <1>3
<1> HIDE DEF FieldOf
<1>5. ASSUME NEW f, NEW set
      PROVE  LET c == CompareField(n, f, set)
             IN  /\ c.cites \subseteq set
                 /\ c.status \in {"match", "mismatch"} => c.cites # {}
  BY DEF CompareField, FirstOf
<1>6. ASSUME NEW f \in DOMAIN new
      PROVE  /\ new[f].cites \subseteq rows
             /\ new[f].status \in {"match", "mismatch"} => new[f].cites # {}
             /\ f \in ComparedFields \cup {"linkedin_website"} =>
                  \A c \in new[f].cites : ~ NotOnFile(c)
  <2>1. new[f] = CompareField(n, f, Rows(rows, FieldOf(f)))
    BY <1>1
  <2>2. \A e \in Rows(rows, FieldOf(f)) : e \in rows /\ e.field = FieldOf(f)
    BY DEF Rows
  <2> QED BY <1>4, <1>5, <2>1, <2>2 DEF NotOnFile
<1> QED BY <1>6 DEF Citing

LEMMA ComparisonsCiteStep ==
  ASSUME IInv, [Next]_vars
  PROVE  ComparisonsCite'
<1>1. k \in 1..17 /\ ComparisonsCite
  BY SixteenStages DEF IInv, TypeOK
<1>2. ASSUME CheckConsistency PROVE ComparisonsCite'
  BY <1>1, <1>2, StageEffects, CompareCites DEF ComparisonsCite
<1>3. ASSUME cmp' = cmp, ev \subseteq ev' PROVE ComparisonsCite'
  BY <1>1, <1>3 DEF ComparisonsCite, Citing
<1> QED
  BY <1>1, <1>2, <1>3, StepKinds, StageEffects, AskEffect DEF Quiet, Proving, Asked

\* Rows are only added: an assessment stays one of stored rows.
LEMMA MoreRows ==
  ASSUME NEW a, NEW rows, NEW more, rows \subseteq more, Assessed(a, rows)
  PROVE  Assessed(a, more)
<1>1. ASSUME NEW s, Sound(s, rows) PROVE Sound(s, more)
  BY <1>1 DEF Sound
<1>2. SoundSignals(a, more)
  BY <1>1 DEF Assessed, SoundSignals
<1> QED BY <1>2 DEF Assessed

LEMMA AssessedIsRow ==
  ASSUME NEW a, NEW rows, Assessed(a, rows)
  PROVE  a # NoAssessment
<1>1. DOMAIN NoAssessment = {}
  BY DEF NoAssessment
<1> QED BY <1>1 DEF Assessed

\* No step but Score changes the assessment, none takes a row away, and the run
\* never goes back.
LEMMA Growth ==
  ASSUME k \in 1..17, [Next]_vars
  PROVE  /\ ev \subseteq ev' /\ k' \in Nat /\ k <= k'
         /\ Score \/ assessment' = assessment
         /\ StoreReport \/ report' = report
<1>1. ASSUME Quiet \/ \E r \in Requests : Proving(r)
      PROVE  /\ ev \subseteq ev' /\ k' \in Nat /\ k <= k'
             /\ assessment' = assessment /\ report' = report
  BY <1>1 DEF Quiet, Proving
<1>2. ASSUME Normalize \/ Collect \/ CheckConsistency \/ Score \/ StoreReport
      PROVE  /\ ev \subseteq ev' /\ k' \in Nat /\ k <= k'
             /\ Score \/ assessment' = assessment
             /\ StoreReport \/ report' = report
  BY <1>2, StageEffects
<1>3. ASSUME NEW stage \in Adapters, Ask(stage)
      PROVE  /\ ev \subseteq ev' /\ k' \in Nat /\ k <= k'
             /\ assessment' = assessment /\ report' = report
  <2>1. PICK a \in Answers[stage] : Asked(stage, a)
    BY <1>3, AskEffect
  <2>2. ev' = ev \cup Fetch(stage, a).rows /\ k' = k + 1
    BY <2>1 DEF Asked
  <2>3. assessment' = assessment /\ report' = report
    BY <2>1 DEF Asked
  <2> QED BY <2>2, <2>3
<1> QED BY <1>1, <1>2, <1>3, StepKinds

LEMMA AssessmentMadeStep ==
  ASSUME IInv, [Next]_vars
  PROVE  AssessmentMade'
<1>1. k \in 1..17 /\ AssessmentMade /\ ComparisonsCite
  BY SixteenStages DEF IInv, TypeOK
<1>2. ASSUME Score PROVE AssessmentMade'
  <2>1. PICK others \in Neighbours : assessment' = Assess(ev, cmp, others)
    BY <1>1, <1>2, StageEffects
  <2>2. k' = 16 /\ ev' = ev
    BY <1>1, <1>2, StageEffects
  <2>3. Assessed(assessment', ev)
    BY <1>1, <2>1, AssessmentIsSound DEF ComparisonsCite
  <2> QED BY <2>2, <2>3 DEF AssessmentMade
<1>3. ASSUME assessment' = assessment PROVE AssessmentMade'
  <2>1. ev \subseteq ev' /\ k' \in Nat /\ k <= k'
    BY <1>1, Growth
  <2>2. Scored' <=> Scored
    BY <1>3 DEF Scored
  <2>3. Scored => k' > 15
    BY <1>1, <2>1 DEF AssessmentMade
  <2>4. Scored => Assessed(assessment', ev')
    BY <1>1, <1>3, <2>1, MoreRows DEF AssessmentMade
  <2> QED BY <2>2, <2>3, <2>4 DEF AssessmentMade
<1> QED BY <1>1, <1>2, <1>3, Growth

\* The report names the source of every row an assessment of stored rows cites.
LEMMA ReportNamesSources ==
  ASSUME NEW rows, NEW comparisons, NEW a, NEW status, Assessed(a, rows)
  PROVE  LET r == AssembleReport(rows, comparisons, a, status)
         IN  /\ r.triage = DeriveTriage(RereadOverall(a.overall), Names(a.signals))
             /\ \A l \in Layers : \A s \in a.signals[l] : \A c \in s.cites :
                  /\ c.source \in r.layers[l].sources
                  /\ r.sources[c.source] = "available"
<1> DEFINE r == AssembleReport(rows, comparisons, a, status)
           present == {e.source : e \in rows}
<1>1. /\ r.triage = DeriveTriage(RereadOverall(a.overall), Names(a.signals))
      /\ r.layers = Explain(a, rows)
      /\ r.sources = SourceList(rows, status)
  BY AssessedIsRow DEF AssembleReport
<1>2. ASSUME NEW l \in Layers, NEW s \in a.signals[l], NEW c \in s.cites
      PROVE  c.source \in Explain(a, rows)[l].sources
  <2>1. c \in rows
    BY <1>2 DEF Assessed, SoundSignals, Sound
  <2>2. c \in rows \cap UNION {t.cites : t \in a.signals[l]}
    BY <1>2, <2>1
  <2>3. Explain(a, rows)[l].sources
          = {e.source : e \in rows \cap UNION {t.cites : t \in a.signals[l]}}
    BY <1>2 DEF Explain
  <2> QED BY <2>2, <2>3
<1>3. ASSUME NEW l \in Layers, NEW s \in a.signals[l], NEW c \in s.cites
      PROVE  SourceList(rows, status)[c.source] = "available"
  <2>1. c \in rows
    BY <1>3 DEF Assessed, SoundSignals, Sound
  <2>2. c.source \in present
    BY <2>1
  <2> HIDE DEF present
  <2> QED BY <2>2 DEF SourceList, present
<1> HIDE DEF r
<1> QED BY <1>1, <1>2, <1>3 DEF r

LEMMA ReportMadeStep ==
  ASSUME IInv, [Next]_vars
  PROVE  ReportMade'
<1>1. k \in 1..17 /\ AssessmentMade /\ ReportMade
  BY SixteenStages DEF IInv, TypeOK
<1>2. ASSUME StoreReport PROVE ReportMade'
  <2>1. /\ report' = AssembleReport(ev, cmp, assessment, avail)
        /\ k' = 17 /\ assessment' = assessment
    BY <1>1, <1>2, StageEffects
  <2>2. Scored' <=> Scored
    BY <2>1 DEF Scored
  <2>3. Scored => Assessed(assessment, ev)
    BY <1>1 DEF AssessmentMade
  <2>4. k' > 16
    BY <2>1
  <2> QED BY <2>1, <2>2, <2>3, <2>4, ReportNamesSources DEF ReportMade
<1>3. ASSUME Score PROVE ReportMade'
  <2>1. k = 15 /\ report' = report
    BY <1>1, <1>3, StageEffects
  <2>2. report' = NoReport
    BY <1>1, <2>1 DEF ReportMade
  <2> QED BY <2>2 DEF ReportMade
<1>4. ASSUME report' = report, assessment' = assessment PROVE ReportMade'
  <2>1. k' \in Nat /\ k <= k'
    BY <1>1, Growth
  <2> QED BY <1>1, <1>4, <2>1 DEF ReportMade, Scored
<1> QED BY <1>1, <1>2, <1>3, <1>4, Growth

LEMMA NeverSkippedStep ==
  ASSUME IInv, [Next]_vars
  PROVE  NeverSkipped'
<1>1. k \in 1..17 /\ NeverSkipped /\ ComparisonsCite
  BY SixteenStages DEF IInv, TypeOK
<1>2. /\ NeverSkipped <=> /\ k > 15 /\ "scoring" \notin lost => Scored
                          /\ k > 16 /\ "store_report" \notin lost => report # NoReport
      /\ NeverSkipped' <=> /\ k' > 15 /\ "scoring" \notin lost' => Scored'
                           /\ k' > 16 /\ "store_report" \notin lost' => report' # NoReport
  BY DEF NeverSkipped
<1>3. ASSUME Quiet PROVE NeverSkipped'
  <2>1. /\ Scored' <=> Scored
        /\ report' = report
    BY <1>3 DEF Quiet, Scored
  <2>2. CASE k' = k /\ lost' = lost
    BY <1>1, <1>2, <2>1, <2>2
  <2>3. CASE /\ k \in 1..16 /\ k' = k + 1
             /\ \/ lost' = lost \cup {Stages[k]}
                \/ lost' = lost /\ Stages[k] \notin AlwaysRun
    <3>1. k = 15 => Stages[k] = "scoring" /\ "scoring" \in AlwaysRun
      BY DEF Stages, AlwaysRun
    <3>2. k = 16 => Stages[k] = "store_report" /\ "store_report" \in AlwaysRun
      BY DEF Stages, AlwaysRun
    <3>3. lost \subseteq lost' /\ (k > 14 => Stages[k] \in lost' \/ Stages[k] \notin AlwaysRun)
      BY <2>3
    <3>4. ASSUME k' > 15, "scoring" \notin lost' PROVE Scored'
      BY <1>1, <1>2, <2>1, <2>3, <3>1, <3>3, <3>4
    <3>5. ASSUME k' > 16, "store_report" \notin lost' PROVE report' # NoReport
      BY <1>1, <1>2, <2>1, <2>3, <3>2, <3>3, <3>5
    <3> QED BY <1>2, <3>4, <3>5
  <2> QED BY <1>3, <2>2, <2>3 DEF Quiet
<1>4. ASSUME Score PROVE NeverSkipped'
  <2>1. PICK others \in Neighbours : assessment' = Assess(ev, cmp, others)
    BY <1>1, <1>4, StageEffects
  <2>2. k' = 16
    BY <1>1, <1>4, StageEffects
  <2>3. Assessed(assessment', ev)
    BY <1>1, <2>1, AssessmentIsSound DEF ComparisonsCite
  <2>4. Scored'
    BY <2>3, AssessedIsRow DEF Scored
  <2> QED BY <1>2, <2>2, <2>4
<1>5. ASSUME StoreReport PROVE NeverSkipped'
  <2>1. /\ report' = AssembleReport(ev, cmp, assessment, avail)
        /\ k = 16 /\ lost' = lost /\ assessment' = assessment
    BY <1>1, <1>5, StageEffects
  <2>2. "status" \in DOMAIN report'
    BY <2>1 DEF AssembleReport
  <2>3. DOMAIN NoReport = {}
    BY DEF NoReport
  <2>4. report' # NoReport
    BY <2>2, <2>3
  <2>5. Scored' <=> Scored
    BY <2>1 DEF Scored
  <2>6. k > 15
    BY <2>1
  <2> QED BY <1>1, <1>2, <2>1, <2>4, <2>5, <2>6
<1>6. ASSUME k' < 16 PROVE NeverSkipped'
  <2>1. k' \in Nat
    BY <1>1, Growth
  <2>2. ~ (k' > 15) /\ ~ (k' > 16)
    BY <1>6, <2>1
  <2> QED BY <1>2, <2>2
<1>7. ASSUME \E r \in Requests : Proving(r) PROVE NeverSkipped'
  <2>1. k' = k /\ lost' = lost /\ assessment' = assessment /\ report' = report
    BY <1>7 DEF Proving
  <2> QED BY <1>1, <1>2, <2>1 DEF Scored
<1>8. ASSUME NEW stage \in Adapters, Ask(stage) PROVE NeverSkipped'
  <2>1. PICK a \in Answers[stage] : Asked(stage, a)
    BY <1>1, <1>8, AskEffect
  <2>2. k' < 16
    BY <2>1 DEF Asked
  <2> QED BY <1>6, <2>2
<1>9. ASSUME Normalize \/ Collect \/ CheckConsistency PROVE NeverSkipped'
  BY <1>1, <1>6, <1>9, StageEffects
<1> QED BY <1>1, <1>3, <1>4, <1>5, <1>7, <1>8, <1>9, StepKinds

-----------------------------------------------------------------------------
(* What a provider says is in the rows fetched from it.                    *)

LEMMA SanctionsFetched ==
  ASSUME NEW n, NEW a, a.kind = "answer", NEW e \in a.entries, NamesMatch(e, n.name)
  PROVE  SanctionsFlag \in ScreenSanctions(n, a).rows
<1> DEFINE hits == {x \in a.entries : CoreName(x) = CoreName(n.name)}
           rows == {Row("sanctions", 1, "sanctions_hit", x) : x \in hits}
                     \cup {SanctionsFlag}
<1>1. e \in hits /\ n.name # {}
  BY DEF NamesMatch, CoreName
<1>2. ScreenSanctions(n, a) = Success(rows)
  BY <1>1 DEF ScreenSanctions, SanctionsFlag, Failures
<1> HIDE DEF hits
<1> QED BY <1>2 DEF Success

LEMMA OfficerFetched ==
  ASSUME NEW list, NEW a, a.configured, NEW i \in DOMAIN list, a.disposition[i] = "MATCH"
  PROVE  \E e \in ScreenPeople(list, a.disposition, a.configured).rows : OfficerHit(e)
<1> DEFINE Of(j) == Row("officer_screening", 1, "officer_screening_result",
                        {a.disposition[j], list[j].name})
           rows == {Of(j) : j \in DOMAIN list}
<1>1. list # <<>>
  OBVIOUS
<1>2. ScreenPeople(list, a.disposition, a.configured).rows = rows
  BY <1>1 DEF ScreenPeople, Success
<1>3. OfficerHit(Of(i))
  BY DEF OfficerHit, Row
<1>4. Of(i) \in rows
  OBVIOUS
<1> HIDE DEF Of, rows
<1> QED BY <1>2, <1>3, <1>4

LEMMA ExclusionFetched ==
  ASSUME NEW n, NEW set, NEW a, n.country = {"US"}, a.sam.kind \in {"fresh", "stale"},
         NEW x \in a.sam.exclusions, NamesMatch(x.name, n.name),
         x.class # "Individual", x.us, ~x.ended,
         (UNION {e.val : e \in RegisteredIn(set)}) \cap States = {x.state}
  PROVE  ExclusionRow \in PublicRecordsOutcome(n, set, a.court, a.sam).rows
<1> DEFINE state == SubmissionState(n, set)
           rows == {Record(ExclusionFacts(y, state)) :
                      y \in {z \in a.sam.exclusions : ExclusionMatches(n, z)}}
<1>1. state = x.state
  <2> DEFINE places == UNION {e.val : e \in RegisteredIn(set)}
             found == IF places \cap States # {} THEN places \cap States
                                                 ELSE n.address \cap States
  <2>1. SubmissionState(n, set) = IF found = {} THEN "unknown" ELSE CHOOSE s \in found : TRUE
    BY DEF SubmissionState
  <2>2. places \cap States = {x.state}
    OBVIOUS
  <2> HIDE DEF places
  <2>3. found = {x.state}
    BY <2>2
  <2> HIDE DEF found
  <2> QED BY <2>1, <2>3
<1>2. x.state # "unknown"
  BY DEF States
<1>3. ExclusionMatches(n, x)
  BY DEF ExclusionMatches, NamesMatch
<1> HIDE DEF state
<1>4. ExclusionFacts(x, state) = {"federal_exclusion", "strong", "active"}
  BY <1>1, <1>2 DEF ExclusionFacts
<1>5. ExclusionRow \in rows
  BY <1>3, <1>4 DEF ExclusionRow
<1>6. rows \subseteq SamRecords(n, set, a.sam).rows
  BY DEF SamRecords, state
<1> HIDE DEF rows
<1> QED BY <1>5, <1>6 DEF PublicRecordsOutcome

LEMMA BankruptcyFetched ==
  ASSUME NEW n, NEW set, NEW a, n.country = {"US"}, a.court.kind = "answer",
         NEW d \in a.court.dockets, NamesMatch(d.case, n.name),
         ~d.closed, d.recent, d.detail = "fresh",
         ~ \E x \in a.court.dockets : x.filed > d.filed
  PROVE  BankruptcyRow \in PublicRecordsOutcome(n, set, a.court, a.sam).rows
<1> DEFINE newer == {x \in a.court.dockets : WouldScore(n, x) /\ x.filed > d.filed}
           rows == {Record(BankruptcyFacts(n, x, a.court.dockets)) :
                      x \in {y \in a.court.dockets : CaseMatch(n, y) # "none"}}
<1>1. CaseMatch(n, d) = "strong" /\ WouldScore(n, d)
  BY DEF CaseMatch, WouldScore, NamesMatch
<1>2. newer = {}
  OBVIOUS
<1> HIDE DEF newer
<1>3. Cardinality(newer) = 0
  BY <1>2, FS_EmptySet
<1>4. LookedUp(n, d, a.court.dockets)
  BY <1>1, <1>3, FreshnessBudgetAssumption DEF LookedUp, newer
<1>5. BankruptcyFacts(n, d, a.court.dockets) = {"bankruptcy", "strong", "open", "recent"}
  BY <1>1, <1>4 DEF BankruptcyFacts
<1>6. BankruptcyRow \in rows
  BY <1>1, <1>5 DEF BankruptcyRow
<1>7. rows \subseteq CourtRows(n, a.court)
  BY DEF CourtRows
<1>8. CoreName(n.name) # {}
  BY DEF NamesMatch
<1>9. CourtRows(n, a.court) \subseteq CourtListener(n, a.court).rows
  BY <1>8 DEF CourtListener, Failures
<1> HIDE DEF rows
<1> QED BY <1>6, <1>7, <1>9 DEF PublicRecordsOutcome

\* Where the company is registered is known before its records are asked for.
LEMMA SameRegister ==
  ASSUME NEW rows, NEW more, rows \subseteq more,
         \A e \in more \ rows : e.field \notin {"jurisdiction", "tax_id_jurisdiction"}
  PROVE  RegisteredIn(more) = RegisteredIn(rows)
BY DEF RegisteredIn

\* Nothing that was said changes while nothing is heard.
LEMMA SameHits ==
  ASSUME heard' = heard, normalized' = normalized,
         RegisteredIn(ev') = RegisteredIn(ev)
  PROVE  /\ OnSanctionsList' => OnSanctionsList
         /\ people' = people \/ ~Heard("screen_people") => (OfficerMatched' => OfficerMatched)
         /\ Excluded' => Excluded
         /\ Bankrupt' => Bankrupt
<1>1. OnSanctionsList' => OnSanctionsList
  BY DEF OnSanctionsList, Heard
<1>2. people' = people \/ ~Heard("screen_people") => (OfficerMatched' => OfficerMatched)
  BY DEF OfficerMatched, Heard
<1>3. Excluded' => Excluded
  BY DEF Excluded, Heard
<1>4. Bankrupt' => Bankrupt
  BY DEF Bankrupt, Heard
<1> QED BY <1>1, <1>2, <1>3, <1>4

LEMMA HitsKept ==
  ASSUME HitsStored, ev \subseteq ev',
         OnSanctionsList' => OnSanctionsList, OfficerMatched' => OfficerMatched,
         Excluded' => Excluded, Bankrupt' => Bankrupt
  PROVE  HitsStored'
BY DEF HitsStored, SanctionsFlag, OfficerHit, ExclusionRow, BankruptcyRow

\* Asking one provider: what it says is stored, the rest is as it was.
LEMMA AskedSanctions ==
  ASSUME HitsStored, HeardInOrder, NEW stage, NEW a, Asked(stage, a), OnSanctionsList'
  PROVE  SanctionsFlag \in ev'
<1>1. CASE stage = "sanctions_screening"
  <2>1. heard'["sanctions_screening"] = a /\ normalized' = normalized
    BY <1>1, HearMore DEF Asked
  <2>2. a.kind = "answer" /\ \E e \in a.entries : NamesMatch(e, normalized.name)
    BY <2>1 DEF OnSanctionsList
  <2>3. SanctionsFlag \in ScreenSanctions(normalized, a).rows
    BY <2>2, SanctionsFetched
  <2> QED BY <1>1, <2>3 DEF Asked, Fetch
<1>2. CASE stage # "sanctions_screening"
  <2>1. OnSanctionsList
    BY <1>2, HearMore DEF Asked, OnSanctionsList, Heard
  <2> QED BY <2>1 DEF HitsStored, Asked
<1> QED BY <1>1, <1>2

LEMMA AskedPeople ==
  ASSUME HitsStored, HeardInOrder, NEW stage, NEW a, Asked(stage, a), OfficerMatched'
  PROVE  \E e \in ev' : OfficerHit(e)
<1>1. CASE stage = "screen_people"
  <2>1. heard'["screen_people"] = a /\ people' = people
    BY <1>1, HearMore DEF Asked
  <2>2. a.configured /\ \E i \in DOMAIN people : a.disposition[i] = "MATCH"
    BY <2>1 DEF OfficerMatched
  <2>3. \E e \in ScreenPeople(people, a.disposition, a.configured).rows : OfficerHit(e)
    BY <2>2, OfficerFetched
  <2>4. ev' = ev \cup ScreenPeople(people, a.disposition, a.configured).rows
    BY <1>1 DEF Asked, Fetch
  <2> QED BY <2>3, <2>4
<1>2. CASE stage # "screen_people"
  <2>1. OfficerMatched
    BY <1>2, HearMore DEF Asked, OfficerMatched, Heard
  <2> QED BY <2>1 DEF HitsStored, Asked
<1> QED BY <1>1, <1>2

LEMMA AskedExclusion ==
  ASSUME HitsStored, HeardInOrder, ContextRead, NEW stage \in Adapters,
         NEW a \in Answers[stage], Asked(stage, a), Excluded'
  PROVE  ExclusionRow \in ev'
<1>1. stage \notin Registers
  <2> SUFFICES ASSUME stage \in Registers PROVE FALSE
    OBVIOUS
  <2>1. k < Place["public_records"] /\ stage # "public_records"
    BY DEF Asked, Registers, Place
  <2>2. "public_records" \in DOMAIN heard'
    BY DEF Excluded, Heard
  <2>3. DOMAIN heard' = DOMAIN heard \cup {stage}
    BY HearMore
  <2>4. "public_records" \in DOMAIN heard
    BY <2>1, <2>2, <2>3
  <2>5. Place["public_records"] < k
    BY <2>4 DEF HeardInOrder
  <2> QED BY <2>1, <2>5 DEF Asked, Place
<1>2. RegisteredIn(ev') = RegisteredIn(ev)
  <2>1. \A e \in Fetch(stage, a).rows : RowOf(stage, a, e)
    BY FetchedRows DEF ContextRead
  <2>2. \A e \in Fetch(stage, a).rows :
          e.field \notin {"jurisdiction", "tax_id_jurisdiction"}
    BY <1>1, <2>1 DEF RowOf
  <2>3. ev' = ev \cup Fetch(stage, a).rows
    BY DEF Asked
  <2> QED BY <2>2, <2>3, SameRegister
<1>3. CASE stage = "public_records"
  <2>1. heard'["public_records"] = a /\ normalized' = normalized
    BY <1>3, HearMore DEF Asked
  <2>2. /\ normalized.country = {"US"}
        /\ a.sam.kind \in {"fresh", "stale"}
        /\ \E x \in a.sam.exclusions :
             /\ NamesMatch(x.name, normalized.name)
             /\ x.class # "Individual" /\ x.us /\ ~x.ended
             /\ (UNION {e.val : e \in RegisteredIn(ev)}) \cap States = {x.state}
    BY <1>2, <2>1 DEF Excluded
  <2>3. ExclusionRow \in PublicRecordsOutcome(normalized, ev, a.court, a.sam).rows
    BY <2>2, ExclusionFetched
  <2> QED BY <1>3, <2>3 DEF Asked, Fetch
<1>4. CASE stage # "public_records"
  <2>1. Excluded
    BY <1>2, <1>4, HearMore DEF Asked, Excluded, Heard
  <2> QED BY <2>1 DEF HitsStored, Asked
<1> QED BY <1>3, <1>4

LEMMA AskedCourt ==
  ASSUME HitsStored, HeardInOrder, NEW stage, NEW a, Asked(stage, a), Bankrupt'
  PROVE  BankruptcyRow \in ev'
<1>1. CASE stage = "public_records"
  <2>1. heard'["public_records"] = a /\ normalized' = normalized
    BY <1>1, HearMore DEF Asked
  <2>2. /\ normalized.country = {"US"}
        /\ a.court.kind = "answer"
        /\ \E d \in a.court.dockets :
             /\ NamesMatch(d.case, normalized.name)
             /\ ~d.closed /\ d.recent /\ d.detail = "fresh"
             /\ ~ \E x \in a.court.dockets : x.filed > d.filed
    BY <2>1 DEF Bankrupt
  <2>3. BankruptcyRow \in PublicRecordsOutcome(normalized, ev, a.court, a.sam).rows
    BY <2>2, BankruptcyFetched
  <2> QED BY <1>1, <2>3 DEF Asked, Fetch
<1>2. CASE stage # "public_records"
  <2>1. Bankrupt
    BY <1>2, HearMore DEF Asked, Bankrupt, Heard
  <2> QED BY <2>1 DEF HitsStored, Asked
<1> QED BY <1>1, <1>2

LEMMA HitsStoredStep ==
  ASSUME IInv, [Next]_vars
  PROVE  HitsStored'
<1>1. k \in 1..17 /\ HitsStored /\ HeardInOrder /\ ContextRead
  BY SixteenStages DEF IInv, TypeOK
<1>2. ASSUME NEW stage \in Adapters, Ask(stage) PROVE HitsStored'
  <2>1. PICK a \in Answers[stage] : Asked(stage, a)
    BY <1>1, <1>2, AskEffect
  <2>2. (SanctionsFlag \in ev)' <=> SanctionsFlag \in ev'
    BY DEF SanctionsFlag
  <2>3. (\E e \in ev : OfficerHit(e))' <=> \E e \in ev' : OfficerHit(e)
    BY DEF OfficerHit
  <2>4. (ExclusionRow \in ev)' <=> ExclusionRow \in ev'
    BY DEF ExclusionRow
  <2>5. (BankruptcyRow \in ev)' <=> BankruptcyRow \in ev'
    BY DEF BankruptcyRow
  <2>6. OnSanctionsList' => (SanctionsFlag \in ev)'
    BY <1>1, <2>1, <2>2, AskedSanctions
  <2>7. OfficerMatched' => (\E e \in ev : OfficerHit(e))'
    BY <1>1, <2>1, <2>3, AskedPeople
  <2>8. Excluded' => (ExclusionRow \in ev)'
    BY <1>1, <2>1, <2>4, AskedExclusion
  <2>9. Bankrupt' => (BankruptcyRow \in ev)'
    BY <1>1, <2>1, <2>5, AskedCourt
  <2> QED BY <2>6, <2>7, <2>8, <2>9 DEF HitsStored
<1>3. ASSUME Normalize PROVE HitsStored'
  <2>1. k = 1 /\ heard' = heard
    BY <1>1, <1>3, StageEffects
  <2>2. \A s \in Adapters : Place[s] >= 1 /\ Place[s] \in Nat
    BY DEF Adapters, Place
  <2>3. DOMAIN heard = {}
    <3> SUFFICES ASSUME NEW s \in DOMAIN heard PROVE FALSE
      OBVIOUS
    <3>1. s \in Adapters /\ Place[s] < 1
      BY <1>1, <2>1 DEF HeardInOrder
    <3> QED BY <2>2, <3>1
  <2>4. ~OnSanctionsList' /\ ~OfficerMatched' /\ ~Excluded' /\ ~Bankrupt'
    BY <2>1, <2>3 DEF OnSanctionsList, OfficerMatched, Excluded, Bankrupt, Heard
  <2> QED BY <2>4 DEF HitsStored
<1>4. ASSUME heard' = heard, normalized' = normalized, ev \subseteq ev',
             \A e \in ev' \ ev : e.field \notin {"jurisdiction", "tax_id_jurisdiction"},
             people' = people \/ ~Heard("screen_people")
      PROVE  HitsStored'
  BY <1>1, <1>4, SameRegister, SameHits, HitsKept
<1>5. ASSUME NEW r, Proving(r) PROVE HitsStored'
  <2>1. ProofRow(r).field \notin {"jurisdiction", "tax_id_jurisdiction"}
    BY DEF ProofRow, Row
  <2> QED BY <1>4, <1>5, <2>1 DEF Proving
<1>6. ASSUME Collect PROVE HitsStored'
  <2>1. k = 6 /\ heard' = heard /\ normalized' = normalized /\ ev' = ev
    BY <1>1, <1>6, StageEffects
  <2>2. ~Heard("screen_people")
    BY <1>1, <2>1 DEF HeardInOrder, Place, Heard
  <2> QED BY <1>4, <2>1, <2>2
<1>7. ASSUME heard' = heard, normalized' = normalized, ev' = ev, people' = people
      PROVE  HitsStored'
  BY <1>4, <1>7
<1> QED
  BY <1>1, <1>2, <1>3, <1>5, <1>6, <1>7, StepKinds, StageEffects DEF Quiet

\* And a row that was stored makes its signal.
LEMMA SignalNamed ==
  ASSUME NEW signals, NEW l \in Layers, NEW s \in signals[l]
  PROVE  s.name \in Names(signals)
BY DEF Names

LEMMA HitsMakeSignals ==
  ASSUME NEW rows
  PROVE  /\ SanctionsFlag \in rows =>
              \E s \in EntitySignals(rows) : s.name = "sanctions_hit"
         /\ (\E e \in rows : OfficerHit(e) /\ Shaped(e)) =>
              \E s \in EntitySignals(rows) : s.name = "officer_sanctions_match"
         /\ ExclusionRow \in rows =>
              \E s \in EntitySignals(rows) :
                s.name = "public_records_active_federal_exclusion"
         /\ BankruptcyRow \in rows =>
              \E s \in EntitySignals(rows) : s.name = "public_records_open_bankruptcy"
<1>1. ASSUME SanctionsFlag \in rows
      PROVE  \E s \in SanctionsSignals(RegistryRows(rows)) : s.name = "sanctions_hit"
  <2> DEFINE registry == RegistryRows(rows)
             hits == Rows(registry, "sanctions_hit") \cup Rows(registry, "sanctions_risk_flag")
  <2>1. SanctionsFlag \in hits
    BY <1>1 DEF SanctionsFlag, Row, RegistryRows, Rows
  <2> HIDE DEF registry, hits
  <2>2. Elevated("sanctions_hit", 40, hits) \in SanctionsSignals(registry)
    BY <2>1 DEF SanctionsSignals, When, hits
  <2>3. Elevated("sanctions_hit", 40, hits).name = "sanctions_hit"
    BY DEF Elevated
  <2> QED BY <2>2, <2>3 DEF registry
<1>2. ASSUME NEW e \in rows, OfficerHit(e)
      PROVE  \E s \in OfficerScreeningSignals(rows) : s.name = "officer_sanctions_match"
  <2> DEFINE asked == {r \in rows : /\ r.source = "officer_screening"
                                    /\ r.field = "officer_screening_result"}
             match == {r \in asked : "MATCH" \in r.val}
  <2>1. e \in match
    BY <1>2 DEF OfficerHit
  <2> HIDE DEF match
  <2>2. Elevated("officer_sanctions_match", 40, match) \in OfficerScreeningSignals(rows)
    BY <2>1, Zenon DEF OfficerScreeningSignals, When, match
  <2>3. Elevated("officer_sanctions_match", 40, match).name = "officer_sanctions_match"
    BY DEF Elevated
  <2> QED BY <2>2, <2>3
<1>3. ASSUME NEW facts, "strong" \in facts, Record(facts) \in rows
      PROVE  /\ {"federal_exclusion", "active"} \subseteq facts =>
                  \E s \in PublicRecordsSignals(rows) :
                    s.name = "public_records_active_federal_exclusion"
             /\ {"bankruptcy", "open", "recent"} \subseteq facts =>
                  \E s \in PublicRecordsSignals(rows) :
                    s.name = "public_records_open_bankruptcy"
  <2> DEFINE strong == {e \in rows : /\ e.source = "public_records"
                                     /\ e.field = "public_record"
                                     /\ "strong" \in e.val}
  <2>1. Record(facts) \in strong /\ Record(facts).val = facts
    BY <1>3 DEF Record, Row
  <2> DEFINE bankruptcies == {e \in strong : {"bankruptcy", "open", "recent"}
                                               \subseteq e.val}
             exclusions == {e \in strong : {"federal_exclusion", "active"} \subseteq e.val}
             bankrupt == Elevated("public_records_open_bankruptcy", 32, bankruptcies)
             excluded == Elevated("public_records_active_federal_exclusion", 36, exclusions)
  <2>2. /\ {"bankruptcy", "open", "recent"} \subseteq facts => bankruptcies # {}
        /\ {"federal_exclusion", "active"} \subseteq facts => exclusions # {}
    BY <2>1
  <2>3. /\ excluded.name = "public_records_active_federal_exclusion"
        /\ bankrupt.name = "public_records_open_bankruptcy"
    BY DEF Elevated
  <2> HIDE DEF bankruptcies, exclusions
  <2>4. /\ exclusions # {} => excluded \in PublicRecordsSignals(rows)
        /\ bankruptcies # {} => bankrupt \in PublicRecordsSignals(rows)
    BY Zenon DEF PublicRecordsSignals, When, bankruptcies, exclusions
  <2> HIDE DEF excluded, bankrupt
  <2> QED BY <2>2, <2>3, <2>4
<1>4. ExclusionRow \in rows =>
        \E s \in PublicRecordsSignals(rows) :
          s.name = "public_records_active_federal_exclusion"
  BY <1>3 DEF ExclusionRow
<1>5. BankruptcyRow \in rows =>
        \E s \in PublicRecordsSignals(rows) : s.name = "public_records_open_bankruptcy"
  BY <1>3 DEF BankruptcyRow
<1>6. /\ SanctionsSignals(RegistryRows(rows)) \subseteq EntitySignals(rows)
      /\ OfficerScreeningSignals(rows) \subseteq EntitySignals(rows)
      /\ PublicRecordsSignals(rows) \subseteq EntitySignals(rows)
  BY DEF EntitySignals
<1> QED BY <1>1, <1>2, <1>4, <1>5, <1>6

LEMMA HitsScoredStep ==
  ASSUME IInv, [Next]_vars
  PROVE  HitsScored'
<1>1. /\ k \in 1..17 /\ HitsStored /\ HitsScored /\ AssessmentMade
      /\ \A e \in ev : Shaped(e)
  BY SixteenStages, TypeParts DEF IInv, TypeOK, EvidenceType
<1> DEFINE Critical == OnSanctionsList \/ OfficerMatched \/ Excluded
<1>2. ASSUME Score PROVE HitsScored'
  <2>1. PICK others \in Neighbours : assessment' = Assess(ev, cmp, others)
    BY <1>1, <1>2, StageEffects
  <2>2. heard' = heard /\ normalized' = normalized /\ people' = people /\ ev' = ev
    BY <1>1, <1>2, StageEffects
  <2>3. (Critical' => Critical) /\ (Bankrupt' => Bankrupt)
    BY <2>2, SameHits
  <2>4. assessment'.signals["entity"] = EntitySignals(ev)
    BY <2>1 DEF Assess
  <2>5. \A s \in EntitySignals(ev) : s.name \in Names(assessment'.signals)
    BY <2>4, SignalNamed DEF Layers
  <2>6. Critical => Names(assessment'.signals) \cap CriticalEscalationSignals # {}
    BY <1>1, <2>5, HitsMakeSignals DEF HitsStored, CriticalEscalationSignals
  <2>7. Bankrupt => Names(assessment'.signals) \cap ReviewFloorSignals # {}
    BY <1>1, <2>5, HitsMakeSignals DEF HitsStored, ReviewFloorSignals
  <2> QED BY <2>3, <2>6, <2>7 DEF HitsScored
<1>3. ASSUME assessment' = assessment, heard' = heard, normalized' = normalized,
             people' = people, RegisteredIn(ev') = RegisteredIn(ev)
      PROVE  HitsScored'
  BY <1>1, <1>3, SameHits DEF HitsScored, Scored
<1>4. ASSUME ~Scored, assessment' = assessment PROVE HitsScored'
  BY <1>4 DEF HitsScored, Scored
<1>5. ASSUME NEW r, Proving(r) PROVE HitsScored'
  <2>1. ProofRow(r).field \notin {"jurisdiction", "tax_id_jurisdiction"}
    BY DEF ProofRow, Row
  <2>2. RegisteredIn(ev') = RegisteredIn(ev)
    BY <1>5, <2>1, SameRegister DEF Proving
  <2> QED BY <1>3, <1>5, <2>2 DEF Proving
<1>6. ASSUME Normalize \/ Collect \/ CheckConsistency PROVE HitsScored'
  <2>1. k < 15 /\ assessment' = assessment
    BY <1>1, <1>6, StageEffects
  <2> QED BY <1>1, <1>4, <2>1 DEF AssessmentMade
<1>7. ASSUME NEW stage \in Adapters, Ask(stage) PROVE HitsScored'
  <2>1. PICK a \in Answers[stage] : Asked(stage, a)
    BY <1>1, <1>7, AskEffect
  <2>2. k < 15 /\ assessment' = assessment
    BY <2>1 DEF Asked
  <2> QED BY <1>1, <1>4, <2>2 DEF AssessmentMade
<1>8. ASSUME Quiet \/ StoreReport PROVE HitsScored'
  <2>1. /\ assessment' = assessment /\ heard' = heard /\ normalized' = normalized
        /\ people' = people /\ ev' = ev
    BY <1>1, <1>8, StageEffects DEF Quiet
  <2> QED BY <1>3, <2>1
<1> QED BY <1>1, <1>2, <1>5, <1>6, <1>7, <1>8, StepKinds

-----------------------------------------------------------------------------
(* The people.                                                             *)

\* A stage is passed at a time, and what is lost stays lost; only Collect changes
\* the people.
LEMMA StepMoves ==
  ASSUME k \in 1..17, [Next]_vars
  PROVE  /\ k' \in {k, k + 1} /\ lost \subseteq lost' /\ ev \subseteq ev'
         /\ submission' = submission
         /\ Collect \/ people' = people
<1>1. ASSUME NEW stage \in Adapters, Ask(stage)
      PROVE  /\ k' = k + 1 /\ lost' = lost /\ ev \subseteq ev'
             /\ submission' = submission /\ people' = people
  BY <1>1, AskEffect DEF Asked
<1>2. ASSUME Quiet \/ \E r \in Requests : Proving(r)
      PROVE  /\ k' \in {k, k + 1} /\ lost \subseteq lost' /\ ev \subseteq ev'
             /\ submission' = submission /\ people' = people
  BY <1>2 DEF Quiet, Proving
<1> QED BY <1>1, <1>2, StepKinds, StageEffects

\* The budget does not come back.
LEMMA StillInTime ==
  ASSUME [Next]_vars, ~expired'
  PROVE  ~expired
BY DEF Next, Normalize, Resolve, Collect, CheckConsistency, Score, StoreReport, Retry,
   Ask, Lose, Expire, Skip, Challenge, Ended, vars

\* A run in time passes collect_people by collecting, or loses it.
LEMMA PassedInTime ==
  ASSUME k = 6, [Next]_vars, k' = 7, ~expired', "collect_people" \notin lost'
  PROVE  Collect
<1>1. ~expired /\ k \in 1..17
  BY StillInTime
<1>2. ASSUME NEW stage, At(stage) PROVE stage = "collect_people"
  BY <1>1, <1>2 DEF At, Stages
<1>3. ~Lose
  <2>1. Lose => lost' = lost \cup {Stages[6]}
    BY DEF Lose
  <2> QED BY <2>1 DEF Stages
<1>4. ~Skip
  BY <1>1 DEF Skip
<1>5. ~ \E stage \in Adapters : Ask(stage)
  BY <1>2 DEF Ask, Adapters
<1>6. ASSUME UNCHANGED k PROVE FALSE
  BY <1>6
<1>7. ~Expire /\ ~Challenge /\ ~Ended /\ ~UNCHANGED vars
  BY <1>6 DEF Expire, Challenge, Ended, vars
<1>8. ~ \E stage \in Adapters : Retry(stage)
  BY <1>6 DEF Retry
<1>9. ~Normalize /\ ~Resolve /\ ~CheckConsistency /\ ~Score /\ ~StoreReport
  BY <1>2 DEF Normalize, Resolve, CheckConsistency, Score, StoreReport
<1> QED BY <1>3, <1>4, <1>5, <1>7, <1>8, <1>9 DEF Next

LEMMA PeopleCollectedStep ==
  ASSUME IInv, [Next]_vars
  PROVE  PeopleCollected'
<1>1. k \in 1..17 /\ submission \in Submissions /\ PeopleCollected
  BY SixteenStages DEF IInv, TypeOK
<1>2. ASSUME Collect PROVE PeopleCollected'
  <2>1. PICK a \in Answers["collect_people"] :
          people' = CollectPeople(normalized, submission.people, a).people
    BY <1>2 DEF Collect
  <2>2. /\ IsList(submission.people)
        /\ a.kind = "answer" => IsList(a.people)
    BY <1>1, SubmissionsAssumption, AnswersAssumption DEF IsList
  <2>3. submission' = submission
    BY <1>1, StepMoves
  <2> QED BY <2>1, <2>2, <2>3, DeclaredAreCollected DEF PeopleCollected
<1>3. ASSUME ~Collect PROVE PeopleCollected'
  <2> SUFFICES ASSUME k' > 6, ~expired', "collect_people" \notin lost'
               PROVE  k > 6 /\ ~expired /\ "collect_people" \notin lost
    BY <1>1, <1>3, StepMoves DEF PeopleCollected
  <2>1. ~expired /\ "collect_people" \notin lost
    BY <1>1, StillInTime, StepMoves
  <2>2. ~ (k = 6 /\ k' = 7)
    BY <1>3, PassedInTime
  <2> QED BY <1>1, <2>1, <2>2, StepMoves
<1> QED BY <1>2, <1>3

LEMMA DeclaredAreScreenedStep ==
  ASSUME IInv, [Next]_vars
  PROVE  DeclaredAreScreened'
<1>1. /\ k \in 1..17 /\ HeardInOrder
      /\ PeopleCollected /\ DeclaredAreScreened
  BY SixteenStages DEF IInv, TypeOK
<1>2. ASSUME Ask("screen_people") PROVE DeclaredAreScreened'
  <2>1. "screen_people" \in Adapters
    BY DEF Adapters
  <2>2. PICK a \in Answers["screen_people"] : Asked("screen_people", a)
    BY <1>1, <1>2, <2>1, AskEffect
  <2>3. /\ k = 7 /\ people' = people /\ submission' = submission /\ lost' = lost
        /\ ev' = ev \cup ScreenPeople(people, a.disposition, a.configured).rows
        /\ heard'["screen_people"] = a
    BY <1>1, <2>2, HearMore DEF Asked, Place, Fetch
  <2>4. ~expired
    BY <1>2 DEF Ask
  <2> SUFFICES ASSUME "collect_people" \notin lost, a.configured,
                      NEW p \in Range(submission.people)
               PROVE  \E i \in DOMAIN people :
                        /\ people[i].name = p.name /\ DobCompatible(people[i].dob, p.dob)
                        /\ p.roles \subseteq people[i].roles
                        /\ \E e \in ev' : /\ e.field = "officer_screening_result"
                                          /\ e.val = {a.disposition[i], people[i].name}
    BY <2>3 DEF DeclaredAreScreened, Rows
  <2>5. PICK i \in DOMAIN people : Stands(people[i], p)
    BY <1>1, <2>3, <2>4 DEF PeopleCollected
  <2> DEFINE row == Row("officer_screening", 1, "officer_screening_result",
                        {a.disposition[i], people[i].name})
  <2>6. row \in ScreenPeople(people, a.disposition, a.configured).rows
    <3>1. people # <<>>
      BY <2>5
    <3>2. ScreenPeople(people, a.disposition, a.configured).rows
            = {Row("officer_screening", 1, "officer_screening_result",
                   {a.disposition[j], people[j].name}) : j \in DOMAIN people}
      BY <3>1 DEF ScreenPeople, Success
    <3> QED BY <2>5, <3>2
  <2>7. row.field = "officer_screening_result"
        /\ row.val = {a.disposition[i], people[i].name}
    BY DEF Row
  <2> HIDE DEF row
  <2> QED BY <2>3, <2>5, <2>6, <2>7 DEF Stands
<1>3. ASSUME heard' = heard \/ \E stage \in Adapters \ {"screen_people"} : Ask(stage)
      PROVE  DeclaredAreScreened'
  <2>1. /\ Heard("screen_people")' => Heard("screen_people")
        /\ Heard("screen_people") => heard'["screen_people"] = heard["screen_people"]
    <3>1. CASE heard' = heard
      BY <3>1 DEF Heard
    <3>2. ASSUME NEW stage \in Adapters \ {"screen_people"}, Ask(stage)
          PROVE  /\ Heard("screen_people")' => Heard("screen_people")
                 /\ Heard("screen_people") =>
                      heard'["screen_people"] = heard["screen_people"]
      <4>1. PICK a \in Answers[stage] : Asked(stage, a)
        BY <1>1, <3>2, AskEffect
      <4>2. /\ DOMAIN heard' = DOMAIN heard \cup {stage}
            /\ \A s \in DOMAIN heard : heard'[s] = heard[s]
        BY <1>1, <4>1, HearMore
      <4>3. Heard("screen_people")' <=> "screen_people" \in DOMAIN heard'
        BY DEF Heard
      <4> QED BY <3>2, <4>2, <4>3 DEF Heard
    <3> QED BY <1>3, <3>1, <3>2
  <2>2. Heard("screen_people") => people' = people
    <3>1. Heard("screen_people") => k > 7
      BY <1>1 DEF Heard, HeardInOrder, Place
    <3> QED BY <1>1, <3>1, StageEffects, StepMoves
  <2> QED BY <1>1, <2>1, <2>2, StepMoves DEF DeclaredAreScreened, Rows
<1>4. heard' = heard \/ \E stage \in Adapters : Ask(stage)
  BY <1>1, StepKinds, StageEffects DEF Quiet, Proving
<1> QED BY <1>2, <1>3, <1>4

-----------------------------------------------------------------------------
(* The invariant holds of every reachable state.                           *)

LEMMA InitIInv == Init => IInv
<1> SUFFICES ASSUME Init PROVE IInv
  OBVIOUS
<1> USE DEF Init, NoAssessment, NoReport
<1>1. OtherTypes
  <2>1. avail = [s \in {Stages[i] : i \in 1..Len(Stages)} |-> "pending"]
    OBVIOUS
  <2>2. \A s \in DOMAIN avail : avail[s] \in {"pending", "complete", "unavailable"}
    BY <2>1
  <2>3. verifying \cup proved \subseteq Requests
    BY DEF Owner!Init
  <2> QED BY <2>2, <2>3, MaxAttemptsAssumption, MaxSurprisesAssumption DEF OtherTypes
<1>2. EvidenceType
  BY DEF EvidenceType
<1>3. ContextRead
  BY DEF ContextRead, Blank
<1>4. HeardInOrder /\ ~ \E s : Heard(s)
  BY DEF HeardInOrder, Heard
<1>5. RowsWereHeard
  BY DEF RowsWereHeard
<1>6. ComparisonsCite
  BY DEF ComparisonsCite, Citing
<1>7. AssessmentMade /\ ReportMade /\ NeverSkipped /\ HitsScored
  BY DEF AssessmentMade, ReportMade, NeverSkipped, HitsScored, Scored
<1>8. HitsStored
  BY <1>4 DEF HitsStored, OnSanctionsList, OfficerMatched, Excluded, Bankrupt
<1>9. PeopleCollected /\ DeclaredAreScreened
  BY <1>4 DEF PeopleCollected, DeclaredAreScreened
<1> QED BY <1>1, <1>2, <1>3, <1>4, <1>5, <1>6, <1>7, <1>8, <1>9, TypeParts DEF IInv

LEMMA NextIInv ==
  ASSUME IInv, [Next]_vars
  PROVE  IInv'
<1>1. EvidenceType /\ OtherTypes /\ ContextRead /\ ComparisonsCite
  BY TypeParts DEF IInv
<1>2. TypeOK'
  BY <1>1, EvidenceTypeStep, OtherTypesStep, TypePartsNext
<1> QED
  BY <1>2, ContextReadStep, HeardInOrderStep, RowsWereHeardStep, ComparisonsCiteStep,
     AssessmentMadeStep, ReportMadeStep, NeverSkippedStep, HitsStoredStep, HitsScoredStep,
     PeopleCollectedStep, DeclaredAreScreenedStep
     DEF IInv

LEMMA Invariant == Spec => []IInv
BY InitIInv, NextIInv, PTL DEF Spec

-----------------------------------------------------------------------------
(* What follows from it.                                                   *)

\* Every variable has its type; the score of a layer, a sum of weights over a
\* set of signals, stays between 0 and 100 (engine.py:257).
THEOREM TypeCorrect == Spec => []TypeOK
BY Invariant, PTL DEF IInv

\* The two tiers are worked out from the same score and the same signals.
LEMMA SameTier ==
  ASSUME IInv
  PROVE  /\ Scored => assessment.tier = TriageTier(assessment.overall,
                                                   Names(assessment.signals))
         /\ Reported => report.triage.tier = assessment.tier
<1>1. /\ Scored => Assessed(assessment, ev)
      /\ ReportMade
  BY DEF IInv, AssessmentMade
<1>2. Scored => /\ assessment.overall \in Int /\ assessment.overall # 0
                /\ assessment.tier = TriageTier(assessment.overall,
                                                Names(assessment.signals))
  BY <1>1 DEF Assessed
<1>3. Reported => report.triage = DeriveTriage(RereadOverall(assessment.overall),
                                               Names(assessment.signals))
  BY <1>1 DEF Reported, ReportMade
<1> QED BY <1>2, <1>3, TiersWrittenApart DEF Reported

\* The tier the report works out for itself is the one stored with the score,
\* for every set of signals and every score (engine.py:183, triage.py:120).
THEOREM TiersAlwaysAgree == Spec => []TiersAgree
<1>1. IInv => TiersAgree
  BY SameTier DEF TiersAgree
<1> QED BY <1>1, Invariant, PTL

\* A company that a list, a matched officer or an exclusion speaks against is
\* escalated, whatever its score (engine.py:61-76).
THEOREM CriticalHitsEscalate == Spec => []CriticalEscalates
<1>1. ASSUME IInv PROVE CriticalEscalates
  <2>1. Scored /\ (OnSanctionsList \/ OfficerMatched \/ Excluded) =>
          Names(assessment.signals) \cap CriticalEscalationSignals # {}
    BY <1>1 DEF IInv, HitsScored
  <2>2. \A overall, names : names \cap CriticalEscalationSignals # {} =>
          TriageTier(overall, names) = "escalate"
    BY DEF TriageTier
  <2> QED BY <1>1, <2>1, <2>2, SameTier DEF CriticalEscalates, Reported
<1> QED BY <1>1, Invariant, PTL

\* A company with an open bankruptcy is never pre-cleared, however few dockets
\* are looked up (engine.py:78-82).
THEOREM BankruptNeverCleared == Spec => []BankruptNeverPreClears
<1>1. ASSUME IInv PROVE BankruptNeverPreClears
  <2>1. Scored /\ Bankrupt => Names(assessment.signals) \cap ReviewFloorSignals # {}
    BY <1>1 DEF IInv, HitsScored
  <2>2. \A overall, names : names \cap ReviewFloorSignals # {} =>
          TriageTier(overall, names) # "pre_clear"
    BY DEF TriageTier
  <2> QED BY <1>1, <2>1, <2>2, SameTier DEF BankruptNeverPreClears, Reported
<1> QED BY <1>1, Invariant, PTL

\* Every signal but those of absence cites stored rows, whose sources the
\* report names (README.md:126; report.py:294).
THEOREM FindingsAlwaysCited == Spec => []FindingsAreCited
<1>1. ASSUME IInv PROVE FindingsAreCited
  <2>1. Scored => \A l \in Layers : \A s \in assessment.signals[l] : Sound(s, ev)
    BY <1>1 DEF IInv, AssessmentMade, Assessed, SoundSignals
  <2>2. Scored => \A s \in Found : /\ s.cites \subseteq ev
                                   /\ s.name \notin Absences => s.cites # {}
    BY <2>1 DEF Found, Sound
  <2>3. Reported => \A l \in Layers : \A s \in assessment.signals[l] : \A c \in s.cites :
          /\ c.source \in report.layers[l].sources
          /\ report.sources[c.source] = "available"
    BY <1>1 DEF IInv, ReportMade, Reported
  <2> QED BY <2>2, <2>3 DEF FindingsAreCited
<1> QED BY <1>1, Invariant, PTL

\* No trust comes from a source whose request failed (README.md:126).
THEOREM TrustIsAnswered == Spec => []TrustNeedsAnAnswer
<1>1. ASSUME IInv PROVE TrustNeedsAnAnswer
  <2>1. Scored => \A l \in Layers : \A s \in assessment.signals[l] : Sound(s, ev)
    BY <1>1 DEF IInv, AssessmentMade, Assessed, SoundSignals
  <2>2. Scored => \A s \in Found : Sound(s, ev)
    BY <2>1 DEF Found
  <2>3. Scored => \A s \in {t \in Found : t.points < 0} : \A c \in s.cites :
                    c \in ev /\ ~NotOnFile(c)
    BY <2>2 DEF Sound
  <2>4. \A e \in ev : e.source \in DOMAIN AskedBy =>
          /\ Heard(AskedBy[e.source])
          /\ heard[AskedBy[e.source]].kind \notin Failures \/ NotOnFile(e)
    BY <1>1 DEF IInv, RowsWereHeard
  <2> QED BY <2>3, <2>4 DEF TrustNeedsAnAnswer
<1> QED BY <1>1, Invariant, PTL

\* However often the ownership of the domain was proved, it weighs once
\* (ownership.py:380, signals.py:1099).
THEOREM OwnershipCountsOnce == Spec => []OwnershipWeighsOnce
<1>1. ASSUME IInv PROVE OwnershipWeighsOnce
  <2> DEFINE proofs == {s \in Found : s.name = "domain_ownership_verified"}
  <2>1. Scored => \A s, t \in proofs : s = t
    BY <1>1 DEF IInv, AssessmentMade, Assessed, SoundSignals, Found, Proved
  <2> HIDE DEF proofs
  <2>2. Scored => proofs = {} \/ \E s : proofs = {s}
    BY <2>1
  <2>3. Scored => Cardinality(proofs) \in {0, 1}
    BY <2>2, FS_EmptySet, FS_Singleton
  <2> QED BY <2>3 DEF OwnershipWeighsOnce, proofs
<1> QED BY <1>1, Invariant, PTL

\* Whoever the submission declares is screened, whatever the registry says and
\* however many of them share a name (people.py:143, screen.py:9).
THEOREM DeclaredPeopleScreened == Spec => []DeclaredAreScreened
BY Invariant, PTL DEF IInv

\* However the run's budget ends, it has a score and a report at its end,
\* unless these very stages were lost (orchestrator.py:322).
THEOREM RunsEndReported == Spec => []EndsReported
<1>1. ASSUME IInv PROVE EndsReported
  <2>1. k \in 1..17 /\ NeverSkipped
    BY <1>1, SixteenStages DEF IInv, TypeOK
  <2>2. Done => k > 15 /\ k > 16
    BY <2>1, SixteenStages DEF Done
  <2> QED BY <2>1, <2>2 DEF EndsReported, NeverSkipped
<1> QED BY <1>1, Invariant, PTL

=============================================================================
