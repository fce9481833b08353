------------------------------- MODULE Signals -------------------------------
(***************************************************************************)
(* The catalogue that turns the evidence of one verification run into      *)
(* named, weighted signals, one set of signals per scoring layer           *)
(* (scoring/signals.py).                                                   *)
(*                                                                         *)
(* A row of evidence is [source, tier, field, val]; val is the set of the  *)
(* facts the catalogue reads in the row ("true", "active", "strong", ...). *)
(* A signal is [name, points, cites]: points is weight * 40, the most it   *)
(* moves a layer's score, positive when the signal is "elevated" and       *)
(* negative when it is "trust"; cites are the rows it is attributed to.    *)
(* A layer's signals are kept apart by layer, so a signal does not carry   *)
(* its layer.                                                              *)
(***************************************************************************)
EXTENDS Integers, FiniteSets

CONSTANT ReuseHigh  \* other submissions on one network that make a campaign (3)

ASSUME ReuseHighAssumption == ReuseHigh \in Nat \ {0, 1}

Elevated(name, points, cites) ==
    [name |-> name, points |-> points, cites |-> cites]

Trust(name, points, cites) ==
    [name |-> name, points |-> -points, cites |-> cites]

When(cond, signal) == IF cond THEN {signal} ELSE {}

Rows(ev, field) == {e \in ev : e.field = field}

\* Rows whose value reads as true ("true", "1", "yes").
TrueRows(ev, field) == {e \in Rows(ev, field) : "true" \in e.val}

\* The first row of a query that has no order.
FirstOf(rows) == IF rows = {} THEN {} ELSE {CHOOSE e \in rows : TRUE}

-----------------------------------------------------------------------------
(* Layer 1: does the business exist?                                       *)

\* Tier-1 rows that are about the registry: tax-ID, officer and public-record
\* rows have signals of their own. A sanctions row is counted as one.
RegistryRows(ev) ==
    {e \in ev : /\ e.tier = 1
                /\ e.source \notin {"tax_id", "officer_screening",
                                    "public_records"}}

\* Seeded fault: a cleared company's signal cites the hits it does not have.
SanctionsSignals_CitesHits(rows) ==
    LET hits == Rows(rows, "sanctions_hit") \cup Rows(rows, "sanctions_risk_flag")
        screened == Rows(rows, "sanctions_screened")
    IN  When(hits # {}, Elevated("sanctions_hit", 40, hits))
          \cup When(hits = {} /\ screened # {},
                    Trust("sanctions_cleared", 8, hits))

SanctionsSignals(rows) ==
    LET hits == Rows(rows, "sanctions_hit") \cup Rows(rows, "sanctions_risk_flag")
        screened == Rows(rows, "sanctions_screened")
    IN  When(hits # {}, Elevated("sanctions_hit", 40, hits))
          \cup When(hits = {} /\ screened # {},
                    Trust("sanctions_cleared", 8, screened))

\* The registry's status is searched for the words active, incorporated, live
\* and registered, wherever they stand in it: "inactive" holds one of them.
ReadsAsActive == {"active", "inactive"}

StatusSignals(rows) ==
    LET status == Rows(rows, "registration_status")
        active == {e \in status : e.val \cap ReadsAsActive # {}}
    IN  When(active # {}, Trust("registry_status_active", 12, active))
          \cup When(status # {} /\ active = {},
                    Elevated("registry_status_inactive", 12, FirstOf(status)))

RegistrySignals(rows) ==
    LET name == Rows(rows, "company_name")
        number == Rows(rows, "registration_number")
        conflict == Rows(rows, "registry_identity_conflict")
    IN  (IF name # {}
           THEN {Trust("registry_name_confirmed", 24, name)}
           ELSE {Elevated("registry_name_unconfirmed", 16, FirstOf(rows))})
          \cup When(number # {},
                    Trust("registration_number_present", 16, number))
          \cup StatusSignals(rows)
          \cup When(conflict # {},
                    Elevated("conflicting_company_identities", 20, conflict))

\* No tax-ID row contributes nothing; "not_found" ends the reading.
TaxIdSignals(ev) ==
    LET rows == {e \in ev : e.source = "tax_id"}
        status == Rows(rows, "tax_id_status")
        match == Rows(rows, "tax_id_name_match")
        Is(s) == \E e \in status : s \in e.val
        NameIs(s) == \E e \in match : s \in e.val
    IN  IF Is("not_found") THEN {Elevated("tax_id_not_found", 20, status)}
        ELSE When(Is("inactive"),
                  Elevated("tax_id_inactive_or_dissolved", 16, status))
               \cup When(status # {} /\ NameIs("mismatch"),
                         Elevated("tax_id_name_mismatch", 20, match))
               \cup When(Is("verified") /\ match = {},
                         Trust("tax_id_verified_name_unconfirmed", 10, status))
               \cup When(Is("verified") /\ NameIs("match"),
                         Trust("tax_id_verified_active", 20, status \cup match))

\* CLEAR earns no trust, and screening that was unavailable adds nothing.
OfficerScreeningSignals(ev) ==
    LET rows == {e \in ev : /\ e.source = "officer_screening"
                            /\ e.field = "officer_screening_result"}
        match == {e \in rows : "MATCH" \in e.val}
        review == {e \in rows : "REVIEW" \in e.val}
    IN  When(match # {}, Elevated("officer_sanctions_match", 40, match))
          \cup When(review # {},
                    Elevated("officer_screening_review", 16, review))

\* Only strong matches score, and no record earns trust. "recent" is filed
\* within OPEN_BANKRUPTCY_WINDOW_DAYS of the fetch (_filed_recently).
PublicRecordsSignals(ev) ==
    LET strong == {e \in ev : /\ e.source = "public_records"
                              /\ e.field = "public_record"
                              /\ "strong" \in e.val}
        bankruptcies == {e \in strong : {"bankruptcy", "open", "recent"}
                                          \subseteq e.val}
        exclusions == {e \in strong : {"federal_exclusion", "active"}
                                        \subseteq e.val}
    IN  When(bankruptcies # {},
             Elevated("public_records_open_bankruptcy", 32, bankruptcies))
          \cup When(exclusions # {},
                    Elevated("public_records_active_federal_exclusion", 36,
                             exclusions))

\* LinkedIn rows. A page is established with 10 employees or 500 followers
\* ("many"), thin with fewer than 5 and fewer than 50 (both "few").
LinkedInPage(ev) ==
    LET rows == {e \in ev : e.source = "linkedin"}
        employees == Rows(rows, "linkedin_employee_count")
        followers == Rows(rows, "linkedin_followers")
        counts == employees \cup followers
        Few(c) == \E e \in c : "few" \in e.val
    IN  [presence    |-> Rows(rows, "linkedin_presence"),
         found       |-> \E e \in Rows(rows, "linkedin_presence") : "found" \in e.val,
         established |-> \E e \in counts : "many" \in e.val,
         thin        |-> Few(employees) /\ Few(followers),
         counts      |-> counts,
         created     |-> Rows(rows, "linkedin_page_created"),
         requester   |-> TrueRows(rows, "linkedin_requester_match")]

LinkedInEntitySignals(ev) ==
    LET page == LinkedInPage(ev)
    IN  When(page.found /\ page.established,
             Trust("linkedin_presence_corroborates_entity", 4, page.presence))

EntitySignals(ev) ==
    LET rows == RegistryRows(ev)
    IN  SanctionsSignals(rows)
          \cup (IF rows = {} THEN {Elevated("no_registry_evidence", 40, {})}
                             ELSE RegistrySignals(rows))
          \cup TaxIdSignals(ev)
          \cup LinkedInEntitySignals(ev)
          \cup OfficerScreeningSignals(ev)
          \cup PublicRecordsSignals(ev)

-----------------------------------------------------------------------------
(* Layer 2: does it control the domain it claims?                          *)

\* The age of the domain: "aged" from three years on, "established" from one.
Aged(rows) == {e \in Rows(rows, "domain_age_days") : "aged" \in e.val}
Established(rows) == {e \in Rows(rows, "domain_age_days") : "established" \in e.val}

DomainAgeSignals(rows) ==
    When(Aged(rows) # {}, Trust("long_lived_domain", 20, Aged(rows)))
      \cup When(Established(rows) # {},
                Trust("established_domain", 10, Established(rows)))
      \cup When(TrueRows(rows, "recently_registered") # {},
                Elevated("recently_registered_domain", 24,
                         TrueRows(rows, "recently_registered")))

MailSignals(rows) ==
    LET mx == TrueRows(rows, "mx_present")
        no_mx == TrueRows(rows, "no_mx")
        spf == TrueRows(rows, "spf_present")
        dkim == TrueRows(rows, "dkim_present")
    IN  When(mx # {}, Trust("has_mx_records", 12, mx))
          \cup When(no_mx # {}, Elevated("no_mx_records", 16, no_mx))
          \cup When(spf # {}, Trust("spf_configured", 8, spf))
          \cup When(dkim # {}, Trust("dkim_configured", 6, dkim))

InfrastructureSignals(ev) ==
    LET rows == {e \in ev : e.tier = 2}
        ssl == Rows(rows, "ssl_issuer") \cup Rows(rows, "ssl_valid")
    IN  IF rows = {}
          THEN {Elevated("infrastructure_data_unavailable", 12, {})}
          ELSE DomainAgeSignals(rows) \cup MailSignals(rows)
                 \cup When(ssl # {}, Trust("ssl_present", 8, FirstOf(ssl)))

-----------------------------------------------------------------------------
(* Layer 3: does the requester plausibly represent it? cmp maps the fields *)
(* the run compared to [status, cites]: cites is the row a comparison      *)
(* names, if it names one.                                                 *)

ComparedFields == {"company_name", "country_iso", "billing_address"}

ComparisonPoints ==
    [company_name |-> 20, country_iso |-> 12, billing_address |-> 10]

Consistent ==
    [company_name    |-> "consistent_company_name",
     country_iso     |-> "consistent_country_iso",
     billing_address |-> "consistent_billing_address"]

Mismatched ==
    [company_name    |-> "company_name_mismatch",
     country_iso     |-> "country_iso_mismatch",
     billing_address |-> "billing_address_mismatch"]

\* "unverified" contributes no signal.
FieldSignals(cmp) ==
    LET With(status) == {f \in ComparedFields \cap DOMAIN cmp :
                           cmp[f].status = status}
    IN  {Trust(Consistent[f], ComparisonPoints[f], cmp[f].cites) :
            f \in With("match")}
          \cup {Elevated(Mismatched[f], ComparisonPoints[f], cmp[f].cites) :
                  f \in With("mismatch")}

\* A row about a country mismatch silences the row about a match.
IpCountrySignals(ev) ==
    LET mismatch == Rows(ev, "ip_country_mismatch")
        match == TrueRows(ev, "ip_country_match")
    IN  When(TrueRows(ev, "ip_country_mismatch") # {},
             Elevated("ip_country_mismatch", 12, FirstOf(mismatch)))
          \cup When(mismatch = {} /\ match # {},
                    Trust("ip_country_match", 8, FirstOf(match)))

\* Only an address on the company's own domain is evidence about the company.
WebContactSignals(ev) ==
    LET own == {e \in Rows(ev, "web_contacts_email") :
                  "on_company_domain" \in e.val}
    IN  When(own # {}, Trust("web_contact_email_found", 6, FirstOf(own)))

IntakeSignals(ev) ==
    LET free == Rows(ev, "free_email_domain")
    IN  When(free # {}, Elevated("free_email_domain", 12, free))

\* Seeded fault: every row of a verified challenge is a signal.
OwnershipSignals_PerRow(ev) ==
    {Trust("domain_ownership_verified", 10, {e}) :
        e \in {r \in TrueRows(ev, "domain_ownership_verified") :
                r.source = "ownership"}}

\* A challenge that fails leaves no row, so none is ever an elevated signal.
OwnershipSignals(ev) ==
    LET rows == {e \in TrueRows(ev, "domain_ownership_verified") :
                   e.source = "ownership"}
    IN  When(rows # {}, Trust("domain_ownership_verified", 10, rows))

LinkedInFoundSignals(page, cmp) ==
    LET website == IF "linkedin_website" \in DOMAIN cmp
                     THEN cmp["linkedin_website"]
                     ELSE [status |-> "not_compared", cites |-> {}]
    IN  When(page.thin, Elevated("linkedin_absent_or_thin", 6,
                                 page.presence \cup page.counts))
          \cup When(website.status = "mismatch",
                    Elevated("linkedin_website_mismatch", 10,
                             IF website.cites = {} THEN page.presence
                                                      ELSE website.cites))
          \cup When(page.established /\ website.status = "match",
                    Trust("linkedin_established_presence", 12,
                          page.presence \cup website.cites))
          \cup When(\E e \in page.created : "recent" \in e.val,
                    Elevated("linkedin_recently_created", 8, page.created))
          \cup When(page.requester # {},
                    Trust("linkedin_requester_associated", 8, page.requester))

LinkedInSignals(ev, cmp) ==
    LET page == LinkedInPage(ev)
    IN  CASE page.presence = {} -> {}
          [] page.presence # {} /\ ~page.found ->
               {Elevated("linkedin_absent_or_thin", 6, page.presence)}
          [] page.found -> LinkedInFoundSignals(page, cmp)

RepresentationSignals(ev, cmp) ==
    LET direct == IpCountrySignals(ev) \cup WebContactSignals(ev)
                    \cup IntakeSignals(ev) \cup LinkedInSignals(ev, cmp)
                    \cup OwnershipSignals(ev)
        found == FieldSignals(cmp) \cup direct
    IN  IF DOMAIN cmp = {}
          THEN {Elevated("no_field_comparisons", 12, {})} \cup direct
          ELSE found \cup When(found = {}, Elevated("all_fields_unverified", 16, {}))

-----------------------------------------------------------------------------
(* Layer 4: signs of fraud, staging or evasion, across all tiers.          *)

\* others: how many other submissions, of other entities, recorded the same
\* network within the look-back window (_cross_submission_reuse_signals).
ReuseSignals(ev, others) ==
    LET asn == Rows(ev, "ip_asn")
    IN  When(asn # {} /\ others >= ReuseHigh,
             Elevated("ip_asn_reuse_high", 24, asn))
          \cup When(asn # {} /\ others \in 1..(ReuseHigh - 1),
                    Elevated("ip_asn_reuse", 12, asn))

StagingSignals(rows) ==
    LET recent == TrueRows(rows, "recently_registered")
        no_mx == TrueRows(rows, "no_mx")
    IN  CASE recent # {} /\ no_mx # {} ->
               {Elevated("recently_registered_no_mx", 28, recent \cup no_mx)}
          [] recent # {} /\ no_mx = {} ->
               {Elevated("recently_registered_domain_risk", 16, recent)}
          [] recent = {} /\ no_mx # {} -> {Elevated("no_mx_risk", 12, no_mx)}
          [] recent = {} /\ no_mx = {} -> {}

NetworkSignals(ev) ==
    LET hidden == UNION {Rows(ev, f) : f \in {"ip_anonymized_network",
                           "ip_hosting", "ip_vpn", "ip_proxy"}}
        suspicious == Rows(ev, "ip_suspicious_asn")
    IN  When(hidden # {}, Elevated("datacenter_or_anonymized_ip", 20, hidden))
          \cup When(suspicious # {}, Elevated("suspicious_asn", 12, suspicious))

WebPresenceSignals(rows) ==
    LET thin == Rows(rows, "web_thin_footprint")
        staff == Rows(rows, "web_employee_footprint")
        brand == Rows(rows, "web_brand")
    IN  When(thin # {}, Elevated("thin_website", 14, thin))
          \cup When(thin = {} /\ staff # {},
                    Trust("active_employee_footprint", 12, staff))
          \cup When(thin = {} /\ brand # {},
                    Trust("stable_web_presence", 8, FirstOf(brand)))

\* The first two rows of tier 2, then of tier 3.
FirstTwo(tier2, tier3) ==
    LET a == FirstOf(tier2)
        b == a \cup FirstOf(tier2 \ a)
        c == b \cup (IF Cardinality(b) < 2 THEN FirstOf(tier3) ELSE {})
    IN  c \cup (IF Cardinality(c) < 2 THEN FirstOf(tier3 \ c) ELSE {})

RiskSignals(ev, others) ==
    LET tier2 == {e \in ev : e.tier = 2}
        tier3 == {e \in ev : e.tier = 3}
        hits == Rows(ev, "sanctions_hit") \cup Rows(ev, "sanctions_risk_flag")
        found == When(hits # {}, Elevated("sanctions_hit_fraud_flag", 40, hits))
                   \cup StagingSignals(tier2)
                   \cup When(Aged(tier2) # {},
                             Trust("long_lived_domain_trust", 20, Aged(tier2)))
                   \cup NetworkSignals(ev)
                   \cup ReuseSignals(ev, others)
                   \cup WebPresenceSignals(tier3)
    IN  CASE found # {} -> found
          [] found = {} /\ tier2 \cup tier3 = {} ->
               {Elevated("fraud_signals_unavailable", 8, {})}
          [] found = {} /\ tier2 \cup tier3 # {} ->
               {Trust("no_fraud_signals_detected", 20, FirstTwo(tier2, tier3))}
=============================================================================
