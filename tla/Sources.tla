------------------------------- MODULE Sources -------------------------------
(***************************************************************************)
(* The data source adapters (adapters/*.py): what each makes of one answer *)
(* of its provider.  An operator here takes the submission n, as           *)
(* normalised, and the provider's answer a, and returns the adapter's      *)
(* result: a failure kind with no rows, or "complete" with the rows of     *)
(* evidence.                                                               *)
(*                                                                         *)
(* Names, addresses, country codes, web domains and dates of birth are the *)
(* sets of their parts (words, code and subdivision, labels, year and      *)
(* day); {} is an absent one.  An answer's kind is "answer" or the way the *)
(* request failed: "timeout", "rate_limited" (HTTP 429), or "error" (any   *)
(* other status, exception or body that cannot be read).                   *)
(***************************************************************************)
EXTENDS Integers, FiniteSets

CONSTANT LegalSuffixes  \* words such as "inc", not part of a core name

Row(source, tier, field, val) ==
    [source |-> source, tier |-> tier, field |-> field, val |-> val]

Success(rows) == [status |-> "complete", rows |-> rows]
Failure(kind) == [status |-> kind, rows |-> {}]
Failures == {"timeout", "rate_limited", "error"}

\* A request that raised, or came back with an error status.
RequestFailure(a) ==
    Failure(CASE a.kind = "timeout" -> "timeout"
              [] a.kind = "rate_limited" -> "rate_limited"
              [] a.kind = "error" -> "unavailable")

RowIf(cond, row) == IF cond THEN {row} ELSE {}

CoreName(name) == name \ LegalSuffixes
NamesMatch(a, b) == CoreName(a) # {} /\ CoreName(a) = CoreName(b)

-----------------------------------------------------------------------------
(* OpenCorporates: up to five companies, [name, number, status, place,     *)
(* address].                                                               *)

CompanyRows(c) ==
    LET Ev(field, val) == Row("opencorporates", 1, field, val)
    IN  RowIf(c.name # {}, Ev("company_name", c.name))
          \cup RowIf(c.number # "none", Ev("registration_number", {c.number}))
          \cup RowIf(c.status # "none", Ev("registration_status", {c.status}))
          \cup RowIf(c.place # {}, Ev("jurisdiction", c.place))
          \cup RowIf(c.address # {}, Ev("legal_address", c.address))

\* Two companies of exactly the submitted name, under different numbers.
IdentityConflict(n, companies) ==
    LET namesakes == {c \in companies : /\ c.number # "none"
                                        /\ NamesMatch(c.name, n.name)}
    IN  Cardinality({c.number : c \in namesakes}) >= 2

QueryRegistries(n, a) ==
    CASE n.name = {} -> Failure("not_found")
      [] n.name # {} /\ a.kind \in Failures -> RequestFailure(a)
      [] n.name # {} /\ a.kind = "answer" /\ a.companies = {} ->
           Failure("not_found")
      [] n.name # {} /\ a.kind = "answer" /\ a.companies # {} ->
           Success((UNION {CompanyRows(c) : c \in a.companies})
                     \cup RowIf(IdentityConflict(n, a.companies),
                                Row("opencorporates", 1,
                                    "registry_identity_conflict", {"true"})))

-----------------------------------------------------------------------------
(* Tax ID.  The answer is a record on file, [status, name, place], or      *)
(* "unknown". No tax ID, or one from outside the US, is "unavailable".     *)

TaxRows(n, r) ==
    LET Ev(field, val) == Row("tax_id", 1, field, val)
        matched == IF NamesMatch(n.name, r.name) THEN "match" ELSE "mismatch"
    IN  {Ev("tax_id_status", {IF r.status = "active" THEN "verified"
                                                     ELSE "inactive"})}
          \cup (IF r.name = {} THEN {}
                ELSE {Ev("tax_id_registered_name", r.name),
                      Ev("tax_id_name_match", {matched})})
          \cup RowIf(r.place # {}, Ev("tax_id_jurisdiction", r.place))

VerifyTaxId(n, a) ==
    LET not_found == {Row("tax_id", 1, "tax_id_status", {"not_found"})}
    IN  CASE n.tax_id = "none" \/ n.country # {"US"} -> Failure("unavailable")
          [] n.country = {"US"} /\ n.tax_id = "malformed" -> Success(not_found)
          [] n.country = {"US"} /\ n.tax_id = "fein" /\ a.kind \in Failures ->
               RequestFailure(a)
          [] n.country = {"US"} /\ n.tax_id = "fein" /\ a.kind = "unknown" ->
               Success(not_found)
          [] n.country = {"US"} /\ n.tax_id = "fein" /\ a.kind = "answer" ->
               Success(TaxRows(n, a.record))

-----------------------------------------------------------------------------
(* OFAC SDN list: the answer is the names on it.  Names are compared whole,*)
(* without legal suffixes.                                                 *)

\* Seeded fault: a list that could not be fetched is an empty list.
ScreenSanctions_FailureIsEmpty(n, a) ==
    LET Ev(field, val) == Row("sanctions", 1, field, val)
        entries == IF a.kind = "answer" THEN a.entries ELSE {}
        hits == {e \in entries : CoreName(e) = CoreName(n.name)}
    IN  IF n.name = {} THEN Failure("not_found")
        ELSE IF hits = {}
               THEN Success({Ev("sanctions_screened", {"no_hit"})})
               ELSE Success({Ev("sanctions_hit", e) : e \in hits}
                              \cup {Ev("sanctions_risk_flag", {"true"})})

ScreenSanctions(n, a) ==
    LET Ev(field, val) == Row("sanctions", 1, field, val)
        hits == {e \in a.entries : CoreName(e) = CoreName(n.name)}
    IN  CASE n.name = {} -> Failure("not_found")
          [] n.name # {} /\ a.kind \in Failures -> Failure("unavailable")
          [] n.name # {} /\ a.kind = "answer" ->
               IF hits = {}
                 THEN Success({Ev("sanctions_screened", {"no_hit"})})
                 ELSE Success({Ev("sanctions_hit", e) : e \in hits}
                                \cup {Ev("sanctions_risk_flag", {"true"})})

-----------------------------------------------------------------------------
(* Domain: WHOIS, DNS and SSL in one answer, [whois, dns, ssl].  The       *)
(* default DNS client answers "nothing" when the lookup fails.             *)

Yes(cond) == {IF cond THEN "true" ELSE "false"}

WhoisRows(whois) ==
    LET Ev(field, val) == Row("domain", 2, field, val)
    IN  CASE whois = "down" -> {Ev("whois_status", {"unavailable"})}
          [] whois = "undated" -> {Ev("domain_registrar", {"registrar"})}
          [] whois \in {"recent", "young", "established", "aged"} ->
               {Ev("domain_registrar", {"registrar"}),
                Ev("domain_age_days", {whois})}
                 \cup RowIf(whois = "recent", Ev("recently_registered", {"true"}))

DnsRows(records) ==
    LET Ev(field, val) == Row("domain", 2, field, val)
    IN  {Ev("mx_present", Yes("mx" \in records)),
         Ev("spf_present", Yes("spf" \in records)),
         Ev("dkim_present", Yes("dkim" \in records))}
          \cup RowIf("mx" \notin records, Ev("no_mx", {"true"}))

\* WHOIS leaves a row even when it is down, so no answer at all is a success.
AnalyzeDomain(n, a) ==
    IF n.domain = {} THEN Failure("not_found")
    ELSE Success(WhoisRows(a.whois)
                   \cup DnsRows(IF a.dns = {"down"} THEN {} ELSE a.dns)
                   \cup RowIf(a.ssl = "cert",
                              Row("domain", 2, "ssl_issuer", {"issuer"})))

-----------------------------------------------------------------------------
(* IPinfo: [country, org, privacy]; org is the network's owner, with or    *)
(* without a word such as "hosting" in its name, privacy the provider's    *)
(* own flags (hosting, vpn, proxy).                                        *)

NetworkRows(n, a) ==
    LET Ev(field) == Row("ipinfo", 2, field, {"true"})
        keyword == a.org = "datacenter"
        anonymized == a.privacy # {} \/ keyword
        compared == a.country # {} /\ n.country # {}
    IN  RowIf(a.country # {}, Row("ipinfo", 2, "ip_country", a.country))
          \cup RowIf(a.org # "none", Row("ipinfo", 2, "ip_asn", {a.org}))
          \cup RowIf("hosting" \in a.privacy \/ (keyword /\ a.privacy = {}),
                     Ev("ip_hosting"))
          \cup RowIf("vpn" \in a.privacy, Ev("ip_vpn"))
          \cup RowIf("proxy" \in a.privacy, Ev("ip_proxy"))
          \cup RowIf(anonymized, Ev("ip_anonymized_network"))
          \cup RowIf(keyword /\ anonymized, Ev("ip_suspicious_asn"))
          \cup RowIf(compared, Row("ipinfo", 2, "ip_country_match",
                                   Yes(a.country = n.country)))
          \cup RowIf(compared /\ a.country # n.country,
                     Ev("ip_country_mismatch"))

EnrichNetworkIP(n, a) ==
    CASE ~n.source_ip -> Failure("not_found")
      [] n.source_ip /\ a.kind \in Failures -> RequestFailure(a)
      [] n.source_ip /\ a.kind = "answer" ->
           IF NetworkRows(n, a) = {} THEN Failure("not_found")
                                     ELSE Success(NetworkRows(n, a))

-----------------------------------------------------------------------------
(* The company's site: [brand, emails]; an e-mail is on the company's      *)
(* domain ("own") or not ("other"), a placeholder, or an asset's file name.*)
(* Own ones come first.                                                    *)

SiteRows(a) ==
    LET Ev(field, val) == Row("web", 3, field, val)
        emails == a.emails \ {"placeholder", "asset"}
        first == IF "own" \in emails THEN {"on_company_domain"} ELSE {}
    IN  RowIf(a.brand, Ev("web_brand", {"brand"}))
          \cup RowIf(emails # {}, Ev("web_contacts_email", first))
          \cup {IF emails = {} THEN Ev("web_thin_footprint", {"true"})
                               ELSE Ev("web_employee_footprint", {"count"})}

WebEvidence(n, a) ==
    CASE n.domain = {} -> Failure("not_found")
      [] n.domain # {} /\ a.kind \in Failures ->
           Failure(IF a.kind = "timeout" THEN "timeout" ELSE "unavailable")
      [] n.domain # {} /\ a.kind = "answer" -> Success(SiteRows(a))

-----------------------------------------------------------------------------
(* LinkedIn: a page, [employees, followers, website, created, people], or  *)
(* none.  A page looked for and not found says nothing; a submitted URL    *)
(* that leads nowhere does.                                                *)

PageRows(n, p) ==
    LET Ev(field, val) == Row("linkedin", 3, field, val)
    IN  {Ev("linkedin_presence", {"found"})}
          \cup RowIf(p.employees # "none",
                     Ev("linkedin_employee_count", {p.employees}))
          \cup RowIf(p.followers # "none", Ev("linkedin_followers", {p.followers}))
          \cup RowIf(p.created # "none", Ev("linkedin_page_created", {p.created}))
          \cup RowIf(p.website # {}, Ev("linkedin_website", p.website))
          \cup RowIf(n.requester # {} /\ p.people # "unknown",
                     Ev("linkedin_requester_match",
                        Yes(p.people = "requester")))

VerifyLinkedIn(n, a) ==
    CASE a.kind \in Failures -> RequestFailure(a)
      [] a.kind = "no_page" ->
           IF n.linkedin_url
             THEN Success({Row("linkedin", 3, "linkedin_presence", {"not_found"})})
             ELSE Failure("unavailable")
      [] a.kind = "answer" -> Success(PageRows(n, a.page))
=============================================================================
