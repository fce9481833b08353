----------------------------- MODULE MCAssessment -----------------------------
(***************************************************************************)
(* A company of Delaware with everything in order, and one from abroad of  *)
(* which little is known, asked about at sources that may say something    *)
(* unusual, or nothing, a bounded number of times.                         *)
(***************************************************************************)
EXTENDS Assessment

Acme == {"acme", "inc"}
Namesake == {"acme", "ltd"}

MCSubmissions ==
    {[name |-> Acme, domain |-> {"https", "acme", "com"}, country |-> "usa",
      address |-> {"elm", "CA"}, tax_id |-> "fein", linkedin_url |-> TRUE,
      requester |-> {"ann"}, source_ip |-> TRUE, email |-> "company",
      people |-> <<[name |-> "ann", dob |-> {"1970"}, roles |-> {"owner"}],
                   [name |-> "ann", dob |-> {"1971"}, roles |-> {"officer"}]>>],
     [name |-> Acme, domain |-> {}, country |-> "uk", address |-> {},
      tax_id |-> "none", linkedin_url |-> FALSE, requester |-> {},
      source_ip |-> TRUE, email |-> "free", people |-> <<>>]}

Failed == {[kind |-> kind] : kind \in Failures}

Company(name, number, status) ==
    [name |-> name, number |-> number, status |-> status, place |-> {"US", "CA"},
     address |-> {"elm", "CA", "suite"}]
Companies(set) == [kind |-> "answer", companies |-> set]
OnFile(status, name) ==
    [kind |-> "answer",
     record |-> [status |-> status, name |-> name, place |-> {"US", "CA"}]]

Screened(d) ==
    [kind |-> "answer", configured |-> TRUE, disposition |-> [i \in 1..3 |-> d]]

Docket(case, filed, closed, detail) ==
    [case |-> case, filed |-> filed, recent |-> filed > 1, closed |-> closed,
     detail |-> detail]
Court(dockets) == [kind |-> "answer", dockets |-> dockets, civil |-> FALSE]
Snapshot(kind, set) == [kind |-> kind, exclusions |-> set]
Exclusion(state, ended) ==
    [name |-> Namesake, aliases |-> {}, class |-> "Firm", state |-> state,
     us |-> TRUE, ended |-> ended]
PublicRecord(court, sam) == [kind |-> "answer", court |-> court, sam |-> sam]
NoDockets == Court({})
NoExclusions == Snapshot("fresh", {})

DomainAnswer(whois, dns, ssl) ==
    [kind |-> "answer", whois |-> whois, dns |-> dns, ssl |-> ssl]
Network(country, org, privacy) ==
    [kind |-> "answer", country |-> country, org |-> org, privacy |-> privacy]
Site(brand, emails) == [kind |-> "answer", brand |-> brand, emails |-> emails]
Page(employees, website) ==
    [kind |-> "answer",
     page |-> [employees |-> employees, followers |-> employees,
               website |-> website, created |-> "old", people |-> "requester"]]

MCUsual ==
    [query_registries    |-> Companies({Company(Acme, "1", "active")}),
     verify_tax_id       |-> OnFile("active", Acme),
     sanctions_screening |-> [kind |-> "answer", entries |-> {{"evil"}}],
     collect_people      |-> [kind |-> "answer", people |->
        <<[name |-> "ann", dob |-> {"1970", "may"}, roles |-> {"officer"}],
          [name |-> "bob", dob |-> {}, roles |-> {"officer"}]>>],
     screen_people       |-> Screened("CLEAR"),
     public_records      |-> PublicRecord(NoDockets, NoExclusions),
     analyze_domain      |-> DomainAnswer("aged", {"mx", "spf", "dkim"}, "cert"),
     enrich_network_ip   |-> Network({"US"}, "isp", {}),
     web_evidence        |-> Site(TRUE, {"own", "other"}),
     verify_linkedin     |-> Page("many", {"acme", "com"}),
     geocode_hq          |-> [kind |-> "answer"]]

Unusual ==
    [query_registries    |-> {Companies({}), Companies({Company({"apex"}, "2", "dissolved")}),
                              Companies({Company(Acme, "1", "active"),
                                         Company(Namesake, "2", "active")})} \cup Failed,
     verify_tax_id       |-> {[kind |-> "unknown"], OnFile("inactive", Acme),
                              OnFile("active", {"apex"}), [kind |-> "timeout"]},
     sanctions_screening |-> {[kind |-> "answer", entries |-> {Namesake}],
                              [kind |-> "error"]},
     collect_people      |-> {[kind |-> "error"]},
     screen_people       |-> {Screened(d) : d \in {"MATCH", "REVIEW", "unavailable"}}
                               \cup {[kind |-> "answer", configured |-> FALSE]},
     public_records      |->
       {PublicRecord(c, NoExclusions) :
          c \in {Court({Docket(Acme, 3, FALSE, "fresh")}),
                 Court({Docket(Acme, 3, FALSE, "fresh"), Docket(Namesake, 2, FALSE, "idle")}),
                 Court({Docket(Acme, 3, FALSE, "closed")}),
                 Court({Docket({"acme", "apex"}, 3, FALSE, "fresh"),
                        Docket(Acme, 1, FALSE, "fresh")}),
                 [kind |-> "rate_limited"]}}
         \cup {PublicRecord(NoDockets, s) :
          s \in {Snapshot("stale", {Exclusion("CA", FALSE)}),
                 Snapshot("fresh", {Exclusion("CA", TRUE), Exclusion("NY", FALSE)}),
                 Snapshot("none", {})}}
         \cup {PublicRecord([kind |-> "timeout"], Snapshot("error", {}))},
     analyze_domain      |-> {DomainAnswer("down", {"down"}, "none"),
                              DomainAnswer("recent", {"spf"}, "cert")},
     enrich_network_ip   |-> {Network({"GB"}, "datacenter", {}),
                              Network({"US"}, "datacenter", {"vpn"}), [kind |-> "timeout"]},
     web_evidence        |-> {Site(FALSE, {"placeholder"}), [kind |-> "error"]},
     verify_linkedin     |-> {Page("few", {"apex", "com"}), [kind |-> "no_page"],
                              [kind |-> "rate_limited"]},
     geocode_hq          |-> {[kind |-> "no_match"], [kind |-> "timeout"]}]

MCAnswers == [s \in DOMAIN MCUsual |-> {MCUsual[s]} \cup Unusual[s]]
=============================================================================
