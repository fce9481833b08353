---------------------------- MODULE PublicRecords ----------------------------
(***************************************************************************)
(* Court dockets and federal exclusions about the company                  *)
(* (adapters/public_records.py), and the people behind it                  *)
(* (officer_screening/people.py, screen.py).                               *)
(*                                                                         *)
(* A docket is [case, filed, recent, closed, detail]: the parties' names,  *)
(* its place in the order of filing, whether it was filed within 36        *)
(* months, whether the search shows it closed, and what its own page would *)
(* say: "fresh", "idle" (no filing for a year), "closed" or "down".        *)
(* An exclusion is [name, aliases, class, state, us, ended].               *)
(***************************************************************************)
EXTENDS Sources, SequencesExt

CONSTANT FreshnessBudget  \* MAX_FRESHNESS_CHECKS: dockets looked up one by one

ASSUME FreshnessBudgetAssumption == FreshnessBudget \in Nat \ {0}

Record(val) == Row("public_records", 1, "public_record", val)
RecordStatus(source, value) ==
    Row("public_records", 1, "public_records_status", {source, value})

NotApplicable(source) == [status |-> "not_applicable", rows |->
                            {RecordStatus(source, "not_applicable")}]

-----------------------------------------------------------------------------
(* CourtListener.                                                          *)

\* The docket names the company as its debtor ("strong"), or holds its name.
CaseMatch(n, d) ==
    CASE NamesMatch(n.name, d.case) -> "strong"
      [] ~NamesMatch(n.name, d.case) /\ CoreName(n.name) \subseteq CoreName(d.case) ->
           "weak"
      [] OTHER -> "none"

\* Only a strong, open, recent bankruptcy would score: such ones are looked
\* up, newest first, until the budget is spent.
WouldScore(n, d) == CaseMatch(n, d) = "strong" /\ ~d.closed /\ d.recent

\* Seeded fault: the oldest are looked up first.
LookedUp_OldestFirst(n, d, dockets) ==
    /\ WouldScore(n, d)
    /\ Cardinality({x \in dockets : WouldScore(n, x) /\ x.filed < d.filed})
         < FreshnessBudget

LookedUp(n, d, dockets) ==
    /\ WouldScore(n, d)
    /\ Cardinality({x \in dockets : WouldScore(n, x) /\ x.filed > d.filed})
         < FreshnessBudget

\* A docket that cannot be confirmed open and active does not score.
BankruptcyFacts(n, d, dockets) ==
    LET looked == LookedUp(n, d, dockets)
        closed == d.closed \/ (looked /\ d.detail = "closed")
        confirmed == looked /\ d.detail \in {"fresh", "closed"}
        match == IF WouldScore(n, d) /\ ~confirmed THEN "weak" ELSE CaseMatch(n, d)
    IN  {"bankruptcy", match, IF closed THEN "closed" ELSE "open"}
          \cup (IF d.recent THEN {"recent"} ELSE {})

\* Open civil cases are stored "unscored", whatever their match.
CourtRows(n, a) ==
    {Record(BankruptcyFacts(n, d, a.dockets)) :
        d \in {x \in a.dockets : CaseMatch(n, x) # "none"}}
      \cup RowIf(a.civil, Record({"federal_civil", "unscored"}))

CourtListener(n, a) ==
    CASE CoreName(n.name) = {} -> NotApplicable("courtlistener")
      [] CoreName(n.name) # {} /\ a.kind \in Failures ->
           [status |-> RequestFailure(a).status,
            rows |-> {RecordStatus("courtlistener", RequestFailure(a).status)}]
      [] CoreName(n.name) # {} /\ a.kind = "answer" ->
           LET rows == CourtRows(n, a)
               status == IF rows = {} THEN "no_records" ELSE "searched"
           IN  [status |-> status,
                rows |-> rows \cup {RecordStatus("courtlistener", status)}]

-----------------------------------------------------------------------------
(* SAM.gov exclusions: the latest snapshot, [kind, exclusions], whose kind *)
(* is "fresh", "stale" (older than a week), "none", or "error" when the    *)
(* query raised.                                                           *)

States == {"CA", "NY"}

RegisteredIn(ev) ==
    {r \in ev : r.field \in {"jurisdiction", "tax_id_jurisdiction"} /\ "US" \in r.val}

\* The state of the company: from the registry or the tax ID, else from the
\* address it submitted.
SubmissionState(n, ev) ==
    LET places == UNION {e.val : e \in RegisteredIn(ev)}
        found == IF places \cap States # {} THEN places \cap States
                                            ELSE n.address \cap States
    IN  IF found = {} THEN "unknown" ELSE CHOOSE s \in found : TRUE

\* By name, or by an alias when the company's first word is long enough to
\* look for.
ExclusionMatches(n, x) ==
    \/ NamesMatch(n.name, x.name)
    \/ CoreName(n.name) # {} /\ \E alias \in x.aliases : CoreName(n.name) = CoreName(alias)

\* Strong needs the same known state: a namesake elsewhere is only "weak".
ExclusionFacts(x, state) ==
    LET strong == /\ x.class # "Individual"
                  /\ state # "unknown"
                  /\ x.state = state
                  /\ x.us
    IN  {"federal_exclusion", IF strong THEN "strong" ELSE "weak",
         IF x.ended THEN "terminated" ELSE "active"}

SamRecords(n, ev, a) ==
    LET state == SubmissionState(n, ev)
        rows == {Record(ExclusionFacts(x, state)) :
                   x \in {y \in a.exclusions : ExclusionMatches(n, y)}}
        status == CASE a.kind \in {"none", "error"} -> "unavailable"
                    [] a.kind = "stale" -> "stale"
                    [] a.kind = "fresh" /\ rows = {} -> "no_records"
                    [] a.kind = "fresh" /\ rows # {} -> "searched"
        found == IF a.kind \in {"none", "error"} THEN {} ELSE rows
    IN  [status |-> status,
         rows |-> found \cup {RecordStatus("sam_exclusions", status)}]

\* The stage: outside the US neither is asked.  It reports an outage when both
\* are down, and the first one's; "stale" is not an outage.
PublicRecordsOutcome(n, ev, court, sam) ==
    LET parts == IF n.country = {"US"}
                   THEN <<CourtListener(n, court), SamRecords(n, ev, sam)>>
                   ELSE <<NotApplicable("courtlistener"),
                          NotApplicable("sam_exclusions")>>
        down == {"unavailable", "timeout", "rate_limited"}
        all_down == parts[1].status \in down /\ parts[2].status \in down
    IN  [status |-> IF all_down THEN parts[1].status ELSE "complete",
         rows |-> parts[1].rows \cup parts[2].rows]

-----------------------------------------------------------------------------
(* The people behind the company: [name, dob, roles].                      *)

\* Missing, or one a prefix of the other.
DobCompatible(a, b) == a \subseteq b \/ b \subseteq a

\* Seeded fault: a person is known by name alone.
SamePerson_ByName(p, q) == p.name = q.name

SamePerson(p, q) == p.name = q.name /\ DobCompatible(p.dob, q.dob)

\* Fold one more person in: into the first that matches, else at the end.
Merge(people, p) ==
    LET same == {i \in DOMAIN people : SamePerson(people[i], p)}
        first == CHOOSE i \in same : \A j \in same : i <= j
        known == people[first]
    IN  IF same = {} THEN Append(people, p)
        ELSE [people EXCEPT ![first] =
                [name |-> known.name,
                 dob |-> IF known.dob = {} THEN p.dob ELSE known.dob,
                 roles |-> known.roles \cup p.roles]]

\* Declared people first, so that their values win.
CollectPeople(n, declared, a) ==
    [status |-> IF a.kind = "answer" THEN "complete" ELSE "unavailable",
     people |-> FoldLeft(Merge, <<>>,
                         declared \o (IF a.kind = "answer" THEN a.people ELSE <<>>))]

\* One row per person; a screening that made no decision is "unavailable".
\* Without a screening key nobody is screened.
ScreenPeople(people, disposition, configured) ==
    CASE people = <<>> -> Success({})
      [] people # <<>> /\ ~configured -> Failure("unavailable")
      [] people # <<>> /\ configured ->
           Success({Row("officer_screening", 1, "officer_screening_result",
                        {disposition[i], people[i].name}) : i \in DOMAIN people})
=============================================================================
