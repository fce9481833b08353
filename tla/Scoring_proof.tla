---------------------------- MODULE Scoring_proof ----------------------------
(***************************************************************************)
(* Facts about the signal catalogue and the scoring engine, for any set of *)
(* evidence: what each group of signals cites and weighs, what a sum of    *)
(* their weights is, and that no layer of fraud signals is worth nothing.  *)
(***************************************************************************)
EXTENDS Scoring, FiniteSetTheorems, WellFoundedInduction, TLAPS

-----------------------------------------------------------------------------
(* The sum of the weights of a layer, which the engine takes over a set.   *)

Sum(S) == LET Points(p) == p[2] IN MapThenSumSet(Points, S)

Pick(s) == CHOOSE x \in s : TRUE

\* g is the running sum over the sets of D.
Sums(g, D) ==
    g = [s \in D |-> IF s = {} THEN 0 ELSE Pick(s)[2] + g[s \ {Pick(s)}]]

Weighs(S) == \A p \in S : p[2] \in Int

\* What three pairs of s add to its sum.
Share(s, p) == IF p \in s THEN p[2] ELSE 0
Shares(s, a, b, c) == Share(s, a) + Share(s, b) + Share(s, c)

\* A set of natural numbers has a least element.
LEMMA LeastExists ==
  ASSUME NEW T \in SUBSET Nat, T # {}
  PROVE  \E n \in T : \A m \in T : n <= m
<1>1. PICK n \in T : \A m \in T : ~ (<<m, n>> \in OpToRel(<, Nat))
  BY WFMin, NatLessThanWellFounded
<1>2. SUFFICES ASSUME NEW m \in T PROVE n <= m
  OBVIOUS
<1>3. ~ (m < n)
  BY <1>1 DEF OpToRel
<1> QED BY <1>3

\* The engine's sum is the last value of a running sum.
LEMMA SumIsRunning ==
  ASSUME NEW S
  PROVE  Sum(S) = (CHOOSE g : Sums(g, SUBSET S))[S]
BY DEF Sum, Sums, Pick, MapThenSumSet, MapThenFoldSet

LEMMA ScoreIsSum ==
  ASSUME NEW signals
  PROVE  LayerScoreFromSignals(signals)
           = Clamp(50 + Sum({<<s.name, s.points>> : s \in signals}))
BY DEF Sum, LayerScoreFromSignals

LEMMA PickInside ==
  ASSUME NEW s, s # {}
  PROVE  Pick(s) \in s
BY DEF Pick

\* There is a running sum over the subsets of a finite set: over those of at
\* most n elements, for every n.
LEMMA RunningSumExists ==
  ASSUME NEW S, IsFiniteSet(S)
  PROVE  \E g : Sums(g, SUBSET S)
<1> DEFINE Upto(n) == {s \in SUBSET S : Cardinality(s) <= n}
           Bad == {n \in Nat : ~ \E g : Sums(g, Upto(n))}
           Last == Cardinality(S)
<1>1. \A s \in SUBSET S : IsFiniteSet(s) /\ Cardinality(s) \in Nat
                           /\ Cardinality(s) <= Last
  BY FS_Subset, FS_CardinalityType
<1>2. \A s \in SUBSET S : s # {} =>
        /\ s \ {Pick(s)} \in SUBSET S
        /\ Cardinality(s \ {Pick(s)}) = Cardinality(s) - 1
  BY <1>1, FS_RemoveElement, PickInside
<1>3. \A s \in SUBSET S : Cardinality(s) = 0 => s = {}
  BY <1>1, FS_EmptySet
<1>4. Bad = {}
  <2> SUFFICES ASSUME Bad # {} PROVE FALSE
    OBVIOUS
  <2>1. PICK n \in Bad : \A m \in Bad : n <= m
    <3>1. Bad \in SUBSET Nat
      OBVIOUS
    <3> QED BY <3>1, LeastExists
  <2>2. n \in Nat /\ ~ \E g : Sums(g, Upto(n))
    OBVIOUS
  <2>3. CASE n = 0
    <3> DEFINE g == [s \in Upto(0) |-> 0]
    <3>1. \A s \in Upto(0) : s = {}
      BY <1>1, <1>3
    <3>2. g = [s \in Upto(0) |-> IF s = {} THEN 0
                                 ELSE Pick(s)[2] + g[s \ {Pick(s)}]]
      BY <3>1
    <3>3. Sums(g, Upto(0))
      BY <3>2 DEF Sums
    <3> QED BY <3>3, <2>2, <2>3
  <2>4. CASE n # 0
    <3>1. n - 1 \in Nat /\ n - 1 \notin Bad
      <4>1. n - 1 \in Nat /\ ~ (n <= n - 1)
        BY <2>2, <2>4
      <4> HIDE DEF Bad
      <4> QED BY <2>1, <4>1
    <3>2. PICK g : Sums(g, Upto(n - 1))
      BY <3>1
    <3> DEFINE h == [s \in Upto(n) |-> IF s = {} THEN 0
                                       ELSE Pick(s)[2] + g[s \ {Pick(s)}]]
    <3>3. \A s \in Upto(n) : s # {} => s \ {Pick(s)} \in Upto(n - 1)
      BY <1>1, <1>2, <2>2
    <3>4. \A s \in Upto(n - 1) : s \in Upto(n) /\ h[s] = g[s]
      <4>1. \A s \in Upto(n - 1) : s \in Upto(n)
        BY <1>1, <2>2
      <4>2. \A s \in Upto(n - 1) :
              g[s] = IF s = {} THEN 0 ELSE Pick(s)[2] + g[s \ {Pick(s)}]
        BY <3>2 DEF Sums
      <4> HIDE DEF Upto
      <4> QED BY <4>1, <4>2
    <3>5. h = [s \in Upto(n) |-> IF s = {} THEN 0
                                 ELSE Pick(s)[2] + h[s \ {Pick(s)}]]
      <4> HIDE DEF Upto
      <4>1. \A s \in Upto(n) : s # {} => h[s \ {Pick(s)}] = g[s \ {Pick(s)}]
        BY <3>3, <3>4
      <4> QED BY <4>1
    <3>6. Sums(h, Upto(n))
      BY <3>5 DEF Sums
    <3> QED BY <3>6, <2>2
  <2> QED BY <2>3, <2>4
<1>5. Last \in Nat
  BY <1>1
<1>6. Upto(Last) = SUBSET S
  BY <1>1
<1>7. \E g : Sums(g, Upto(Last))
  BY <1>4, <1>5
<1> QED BY <1>6, <1>7

\* Induction over the subsets of a finite set: P holds of S if it holds of {}
\* and of a set whenever it holds of the set without its picked element.
LEMMA SubsetInduction ==
  ASSUME NEW S, IsFiniteSet(S), NEW P \in SUBSET (SUBSET S), {} \in P,
         \A s \in SUBSET S : s # {} /\ s \ {Pick(s)} \in P => s \in P
  PROVE  S \in P
<1> DEFINE Bad == {n \in Nat : \E s \in SUBSET S : Cardinality(s) = n /\ s \notin P}
<1>1. \A s \in SUBSET S : IsFiniteSet(s) /\ Cardinality(s) \in Nat
  BY FS_Subset, FS_CardinalityType
<1>2. Bad = {}
  <2> SUFFICES ASSUME Bad # {} PROVE FALSE
    OBVIOUS
  <2>1. PICK n \in Bad : \A m \in Bad : n <= m
    <3>1. Bad \in SUBSET Nat
      OBVIOUS
    <3> QED BY <3>1, LeastExists
  <2>2. PICK s \in SUBSET S : Cardinality(s) = n /\ s \notin P
    OBVIOUS
  <2> DEFINE t == s \ {Pick(s)}
  <2>3. s # {} /\ Pick(s) \in s /\ t \in SUBSET S
    BY <2>2, PickInside
  <2>4. Cardinality(t) \in Nat /\ ~ (n <= Cardinality(t))
    BY <2>3, <1>1, <2>2, FS_RemoveElement
  <2>5. t \notin P
    BY <2>2, <2>3
  <2>6. Cardinality(t) \in Bad
    BY <2>3, <2>4, <2>5
  <2> QED BY <2>6, <2>1, <2>4
<1>3. Cardinality(S) \in Nat /\ S \in SUBSET S
  BY <1>1
<1> QED BY <1>2, <1>3

\* The engine's sum, unfolded: over {} it is nothing, and over a set it is what
\* the picked element adds to the sum over the others.
LEMMA RunningSum ==
  ASSUME NEW S, IsFiniteSet(S)
  PROVE  \E g : /\ Sum(S) = g[S]
                /\ \A s \in SUBSET S :
                     g[s] = IF s = {} THEN 0 ELSE Pick(s)[2] + g[s \ {Pick(s)}]
<1> DEFINE g == CHOOSE f : Sums(f, SUBSET S)
<1>1. Sums(g, SUBSET S)
  BY RunningSumExists
<1>2. Sum(S) = g[S]
  BY SumIsRunning
<1> HIDE DEF g
<1>3. \A s \in SUBSET S :
        g[s] = IF s = {} THEN 0 ELSE Pick(s)[2] + g[s \ {Pick(s)}]
  BY <1>1 DEF Sums
<1> QED BY <1>2, <1>3

\* A sum of integers over a finite set is an integer.
LEMMA SumIsInt ==
  ASSUME NEW S, IsFiniteSet(S), Weighs(S)
  PROVE  Sum(S) \in Int
<1>1. PICK g : /\ Sum(S) = g[S]
               /\ \A s \in SUBSET S :
                    g[s] = IF s = {} THEN 0 ELSE Pick(s)[2] + g[s \ {Pick(s)}]
  BY RunningSum
<1> DEFINE P == {s \in SUBSET S : g[s] \in Int}
<1>2. {} \in P
  <2>1. g[{}] = 0
    BY <1>1
  <2> QED BY <2>1
<1>3. ASSUME NEW s \in SUBSET S, s # {}, s \ {Pick(s)} \in P
      PROVE  s \in P
  <2>1. Pick(s) \in S /\ Pick(s)[2] \in Int
    BY <1>3, PickInside DEF Weighs
  <2>2. g[s] = Pick(s)[2] + g[s \ {Pick(s)}] /\ g[s \ {Pick(s)}] \in Int
    BY <1>1, <1>3
  <2> QED BY <2>1, <2>2
<1>4. P \in SUBSET (SUBSET S)
  OBVIOUS
<1> HIDE DEF P
<1>5. S \in P
  BY <1>2, <1>3, <1>4, SubsetInduction
<1> QED BY <1>1, <1>5 DEF P

\* If at most the pairs a, b and c are negative, the sum is no less than what
\* these three add to it.
LEMMA SumBound ==
  ASSUME NEW S, IsFiniteSet(S), Weighs(S),
         NEW a, NEW b, NEW c,
         a[2] \in Int, b[2] \in Int, c[2] \in Int,
         a # b, b # c, a # c,
         \A p \in S \ {a, b, c} : p[2] >= 0
  PROVE  Sum(S) >= Shares(S, a, b, c)
<1>1. PICK g : /\ Sum(S) = g[S]
               /\ \A s \in SUBSET S :
                    g[s] = IF s = {} THEN 0 ELSE Pick(s)[2] + g[s \ {Pick(s)}]
  BY RunningSum
<1> DEFINE P == {s \in SUBSET S : g[s] \in Int /\ g[s] >= Shares(s, a, b, c)}
<1>2. {} \in P
  <2>1. g[{}] = 0
    BY <1>1
  <2>2. Shares({}, a, b, c) = 0
    BY DEF Shares, Share
  <2> QED BY <2>1, <2>2
<1>3. ASSUME NEW s \in SUBSET S, s # {}, s \ {Pick(s)} \in P
      PROVE  s \in P
  <2> DEFINE x == Pick(s)
             t == s \ {x}
  <2>1. x \in s /\ x \in S /\ x[2] \in Int
    BY <1>3, PickInside DEF Weighs
  <2>2. /\ g[s] = x[2] + g[t]
        /\ g[t] \in Int /\ g[t] >= Shares(t, a, b, c)
    BY <1>1, <1>3
  <2> HIDE DEF x
  <2>3. Shares(s, a, b, c) \in Int /\ Shares(t, a, b, c) \in Int
    BY DEF Shares, Share
  <2>4. Shares(s, a, b, c) <= x[2] + Shares(t, a, b, c)
    <3>1. CASE x = a
      BY <3>1, <2>1 DEF Shares, Share
    <3>2. CASE x = b
      BY <3>2, <2>1 DEF Shares, Share
    <3>3. CASE x = c
      BY <3>3, <2>1 DEF Shares, Share
    <3>4. CASE x \notin {a, b, c}
      <4>1. x[2] >= 0
        BY <3>4, <2>1
      <4>2. Shares(s, a, b, c) = Shares(t, a, b, c)
        BY <3>4 DEF Shares, Share
      <4> QED BY <4>1, <4>2, <2>1, <2>3
    <3> QED BY <3>1, <3>2, <3>3, <3>4
  <2> HIDE DEF t
  <2> QED BY <2>1, <2>2, <2>3, <2>4
<1>4. P \in SUBSET (SUBSET S)
  OBVIOUS
<1> HIDE DEF P
<1>5. S \in P
  BY <1>2, <1>3, <1>4, SubsetInduction
<1> QED BY <1>1, <1>5 DEF P

\* The weights of a finite set of signals add up to an integer.
LEMMA PairsFinite ==
  ASSUME NEW signals, IsFiniteSet(signals)
  PROVE  IsFiniteSet({<<s.name, s.points>> : s \in signals})
<1> DEFINE T == {<<s.name, s.points>> : s \in signals}
           f == [s \in signals |-> <<s.name, s.points>>]
<1>1. f \in Surjection(signals, T)
  BY DEF Surjection
<1> QED BY <1>1, FS_Surjection

\* Clamp keeps an integer between 0 and 100, and above 10 what is above 10.
LEMMA ClampBounds ==
  ASSUME NEW n \in Int
  PROVE  /\ Clamp(n) \in 0..100
         /\ n >= 10 => Clamp(n) >= 10
BY DEF Clamp

-----------------------------------------------------------------------------
(* What a signal of the catalogue cites and weighs.                        *)

Proved == "domain_ownership_verified"

\* The tax office knows no such number: a row that earns no trust.
NotOnFile(c) ==
    /\ c.source = "tax_id" /\ c.tier = 1
    /\ c.field = "tax_id_status" /\ "not_found" \in c.val

\* A signal has an integer weight and cites stored rows, at least one unless it
\* says that nothing is known; a trusting one never cites a missing tax ID.
Sound(s, ev) ==
    /\ s.points \in Int
    /\ s.cites \subseteq ev
    /\ s.name \notin Absences => s.cites # {}
    /\ s.points < 0 => \A c \in s.cites : ~ NotOnFile(c)

\* A sound signal that is not about the ownership of the domain.
Plain(s, ev) == Sound(s, ev) /\ s.name # Proved

LEMMA PlainElevated ==
  ASSUME NEW ev, NEW name, name # Proved, NEW points \in Nat,
         NEW cites \in SUBSET ev, name \notin Absences => cites # {}
  PROVE  Plain(Elevated(name, points, cites), ev)
BY DEF Plain, Sound, Elevated

LEMMA PlainTrust ==
  ASSUME NEW ev, NEW name, name # Proved, name \notin Absences, NEW points \in Nat,
         NEW cites \in SUBSET ev, cites # {}, \A c \in cites : ~ NotOnFile(c)
  PROVE  Plain(Trust(name, points, cites), ev)
BY DEF Plain, Sound, Trust

\* What the sanctions screening left.
LEMMA SanctionsPlain ==
  ASSUME NEW ev, NEW rows \in SUBSET ev
  PROVE  \A s \in SanctionsSignals(rows) : Plain(s, ev)
BY DEF SanctionsSignals, Plain, Sound, Elevated, Trust, When, Rows, NotOnFile, Absences, Proved

LEMMA StatusPlain ==
  ASSUME NEW ev, NEW rows \in SUBSET ev
  PROVE  \A s \in StatusSignals(rows) : Plain(s, ev)
BY DEF StatusSignals, FirstOf, Plain, Sound, Elevated, Trust, When, Rows, NotOnFile, Absences, Proved

\* What the registry says of the company.
LEMMA RegistryPlain ==
  ASSUME NEW ev, NEW rows \in SUBSET ev, rows # {}
  PROVE  \A s \in RegistrySignals(rows) : Plain(s, ev)
<1> DEFINE name == Rows(rows, "company_name")
           number == Rows(rows, "registration_number")
           conflict == Rows(rows, "registry_identity_conflict")
<1>1. ASSUME name # {}
      PROVE  Plain(Trust("registry_name_confirmed", 24, name), ev)
  BY <1>1 DEF Plain, Sound, Trust, Rows, NotOnFile, Absences, Proved
<1>2. Plain(Elevated("registry_name_unconfirmed", 16, FirstOf(rows)), ev)
  BY DEF Plain, Sound, Elevated, FirstOf, Absences, Proved
<1>3. \A s \in When(number # {}, Trust("registration_number_present", 16, number)) :
        Plain(s, ev)
  BY DEF When, Plain, Sound, Trust, Rows, NotOnFile, Absences, Proved
<1>4. \A s \in When(conflict # {},
                    Elevated("conflicting_company_identities", 20, conflict)) :
        Plain(s, ev)
  BY DEF When, Plain, Sound, Elevated, Rows, Absences, Proved
<1> HIDE DEF name, number, conflict
<1> QED BY <1>1, <1>2, <1>3, <1>4, StatusPlain DEF RegistrySignals, name, number, conflict

LEMMA TaxIdPlain ==
  ASSUME NEW ev
  PROVE  \A s \in TaxIdSignals(ev) : Plain(s, ev)
BY DEF TaxIdSignals, FirstOf, Plain, Sound, Elevated, Trust, When, Rows, NotOnFile, Absences, Proved

\* What the screening of the people behind it found.
LEMMA OfficersPlain ==
  ASSUME NEW ev
  PROVE  \A s \in OfficerScreeningSignals(ev) : Plain(s, ev)
BY DEF OfficerScreeningSignals, When, Elevated, Plain, Sound, Absences, Proved

\* What the courts and the exclusion list have on record.
LEMMA RecordsPlain ==
  ASSUME NEW ev
  PROVE  \A s \in PublicRecordsSignals(ev) : Plain(s, ev)
BY DEF PublicRecordsSignals, When, Elevated, Plain, Sound, Absences, Proved

\* The rows of a LinkedIn page are rows of the run, and of LinkedIn.
LEMMA PageRowsStored ==
  ASSUME NEW ev
  PROVE  LET page == LinkedInPage(ev)
             rows == {e \in ev : e.source = "linkedin"}
         IN  /\ page.presence \in SUBSET rows
             /\ page.counts \in SUBSET rows
             /\ page.created \in SUBSET rows
             /\ page.requester \in SUBSET rows
             /\ page.found => page.presence # {}
BY DEF LinkedInPage, Rows, TrueRows

LEMMA LinkedInEntityPlain ==
  ASSUME NEW ev
  PROVE  \A s \in LinkedInEntitySignals(ev) : Plain(s, ev)
BY PageRowsStored DEF LinkedInEntitySignals, When, Trust, Plain, Sound, NotOnFile,
     Absences, Proved

\* The first layer.
LEMMA EntityPlain ==
  ASSUME NEW ev
  PROVE  \A s \in EntitySignals(ev) : Plain(s, ev)
<1>1. RegistryRows(ev) \in SUBSET ev
  BY DEF RegistryRows
<1>2. Plain(Elevated("no_registry_evidence", 40, {}), ev)
  BY DEF Elevated, Plain, Sound, Absences, Proved
<1> QED
  BY <1>1, <1>2, SanctionsPlain, RegistryPlain, TaxIdPlain, OfficersPlain,
     RecordsPlain, LinkedInEntityPlain DEF EntitySignals

LEMMA DomainAgePlain ==
  ASSUME NEW ev, NEW rows \in SUBSET ev
  PROVE  \A s \in DomainAgeSignals(rows) : Plain(s, ev)
BY DEF DomainAgeSignals, Aged, Established, When, Elevated, Trust, Rows, TrueRows,
     Plain, Sound, NotOnFile, Absences, Proved

LEMMA MailPlain ==
  ASSUME NEW ev, NEW rows \in SUBSET ev
  PROVE  \A s \in MailSignals(rows) : Plain(s, ev)
BY DEF MailSignals, When, Elevated, Trust, Rows, TrueRows, Plain, Sound, NotOnFile,
     Absences, Proved

\* The second layer.
LEMMA InfrastructurePlain ==
  ASSUME NEW ev
  PROVE  \A s \in InfrastructureSignals(ev) : Plain(s, ev)
<1> DEFINE rows == {e \in ev : e.tier = 2}
           ssl == Rows(rows, "ssl_issuer") \cup Rows(rows, "ssl_valid")
<1>1. \A s \in When(ssl # {}, Trust("ssl_present", 8, FirstOf(ssl))) : Plain(s, ev)
  BY DEF When, Trust, FirstOf, Rows, Plain, Sound, NotOnFile, Absences, Proved
<1>2. Plain(Elevated("infrastructure_data_unavailable", 12, {}), ev)
  BY DEF Elevated, Plain, Sound, Absences, Proved
<1>3. rows \in SUBSET ev
  OBVIOUS
<1>4. \A s \in DomainAgeSignals(rows) \cup MailSignals(rows) : Plain(s, ev)
  <2> HIDE DEF rows
  <2> QED BY <1>3, DomainAgePlain, MailPlain
<1> QED BY <1>1, <1>2, <1>4 DEF InfrastructureSignals

\* The comparisons of a run cite rows of it, and one that came to a verdict
\* cites some; those of the scored fields never cite a missing tax ID.
Citing(cmp, ev) ==
    \A f \in DOMAIN cmp :
      /\ cmp[f].cites \subseteq ev
      /\ cmp[f].status \in {"match", "mismatch"} => cmp[f].cites # {}
      /\ f \in ComparedFields \cup {"linkedin_website"} =>
           \A c \in cmp[f].cites : ~ NotOnFile(c)

\* The comparisons with the registry.
LEMMA FieldsPlain ==
  ASSUME NEW ev, NEW cmp, Citing(cmp, ev)
  PROVE  \A s \in FieldSignals(cmp) : Plain(s, ev)
<1>1. \A f \in ComparedFields :
        /\ ComparisonPoints[f] \in Nat
        /\ Consistent[f] \notin Absences \cup {Proved}
        /\ Mismatched[f] \notin Absences \cup {Proved}
  BY DEF ComparedFields, ComparisonPoints, Consistent, Mismatched, Absences, Proved
<1>2. ASSUME NEW f \in ComparedFields \cap DOMAIN cmp, cmp[f].status = "match"
      PROVE  Plain(Trust(Consistent[f], ComparisonPoints[f], cmp[f].cites), ev)
  BY <1>1, <1>2 DEF Citing, Trust, Plain, Sound
<1>3. ASSUME NEW f \in ComparedFields \cap DOMAIN cmp, cmp[f].status = "mismatch"
      PROVE  Plain(Elevated(Mismatched[f], ComparisonPoints[f], cmp[f].cites), ev)
  BY <1>1, <1>3 DEF Citing, Elevated, Plain, Sound
<1> QED BY <1>2, <1>3 DEF FieldSignals

\* What the run's own network and contacts say of who submitted it.
LEMMA DirectPlain ==
  ASSUME NEW ev
  PROVE  \A s \in IpCountrySignals(ev) \cup WebContactSignals(ev) \cup IntakeSignals(ev) :
           Plain(s, ev)
<1>1. \A s \in IpCountrySignals(ev) : Plain(s, ev)
  BY DEF IpCountrySignals, When, Elevated, Trust, FirstOf, Rows, TrueRows, Plain, Sound,
       NotOnFile, Absences, Proved
<1>2. \A s \in WebContactSignals(ev) : Plain(s, ev)
  BY DEF WebContactSignals, When, Trust, FirstOf, Rows, Plain, Sound, NotOnFile,
       Absences, Proved
<1>3. \A s \in IntakeSignals(ev) : Plain(s, ev)
  BY DEF IntakeSignals, When, Elevated, Rows, Plain, Sound, Absences, Proved
<1> QED BY <1>1, <1>2, <1>3

\* A page that was found, compared with the company's own site.
LEMMA LinkedInFoundPlain ==
  ASSUME NEW ev, NEW cmp, Citing(cmp, ev), LinkedInPage(ev).found
  PROVE  \A s \in LinkedInFoundSignals(LinkedInPage(ev), cmp) : Plain(s, ev)
<1> DEFINE page == LinkedInPage(ev)
           rows == {e \in ev : e.source = "linkedin"}
           website == IF "linkedin_website" \in DOMAIN cmp
                        THEN cmp["linkedin_website"]
                        ELSE [status |-> "not_compared", cites |-> {}]
           against == IF website.cites = {} THEN page.presence ELSE website.cites
<1>1. /\ page.presence \in SUBSET rows /\ page.presence # {}
      /\ page.counts \in SUBSET rows /\ page.created \in SUBSET rows
      /\ page.requester \in SUBSET rows
  BY PageRowsStored
<1>2. rows \in SUBSET ev /\ \A c \in rows : ~ NotOnFile(c)
  BY DEF NotOnFile
<1>3. website.cites \in SUBSET ev /\ \A c \in website.cites : ~ NotOnFile(c)
  BY DEF Citing
<1> HIDE DEF page, rows, website
<1>4. \A s \in When(page.thin, Elevated("linkedin_absent_or_thin", 6,
                                        page.presence \cup page.counts)) :
        Plain(s, ev)
  BY <1>1, <1>2 DEF When, Elevated, Plain, Sound, Absences, Proved
<1>5. \A s \in When(website.status = "mismatch",
                    Elevated("linkedin_website_mismatch", 10, against)) :
        Plain(s, ev)
  BY <1>1, <1>2, <1>3 DEF When, Elevated, Plain, Sound, Absences, Proved
<1>6. \A s \in When(page.established /\ website.status = "match",
                    Trust("linkedin_established_presence", 12,
                          page.presence \cup website.cites)) :
        Plain(s, ev)
  BY <1>1, <1>2, <1>3 DEF When, Trust, Plain, Sound, Absences, Proved
<1>7. \A s \in When(\E e \in page.created : "recent" \in e.val,
                    Elevated("linkedin_recently_created", 8, page.created)) :
        Plain(s, ev)
  BY <1>1, <1>2 DEF When, Elevated, Plain, Sound, Absences, Proved
<1>8. \A s \in When(page.requester # {},
                    Trust("linkedin_requester_associated", 8, page.requester)) :
        Plain(s, ev)
  BY <1>1, <1>2 DEF When, Trust, Plain, Sound, Absences, Proved
<1> HIDE DEF against
<1> QED
  BY <1>4, <1>5, <1>6, <1>7, <1>8 DEF LinkedInFoundSignals, page, website, against

LEMMA LinkedInPlain ==
  ASSUME NEW ev, NEW cmp, Citing(cmp, ev)
  PROVE  \A s \in LinkedInSignals(ev, cmp) : Plain(s, ev)
<1> DEFINE page == LinkedInPage(ev)
<1>1. page.presence \in SUBSET ev /\ (page.found => page.presence # {})
  BY PageRowsStored
<1>2. CASE page.presence = {}
  <2>1. LinkedInSignals(ev, cmp) = {}
    BY <1>1, <1>2 DEF LinkedInSignals
  <2> QED BY <2>1
<1>3. CASE page.presence # {} /\ ~page.found
  <2>1. LinkedInSignals(ev, cmp) = {Elevated("linkedin_absent_or_thin", 6, page.presence)}
    BY <1>3 DEF LinkedInSignals
  <2>2. Plain(Elevated("linkedin_absent_or_thin", 6, page.presence), ev)
    BY <1>1, <1>3 DEF Elevated, Plain, Sound, Absences, Proved
  <2> QED BY <2>1, <2>2
<1>4. CASE page.presence # {} /\ page.found
  <2>1. LinkedInSignals(ev, cmp) = LinkedInFoundSignals(page, cmp)
    BY <1>4 DEF LinkedInSignals
  <2> QED BY <2>1, <1>4, LinkedInFoundPlain
<1> HIDE DEF page
<1> QED BY <1>2, <1>3, <1>4

\* However many rows prove the ownership of the domain, they make one signal.
LEMMA OwnershipSound ==
  ASSUME NEW ev
  PROVE  /\ \A s \in OwnershipSignals(ev) : Sound(s, ev)
         /\ \A s, t \in OwnershipSignals(ev) : s = t
<1> DEFINE rows == {e \in TrueRows(ev, Proved) : e.source = "ownership"}
<1>1. OwnershipSignals(ev) = When(rows # {}, Trust(Proved, 10, rows))
  BY DEF OwnershipSignals, Proved
<1>2. rows \in SUBSET ev /\ \A c \in rows : ~ NotOnFile(c)
  BY DEF TrueRows, Rows, NotOnFile
<1> HIDE DEF rows
<1>3. rows # {} => Sound(Trust(Proved, 10, rows), ev)
  BY <1>2 DEF Trust, Sound
<1> QED BY <1>1, <1>3 DEF When

\* The third layer.
LEMMA RepresentationSound ==
  ASSUME NEW ev, NEW cmp, Citing(cmp, ev)
  PROVE  \A s \in RepresentationSignals(ev, cmp) :
           \/ Plain(s, ev)
           \/ Sound(s, ev) /\ s \in OwnershipSignals(ev)
<1> DEFINE direct == IpCountrySignals(ev) \cup WebContactSignals(ev)
                       \cup IntakeSignals(ev) \cup LinkedInSignals(ev, cmp)
                       \cup OwnershipSignals(ev)
           none == Elevated("no_field_comparisons", 12, {})
           unverified == Elevated("all_fields_unverified", 16, {})
<1>1. \A s \in direct : Plain(s, ev) \/ (Sound(s, ev) /\ s \in OwnershipSignals(ev))
  BY DirectPlain, LinkedInPlain, OwnershipSound
<1>2. Plain(none, ev) /\ Plain(unverified, ev)
  BY DEF Elevated, Plain, Sound, Absences, Proved
<1>3. \A s \in FieldSignals(cmp) : Plain(s, ev)
  BY FieldsPlain
<1>4. \A s \in RepresentationSignals(ev, cmp) :
        s \in direct \cup FieldSignals(cmp) \cup {none, unverified}
  BY DEF RepresentationSignals, When
<1> HIDE DEF direct, none, unverified
<1> QED BY <1>1, <1>2, <1>3, <1>4

-----------------------------------------------------------------------------
(* The fourth layer, and why it is never worth nothing: it can earn trust  *)
(* for a long-lived domain, a staff and a stable site, 40 points at most.  *)

LongLived == <<"long_lived_domain_trust", -20>>
Staffed == <<"active_employee_footprint", -12>>
Stable == <<"stable_web_presence", -8>>

\* A signal that only takes points off as one of these three.
Warns(s) == s.points < 0 => <<s.name, s.points>> \in {LongLived, Staffed, Stable}

LEMMA StagingPlain ==
  ASSUME NEW ev, NEW rows \in SUBSET ev
  PROVE  \A s \in StagingSignals(rows) : Plain(s, ev) /\ Warns(s)
<1> DEFINE recent == TrueRows(rows, "recently_registered")
           no_mx == TrueRows(rows, "no_mx")
<1>1. recent \in SUBSET ev /\ no_mx \in SUBSET ev
  BY DEF TrueRows, Rows
<1> HIDE DEF recent, no_mx
<1>2. StagingSignals(rows) =
        CASE recent # {} /\ no_mx # {} ->
               {Elevated("recently_registered_no_mx", 28, recent \cup no_mx)}
          [] recent # {} /\ no_mx = {} ->
               {Elevated("recently_registered_domain_risk", 16, recent)}
          [] recent = {} /\ no_mx # {} -> {Elevated("no_mx_risk", 12, no_mx)}
          [] recent = {} /\ no_mx = {} -> {}
  BY DEF StagingSignals, recent, no_mx
<1>3. CASE recent # {} /\ no_mx # {}
  BY <1>1, <1>2, <1>3 DEF Elevated, Plain, Sound, Warns, Absences, Proved
<1>4. CASE recent # {} /\ no_mx = {}
  BY <1>1, <1>2, <1>4 DEF Elevated, Plain, Sound, Warns, Absences, Proved
<1>5. CASE recent = {} /\ no_mx # {}
  BY <1>1, <1>2, <1>5 DEF Elevated, Plain, Sound, Warns, Absences, Proved
<1>6. CASE recent = {} /\ no_mx = {}
  BY <1>2, <1>6
<1> QED BY <1>3, <1>4, <1>5, <1>6

LEMMA NetworkPlain ==
  ASSUME NEW ev
  PROVE  \A s \in NetworkSignals(ev) : Plain(s, ev) /\ Warns(s)
<1> DEFINE hidden == UNION {Rows(ev, f) : f \in {"ip_anonymized_network",
                              "ip_hosting", "ip_vpn", "ip_proxy"}}
           suspicious == Rows(ev, "ip_suspicious_asn")
<1>1. hidden \in SUBSET ev /\ suspicious \in SUBSET ev
  BY DEF Rows
<1>2. NetworkSignals(ev) =
        When(hidden # {}, Elevated("datacenter_or_anonymized_ip", 20, hidden))
          \cup When(suspicious # {}, Elevated("suspicious_asn", 12, suspicious))
  BY DEF NetworkSignals
<1> HIDE DEF hidden, suspicious
<1> QED BY <1>1, <1>2 DEF When, Elevated, Plain, Sound, Warns, Absences, Proved

LEMMA ReusePlain ==
  ASSUME NEW ev, NEW others
  PROVE  \A s \in ReuseSignals(ev, others) : Plain(s, ev) /\ Warns(s)
<1> DEFINE asn == Rows(ev, "ip_asn")
<1>1. asn \in SUBSET ev
  BY DEF Rows
<1>2. asn # {} => /\ Plain(Elevated("ip_asn_reuse_high", 24, asn), ev)
                  /\ Warns(Elevated("ip_asn_reuse_high", 24, asn))
                  /\ Plain(Elevated("ip_asn_reuse", 12, asn), ev)
                  /\ Warns(Elevated("ip_asn_reuse", 12, asn))
  BY <1>1 DEF Elevated, Plain, Sound, Warns, Absences, Proved
<1>3. \A s \in ReuseSignals(ev, others) :
        asn # {} /\ s \in {Elevated("ip_asn_reuse_high", 24, asn),
                           Elevated("ip_asn_reuse", 12, asn)}
  BY DEF ReuseSignals, When
<1> HIDE DEF asn
<1> QED BY <1>2, <1>3

LEMMA WebPresencePlain ==
  ASSUME NEW ev, NEW rows \in SUBSET ev
  PROVE  \A s \in WebPresenceSignals(rows) : Plain(s, ev) /\ Warns(s)
<1> DEFINE thin == Rows(rows, "web_thin_footprint")
           staff == Rows(rows, "web_employee_footprint")
           brand == Rows(rows, "web_brand")
           first == FirstOf(brand)
<1>1. /\ thin \in SUBSET ev /\ staff \in SUBSET ev /\ first \in SUBSET ev
      /\ brand # {} => first # {}
      /\ \A c \in staff \cup first : ~ NotOnFile(c)
  BY DEF Rows, FirstOf, NotOnFile
<1>2. WebPresenceSignals(rows) =
        When(thin # {}, Elevated("thin_website", 14, thin))
          \cup When(thin = {} /\ staff # {},
                    Trust("active_employee_footprint", 12, staff))
          \cup When(thin = {} /\ brand # {},
                    Trust("stable_web_presence", 8, first))
  BY DEF WebPresenceSignals
<1> HIDE DEF thin, staff, brand, first
<1>3. thin # {} => /\ Plain(Elevated("thin_website", 14, thin), ev)
                   /\ Warns(Elevated("thin_website", 14, thin))
  BY <1>1 DEF Elevated, Plain, Sound, Warns, Absences, Proved
<1>4. staff # {} => /\ Plain(Trust("active_employee_footprint", 12, staff), ev)
                    /\ Warns(Trust("active_employee_footprint", 12, staff))
  BY <1>1 DEF Trust, Plain, Sound, Warns, Staffed, Absences, Proved
<1>5. brand # {} => /\ Plain(Trust("stable_web_presence", 8, first), ev)
                    /\ Warns(Trust("stable_web_presence", 8, first))
  BY <1>1 DEF Trust, Plain, Sound, Warns, Stable, Absences, Proved
<1> QED BY <1>2, <1>3, <1>4, <1>5 DEF When

\* The two rows cited when nothing was found are rows the run has.
LEMMA FirstTwoCites ==
  ASSUME NEW a, NEW b, a \cup b # {}
  PROVE  FirstTwo(a, b) \in SUBSET (a \cup b) /\ FirstTwo(a, b) # {}
<1> DEFINE first == FirstOf(a)
           two == first \cup FirstOf(a \ first)
           three == two \cup (IF Cardinality(two) < 2 THEN FirstOf(b) ELSE {})
           last == IF Cardinality(three) < 2 THEN FirstOf(b \ three) ELSE {}
<1>1. \A set : FirstOf(set) \in SUBSET set /\ (set # {} => FirstOf(set) # {})
  BY DEF FirstOf
<1>2. FirstTwo(a, b) = three \cup last
  BY DEF FirstTwo
<1>3. two \in SUBSET a /\ (a # {} => two # {})
  BY <1>1
<1>4. three \in SUBSET (a \cup b) /\ last \in SUBSET b
  BY <1>1, <1>3
<1>5. a = {} => three # {}
  <2> SUFFICES ASSUME a = {} PROVE three # {}
    OBVIOUS
  <2>1. two = {}
    BY <1>3
  <2>2. Cardinality(two) < 2
    BY <2>1, FS_EmptySet
  <2> QED BY <1>1, <2>2
<1>6. three # {}
  BY <1>3, <1>5
<1> HIDE DEF three, last
<1> QED BY <1>2, <1>4, <1>6

\* The fourth layer: sound, and either a warning among the three trusts, or the
\* one trust of a run about which nothing was found.
LEMMA RiskPlain ==
  ASSUME NEW ev, NEW others
  PROVE  /\ \A s \in RiskSignals(ev, others) : Plain(s, ev)
         /\ \/ \A s \in RiskSignals(ev, others) : Warns(s)
            \/ \E cites : RiskSignals(ev, others)
                            = {Trust("no_fraud_signals_detected", 20, cites)}
<1> DEFINE tier2 == {e \in ev : e.tier = 2}
           tier3 == {e \in ev : e.tier = 3}
           hits == Rows(ev, "sanctions_hit") \cup Rows(ev, "sanctions_risk_flag")
           flagged == When(hits # {}, Elevated("sanctions_hit_fraud_flag", 40, hits))
           old == When(Aged(tier2) # {},
                       Trust("long_lived_domain_trust", 20, Aged(tier2)))
           found == flagged \cup StagingSignals(tier2) \cup old
                      \cup NetworkSignals(ev) \cup ReuseSignals(ev, others)
                      \cup WebPresenceSignals(tier3)
           unknown == Elevated("fraud_signals_unavailable", 8, {})
           nothing == Trust("no_fraud_signals_detected", 20, FirstTwo(tier2, tier3))
<1>1. RiskSignals(ev, others) =
        CASE found # {} -> found
          [] found = {} /\ tier2 \cup tier3 = {} -> {unknown}
          [] found = {} /\ tier2 \cup tier3 # {} -> {nothing}
  BY DEF RiskSignals
<1>2. tier2 \in SUBSET ev /\ tier3 \in SUBSET ev
      /\ \A c \in tier2 \cup tier3 : c.tier \in {2, 3}
  OBVIOUS
<1>3. \A s \in flagged : Plain(s, ev) /\ Warns(s)
  BY DEF When, Elevated, Rows, Plain, Sound, Warns, Absences, Proved
<1>4. \A s \in old : Plain(s, ev) /\ Warns(s)
  BY DEF When, Trust, Aged, Rows, Plain, Sound, Warns, LongLived, NotOnFile, Absences, Proved
<1> HIDE DEF tier2, tier3, flagged, old
<1>5. \A s \in found : Plain(s, ev) /\ Warns(s)
  BY <1>2, <1>3, <1>4, StagingPlain, NetworkPlain, ReusePlain, WebPresencePlain
<1>6. Plain(unknown, ev) /\ Warns(unknown)
  BY DEF Elevated, Plain, Sound, Warns, Absences, Proved
<1> HIDE DEF found, unknown
<1>7. CASE found # {}
  BY <1>1, <1>5, <1>7
<1>8. CASE found = {} /\ tier2 \cup tier3 = {}
  BY <1>1, <1>6, <1>8
<1>9. CASE found = {} /\ tier2 \cup tier3 # {}
  <2>1. /\ FirstTwo(tier2, tier3) \in SUBSET ev /\ FirstTwo(tier2, tier3) # {}
        /\ \A c \in FirstTwo(tier2, tier3) : c.tier \in {2, 3}
    BY <1>2, <1>9, FirstTwoCites
  <2>2. Plain(nothing, ev)
    BY <2>1 DEF Trust, Plain, Sound, NotOnFile, Absences, Proved
  <2> HIDE DEF nothing
  <2>3. RiskSignals(ev, others) = {nothing}
    BY <1>1, <1>9
  <2> QED BY <2>2, <2>3 DEF nothing
<1> QED BY <1>7, <1>8, <1>9

-----------------------------------------------------------------------------
(* The scores: each layer has finitely many signals, so that its score is  *)
(* an integer of 0..100, and the overall score is never nothing.           *)

LEMMA WhenFinite ==
  ASSUME NEW cond, NEW s
  PROVE  IsFiniteSet(When(cond, s))
BY FS_EmptySet, FS_Singleton DEF When

LEMMA EntityFinite ==
  ASSUME NEW ev
  PROVE  IsFiniteSet(EntitySignals(ev))
<1> DEFINE rows == RegistryRows(ev)
<1>1. IsFiniteSet(SanctionsSignals(rows))
  BY WhenFinite, FS_Union DEF SanctionsSignals
<1>2. IsFiniteSet(StatusSignals(rows))
  BY WhenFinite, FS_Union DEF StatusSignals
<1>3. IsFiniteSet(RegistrySignals(rows))
  BY <1>2, WhenFinite, FS_Union, FS_Singleton DEF RegistrySignals
<1>4. IsFiniteSet(TaxIdSignals(ev))
  BY WhenFinite, FS_Union, FS_Singleton DEF TaxIdSignals
<1>5. IsFiniteSet(LinkedInEntitySignals(ev))
  BY WhenFinite DEF LinkedInEntitySignals
<1>6. IsFiniteSet(OfficerScreeningSignals(ev))
  BY WhenFinite, FS_Union DEF OfficerScreeningSignals
<1>7. IsFiniteSet(PublicRecordsSignals(ev))
  BY WhenFinite, FS_Union DEF PublicRecordsSignals
<1>8. IsFiniteSet({Elevated("no_registry_evidence", 40, {})})
  BY FS_Singleton
<1> QED
  BY <1>1, <1>3, <1>4, <1>5, <1>6, <1>7, <1>8, FS_Union DEF EntitySignals

LEMMA InfrastructureFinite ==
  ASSUME NEW ev
  PROVE  IsFiniteSet(InfrastructureSignals(ev))
<1> DEFINE rows == {e \in ev : e.tier = 2}
<1>1. IsFiniteSet(DomainAgeSignals(rows))
  BY WhenFinite, FS_Union DEF DomainAgeSignals
<1>2. IsFiniteSet(MailSignals(rows))
  BY WhenFinite, FS_Union DEF MailSignals
<1>3. IsFiniteSet({Elevated("infrastructure_data_unavailable", 12, {})})
  BY FS_Singleton
<1> HIDE DEF rows
<1> QED BY <1>1, <1>2, <1>3, WhenFinite, FS_Union DEF InfrastructureSignals, rows

\* One signal for each comparison that came to a verdict.
LEMMA FieldsFinite ==
  ASSUME NEW cmp
  PROVE  IsFiniteSet(FieldSignals(cmp))
<1> DEFINE agreed == {f \in ComparedFields \cap DOMAIN cmp : cmp[f].status = "match"}
           differed == {f \in ComparedFields \cap DOMAIN cmp :
                          cmp[f].status = "mismatch"}
           trust == [f \in agreed |->
                       Trust(Consistent[f], ComparisonPoints[f], cmp[f].cites)]
           elevated == [f \in differed |->
                          Elevated(Mismatched[f], ComparisonPoints[f], cmp[f].cites)]
           up == {Trust(Consistent[f], ComparisonPoints[f], cmp[f].cites) : f \in agreed}
           down == {Elevated(Mismatched[f], ComparisonPoints[f], cmp[f].cites) :
                      f \in differed}
<1>1. IsFiniteSet(ComparedFields)
  <2>1. IsFiniteSet({"company_name"})
    BY FS_Singleton
  <2>2. IsFiniteSet({"company_name"} \cup {"country_iso"})
    BY <2>1, FS_AddElement
  <2>3. IsFiniteSet(({"company_name"} \cup {"country_iso"}) \cup {"billing_address"})
    BY <2>2, FS_AddElement
  <2>4. ComparedFields = ({"company_name"} \cup {"country_iso"}) \cup {"billing_address"}
    BY DEF ComparedFields
  <2> QED BY <2>3, <2>4
<1>2. IsFiniteSet(agreed) /\ IsFiniteSet(differed)
  BY <1>1, FS_Subset
<1>3. FieldSignals(cmp) = up \cup down
  BY DEF FieldSignals
<1> HIDE DEF agreed, differed
<1>4. trust \in Surjection(agreed, up) /\ elevated \in Surjection(differed, down)
  BY DEF Surjection
<1> HIDE DEF trust, elevated, up, down
<1>5. IsFiniteSet(up) /\ IsFiniteSet(down)
  BY <1>2, <1>4, FS_Surjection
<1> QED BY <1>3, <1>5, FS_Union

LEMMA LinkedInFinite ==
  ASSUME NEW ev, NEW cmp
  PROVE  IsFiniteSet(LinkedInSignals(ev, cmp))
<1> DEFINE page == LinkedInPage(ev)
           thin == Elevated("linkedin_absent_or_thin", 6, page.presence)
<1>1. IsFiniteSet(LinkedInFoundSignals(page, cmp))
  BY WhenFinite, FS_Union DEF LinkedInFoundSignals
<1>2. page.found => page.presence # {}
  BY PageRowsStored
<1>3. IsFiniteSet({thin}) /\ IsFiniteSet({})
  BY FS_EmptySet, FS_Singleton
<1>4. LinkedInSignals(ev, cmp) \in {{}, {thin}, LinkedInFoundSignals(page, cmp)}
  BY <1>2 DEF LinkedInSignals
<1> QED BY <1>1, <1>3, <1>4

LEMMA RepresentationFinite ==
  ASSUME NEW ev, NEW cmp
  PROVE  IsFiniteSet(RepresentationSignals(ev, cmp))
<1>1. IsFiniteSet(IpCountrySignals(ev))
  BY WhenFinite, FS_Union DEF IpCountrySignals
<1>2. IsFiniteSet(WebContactSignals(ev))
  BY WhenFinite DEF WebContactSignals
<1>3. IsFiniteSet(IntakeSignals(ev))
  BY WhenFinite DEF IntakeSignals
<1>4. IsFiniteSet(OwnershipSignals(ev))
  BY WhenFinite DEF OwnershipSignals
<1>5. IsFiniteSet({Elevated("no_field_comparisons", 12, {})})
  BY FS_Singleton
<1> QED
  BY <1>1, <1>2, <1>3, <1>4, <1>5, FieldsFinite, LinkedInFinite, WhenFinite, FS_Union
  DEF RepresentationSignals

LEMMA RiskFinite ==
  ASSUME NEW ev, NEW others
  PROVE  IsFiniteSet(RiskSignals(ev, others))
<1> DEFINE tier2 == {e \in ev : e.tier = 2}
           tier3 == {e \in ev : e.tier = 3}
           hits == Rows(ev, "sanctions_hit") \cup Rows(ev, "sanctions_risk_flag")
           flagged == When(hits # {}, Elevated("sanctions_hit_fraud_flag", 40, hits))
           old == When(Aged(tier2) # {},
                       Trust("long_lived_domain_trust", 20, Aged(tier2)))
           found == flagged \cup StagingSignals(tier2) \cup old
                      \cup NetworkSignals(ev) \cup ReuseSignals(ev, others)
                      \cup WebPresenceSignals(tier3)
           unknown == Elevated("fraud_signals_unavailable", 8, {})
           nothing == Trust("no_fraud_signals_detected", 20, FirstTwo(tier2, tier3))
<1>1. RiskSignals(ev, others) \in {found, {unknown}, {nothing}}
  BY DEF RiskSignals
<1>2. IsFiniteSet(flagged) /\ IsFiniteSet(old)
  BY WhenFinite
<1>3. IsFiniteSet(StagingSignals(tier2))
  BY FS_Singleton, FS_EmptySet DEF StagingSignals
<1>4. IsFiniteSet(NetworkSignals(ev))
  BY WhenFinite, FS_Union DEF NetworkSignals
<1>5. IsFiniteSet(ReuseSignals(ev, others))
  BY WhenFinite, FS_Union DEF ReuseSignals
<1>6. IsFiniteSet(WebPresenceSignals(tier3))
  BY WhenFinite, FS_Union DEF WebPresenceSignals
<1> HIDE DEF tier2, tier3, flagged, old, unknown, nothing
<1>7. IsFiniteSet(found) /\ IsFiniteSet({unknown}) /\ IsFiniteSet({nothing})
  BY <1>2, <1>3, <1>4, <1>5, <1>6, FS_Union, FS_Singleton
<1> QED BY <1>1, <1>7

\* Any finite set of signals with integer weights scores between 0 and 100.
LEMMA ScoreBounds ==
  ASSUME NEW signals, IsFiniteSet(signals), \A s \in signals : s.points \in Int,
         NEW layer
  PROVE  LayerScore(layer, signals) \in 0..100
<1> DEFINE pairs == {<<s.name, s.points>> : s \in signals}
<1>1. IsFiniteSet(pairs)
  BY PairsFinite
<1>2. Weighs(pairs)
  BY DEF Weighs
<1>3. LayerScoreFromSignals(signals) = Clamp(50 + Sum(pairs))
  BY ScoreIsSum
<1> HIDE DEF pairs
<1>4. LayerScoreFromSignals(signals) \in 0..100
  BY <1>1, <1>2, <1>3, SumIsInt, ClampBounds
<1> QED BY <1>4 DEF LayerScore

\* Fraud signals that are all warnings or one of three trusts score 10 at least.
LEMMA WarningScore ==
  ASSUME NEW signals, IsFiniteSet(signals),
         \A s \in signals : s.points \in Int /\ Warns(s)
  PROVE  LayerScoreFromSignals(signals) >= 10
<1> DEFINE pairs == {<<s.name, s.points>> : s \in signals}
<1>1. IsFiniteSet(pairs)
  BY PairsFinite
<1>2. Weighs(pairs) /\ \A p \in pairs \ {LongLived, Staffed, Stable} : p[2] >= 0
  BY DEF Weighs, Warns
<1>3. LayerScoreFromSignals(signals) = Clamp(50 + Sum(pairs))
  BY ScoreIsSum
<1>4. /\ LongLived[2] = -20 /\ Staffed[2] = -12 /\ Stable[2] = -8
      /\ LongLived # Staffed /\ Staffed # Stable /\ LongLived # Stable
  BY DEF LongLived, Staffed, Stable
<1> HIDE DEF pairs
<1>5. Sum(pairs) \in Int
  BY <1>1, <1>2, SumIsInt
<1>6. Sum(pairs) >= Shares(pairs, LongLived, Staffed, Stable)
  BY <1>1, <1>2, <1>4, SumBound
<1>7. Shares(pairs, LongLived, Staffed, Stable) >= -40
  BY <1>4 DEF Shares, Share
<1>8. Shares(pairs, LongLived, Staffed, Stable) \in Int
  BY <1>4 DEF Shares, Share
<1>9. 50 + Sum(pairs) >= 10
  BY <1>5, <1>6, <1>7, <1>8
<1> QED BY <1>3, <1>5, <1>9, ClampBounds

\* One signal of trust alone scores 30.
LEMMA LoneTrustScore ==
  ASSUME NEW name, NEW cites
  PROVE  LayerScoreFromSignals({Trust(name, 20, cites)}) >= 10
<1> DEFINE signals == {Trust(name, 20, cites)}
           pair == <<name, -20>>
           pairs == {<<s.name, s.points>> : s \in signals}
<1>1. pairs = {pair}
  BY DEF Trust
<1>3. LayerScoreFromSignals(signals) = Clamp(50 + Sum(pairs))
  BY ScoreIsSum
<1> HIDE DEF pairs
<1>2. IsFiniteSet(pairs)
  BY <1>1, FS_Singleton
<1>4. PICK g : /\ Sum(pairs) = g[pairs]
               /\ \A s \in SUBSET pairs :
                    g[s] = IF s = {} THEN 0 ELSE Pick(s)[2] + g[s \ {Pick(s)}]
  BY <1>2, RunningSum
<1>5. Pick(pairs) = pair /\ pairs \ {pair} = {} /\ pairs # {}
  <2> HIDE DEF pair
  <2>1. pairs # {}
    BY <1>1
  <2>2. Pick(pairs) \in pairs
    BY <2>1, PickInside
  <2> QED BY <1>1, <2>1, <2>2
<1>6. Sum(pairs) = -20
  <2>1. g[{}] = 0
    BY <1>4
  <2>2. g[pairs] = Pick(pairs)[2] + g[pairs \ {Pick(pairs)}]
    BY <1>4, <1>5
  <2> QED BY <1>4, <1>5, <2>1, <2>2
<1>7. Clamp(50 + Sum(pairs)) >= 10
  BY <1>6, ClampBounds
<1> QED BY <1>3, <1>7

\* The fraud layer is never worth nothing.
LEMMA RiskScore ==
  ASSUME NEW ev, NEW others
  PROVE  LayerScore("risk", RiskSignals(ev, others)) >= 10
<1> DEFINE signals == RiskSignals(ev, others)
<1>1. IsFiniteSet(signals) /\ \A s \in signals : s.points \in Int
  BY RiskFinite, RiskPlain DEF Plain, Sound
<1>2. LayerScoreFromSignals(signals) >= 10
  <2>1. CASE \A s \in signals : Warns(s)
    BY <1>1, <2>1, WarningScore
  <2>2. CASE \E cites : signals = {Trust("no_fraud_signals_detected", 20, cites)}
    BY <2>2, LoneTrustScore
  <2> QED BY <2>1, <2>2, RiskPlain
<1> HIDE DEF signals
<1> QED BY <1>2 DEF LayerScore, signals

-----------------------------------------------------------------------------
(* The assessment as a whole, and the tier of the report.                  *)

LEMMA TiersWrittenApart ==
  ASSUME NEW overall \in Int, overall # 0, NEW names
  PROVE  DeriveTriage(RereadOverall(overall), names).tier = TriageTier(overall, names)
BY DEF DeriveTriage, RereadOverall, TriageTier, PreClearMax, EscalateMin

\* The signals of an assessment a are sound, and at most one proves ownership.
SoundSignals(a, ev) ==
    /\ \A l \in Layers : \A s \in a.signals[l] : Sound(s, ev)
    /\ \A l, m \in Layers : \A s \in a.signals[l], t \in a.signals[m] :
         s.name = Proved /\ t.name = Proved => s = t

\* An assessment with scores in range, the tier of its score and sound signals.
Assessed(a, ev) ==
    /\ DOMAIN a = {"score", "overall", "tier", "signals"}
    /\ \A l \in Layers : a.score[l] \in 0..100
    /\ a.overall \in 1..400
    /\ a.tier = TriageTier(a.overall, Names(a.signals))
    /\ SoundSignals(a, ev)

\* Whatever rows and comparisons of stored rows it is given, the engine makes an
\* assessment whose scores are in range, whose overall score is above zero, and
\* whose signals are all accounted for (engine.py:319, signals.py).
THEOREM AssessmentIsSound ==
  ASSUME NEW ev, NEW cmp, Citing(cmp, ev), NEW others
  PROVE  Assessed(Assess(ev, cmp, others), ev)
<1> DEFINE a == Assess(ev, cmp, others)
           entity == EntitySignals(ev)
           infrastructure == InfrastructureSignals(ev)
           representation == RepresentationSignals(ev, cmp)
           risk == RiskSignals(ev, others)
<1>1. /\ DOMAIN a = {"score", "overall", "tier", "signals"}
      /\ a.signals["entity"] = entity /\ a.signals["infrastructure"] = infrastructure
      /\ a.signals["representation"] = representation /\ a.signals["risk"] = risk
      /\ a.score["entity"] = LayerScore("entity", entity)
      /\ a.score["infrastructure"] = LayerScore("infrastructure", infrastructure)
      /\ a.score["representation"] = LayerScore("representation", representation)
      /\ a.score["risk"] = LayerScore("risk", risk)
      /\ a.overall = a.score["entity"] + a.score["infrastructure"]
                       + a.score["representation"] + a.score["risk"]
      /\ a.tier = TriageTier(a.overall, Names(a.signals))
  BY DEF Assess, Overall
<1>2. /\ \A s \in entity \cup infrastructure \cup risk : Plain(s, ev)
      /\ \A s \in representation :
           \/ Plain(s, ev)
           \/ Sound(s, ev) /\ s \in OwnershipSignals(ev)
  BY EntityPlain, InfrastructurePlain, RepresentationSound, RiskPlain
<1>3. /\ IsFiniteSet(entity) /\ IsFiniteSet(infrastructure)
      /\ IsFiniteSet(representation) /\ IsFiniteSet(risk)
  BY EntityFinite, InfrastructureFinite, RepresentationFinite, RiskFinite
<1>4. LayerScore("risk", risk) >= 10
  BY RiskScore
<1> HIDE DEF a, entity, infrastructure, representation, risk
<1>5. \A s \in entity \cup infrastructure \cup representation \cup risk : Sound(s, ev)
  BY <1>2 DEF Plain
<1>6. \A s \in entity \cup infrastructure \cup representation \cup risk : s.points \in Int
  BY <1>5 DEF Sound
<1>7. /\ a.score["entity"] \in 0..100 /\ a.score["infrastructure"] \in 0..100
      /\ a.score["representation"] \in 0..100 /\ a.score["risk"] \in 0..100
  BY <1>1, <1>3, <1>6, ScoreBounds
<1>8. a.overall \in 1..400
  <2> DEFINE e == a.score["entity"]
             i == a.score["infrastructure"]
             p == a.score["representation"]
             r == a.score["risk"]
  <2>1. e \in 0..100 /\ i \in 0..100 /\ p \in 0..100 /\ r \in 0..100 /\ r >= 10
    BY <1>1, <1>4, <1>7
  <2>2. a.overall = e + i + p + r
    BY <1>1
  <2> HIDE DEF e, i, p, r
  <2>3. e + i + p + r \in 1..400
    BY <2>1
  <2> QED BY <2>2, <2>3
<1>9. SoundSignals(a, ev)
  <2>1. \A s \in entity \cup infrastructure \cup representation \cup risk :
          s.name = Proved => s \in OwnershipSignals(ev)
    BY <1>2 DEF Plain
  <2>2. \A l \in Layers : a.signals[l] \in {entity, infrastructure, representation, risk}
    BY <1>1 DEF Layers
  <2> QED BY <1>5, <2>1, <2>2, OwnershipSound DEF SoundSignals
<1>10. \A l \in Layers : a.score[l] \in 0..100
  BY <1>7 DEF Layers
<1> QED BY <1>1, <1>8, <1>9, <1>10 DEF Assessed, a

=============================================================================
