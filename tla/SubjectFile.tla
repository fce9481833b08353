----------------------------- MODULE SubjectFile -----------------------------
(***************************************************************************)
(* The encrypted files kept about one person who is screened on their own  *)
(* or as an officer of one company: the subject rows with their keys, the  *)
(* screenings with their frozen decisions, what people did about them, and *)
(* the retention job that shreds a file for good.                          *)
(*                                                                         *)
(* A screening here reads what it decides on in one step; ScreeningRun has *)
(* the reads of its stages apart.  What matters is that the retention job, *)
(* other screenings and list and rule changes come between that read, the  *)
(* encryption and the commit.  A screening of a company run is written in  *)
(* the transaction of the company's screen_people stage, a screening of    *)
(* its own has a row before it starts.                                     *)
(***************************************************************************)
EXTENDS Integers, Sequences, FiniteSets

CONSTANTS
  Subjects,    \* subject ids
  Screenings,  \* screening run ids
  Details,     \* what may be known of the person when a screening starts
  Rules,       \* the rule versions, in order
  Listings,    \* what the lists may say, at any time, of somebody of that name
  MaxHuman,    \* bound: dispositions by people, and the instants they take
  Absent       \* no row

ASSUME SubjectFileAssumption ==
  /\ Details \subseteq [dob: STRING, nationality: STRING]
  /\ Rules \in Seq([clear_below: Nat, match_at: Nat]) /\ Rules # << >>
  /\ MaxHuman \in Nat

VARIABLES
  subjects,  \* screening_subject rows, each with its key and company_person link
  runs,      \* screening_run rows, each with its decision
  work,      \* what a screening's open transaction has read and made
  rule,      \* the rule version in force
  human,     \* screening_disposition rows
  replayed   \* the newest screening.replayed audit event

vars == <<subjects, runs, work, rule, human, replayed>>

Idle == [phase |-> "idle"]
Lost == [status |-> "lost"]         \* a company stage that rolled back
Undecided == [verdict |-> "none"]

----------------------------------------------------------------------------
(* Keys and ciphertexts.  A ciphertext is what it holds and the generation *)
(* of the key that it opens with.                                          *)

NoKey == [gen |-> 0, wrapped |-> FALSE]

\* Seeded fault: a destroyed key counts as no key, and is made again.
EnsureKey_Revives(key) ==
  IF key.wrapped THEN key ELSE [gen |-> key.gen + 1, wrapped |-> TRUE]

\* Seeded fault: every encryption takes a fresh key.
EnsureKey_Fresh(key) == [gen |-> key.gen + 1, wrapped |-> TRUE]

(* ensure_subject_key: a row whose key was destroyed is still a row.       *)
EnsureKey(key) == IF key = NoKey THEN [gen |-> 1, wrapped |-> TRUE] ELSE key

Encrypt(key, content) == [gen |-> EnsureKey(key).gen, of |-> content]
NoBlob == [gen |-> 0, of |-> "nothing"]

Opens(key, blob) == key.wrapped /\ blob # NoBlob /\ blob.gen = key.gen

(* get_subject_pii does not raise.                                         *)
Readable(s) ==
  /\ subjects[s] # Absent
  /\ ~subjects[s].shredded
  /\ Opens(subjects[s].key, subjects[s].pii)

Pii(s) == subjects[s].pii.of

NewSubject(pii, company) ==
  [pii |-> Encrypt(NoKey, pii), key |-> EnsureKey(NoKey), company |-> company,
   relation |-> "active", shredded |-> FALSE]

----------------------------------------------------------------------------
(* decide(bundle): pure.  A name match scores 40, 80 with the same date of *)
(* birth and 5 with another one, but then does not clear on its own.       *)

Score(bundle) ==
  CASE "none" \in {bundle.pii.dob, bundle.listed.dob} -> 40
    [] bundle.pii.dob = bundle.listed.dob -> 80
    [] OTHER -> 5

Decide(bundle) ==
  LET score == Score(bundle)
      conflict == score = 5
  IN  CASE ~bundle.listed.named -> "CLEAR"
        [] bundle.listed.named /\ score >= bundle.rule.match_at -> "MATCH"
        [] OTHER -> IF score >= bundle.rule.clear_below \/ conflict
                      THEN "REVIEW" ELSE "CLEAR"

----------------------------------------------------------------------------
(* Rows.                                                                   *)

Known == [dob : STRING, nationality : STRING]
Blob(contents) == [gen : {1}, of : contents]

Bundle ==
  [pii : Known, listed : Listings, rule : {Rules[i] : i \in DOMAIN Rules}]

Decision == [verdict : {"CLEAR", "REVIEW", "MATCH"}, frozen : Blob(Bundle)]

SubjectRow ==
  [pii : {NoBlob} \cup Blob(Known), key : [gen : {1}, wrapped : BOOLEAN],
   company : BOOLEAN, relation : {"active", "ended", "expired"},
   shredded : BOOLEAN]

RunRow ==
  [subject : Subjects, trigger : {"intake", "monitoring", "kyb_officer"},
   status : {"pending", "complete"}, decision : {Undecided} \cup Decision]

HumanRow == [run : Screenings, at : 1 .. MaxHuman, id : Nat]

Replayed == [run : Screenings, shredded : BOOLEAN, reproduced : BOOLEAN]

(* What a transaction has read, and then also what it is going to write.   *)
FrozenWork ==
  [phase : {"frozen"}, subject : Subjects, read : {Absent} \cup Known,
   bundle : Bundle]

SealedWork ==
  [phase : {"sealed"}, subject : Subjects, read : {Absent} \cup Known,
   key : [gen : {1}, wrapped : {TRUE}], pii : Blob(Known),
   decision : Decision]

ASSUME AbsentAssumption == Absent \notin SubjectRow \cup RunRow \cup {Lost}

TypeOK ==
  /\ subjects \in [Subjects -> {Absent} \cup SubjectRow]
  /\ runs \in [Screenings -> {Absent, Lost} \cup RunRow]
  /\ work \in [Screenings -> {Idle} \cup FrozenWork \cup SealedWork]
  /\ rule \in DOMAIN Rules
  /\ human \subseteq HumanRow
  /\ IsFiniteSet(human) /\ Cardinality(human) <= MaxHuman
  /\ replayed \in {Absent} \cup Replayed

(* The company may have been screened before.                              *)
Init ==
  /\ \/ subjects = [s \in Subjects |-> Absent]
     \/ \E s \in Subjects, details \in Details :
          subjects = [r \in Subjects |-> IF r = s THEN NewSubject(details, TRUE)
                                                 ELSE Absent]
  /\ runs = [t \in Screenings |-> Absent]
  /\ work = [t \in Screenings |-> Idle]
  /\ rule = 1
  /\ human = {} /\ replayed = Absent

NewRun(s, trigger) ==
  [subject |-> s, trigger |-> trigger, status |-> "pending", decision |-> Undecided]

InUse(s) == subjects[s] # Absent \/ \E t \in Screenings : work[t] # Idle /\ work[t].subject = s

(* create_screening: the subject, its key and its run, in one commit.      *)
CreateScreening(t, s, details) ==
  /\ runs[t] = Absent /\ work[t] = Idle /\ ~InUse(s)
  /\ subjects' = [subjects EXCEPT ![s] = NewSubject(details, FALSE)]
  /\ runs' = [runs EXCEPT ![t] = NewRun(s, "intake")]
  /\ UNCHANGED <<work, rule, human, replayed>>

(* rescreen_for_snapshot: the subjects the list hits, but for those that   *)
(* are shredded or whose relationship ended.                               *)
Rescreen(t, s) ==
  /\ runs[t] = Absent /\ work[t] = Idle
  /\ Readable(s) /\ subjects[s].relation = "active"
  /\ runs' = [runs EXCEPT ![t] = NewRun(s, "monitoring")]
  /\ UNCHANGED <<subjects, work, rule, human, replayed>>

----------------------------------------------------------------------------
(* screen_people.                                                          *)

DobCompatible(a, b) == "none" \in {a, b} \/ a = b

First(known, new) == IF known # "none" THEN known ELSE new

\* Seeded fault: what the new run says replaces what was known.
Merge_NewWins(known, new) ==
  [dob |-> First(new.dob, known.dob),
   nationality |-> First(new.nationality, known.nationality)]

\* What was known first wins.
Merge(known, new) ==
  [dob |-> First(known.dob, new.dob),
   nationality |-> First(known.nationality, new.nationality)]

KnownSubjects(details) ==
  {s \in Subjects : Readable(s) /\ subjects[s].company
                      /\ DobCompatible(Pii(s).dob, details.dob)}

(* Any edition of the lists may be the current one.                        *)
Frozen(s, read, pii) ==
  {[phase |-> "frozen", subject |-> s, read |-> read,
    bundle |-> [pii |-> pii, listed |-> listing, rule |-> Rules[rule]]] :
     listing \in Listings}

(* _subject_for: the company's subject for this person, its file merged    *)
(* with what the run knows, or else a new subject; and what the decision   *)
(* rests on is read.                                                       *)
ScreenPerson(t, details) ==
  /\ runs[t] = Absent /\ work[t] = Idle
  /\ \E s \in Subjects :
       IF KnownSubjects(details) # {}
         THEN /\ s \in KnownSubjects(details)
              /\ \E w \in Frozen(s, Pii(s), Merge(Pii(s), details)) :
                   work' = [work EXCEPT ![t] = w]
         ELSE /\ ~InUse(s)
              /\ \E w \in Frozen(s, Absent, details) : work' = [work EXCEPT ![t] = w]
  /\ UNCHANGED <<subjects, runs, rule, human, replayed>>

----------------------------------------------------------------------------
(* block_candidates, score_candidates and dispose of a screening that has  *)
(* a row.                                                                  *)

Pending(t) == runs[t] \notin {Absent, Lost} /\ runs[t].status = "pending"

Freeze(t) ==
  /\ Pending(t) /\ work[t] = Idle
  /\ Readable(runs[t].subject)
  /\ \E w \in Frozen(runs[t].subject, Absent, Pii(runs[t].subject)) :
       work' = [work EXCEPT ![t] = w]
  /\ UNCHANGED <<subjects, runs, rule, human, replayed>>

Key(s) == IF subjects[s] = Absent THEN NoKey ELSE subjects[s].key

(* encrypt_for_subject: raises if the subject's key has been destroyed.    *)
Seal(t) ==
  /\ work[t].phase = "frozen"
  /\ LET key == EnsureKey(Key(work[t].subject))
     IN  /\ key.wrapped
         /\ work' = [work EXCEPT ![t] =
              [phase |-> "sealed", subject |-> work[t].subject,
               read |-> work[t].read, key |-> key,
               pii |-> [gen |-> key.gen, of |-> work[t].bundle.pii],
               decision |-> [verdict |-> Decide(work[t].bundle),
                             frozen |-> [gen |-> key.gen, of |-> work[t].bundle]]]]
  /\ UNCHANGED <<subjects, runs, rule, human, replayed>>

(* A company run that knew more writes the file it read, whole; columns    *)
(* that it did not touch keep what is there by now.                        *)
SubjectWritten(t) ==
  LET s == work[t].subject
      w == work[t]
      knewMore == w.read # Absent /\ w.read # w.pii.of
  IN  IF subjects[s] = Absent THEN NewSubject(w.pii.of, TRUE)
      ELSE [subjects[s] EXCEPT
              !.key = IF w.key.gen > @.gen THEN w.key ELSE @,
              !.pii = IF knewMore THEN w.pii ELSE @]

Land(t) ==
  /\ work[t].phase = "sealed"
  /\ subjects' = [subjects EXCEPT ![work[t].subject] = SubjectWritten(t)]
  /\ LET row == IF runs[t] = Absent THEN NewRun(work[t].subject, "kyb_officer")
                                    ELSE runs[t]
     IN  runs' = [runs EXCEPT ![t] =
                    [row EXCEPT !.status = "complete", !.decision = work[t].decision]]
  /\ work' = [work EXCEPT ![t] = Idle]
  /\ UNCHANGED <<rule, human, replayed>>

(* A stage raises or is abandoned: a screening of its own ends without a   *)
(* decision, and a company's stage leaves no trace of its screenings.      *)
Lose(t) ==
  /\ Pending(t) \/ work[t] # Idle
  /\ runs' = [runs EXCEPT ![t] =
       IF runs[t] = Absent THEN Lost ELSE [runs[t] EXCEPT !.status = "complete"]]
  /\ work' = [work EXCEPT ![t] = Idle]
  /\ UNCHANGED <<subjects, rule, human, replayed>>

----------------------------------------------------------------------------
(* Retention.                                                              *)

(* relationship_ended_at is set outside the application.                   *)
EndRelationship(s) ==
  /\ subjects[s] # Absent /\ subjects[s].relation = "active"
  /\ subjects' = [subjects EXCEPT ![s].relation = "ended"]
  /\ UNCHANGED <<runs, work, rule, human, replayed>>

(* retention_days() go by.                                                 *)
PassRetention(s) ==
  /\ subjects[s] # Absent /\ subjects[s].relation = "ended"
  /\ subjects' = [subjects EXCEPT ![s].relation = "expired"]
  /\ UNCHANGED <<runs, work, rule, human, replayed>>

Shred(subject) ==
  [subject EXCEPT !.key.wrapped = FALSE, !.pii = NoBlob, !.shredded = TRUE]

(* shred_expired: every subject that is due, in one commit, whatever       *)
(* screening is under way.                                                 *)
ShredExpired ==
  LET due == {s \in Subjects : /\ subjects[s] # Absent
                               /\ ~subjects[s].shredded
                               /\ subjects[s].relation = "expired"}
  IN  /\ due # {}
      /\ subjects' = [s \in Subjects |-> IF s \in due THEN Shred(subjects[s])
                                                       ELSE subjects[s]]
      /\ UNCHANGED <<runs, work, rule, human, replayed>>

----------------------------------------------------------------------------
(* What people do about a decision.                                        *)

Decided(t) == runs[t] \notin {Absent, Lost} /\ runs[t].decision # Undecided

(* dispose_screening appends a row, whatever it says.  The clocks of two   *)
(* servers may disagree.                                                   *)
Dispose(t, at) ==
  /\ Decided(t)
  /\ Cardinality(human) < MaxHuman
  /\ human' = human \cup {[run |-> t, at |-> at, id |-> Cardinality(human)]}
  /\ UNCHANGED <<subjects, runs, work, rule, replayed>>

\* Seeded fault: the bundle is decided under the rule in force.
ReplayDecision_CurrentRule(t) ==
  LET frozen == runs[t].decision.frozen
      again == [frozen.of EXCEPT !.rule = Rules[rule]]
  IN  IF Opens(subjects[runs[t].subject].key, frozen)
        THEN [run |-> t, shredded |-> FALSE,
              reproduced |-> Decide(again) = runs[t].decision.verdict]
        ELSE [run |-> t, shredded |-> TRUE, reproduced |-> FALSE]

(* replay_decision: from the frozen bundle alone.                          *)
ReplayDecision(t) ==
  LET frozen == runs[t].decision.frozen
  IN  IF Opens(subjects[runs[t].subject].key, frozen)
        THEN [run |-> t, shredded |-> FALSE,
              reproduced |-> Decide(frozen.of) = runs[t].decision.verdict]
        ELSE [run |-> t, shredded |-> TRUE, reproduced |-> FALSE]

Replay(t) ==
  /\ Decided(t)
  /\ replayed' = ReplayDecision(t)
  /\ UNCHANGED <<subjects, runs, work, rule, human>>

----------------------------------------------------------------------------
NewRuleVersion ==
  /\ rule < Len(Rules)
  /\ rule' = rule + 1
  /\ UNCHANGED <<subjects, runs, work, human, replayed>>

Next ==
  \/ \E t \in Screenings :
       \/ \E details \in Details :
            ScreenPerson(t, details) \/ \E s \in Subjects : CreateScreening(t, s, details)
       \/ \E s \in Subjects : Rescreen(t, s)
       \/ Freeze(t) \/ Seal(t) \/ Land(t) \/ Lose(t) \/ Replay(t)
       \/ \E at \in 1 .. MaxHuman : Dispose(t, at)
  \/ \E s \in Subjects : EndRelationship(s) \/ PassRetention(s)
  \/ ShredExpired \/ NewRuleVersion

Spec == Init /\ [][Next]_vars

----------------------------------------------------------------------------
(* What the four views of a screening show.                                *)

Rows(t) == {h \in human : h.run = t}

\* The first by created_at, latest first, then id.
LatestHuman(t) ==
  LET latest == {h \in Rows(t) : \A g \in Rows(t) : g.at <= h.at}
  IN  {h \in latest : \A g \in latest : h.id <= g.id}

\* The last by created_at, then id.
LastHuman(t) ==
  LET latest == {h \in Rows(t) : \A g \in Rows(t) : g.at <= h.at}
  IN  {h \in latest : \A g \in latest : g.id <= h.id}

\* get_subjects_pii has nothing for s.
Hidden(s) ==
  \/ subjects[s].shredded \/ subjects[s].pii = NoBlob \/ ~subjects[s].key.wrapped

(* list_screenings *)
QueueItem(t) ==
  [shredded |-> Hidden(runs[t].subject), human |-> LatestHuman(t),
   verdict |-> runs[t].decision.verdict]

(* get_screening *)
Detail(t) ==
  [shredded |-> ~Readable(runs[t].subject), human |-> LastHuman(t),
   verdict |-> runs[t].decision.verdict]

(* build_explanation: what the stored rows say, without decrypting.        *)
Explanation(t) ==
  [shredded |-> subjects[runs[t].subject].shredded, human |-> LastHuman(t),
   verdict |-> runs[t].decision.verdict]

\* Seeded fault: a file without a blob is taken for a shredded one.
Person_ByBlob(t) ==
  [shredded |-> subjects[runs[t].subject].pii = NoBlob, human |-> LatestHuman(t),
   verdict |-> runs[t].decision.verdict]

(* run_people: the same for a screening of a company run.                  *)
Person(t) ==
  [shredded |-> Hidden(runs[t].subject), human |-> LatestHuman(t),
   verdict |-> runs[t].decision.verdict]

----------------------------------------------------------------------------
(* Properties.                                                             *)

Blobs(s) ==
  {subjects[s].pii}
    \cup {runs[t].decision.frozen : t \in {u \in Screenings :
            Decided(u) /\ runs[u].subject = s}}

(* Until a subject is shredded everything kept about it can be read; from  *)
(* then on nothing can, whatever a screening that was under way, or a      *)
(* company run that knew more, encrypts and commits after the shredding    *)
(* (crypto.py: "Every ciphertext for that subject becomes permanently      *)
(* unreadable").                                                           *)
ReadableUntilShredded ==
  \A s \in Subjects : subjects[s] # Absent =>
    \A b \in Blobs(s) :
      Opens(subjects[s].key, b) <=> ~subjects[s].shredded

(* A replay reproduces the decision, whatever the lists and the rules have *)
(* become, unless the subject is shredded by now; then it says so          *)
(* (replay.py: "a decision still reproduces after the lists change").      *)
ReplaysReproduce ==
  replayed # Absent =>
    IF replayed.shredded THEN subjects[runs[replayed.run].subject].shredded
                         ELSE replayed.reproduced

NoTie(t) == \A g, h \in Rows(t) : g.at = h.at => g = h

(* The queue, the screening's own page, its explanation and the company's  *)
(* page agree on what a person decided last and on whether the subject is  *)
(* shredded, each of which they find out in a way of their own.            *)
ViewsAgree ==
  \A t \in Screenings : Decided(t) /\ NoTie(t) =>
    /\ QueueItem(t) = Detail(t)
    /\ Explanation(t) = Detail(t)
    /\ runs[t].trigger = "kyb_officer" => Person(t) = Detail(t)

\* A company run that read the file of s before another one changed it.
Overtaken(t, s) ==
  /\ work[t].phase = "sealed" /\ work[t].subject = s
  /\ work[t].read \notin {Absent, Pii(s)}

(* What was known of a person first is not replaced by what a later        *)
(* company run says (screen.py: "what we knew first wins"), unless two     *)
(* company runs worked on the file at a time and one of them writes back   *)
(* what it had read.                                                       *)
FirstKnownWins ==
  [][\A s \in Subjects :
       subjects[s] # Absent /\ NoBlob \notin {subjects[s].pii, subjects'[s].pii} =>
         \/ \A attr \in {"dob", "nationality"} :
              Pii(s)[attr] \in {"none", Pii(s)'[attr]}
         \/ \E t \in Screenings : Overtaken(t, s)]_vars
=============================================================================
