-------------------------- MODULE SubjectFile_proof --------------------------
(***************************************************************************)
(* Theorems about SubjectFile, for any sets of subjects, screenings,       *)
(* details and listings and any sequence of rules.                         *)
(***************************************************************************)
EXTENDS SubjectFile, FiniteSetTheorems, TLAPS

(* A subject is shredded when its key is destroyed; before that its file   *)
(* holds something.                                                        *)
KeysKept ==
  \A s \in Subjects : subjects[s] # Absent =>
    /\ subjects[s].key.wrapped <=> ~subjects[s].shredded
    /\ ~subjects[s].shredded => subjects[s].pii # NoBlob

(* A run that has a row has a subject; a lost one has nothing under way.   *)
RunsHaveSubjects ==
  \A t \in Screenings :
    /\ runs[t] \notin {Absent, Lost} => subjects[runs[t].subject] # Absent
    /\ work[t] # Idle => runs[t] # Lost

(* A decision, stored or about to be, is the one its bundle calls for.     *)
AsFrozen(decision) == decision.verdict = Decide(decision.frozen.of)

DecidedAsFrozen ==
  \A t \in Screenings :
    /\ Decided(t) => AsFrozen(runs[t].decision)
    /\ work[t].phase = "sealed" => AsFrozen(work[t].decision)

(* What an open transaction is going to write keeps what it has read.      *)
Keeps(old, new) ==
  \A attr \in {"dob", "nationality"} : old[attr] \in {"none", new[attr]}

ReadsKept ==
  \A t \in Screenings :
    /\ work[t].phase = "frozen" /\ work[t].read # Absent =>
         Keeps(work[t].read, work[t].bundle.pii)
    /\ work[t].phase = "sealed" /\ work[t].read # Absent =>
         Keeps(work[t].read, work[t].pii.of)

(* The run that was replayed is still there.                               *)
ReplayedDecided == replayed # Absent => runs[replayed.run] \notin {Absent, Lost}

IInv ==
  /\ TypeOK
  /\ KeysKept
  /\ RunsHaveSubjects
  /\ DecidedAsFrozen
  /\ ReadsKept
  /\ ReplayedDecided
  /\ ReplaysReproduce
----------------------------------------------------------------------------
(* Keys, files and decisions.                                              *)

LEMMA KeyOnce ==
  /\ EnsureKey(NoKey) = [gen |-> 1, wrapped |-> TRUE]
  /\ \A key \in [gen : {1}, wrapped : BOOLEAN] : EnsureKey(key) = key
  /\ EnsureKey(NoKey) \in [gen : {1}, wrapped : BOOLEAN]
  BY DEF EnsureKey, NoKey

LEMMA NewSubjectFacts ==
  ASSUME NEW pii \in Known, NEW company \in BOOLEAN
  PROVE  /\ NewSubject(pii, company) \in SubjectRow
         /\ NewSubject(pii, company).key.wrapped
         /\ ~NewSubject(pii, company).shredded
         /\ NewSubject(pii, company).pii # NoBlob
  BY KeyOnce DEF NewSubject, SubjectRow, Encrypt, NoBlob, Blob

LEMMA MergeFacts ==
  ASSUME NEW a \in Known, NEW b \in Known
  PROVE  Merge(a, b) \in Known /\ Keeps(a, Merge(a, b))
  BY DEF Merge, First, Known, Keeps

LEMMA DecideType ==
  ASSUME NEW bundle PROVE Decide(bundle) \in {"CLEAR", "REVIEW", "MATCH"}
<1> DEFINE score == Score(bundle)
<1>1. CASE ~bundle.listed.named
  BY <1>1 DEF Decide
<1>2. CASE bundle.listed.named /\ score >= bundle.rule.match_at
  BY <1>2 DEF Decide
<1>3. CASE bundle.listed.named /\ ~(score >= bundle.rule.match_at)
  BY <1>3 DEF Decide
<1> QED
  BY <1>1, <1>2, <1>3

(* A subject whose file can be read.                                       *)
LEMMA ReadableFacts ==
  ASSUME TypeOK, NEW s \in Subjects, Readable(s)
  PROVE  subjects[s] \in SubjectRow /\ Pii(s) \in Known
  BY DEF TypeOK, Readable, Opens, Pii, SubjectRow, Blob

LEMMA FrozenFacts ==
  ASSUME TypeOK, NEW s \in Subjects, NEW read \in {Absent} \cup Known,
         NEW pii \in Known, NEW w \in Frozen(s, read, pii)
  PROVE  /\ w \in FrozenWork
         /\ w.phase = "frozen" /\ w.read = read /\ w.bundle.pii = pii
  BY DEF TypeOK, Frozen, FrozenWork, Bundle

(* What a transaction has under way, and in which phase.                   *)
LEMMA WorkPhases ==
  ASSUME TypeOK, NEW t \in Screenings
  PROVE  /\ work[t].phase = "frozen" => work[t] \in FrozenWork
         /\ work[t].phase = "sealed" => work[t] \in SealedWork
         /\ work[t].phase \in {"frozen", "sealed"} => work[t] # Idle
<1>1. work[t] \in {Idle} \cup FrozenWork \cup SealedWork
  BY DEF TypeOK
<1>2. Idle.phase = "idle"
  BY DEF Idle
<1>3. /\ \A w \in FrozenWork : w.phase = "frozen"
      /\ \A w \in SealedWork : w.phase = "sealed"
  BY DEF FrozenWork, SealedWork
<1> HIDE DEF Idle, FrozenWork, SealedWork
<1> QED
  BY <1>1, <1>2, <1>3

(* What a landing screening writes of its subject.                         *)
LEMMA SubjectWrittenFacts ==
  ASSUME TypeOK, KeysKept, NEW t \in Screenings, work[t].phase = "sealed"
  PROVE  LET s == work[t].subject
             written == SubjectWritten(t)
         IN  /\ s \in Subjects
             /\ written \in SubjectRow
             /\ written.key.wrapped <=> ~written.shredded
             /\ ~written.shredded => written.pii # NoBlob
             /\ subjects[s] # Absent => written.shredded = subjects[s].shredded
<1> DEFINE s == work[t].subject
           w == work[t]
           written == SubjectWritten(t)
<1>1. w \in SealedWork /\ s \in Subjects
  BY WorkPhases DEF SealedWork
<1>2. /\ w.key.gen = 1
      /\ w.pii \in Blob(Known) /\ w.pii.of \in Known /\ w.pii # NoBlob
  <2>1. w.key \in [gen : {1}, wrapped : {TRUE}] /\ w.pii \in Blob(Known)
    BY <1>1 DEF SealedWork
  <2>2. \A blob \in Blob(Known) : blob.of \in Known /\ blob # NoBlob
    BY DEF Blob, NoBlob
  <2> QED
    BY <2>1, <2>2
<1>3. CASE subjects[s] = Absent
  <2>1. written = NewSubject(w.pii.of, TRUE)
    BY <1>3 DEF SubjectWritten
  <2> QED
    BY <1>1, <1>2, <1>3, <2>1, NewSubjectFacts
<1>4. CASE subjects[s] # Absent
  <2>1. subjects[s] \in SubjectRow
    BY <1>1, <1>4 DEF TypeOK
  <2>2. ~(w.key.gen > subjects[s].key.gen)
    BY <1>2, <2>1 DEF SubjectRow
  <2>3. PICK pii \in {w.pii, subjects[s].pii} :
          written = [subjects[s] EXCEPT !.key = subjects[s].key, !.pii = pii]
    BY <1>4, <2>1, <2>2 DEF SubjectWritten, SubjectRow
  <2>4. /\ written \in SubjectRow
        /\ written.key = subjects[s].key
        /\ written.shredded = subjects[s].shredded
        /\ written.pii = pii
    BY <1>2, <2>1, <2>3 DEF SubjectRow
  <2> QED
    BY <1>1, <1>2, <1>4, <2>4 DEF KeysKept
<1> QED
  BY <1>3, <1>4

----------------------------------------------------------------------------
(* The invariant holds at first and every step keeps it.                   *)

LEMMA InitIInv == Init => IInv
<1> SUFFICES ASSUME Init PROVE IInv
  OBVIOUS
<1>1. \A s \in Subjects : subjects[s] # Absent =>
        /\ subjects[s].key.wrapped /\ ~subjects[s].shredded
        /\ subjects[s].pii # NoBlob
  <2>1. CASE subjects = [s \in Subjects |-> Absent]
    BY <2>1
  <2>2. ASSUME NEW r \in Subjects, NEW details \in Details,
               subjects = [s \in Subjects |-> IF s = r THEN NewSubject(details, TRUE)
                                                       ELSE Absent]
        PROVE  <1>1!:
    BY <2>2, NewSubjectFacts, SubjectFileAssumption DEF Known
  <2> QED
    BY <2>1, <2>2 DEF Init
<1>2. subjects \in [Subjects -> {Absent} \cup SubjectRow]
  BY NewSubjectFacts, SubjectFileAssumption DEF Init, Known
<1>3. TypeOK
  <2>1. IsFiniteSet({}) /\ Cardinality({}) = 0
    BY FS_EmptySet
  <2>2. 1 \in DOMAIN Rules
    BY SubjectFileAssumption
  <2> QED
    BY <1>2, <2>1, <2>2, SubjectFileAssumption DEF Init, TypeOK
<1>4. \A t \in Screenings : runs[t] = Absent /\ work[t] = Idle /\ replayed = Absent
  BY DEF Init
<1>5. Idle.phase = "idle"
  BY DEF Idle
<1> QED
  BY <1>1, <1>3, <1>4, <1>5
     DEF IInv, KeysKept, RunsHaveSubjects, DecidedAsFrozen, ReadsKept, Decided,
         ReplayedDecided, ReplaysReproduce, Init

(* A replay goes on to tell the truth: its run stays and a subject that is *)
(* shredded stays so.                                                      *)
LEMMA ReplayKept ==
  ASSUME TypeOK, RunsHaveSubjects, ReplayedDecided, ReplaysReproduce,
         replayed' = replayed,
         \A t \in Screenings : runs[t] \notin {Absent, Lost} =>
           /\ runs'[t] \notin {Absent, Lost}
           /\ runs'[t].subject = runs[t].subject,
         \A s \in Subjects : subjects[s] # Absent /\ subjects[s].shredded =>
           subjects'[s].shredded
  PROVE  ReplayedDecided' /\ ReplaysReproduce'
<1> SUFFICES ASSUME replayed # Absent PROVE ReplayedDecided' /\ ReplaysReproduce'
  BY DEF ReplayedDecided, ReplaysReproduce
<1>1. replayed.run \in Screenings
  BY DEF TypeOK, Replayed
<1>2. runs[replayed.run] \notin {Absent, Lost}
  BY DEF ReplayedDecided
<1>3. runs[replayed.run].subject \in Subjects
  BY <1>1, <1>2 DEF TypeOK, RunRow
<1> QED
  BY <1>1, <1>2, <1>3 DEF ReplayedDecided, ReplaysReproduce, RunsHaveSubjects

(* A transaction reads what its decision rests on.                         *)
LEMMA FreezeStep ==
  ASSUME IInv, NEW t \in Screenings, NEW w \in FrozenWork,
         w.read # Absent => Keeps(w.read, w.bundle.pii),
         runs[t] # Lost,
         work' = [work EXCEPT ![t] = w],
         UNCHANGED <<subjects, runs, rule, human, replayed>>
  PROVE  IInv'
<1>1. w.phase = "frozen"
  BY DEF FrozenWork
<1>2. TypeOK'
  BY DEF IInv, TypeOK
<1>3. \A u \in Screenings : work'[u] = work[u] \/ (u = t /\ work'[u] = w)
  BY DEF IInv, TypeOK
<1>4. KeysKept' /\ RunsHaveSubjects'
  BY <1>3 DEF IInv, KeysKept, RunsHaveSubjects
<1>5. DecidedAsFrozen' /\ ReadsKept'
  BY <1>1, <1>3 DEF IInv, DecidedAsFrozen, ReadsKept, Decided
<1> QED
  BY <1>2, <1>4, <1>5 DEF IInv, ReplayedDecided, ReplaysReproduce

(* What is done to the subjects' files alone: keys and blobs go, and never *)
(* come back.                                                              *)
LEMMA SubjectsStep ==
  ASSUME IInv,
         subjects' \in [Subjects -> {Absent} \cup SubjectRow],
         \A s \in Subjects :
           \/ subjects'[s] = subjects[s]
           \/ /\ subjects[s] # Absent /\ subjects'[s] # Absent
              /\ subjects'[s].key.wrapped <=> ~subjects'[s].shredded
              /\ ~subjects'[s].shredded => subjects'[s].pii # NoBlob
              /\ subjects[s].shredded => subjects'[s].shredded,
         UNCHANGED <<runs, work, rule, human, replayed>>
  PROVE  IInv'
<1>1. TypeOK'
  BY DEF IInv, TypeOK
<1>2. KeysKept'
  BY DEF IInv, KeysKept
<1>3. RunsHaveSubjects'
  BY DEF IInv, RunsHaveSubjects, TypeOK, RunRow
<1>4. DecidedAsFrozen' /\ ReadsKept'
  BY DEF IInv, DecidedAsFrozen, ReadsKept, Decided
<1>5. ReplayedDecided' /\ ReplaysReproduce'
  BY ReplayKept DEF IInv
<1> QED
  BY <1>1, <1>2, <1>3, <1>4, <1>5 DEF IInv

(* The stages of a screening.                                              *)
LEMMA ScreenPersonStep ==
  ASSUME IInv, NEW t \in Screenings, NEW details \in Details,
         ScreenPerson(t, details)
  PROVE  IInv'
<1>1. details \in Known /\ runs[t] # Lost
  BY SubjectFileAssumption, AbsentAssumption DEF ScreenPerson, Known
<1>2. PICK s \in Subjects :
        IF KnownSubjects(details) # {}
          THEN /\ s \in KnownSubjects(details)
               /\ \E w \in Frozen(s, Pii(s), Merge(Pii(s), details)) :
                    work' = [work EXCEPT ![t] = w]
          ELSE \E w \in Frozen(s, Absent, details) : work' = [work EXCEPT ![t] = w]
  BY DEF ScreenPerson
<1>3. CASE KnownSubjects(details) # {}
  <2>1. Pii(s) \in Known
    BY <1>2, <1>3, ReadableFacts DEF IInv, KnownSubjects
  <2>2. Merge(Pii(s), details) \in Known /\ Keeps(Pii(s), Merge(Pii(s), details))
    BY <1>1, <2>1, MergeFacts
  <2>3. PICK w \in Frozen(s, Pii(s), Merge(Pii(s), details)) :
          work' = [work EXCEPT ![t] = w]
    BY <1>2, <1>3
  <2>4. /\ w \in FrozenWork
        /\ w.read = Pii(s) /\ w.bundle.pii = Merge(Pii(s), details)
    BY <2>1, <2>2, <2>3, FrozenFacts DEF IInv
  <2> QED
    BY <1>1, <2>2, <2>3, <2>4, FreezeStep DEF ScreenPerson
<1>4. CASE KnownSubjects(details) = {}
  <2>1. PICK w \in Frozen(s, Absent, details) : work' = [work EXCEPT ![t] = w]
    BY <1>2, <1>4
  <2>2. w \in FrozenWork /\ w.read = Absent
    BY <1>1, <2>1, FrozenFacts DEF IInv
  <2> QED
    BY <1>1, <2>1, <2>2, FreezeStep DEF ScreenPerson
<1> QED
  BY <1>3, <1>4

LEMMA FreezeRunStep ==
  ASSUME IInv, NEW t \in Screenings, Freeze(t)
  PROVE  IInv'
<1> DEFINE s == runs[t].subject
<1>1. s \in Subjects /\ runs[t] # Lost
  BY DEF IInv, TypeOK, Freeze, Pending, RunRow
<1>2. Pii(s) \in Known
  BY <1>1, ReadableFacts DEF IInv, Freeze
<1>3. PICK w \in Frozen(s, Absent, Pii(s)) : work' = [work EXCEPT ![t] = w]
  BY DEF Freeze
<1>4. w \in FrozenWork /\ w.read = Absent
  BY <1>1, <1>2, <1>3, FrozenFacts DEF IInv
<1> QED
  BY <1>1, <1>3, <1>4, FreezeStep DEF Freeze

(* What is sealed opens with the key that the subject has, or will have.   *)
LEMMA SealStep ==
  ASSUME IInv, NEW t \in Screenings, Seal(t)
  PROVE  IInv'
<1> DEFINE w == work[t]
           key == EnsureKey(Key(w.subject))
           new == work'[t]
<1>1. w \in FrozenWork
  BY WorkPhases DEF IInv, Seal
<1>2. /\ w.subject \in Subjects /\ w.read \in {Absent} \cup Known
      /\ w.bundle \in Bundle /\ w.bundle.pii \in Known
  BY <1>1 DEF FrozenWork, Bundle
<1>3. Key(w.subject) \in {NoKey} \cup [gen : {1}, wrapped : BOOLEAN]
  BY <1>2 DEF IInv, TypeOK, Key, SubjectRow
<1>4. key \in [gen : {1}, wrapped : {TRUE}] /\ key.gen = 1
  <2>1. key.wrapped
    BY DEF Seal
  <2>2. key \in [gen : {1}, wrapped : BOOLEAN]
    BY <1>3, KeyOnce
  <2> QED
    BY <2>1, <2>2
<1>5. new =
        [phase |-> "sealed", subject |-> w.subject, read |-> w.read, key |-> key,
         pii |-> [gen |-> 1, of |-> w.bundle.pii],
         decision |-> [verdict |-> Decide(w.bundle),
                       frozen |-> [gen |-> 1, of |-> w.bundle]]]
  BY <1>4 DEF IInv, TypeOK, Seal
<1>6. new.decision \in Decision /\ AsFrozen(new.decision)
  BY <1>2, <1>5, DecideType DEF Decision, Blob, AsFrozen
<1>7. new \in SealedWork /\ new.phase = "sealed"
  <2>1. PICK pii \in Blob(Known), decision \in Decision :
          new = [phase |-> "sealed", subject |-> w.subject, read |-> w.read,
                 key |-> key, pii |-> pii, decision |-> decision]
    <3>1. [gen |-> 1, of |-> w.bundle.pii] \in Blob(Known)
      BY <1>2 DEF Blob
    <3> QED
      BY <1>5, <1>6, <3>1
  <2> HIDE DEF new, key, w
  <2>2. new \in SealedWork
    BY <1>2, <1>4, <2>1 DEF SealedWork
  <2> QED
    BY <2>1, <2>2
<1>8. new.read # Absent => Keeps(new.read, new.pii.of)
  BY <1>5 DEF IInv, ReadsKept, Seal
<1>9. \A u \in Screenings : u # t => work'[u] = work[u]
  BY DEF IInv, TypeOK, Seal
<1>10. TypeOK'
  <2>1. work' \in [Screenings -> {Idle} \cup FrozenWork \cup SealedWork]
    <3>1. work' = [work EXCEPT ![t] = new]
      BY DEF IInv, TypeOK, Seal
    <3> HIDE DEF new
    <3> QED
      BY <1>7, <3>1 DEF IInv, TypeOK
  <2> QED
    BY <2>1 DEF IInv, TypeOK, Seal
<1>11. KeysKept' /\ ReplayedDecided' /\ ReplaysReproduce'
  BY DEF IInv, KeysKept, ReplayedDecided, ReplaysReproduce, Seal
<1>12. RunsHaveSubjects'
  <2>1. runs[t] # Lost
    BY <1>1, WorkPhases DEF IInv, RunsHaveSubjects, Seal
  <2> QED
    BY <1>9, <2>1 DEF IInv, RunsHaveSubjects, Seal
<1>13. DecidedAsFrozen'
  BY <1>6, <1>9 DEF IInv, DecidedAsFrozen, Decided, Seal
<1>14. ReadsKept'
  BY <1>7, <1>8, <1>9 DEF IInv, ReadsKept
<1> QED
  BY <1>10, <1>11, <1>12, <1>13, <1>14 DEF IInv

(* A screening lands with its subject's file, in one commit.               *)
LEMMA LandStep ==
  ASSUME IInv, NEW t \in Screenings, Land(t)
  PROVE  IInv'
<1> DEFINE s == work[t].subject
           row == IF runs[t] = Absent THEN NewRun(s, "kyb_officer") ELSE runs[t]
           new == [row EXCEPT !.status = "complete", !.decision = work[t].decision]
<1>1. work[t].phase = "sealed" /\ work[t] \in SealedWork /\ work[t] # Idle
  BY WorkPhases DEF IInv, Land
<1>2. work[t].decision \in Decision /\ AsFrozen(work[t].decision)
  BY <1>1 DEF IInv, DecidedAsFrozen, SealedWork
<1>3. /\ s \in Subjects
      /\ SubjectWritten(t) \in SubjectRow /\ SubjectWritten(t) # Absent
      /\ SubjectWritten(t).key.wrapped <=> ~SubjectWritten(t).shredded
      /\ ~SubjectWritten(t).shredded => SubjectWritten(t).pii # NoBlob
      /\ subjects[s] # Absent => SubjectWritten(t).shredded = subjects[s].shredded
  BY <1>1, SubjectWrittenFacts, AbsentAssumption DEF IInv
<1>4. row \in RunRow /\ (runs[t] \notin {Absent, Lost} => row = runs[t])
  <2>1. NewRun(s, "kyb_officer") \in RunRow
    BY <1>3 DEF NewRun, RunRow
  <2>2. runs[t] # Lost
    BY <1>1 DEF IInv, RunsHaveSubjects
  <2>3. runs[t] # Absent => runs[t] \in RunRow
    BY <2>2 DEF IInv, TypeOK
  <2> HIDE DEF s
  <2> QED
    BY <2>1, <2>2, <2>3
<1>5. /\ new \in RunRow /\ new \notin {Absent, Lost}
      /\ new.decision = work[t].decision /\ new.subject = row.subject
  <2>1. new \in RunRow /\ new.decision = work[t].decision /\ new.subject = row.subject
    <3> HIDE DEF row
    <3> QED
      BY <1>2, <1>4 DEF RunRow
  <2>2. Lost \notin RunRow
    BY DEF Lost, RunRow
  <2> QED
    BY <2>1, <2>2, AbsentAssumption
<1>6. row.subject = s \/ (runs[t] \notin {Absent, Lost} /\ row.subject = runs[t].subject)
  BY <1>1 DEF NewRun, IInv, RunsHaveSubjects
<1> HIDE DEF row, new
<1>7. /\ \A r \in Subjects : subjects'[r] = IF r = s THEN SubjectWritten(t) ELSE subjects[r]
      /\ \A u \in Screenings : runs'[u] = IF u = t THEN new ELSE runs[u]
      /\ \A u \in Screenings : work'[u] = IF u = t THEN Idle ELSE work[u]
  BY DEF IInv, TypeOK, Land, row, new
<1>8. TypeOK'
  <2>1. subjects' \in [Subjects -> {Absent} \cup SubjectRow]
    BY <1>3 DEF IInv, TypeOK, Land
  <2>2. runs' = [runs EXCEPT ![t] = new]
    BY DEF Land, row, new
  <2>3. runs' \in [Screenings -> {Absent, Lost} \cup RunRow]
    BY <1>5, <2>2 DEF IInv, TypeOK
  <2>4. work' \in [Screenings -> {Idle} \cup FrozenWork \cup SealedWork]
    BY DEF IInv, TypeOK, Land
  <2> QED
    BY <2>1, <2>3, <2>4 DEF IInv, TypeOK, Land
<1>9. KeysKept'
  BY <1>3, <1>7 DEF IInv, KeysKept
<1>10. RunsHaveSubjects'
  <2>1. \A r \in Subjects : subjects[r] # Absent => subjects'[r] # Absent
    BY <1>3, <1>7
  <2>2. \A u \in Screenings : runs[u] \notin {Absent, Lost} => runs[u].subject \in Subjects
    BY DEF IInv, TypeOK, RunRow
  <2>3. subjects'[new.subject] # Absent
    BY <1>3, <1>5, <1>6, <1>7, <2>1, <2>2 DEF IInv, RunsHaveSubjects
  <2> QED
    BY <1>5, <1>7, <2>1, <2>2, <2>3 DEF IInv, RunsHaveSubjects
<1>11. Idle.phase = "idle"
  BY DEF Idle
<1>12. DecidedAsFrozen' /\ ReadsKept'
  BY <1>2, <1>5, <1>7, <1>11 DEF IInv, DecidedAsFrozen, ReadsKept, Decided
<1>13. ReplayedDecided' /\ ReplaysReproduce'
  <2>1. \A u \in Screenings : runs[u] \notin {Absent, Lost} =>
          runs'[u] \notin {Absent, Lost} /\ runs'[u].subject = runs[u].subject
    BY <1>4, <1>5, <1>7
  <2>2. \A r \in Subjects : subjects[r] # Absent /\ subjects[r].shredded =>
          subjects'[r].shredded
    BY <1>3, <1>7
  <2>3. replayed' = replayed
    BY DEF Land
  <2> QED
    BY <2>1, <2>2, <2>3, ReplayKept DEF IInv
<1> QED
  BY <1>8, <1>9, <1>10, <1>12, <1>13 DEF IInv

LEMMA LoseStep ==
  ASSUME IInv, NEW t \in Screenings, Lose(t)
  PROVE  IInv'
<1> DEFINE new == IF runs[t] = Absent THEN Lost ELSE [runs[t] EXCEPT !.status = "complete"]
<1>1. runs[t] # Lost
  BY DEF IInv, RunsHaveSubjects, Lose, Pending
<1>2. runs[t] = Absent \/ runs[t] \in RunRow
  BY <1>1 DEF IInv, TypeOK
<1>3. runs[t] # Absent =>
        /\ new \in RunRow /\ new \notin {Absent, Lost}
        /\ new.decision = runs[t].decision /\ new.subject = runs[t].subject
  <2>1. runs[t] # Absent =>
          /\ new \in RunRow
          /\ new.decision = runs[t].decision /\ new.subject = runs[t].subject
    BY <1>2 DEF RunRow
  <2>2. Lost \notin RunRow
    BY DEF Lost, RunRow
  <2> QED
    BY <2>1, <2>2, AbsentAssumption
<1>4. runs[t] = Absent => new = Lost
  OBVIOUS
<1>5. runs' = [runs EXCEPT ![t] = new]
  BY DEF Lose
<1> HIDE DEF new
<1>6. /\ \A u \in Screenings : runs'[u] = IF u = t THEN new ELSE runs[u]
      /\ \A u \in Screenings : work'[u] = IF u = t THEN Idle ELSE work[u]
  BY <1>5 DEF IInv, TypeOK, Lose
<1>7. TypeOK'
  BY <1>3, <1>4, <1>5 DEF IInv, TypeOK, Lose
<1>8. KeysKept' /\ RunsHaveSubjects'
  BY <1>1, <1>3, <1>4, <1>6 DEF IInv, KeysKept, RunsHaveSubjects, Lose
<1>9. Idle.phase = "idle"
  BY DEF Idle
<1>10. DecidedAsFrozen' /\ ReadsKept'
  BY <1>1, <1>3, <1>4, <1>6, <1>9
     DEF IInv, DecidedAsFrozen, ReadsKept, Decided
<1>11. ReplayedDecided' /\ ReplaysReproduce'
  <2>1. \A u \in Screenings : runs[u] \notin {Absent, Lost} =>
          runs'[u] \notin {Absent, Lost} /\ runs'[u].subject = runs[u].subject
    BY <1>3, <1>6
  <2> QED
    BY <2>1, ReplayKept DEF IInv, Lose
<1> QED
  BY <1>7, <1>8, <1>10, <1>11 DEF IInv

(* A run that has just been created, for a subject that has a file.        *)
LEMMA NewRunStep ==
  ASSUME IInv, NEW t \in Screenings, NEW s \in Subjects,
         NEW trigger \in {"intake", "monitoring"},
         runs[t] = Absent, work[t] = Idle,
         subjects' \in [Subjects -> {Absent} \cup SubjectRow],
         subjects'[s] # Absent,
         \A r \in Subjects :
           \/ subjects'[r] = subjects[r]
           \/ /\ subjects[r] = Absent
              /\ subjects'[r].key.wrapped /\ ~subjects'[r].shredded
              /\ subjects'[r].pii # NoBlob,
         \A r \in Subjects : subjects[r] # Absent => subjects'[r] # Absent,
         runs' = [runs EXCEPT ![t] = NewRun(s, trigger)],
         UNCHANGED <<work, rule, human, replayed>>
  PROVE  IInv'
<1>1. /\ NewRun(s, trigger) \in RunRow
      /\ NewRun(s, trigger).subject = s
      /\ NewRun(s, trigger).decision = Undecided
  BY DEF NewRun, RunRow
<1>2. NewRun(s, trigger) # Lost
  BY <1>1 DEF Lost, RunRow
<1>3. \A u \in Screenings : runs'[u] = IF u = t THEN NewRun(s, trigger) ELSE runs[u]
  BY DEF IInv, TypeOK
<1> HIDE DEF NewRun
<1>4. TypeOK'
  BY <1>1 DEF IInv, TypeOK
<1>5. KeysKept'
  BY DEF IInv, KeysKept
<1>6. RunsHaveSubjects'
  <2>1. \A u \in Screenings : runs[u] \notin {Absent, Lost} => runs[u].subject \in Subjects
    BY DEF IInv, TypeOK, RunRow
  <2> QED
    BY <1>1, <1>2, <1>3, <2>1 DEF IInv, RunsHaveSubjects
<1>7. DecidedAsFrozen' /\ ReadsKept'
  BY <1>1, <1>3 DEF IInv, DecidedAsFrozen, ReadsKept, Decided
<1>8. ReplayedDecided' /\ ReplaysReproduce'
  BY <1>3, ReplayKept DEF IInv
<1> QED
  BY <1>4, <1>5, <1>6, <1>7, <1>8 DEF IInv

LEMMA CreateStep ==
  ASSUME IInv, NEW t \in Screenings, NEW s \in Subjects, NEW details \in Details,
         CreateScreening(t, s, details)
  PROVE  IInv'
<1> DEFINE new == NewSubject(details, FALSE)
<1>1. /\ new \in SubjectRow /\ new # Absent
      /\ new.key.wrapped /\ ~new.shredded /\ new.pii # NoBlob
  BY NewSubjectFacts, SubjectFileAssumption, AbsentAssumption DEF Known
<1>2. subjects' = [subjects EXCEPT ![s] = new]
  BY DEF CreateScreening
<1> HIDE DEF new
<1>3. subjects[s] = Absent
  BY DEF CreateScreening, InUse
<1>4. \A r \in Subjects : subjects'[r] = IF r = s THEN new ELSE subjects[r]
  BY <1>2 DEF IInv, TypeOK
<1>5. subjects' \in [Subjects -> {Absent} \cup SubjectRow]
  BY <1>1, <1>2 DEF IInv, TypeOK
<1>6. /\ runs[t] = Absent /\ work[t] = Idle
      /\ runs' = [runs EXCEPT ![t] = NewRun(s, "intake")]
      /\ UNCHANGED <<work, rule, human, replayed>>
  BY DEF CreateScreening
<1> QED
  BY <1>1, <1>3, <1>4, <1>5, <1>6, NewRunStep

LEMMA RescreenStep ==
  ASSUME IInv, NEW t \in Screenings, NEW s \in Subjects, Rescreen(t, s)
  PROVE  IInv'
  BY NewRunStep DEF IInv, TypeOK, Rescreen, Readable

(* Retention.                                                              *)
LEMMA RelationStep ==
  ASSUME IInv, NEW s \in Subjects, EndRelationship(s) \/ PassRetention(s)
  PROVE  IInv'
<1>1. subjects[s] # Absent /\ subjects[s] \in SubjectRow
  BY DEF IInv, TypeOK, EndRelationship, PassRetention
<1>2. PICK relation \in {"ended", "expired"} :
        subjects' = [subjects EXCEPT ![s].relation = relation]
  BY DEF EndRelationship, PassRetention
<1> DEFINE new == [subjects[s] EXCEPT !.relation = relation]
<1>3. /\ new \in SubjectRow /\ new # Absent
      /\ new.key = subjects[s].key /\ new.pii = subjects[s].pii
      /\ new.shredded = subjects[s].shredded
  BY <1>1, AbsentAssumption DEF SubjectRow
<1>4. subjects' = [subjects EXCEPT ![s] = new]
  BY <1>2
<1> HIDE DEF new
<1> QED
  <2>1. subjects' \in [Subjects -> {Absent} \cup SubjectRow]
    BY <1>3, <1>4 DEF IInv, TypeOK
  <2>2. \A r \in Subjects : subjects'[r] = IF r = s THEN new ELSE subjects[r]
    BY <1>4 DEF IInv, TypeOK
  <2>3. new.key.wrapped <=> ~new.shredded
    BY <1>1, <1>3 DEF IInv, KeysKept
  <2>4. ~new.shredded => new.pii # NoBlob
    BY <1>1, <1>3 DEF IInv, KeysKept
  <2>5. UNCHANGED <<runs, work, rule, human, replayed>>
    BY DEF EndRelationship, PassRetention
  <2> QED
    BY <1>1, <1>3, <2>1, <2>2, <2>3, <2>4, <2>5, SubjectsStep

LEMMA ShredStep ==
  ASSUME IInv, ShredExpired
  PROVE  IInv'
<1>1. PICK due \in SUBSET {s \in Subjects : subjects[s] # Absent} :
        subjects' = [s \in Subjects |-> IF s \in due THEN Shred(subjects[s])
                                                     ELSE subjects[s]]
  BY DEF ShredExpired
<1>2. \A s \in due :
        /\ Shred(subjects[s]) \in SubjectRow
        /\ ~Shred(subjects[s]).key.wrapped /\ Shred(subjects[s]).shredded
  <2> SUFFICES ASSUME NEW s \in due
               PROVE  /\ Shred(subjects[s]) \in SubjectRow
                      /\ ~Shred(subjects[s]).key.wrapped /\ Shred(subjects[s]).shredded
    OBVIOUS
  <2>1. subjects[s] \in SubjectRow
    BY <1>1 DEF IInv, TypeOK
  <2> QED
    BY <2>1 DEF Shred, SubjectRow
<1> QED
  BY <1>1, <1>2, SubjectsStep, AbsentAssumption DEF IInv, TypeOK, ShredExpired

(* What people do about a decision.                                        *)
LEMMA DisposeStep ==
  ASSUME IInv, NEW t \in Screenings, NEW at \in 1 .. MaxHuman, Dispose(t, at)
  PROVE  IInv'
<1> DEFINE row == [run |-> t, at |-> at, id |-> Cardinality(human)]
<1>1. IsFiniteSet(human) /\ Cardinality(human) \in Nat
  BY FS_CardinalityType DEF IInv, TypeOK
<1>2. row \in HumanRow
  BY <1>1 DEF HumanRow
<1>3. human' = human \cup {row}
  BY DEF Dispose
<1> HIDE DEF row
<1>4. /\ IsFiniteSet(human')
      /\ Cardinality(human') \in {Cardinality(human), Cardinality(human) + 1}
  BY <1>1, <1>3, FS_AddElement
<1>5. Cardinality(human') <= MaxHuman
  BY <1>1, <1>4, SubjectFileAssumption DEF Dispose
<1>6. TypeOK'
  BY <1>2, <1>3, <1>4, <1>5 DEF IInv, TypeOK, Dispose
<1> QED
  BY <1>6 DEF IInv, KeysKept, RunsHaveSubjects, DecidedAsFrozen, ReadsKept, Decided,
              ReplayedDecided, ReplaysReproduce, Dispose

(* A bundle that does not open is one of a shredded subject.               *)
LEMMA ReplayStep ==
  ASSUME IInv, NEW t \in Screenings, Replay(t)
  PROVE  IInv'
<1> DEFINE s == runs[t].subject
           frozen == runs[t].decision.frozen
<1>1. /\ runs[t] \notin {Absent, Lost} /\ runs[t] \in RunRow
      /\ runs[t].decision \in Decision
  BY DEF IInv, TypeOK, Replay, Decided, RunRow
<1>2. s \in Subjects /\ subjects[s] # Absent /\ subjects[s] \in SubjectRow
  BY <1>1 DEF IInv, RunsHaveSubjects, TypeOK, RunRow
<1>3. frozen.gen = 1 /\ frozen # NoBlob
  BY <1>1 DEF Decision, Blob, NoBlob
<1>4. Opens(subjects[s].key, frozen) \/ subjects[s].shredded
  BY <1>2, <1>3 DEF IInv, KeysKept, Opens, SubjectRow
<1>5. Decide(frozen.of) = runs[t].decision.verdict
  BY DEF IInv, DecidedAsFrozen, AsFrozen, Replay
<1>6. /\ replayed' \in Replayed /\ replayed'.run = t
      /\ IF replayed'.shredded THEN subjects[s].shredded ELSE replayed'.reproduced
  <2>1. CASE Opens(subjects[s].key, frozen)
    BY <1>5, <2>1 DEF Replay, ReplayDecision, Replayed
  <2>2. CASE ~Opens(subjects[s].key, frozen)
    BY <1>4, <2>2 DEF Replay, ReplayDecision, Replayed
  <2> QED
    BY <2>1, <2>2
<1>7. TypeOK'
  BY <1>6 DEF IInv, TypeOK, Replay
<1>8. ReplayedDecided' /\ ReplaysReproduce'
  BY <1>1, <1>6 DEF ReplayedDecided, ReplaysReproduce, Replay
<1> QED
  BY <1>7, <1>8 DEF IInv, KeysKept, RunsHaveSubjects, DecidedAsFrozen, ReadsKept,
                    Decided, Replay

LEMMA RuleStep ==
  ASSUME IInv, NewRuleVersion
  PROVE  IInv'
<1>1. rule + 1 \in DOMAIN Rules
  BY SubjectFileAssumption DEF IInv, TypeOK, NewRuleVersion
<1> QED
  BY <1>1 DEF IInv, TypeOK, KeysKept, RunsHaveSubjects, DecidedAsFrozen, ReadsKept,
              Decided, ReplayedDecided, ReplaysReproduce, NewRuleVersion

LEMMA StepIInv == IInv /\ [Next]_vars => IInv'
<1> SUFFICES ASSUME IInv, [Next]_vars PROVE IInv'
  OBVIOUS
<1>1. ASSUME NEW t \in Screenings, NEW details \in Details, ScreenPerson(t, details)
      PROVE  IInv'
  BY <1>1, ScreenPersonStep
<1>2. ASSUME NEW t \in Screenings, NEW details \in Details, NEW s \in Subjects,
             CreateScreening(t, s, details)
      PROVE  IInv'
  BY <1>2, CreateStep
<1>3. ASSUME NEW t \in Screenings, NEW s \in Subjects, Rescreen(t, s) PROVE IInv'
  BY <1>3, RescreenStep
<1>4. ASSUME NEW t \in Screenings, Freeze(t) PROVE IInv'
  BY <1>4, FreezeRunStep
<1>5. ASSUME NEW t \in Screenings, Seal(t) PROVE IInv'
  BY <1>5, SealStep
<1>6. ASSUME NEW t \in Screenings, Land(t) PROVE IInv'
  BY <1>6, LandStep
<1>7. ASSUME NEW t \in Screenings, Lose(t) PROVE IInv'
  BY <1>7, LoseStep
<1>8. ASSUME NEW t \in Screenings, Replay(t) PROVE IInv'
  BY <1>8, ReplayStep
<1>9. ASSUME NEW t \in Screenings, NEW at \in 1 .. MaxHuman, Dispose(t, at)
      PROVE  IInv'
  BY <1>9, DisposeStep
<1>10. ASSUME NEW s \in Subjects, EndRelationship(s) \/ PassRetention(s) PROVE IInv'
  BY <1>10, RelationStep
<1>11. CASE ShredExpired
  BY <1>11, ShredStep
<1>12. CASE NewRuleVersion
  BY <1>12, RuleStep
<1>13. CASE UNCHANGED vars
  BY <1>13 DEF vars, IInv, TypeOK, KeysKept, RunsHaveSubjects, DecidedAsFrozen,
               ReadsKept, Decided, ReplayedDecided, ReplaysReproduce
<1> QED
  BY <1>1, <1>2, <1>3, <1>4, <1>5, <1>6, <1>7, <1>8, <1>9, <1>10, <1>11, <1>12,
     <1>13 DEF Next

----------------------------------------------------------------------------
(* The inductive invariant, which the theorems below rest on.              *)
THEOREM Invariance == Spec => []IInv
  BY InitIInv, StepIInv, PTL DEF Spec

(* Rows, ciphertexts and what open transactions hold have their types: in  *)
(* particular a subject has one key in its life.                           *)
THEOREM TypeCorrect == Spec => []TypeOK
<1>1. IInv => TypeOK
  BY DEF IInv
<1> QED
  BY <1>1, Invariance, PTL

LEMMA IInvReadable == IInv => ReadableUntilShredded
<1> SUFFICES ASSUME IInv, NEW s \in Subjects, subjects[s] # Absent, NEW b \in Blobs(s)
             PROVE  Opens(subjects[s].key, b) <=> ~subjects[s].shredded
  BY DEF ReadableUntilShredded
<1>1. subjects[s] \in SubjectRow /\ (subjects[s].key.wrapped <=> ~subjects[s].shredded)
  BY DEF IInv, TypeOK, KeysKept
<1>2. CASE b = subjects[s].pii
  BY <1>1, <1>2 DEF IInv, KeysKept, Opens, SubjectRow, Blob
<1>3. ASSUME NEW t \in Screenings, Decided(t), b = runs[t].decision.frozen
      PROVE  b.gen = 1 /\ b # NoBlob
  <2>1. runs[t].decision \in Decision
    BY <1>3 DEF IInv, TypeOK, Decided, RunRow
  <2> QED
    BY <1>3, <2>1 DEF Decision, Blob, NoBlob
<1>4. CASE b # subjects[s].pii
  <2>1. b.gen = 1 /\ b # NoBlob
    BY <1>3, <1>4 DEF Blobs
  <2> QED
    BY <1>1, <2>1 DEF Opens, SubjectRow
<1> QED
  BY <1>2, <1>4

(* What is kept about a subject can be read until it is shredded, and      *)
(* never again after that, whatever was under way (crypto.py: "Every       *)
(* ciphertext for that subject becomes permanently unreadable").           *)
THEOREM ShreddingIsFinal == Spec => []ReadableUntilShredded
  BY Invariance, IInvReadable, PTL

(* A replay reproduces the decision unless the subject is shredded, and    *)
(* then it says so, however lists and rules have changed since.            *)
THEOREM DecisionsReplay == Spec => []ReplaysReproduce
<1>1. IInv => ReplaysReproduce
  BY DEF IInv
<1> QED
  BY <1>1, Invariance, PTL

(* Each view finds out in its own way what the invariant ties together.    *)
LEMMA IInvViewsAgree == IInv => ViewsAgree
<1> SUFFICES ASSUME IInv, NEW t \in Screenings, Decided(t), NoTie(t)
             PROVE  /\ QueueItem(t) = Detail(t)
                    /\ Explanation(t) = Detail(t)
                    /\ runs[t].trigger = "kyb_officer" => Person(t) = Detail(t)
  BY DEF ViewsAgree
<1> DEFINE s == runs[t].subject
<1>1. s \in Subjects /\ subjects[s] # Absent /\ subjects[s] \in SubjectRow
  BY DEF IInv, RunsHaveSubjects, TypeOK, RunRow, Decided
<1>2. /\ Hidden(s) <=> subjects[s].shredded
      /\ ~Readable(s) <=> subjects[s].shredded
  BY <1>1 DEF IInv, KeysKept, Hidden, Readable, Opens, SubjectRow, Blob
<1>3. Hidden(s) = ~Readable(s) /\ subjects[s].shredded = ~Readable(s)
  BY <1>1, <1>2 DEF SubjectRow, Hidden, Readable, Opens
<1>4. LatestHuman(t) = LastHuman(t)
  <2>1. \A h \in Rows(t) : h.at \in Int /\ h.id \in Int
    BY DEF IInv, TypeOK, HumanRow, Rows
  <2> DEFINE latest == {h \in Rows(t) : \A g \in Rows(t) : g.at <= h.at}
  <2>2. \A g, h \in latest : g = h /\ g.id <= h.id
    BY <2>1 DEF NoTie
  <2>3. LatestHuman(t) = latest /\ LastHuman(t) = latest
    BY <2>2 DEF LatestHuman, LastHuman
  <2> QED
    BY <2>3
<1> QED
  BY <1>3, <1>4 DEF QueueItem, Detail, Explanation, Person

(* Queue, screening, explanation and company page agree on the last human  *)
(* decision and on whether the subject is shredded.                        *)
THEOREM ViewsTellTheSame == Spec => []ViewsAgree
  BY Invariance, IInvViewsAgree, PTL

----------------------------------------------------------------------------
LEMMA StepFirstKnown ==
  ASSUME IInv, [Next]_vars, NEW s \in Subjects,
         subjects[s] # Absent, NoBlob \notin {subjects[s].pii, subjects'[s].pii}
  PROVE  \/ \A attr \in {"dob", "nationality"} : Pii(s)[attr] \in {"none", Pii(s)'[attr]}
         \/ \E t \in Screenings : Overtaken(t, s)
<1>1. subjects[s] \in SubjectRow
  BY DEF IInv, TypeOK
<1>2. CASE subjects'[s].pii = subjects[s].pii
  BY <1>2 DEF Pii
<1>3. CASE UNCHANGED subjects
  BY <1>2, <1>3
<1>4. ASSUME NEW t \in Screenings, NEW r \in Subjects, NEW details \in Details,
             CreateScreening(t, r, details)
      PROVE  subjects'[s].pii = subjects[s].pii
  BY <1>4 DEF IInv, TypeOK, CreateScreening, InUse
<1>5. ASSUME NEW r \in Subjects, EndRelationship(r) \/ PassRetention(r)
      PROVE  subjects'[s].pii = subjects[s].pii
  BY <1>1, <1>5 DEF IInv, TypeOK, EndRelationship, PassRetention, SubjectRow
<1>6. CASE ShredExpired
  <2>1. subjects'[s] \in {subjects[s], Shred(subjects[s])}
    BY <1>6 DEF ShredExpired
  <2>2. Shred(subjects[s]).pii = NoBlob
    BY <1>1 DEF Shred, SubjectRow
  <2> QED
    BY <1>2, <2>1, <2>2
<1>7. ASSUME NEW t \in Screenings, Land(t)
      PROVE  \/ subjects'[s].pii = subjects[s].pii
             \/ \A attr \in {"dob", "nationality"} :
                  Pii(s)[attr] \in {"none", Pii(s)'[attr]}
             \/ Overtaken(t, s)
  <2> DEFINE w == work[t]
  <2>1. w.phase = "sealed" /\ w.subject \in Subjects
    BY <1>7, WorkPhases DEF IInv, Land, SealedWork
  <2>2. CASE w.subject # s
    BY <1>7, <2>1, <2>2 DEF IInv, TypeOK, Land
  <2>3. CASE w.subject = s
    <3>1. subjects'[s] = SubjectWritten(t)
      BY <1>7, <2>3 DEF IInv, TypeOK, Land
    <3>2. SubjectWritten(t).pii =
            IF w.read # Absent /\ w.read # w.pii.of THEN w.pii ELSE subjects[s].pii
      BY <1>1, <2>3 DEF SubjectWritten, SubjectRow
    <3>3. CASE ~(w.read # Absent /\ w.read # w.pii.of)
      BY <3>1, <3>2, <3>3
    <3>4. CASE w.read # Absent /\ w.read # Pii(s)
      BY <2>1, <2>3, <3>4 DEF Overtaken
    <3>5. CASE w.read # Absent /\ w.read # w.pii.of /\ w.read = Pii(s)
      <4>1. Pii(s)' = w.pii.of
        BY <3>1, <3>2, <3>5 DEF Pii
      <4> QED
        BY <2>1, <3>5, <4>1 DEF IInv, ReadsKept, Keeps
    <3> QED
      BY <3>3, <3>4, <3>5
  <2> QED
    BY <2>2, <2>3
<1>8. \/ UNCHANGED subjects \/ ShredExpired
      \/ \E t \in Screenings :
           \/ Land(t)
           \/ \E r \in Subjects, details \in Details : CreateScreening(t, r, details)
      \/ \E r \in Subjects : EndRelationship(r) \/ PassRetention(r)
  BY DEF Next, vars, ScreenPerson, Rescreen, Freeze, Seal, Lose, Replay, Dispose,
         NewRuleVersion
<1> QED
  BY <1>2, <1>3, <1>4, <1>5, <1>6, <1>7, <1>8

(* What was known of a person first is not replaced by what a later        *)
(* company run says, unless that run read the file before another one      *)
(* changed it.                                                             *)
THEOREM KnownIsKept == Spec => FirstKnownWins
<1>1. IInv /\ [Next]_vars =>
        [\A s \in Subjects :
           subjects[s] # Absent /\ NoBlob \notin {subjects[s].pii, subjects'[s].pii} =>
             \/ \A attr \in {"dob", "nationality"} :
                  Pii(s)[attr] \in {"none", Pii(s)'[attr]}
             \/ \E t \in Screenings : Overtaken(t, s)]_vars
  BY StepFirstKnown
<1> QED
  BY <1>1, Invariance, PTL DEF Spec, FirstKnownWins

=============================================================================
