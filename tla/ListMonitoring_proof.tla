------------------------- MODULE ListMonitoring_proof -------------------------
(***************************************************************************)
(* Theorems about ListMonitoring, for any sets of subjects, entries and    *)
(* ingest processes, and any bounds.                                       *)
(***************************************************************************)
EXTENDS ListMonitoring, WellFoundedInduction, TLAPS

(* A time stamp is given out once, and an ingest that has one is the only  *)
(* one to write the snapshot of that time.                                 *)
Timed == {"stamped", "recorded", "stored"}

TimesUnique ==
  /\ \A m \in snapshots : m.time <= clock
  /\ \A m, n \in snapshots : m.time = n.time => m = n
  /\ \A i \in Ingesters : pc[i] \in Timed => job[i].time \in 1 .. clock
  /\ \A i, j \in Ingesters :
       pc[i] \in Timed /\ pc[j] \in Timed /\ job[i].time = job[j].time => i = j

JobsRecorded ==
  \A i \in Ingesters :
    /\ pc[i] = "stamped" => \A m \in snapshots : m.time # job[i].time
    /\ pc[i] = "recorded" => Mine(i, FALSE) \in snapshots
    /\ pc[i] = "stored" => Mine(i, TRUE) \in snapshots
    /\ pc[i] # "enqueue" => job[i].todo = {}

(* The snapshots with records that were taken before time.                 *)
StoredBefore(time) == {m \in snapshots : m.stored /\ m.time < time}

(* The nearest of them does not list e as content does.                    *)
NewsAt(time, content, e) ==
  \/ StoredBefore(time) = {}
  \/ \E m \in StoredBefore(time) :
       /\ m.content[e] # content[e]
       /\ \A n \in StoredBefore(time) : n.time <= m.time

(* What brings a run of s to the current snapshot that needs no ingest to  *)
(* look at the delta any more ...                                          *)
RunComes(s, e) ==
  \/ <<e, Current[e]>> \in screened[s]
  \/ queue[s] > 0
  \/ s \in intake
  \/ \E i \in Ingesters : s \in job[i].todo

(* ... or an ingest that is going to see e in its delta, even if snapshots *)
(* taken before its own are recorded or stored in the meantime.            *)
IngestComes(e) ==
  \E i \in Ingesters :
    /\ pc[i] = "stored"
    /\ job[i].content[e] = Current[e]
    /\ NewsAt(job[i].time, job[i].content, e)

HitsAwaited ==
  ~lost =>
    \A s \in Subjects : subject[s] = "active" /\ s \notin stranded =>
      \A e \in HitsIn(s, Current) : RunComes(s, e) \/ IngestComes(e)

IInv ==
  /\ TypeOK
  /\ TimesUnique
  /\ JobsRecorded
  /\ HitsAwaited
----------------------------------------------------------------------------
(* Reading the snapshots.                                                  *)

(* Of snapshots there are, one is the latest.                              *)
LEMMA LatestIsLast ==
  ASSUME NEW set \in SUBSET Snapshot, set # {}
  PROVE  Latest(set) \in set /\ \A m \in set : m.time <= Latest(set).time
<1> DEFINE Left(m) == MaxSnapshots - m.time
           left == {Left(m) : m \in set}
<1>1. \A m \in set : m.time \in Nat /\ Left(m) \in Nat
  BY MonitoringAssumption DEF Snapshot
<1>2. left # {} /\ left \subseteq Nat
  BY <1>1
<1>3. PICK x \in left : \A y \in left : ~(<<y, x>> \in OpToRel(<, Nat))
  <2> HIDE DEF left
  <2> QED
    BY <1>2, NatLessThanWellFounded, WFMin
<1>4. PICK n \in set : x = Left(n)
  BY <1>3
<1>5. \A m \in set : m.time <= n.time
  <2> SUFFICES ASSUME NEW m \in set PROVE m.time <= n.time
    OBVIOUS
  <2>1. Left(m) \in left /\ Left(m) \in Nat /\ x \in Nat
    BY <1>1, <1>2, <1>3
  <2>2. ~(Left(m) < x)
    BY <1>3, <2>1 DEF OpToRel
  <2> QED
    BY <1>1, <1>4, <2>1, <2>2, MonitoringAssumption
<1> QED
  BY <1>4, <1>5 DEF Latest

LEMMA CurrentType ==
  ASSUME TypeOK PROVE Current \in Content
<1> DEFINE usable == {n \in snapshots : Records(n) # Nobody}
<1>1. CASE usable = {}
  BY <1>1, MonitoringAssumption DEF Current, Content, Nobody
<1>2. CASE usable # {}
  <2>1. usable \in SUBSET Snapshot
    BY DEF TypeOK
  <2>2. Latest(usable) \in Snapshot
    BY <1>2, <2>1, LatestIsLast
  <2> QED
    BY <1>2, <2>2 DEF Current, Snapshot
<1> QED
  BY <1>1, <1>2

(* What an ingest sees in its delta if the nearest stored snapshot does    *)
(* not list the entry as its own does.                                     *)
LEMMA NewsIsInDelta ==
  ASSUME TypeOK, TimesUnique, NEW i \in Ingesters, NEW e \in Entries,
         job[i].content[e] # 0, NewsAt(job[i].time, job[i].content, e)
  PROVE  e \in Delta(i)
<1> DEFINE time == job[i].time
           before == {n \in snapshots : n.time < time}
<1>1. before \in SUBSET Snapshot
  BY DEF TypeOK
<1>2. Previous(time)[e] # job[i].content[e]
  <2>1. CASE before = {}
    BY <2>1 DEF Previous, Nobody
  <2>2. CASE before # {}
    <3> DEFINE last == Latest(before)
    <3>1. last \in before /\ \A m \in before : m.time <= last.time
      BY <1>1, <2>2, LatestIsLast
    <3>2. Previous(time) = Records(last)
      BY <2>2 DEF Previous
    <3>3. CASE ~last.stored
      BY <3>2, <3>3 DEF Records, Nobody
    <3>4. CASE last.stored
      <4>1. last \in StoredBefore(time) /\ StoredBefore(time) \subseteq before
        BY <3>1, <3>4 DEF StoredBefore
      <4>2. PICK m \in StoredBefore(time) :
              /\ m.content[e] # job[i].content[e]
              /\ \A n \in StoredBefore(time) : n.time <= m.time
        BY <4>1 DEF NewsAt
      <4>3. m.time \in Nat /\ last.time \in Nat
        BY <1>1, <3>1, <4>1 DEF Snapshot
      <4>4. m = last
        <5>1. m.time = last.time
          BY <3>1, <4>1, <4>2, <4>3
        <5> QED
          BY <3>1, <4>1, <5>1 DEF TimesUnique
      <4> QED
        BY <3>2, <3>4, <4>2, <4>4 DEF Records
    <3> QED
      BY <3>3, <3>4
  <2> QED
    BY <2>1, <2>2
<1> QED
  BY <1>2 DEF Delta, NewEntries

----------------------------------------------------------------------------
(* Types and time stamps.                                                  *)

LEMMA NoJobType == NoJob \in Job
  BY MonitoringAssumption DEF NoJob, Job, Content, Nobody

LEMMA HitsType ==
  ASSUME NEW s \in Subjects, NEW content, NEW e \in HitsIn(s, content)
  PROVE  e \in Entries /\ content[e] \in 1 .. MaxVersion
  BY MonitoringAssumption DEF HitsIn

LEMMA InitIInv == Init => IInv
<1> SUFFICES ASSUME Init PROVE IInv
  OBVIOUS
<1>1. TypeOK
  <2>1. 0 \in 0 .. MaxSnapshots /\ 0 \in 0 .. MaxQueue
    BY MonitoringAssumption
  <2>2. published \in Content
    BY MonitoringAssumption DEF Init
  <2> QED
    BY <2>1, <2>2, NoJobType DEF Init, TypeOK, IngestPc
<1>2. TimesUnique /\ JobsRecorded
  BY DEF Init, TimesUnique, JobsRecorded, Timed, NoJob
<1>3. HitsAwaited
  BY DEF Init, HitsAwaited
<1> QED
  BY <1>1, <1>2, <1>3 DEF IInv

LEMMA MineType ==
  ASSUME TypeOK, TimesUnique, NEW i \in Ingesters, pc[i] \in Timed,
         NEW stored \in BOOLEAN
  PROVE  Mine(i, stored) \in Snapshot
  BY MonitoringAssumption DEF TypeOK, TimesUnique, Mine, Snapshot, Job

LEMMA TypeStep ==
  ASSUME TypeOK, TimesUnique, [Next]_vars
  PROVE  TypeOK'
<1> USE DEF TypeOK
<1>1. ASSUME NEW i \in Ingesters, Fetch(i) PROVE TypeOK'
  BY <1>1 DEF Fetch, Step, IngestPc, Job, dbVars, history
<1>2. ASSUME NEW i \in Ingesters, Unchanged(i) \/ Finish(i) PROVE TypeOK'
  BY <1>2, NoJobType DEF Unchanged, Finish, Step, IngestPc, dbVars, history
<1>3. ASSUME NEW i \in Ingesters, Changed(i) PROVE TypeOK'
  BY <1>3 DEF Changed, Step, IngestPc, dbVars, history
<1>4. ASSUME NEW i \in Ingesters, Stamp(i) PROVE TypeOK'
  BY <1>4, MonitoringAssumption DEF Stamp, Step, IngestPc, Job, dbVars, history
<1>5. ASSUME NEW i \in Ingesters, Record(i) \/ Store(i) PROVE TypeOK'
  <2>1. pc[i] \in Timed
    BY <1>5 DEF Record, Store, Step, Timed
  <2>2. Mine(i, FALSE) \in Snapshot /\ Mine(i, TRUE) \in Snapshot
    BY <2>1, MineType
  <2> QED
    BY <1>5, <2>2 DEF Record, Store, Step, IngestPc, history
<1>6. ASSUME NEW i \in Ingesters, Monitor(i) PROVE TypeOK'
  BY <1>6 DEF Monitor, Step, IngestPc, Job, dbVars, history
<1>7. ASSUME NEW i \in Ingesters, NEW s \in Subjects, Enqueue(i, s) PROVE TypeOK'
  BY <1>7, MonitoringAssumption DEF Enqueue, Job, dbVars, history
<1>8. ASSUME NEW i \in Ingesters, Crash(i) PROVE TypeOK'
  BY <1>8, NoJobType DEF Crash, IngestPc, dbVars
<1>9. ASSUME NEW s \in Subjects, Submit(s) \/ EndRelationship(s) PROVE TypeOK'
  BY <1>9 DEF Submit, EndRelationship, history
<1>10. ASSUME NEW s \in Subjects, EnqueueIntake(s) \/ LoseIntake(s) PROVE TypeOK'
  BY <1>10, MonitoringAssumption DEF EnqueueIntake, LoseIntake, dbVars, history
<1>11. ASSUME NEW s \in Subjects, Block(s) PROVE TypeOK'
  <2>1. {<<e, Current[e]>> : e \in HitsIn(s, Current)}
          \in SUBSET (Entries \X (1 .. MaxVersion))
    BY HitsType
  <2> QED
    BY <1>11, <2>1, MonitoringAssumption DEF Block, history
<1>12. CASE Publish
  BY <1>12, MonitoringAssumption DEF Publish, dbVars, history
<1>13. CASE UNCHANGED vars
  BY <1>13 DEF vars, dbVars, history
<1> QED
  BY <1>1, <1>2, <1>3, <1>4, <1>5, <1>6, <1>7, <1>8, <1>9, <1>10, <1>11, <1>12, <1>13
     DEF Next, IngestStep

(* Steps that give out no time and write no snapshot.                      *)
LEMMA TimesKept ==
  ASSUME TimesUnique, JobsRecorded, UNCHANGED <<clock, snapshots>>,
         \A i \in Ingesters :
           \/ pc'[i] = pc[i] /\ job'[i] = job[i]
           \/ pc'[i] \notin Timed /\ (pc'[i] # "enqueue" => job'[i].todo = {})
  PROVE  TimesUnique' /\ JobsRecorded'
<1>1. TimesUnique'
  BY DEF TimesUnique, Timed
<1>2. JobsRecorded'
  BY DEF JobsRecorded, Timed, Mine
<1> QED
  BY <1>1, <1>2

LEMMA TimesStep ==
  ASSUME TypeOK, TimesUnique, JobsRecorded, [Next]_vars
  PROVE  TimesUnique' /\ JobsRecorded'
<1>0. /\ \A m \in snapshots : m.time \in Nat
      /\ clock \in Nat
  BY MonitoringAssumption DEF TypeOK, Snapshot
<1>1. ASSUME NEW i \in Ingesters, Fetch(i) PROVE TimesUnique' /\ JobsRecorded'
  <2>1. pc'[i] = "fetched" /\ job'[i].todo = {}
    BY <1>1 DEF Fetch, Step, TypeOK, Job, JobsRecorded
  <2> QED
    BY <1>1, <2>1, TimesKept DEF Fetch, Step, Timed, dbVars, TypeOK
<1>2. ASSUME NEW i \in Ingesters, Unchanged(i) \/ Finish(i) \/ Crash(i)
      PROVE  TimesUnique' /\ JobsRecorded'
  <2>1. pc'[i] = "idle" /\ job'[i].todo = {}
    BY <1>2 DEF Unchanged, Finish, Crash, Step, TypeOK, NoJob
  <2>2. /\ \A j \in Ingesters : j # i => pc'[j] = pc[j] /\ job'[j] = job[j]
        /\ UNCHANGED <<clock, snapshots>>
    BY <1>2 DEF Unchanged, Finish, Crash, Step, TypeOK, dbVars
  <2> QED
    BY <2>1, <2>2, TimesKept DEF Timed
<1>3. ASSUME NEW i \in Ingesters, Changed(i) \/ Monitor(i)
      PROVE  TimesUnique' /\ JobsRecorded'
  <2>1. /\ pc'[i] = "changed" /\ job'[i].todo = {}
        \/ pc'[i] = "enqueue"
    BY <1>3 DEF Changed, Monitor, Step, TypeOK, JobsRecorded
  <2>2. /\ \A j \in Ingesters : j # i => pc'[j] = pc[j] /\ job'[j] = job[j]
        /\ UNCHANGED <<clock, snapshots>>
    BY <1>3 DEF Changed, Monitor, Step, TypeOK, dbVars
  <2> QED
    BY <2>1, <2>2, TimesKept DEF Timed
<1>4. ASSUME NEW i \in Ingesters, NEW s \in Subjects, Enqueue(i, s)
      PROVE  TimesUnique' /\ JobsRecorded'
  <2>1. pc'[i] = "enqueue"
    BY <1>4 DEF Enqueue
  <2>2. /\ \A j \in Ingesters : j # i => pc'[j] = pc[j] /\ job'[j] = job[j]
        /\ UNCHANGED <<clock, snapshots>>
    BY <1>4 DEF Enqueue, TypeOK, dbVars
  <2> QED
    BY <2>1, <2>2, TimesKept DEF Timed
<1>5. ASSUME NEW i \in Ingesters, Stamp(i) PROVE TimesUnique' /\ JobsRecorded'
  <2>1. job'[i].time = clock + 1 /\ clock' = clock + 1 /\ job'[i].todo = job[i].todo
    BY <1>5 DEF Stamp, Job, TypeOK
  <2>2. \A j \in Ingesters : j # i => job'[j] = job[j] /\ pc'[j] = pc[j]
    BY <1>5 DEF Stamp, Step, TypeOK
  <2>3. pc'[i] = "stamped" /\ pc[i] = "changed" /\ snapshots' = snapshots
    BY <1>5 DEF Stamp, Step, dbVars, TypeOK
  <2>4. \A j \in Ingesters : pc[j] \in Timed => job[j].time \in Nat /\ job[j].time <= clock
    BY <1>0 DEF TimesUnique
  <2>5. TimesUnique'
    BY <1>0, <2>1, <2>2, <2>3, <2>4 DEF TimesUnique, Timed
  <2>6. JobsRecorded'
    <3>1. \A m \in snapshots : m.time # clock + 1
      BY <1>0 DEF TimesUnique
    <3>2. ASSUME NEW j \in Ingesters, j # i
          PROVE  Mine(j, FALSE)' = Mine(j, FALSE) /\ Mine(j, TRUE)' = Mine(j, TRUE)
      BY <2>2, <3>2 DEF Mine
    <3> QED
      BY <2>1, <2>2, <2>3, <3>1, <3>2 DEF JobsRecorded
  <2> QED
    BY <2>5, <2>6
<1>6. ASSUME NEW i \in Ingesters, Record(i) \/ Store(i)
      PROVE  TimesUnique' /\ JobsRecorded'
  <2> DEFINE time == job[i].time
             old == Mine(i, FALSE)
  <2>1. /\ pc[i] \in Timed /\ pc'[i] \in Timed
        /\ \A j \in Ingesters : j # i => pc'[j] = pc[j]
        /\ UNCHANGED <<job, clock>>
    BY <1>6 DEF Record, Store, Step, Timed, TypeOK
  <2>2. \A j \in Ingesters :
          /\ Mine(j, FALSE)' = Mine(j, FALSE) /\ Mine(j, FALSE).time = job[j].time
          /\ Mine(j, TRUE)' = Mine(j, TRUE) /\ Mine(j, TRUE).time = job[j].time
    BY <2>1 DEF Mine
  <2>3. PICK new :
          /\ new.time = time
          /\ snapshots' = (snapshots \ {old}) \cup {new}
          /\ \/ new = Mine(i, FALSE) /\ pc'[i] = "recorded"
             \/ new = Mine(i, TRUE) /\ pc'[i] = "stored"
    <3>1. CASE Record(i)
      <4>1. snapshots' = (snapshots \ {old}) \cup {old} /\ pc'[i] = "recorded"
        BY <3>1 DEF Record, Step, TypeOK
      <4> QED
        BY <2>2, <4>1
    <3>2. CASE Store(i)
      <4>1. snapshots' = (snapshots \ {old}) \cup {Mine(i, TRUE)} /\ pc'[i] = "stored"
        BY <3>2 DEF Store, Step, TypeOK
      <4> QED
        BY <2>2, <4>1
    <3> QED
      BY <1>6, <3>1, <3>2
  <2>4. \A m \in snapshots \ {old} : m.time # time
    <3>1. CASE pc[i] = "stamped"
      BY <3>1 DEF JobsRecorded
    <3>2. CASE pc[i] = "recorded"
      <4>1. old \in snapshots /\ old.time = time
        BY <2>2, <3>2 DEF JobsRecorded
      <4> HIDE DEF old
      <4> QED
        BY <4>1 DEF TimesUnique
    <3> QED
      BY <1>6, <3>1, <3>2 DEF Record, Store, Step
  <2>5. time \in 1 .. clock
    BY <2>1 DEF TimesUnique
  <2> HIDE DEF old
  <2>6. TimesUnique'
    <3>1. \A m \in snapshots' : m.time <= clock
      BY <1>0, <2>3, <2>5 DEF TimesUnique
    <3>2. \A m, n \in snapshots' : m.time = n.time => m = n
      BY <2>3, <2>4 DEF TimesUnique
    <3>3. \A j \in Ingesters : pc'[j] \in Timed => pc[j] \in Timed
      BY <2>1
    <3> QED
      BY <2>1, <3>1, <3>2, <3>3 DEF TimesUnique
  <2>7. JobsRecorded'
    <3>1. ASSUME NEW j \in Ingesters, j # i
          PROVE  /\ pc'[j] = "stamped" => \A m \in snapshots' : m.time # job[j].time
                 /\ pc'[j] = "recorded" => Mine(j, FALSE) \in snapshots'
                 /\ pc'[j] = "stored" => Mine(j, TRUE) \in snapshots'
                 /\ pc'[j] # "enqueue" => job'[j].todo = {}
      <4>1. pc[j] \in Timed => job[j].time # time
        BY <2>1, <3>1 DEF TimesUnique
      <4>2. pc'[j] = pc[j] /\ old.time = time
        BY <2>1, <2>2, <3>1 DEF old
      <4>3. pc[j] = "stamped" => \A m \in snapshots' : m.time # job[j].time
        BY <2>3, <4>1 DEF JobsRecorded, Timed
      <4>4. ASSUME pc[j] \in Timed, NEW n \in snapshots, n.time = job[j].time
            PROVE  n \in snapshots'
        BY <2>3, <4>1, <4>2, <4>4
      <4>5. pc[j] = "recorded" => Mine(j, FALSE) \in snapshots'
        BY <2>2, <4>4 DEF JobsRecorded, Timed
      <4>6. pc[j] = "stored" => Mine(j, TRUE) \in snapshots'
        BY <2>2, <4>4 DEF JobsRecorded, Timed
      <4> QED
        BY <2>1, <4>2, <4>3, <4>5, <4>6 DEF JobsRecorded
    <3>2. job[i].todo = {}
      BY <2>1 DEF JobsRecorded, Timed
    <3> QED
      BY <2>1, <2>2, <2>3, <3>1, <3>2 DEF JobsRecorded
  <2> QED
    BY <2>6, <2>7
<1>7. ASSUME UNCHANGED <<clock, snapshots, pc, job>>
      PROVE  TimesUnique' /\ JobsRecorded'
  BY <1>7, TimesKept
<1>8. ASSUME NEW s \in Subjects,
             Submit(s) \/ EnqueueIntake(s) \/ LoseIntake(s) \/ Block(s) \/ EndRelationship(s)
      PROVE  TimesUnique' /\ JobsRecorded'
  BY <1>7, <1>8 DEF Submit, EnqueueIntake, LoseIntake, Block, EndRelationship, dbVars
<1>9. CASE Publish \/ UNCHANGED vars
  BY <1>7, <1>9 DEF Publish, vars, dbVars
<1> QED
  BY <1>1, <1>2, <1>3, <1>4, <1>5, <1>6, <1>8, <1>9 DEF Next, IngestStep

----------------------------------------------------------------------------
(* Nobody is passed over.                                                  *)

Stored == {m \in snapshots : m.stored}

(* Only stored snapshots are read.                                         *)
LEMMA SameStored ==
  ASSUME Stored' = Stored
  PROVE  Current' = Current /\ \A time : StoredBefore(time)' = StoredBefore(time)
<1>1. {n \in snapshots : Records(n) # Nobody} = {n \in Stored : n.content # Nobody}
  BY DEF Records, Stored
<1>2. {n \in snapshots : Records(n) # Nobody}' = {n \in Stored' : n.content # Nobody}
  BY DEF Records, Stored
<1>3. Current' = Current
  BY <1>1, <1>2 DEF Current
<1>4. \A time : StoredBefore(time) = {m \in Stored : m.time < time}
  BY DEF StoredBefore, Stored
<1>5. \A time : StoredBefore(time)' = {m \in Stored' : m.time < time}
  BY DEF StoredBefore, Stored
<1> QED
  BY <1>3, <1>4, <1>5

(* Steps that store no records and in which no ingest passes from its      *)
(* records to its monitoring runs.                                         *)
LEMMA QuietStep ==
  ASSUME HitsAwaited, Stored' = Stored,
         lost => lost', stranded \subseteq stranded',
         \A i \in Ingesters :
           pc[i] = "stored" => lost' \/ (pc'[i] = "stored" /\ job'[i] = job[i]),
         \A s \in Subjects : ~lost' /\ subject'[s] = "active" /\ s \notin stranded' =>
           \/ s \in intake'
           \/ /\ subject[s] = "active"
              /\ \A e \in HitsIn(s, Current) : RunComes(s, e) => RunComes(s, e)'
  PROVE  HitsAwaited'
<1>1. Current' = Current /\ \A time : StoredBefore(time)' = StoredBefore(time)
  BY SameStored
<1>2. ASSUME ~lost', NEW s \in Subjects, subject'[s] = "active", s \notin stranded',
             NEW e \in HitsIn(s, Current)
      PROVE  RunComes(s, e)' \/ IngestComes(e)'
  <2>1. CASE s \in intake'
    BY <2>1 DEF RunComes
  <2>2. CASE subject[s] = "active" /\ (RunComes(s, e) => RunComes(s, e)')
    <3>1. RunComes(s, e) \/ IngestComes(e)
      BY <1>2, <2>2 DEF HitsAwaited
    <3>2. CASE IngestComes(e)
      <4>1. PICK i \in Ingesters :
              /\ pc[i] = "stored" /\ job[i].content[e] = Current[e]
              /\ NewsAt(job[i].time, job[i].content, e)
        BY <3>2 DEF IngestComes
      <4>2. pc'[i] = "stored" /\ job'[i] = job[i]
        BY <1>2, <4>1
      <4>3. NewsAt(job[i].time, job[i].content, e)'
        BY <1>1, <4>1, <4>2 DEF NewsAt
      <4> QED
        BY <1>1, <4>1, <4>2, <4>3 DEF IngestComes
    <3> QED
      BY <2>2, <3>1, <3>2
  <2> QED
    BY <1>2, <2>1, <2>2
<1>3. \A s \in Subjects : HitsIn(s, Current)' = HitsIn(s, Current)
  BY <1>1 DEF HitsIn
<1> QED
  BY <1>2, <1>3 DEF HitsAwaited

(* A run that comes still comes if nothing is taken back.                  *)
LEMMA RunStillComes ==
  ASSUME NEW s \in Subjects, NEW e \in Entries, RunComes(s, e),
         Current' = Current, screened[s] \subseteq screened'[s],
         queue[s] > 0 => queue'[s] > 0, s \in intake => s \in intake',
         \A i \in Ingesters : s \in job[i].todo => s \in job'[i].todo
  PROVE  RunComes(s, e)'
BY DEF RunComes

(* Steps of one ingest that has nothing to monitor or to enqueue, or of    *)
(* the publisher.                                                          *)
LEMMA HitsKeptByIngest ==
  ASSUME HitsAwaited, Stored' = Stored, lost => lost',
         UNCHANGED <<subject, intake, queue, screened, stranded>>,
         \A i \in Ingesters :
           \/ pc'[i] = pc[i] /\ job'[i] = job[i]
           \/ pc[i] # "stored" /\ job[i].todo = {}
           \/ lost'
  PROVE  HitsAwaited'
<1>1. Current' = Current
  BY SameStored
<1>2. ASSUME ~lost', NEW s \in Subjects, NEW e \in HitsIn(s, Current), RunComes(s, e)
      PROVE  RunComes(s, e)'
  BY <1>1, <1>2, RunStillComes, HitsType
<1>3. \A s \in Subjects : ~lost' => \A e \in HitsIn(s, Current) : RunComes(s, e) => RunComes(s, e)'
  BY <1>2
<1> QED
  BY <1>3, QuietStep

----------------------------------------------------------------------------
(* The ingest that stores its records.                                     *)

CurrentOf(set) ==
  LET usable == {n \in set : n.content # Nobody}
  IN  IF usable = {} THEN Nobody ELSE Latest(usable).content

LEMMA CurrentIsOfStored ==
  Current = CurrentOf(Stored) /\ Current' = CurrentOf(Stored')
<1>1. {n \in snapshots : Records(n) # Nobody} = {n \in Stored : n.content # Nobody}
  BY DEF Records, Stored
<1>2. {n \in snapshots : Records(n) # Nobody}' = {n \in Stored' : n.content # Nobody}
  BY DEF Records, Stored
<1> QED
  BY <1>1, <1>2 DEF Current, CurrentOf

(* The latest of the snapshots that list anything is the current one.      *)
LEMMA CurrentIsLast ==
  ASSUME NEW set \in SUBSET Snapshot, \A m, n \in set : m.time = n.time => m = n,
         NEW c \in set, c.content # Nobody,
         \A m \in set : m.content # Nobody => m.time <= c.time
  PROVE  CurrentOf(set) = c.content
<1> DEFINE usable == {n \in set : n.content # Nobody}
           last == Latest(usable)
<1>1. usable \in SUBSET Snapshot /\ c \in usable
  OBVIOUS
<1>2. last \in usable /\ \A m \in usable : m.time <= last.time
  BY <1>1, LatestIsLast
<1>3. \A m \in usable : m.time \in Nat
  BY MonitoringAssumption DEF Snapshot
<1>4. CurrentOf(set) = last.content
  BY <1>1 DEF CurrentOf
<1> HIDE DEF last
<1>5. c.time <= last.time /\ last.time <= c.time /\ c.time \in Nat /\ last.time \in Nat
  BY <1>1, <1>2, <1>3
<1>6. last.time = c.time
  BY <1>5
<1> QED
  BY <1>1, <1>2, <1>4, <1>6

(* What is listed is listed by the latest of them.                         *)
LEMMA CurrentIsListed ==
  ASSUME NEW set \in SUBSET Snapshot, NEW e \in Entries, CurrentOf(set)[e] # 0
  PROVE  \E c \in set : /\ c.content = CurrentOf(set) /\ c.content # Nobody
                        /\ \A m \in set : m.content # Nobody => m.time <= c.time
<1> DEFINE usable == {n \in set : n.content # Nobody}
<1>1. usable # {}
  BY DEF CurrentOf, Nobody
<1>2. usable \in SUBSET Snapshot
  OBVIOUS
<1>3. Latest(usable) \in usable /\ \A m \in usable : m.time <= Latest(usable).time
  BY <1>1, <1>2, LatestIsLast
<1>4. CurrentOf(set) = Latest(usable).content
  BY <1>1 DEF CurrentOf
<1> QED
  BY <1>3, <1>4

LEMMA StoreStep ==
  ASSUME TypeOK, TimesUnique, JobsRecorded, HitsAwaited, TypeOK', TimesUnique',
         NEW i \in Ingesters, Store(i)
  PROVE  HitsAwaited'
<1> DEFINE new == Mine(i, TRUE)
           t == job[i].time
<1>1. /\ UNCHANGED <<job, lost, stranded, subject, intake, queue, screened>>
      /\ pc[i] = "recorded" /\ pc'[i] = "stored"
      /\ \A j \in Ingesters : j # i => pc'[j] = pc[j]
      /\ snapshots' = (snapshots \ {Mine(i, FALSE)}) \cup {new}
  BY DEF Store, Step, TypeOK, history
<1>2. /\ new.time = t /\ new.content = job[i].content /\ new.stored = TRUE
      /\ Mine(i, FALSE).time = t /\ Mine(i, FALSE).stored = FALSE
      /\ Mine(i, FALSE) \in snapshots /\ new \in snapshots'
  BY <1>1 DEF Mine, JobsRecorded
<1> HIDE DEF new
<1>3. /\ Stored' = Stored \cup {new}
      /\ new \in Snapshot /\ Stored \in SUBSET Snapshot /\ Stored' \in SUBSET Snapshot
  <2>1. Mine(i, FALSE) \notin Stored
    BY <1>2 DEF Stored
  <2>2. Stored' = Stored \cup {new}
    BY <1>1, <1>2, <2>1 DEF Stored
  <2> QED
    BY <1>2, <2>2 DEF TypeOK, Stored
<1>4. /\ \A m \in Snapshot : m.time \in Nat /\ m.content \in Content
      /\ t \in Nat
  BY <1>2, <1>3, MonitoringAssumption DEF Snapshot
<1>5. /\ \A m \in Stored : m.time # t
      /\ \A m, n \in Stored' : m.time = n.time => m = n
      /\ \A m, n \in Stored : m.time = n.time => m = n
  BY <1>2, <1>3 DEF TimesUnique, Stored
<1>6. /\ \A time : StoredBefore(time) = {m \in Stored : m.time < time}
      /\ \A time : StoredBefore(time)' = {m \in Stored' : m.time < time}
      /\ StoredBefore(t)' = StoredBefore(t)
  <2>1. /\ \A time : StoredBefore(time) = {m \in Stored : m.time < time}
        /\ \A time : StoredBefore(time)' = {m \in Stored' : m.time < time}
    BY DEF StoredBefore, Stored
  <2>2. ~(new.time < t)
    BY <1>2, <1>4
  <2>3. {m \in Stored' : m.time < t} = {m \in Stored : m.time < t}
    BY <1>3, <2>2
  <2>4. StoredBefore(t)' = {m \in Stored' : m.time < t}
    BY <1>1 DEF StoredBefore, Stored
  <2> QED
    BY <2>1, <2>3, <2>4
<1> SUFFICES ASSUME ~lost, NEW s \in Subjects, subject[s] = "active", s \notin stranded,
                    NEW e \in HitsIn(s, Current')
             PROVE  RunComes(s, e)' \/ IngestComes(e)'
  <2>1. \A s \in Subjects : HitsIn(s, Current)' = HitsIn(s, Current')
    BY DEF HitsIn
  <2> QED
    BY <1>1, <2>1 DEF HitsAwaited
<1>7. e \in Entries /\ Current'[e] # 0 /\ <<s, e, Current'[e]>> \in Matches
  BY HitsType DEF HitsIn
<1>8. CASE Current'[e] = new.content[e] /\ NewsAt(t, new.content, e)
  <2>1. NewsAt(t, job[i].content, e)'
    <3>1. NewsAt(t, job[i].content, e)
      BY <1>2, <1>8
    <3> QED
      BY <1>1, <1>6, <3>1 DEF NewsAt
  <2>2. pc'[i] = "stored" /\ job'[i].content[e] = Current'[e]
    BY <1>1, <1>2, <1>8
  <2> QED
    BY <2>1, <2>2 DEF IngestComes
<1>9. CASE ~(Current'[e] = new.content[e] /\ NewsAt(t, new.content, e))
  <2>1. Current'[e] = Current[e]
    <3>1. PICK c \in Stored' : /\ c.content = Current' /\ c.content # Nobody
                               /\ \A m \in Stored' : m.content # Nobody => m.time <= c.time
      BY <1>3, <1>7, CurrentIsOfStored, CurrentIsListed
    <3>2. CASE c \in Stored
      BY <1>3, <1>5, <3>1, <3>2, CurrentIsOfStored, CurrentIsLast
    <3>3. CASE c = new
      <4> DEFINE y == Latest(StoredBefore(t))
      <4>1. StoredBefore(t) # {} /\ StoredBefore(t) \in SUBSET Snapshot
        BY <1>3, <1>6, <1>9, <3>1, <3>3 DEF NewsAt
      <4>2. y \in StoredBefore(t) /\ \A m \in StoredBefore(t) : m.time <= y.time
        BY <4>1, LatestIsLast
      <4> HIDE DEF y
      <4>3. y.content[e] = Current'[e]
        BY <1>9, <3>1, <3>3, <4>2 DEF NewsAt
      <4>4. y \in Stored /\ y.content # Nobody
        BY <1>6, <1>7, <4>2, <4>3 DEF Nobody
      <4>5. ASSUME NEW m \in Stored, m.content # Nobody PROVE m.time <= y.time
        <5>1. m.time <= t /\ m.time # t /\ m.time \in Nat
          BY <1>2, <1>3, <1>4, <1>5, <3>1, <3>3, <4>5
        <5>2. m \in StoredBefore(t)
          BY <1>4, <1>6, <5>1
        <5> QED
          BY <4>2, <5>2
      <4>6. Current = y.content
        BY <1>3, <1>5, <4>4, <4>5, CurrentIsOfStored, CurrentIsLast
      <4> QED
        BY <4>3, <4>6
    <3> QED
      BY <1>3, <3>1, <3>2, <3>3
  <2>2. RunComes(s, e) \/ IngestComes(e)
    BY <1>7, <2>1 DEF HitsAwaited, HitsIn
  <2>3. CASE RunComes(s, e)
    BY <1>1, <2>1, <2>3 DEF RunComes
  <2>4. CASE IngestComes(e)
    <3>1. PICK b \in Ingesters :
            /\ pc[b] = "stored" /\ job[b].content[e] = Current[e]
            /\ NewsAt(job[b].time, job[b].content, e)
      BY <2>4 DEF IngestComes
    <3>2. pc'[b] = "stored" /\ job'[b] = job[b]
      BY <1>1, <3>1
    <3> DEFINE tb == job[b].time
               B == StoredBefore(tb)
    <3>3. NewsAt(tb, job[b].content, e)'
      <4> SUFFICES ASSUME ~NewsAt(tb, job[b].content, e)' PROVE FALSE
        OBVIOUS
      <4>1. /\ B = {m \in Stored : m.time < tb}
            /\ B' = {m \in Stored' : m.time < tb}
        BY <1>1, <1>6
      <4>2. tb' = tb /\ (job[b].content)' = job[b].content /\ tb \in Nat
        BY <1>1, MonitoringAssumption DEF TypeOK, Job
      <4>3. t < tb /\ B' = B \cup {new}
        <5>1. B' # B
          BY <3>1, <4>2 DEF NewsAt
        <5> QED
          BY <1>2, <1>3, <4>1, <5>1
      <4> DEFINE y == Latest(B')
      <4>4. B' # {} /\ B' \in SUBSET Snapshot
        BY <1>3, <4>1, <4>3
      <4>5. y \in B' /\ \A m \in B' : m.time <= y.time
        BY <4>4, LatestIsLast
      <4> HIDE DEF y
      <4>6. y.content[e] = job[b].content[e]
        BY <4>2, <4>5 DEF NewsAt
      <4>7. StoredBefore(t) \subseteq B
        <5>1. \A m \in Stored : m.time < t => m.time < tb
          BY <1>3, <1>4, <4>2, <4>3
        <5> QED
          BY <1>6, <4>1, <5>1
      <4>8. NewsAt(t, new.content, e) /\ y = new
        <5>1. CASE B = {}
          BY <4>3, <4>5, <4>7, <5>1 DEF NewsAt
        <5>2. CASE B # {}
          <6>1. PICK m \in B : /\ m.content[e] # job[b].content[e]
                               /\ \A n \in B : n.time <= m.time
            BY <3>1, <5>2 DEF NewsAt
          <6>2. m.time <= y.time /\ m \in Stored' /\ y \in Stored'
            BY <4>1, <4>3, <4>5, <6>1
          <6>3. y = new
            <7>1. ASSUME y \in B PROVE FALSE
              <8>1. y.time = m.time
                BY <1>3, <1>4, <6>1, <6>2, <7>1
              <8> QED
                BY <1>5, <4>6, <6>1, <6>2, <8>1
            <7> QED
              BY <4>3, <4>5, <7>1
          <6>4. m \in StoredBefore(t)
            <7>1. m.time <= t /\ m.time # t /\ m.time \in Nat /\ m \in Stored
              BY <1>2, <1>3, <1>4, <1>5, <4>1, <6>1, <6>2, <6>3
            <7> QED
              BY <1>4, <1>6, <7>1
          <6> QED
            BY <4>6, <4>7, <6>1, <6>3, <6>4 DEF NewsAt
        <5> QED
          BY <5>1, <5>2
      <4> QED
        BY <1>9, <2>1, <3>1, <4>6, <4>8
    <3> QED
      BY <2>1, <3>1, <3>2, <3>3 DEF IngestComes
  <2> QED
    BY <2>2, <2>3, <2>4
<1> QED
  BY <1>8, <1>9

(* Whoever counted on the ingest is in its delta.                          *)
LEMMA MonitorStep ==
  ASSUME TypeOK, TimesUnique, JobsRecorded, HitsAwaited, NEW i \in Ingesters, Monitor(i)
  PROVE  HitsAwaited'
<1>1. /\ UNCHANGED <<snapshots, lost, stranded, subject, intake, queue, screened>>
      /\ pc[i] = "stored"
      /\ job'[i].todo = {s \in Subjects : subject[s] = "active"
                                          /\ HitsIn(s, job[i].content) \cap Delta(i) # {}}
      /\ \A j \in Ingesters : j # i => pc'[j] = pc[j] /\ job'[j] = job[j]
  BY DEF Monitor, Step, TypeOK, Job, dbVars, history
<1>2. Current' = Current /\ \A time : StoredBefore(time)' = StoredBefore(time)
  BY <1>1, SameStored DEF Stored
<1>3. ASSUME ~lost, NEW s \in Subjects, subject[s] = "active", s \notin stranded,
             NEW e \in HitsIn(s, Current)
      PROVE  RunComes(s, e)' \/ IngestComes(e)'
  <2>1. RunComes(s, e) \/ IngestComes(e)
    BY <1>3 DEF HitsAwaited
  <2>2. job[i].todo = {}
    BY <1>1 DEF JobsRecorded
  <2>3. CASE RunComes(s, e)
    BY <1>1, <1>2, <2>2, <2>3 DEF RunComes
  <2>4. CASE IngestComes(e)
    <3>1. PICK b \in Ingesters :
            /\ pc[b] = "stored" /\ job[b].content[e] = Current[e]
            /\ NewsAt(job[b].time, job[b].content, e)
      BY <2>4 DEF IngestComes
    <3>2. CASE b = i
      <4>1. e \in Entries /\ Current[e] # 0 /\ <<s, e, Current[e]>> \in Matches
        BY HitsType DEF HitsIn
      <4>2. e \in Delta(i)
        BY <3>1, <3>2, <4>1, NewsIsInDelta
      <4>3. s \in job'[i].todo
        BY <1>1, <1>3, <3>1, <3>2, <4>1, <4>2 DEF HitsIn
      <4> QED
        BY <4>3 DEF RunComes
    <3>3. CASE b # i
      <4>1. pc'[b] = "stored" /\ job'[b] = job[b]
        BY <1>1, <3>1, <3>3
      <4>2. NewsAt(job[b].time, job[b].content, e)'
        BY <1>2, <3>1, <4>1 DEF NewsAt
      <4> QED
        BY <1>2, <3>1, <4>1, <4>2 DEF IngestComes
    <3> QED
      BY <3>2, <3>3
  <2> QED
    BY <2>1, <2>3, <2>4
<1>4. \A s \in Subjects : HitsIn(s, Current)' = HitsIn(s, Current)
  BY <1>2 DEF HitsIn
<1> QED
  BY <1>1, <1>3, <1>4 DEF HitsAwaited

LEMMA HitsStep ==
  ASSUME TypeOK, TimesUnique, JobsRecorded, HitsAwaited, TypeOK', TimesUnique', [Next]_vars
  PROVE  HitsAwaited'
<1>1. ASSUME NEW i \in Ingesters, Fetch(i) \/ Unchanged(i) \/ Changed(i) \/ Stamp(i) \/ Finish(i)
      PROVE  HitsAwaited'
  <2>1. /\ UNCHANGED <<snapshots, subject, intake, queue, screened, stranded, lost>>
        /\ \A j \in Ingesters : j # i => pc'[j] = pc[j] /\ job'[j] = job[j]
    BY <1>1 DEF Fetch, Unchanged, Changed, Stamp, Finish, Step, dbVars, history, TypeOK
  <2>2. pc[i] # "stored" /\ job[i].todo = {}
    BY <1>1 DEF Fetch, Unchanged, Changed, Stamp, Finish, Step, JobsRecorded
  <2>3. Stored' = Stored
    BY <2>1 DEF Stored
  <2> QED
    BY <2>1, <2>2, <2>3, HitsKeptByIngest
<1>2. ASSUME NEW i \in Ingesters, Record(i) PROVE HitsAwaited'
  <2>1. UNCHANGED <<subject, intake, queue, screened, stranded, lost, job>>
    BY <1>2 DEF Record, history
  <2>2. /\ pc[i] # "stored" /\ job[i].todo = {}
        /\ \A j \in Ingesters : j # i => pc'[j] = pc[j]
    BY <1>2 DEF Record, Step, JobsRecorded, TypeOK
  <2>3. Stored' = Stored
    BY <1>2 DEF Record, Stored, Mine
  <2> QED
    BY <2>1, <2>2, <2>3, HitsKeptByIngest
<1>3. ASSUME NEW i \in Ingesters, Store(i) PROVE HitsAwaited'
  BY <1>3, StoreStep
<1>4. ASSUME NEW i \in Ingesters, Monitor(i) PROVE HitsAwaited'
  BY <1>4, MonitorStep
<1>5. ASSUME NEW i \in Ingesters, Crash(i) PROVE HitsAwaited'
  <2>1. /\ UNCHANGED <<snapshots, subject, intake, queue, screened, stranded>>
        /\ \A j \in Ingesters : j # i => pc'[j] = pc[j] /\ job'[j] = job[j]
    BY <1>5 DEF Crash, dbVars, TypeOK
  <2>2. lost => lost'
    BY <1>5 DEF Crash
  <2>3. lost' \/ (pc[i] # "stored" /\ job[i].todo = {})
    BY <1>5 DEF Crash, JobsRecorded
  <2>4. Stored' = Stored
    BY <2>1 DEF Stored
  <2> QED
    BY <2>1, <2>2, <2>3, <2>4, HitsKeptByIngest
<1>6. CASE Publish \/ UNCHANGED vars
  <2>1. UNCHANGED <<snapshots, subject, intake, queue, screened, stranded, lost, pc, job>>
    BY <1>6 DEF Publish, vars, dbVars, history
  <2>2. Stored' = Stored
    BY <2>1 DEF Stored
  <2> QED
    BY <2>1, <2>2, HitsKeptByIngest
<1>7. ASSUME NEW i \in Ingesters, NEW s \in Subjects, Enqueue(i, s) PROVE HitsAwaited'
  <2>1. /\ UNCHANGED <<snapshots, subject, intake, screened, stranded, lost, pc>>
        /\ \A j \in Ingesters : j # i => job'[j] = job[j]
        /\ pc[i] = "enqueue" /\ job'[i].todo = job[i].todo \ {s}
    BY <1>7 DEF Enqueue, dbVars, history, TypeOK, Job
  <2>2. /\ queue'[s] > 0
        /\ \A r \in Subjects : r # s => queue'[r] = queue[r]
    BY <1>7, MonitoringAssumption DEF Enqueue, TypeOK
  <2>3. Stored' = Stored
    BY <2>1 DEF Stored
  <2>4. ASSUME NEW r \in Subjects, NEW e \in HitsIn(r, Current), RunComes(r, e)
        PROVE  RunComes(r, e)'
    <3>1. CASE r = s
      BY <2>2, <3>1 DEF RunComes
    <3>2. CASE r # s
      <4>1. \A j \in Ingesters : r \in job[j].todo => r \in job'[j].todo
        BY <2>1, <3>2
      <4> QED
        BY <2>1, <2>2, <2>3, <2>4, <3>2, <4>1, SameStored, RunStillComes, HitsType
    <3> QED
      BY <3>1, <3>2
  <2> QED
    BY <2>1, <2>3, <2>4, QuietStep
<1>8. ASSUME NEW s \in Subjects,
             \/ Submit(s) \/ EnqueueIntake(s) \/ LoseIntake(s)
             \/ Block(s) \/ EndRelationship(s)
      PROVE  HitsAwaited'
  <2>1. UNCHANGED <<snapshots, lost, pc, job>> /\ stranded \subseteq stranded'
    BY <1>8 DEF Submit, EnqueueIntake, LoseIntake, Block, EndRelationship, dbVars, history
  <2>2. Stored' = Stored /\ Current' = Current
    BY <2>1, SameStored DEF Stored
  <2>3. ASSUME NEW r \in Subjects, r # s
        PROVE  /\ subject'[r] = subject[r] /\ screened'[r] = screened[r]
               /\ queue'[r] = queue[r]
               /\ r \in intake => r \in intake'
    BY <1>8, <2>3
       DEF Submit, EnqueueIntake, LoseIntake, Block, EndRelationship, dbVars, TypeOK
  <2>4. ASSUME NEW r \in Subjects, r # s, NEW e \in HitsIn(r, Current), RunComes(r, e)
        PROVE  RunComes(r, e)'
    <3>1. /\ screened'[r] = screened[r] /\ queue'[r] = queue[r]
          /\ r \in intake => r \in intake'
      BY <2>3, <2>4
    <3> QED
      BY <2>1, <2>2, <2>4, <3>1, RunStillComes, HitsType
  <2>5. ASSUME subject'[s] = "active", s \notin stranded'
        PROVE  \/ s \in intake'
               \/ /\ subject[s] = "active"
                  /\ \A e \in HitsIn(s, Current) : RunComes(s, e) => RunComes(s, e)'
    <3>1. CASE Submit(s)
      BY <3>1 DEF Submit
    <3>2. CASE EnqueueIntake(s)
      <4>1. queue'[s] > 0 /\ subject[s] = "active"
        BY <2>5, <3>2, MonitoringAssumption DEF EnqueueIntake, dbVars, TypeOK
      <4> QED
        BY <4>1 DEF RunComes
    <3>3. CASE LoseIntake(s)
      BY <2>5, <3>3 DEF LoseIntake
    <3>4. CASE Block(s)
      <4>1. \A e \in HitsIn(s, Current) : <<e, Current[e]>> \in screened'[s]
        BY <3>4 DEF Block, TypeOK
      <4>2. subject[s] = "active"
        BY <2>5, <3>4 DEF Block
      <4> QED
        BY <2>2, <4>1, <4>2 DEF RunComes
    <3>5. CASE EndRelationship(s)
      BY <2>5, <3>5 DEF EndRelationship, TypeOK
    <3> QED
      BY <1>8, <3>1, <3>2, <3>3, <3>4, <3>5
  <2> QED
    BY <2>1, <2>2, <2>3, <2>4, <2>5, QuietStep
<1> QED
  BY <1>1, <1>2, <1>3, <1>4, <1>5, <1>6, <1>7, <1>8 DEF Next, IngestStep

LEMMA IInvStep == IInv /\ [Next]_vars => IInv'
BY TypeStep, TimesStep, HitsStep DEF IInv

----------------------------------------------------------------------------

(* However many ingests run, are killed or overtake one another, every     *)
(* field keeps its values.                                                 *)
THEOREM TypeCorrect == Spec => []TypeOK
<1>1. IInv => TypeOK
  BY DEF IInv
<1> QED
  BY <1>1, InitIInv, IInvStep, PTL DEF Spec

(* Monitoring passes over nobody, with any number of ingests of the same   *)
(* list at a time, each looking up its predecessor among snapshots that    *)
(* others are still recording, as long as none of them died after its      *)
(* records were stored (the code of app/lists/ingest.py and monitoring.py  *)
(* takes no lock on the list).                                             *)
THEOREM NoHitIsMissed == Spec => []NoHitMissed
<1>1. IInv => NoHitMissed
  <2> SUFFICES ASSUME IInv, ~lost, NEW s \in Subjects, subject[s] = "active",
                      s \notin stranded, NEW e \in HitsIn(s, Current)
               PROVE  Covered(s, e)
    BY DEF NoHitMissed, EveryHitScreened
  <2>1. RunComes(s, e) \/ IngestComes(e)
    BY DEF IInv, HitsAwaited
  <2>2. CASE RunComes(s, e)
    BY <2>2 DEF RunComes, Covered, Underway
  <2>3. CASE IngestComes(e)
    <3>1. PICK i \in Ingesters :
            /\ pc[i] = "stored" /\ job[i].content[e] = Current[e]
            /\ NewsAt(job[i].time, job[i].content, e)
      BY <2>3 DEF IngestComes
    <3>2. e \in Entries /\ Current[e] # 0 /\ <<s, e, Current[e]>> \in Matches
      BY HitsType DEF HitsIn
    <3>3. e \in Delta(i)
      BY <3>1, <3>2, NewsIsInDelta DEF IInv
    <3> QED
      BY <3>1, <3>2, <3>3 DEF Covered, Underway, HitsIn
  <2> QED
    BY <2>1, <2>2, <2>3
<1> QED
  BY <1>1, InitIInv, IInvStep, PTL DEF Spec

=============================================================================
