--------------------------- MODULE ListMonitoring ---------------------------
(***************************************************************************)
(* One sanctions list, from its publisher to the people screened against   *)
(* it: the ingest command (fetch, compare, snapshot, records, monitoring,  *)
(* enqueue), run on a schedule and possibly by two processes at a time,    *)
(* the intake of new subjects, and the blocking stage of their runs.       *)
(*                                                                         *)
(* Ingest commits four times: the snapshot row, its records, the           *)
(* monitoring runs, and then one message per run.  The process may die, or *)
(* raise (no master key, no broker), between any two of them.              *)
(***************************************************************************)
EXTENDS Naturals, FiniteSets

CONSTANTS
  Subjects,      \* screening_subject rows, present and future
  Entries,       \* source_entry_id
  MaxVersion,    \* an entry is published in versions 1 .. MaxVersion
  Editions,      \* bound: the contents the publisher may ever serve
  Matches,       \* <<s, e, v>>: version v of e shares a blocking key with s
  Ingesters,     \* processes running "python -m app.lists.ingest"
  MaxSnapshots,  \* bound: snapshots ever stamped
  MaxQueue       \* bound: runs of one subject waiting in the queue

(* The compared attributes of every entry, as a version; 0: not listed.    *)
Content == [Entries -> 0 .. MaxVersion]
Nobody == [e \in Entries |-> 0]

ASSUME MonitoringAssumption ==
  /\ MaxVersion \in Nat /\ MaxSnapshots \in Nat /\ MaxQueue \in Nat
  /\ Editions \subseteq Content
  /\ Matches \subseteq Subjects \X Entries \X (1 .. MaxVersion)

VARIABLES
  published,  \* what the publisher serves now
  clock,      \* the last retrieved_at that was given out
  snapshots,  \* list_snapshot rows, with their watchlist_record rows
  subject,    \* subject[s]: "unknown", "active" or "ended"
  intake,     \* subjects whose intake run is committed and not yet enqueued
  queue,      \* queue[s]: runs of s in the screening queue
  screened,   \* screened[s]: the <<e, v>> some run of s was blocked against
  pc,         \* where an ingest stands
  job,        \* what it has fetched and created
  lost,       \* history: an ingest died after its records were committed
  stranded    \* history: subjects whose intake run was never enqueued

dbVars   == <<snapshots, subject, screened>>
history  == <<lost, stranded>>
vars     == <<published, clock, snapshots, subject, intake, queue, screened,
              pc, job, lost, stranded>>

IngestPc == {"idle", "fetched", "changed", "stamped", "recorded", "stored", "enqueue"}
Snapshot == [time: 1 .. MaxSnapshots, content: Content, stored: BOOLEAN]
Job == [content: Content, time: 0 .. MaxSnapshots, todo: SUBSET Subjects]
NoJob == [content |-> Nobody, time |-> 0, todo |-> {}]

TypeOK ==
  /\ published \in Content
  /\ clock \in 0 .. MaxSnapshots
  /\ snapshots \subseteq Snapshot
  /\ subject \in [Subjects -> {"unknown", "active", "ended"}]
  /\ intake \subseteq Subjects
  /\ queue \in [Subjects -> 0 .. MaxQueue]
  /\ screened \in [Subjects -> SUBSET (Entries \X (1 .. MaxVersion))]
  /\ pc \in [Ingesters -> IngestPc]
  /\ job \in [Ingesters -> Job]
  /\ lost \in BOOLEAN
  /\ stranded \subseteq Subjects

Init ==
  /\ published \in Editions
  /\ clock = 0 /\ snapshots = {}
  /\ subject = [s \in Subjects |-> "unknown"]
  /\ intake = {}
  /\ queue = [s \in Subjects |-> 0]
  /\ screened = [s \in Subjects |-> {}]
  /\ pc = [i \in Ingesters |-> "idle"]
  /\ job = [i \in Ingesters |-> NoJob]
  /\ lost = FALSE /\ stranded = {}

----------------------------------------------------------------------------
(* Reading the snapshots.                                                  *)

Latest(set) == CHOOSE n \in set : \A m \in set : m.time <= n.time

(* watchlist_record rows of a snapshot: none until store_records commits.  *)
Records(n) == IF n.stored THEN n.content ELSE Nobody

(* current_snapshot_ids: the latest snapshot that has records.             *)
Current ==
  LET usable == {n \in snapshots : Records(n) # Nobody}
  IN  IF usable = {} THEN Nobody ELSE Latest(usable).content

(* Seeded fault: the previous snapshot is looked up by what the file said, *)
(* not by the records that were stored.                                    *)
Previous_Unstored(time) ==
  LET before == {n \in snapshots : n.time < time}
  IN  IF before = {} THEN Nobody ELSE Latest(before).content

(* _previous_snapshot_id, and the records diff_snapshots finds for it.     *)
Previous(time) ==
  LET before == {n \in snapshots : n.time < time}
  IN  IF before = {} THEN Nobody ELSE Records(Latest(before))

(* diff_snapshots(...).new_records: added and changed.                     *)
NewEntries(old, new) == {e \in Entries : new[e] # 0 /\ new[e] # old[e]}

(* The entries of content that block subject s.                            *)
HitsIn(s, content) == {e \in Entries : <<s, e, content[e]>> \in Matches}

----------------------------------------------------------------------------
(* ingest_source, by process i.                                            *)

Step(i, from, to) == pc[i] = from /\ pc' = [pc EXCEPT ![i] = to]

(* fetch(spec.url).  A failed fetch changes nothing.                       *)
Fetch(i) ==
  /\ Step(i, "idle", "fetched")
  /\ job' = [job EXCEPT ![i].content = published]
  /\ UNCHANGED <<published, clock, dbVars, intake, queue, history>>

(* The content hash is that of the latest snapshot, with or without        *)
(* records; or the file does not parse.                                    *)
Unchanged(i) ==
  /\ Step(i, "fetched", "idle")
  /\ job' = [job EXCEPT ![i] = NoJob]
  /\ UNCHANGED <<published, clock, dbVars, intake, queue, history>>

Changed(i) ==
  /\ Step(i, "fetched", "changed")
  /\ snapshots # {} => Latest(snapshots).content # job[i].content
  /\ UNCHANGED <<published, clock, dbVars, intake, queue, job, history>>

(* record_snapshot takes its retrieved_at ...                              *)
Stamp(i) ==
  /\ Step(i, "changed", "stamped")
  /\ clock < MaxSnapshots
  /\ clock' = clock + 1
  /\ job' = [job EXCEPT ![i].time = clock + 1]
  /\ UNCHANGED <<published, dbVars, intake, queue, history>>

Mine(i, stored) == [time |-> job[i].time, content |-> job[i].content, stored |-> stored]

(* ... and commits.                                                        *)
Record(i) ==
  /\ Step(i, "stamped", "recorded")
  /\ snapshots' = snapshots \cup {Mine(i, FALSE)}
  /\ UNCHANGED <<published, clock, subject, screened, intake, queue, job, history>>

(* store_records commits.                                                  *)
Store(i) ==
  /\ Step(i, "recorded", "stored")
  /\ snapshots' = (snapshots \ {Mine(i, FALSE)}) \cup {Mine(i, TRUE)}
  /\ UNCHANGED <<published, clock, subject, screened, intake, queue, job, history>>

Delta(i) == NewEntries(Previous(job[i].time), job[i].content)

(* Seeded fault: whoever has been hit before is passed over.               *)
Monitor_SkipsScreened(i) ==
  /\ Step(i, "stored", "enqueue")
  /\ job' = [job EXCEPT ![i].todo =
       {s \in Subjects : subject[s] = "active" /\ screened[s] = {}
                         /\ HitsIn(s, job[i].content) \cap Delta(i) # {}}]
  /\ UNCHANGED <<published, clock, dbVars, intake, queue, history>>

(* rescreen_for_snapshot: a run for every active subject that the delta    *)
(* hits, in one transaction.                                               *)
Monitor(i) ==
  /\ Step(i, "stored", "enqueue")
  /\ job' = [job EXCEPT ![i].todo =
       {s \in Subjects : subject[s] = "active"
                         /\ HitsIn(s, job[i].content) \cap Delta(i) # {}}]
  /\ UNCHANGED <<published, clock, dbVars, intake, queue, history>>

(* enqueue(run_id), one run after the other.                               *)
Enqueue(i, s) ==
  /\ pc[i] = "enqueue"
  /\ s \in job[i].todo /\ queue[s] < MaxQueue
  /\ job' = [job EXCEPT ![i].todo = @ \ {s}]
  /\ queue' = [queue EXCEPT ![s] = @ + 1]
  /\ UNCHANGED <<published, clock, dbVars, intake, pc, history>>

Finish(i) ==
  /\ Step(i, "enqueue", "idle")
  /\ job[i].todo = {}
  /\ job' = [job EXCEPT ![i] = NoJob]
  /\ UNCHANGED <<published, clock, dbVars, intake, queue, history>>

(* The process dies, or an exception leaves ingest_source.                 *)
Crash(i) ==
  /\ pc[i] # "idle"
  /\ pc' = [pc EXCEPT ![i] = "idle"]
  /\ job' = [job EXCEPT ![i] = NoJob]
  /\ lost' = (lost \/ pc[i] = "stored" \/ pc[i] = "enqueue")
  /\ UNCHANGED <<published, clock, dbVars, intake, queue, stranded>>

IngestStep(i) ==
  \/ Fetch(i) \/ Unchanged(i) \/ Changed(i) \/ Stamp(i) \/ Record(i)
  \/ Store(i) \/ Monitor(i) \/ Finish(i)
  \/ \E s \in Subjects : Enqueue(i, s)

----------------------------------------------------------------------------
(* Subjects and their runs.                                                *)

(* create_screening: subject and intake run in one commit ...              *)
Submit(s) ==
  /\ subject[s] = "unknown"
  /\ subject' = [subject EXCEPT ![s] = "active"]
  /\ intake' = intake \cup {s}
  /\ UNCHANGED <<published, clock, snapshots, screened, queue, pc, job, history>>

(* ... then enqueue_screening.                                             *)
EnqueueIntake(s) ==
  /\ s \in intake /\ queue[s] < MaxQueue
  /\ intake' = intake \ {s}
  /\ queue' = [queue EXCEPT ![s] = @ + 1]
  /\ UNCHANGED <<published, clock, dbVars, pc, job, history>>

(* The process that served the request dies in between, or the broker is   *)
(* down: the run stays pending, and nothing enqueues it again.             *)
LoseIntake(s) ==
  /\ s \in intake
  /\ intake' = intake \ {s}
  /\ stranded' = stranded \cup {s}
  /\ UNCHANGED <<published, clock, dbVars, queue, pc, job, lost>>

(* Seeded fault: a run is blocked that was never taken off the queue.      *)
Block_Unqueued(s) ==
  /\ subject[s] = "active"
  /\ queue' = [queue EXCEPT ![s] = @ - 1]
  /\ screened' = [screened EXCEPT ![s] =
       @ \cup {<<e, Current[e]>> : e \in HitsIn(s, Current)}]
  /\ UNCHANGED <<published, clock, snapshots, subject, intake, pc, job, history>>

(* block_candidates of one of its runs, against the current snapshot.      *)
Block(s) ==
  /\ queue[s] > 0
  /\ queue' = [queue EXCEPT ![s] = @ - 1]
  /\ screened' = [screened EXCEPT ![s] =
       @ \cup {<<e, Current[e]>> : e \in HitsIn(s, Current)}]
  /\ UNCHANGED <<published, clock, snapshots, subject, intake, pc, job, history>>

(* relationship_ended_at is set, or the subject is shredded.               *)
EndRelationship(s) ==
  /\ subject[s] = "active"
  /\ subject' = [subject EXCEPT ![s] = "ended"]
  /\ UNCHANGED <<published, clock, snapshots, screened, intake, queue, pc, job, history>>

(* The publisher changes the list.                                         *)
Publish ==
  /\ published' \in Editions \ {published}
  /\ UNCHANGED <<clock, dbVars, intake, queue, pc, job, history>>

Next ==
  \/ \E i \in Ingesters : IngestStep(i) \/ Crash(i)
  \/ \E s \in Subjects :
       \/ Submit(s) \/ EnqueueIntake(s) \/ LoseIntake(s)
       \/ Block(s) \/ EndRelationship(s)
  \/ Publish

(* A started ingest that is not killed goes on, the API enqueues what it   *)
(* committed or fails to, and the screening worker takes runs off its      *)
(* queue.  Nothing says that an ingest is ever started or that the list    *)
(* ever changes.                                                           *)
Fairness ==
  /\ \A i \in Ingesters : WF_vars(pc[i] # "idle" /\ IngestStep(i))
  /\ \A s \in Subjects : WF_vars(EnqueueIntake(s) \/ LoseIntake(s)) /\ WF_vars(Block(s))

Spec == Init /\ [][Next]_vars /\ Fairness

----------------------------------------------------------------------------
(* Properties.                                                             *)

(* A run of s that has not been blocked yet exists, or is about to.        *)
Underway(s, e) ==
  \/ queue[s] > 0
  \/ s \in intake
  \/ \E i \in Ingesters :
       \/ s \in job[i].todo
       \/ pc[i] = "stored" /\ e \in Delta(i) \cap HitsIn(s, job[i].content)

Covered(s, e) == <<e, Current[e]>> \in screened[s] \/ Underway(s, e)

(* Every new snapshot triggers monitoring (RUNBOOK.md): whoever is an      *)
(* active subject and was enqueued at intake has been, or is about to be,  *)
(* screened against every record of the current snapshot that hits them.   *)
EveryHitScreened ==
  \A s \in Subjects : subject[s] = "active" /\ s \notin stranded =>
    \A e \in HitsIn(s, Current) : Covered(s, e)

(* The same, as long as no ingest died between storing the records and     *)
(* enqueueing the last run: neither two ingests at a time, nor a subject   *)
(* submitted while a delta is processed, nor an ingest that died before    *)
(* its records were stored makes monitoring pass over anybody.             *)
NoHitMissed == ~lost => EveryHitScreened

(* Hits are not only underway: again and again every active subject has    *)
(* been screened against all it is hit by, unless an ingest dies or its    *)
(* intake was lost.                                                        *)
UpToDate(s) == \A e \in HitsIn(s, Current) : <<e, Current[e]>> \in screened[s]

HitsGetScreened ==
  \A s \in Subjects :
    (subject[s] = "active") ~> (subject[s] = "ended" \/ UpToDate(s)
                               \/ lost \/ s \in stranded)

=============================================================================
