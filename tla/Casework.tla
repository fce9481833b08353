------------------------------ MODULE Casework ------------------------------
(***************************************************************************)
(* One company's case: submissions that carry the same idempotency key,    *)
(* the verification runs, and what operators do to a run at the same time: *)
(* correct fields and re-run, re-analyse, add notes, mark as reviewed.     *)
(*                                                                         *)
(* Every request is a process of its own that reads rows, and commits in   *)
(* one or two transactions with a broker call before, between or after     *)
(* them.  The database is READ COMMITTED, so what a request read may have  *)
(* changed when it writes; unique constraints are all that it can rely on. *)
(* The process may die, or an exception end the request, between commits.  *)
(***************************************************************************)
EXTENDS Naturals, FiniteSets

CONSTANTS
  Clients,    \* requests POST /submissions with one idempotency key
  Operators,  \* requests of operators
  Duty,       \* Duty[o]: the duties that o may be asked to do
  Fields,     \* the correctable fields of the submission
  Corrected,  \* Corrected[o]: the fields that o corrects, if it does
  NoOne

Requests == Clients \cup Operators
Duties == {"correct", "rerun", "note", "review"}

ASSUME CaseworkAssumption ==
  /\ Clients \cap Operators = {}
  /\ NoOne \notin Requests
  /\ Duty \in [Operators -> SUBSET Duties]
  /\ Corrected \in [Operators -> SUBSET Fields]

(* A request creates one run at most, which goes by the request's name.  A *)
(* field's value is named after the request that brought it.               *)
VARIABLES
  \* the database
  submitted,  \* submission rows, named after the client
  form,       \* form[c][f]: field f of submission c
  runs,       \* verification_run rows
  review,     \* review[r]: the review row of run r
  audited,    \* requests whose audit event is committed
  \* the broker and the worker
  queue,      \* runs in the task queue
  taken,      \* runs that a worker has taken up
  input,      \* input[r]: the form as the normalize stage of r read it
  \* the requests
  pc,         \* where a request stands
  doing,      \* doing[o]: what o asked for, "none" before it did
  read,       \* read[o]: the run it works on, and the review as it read it
  answer,     \* the run a client was told, or NoOne
  \* history
  corrections, \* operators whose corrections are committed
  began       \* began[o]: those that were committed when o read the run

dbVars    == <<submitted, form, runs, review, audited>>
workVars  == <<queue, taken, input>>
reqVars   == <<doing, read, answer>>
history   == <<corrections, began>>
vars      == <<dbVars, workVars, pc, reqVars, history>>

Review == [there: BOOLEAN, notes: SUBSET Operators, fields: SUBSET Fields]
NoReview == [there |-> FALSE, notes |-> {}, fields |-> {}]
NoRun == [of |-> NoOne, supersedes |-> NoOne]
Run == [of: Clients, supersedes: Requests \cup {NoOne}] \cup {NoRun}
Pc == {"start", "insert", "write", "record", "enqueue",
       "answered", "refused", "dead"}

TypeOK ==
  /\ submitted \subseteq Clients
  /\ form \in [Clients -> [Fields -> Requests]]
  /\ runs \in [Requests -> Run]
  /\ review \in [Requests -> Review]
  /\ audited \subseteq Requests
  /\ queue \subseteq Requests
  /\ taken \subseteq Requests
  /\ input \in [Requests -> [Fields -> Requests \cup {NoOne}]]
  /\ pc \in [Requests -> Pc]
  /\ doing \in [Operators -> Duties \cup {"none"}]
  /\ read \in [Operators -> [run: Requests \cup {NoOne}, review: Review]]
  /\ answer \in [Clients -> Requests \cup {NoOne}]
  /\ corrections \subseteq Operators
  /\ began \in [Operators -> SUBSET Operators]

Init ==
  /\ submitted = {}
  /\ form = [c \in Clients |-> [f \in Fields |-> c]]
  /\ runs = [r \in Requests |-> NoRun]
  /\ review = [r \in Requests |-> NoReview]
  /\ audited = {}
  /\ queue = {}
  /\ taken = {}
  /\ input = [r \in Requests |-> [f \in Fields |-> NoOne]]
  /\ pc = [a \in Requests |-> "start"]
  /\ doing = [o \in Operators |-> "none"]
  /\ read = [o \in Operators |-> [run |-> NoOne, review |-> NoReview]]
  /\ answer = [c \in Clients |-> NoOne]
  /\ corrections = {}
  /\ began = [o \in Operators |-> {}]

----------------------------------------------------------------------------
(* Steps that several requests have.                                       *)

Goto(a, there) == pc' = [pc EXCEPT ![a] = there]

Created(r) == runs[r] # NoRun

(* A new pending run, committed together with what else the action says.   *)
NewRun(a, c, prior) ==
  runs' = [runs EXCEPT ![a] = [of |-> c, supersedes |-> prior]]

(* Seeded fault: the id of the superseded run is enqueued.                 *)
Enqueue_Superseded(a) == queue' = queue \cup {runs[a].supersedes}

(* enqueue_run(run_id).                                                    *)
Enqueue(a) == queue' = queue \cup {a}

(* record_event commits the audit event.                                   *)
Record(a) == audited' = audited \cup {a}

----------------------------------------------------------------------------
(* POST /submissions, by client c.                                         *)

Answer(c, r) ==
  /\ Goto(c, "answered")
  /\ answer' = [answer EXCEPT ![c] = r]
  /\ UNCHANGED <<doing, read>>

(* The key is known: the answer names the submission's newest run, by      *)
(* created_at, which is when its transaction began.  A run is newer than   *)
(* the one it supersedes; otherwise any may be the newest.                 *)
FindDuplicate(c) ==
  /\ pc[c] = "start" /\ submitted # {}
  /\ \E r \in Requests :
       /\ runs[r].of \in submitted
       /\ \A later \in Requests : runs[later].supersedes # r
       /\ Answer(c, r)
  /\ UNCHANGED <<dbVars, workVars, history>>

FindNone(c) ==
  /\ pc[c] = "start" /\ submitted = {}
  /\ Goto(c, "insert")
  /\ UNCHANGED <<dbVars, workVars, reqVars, history>>

(* Seeded fault: idempotency_key is indexed but not unique.                *)
InsertSubmission_NotUnique(c) ==
  /\ pc[c] = "insert"
  /\ Goto(c, "record")
  /\ submitted' = submitted \cup {c}
  /\ NewRun(c, c, NoOne)
  /\ UNCHANGED <<form, review, audited, workVars, reqVars, history>>

(* Entity, submission and run in one commit; idempotency_key is unique.    *)
InsertSubmission(c) ==
  /\ pc[c] = "insert" /\ submitted = {}
  /\ Goto(c, "record")
  /\ submitted' = submitted \cup {c}
  /\ NewRun(c, c, NoOne)
  /\ UNCHANGED <<form, review, audited, workVars, reqVars, history>>

(* The other request's commit was first: IntegrityError, a 500.            *)
InsertFails(c) ==
  /\ pc[c] = "insert" /\ submitted # {}
  /\ Goto(c, "refused")
  /\ UNCHANGED <<dbVars, workVars, reqVars, history>>

RecordSubmission(c) ==
  /\ pc[c] = "record"
  /\ Goto(c, "enqueue")
  /\ Record(c)
  /\ UNCHANGED <<submitted, form, runs, review, workVars, reqVars, history>>

EnqueueSubmission(c) ==
  /\ pc[c] = "enqueue"
  /\ Enqueue(c)
  /\ Answer(c, c)
  /\ UNCHANGED <<dbVars, taken, input, history>>

Submit(c) ==
  \/ FindDuplicate(c) \/ FindNone(c)
  \/ InsertSubmission(c) \/ InsertFails(c)
  \/ RecordSubmission(c) \/ EnqueueSubmission(c)

----------------------------------------------------------------------------
(* Requests of operators, by operator o.                                   *)

(* The request reads the run and its review.                               *)
ReadCase(o) ==
  /\ pc[o] = "start"
  /\ \E d \in Duty[o], r \in Requests :
       /\ Created(r)
       /\ doing' = [doing EXCEPT ![o] = d]
       /\ read' = [read EXCEPT ![o] = [run |-> r, review |-> review[r]]]
       /\ Goto(o, IF d = "review" /\ review[r].there
                    THEN "refused"     \* 409: already reviewed
                    ELSE "write")
  /\ began' = [began EXCEPT ![o] = corrections]
  /\ UNCHANGED <<dbVars, workVars, answer, corrections>>

(* The review row once o has written it.  A column that o does not change  *)
(* is not in its UPDATE; one that it changes is what it read, extended.    *)
Reviewed(o, notes) ==
  LET mine == read[o].review
      now  == review[read[o].run]
  IN  [there  |-> TRUE,
       notes  |-> IF notes = {} THEN now.notes ELSE mine.notes \cup notes,
       fields |-> IF doing[o] = "correct"
                    THEN mine.fields \cup Corrected[o] ELSE now.fields]

(* verification_run_id is unique: a row is inserted only where there is    *)
(* none.                                                                   *)
Insertable(o) == read[o].review.there \/ ~review[read[o].run].there

(* Seeded fault: the corrections are kept with the review only.            *)
Correct_ReviewOnly(o) ==
  /\ pc[o] = "write" /\ doing[o] = "correct"
  /\ Insertable(o)
  /\ \E notes \in {{}, {o}} :
       review' = [review EXCEPT ![read[o].run] = Reviewed(o, notes)]
  /\ NewRun(o, runs[read[o].run].of, read[o].run)
  /\ corrections' = corrections \cup {o}
  /\ Goto(o, "enqueue")
  /\ UNCHANGED <<submitted, form, audited, workVars, reqVars, began>>

(* The corrections, the review row and the superseding run, in the commit  *)
(* of enqueue_reanalysis.  Every correction brings a value of its own.     *)
Correct(o) ==
  /\ pc[o] = "write" /\ doing[o] = "correct"
  /\ Insertable(o)
  /\ LET c == runs[read[o].run].of
     IN  /\ form' = [form EXCEPT ![c] =
              [f \in Fields |-> IF f \in Corrected[o] THEN o ELSE form[c][f]]]
         /\ NewRun(o, c, read[o].run)
  /\ \E notes \in {{}, {o}} :
       review' = [review EXCEPT ![read[o].run] = Reviewed(o, notes)]
  /\ corrections' = corrections \cup {o}
  /\ Goto(o, "enqueue")
  /\ UNCHANGED <<submitted, audited, workVars, reqVars, began>>

(* enqueue_reanalysis for a run whose input is left alone.                 *)
Reanalyse(o) ==
  /\ pc[o] = "write" /\ doing[o] = "rerun"
  /\ NewRun(o, runs[read[o].run].of, read[o].run)
  /\ Goto(o, "enqueue")
  /\ UNCHANGED <<submitted, form, review, audited, workVars, reqVars, history>>

(* ... which then enqueues the run.                                        *)
EnqueueRerun(o) ==
  /\ pc[o] = "enqueue"
  /\ Enqueue(o)
  /\ Goto(o, "record")
  /\ UNCHANGED <<dbVars, taken, input, reqVars, history>>

(* The audit event is the endpoint's last commit.                          *)
RecordRerun(o) ==
  /\ pc[o] = "record"
  /\ Record(o)
  /\ Goto(o, "answered")
  /\ UNCHANGED <<submitted, form, runs, review, workVars, reqVars, history>>

(* add_notes: the review row and the audit event in one commit.            *)
AddNotes(o) ==
  /\ pc[o] = "write" /\ doing[o] = "note"
  /\ Insertable(o)
  /\ review' = [review EXCEPT ![read[o].run] = Reviewed(o, {o})]
  /\ Record(o)
  /\ Goto(o, "answered")
  /\ UNCHANGED <<submitted, form, runs, workVars, reqVars, history>>

(* mark_reviewed: the same, with or without notes.  The row it inserts is  *)
(* the first, since it was refused if it read one.                         *)
MarkReviewed(o) ==
  /\ pc[o] = "write" /\ doing[o] = "review"
  /\ Insertable(o)
  /\ \E notes \in {{}, {o}} :
       review' = [review EXCEPT ![read[o].run] = Reviewed(o, notes)]
  /\ Record(o)
  /\ Goto(o, "answered")
  /\ UNCHANGED <<submitted, form, runs, workVars, reqVars, history>>

(* The insert of the review row fails, and with it the transaction.        *)
WriteFails(o) ==
  /\ pc[o] = "write" /\ doing[o] # "rerun"
  /\ ~Insertable(o)
  /\ Goto(o, "refused")
  /\ UNCHANGED <<dbVars, workVars, reqVars, history>>

Operate(o) ==
  \/ ReadCase(o)
  \/ Correct(o) \/ Reanalyse(o) \/ EnqueueRerun(o) \/ RecordRerun(o)
  \/ AddNotes(o) \/ MarkReviewed(o) \/ WriteFails(o)

----------------------------------------------------------------------------
(* The process that serves request a dies, or the broker or the database   *)
(* refuses it.                                                             *)
Die(a) ==
  /\ pc[a] \notin {"start", "answered", "refused", "dead"}
  /\ Goto(a, "dead")
  /\ UNCHANGED <<dbVars, workVars, reqVars, history>>

(* A worker takes run r, and its normalize stage reads the submission.  A  *)
(* run that is not in the database is dropped.                             *)
TakeRun(r) ==
  /\ r \in queue
  /\ queue' = queue \ {r}
  /\ IF Created(r)
       THEN /\ input' = [input EXCEPT ![r] = form[runs[r].of]]
            /\ taken' = taken \cup {r}
       ELSE UNCHANGED <<input, taken>>
  /\ UNCHANGED <<dbVars, pc, reqVars, history>>

Next ==
  \/ \E c \in Clients : Submit(c)
  \/ \E o \in Operators : Operate(o)
  \/ \E a \in Requests : Die(a)
  \/ \E r \in Requests : TakeRun(r)

(* A request that was made is served, or dies; a worker takes what is in   *)
(* the queue.                                                              *)
Fairness ==
  /\ \A c \in Clients : WF_vars(pc[c] # "start" /\ Submit(c))
  /\ \A o \in Operators : WF_vars(pc[o] # "start" /\ Operate(o))
  /\ \A r \in Requests : WF_vars(TakeRun(r))

Spec == Init /\ [][Next]_vars /\ Fairness

----------------------------------------------------------------------------
(* Properties.                                                             *)

(* However the requests with one idempotency key overlap, every client     *)
(* that is answered hears of the same submission.                          *)
OneSubmission ==
  \A c, d \in Clients :
    answer[c] # NoOne /\ answer[d] # NoOne =>
      runs[answer[c]].of = runs[answer[d]].of

(* The run that a correction triggers reads the corrected value, or that   *)
(* of a correction that was not committed when this one began: never the   *)
(* value that the operator saw and corrected.                              *)
RerunSeesCorrections ==
  \A o \in corrections \cap taken : \A f \in Corrected[o] :
    input[o][f] = o \/ input[o][f] \in corrections \ began[o]

(* A run that a client was told of is taken up, unless the request that    *)
(* created it died before it was enqueued.                                 *)
AcceptedRunsStart ==
  \A c \in Clients : \A r \in Requests :
    (answer[c] = r) ~> (r \in taken \/ pc[r] = "dead")

(* "To tolerate retries" (models/submission.py): a run that a client was   *)
(* told of has been taken up, is in the queue, or is about to be.  It does *)
(* not hold: a submission may die before it enqueues its run.              *)
RetryFindsLiveRun ==
  \A c \in Clients :
    answer[c] # NoOne => \/ answer[c] \in taken \cup queue
                         \/ pc[answer[c]] \in {"record", "enqueue"}

(* "If a Review row exists for the run, the notes are appended": the notes *)
(* of a request that was answered, and audited, stay in the review.        *)
NotesKept ==
  \A o \in Operators :
    doing[o] = "note" /\ pc[o] = "answered" => o \in review[read[o].run].notes

=============================================================================
