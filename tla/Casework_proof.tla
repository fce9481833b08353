--------------------------- MODULE Casework_proof ---------------------------
(***************************************************************************)
(* Theorems about Casework, for any sets of clients and operators, any     *)
(* duties and any corrections.                                             *)
(***************************************************************************)
EXTENDS Casework, TLAPS

(* The unique idempotency key: at most one submission row.                 *)
OneRow == \A c, d \in submitted : c = d

(* Runs belong to a submission that is in the database, and so do those    *)
(* that requests rely on.                                                  *)
RunsExist ==
  /\ \A r \in Requests : Created(r) => runs[r].of \in submitted
  /\ \A a \in Requests : pc[a] \in {"record", "enqueue"} => Created(a)
  /\ \A c \in Clients : answer[c] # NoOne => Created(answer[c])
  /\ \A o \in Operators :
       pc[o] = "write" => read[o].run \in Requests /\ Created(read[o].run)

(* What a request has not done before its first commit.                    *)
Unborn ==
  \A o \in Operators : pc[o] \in {"start", "write"} =>
    o \notin queue \cup taken \cup corrections

(* A committed correction stays in the form until a later one replaces it: *)
(* one that was not committed when it began.                               *)
FormKept ==
  /\ \A o \in Operators : began[o] \subseteq corrections
  /\ \A o \in corrections :
       /\ Created(o)
       /\ \A f \in Corrected[o] :
            form[runs[o].of][f] \in {o} \cup (corrections \ began[o])

IInv ==
  /\ TypeOK
  /\ OneRow
  /\ RunsExist
  /\ Unborn
  /\ FormKept
  /\ RerunSeesCorrections

----------------------------------------------------------------------------

LEMMA TypeInit == Init => TypeOK
  BY CaseworkAssumption
     DEF Init, TypeOK, Run, NoRun, Review, NoReview, Pc, Duties, Requests

(* What an operator writes is a review row.                                *)
LEMMA ReviewedType ==
  ASSUME TypeOK, NEW o \in Operators, read[o].run \in Requests,
         NEW notes \in SUBSET Operators
  PROVE  Reviewed(o, notes) \in Review
<1>1. /\ read[o].review \in Review
      /\ review[read[o].run] \in Review
  BY DEF TypeOK
<1>2. Corrected[o] \subseteq Fields
  BY CaseworkAssumption
<1>3. /\ read[o].review.notes \cup notes \subseteq Operators
      /\ read[o].review.fields \cup Corrected[o] \subseteq Fields
      /\ review[read[o].run].notes \subseteq Operators
      /\ review[read[o].run].fields \subseteq Fields
  BY <1>1, <1>2 DEF Review
<1> QED
  BY <1>3 DEF Reviewed, Review

(* Type correctness, action by action.                                     *)
LEMMA TypeStep == TypeOK /\ RunsExist /\ [Next]_vars => TypeOK'
<1> SUFFICES ASSUME TypeOK, RunsExist, [Next]_vars PROVE TypeOK'
  OBVIOUS
<1> USE CaseworkAssumption DEF TypeOK, Requests, Pc, Goto
<1>1. ASSUME NEW c \in Clients, FindDuplicate(c) PROVE TypeOK'
  BY <1>1 DEF FindDuplicate, Answer, Run, NoRun, dbVars, workVars, history
<1>2. ASSUME NEW c \in Clients, FindNone(c) PROVE TypeOK'
  BY <1>2 DEF FindNone, dbVars, workVars, reqVars, history
<1>3. ASSUME NEW c \in Clients, InsertSubmission(c) PROVE TypeOK'
  BY <1>3 DEF InsertSubmission, NewRun, Run, workVars, reqVars, history
<1>4. ASSUME NEW c \in Clients, InsertFails(c) PROVE TypeOK'
  BY <1>4 DEF InsertFails, dbVars, workVars, reqVars, history
<1>5. ASSUME NEW c \in Clients, RecordSubmission(c) PROVE TypeOK'
  BY <1>5 DEF RecordSubmission, Record, workVars, reqVars, history
<1>6. ASSUME NEW c \in Clients, EnqueueSubmission(c) PROVE TypeOK'
  BY <1>6 DEF EnqueueSubmission, Enqueue, Answer, dbVars, history
<1>7. ASSUME NEW o \in Operators, ReadCase(o) PROVE TypeOK'
  BY <1>7 DEF ReadCase, Created, Review, dbVars, workVars
<1>8. ASSUME NEW o \in Operators, Correct(o) PROVE TypeOK'
  <2> DEFINE c == runs[read[o].run].of
  <2>1. read[o].run \in Requests /\ Created(read[o].run)
    BY <1>8 DEF Correct, RunsExist
  <2>2. c \in Clients
    BY <2>1 DEF Created, Run
  <2>3. form' \in [Clients -> [Fields -> Requests]]
    <3>1. [f \in Fields |-> IF f \in Corrected[o] THEN o ELSE form[c][f]]
            \in [Fields -> Requests]
      BY <2>2
    <3> QED
      BY <1>8, <2>2, <3>1 DEF Correct
  <2>4. runs' \in [Requests -> Run]
    BY <1>8, <2>1, <2>2 DEF Correct, NewRun, Run
  <2>5. review' \in [Requests -> Review]
    <3>1. PICK notes \in {{}, {o}} :
            review' = [review EXCEPT ![read[o].run] = Reviewed(o, notes)]
      BY <1>8 DEF Correct
    <3> QED
      BY <2>1, <3>1, ReviewedType
  <2> QED
    BY <1>8, <2>3, <2>4, <2>5 DEF Correct, dbVars, workVars, reqVars
<1>9. ASSUME NEW o \in Operators, Reanalyse(o) PROVE TypeOK'
  <2>1. read[o].run \in Requests /\ Created(read[o].run)
    BY <1>9 DEF Reanalyse, RunsExist
  <2>2. runs[read[o].run].of \in Clients
    BY <2>1 DEF Created, Run
  <2> QED
    BY <1>9, <2>1, <2>2 DEF Reanalyse, NewRun, Run, workVars, reqVars, history
<1>10. ASSUME NEW o \in Operators, EnqueueRerun(o) PROVE TypeOK'
  BY <1>10 DEF EnqueueRerun, Enqueue, dbVars, reqVars, history
<1>11. ASSUME NEW o \in Operators, RecordRerun(o) PROVE TypeOK'
  BY <1>11 DEF RecordRerun, Record, workVars, reqVars, history
<1>12. ASSUME NEW o \in Operators, AddNotes(o) PROVE TypeOK'
  <2>1. read[o].run \in Requests
    BY <1>12 DEF AddNotes, RunsExist
  <2>2. Reviewed(o, {o}) \in Review
    BY <2>1, ReviewedType
  <2> QED
    BY <1>12, <2>1, <2>2 DEF AddNotes, Record, workVars, reqVars, history
<1>13. ASSUME NEW o \in Operators, MarkReviewed(o) PROVE TypeOK'
  <2>1. PICK notes \in {{}, {o}} :
          review' = [review EXCEPT ![read[o].run] = Reviewed(o, notes)]
    BY <1>13 DEF MarkReviewed
  <2>2. read[o].run \in Requests
    BY <1>13 DEF MarkReviewed, RunsExist
  <2>3. Reviewed(o, notes) \in Review
    BY <2>2, ReviewedType
  <2> QED
    BY <1>13, <2>1, <2>2, <2>3
       DEF MarkReviewed, Record, workVars, reqVars, history
<1>14. ASSUME NEW o \in Operators, WriteFails(o) PROVE TypeOK'
  BY <1>14 DEF WriteFails, dbVars, workVars, reqVars, history
<1>15. ASSUME NEW a \in Requests, Die(a) PROVE TypeOK'
  BY <1>15 DEF Die, dbVars, workVars, reqVars, history
<1>16. ASSUME NEW r \in Requests, TakeRun(r) PROVE TypeOK'
  <2>1. CASE Created(r)
    <3>1. form[runs[r].of] \in [Fields -> Requests \cup {NoOne}]
      BY <2>1 DEF Created, Run
    <3> QED
      BY <1>16, <2>1, <3>1 DEF TakeRun, dbVars, reqVars, history
  <2>2. CASE ~Created(r)
    BY <1>16, <2>2 DEF TakeRun, dbVars, reqVars, history
  <2> QED
    BY <2>1, <2>2
<1>17. CASE UNCHANGED vars
  BY <1>17 DEF vars, dbVars, workVars, reqVars, history
<1>18. QED
  BY <1>1, <1>2, <1>3, <1>4, <1>5, <1>6, <1>7, <1>8, <1>9, <1>10, <1>11, <1>12,
     <1>13, <1>14, <1>15, <1>16, <1>17 DEF Next, Submit, Operate

----------------------------------------------------------------------------
(* What holds at the start.                                                *)
LEMMA InvInit == Init => IInv
<1> SUFFICES ASSUME Init PROVE IInv
  OBVIOUS
<1>1. TypeOK
  BY TypeInit
<1>2. \A r \in Requests : ~Created(r)
  BY DEF Init, Created
<1>3. OneRow
  BY DEF Init, OneRow
<1>4. RunsExist
  BY <1>2, CaseworkAssumption DEF Init, RunsExist, Requests
<1>5. Unborn
  BY DEF Init, Unborn
<1>6. FormKept /\ RerunSeesCorrections
  BY DEF Init, FormKept, RerunSeesCorrections
<1> QED
  BY <1>1, <1>3, <1>4, <1>5, <1>6 DEF IInv

(* The rest of the invariant, action by action.                            *)
LEMMA InvStep == IInv /\ [Next]_vars => IInv'
<1> SUFFICES ASSUME IInv, [Next]_vars PROVE IInv'
  OBVIOUS
<1> DEFINE Rest == /\ OneRow /\ RunsExist /\ Unborn /\ FormKept
                   /\ RerunSeesCorrections
<1>0. TypeOK'
  BY TypeStep DEF IInv
<1> USE CaseworkAssumption, <1>0 DEF IInv, TypeOK, Requests, Goto, Created
<1>1. ASSUME NEW c \in Clients, FindDuplicate(c) PROVE Rest'
  BY <1>1 DEF FindDuplicate, Answer, dbVars, workVars, history, Run, NoRun,
     OneRow, RunsExist, Unborn, FormKept, RerunSeesCorrections
<1>2. ASSUME NEW c \in Clients, FindNone(c) PROVE Rest'
  BY <1>2 DEF FindNone, dbVars, workVars, reqVars, history, OneRow, RunsExist,
     Unborn, FormKept, RerunSeesCorrections
<1>3. ASSUME NEW c \in Clients, InsertSubmission(c) PROVE Rest'
  BY <1>3 DEF InsertSubmission, NewRun, workVars, reqVars, history, Run, NoRun,
     OneRow, RunsExist, Unborn, FormKept, RerunSeesCorrections
<1>4. ASSUME NEW c \in Clients, InsertFails(c) PROVE Rest'
  BY <1>4 DEF InsertFails, dbVars, workVars, reqVars, history, OneRow,
     RunsExist, Unborn, FormKept, RerunSeesCorrections
<1>5. ASSUME NEW c \in Clients, RecordSubmission(c) PROVE Rest'
  BY <1>5 DEF RecordSubmission, Record, workVars, reqVars, history, OneRow,
     RunsExist, Unborn, FormKept, RerunSeesCorrections
<1>6. ASSUME NEW c \in Clients, EnqueueSubmission(c) PROVE Rest'
  BY <1>6 DEF EnqueueSubmission, Enqueue, Answer, dbVars, history, OneRow,
     RunsExist, Unborn, FormKept, RerunSeesCorrections
<1>7. ASSUME NEW o \in Operators, ReadCase(o) PROVE Rest'
  BY <1>7 DEF ReadCase, dbVars, workVars, OneRow, RunsExist, Unborn, FormKept,
     RerunSeesCorrections
<1>8. ASSUME NEW o \in Operators, Correct(o) PROVE Rest'
  <2>1. OneRow'
    BY <1>8 DEF Correct, NewRun, workVars, reqVars, OneRow
  <2>2. RunsExist'
    BY <1>8 DEF Correct, NewRun, workVars, reqVars, RunsExist, Run, NoRun
  <2>3. Unborn'
    BY <1>8 DEF Correct, NewRun, workVars, reqVars, Unborn
  <2>4. FormKept'
    <3> DEFINE c == runs[read[o].run].of
    <3>1. /\ read[o].run \in Requests /\ Created(read[o].run)
          /\ c \in Clients /\ c \in submitted
      BY <1>8 DEF Correct, RunsExist, Run
    <3>2. o \notin corrections
      BY <1>8 DEF Correct, Unborn
    <3>3. \A p \in corrections : p # o /\ Created(p) /\ runs[p].of = c
      BY <3>1, <3>2 DEF FormKept, RunsExist, OneRow
    <3>4. /\ runs' = [runs EXCEPT ![o] = [of |-> c, supersedes |-> read[o].run]]
          /\ corrections' = corrections \cup {o}
          /\ began' = began
      BY <1>8 DEF Correct, NewRun
    <3>5. Created(o)' /\ runs'[o].of = c
      BY <3>1, <3>4 DEF NoRun
    <3>6. \A p \in corrections : Created(p)' /\ runs'[p].of = c
      BY <3>3, <3>4
    <3>7. \A f \in Fields :
            form'[c][f] = IF f \in Corrected[o] THEN o ELSE form[c][f]
      BY <1>8, <3>1 DEF Correct
    <3>8. o \notin began[o] /\ \A p \in corrections : o \notin began[p]
      BY <3>2 DEF FormKept
    <3>9. \A f \in Corrected[o] : form'[c][f] = o
      BY <3>7
    <3>10. ASSUME NEW p \in corrections, NEW f \in Corrected[p]
           PROVE  form'[c][f] \in {p} \cup (corrections' \ began[p])
      <4>1. f \in Fields
        OBVIOUS
      <4>2. form[c][f] \in {p} \cup (corrections \ began[p])
        BY <3>3 DEF FormKept
      <4> QED
        BY <4>1, <4>2, <3>4, <3>7, <3>8
    <3>11. \A p \in Operators : began'[p] \subseteq corrections'
      BY <3>4 DEF FormKept
    <3>12. \A p \in corrections' :
             /\ Created(p)'
             /\ \A f \in Corrected[p] :
                  form'[runs'[p].of][f] \in {p} \cup (corrections' \ began'[p])
      BY <3>4, <3>5, <3>6, <3>9, <3>10
    <3> QED
      BY <3>11, <3>12 DEF FormKept
  <2>5. RerunSeesCorrections'
    BY <1>8 DEF Correct, NewRun, workVars, reqVars, RerunSeesCorrections,
       FormKept, Unborn
  <2> QED
    BY <2>1, <2>2, <2>3, <2>4, <2>5
<1>9. ASSUME NEW o \in Operators, Reanalyse(o) PROVE Rest'
  BY <1>9 DEF Reanalyse, NewRun, workVars, reqVars, history, Run, NoRun,
     OneRow, RunsExist, Unborn, FormKept, RerunSeesCorrections
<1>10. ASSUME NEW o \in Operators, EnqueueRerun(o) PROVE Rest'
  BY <1>10 DEF EnqueueRerun, Enqueue, dbVars, reqVars, history, OneRow,
     RunsExist, Unborn, FormKept, RerunSeesCorrections
<1>11. ASSUME NEW o \in Operators, RecordRerun(o) PROVE Rest'
  BY <1>11 DEF RecordRerun, Record, workVars, reqVars, history, OneRow,
     RunsExist, Unborn, FormKept, RerunSeesCorrections
<1>12. ASSUME NEW o \in Operators, AddNotes(o) PROVE Rest'
  BY <1>12 DEF AddNotes, Record, workVars, reqVars, history, OneRow, RunsExist,
     Unborn, FormKept, RerunSeesCorrections
<1>13. ASSUME NEW o \in Operators, MarkReviewed(o) PROVE Rest'
  BY <1>13 DEF MarkReviewed, Record, workVars, reqVars, history, OneRow,
     RunsExist, Unborn, FormKept, RerunSeesCorrections
<1>14. ASSUME NEW o \in Operators, WriteFails(o) PROVE Rest'
  BY <1>14 DEF WriteFails, dbVars, workVars, reqVars, history, OneRow,
     RunsExist, Unborn, FormKept, RerunSeesCorrections
<1>15. ASSUME NEW a \in Requests, Die(a) PROVE Rest'
  BY <1>15 DEF Die, dbVars, workVars, reqVars, history, OneRow, RunsExist,
     Unborn, FormKept, RerunSeesCorrections
<1>16. ASSUME NEW r \in Requests, TakeRun(r) PROVE Rest'
  <2>1. OneRow'
    BY <1>16 DEF TakeRun, dbVars, reqVars, history, OneRow
  <2>2. RunsExist'
    BY <1>16 DEF TakeRun, dbVars, reqVars, history, RunsExist
  <2>3. Unborn'
    BY <1>16 DEF TakeRun, dbVars, reqVars, history, Unborn
  <2>4. FormKept'
    BY <1>16 DEF TakeRun, dbVars, reqVars, history, FormKept
  <2>5. RerunSeesCorrections'
    BY <1>16 DEF TakeRun, dbVars, reqVars, history, RerunSeesCorrections,
       FormKept, Unborn
  <2> QED
    BY <2>1, <2>2, <2>3, <2>4, <2>5
<1>17. CASE UNCHANGED vars
  BY <1>17 DEF vars, dbVars, workVars, reqVars, history, OneRow, RunsExist,
     Unborn, FormKept, RerunSeesCorrections
<1>18. QED
  BY <1>1, <1>2, <1>3, <1>4, <1>5, <1>6, <1>7, <1>8, <1>9, <1>10, <1>11, <1>12,
     <1>13, <1>14, <1>15, <1>16, <1>17 DEF Next, Submit, Operate

----------------------------------------------------------------------------
(* The invariant holds in every reachable state.                           *)
THEOREM Invariance == Spec => []IInv
<1>1. Init => IInv
  BY InvInit
<1>2. IInv /\ [Next]_vars => IInv'
  BY InvStep
<1> QED
  BY <1>1, <1>2, PTL DEF Spec

(* Every variable keeps its type.                                          *)
THEOREM TypeCorrect == Spec => []TypeOK
<1>1. IInv => TypeOK
  BY DEF IInv
<1> QED
  BY Invariance, <1>1, PTL

(* Clients with one idempotency key hear of one submission, however many   *)
(* of them there are: every answer names a run (RunsExist) of the only     *)
(* submission there is (OneRow).                                           *)
THEOREM RetriesShareSubmission == Spec => []OneSubmission
<1>1. IInv => OneSubmission
  BY DEF IInv, OneRow, RunsExist, OneSubmission, TypeOK
<1> QED
  BY Invariance, <1>1, PTL

(* The run that a correction triggers never reads the value corrected.     *)
THEOREM CorrectionsReachRuns == Spec => []RerunSeesCorrections
<1>1. IInv => RerunSeesCorrections
  BY DEF IInv
<1> QED
  BY Invariance, <1>1, PTL

=============================================================================
